---------------------------- MODULE PtydPane_proofs ----------------------------
(* What holds of a pane's threads for every number of clients, every queue   *)
(* length and any amount of output.                                          *)
EXTENDS PtydPane, SequenceTheorems, TLAPS

(* The types of the records, so that the provers see them as wholes.         *)
Children == [alive : BOOLEAN, open : BOOLEAN, made : Chunks]
Panes == [fed : Chunks, shown : Chunks, sync : BOOLEAN, dirty : BOOLEAN, seq : Chunks,
          alive : BOOLEAN, killed : BOOLEAN]
Watches == [seq : Chunks, exited : BOOLEAN, gone : BOOLEAN]
ConnPcs == {"off", "on", "closing", "ended"}
Conns == [pc : ConnPcs, subscribed : BOOLEAN, queue : Seq(Items), lagged : BOOLEAN, view : Chunks,
          torn : BOOLEAN, last : Chunks, exit : BOOLEAN]
TaskPcs == {"sleep", "woken", "final", "create", "rename", "over"}
Tasks == [pc : TaskPcs, permit : BOOLEAN, timer : BOOLEAN, presenting : BOOLEAN, ck : Chunks,
          seq : Chunks \union {None}, last : BOOLEAN, failed : BOOLEAN]
Finals == [pc : {"no", "create", "rename", "kill"}, ck : Chunks, kill : {"no", "clear", "signal", "done"}]
Files == Chunks \union {None, Mixed}

Typed ==
    /\ may \in Scenarios /\ child \in Children
    /\ reader \in {"running", "eof"} /\ waiter \in {"waiting", "drained", "gaveup"}
    /\ pane \in Panes /\ frames \in Watches /\ conn \in [Clients -> Conns]
    /\ \A c \in Clients : Len(conn[c].queue) <= Depth
    /\ task \in Tasks /\ final \in Finals /\ {tmp, disk} \subseteq Files

(* What the emulator shows is behind what it was fed by an update that has   *)
(* begun, and its seq is behind that as long as it is dirty.                 *)
Order(p) == /\ p.seq <= p.shown /\ p.shown <= p.fed
            /\ ~p.sync => p.shown = p.fed
            /\ ~p.dirty => p.seq = p.shown

(* The end of a process: nothing is written to a closed terminal, and the    *)
(* waiter that did not give up has waited for the reader.                    *)
Endings ==
    /\ pane.fed <= child.made
    /\ child.alive => child.open
    /\ reader = "eof" => ~child.open /\ pane.fed = child.made
    /\ waiter = "drained" => reader = "eof"
    /\ frames.exited => waiter # "waiting"
    /\ frames.gone \/ final.kill \in {"clear", "signal"} => pane.killed

Base == Typed /\ Order(pane) /\ Endings

LEMMA TypedIsTypeOK == Base => TypeOK
  BY DEF Clients, Base, Typed, Order, Endings, TypeOK, Children, Panes, Watches, ConnPcs, Conns, TaskPcs, Tasks, Finals, Files

-----------------------------------------------------------------------------
(* The operators on a pane, a task and a client.                             *)

LEMMA SettledIs ==
    ASSUME NEW p \in Panes
    PROVE  /\ Settled(p) \in Panes /\ Settled(p).fed = p.fed /\ Settled(p).shown = p.shown
           /\ Settled(p).sync = p.sync /\ Settled(p).alive = p.alive /\ Settled(p).killed = p.killed
           /\ ~Settled(p).dirty /\ Settled(p).seq = (IF p.dirty THEN p.shown ELSE p.seq)
           /\ ~p.dirty => Settled(p) = p
           /\ Order(p) => Order(Settled(p))
  <1>1. CASE p.dirty
    <2>. DEFINE q == [p EXCEPT !.dirty = FALSE, !.seq = p.shown]
    <2>1. Settled(p) = q
      BY <1>1 DEF Settled
    <2>2. q \in Panes
      BY Zenon DEF Panes
    <2>3. /\ q.fed = p.fed /\ q.shown = p.shown /\ q.sync = p.sync /\ q.alive = p.alive
          /\ q.killed = p.killed /\ q.dirty = FALSE /\ q.seq = p.shown
      BY DEF Panes
    <2>4. p.shown \in Nat
      BY DEF Panes, Chunks
    <2>. HIDE DEF q
    <2>. QED  BY <1>1, <2>1, <2>2, <2>3, <2>4 DEF Order
  <1>2. CASE ~p.dirty
    BY <1>2 DEF Settled
  <1>. QED  BY <1>1, <1>2

LEMMA FlushedIs ==
    ASSUME NEW p \in Panes
    PROVE  /\ Flushed(p) \in Panes /\ Flushed(p).fed = p.fed /\ ~Flushed(p).sync
           /\ Flushed(p).alive = p.alive /\ Flushed(p).killed = p.killed
           /\ ~p.sync => Flushed(p) = p
           /\ Order(p) => Order(Flushed(p))
  <1>1. CASE p.sync
    <2>. DEFINE q == [p EXCEPT !.sync = FALSE, !.shown = p.fed, !.dirty = TRUE]
    <2>1. Flushed(p) = q
      BY <1>1 DEF Flushed
    <2>2. q \in Panes
      BY Zenon DEF Panes
    <2>3. /\ q.fed = p.fed /\ q.shown = p.fed /\ q.sync = FALSE /\ q.alive = p.alive
          /\ q.killed = p.killed /\ q.dirty = TRUE /\ q.seq = p.seq
      BY DEF Panes
    <2>4. p.fed \in Nat /\ p.shown \in Nat /\ p.seq \in Nat
      BY DEF Panes, Chunks
    <2>. HIDE DEF q
    <2>. QED  BY <1>1, <2>1, <2>2, <2>3, <2>4 DEF Order
  <1>2. CASE ~p.sync
    BY <1>2 DEF Flushed
  <1>. QED  BY <1>1, <1>2

LEMMA PokedIs ==
    ASSUME NEW t \in Tasks
    PROVE  /\ Poked(t) \in Tasks /\ Poked(t).permit /\ Poked(t).pc = t.pc /\ Poked(t).seq = t.seq
           /\ Poked(t).ck = t.ck /\ Poked(t).failed = t.failed
  BY DEF Poked, Tasks

LEMMA PushIs ==
    ASSUME NEW k \in Conns, Len(k.queue) <= Depth, NEW n \in Chunks, NEW shown \in Chunks
    PROVE  /\ Push(k, n, shown) \in Conns /\ Len(Push(k, n, shown).queue) <= Depth
           /\ Push(k, n, shown).pc = k.pc /\ Push(k, n, shown).subscribed = k.subscribed
           /\ Push(k, n, shown).view = k.view /\ Push(k, n, shown).exit = k.exit
           /\ ~k.subscribed => Push(k, n, shown) = k
           /\ k.subscribed =>
                \/ Push(k, n, shown).lagged /\ Push(k, n, shown).queue = k.queue
                   /\ Push(k, n, shown).torn = k.torn
                \/ Push(k, n, shown).queue = Append(k.queue, <<"bytes", n>>)
                   /\ ~k.lagged /\ Push(k, n, shown).torn = k.torn
                \/ Push(k, n, shown).queue = Append(k.queue, <<"paint", shown>>)
                   /\ (Push(k, n, shown).torn \/ (~k.torn /\ shown = n))
  <1>0. k.queue \in Seq(Items) /\ Len(k.queue) \in Nat /\ Depth \in Nat
    BY ConstantsAssumption DEF Conns
  <1>1. CASE ~k.subscribed
    BY <1>1 DEF Push
  <1>2. CASE k.subscribed /\ Len(k.queue) = Depth
    <2>. DEFINE q == [k EXCEPT !.lagged = TRUE]
    <2>1. Push(k, n, shown) = q
      BY <1>2 DEF Push
    <2>2. q \in Conns
      BY Zenon DEF Conns
    <2>3. /\ q.pc = k.pc /\ q.subscribed = k.subscribed /\ q.view = k.view /\ q.exit = k.exit
          /\ q.queue = k.queue /\ q.lagged = TRUE /\ q.torn = k.torn
      BY DEF Conns
    <2>. HIDE DEF q
    <2>. QED  BY <1>2, <2>1, <2>2, <2>3
  <1>3. CASE k.subscribed /\ Len(k.queue) # Depth
    <2>. DEFINE x == IF k.lagged THEN <<"paint", shown>> ELSE <<"bytes", n>>
                torn == IF k.lagged THEN k.torn \/ shown # n ELSE k.torn
                queue == Append(k.queue, x)
                q == [k EXCEPT !.lagged = FALSE, !.queue = queue, !.torn = torn]
    <2>0. x \in Items
      BY DEF Items
    <2>. HIDE DEF x
    <2>1. queue \in Seq(Items) /\ Len(queue) = Len(k.queue) + 1
      BY <1>0, <2>0
    <2>2. torn \in BOOLEAN
      BY DEF Conns
    <2>. HIDE DEF queue, torn
    <2>3. q \in Conns
      BY <2>1, <2>2, Zenon DEF Conns
    <2>4. /\ q.pc = k.pc /\ q.subscribed = k.subscribed /\ q.view = k.view /\ q.exit = k.exit
          /\ q.queue = queue /\ q.torn = torn
      BY DEF Conns
    <2>5. Push(k, n, shown) = q
      <3>1. CASE k.lagged
        BY <1>3, <3>1 DEF Push, x, queue, torn
      <3>2. CASE ~k.lagged
        <4>1. k.lagged = FALSE
          BY <3>2 DEF Conns
        <4>. QED  BY <1>3, <3>2, <4>1 DEF Push, x, queue, torn, Conns
      <3>. QED  BY <3>1, <3>2
    <2>. HIDE DEF q
    <2>6. Len(queue) <= Depth
      BY <1>0, <1>3, <2>1
    <2>. QED  BY <1>3, <2>3, <2>4, <2>5, <2>6 DEF x, queue, torn
  <1>. QED  BY <1>1, <1>2, <1>3

(* What one step of a connection makes of it.                                *)
Started(k, n) == [k EXCEPT !.pc = "on", !.subscribed = TRUE, !.queue = << <<"paint", n>> >>]
Sent(k) == [k EXCEPT !.view = Head(k.queue)[2], !.queue = Tail(@)]
Heard(k) == [k EXCEPT !.pc = "ended", !.subscribed = FALSE, !.exit = TRUE]

LEMMA EndedIs == Ended \in Conns /\ Len(Ended.queue) = 0
  <1>1. <<>> \in Seq(Items) /\ 0 \in Chunks
    BY ConstantsAssumption DEF Chunks
  <1>2. Ended.queue = <<>>
    BY DEF Ended
  <1>3. Ended \in Conns
    BY <1>1, Zenon DEF Ended, Conns, ConnPcs
  <1>. QED  BY <1>2, <1>3

LEMMA ConnSteps ==
    ASSUME NEW k \in Conns, NEW n \in Chunks
    PROVE  /\ Started(k, n) \in Conns /\ Heard(k) \in Conns /\ SawExit(k) \in Conns
           /\ [k EXCEPT !.subscribed = FALSE] \in Conns
           /\ [k EXCEPT !.pc = "on", !.last = n] \in Conns
           /\ \A b \in BOOLEAN : [k EXCEPT !.last = n, !.exit = b] \in Conns
           /\ k.queue # <<>> => Sent(k) \in Conns
  <1>1. << <<"paint", n>> >> \in Seq(Items)
    BY DEF Items
  <1>2. Started(k, n) \in Conns
    BY <1>1, Zenon DEF Started, Conns, ConnPcs
  <1>3. Heard(k) \in Conns /\ SawExit(k) \in Conns /\ [k EXCEPT !.subscribed = FALSE] \in Conns
    BY Zenon DEF Heard, SawExit, Conns, ConnPcs
  <1>4. [k EXCEPT !.pc = "on", !.last = n] \in Conns /\ \A b \in BOOLEAN : [k EXCEPT !.last = n, !.exit = b] \in Conns
    BY Zenon DEF Conns, ConnPcs
  <1>5. ASSUME k.queue # <<>> PROVE Sent(k) \in Conns
    <2>1. k.queue \in Seq(Items)
      BY DEF Conns
    <2>2. Head(k.queue) \in Items /\ Tail(k.queue) \in Seq(Items)
      BY <1>5, <2>1
    <2>3. Head(k.queue)[2] \in Chunks
      BY <2>2 DEF Items
    <2>. QED  BY <2>2, <2>3, Zenon DEF Sent, Conns
  <1>. QED  BY <1>2, <1>3, <1>4, <1>5

LEMMA ConnFields ==
    ASSUME NEW k \in Conns, NEW n \in Chunks
    PROVE  /\ Started(k, n).pc = "on" /\ Started(k, n).subscribed /\ Started(k, n).queue = << <<"paint", n>> >>
           /\ Started(k, n).lagged = k.lagged /\ Started(k, n).torn = k.torn /\ Started(k, n).exit = k.exit
           /\ Started(k, n).view = k.view
           /\ Heard(k).pc = "ended" /\ ~Heard(k).subscribed /\ Heard(k).queue = k.queue /\ Heard(k).exit
           /\ Heard(k).lagged = k.lagged /\ Heard(k).torn = k.torn /\ Heard(k).view = k.view
           /\ SawExit(k).pc = "closing" /\ SawExit(k).subscribed = k.subscribed /\ SawExit(k).queue = k.queue
           /\ SawExit(k).lagged = k.lagged /\ SawExit(k).torn = k.torn /\ SawExit(k).exit = k.exit
           /\ SawExit(k).view = k.view
           /\ Sent(k).pc = k.pc /\ Sent(k).subscribed = k.subscribed /\ Sent(k).queue = Tail(k.queue)
           /\ Sent(k).lagged = k.lagged /\ Sent(k).torn = k.torn /\ Sent(k).exit = k.exit
           /\ Sent(k).view = Head(k.queue)[2]
  BY DEF Started, Heard, SawExit, Sent, Conns

LEMMA SetIs ==
    ASSUME Typed, NEW c \in Clients, NEW k \in Conns, Set(c, k), Len(k.queue) <= Depth
    PROVE  /\ conn' \in [Clients -> Conns] /\ \A d \in Clients : Len(conn'[d].queue) <= Depth
           /\ conn'[c] = k /\ \A d \in Clients \ {c} : conn'[d] = conn[d]
  BY DEF Typed, Set, Clients

-----------------------------------------------------------------------------
(* Types, and the order of what was written, fed, shown and settled.         *)

LEMMA BaseKeptByProcess == ASSUME Base, ProcessNext PROVE Base'
  <1>0. child \in Children /\ pane \in Panes /\ MaxOut \in Nat
    BY ConstantsAssumption DEF Base, Typed
  <1>1. child' \in Children
    <2>1. CASE Write
      <3>1. child.made + 1 \in Chunks
        BY <1>0, <2>1 DEF Write, Children, Chunks
      <3>. QED  BY <1>0, <2>1, <3>1, Zenon DEF Write, Children
    <2>2. CASE Exit \/ Close
      BY <1>0, <2>2, Zenon DEF Exit, Close, Children
    <2>. QED  BY <2>1, <2>2 DEF ProcessNext
  <1>2. /\ child.made <= child'.made /\ (reader = "eof" => child'.made = child.made)
        /\ child'.alive => child'.open
        /\ ~child.open => ~child'.open
    <2>0. child.made \in Nat
      BY <1>0 DEF Children, Chunks
    <2>1. CASE Write
      <3>1. child'.made = child.made + 1 /\ child'.alive = child.alive /\ child'.open = child.open /\ child.open
        BY <1>0, <2>1 DEF Write, Children
      <3>. QED  BY <2>0, <3>1 DEF Base, Endings
    <2>2. CASE Exit \/ Close
      <3>1. child'.made = child.made /\ ~child'.alive /\ (~child.open => ~child'.open)
        BY <1>0, <2>2 DEF Exit, Close, Children, Base, Endings
      <3>. QED  BY <2>0, <3>1
    <2>. QED  BY <2>1, <2>2 DEF ProcessNext
  <1>3. Endings'
    <2>1. UNCHANGED <<pane, reader, waiter, frames, final>>
      BY DEF ProcessNext, Write, Exit, Close
    <2>2. pane.fed \in Nat /\ child.made \in Nat /\ child'.made \in Nat
      BY <1>0, <1>1 DEF Panes, Children, Chunks
    <2>. QED  BY <1>2, <2>1, <2>2 DEF Base, Endings
  <1>. QED  BY <1>1, <1>3 DEF Base, Typed, ProcessNext, Write, Exit, Close

LEMMA BaseKeptByReader == ASSUME Base, ReaderNext PROVE Base'
  <1>0. child \in Children /\ pane \in Panes /\ task \in Tasks /\ conn \in [Clients -> Conns]
    BY DEF Base, Typed
  <1>1. CASE Ingest
    <2>1. PICK s \in BOOLEAN :
             LET n == pane.fed + 1
                 shown == IF s THEN pane.shown ELSE n
             IN /\ pane' = [pane EXCEPT !.fed = n, !.shown = shown, !.sync = s, !.dirty = TRUE]
                /\ conn' = [c \in Clients |-> Push(conn[c], n, shown)]
      BY <1>1 DEF Ingest
    <2>. DEFINE n == pane.fed + 1
                shown == IF s THEN pane.shown ELSE n
    <2>2. n \in Chunks /\ shown \in Chunks /\ n <= child.made /\ pane.seq <= shown /\ shown <= n /\ (~s => shown = n)
      <3>1. /\ pane.fed \in Nat /\ pane.shown \in Nat /\ pane.seq \in Nat /\ child.made \in 0..MaxOut
            /\ pane.shown \in Chunks
        BY <1>0 DEF Panes, Children, Chunks
      <3>2. pane.fed < child.made /\ pane.seq <= pane.shown /\ pane.shown <= pane.fed
        BY <1>1 DEF Ingest, Base, Order
      <3>3. MaxOut \in Nat
        BY ConstantsAssumption
      <3>4. n \in Chunks /\ n <= child.made /\ n \in Nat
        BY <3>1, <3>2, <3>3 DEF Chunks
      <3>5. CASE s
        BY <3>1, <3>2, <3>4, <3>5
      <3>6. CASE ~s
        BY <3>1, <3>2, <3>4, <3>6
      <3>. QED  BY <3>5, <3>6
    <2>3. /\ pane' = [pane EXCEPT !.fed = n, !.shown = shown, !.sync = s, !.dirty = TRUE]
          /\ conn' = [c \in Clients |-> Push(conn[c], n, shown)]
      BY <2>1
    <2>. HIDE DEF n, shown
    <2>4. pane' \in Panes
      BY <1>0, <2>2, <2>3, Zenon DEF Panes
    <2>5. pane'.fed = n /\ pane'.shown = shown /\ pane'.sync = s /\ pane'.dirty /\ pane'.seq = pane.seq
          /\ pane'.killed = pane.killed
      BY <1>0, <2>3 DEF Panes
    <2>6. conn' \in [Clients -> Conns] /\ \A c \in Clients : Len(conn'[c].queue) <= Depth
      <3>1. \A c \in Clients : conn[c] \in Conns /\ Len(conn[c].queue) <= Depth
        BY <1>0 DEF Base, Typed
      <3>2. \A c \in Clients : Push(conn[c], n, shown) \in Conns /\ Len(Push(conn[c], n, shown).queue) <= Depth
        BY <2>2, <3>1, PushIs
      <3>. QED  BY <2>3, <3>2
    <2>7. Typed'
      BY <1>0, <1>1, <2>4, <2>6, PokedIs DEF Base, Typed, Ingest
    <2>8. Order(pane)'
      BY <2>2, <2>5 DEF Order
    <2>9. reader = "running" /\ pane'.fed <= child'.made /\ UNCHANGED <<child, reader, waiter, frames, final>>
      BY <1>1, <2>2, <2>5 DEF Ingest
    <2>. QED  BY <2>5, <2>7, <2>8, <2>9 DEF Base, Endings
  <1>2. CASE ReaderEof
    <2>1. UNCHANGED <<child, pane, waiter, frames>> /\ reader' = "eof" /\ task' = Poked(task)
          /\ ~child.open /\ pane.fed = child.made
      BY <1>2 DEF ReaderEof
    <2>. QED  BY <1>0, <1>2, <2>1, PokedIs DEF Base, Typed, Endings, ReaderEof
  <1>. QED  BY <1>1, <1>2 DEF ReaderNext

LEMMA SeenIs ==
    ASSUME NEW p \in Panes, Order(p)
    PROVE  /\ Seen(p) \in Panes /\ Seen(p).fed = p.fed /\ ~Seen(p).sync /\ Seen(p).killed = p.killed
           /\ Seen(p).shown = p.fed /\ ~Seen(p).dirty /\ Seen(p).alive = p.alive /\ Order(Seen(p))
           /\ ~p.sync => Seen(p) = Settled(p)
  BY SettledIs, FlushedIs DEF Seen, Order

(* Most steps leave the process, the reader and the waiter alone.            *)
LEMMA BaseStays ==
    ASSUME Base, UNCHANGED <<may, child, reader, waiter, frames>>,
           pane' = pane \/ pane' = Settled(pane) \/ pane' = Seen(pane),
           conn' \in [Clients -> Conns], \A c \in Clients : Len(conn'[c].queue) <= Depth,
           task' \in Tasks, final' \in Finals, {tmp', disk'} \subseteq Files,
           final'.kill = final.kill
    PROVE  Base'
  <1>1. pane' \in Panes /\ Order(pane') /\ pane'.fed = pane.fed /\ pane'.killed = pane.killed
    BY SettledIs, SeenIs DEF Base, Typed
  <1>. QED  BY <1>1 DEF Base, Typed, Endings

LEMMA BaseKeptByWaiter == ASSUME Base, MarkExited PROVE Base'
  <1>0. pane \in Panes /\ frames \in Watches /\ task \in Tasks
    BY DEF Base, Typed
  <1>1. pane' \in Panes /\ frames' \in Watches
    BY <1>0, Zenon DEF MarkExited, Panes, Watches
  <1>2. /\ pane'.fed = pane.fed /\ pane'.shown = pane.shown /\ pane'.seq = pane.seq
        /\ pane'.sync = pane.sync /\ pane'.dirty = pane.dirty /\ pane'.killed = pane.killed
        /\ frames'.gone = frames.gone
    BY <1>0 DEF MarkExited, Panes, Watches
  <1>3. waiter' \in {"drained", "gaveup"} /\ (waiter' = "drained" => reader = "eof")
    BY DEF MarkExited, Drained
  <1>4. Typed'
    BY <1>0, <1>1, <1>3, PokedIs DEF Base, Typed, MarkExited
  <1>5. Order(pane)'
    BY <1>2 DEF Base, Order
  <1>. QED  BY <1>2, <1>3, <1>4, <1>5 DEF Base, Endings, MarkExited

(* A connection's step: what it makes of its client, and of the pane.        *)
LEMMA ConnStep ==
    ASSUME Base, NEW c \in Clients
    PROVE  /\ SubscribeRaw(c) => pane' = Seen(pane) /\ Set(c, Started(conn[c], pane.fed))
                                 /\ Started(conn[c], pane.fed) \in Conns
                                 /\ Len(Started(conn[c], pane.fed).queue) <= Depth
           /\ SendOutput(c) => pane' = pane /\ Set(c, Sent(conn[c])) /\ Sent(conn[c]) \in Conns
                               /\ Len(Sent(conn[c]).queue) <= Depth
           /\ RawSignal(c) => pane' = pane
                 /\ \/ Set(c, Ended)
                    \/ Set(c, SawExit(conn[c])) /\ frames.exited /\ ~frames.gone
           /\ SendExited(c) => pane' = pane /\ Set(c, Heard(conn[c]))
           /\ RawOver(c) \/ Leave(c) => pane' = pane /\ Set(c, Ended)
           /\ SawExit(conn[c]) \in Conns /\ Len(SawExit(conn[c]).queue) <= Depth
           /\ Heard(conn[c]) \in Conns /\ Len(Heard(conn[c]).queue) <= Depth
           /\ Ended \in Conns /\ Len(Ended.queue) <= Depth
  <1>0. /\ conn[c] \in Conns /\ Len(conn[c].queue) <= Depth /\ pane \in Panes /\ Order(pane)
        /\ conn[c].queue \in Seq(Items) /\ Depth \in Nat \ {0}
    BY ConstantsAssumption DEF Base, Typed, Conns
  <1>1. ASSUME SubscribeRaw(c)
        PROVE  /\ pane' = Seen(pane) /\ Set(c, Started(conn[c], pane.fed))
               /\ Started(conn[c], pane.fed) \in Conns /\ Len(Started(conn[c], pane.fed).queue) <= Depth
    <2>1. pane' = Seen(pane) /\ pane'.shown = pane.fed /\ pane.fed \in Chunks
      BY <1>0, <1>1, SeenIs DEF SubscribeRaw, Panes
    <2>2. Set(c, Started(conn[c], pane.fed))
      BY <1>1, <2>1 DEF SubscribeRaw, Started
    <2>3. Started(conn[c], pane.fed) \in Conns
      BY <1>0, <2>1, ConnSteps
    <2>4. Started(conn[c], pane.fed).queue = << <<"paint", pane.fed>> >>
      BY <1>0, <2>1, ConnFields
    <2>5. Len(<< <<"paint", pane.fed>> >>) = 1
      OBVIOUS
    <2>. QED  BY <1>0, <2>1, <2>2, <2>3, <2>4, <2>5
  <1>2. ASSUME SendOutput(c)
        PROVE  /\ pane' = pane /\ Set(c, Sent(conn[c])) /\ Sent(conn[c]) \in Conns
               /\ Len(Sent(conn[c]).queue) <= Depth
    <2>1. pane' = pane /\ Set(c, Sent(conn[c])) /\ conn[c].queue # <<>>
      BY <1>2 DEF SendOutput, Sent
    <2>2. 0 \in Chunks
      BY ConstantsAssumption DEF Chunks
    <2>3. Sent(conn[c]) \in Conns
      BY <1>0, <2>1, <2>2, ConnSteps
    <2>4. Sent(conn[c]).queue = Tail(conn[c].queue)
      BY <1>0, <2>2, ConnFields
    <2>5. Len(Tail(conn[c].queue)) = Len(conn[c].queue) - 1 /\ Len(conn[c].queue) \in Nat
      BY <1>0, <2>1
    <2>. QED  BY <1>0, <2>1, <2>3, <2>4, <2>5
  <1>3. 0 \in Chunks
    BY ConstantsAssumption DEF Chunks
  <1>4. /\ SawExit(conn[c]) \in Conns /\ SawExit(conn[c]).queue = conn[c].queue
        /\ Heard(conn[c]) \in Conns /\ Heard(conn[c]).queue = conn[c].queue
    BY <1>0, <1>3, ConnSteps, ConnFields
  <1>5. /\ RawSignal(c) => pane' = pane
              /\ \/ Set(c, Ended)
                 \/ Set(c, SawExit(conn[c])) /\ frames.exited /\ ~frames.gone
        /\ SendExited(c) => pane' = pane /\ Set(c, Heard(conn[c]))
        /\ RawOver(c) \/ Leave(c) => pane' = pane /\ Set(c, Ended)
    BY DEF RawSignal, SendExited, RawOver, Leave, Heard, Signalled
  <1>. QED  BY <1>0, <1>1, <1>2, <1>4, <1>5, EndedIs

LEMMA FrameStep ==
    ASSUME Base, NEW c \in Clients, SubscribeFrames(c) \/ SendFrame(c)
    PROVE  /\ pane' = pane \/ pane' = Settled(pane)
           /\ conn' \in [Clients -> Conns] /\ \A d \in Clients : Len(conn'[d].queue) <= Depth
           /\ \A d \in Clients \ {c} : conn'[d] = conn[d]
           /\ conn'[c].pc # "on" \/ (SubscribeFrames(c) /\ conn'[c].last = pane'.seq) \/ conn[c].pc = "on"
  <1>0. /\ conn[c] \in Conns /\ Len(conn[c].queue) <= Depth /\ pane \in Panes /\ frames \in Watches /\ Typed
    BY DEF Base, Typed
  <1>1. CASE SubscribeFrames(c)
    <2>. DEFINE k == [conn[c] EXCEPT !.pc = "on", !.last = pane'.seq]
    <2>1. pane' = Settled(pane) /\ Set(c, k)
      BY <1>1 DEF SubscribeFrames
    <2>2. pane'.seq \in Chunks
      BY <1>0, <2>1, SettledIs DEF Panes
    <2>3. k \in Conns
      BY <1>0, <2>2, ConnSteps
    <2>4. k.queue = conn[c].queue /\ k.last = pane'.seq
      BY <1>0, <2>2 DEF Conns
    <2>. HIDE DEF k
    <2>. QED  BY <1>0, <1>1, <2>1, <2>3, <2>4, SetIs
  <1>2. CASE SendFrame(c) /\ Set(c, Ended)
    BY <1>0, <1>2, EndedIs, SetIs, ConstantsAssumption DEF SendFrame
  <1>3. CASE SendFrame(c) /\ ~Set(c, Ended)
    <2>. DEFINE l == IF frames.seq > conn[c].last THEN frames.seq ELSE conn[c].last
                k == [conn[c] EXCEPT !.last = l, !.exit = frames.exited]
    <2>1. Set(c, k) /\ pane' = pane /\ conn[c].pc = "on"
      BY <1>3 DEF SendFrame
    <2>2. l \in Chunks /\ frames.exited \in BOOLEAN
      BY <1>0 DEF Conns, Watches
    <2>. HIDE DEF l
    <2>3. k \in Conns
      BY <1>0, <2>2, ConnSteps
    <2>4. k.queue = conn[c].queue
      BY <1>0 DEF Conns
    <2>. HIDE DEF k
    <2>. QED  BY <1>0, <2>1, <2>3, <2>4, SetIs
  <1>. QED  BY <1>1, <1>2, <1>3

LEMMA BaseKeptByConn == ASSUME Base, ConnNext PROVE Base'
  <1>0. UNCHANGED <<may, child, reader, waiter, frames, task, final, tmp, disk>>
    BY DEF ConnNext, Leave, SubscribeRaw, SendOutput, RawSignal, SendExited, RawOver, SubscribeFrames, SendFrame
  <1>1. pane' = pane \/ pane' = Settled(pane) \/ pane' = Seen(pane)
    BY DEF ConnNext, Leave, SubscribeRaw, SendOutput, RawSignal, SendExited, RawOver, SubscribeFrames, SendFrame
  <1>2. conn' \in [Clients -> Conns] /\ \A c \in Clients : Len(conn'[c].queue) <= Depth
    <2>1. ASSUME NEW c \in Clients, SubscribeRaw(c) \/ SendOutput(c) \/ RawSignal(c) \/ SendExited(c)
                                    \/ RawOver(c) \/ Leave(c)
          PROVE  conn' \in [Clients -> Conns] /\ \A d \in Clients : Len(conn'[d].queue) <= Depth
      <3>1. PICK k \in Conns : Set(c, k) /\ Len(k.queue) <= Depth
        BY <2>1, ConnStep
      <3>. QED  BY <3>1, SetIs DEF Base
    <2>. QED  BY <2>1, FrameStep DEF ConnNext, Clients
  <1>3. task \in Tasks /\ final \in Finals /\ {tmp, disk} \subseteq Files
    BY DEF Base, Typed
  <1>. QED  BY <1>0, <1>1, <1>2, <1>3, BaseStays

(* One round of the pane task.  Without a timer it leaves a screen that is   *)
(* settled and whose checkpoint is written, or about to be.                  *)
LEMMA WorkIs ==
    ASSUME Base, Work
    PROVE  /\ pane' \in Panes /\ Order(pane') /\ pane'.fed = pane.fed /\ pane'.killed = pane.killed
           /\ pane'.alive = pane.alive
           /\ task.presenting => ~pane'.dirty
           /\ frames' = IF task.presenting THEN [frames EXCEPT !.seq = pane'.seq] ELSE frames
           /\ task' \in Tasks /\ task'.permit = task.permit /\ task'.presenting = task.presenting
           /\ task'.failed = task.failed
           /\ ~task'.timer => ~pane'.sync
           /\ task'.pc \in {"final", "create", "sleep"}
           /\ task'.pc = "final" => ~pane'.dirty /\ task'.seq = task.seq
           /\ task'.pc = "create" => /\ task'.seq = pane'.seq /\ task'.ck = pane'.shown /\ ~pane'.dirty
           /\ task'.pc = "sleep" => /\ task'.seq = task.seq /\ task.seq # None
                                    /\ ~task'.timer => ~pane'.dirty /\ task.seq = pane'.seq
  <1>0. pane \in Panes /\ Order(pane) /\ task \in Tasks /\ frames \in Watches
    BY DEF Base, Typed
  <1>1. PICK late \in BOOLEAN, due \in BOOLEAN :
             LET p0 == IF late THEN Flushed(pane) ELSE pane
                 p == IF task.presenting \/ due \/ ~pane.alive THEN Settled(p0) ELSE p0
                 fin == ~p.alive /\ ~task.last
                 wait == ~fin /\ ~due /\ Changed(p)
                 ck == ~fin /\ due /\ task.seq # p.seq
             IN /\ task.seq = None => due
                /\ pane' = p
                /\ frames' = Published(p)
                /\ task' = [task EXCEPT !.timer = p.sync \/ wait,
                                        !.pc = IF fin THEN "final" ELSE IF ck THEN "create" ELSE "sleep",
                                        !.ck = IF ck THEN p.shown ELSE @,
                                        !.seq = IF ck THEN p.seq ELSE @]
    BY DEF Work
  <1>. DEFINE p0 == IF late THEN Flushed(pane) ELSE pane
              p == IF task.presenting \/ due \/ ~pane.alive THEN Settled(p0) ELSE p0
              fin == ~p.alive /\ ~task.last
              wait == ~fin /\ ~due /\ Changed(p)
              ck == ~fin /\ due /\ task.seq # p.seq
              timer == p.sync \/ wait
              pc == IF fin THEN "final" ELSE IF ck THEN "create" ELSE "sleep"
              shown == IF ck THEN p.shown ELSE task.ck
              seq == IF ck THEN p.seq ELSE task.seq
              t == [task EXCEPT !.timer = timer, !.pc = pc, !.ck = shown, !.seq = seq]
  <1>2. (task.seq = None => due) /\ pane' = p /\ frames' = Published(p) /\ task' = t
    BY <1>1
  <1>3. p0 \in Panes /\ Order(p0) /\ p0.fed = pane.fed /\ p0.killed = pane.killed /\ p0.alive = pane.alive
    BY <1>0, FlushedIs
  <1>. HIDE DEF p0
  <1>4. /\ p \in Panes /\ Order(p) /\ p.fed = pane.fed /\ p.killed = pane.killed /\ p.alive = pane.alive
        /\ task.presenting \/ due \/ ~pane.alive => ~p.dirty
    BY <1>3, SettledIs
  <1>. HIDE DEF p
  <1>5. frames' = IF task.presenting THEN [frames EXCEPT !.seq = pane'.seq] ELSE frames
    BY <1>2 DEF Published
  <1>6. p.shown \in Chunks /\ p.seq \in Chunks /\ p.sync \in BOOLEAN /\ MaxOut \in Nat
    BY <1>4, ConstantsAssumption DEF Panes
  <1>7. timer \in BOOLEAN /\ pc \in TaskPcs /\ shown \in Chunks /\ seq \in Chunks \union {None}
    <2>1. task.ck \in Chunks /\ task.seq \in Chunks \union {None}
      BY <1>0 DEF Tasks
    <2>. QED  BY <1>6, <2>1 DEF TaskPcs
  <1>. HIDE DEF timer, pc, shown, seq
  <1>8. t \in Tasks
    BY <1>0, <1>7, Zenon DEF Tasks
  <1>9. /\ t.timer = timer /\ t.pc = pc /\ t.ck = shown /\ t.seq = seq
        /\ t.permit = task.permit /\ t.presenting = task.presenting /\ t.failed = task.failed
    BY <1>0 DEF Tasks
  <1>. HIDE DEF t
  <1>10. p.seq # None
    BY <1>6 DEF Chunks, None
  <1>11. /\ ~timer => ~p.sync
         /\ pc \in {"final", "create", "sleep"}
         /\ pc = "final" => ~p.dirty /\ seq = task.seq
         /\ pc = "create" => seq = p.seq /\ shown = p.shown /\ ~p.dirty
         /\ pc = "sleep" => /\ seq = task.seq /\ task.seq # None
                            /\ ~timer => ~p.dirty /\ task.seq = p.seq
    BY <1>2, <1>4, <1>10 DEF timer, pc, shown, seq, Changed
  <1>. QED  BY <1>2, <1>4, <1>5, <1>8, <1>9, <1>11

LEMMA WatchedIs ==
    ASSUME NEW w \in Watches, NEW n \in Chunks
    PROVE  /\ [w EXCEPT !.seq = n] \in Watches
           /\ [w EXCEPT !.seq = n].exited = w.exited /\ [w EXCEPT !.seq = n].gone = w.gone
           /\ [w EXCEPT !.seq = n].seq = n
  BY Zenon DEF Watches

LEMMA BaseKeptByTask == ASSUME Base, TaskNext PROVE Base'
  <1>0. /\ task \in Tasks /\ final \in Finals /\ {tmp, disk} \subseteq Files /\ pane \in Panes /\ Order(pane)
        /\ frames \in Watches /\ conn \in [Clients -> Conns]
        /\ \A c \in Clients : Len(conn[c].queue) <= Depth
    BY DEF Base, Typed
  <1>1. CASE Wake
    <2>1. PICK byTimer \in BOOLEAN :
            task' = [task EXCEPT !.permit = @ /\ byTimer, !.timer = FALSE,
                                 !.pc = IF pane.killed THEN "over" ELSE "woken", !.presenting = Presenting]
      BY <1>1 DEF Wake
    <2>. DEFINE b == task.permit /\ byTimer
                pc == IF pane.killed THEN "over" ELSE "woken"
    <2>2. b \in BOOLEAN /\ pc \in TaskPcs /\ Presenting \in BOOLEAN
      BY DEF TaskPcs, Presenting
    <2>3. task' = [task EXCEPT !.permit = b, !.timer = FALSE, !.pc = pc, !.presenting = Presenting]
      BY <2>1
    <2>. HIDE DEF b, pc
    <2>4. task' \in Tasks
      BY <1>0, <2>2, <2>3, Zenon DEF Tasks
    <2>. QED  BY <1>0, <1>1, <2>4, BaseStays DEF Wake
  <1>2. CASE Work
    <2>1. frames' \in Watches /\ frames'.exited = frames.exited /\ frames'.gone = frames.gone
      <3>1. pane'.seq \in Chunks
        BY <1>2, WorkIs DEF Panes
      <3>2. frames' = frames \/ frames' = [frames EXCEPT !.seq = pane'.seq]
        BY <1>2, WorkIs
      <3>. DEFINE w == [frames EXCEPT !.seq = pane'.seq]
      <3>3. w \in Watches /\ w.exited = frames.exited /\ w.gone = frames.gone
        BY <1>0, <3>1, WatchedIs
      <3>. HIDE DEF w
      <3>4. frames' = frames \/ frames' = w
        BY <3>2 DEF w
      <3>. QED  BY <1>0, <3>3, <3>4
    <2>. QED  BY <1>2, <2>1, WorkIs DEF Base, Typed, Endings, Work
  <1>3. CASE FinalSnapshot
    <2>1. pane' = Settled(pane) /\ pane'.shown \in Chunks /\ pane'.seq \in Chunks
      BY <1>0, <1>3, SettledIs DEF FinalSnapshot, Panes
    <2>2. task' \in Tasks
      BY <1>0, <1>3, <2>1, Zenon DEF FinalSnapshot, Tasks, TaskPcs
    <2>. QED  BY <1>0, <1>3, <2>1, <2>2, BaseStays DEF FinalSnapshot
  <1>4. CASE Create
    <2>1. task' \in Tasks
      BY <1>0, <1>4, Zenon DEF Create, Tasks, TaskPcs
    <2>2. {tmp', disk'} \subseteq Files
      BY <1>0, <1>4 DEF Create, Created, WriteFails, Tasks, Files
    <2>. QED  BY <1>0, <1>4, <2>1, <2>2, BaseStays DEF Create
  <1>5. CASE Rename
    <2>1. task' \in Tasks
      BY <1>0, <1>5, Zenon DEF Rename, Tasks, TaskPcs
    <2>2. {tmp', disk'} \subseteq Files
      BY <1>0, <1>5 DEF Rename, Renamed, WriteFails, Files
    <2>. QED  BY <1>0, <1>5, <2>1, <2>2, BaseStays DEF Rename
  <1>. QED  BY <1>1, <1>2, <1>3, <1>4, <1>5 DEF TaskNext

LEMMA ClearedIs ==
    ASSUME Base, KillClears
    PROVE  /\ \A c \in Clients :
                 /\ conn'[c] \in Conns /\ ~conn'[c].subscribed /\ conn'[c].queue = conn[c].queue
                 /\ conn'[c].pc = conn[c].pc /\ conn'[c].exit = conn[c].exit /\ conn'[c].view = conn[c].view
                 /\ conn'[c].lagged = conn[c].lagged /\ conn'[c].torn = conn[c].torn
           /\ conn' \in [Clients -> Conns]
  <1>0. conn \in [Clients -> Conns]
    BY DEF Base, Typed
  <1>2. \A k \in Conns : LET n == [k EXCEPT !.subscribed = FALSE]
                         IN /\ n \in Conns /\ ~n.subscribed /\ n.queue = k.queue /\ n.pc = k.pc /\ n.exit = k.exit
                            /\ n.view = k.view /\ n.lagged = k.lagged /\ n.torn = k.torn
    <2>1. \A k \in Conns : [k EXCEPT !.subscribed = FALSE] \in Conns
      BY Zenon DEF Conns
    <2>. QED  BY <2>1 DEF Conns
  <1>3. conn' = [c \in Clients |-> [conn[c] EXCEPT !.subscribed = FALSE]]
    BY DEF KillClears
  <1>4. \A c \in Clients : conn'[c] = [conn[c] EXCEPT !.subscribed = FALSE] /\ conn[c] \in Conns
    BY <1>0, <1>3
  <1>5. \A c \in Clients :
                 /\ conn'[c] \in Conns /\ ~conn'[c].subscribed /\ conn'[c].queue = conn[c].queue
                 /\ conn'[c].pc = conn[c].pc /\ conn'[c].exit = conn[c].exit /\ conn'[c].view = conn[c].view
                 /\ conn'[c].lagged = conn[c].lagged /\ conn'[c].torn = conn[c].torn
    BY <1>2, <1>4, ZenonT(30)
  <1>6. conn' \in [Clients -> Conns]
    BY <1>3, <1>4, <1>5
  <1>. QED  BY <1>5, <1>6

(* The marked pane: nothing else about it changes.                           *)
LEMMA KilledIs ==
    ASSUME Base, Kill
    PROVE  /\ pane' \in Panes /\ pane'.killed /\ pane'.fed = pane.fed /\ pane'.shown = pane.shown
           /\ pane'.seq = pane.seq /\ pane'.sync = pane.sync /\ pane'.dirty = pane.dirty
  <1>0. pane \in Panes
    BY DEF Base, Typed
  <1>1. pane' \in Panes
    BY <1>0, Zenon DEF Kill, Panes
  <1>. QED  BY <1>0, <1>1 DEF Kill, Panes

LEMMA BaseKeptByEnd == ASSUME Base, AskScreen \/ KillNext PROVE Base'
  <1>0. /\ task \in Tasks /\ final \in Finals /\ {tmp, disk} \subseteq Files /\ pane \in Panes /\ Order(pane)
        /\ conn \in [Clients -> Conns] /\ \A c \in Clients : Len(conn[c].queue) <= Depth
        /\ frames \in Watches
    BY DEF Base, Typed
  <1>1. CASE AskScreen
    BY <1>0, <1>1, BaseStays DEF AskScreen
  <1>2. CASE ShutdownSnapshot
    <2>1. final' \in Finals
      BY <1>0, <1>2, Zenon DEF ShutdownSnapshot, Finals, Panes
    <2>2. final'.kill = final.kill
      BY <1>0, <1>2 DEF ShutdownSnapshot, Finals
    <2>. QED  BY <1>0, <1>2, <2>1, <2>2, BaseStays DEF ShutdownSnapshot
  <1>3. CASE ShutdownCreate \/ ShutdownRename
    <2>1. final' \in Finals
      BY <1>0, <1>3, Zenon DEF ShutdownCreate, ShutdownRename, Finals
    <2>2. {tmp', disk'} \subseteq Files
      BY <1>0, <1>3 DEF ShutdownCreate, ShutdownRename, Created, Renamed, WriteFails, Finals, Files
    <2>3. final'.kill = final.kill
      BY <1>0, <1>3 DEF ShutdownCreate, ShutdownRename, Finals
    <2>. QED  BY <1>0, <1>3, <2>1, <2>2, <2>3, BaseStays DEF ShutdownCreate, ShutdownRename
  <1>4. CASE Kill
    <2>1. final' \in Finals /\ UNCHANGED <<may, child, reader, waiter, frames, conn, task, tmp, disk>>
      BY <1>0, <1>4, Zenon DEF Kill, Finals
    <2>. QED  BY <1>0, <1>4, <2>1, KilledIs DEF Base, Typed, Order, Endings
  <1>5. CASE KillClears
    <2>1. final' \in Finals /\ UNCHANGED <<may, child, reader, waiter, pane, frames, task, tmp, disk>>
      BY <1>0, <1>5, Zenon DEF KillClears, Finals
    <2>2. \A c \in Clients : Len(conn'[c].queue) <= Depth
      BY <1>0, <1>5, ClearedIs
    <2>. QED  BY <1>0, <1>5, <2>1, <2>2, ClearedIs DEF Base, Typed, Order, Endings, KillClears
  <1>6. CASE KillSignals
    <2>1. final' \in Finals /\ frames' \in Watches
      BY <1>0, <1>6, Zenon DEF KillSignals, Finals, Watches
    <2>2. frames'.exited = frames.exited /\ pane.killed
      BY <1>0, <1>6 DEF KillSignals, Watches, Base, Endings
    <2>. QED  BY <1>0, <1>6, <2>1, <2>2, PokedIs DEF Base, Typed, Order, Endings, KillSignals
  <1>. QED  BY <1>1, <1>2, <1>3, <1>4, <1>5, <1>6 DEF KillNext

LEMMA BaseHolds == Spec => []Base
  <1>1. Init => Base
    <2>. SUFFICES ASSUME Init PROVE Base
      OBVIOUS
    <2>1. 0 \in Chunks /\ MaxOut \in Nat /\ Depth \in Nat
      BY ConstantsAssumption DEF Chunks
    <2>2. [pc |-> "off", subscribed |-> FALSE, queue |-> <<>>, lagged |-> FALSE,
           view |-> 0, torn |-> FALSE, last |-> 0, exit |-> FALSE] \in Conns
      <3>1. <<>> \in Seq(Items)
        OBVIOUS
      <3>. QED  BY <2>1, <3>1, Zenon DEF Conns, ConnPcs
    <2>3. pane \in Panes /\ child \in Children /\ frames \in Watches
      BY <2>1, Zenon DEF Init, Panes, Children, Watches
    <2>4. task \in Tasks /\ final \in Finals
      BY <2>1, Zenon DEF Init, Tasks, TaskPcs, Finals
    <2>5. conn \in [Clients -> Conns] /\ \A c \in Clients : conn[c].queue = <<>>
      BY <2>2 DEF Init
    <2>6. Typed
      BY <2>1, <2>3, <2>4, <2>5 DEF Init, Typed, Files
    <2>. QED  BY <2>6 DEF Init, Base, Order, Endings
  <1>2. Base /\ [Next]_vars => Base'
    <2>. SUFFICES ASSUME Base, [Next]_vars PROVE Base'
      OBVIOUS
    <2>1. CASE UNCHANGED vars
      BY <2>1 DEF vars, Base, Typed, Order, Endings
    <2>. QED
      BY <2>1, BaseKeptByProcess, BaseKeptByReader, BaseKeptByWaiter, BaseKeptByTask, BaseKeptByConn, BaseKeptByEnd
         DEF Next, WaiterNext
  <1>. QED  BY <1>1, <1>2, PTL DEF Spec

(* The variables have their types, no queue outgrows its bound, and output   *)
(* is written, fed, shown and settled in that order.                         *)
THEOREM TypeCorrect == Spec => []TypeOK
  <1>. QED  BY BaseHolds, TypedIsTypeOK, PTL

-----------------------------------------------------------------------------
(* The stream of a raw client: its items take up one after the other, and    *)
(* the last one reaches what the emulator was fed.                           *)
Whole(k) == \A i \in 1..Len(k.queue) : Follows(k, i)

Taken(c) == conn[c].subscribed /\ ~conn[c].torn =>
    Whole(conn[c]) /\ (conn[c].lagged \/ Reaches(conn[c]) = pane.fed)

(* What a client is told of the exit comes after its output.                 *)
Told(c) ==
    /\ conn[c].pc \in {"off", "ended"} => ~conn[c].subscribed
    /\ conn[c].pc = "on" => conn[c].subscribed \/ pane.killed
    /\ conn[c].pc = "closing" => waiter # "waiting"
    /\ conn[c].exit => conn[c].pc = "ended" /\ conn[c].queue = <<>> /\ waiter # "waiting"
    /\ (conn[c].pc = "closing" \/ conn[c].exit) /\ waiter = "drained" /\ ~Marked(c) /\ ~pane.killed
          => Reaches(conn[c]) = child.made

ConnInv == \A c \in Raw : Taken(c) /\ Told(c)

LEMMA AppendWhole ==
    ASSUME NEW k \in Conns, NEW l \in Conns, NEW x \in Items, l.view = k.view, l.queue = Append(k.queue, x),
           Whole(k), x[1] = "bytes" => x[2] = Reaches(k) + 1
    PROVE  Whole(l) /\ Reaches(l) = x[2]
  <1>1. k.queue \in Seq(Items) /\ Len(k.queue) \in Nat
    BY DEF Conns
  <1>2. /\ Len(l.queue) = Len(k.queue) + 1 /\ l.queue[Len(l.queue)] = x /\ l.queue # <<>>
        /\ \A i \in 1..Len(k.queue) : l.queue[i] = k.queue[i]
    BY <1>1
  <1>3. ASSUME NEW i \in 1..Len(l.queue) PROVE Follows(l, i)
    <2>1. CASE i # Len(l.queue)
      <3>1. i \in 1..Len(k.queue) /\ (i # 1 => i - 1 \in 1..Len(k.queue))
        BY <1>1, <1>2, <1>3, <2>1
      <3>. QED  BY <1>2, <3>1 DEF Whole, Follows
    <2>2. CASE i = Len(l.queue) /\ k.queue = <<>>
      BY <1>1, <1>2, <2>2 DEF Follows, Reaches
    <2>3. CASE i = Len(l.queue) /\ k.queue # <<>>
      <3>1. Len(k.queue) \in 1..Len(k.queue) /\ i - 1 = Len(k.queue) /\ i # 1
        BY <1>1, <1>2, <2>3
      <3>. QED  BY <1>2, <2>3, <3>1 DEF Follows, Reaches
    <2>. QED  BY <2>1, <2>2, <2>3
  <1>. QED  BY <1>2, <1>3 DEF Whole, Reaches

LEMMA SentWhole ==
    ASSUME NEW k \in Conns, k.queue # <<>>
    PROVE  (Whole(k) => Whole(Sent(k))) /\ Reaches(Sent(k)) = Reaches(k)
  <1>1. k.queue \in Seq(Items) /\ Len(k.queue) \in Nat \ {0}
    BY DEF Conns
  <1>. DEFINE l == Sent(k)
  <1>2. l.queue = Tail(k.queue) /\ l.view = Head(k.queue)[2]
    BY ConnFields, ConstantsAssumption DEF Chunks
  <1>. HIDE DEF l
  <1>3. /\ Len(l.queue) = Len(k.queue) - 1 /\ Head(k.queue) = k.queue[1]
        /\ \A i \in 1..Len(l.queue) : l.queue[i] = k.queue[i + 1]
        /\ l.queue = <<>> <=> Len(k.queue) = 1
    <2>1. /\ Len(Tail(k.queue)) = Len(k.queue) - 1 /\ Tail(k.queue) \in Seq(Items)
          /\ \A i \in 1..Len(Tail(k.queue)) : Tail(k.queue)[i] = k.queue[i + 1]
      BY <1>1, HeadTailProperties
    <2>2. Tail(k.queue) = <<>> <=> Len(Tail(k.queue)) = 0
      BY <2>1, EmptySeq
    <2>. QED  BY <1>1, <1>2, <2>1, <2>2
  <1>4. ASSUME Whole(k), NEW i \in 1..Len(l.queue) PROVE Follows(l, i)
    <2>1. i + 1 \in 1..Len(k.queue) /\ Follows(k, i + 1) /\ i + 1 # 1
      BY <1>1, <1>3, <1>4 DEF Whole
    <2>2. CASE i = 1
      BY <1>2, <1>3, <2>1, <2>2 DEF Follows
    <2>3. CASE i # 1
      <3>1. i - 1 \in 1..Len(l.queue) /\ (i - 1) + 1 = i /\ (i + 1) - 1 = i
        BY <1>1, <1>3, <2>3
      <3>. QED  BY <1>3, <2>1, <2>3, <3>1 DEF Follows
    <2>. QED  BY <2>2, <2>3
  <1>5. Reaches(l) = Reaches(k)
    <2>1. CASE l.queue = <<>>
      BY <1>1, <1>2, <1>3, <2>1 DEF Reaches
    <2>2. CASE l.queue # <<>>
      <3>1. Len(l.queue) \in 1..Len(l.queue) /\ Len(l.queue) + 1 = Len(k.queue)
        BY <1>1, <1>3, <2>2
      <3>. QED  BY <1>1, <1>3, <2>2, <3>1 DEF Reaches
    <2>. QED  BY <2>1, <2>2
  <1>. QED  BY <1>4, <1>5 DEF Whole, l

LEMMA StartedWhole ==
    ASSUME NEW k \in Conns, NEW n \in Chunks
    PROVE  Whole(Started(k, n)) /\ Reaches(Started(k, n)) = n
  <1>. DEFINE l == Started(k, n)
  <1>1. l.queue = << <<"paint", n>> >>
    BY ConnFields
  <1>. HIDE DEF l
  <1>2. Len(l.queue) = 1 /\ l.queue[1] = <<"paint", n>> /\ l.queue # <<>>
    BY <1>1
  <1>. QED  BY <1>2 DEF Whole, Follows, Reaches, l

(* Reaches, Whole and Marked depend on queue, view and marks alone.          *)
LEMMA SameStream ==
    ASSUME NEW k, NEW l, l.queue = k.queue, l.view = k.view
    PROVE  Whole(l) = Whole(k) /\ Reaches(l) = Reaches(k)
  BY DEF Whole, Follows, Reaches

LEMMA ConnKeptByReader == ASSUME Base, ConnInv, Ingest PROVE ConnInv'
  <1>0. pane \in Panes /\ conn \in [Clients -> Conns] /\ pane.fed \in Nat
    BY DEF Base, Typed, Panes, Chunks
  <1>1. PICK shown :
           LET n == pane.fed + 1
           IN /\ shown \in {pane.shown, n}
              /\ pane'.fed = n /\ pane'.killed = pane.killed
              /\ conn' = [c \in Clients |-> Push(conn[c], n, shown)]
    BY <1>0 DEF Ingest, Panes
  <1>. DEFINE n == pane.fed + 1
  <1>2. n \in Chunks /\ shown \in Chunks /\ n \in Nat /\ pane'.fed = n
    <2>1. child.made \in Chunks /\ pane.fed < child.made /\ pane.shown \in Chunks /\ MaxOut \in Nat
      BY ConstantsAssumption DEF Ingest, Base, Typed, Children, Panes
    <2>. QED  BY <1>0, <1>1, <2>1 DEF Chunks
  <1>3. waiter # "drained" /\ UNCHANGED <<waiter, frames>>
    BY DEF Ingest, Base, Endings
  <1>. SUFFICES ASSUME NEW c \in Raw PROVE Taken(c)' /\ Told(c)'
    BY DEF ConnInv
  <1>. DEFINE k == conn[c]
              l == conn'[c]
  <1>4. k \in Conns /\ Len(k.queue) <= Depth /\ l = Push(k, n, shown)
    BY <1>0, <1>1 DEF Base, Typed, Clients
  <1>5. Told(c) /\ (k.subscribed /\ ~k.torn => Whole(k) /\ (k.lagged \/ Reaches(k) = pane.fed))
    BY DEF ConnInv, Taken
  <1>. HIDE DEF n, k, l
  <1>6. k \in Conns /\ Len(k.queue) <= Depth /\ n \in Chunks /\ shown \in Chunks
    BY <1>2, <1>4
  <1>7. /\ l \in Conns /\ l.pc = k.pc /\ l.subscribed = k.subscribed /\ l.view = k.view /\ l.exit = k.exit
        /\ ~k.subscribed => l = k
        /\ k.subscribed =>
             \/ l.lagged /\ l.queue = k.queue /\ l.torn = k.torn
             \/ l.queue = Append(k.queue, <<"bytes", n>>) /\ ~k.lagged /\ l.torn = k.torn
             \/ l.queue = Append(k.queue, <<"paint", shown>>) /\ (l.torn \/ (~k.torn /\ shown = n))
    BY <1>6, <1>4, PushIs, SMTT(30)
  <1>8. ASSUME k.subscribed, ~l.torn PROVE Whole(l) /\ (l.lagged \/ Reaches(l) = n)
    <2>1. CASE l.lagged /\ l.queue = k.queue /\ l.torn = k.torn
      BY <1>7, <1>5, <1>8, <2>1, SameStream
    <2>2. CASE l.queue = Append(k.queue, <<"bytes", n>>) /\ ~k.lagged /\ l.torn = k.torn
      <3>. DEFINE x == <<"bytes", n>>
      <3>1. x \in Items /\ x[1] = "bytes" /\ x[2] = n
        BY <1>2 DEF Items
      <3>2. Whole(k) /\ Reaches(k) + 1 = n
        BY <1>5, <1>8, <2>2 DEF n
      <3>. HIDE DEF x
      <3>. QED  BY <1>4, <1>7, <2>2, <3>1, <3>2, AppendWhole DEF x
    <2>3. CASE l.queue = Append(k.queue, <<"paint", shown>>) /\ ~k.torn /\ shown = n
      <3>. DEFINE x == <<"paint", shown>>
      <3>1. x \in Items /\ x[1] = "paint" /\ x[2] = shown /\ shown = n
        BY <1>2, <1>8, <2>3 DEF Items
      <3>2. Whole(k)
        BY <1>5, <1>8, <2>3
      <3>. HIDE DEF x
      <3>. QED  BY <1>4, <1>7, <2>3, <3>1, <3>2, AppendWhole DEF x
    <2>. QED  BY <1>7, <1>8, <2>1, <2>2, <2>3
  <1>9. Taken(c)'
    BY <1>2, <1>7, <1>8 DEF Taken, l
  <1>10. Told(c)'
    <2>1. k.exit => l = k
      BY <1>7, <1>5 DEF Told, k
    <2>. QED  BY <1>1, <1>3, <1>7, <1>5, <2>1 DEF Told, k, l
  <1>. QED  BY <1>9, <1>10

(* A step that keeps what a client has, what was fed, and what was written   *)
(* if the waiter has seen all of it.                                         *)
LEMMA ConnStays ==
    ASSUME ConnInv, UNCHANGED conn, pane'.fed = pane.fed, pane.killed => pane'.killed,
           waiter' # "waiting" \/ UNCHANGED waiter,
           waiter' = "drained" => (waiter = "drained" /\ child'.made = child.made) \/ waiter = "waiting"
    PROVE  ConnInv'
  BY DEF ConnInv, Taken, Told, Marked

LEMMA ConnKeptByConn == ASSUME Base, ConnInv, ConnNext PROVE ConnInv'
  <1>0. pane \in Panes /\ Order(pane) /\ Raw \subseteq Clients /\ Typed
    BY DEF Base, Typed, Clients
  <1>1. /\ UNCHANGED <<child, reader, waiter, frames>>
        /\ pane' = pane \/ pane' = Settled(pane) \/ pane' = Seen(pane)
    BY DEF ConnNext, Leave, SubscribeRaw, SendOutput, RawSignal, SendExited, RawOver, SubscribeFrames, SendFrame
  <1>2. pane'.fed = pane.fed /\ pane'.killed = pane.killed
    BY <1>0, <1>1, SettledIs, SeenIs
  <1>3. ASSUME NEW c \in Clients, \A d \in Clients \ {c} : conn'[d] = conn[d],
               c \in Raw => Taken(c)' /\ Told(c)'
        PROVE  ConnInv'
    BY <1>0, <1>1, <1>2, <1>3 DEF ConnInv, Taken, Told, Marked
  <1>4. ASSUME NEW c \in Frame, SubscribeFrames(c) \/ SendFrame(c) PROVE ConnInv'
    <2>1. c \in Clients /\ c \notin Raw
      BY ConstantsAssumption DEF Clients
    <2>2. \A d \in Clients \ {c} : conn'[d] = conn[d]
      BY <1>4, <2>1, FrameStep
    <2>. QED  BY <1>3, <2>1, <2>2
  <1>5. ASSUME NEW c \in Clients, NEW k \in Conns, Set(c, k), Len(k.queue) <= Depth,
               \/ k = Ended
               \/ c \in Raw /\ SubscribeRaw(c) /\ k = Started(conn[c], pane.fed)
               \/ c \in Raw /\ SendOutput(c) /\ k = Sent(conn[c])
               \/ c \in Raw /\ RawSignal(c) /\ k = SawExit(conn[c]) /\ frames.exited /\ ~frames.gone
               \/ c \in Raw /\ SendExited(c) /\ k = Heard(conn[c])
        PROVE  ConnInv'
    <2>. DEFINE j == conn[c]
    <2>1. conn'[c] = k /\ \A d \in Clients \ {c} : conn'[d] = conn[d]
      BY <1>0, <1>5, SetIs
    <2>2. j \in Conns /\ 0 \in Chunks /\ pane.fed \in Chunks
      BY <1>0, ConstantsAssumption DEF Typed, Chunks, Panes
    <2>3. c \in Raw => Taken(c) /\ Told(c)
      BY DEF ConnInv
    <2>. SUFFICES ASSUME c \in Raw PROVE Taken(c)' /\ Told(c)'
      BY <1>3, <2>1
    <2>4. CASE k = Ended
      <3>1. ~k.subscribed /\ k.pc = "ended" /\ ~k.exit
        BY <2>4 DEF Ended
      <3>. QED  BY <2>1, <3>1 DEF Taken, Told
    <2>5. CASE SubscribeRaw(c) /\ k = Started(j, pane.fed)
      <3>1. /\ k.pc = "on" /\ k.subscribed /\ k.exit = j.exit
        BY <2>2, <2>5, ConnFields
      <3>2. Whole(k) /\ Reaches(k) = pane.fed
        BY <2>2, <2>5, StartedWhole
      <3>3. j.pc = "off"
        BY <2>5 DEF SubscribeRaw
      <3>4. ~k.exit
        BY <2>3, <3>1, <3>3 DEF Told
      <3>. QED  BY <1>2, <2>1, <3>1, <3>2, <3>4 DEF Taken, Told
    <2>6. CASE SendOutput(c) /\ k = Sent(j)
      <3>1. j.queue # <<>> /\ j.pc \in {"on", "closing"}
        BY <2>6 DEF SendOutput
      <3>2. /\ k.pc = j.pc /\ k.subscribed = j.subscribed /\ k.lagged = j.lagged /\ k.torn = j.torn
            /\ k.exit = j.exit
        BY <2>2, <2>6, ConnFields
      <3>3. (Whole(j) => Whole(k)) /\ Reaches(k) = Reaches(j)
        BY <2>2, <2>6, <3>1, SentWhole
      <3>4. ~j.exit
        BY <2>3, <3>1 DEF Told
      <3>. QED  BY <1>1, <1>2, <2>1, <2>3, <3>1, <3>2, <3>3, <3>4 DEF Taken, Told, Marked
    <2>7. CASE RawSignal(c) /\ k = SawExit(j) /\ frames.exited /\ ~frames.gone
      <3>1. j.pc = "on" /\ (j.subscribed \/ pane.killed) /\ ~j.exit
        BY <2>3, <2>7 DEF RawSignal, Told
      <3>2. /\ k.pc = "closing" /\ k.subscribed = j.subscribed /\ k.lagged = j.lagged /\ k.torn = j.torn
            /\ k.exit = j.exit /\ k.queue = j.queue /\ k.view = j.view
        BY <2>2, <2>7, ConnFields
      <3>3. Whole(k) = Whole(j) /\ Reaches(k) = Reaches(j)
        BY <3>2, SameStream
      <3>4. waiter # "waiting" /\ (waiter = "drained" => pane.fed = child.made)
        BY <2>7 DEF Base, Endings
      <3>. QED  BY <1>1, <1>2, <2>1, <2>3, <3>1, <3>2, <3>3, <3>4 DEF Taken, Told, Marked
    <2>8. CASE SendExited(c) /\ k = Heard(j)
      <3>1. j.pc = "closing" /\ j.queue = <<>>
        BY <2>8 DEF SendExited
      <3>2. /\ k.pc = "ended" /\ ~k.subscribed /\ k.lagged = j.lagged /\ k.torn = j.torn
            /\ k.exit /\ k.queue = j.queue /\ k.view = j.view
        BY <2>2, <2>8, ConnFields
      <3>3. Reaches(k) = Reaches(j)
        BY <3>2, SameStream
      <3>. QED  BY <1>1, <1>2, <2>1, <2>3, <3>1, <3>2, <3>3 DEF Taken, Told, Marked
    <2>. QED  BY <1>5, <2>4, <2>5, <2>6, <2>7, <2>8
  <1>6. ASSUME NEW c \in Raw, SubscribeRaw(c) \/ SendOutput(c) \/ RawSignal(c) \/ SendExited(c) \/ RawOver(c)
        PROVE  ConnInv'
    <2>1. PICK k \in Conns :
               /\ Set(c, k) /\ Len(k.queue) <= Depth
               /\ \/ k = Ended
                  \/ SubscribeRaw(c) /\ k = Started(conn[c], pane.fed)
                  \/ SendOutput(c) /\ k = Sent(conn[c])
                  \/ RawSignal(c) /\ k = SawExit(conn[c]) /\ frames.exited /\ ~frames.gone
                  \/ SendExited(c) /\ k = Heard(conn[c])
      BY <1>0, <1>6, ConnStep
    <2>. QED  BY <1>0, <1>5, <2>1
  <1>7. ASSUME NEW c \in Clients, Leave(c) PROVE ConnInv'
    BY <1>5, <1>7, ConnStep
  <1>. QED  BY <1>4, <1>6, <1>7 DEF ConnNext

LEMMA ConnKeptByKill == ASSUME Base, ConnInv, KillClears, pane.killed PROVE ConnInv'
  <1>1. \A c \in Raw :
              /\ ~conn'[c].subscribed /\ conn'[c].queue = conn[c].queue
              /\ conn'[c].pc = conn[c].pc /\ conn'[c].exit = conn[c].exit /\ conn'[c].view = conn[c].view
              /\ conn'[c].lagged = conn[c].lagged /\ conn'[c].torn = conn[c].torn
    BY ClearedIs DEF Clients
  <1>. QED  BY <1>1 DEF ConnInv, Taken, Told, Marked, KillClears

LEMMA ConnHolds == Spec => []ConnInv
  <1>1. Init => ConnInv
    BY DEF Init, ConnInv, Taken, Told, Clients
  <1>2. Base /\ ConnInv /\ [Next]_vars => ConnInv'
    <2>. SUFFICES ASSUME Base, ConnInv, [Next]_vars PROVE ConnInv'
      OBVIOUS
    <2>0. pane \in Panes
      BY DEF Base, Typed
    <2>1. CASE ProcessNext
      <3>1. UNCHANGED <<conn, pane, frames, waiter>> /\ (waiter = "drained" => child'.made = child.made)
        BY <2>1 DEF ProcessNext, Write, Exit, Close, Base, Endings, Typed, Children
      <3>. QED  BY <3>1, ConnStays
    <2>2. CASE MarkExited
      <3>1. UNCHANGED <<conn, child>> /\ pane'.fed = pane.fed /\ pane'.killed = pane.killed
            /\ waiter = "waiting" /\ waiter' # "waiting"
        BY <2>0, <2>2 DEF MarkExited, Base, Typed, Panes, Watches
      <3>. QED  BY <3>1, ConnStays
    <2>3. CASE ReaderEof \/ AskScreen \/ ShutdownSnapshot \/ ShutdownCreate \/ ShutdownRename \/ KillSignals
               \/ UNCHANGED vars
      <3>1. UNCHANGED <<conn, child, waiter>> /\ (pane' = pane \/ pane' = Settled(pane))
        BY <2>3 DEF ReaderEof, AskScreen, ShutdownSnapshot, ShutdownCreate, ShutdownRename, KillSignals, vars
      <3>2. pane'.fed = pane.fed /\ pane'.killed = pane.killed
        BY <2>0, <3>1, SettledIs
      <3>. QED  BY <3>1, <3>2, ConnStays
    <2>4. CASE TaskNext
      <3>1. pane'.fed = pane.fed /\ pane'.killed = pane.killed
        <4>1. CASE Work
          BY <4>1, WorkIs
        <4>2. CASE FinalSnapshot
          BY <2>0, <4>2, SettledIs DEF FinalSnapshot
        <4>3. CASE Wake \/ Create \/ Rename
          BY <4>3 DEF Wake, Create, Rename
        <4>. QED  BY <2>4, <4>1, <4>2, <4>3 DEF TaskNext
      <3>2. UNCHANGED <<conn, child, waiter>>
        BY <2>4 DEF TaskNext, Wake, Work, FinalSnapshot, Create, Rename
      <3>. QED  BY <3>1, <3>2, ConnStays
    <2>5. CASE Kill
      <3>1. UNCHANGED <<conn, child, waiter>> /\ pane'.fed = pane.fed /\ pane'.killed
        BY <2>5, KilledIs DEF Kill
      <3>. QED  BY <3>1, ConnStays
    <2>6. CASE KillClears
      <3>1. pane.killed
        BY <2>6 DEF KillClears, Base, Endings
      <3>. QED  BY <2>6, <3>1, ConnKeptByKill
    <2>. QED
      BY <2>1, <2>2, <2>3, <2>4, <2>5, <2>6, ConnKeptByReader, ConnKeptByConn DEF Next, ReaderNext, WaiterNext, KillNext
  <1>. QED  BY <1>1, <1>2, BaseHolds, PTL DEF Spec

(* Nothing is lost or doubled in a raw client's stream that is not made up   *)
(* for by a repaint: however the client, the reader and the task interleave. *)
THEOREM StreamsAreWhole == Spec => []StreamWhole
  <1>1. ConnInv => StreamWhole
    BY DEF ConnInv, Taken, Whole, StreamWhole
  <1>. QED  BY <1>1, ConnHolds, PTL

(* The exit is announced after the last of the output.                       *)
THEOREM ExitComesLast == Spec => []ExitAfterOutput
  <1>1. ConnInv => ExitAfterOutput
    BY DEF ConnInv, Told, Reaches, ExitAfterOutput
  <1>. QED  BY <1>1, ConnHolds, PTL

-----------------------------------------------------------------------------
(* Nobody is left with an old screen.  A pane task that nothing is about to  *)
(* wake has settled the screen in its last round and published its seq to    *)
(* whoever it saw watching, and what it last wrote, or is writing, is that   *)
(* screen, unless the write failed.                                         *)

QuietTask == ~task.permit /\ ~task.timer /\ task.pc \in {"sleep", "final", "create", "rename"}

TaskInv == QuietTask =>
    /\ ~pane.sync
    /\ task.presenting => ~pane.dirty /\ frames.seq = pane.seq
    /\ task.pc = "final" \/ pane.fed = 0 \/ (~pane.dirty /\ task.seq = pane.seq)

(* The checkpoint file follows the task, as long as no shutdown writes one.  *)
DiskInv == final.pc = "no" =>
    /\ task.pc \in {"sleep", "woken", "final"} /\ task.seq # None => disk = task.seq \/ task.failed
    /\ task.pc \in {"create", "rename"} => task.ck = task.seq
    /\ task.pc = "rename" => tmp = task.ck

(* The steps of others leave the screen, or settle it.                       *)
LEMMA QuietStays ==
    ASSUME Base, TaskInv, UNCHANGED task, frames'.seq = frames.seq,
           pane' = pane \/ pane' = Settled(pane) \/ pane' = Seen(pane)
    PROVE  TaskInv'
  <1>0. pane \in Panes /\ Order(pane)
    BY DEF Base, Typed
  <1>1. SUFFICES ASSUME QuietTask PROVE TaskInv'
    BY DEF TaskInv, QuietTask
  <1>2. ~pane.sync
    BY <1>1 DEF TaskInv
  <1>3. pane' = pane \/ pane' = Settled(pane)
    BY <1>0, <1>2, SeenIs
  <1>4. ~pane'.sync /\ pane'.fed = pane.fed /\ (~pane.dirty => pane' = pane)
    BY <1>0, <1>2, <1>3, SettledIs
  <1>. QED  BY <1>1, <1>4 DEF TaskInv, QuietTask

LEMMA DiskStays ==
    ASSUME DiskInv, UNCHANGED <<tmp, disk>>, task'.pc = task.pc, task'.seq = task.seq, task'.ck = task.ck,
           task'.failed = task.failed,
           final'.pc = "no" => final.pc = "no"
    PROVE  DiskInv'
  BY DEF DiskInv

LEMMA QuietKeptByTask == ASSUME Base, TaskInv, TaskNext PROVE TaskInv'
  <1>0. pane \in Panes /\ Order(pane) /\ task \in Tasks /\ frames \in Watches
    BY DEF Base, Typed
  <1>1. CASE Wake
    <2>1. task'.pc \in {"over", "woken"}
      BY <1>0, <1>1 DEF Wake, Tasks
    <2>. QED  BY <2>1 DEF TaskInv, QuietTask
  <1>2. CASE Work
    <2>1. SUFFICES ASSUME QuietTask' PROVE TaskInv'
      BY DEF TaskInv
    <2>2. ~task'.timer /\ task'.pc \in {"final", "create", "sleep"}
      BY <1>2, <2>1, WorkIs DEF QuietTask
    <2>3. ~pane'.sync
      BY <1>2, <2>2, WorkIs
    <2>4. ASSUME task'.presenting PROVE ~pane'.dirty /\ frames'.seq = pane'.seq
      <3>1. task.presenting /\ ~pane'.dirty /\ pane' \in Panes
        BY <1>2, <2>4, WorkIs
      <3>2. frames' = [frames EXCEPT !.seq = pane'.seq]
        BY <1>2, <3>1, WorkIs
      <3>3. pane'.seq \in Chunks
        BY <3>1 DEF Panes
      <3>. QED  BY <1>0, <3>1, <3>2, <3>3, WatchedIs
    <2>5. task'.pc = "final" \/ (~pane'.dirty /\ task'.seq = pane'.seq)
      BY <1>2, <2>2, WorkIs
    <2>. QED  BY <2>3, <2>4, <2>5 DEF TaskInv
  <1>3. CASE FinalSnapshot
    <2>1. /\ pane' = Settled(pane) /\ UNCHANGED frames
          /\ task' = [task EXCEPT !.pc = "create", !.last = TRUE, !.ck = pane'.shown, !.seq = pane'.seq]
          /\ task.pc = "final"
      BY <1>3 DEF FinalSnapshot
    <2>2. /\ task'.pc = "create" /\ task'.seq = pane'.seq /\ task'.presenting = task.presenting
          /\ task'.permit = task.permit /\ task'.timer = task.timer
      BY <1>0, <2>1 DEF Tasks
    <2>3. ~pane'.dirty /\ pane'.sync = pane.sync /\ (~pane.dirty => pane' = pane)
      BY <1>0, <2>1, SettledIs
    <2>. QED  BY <2>1, <2>2, <2>3 DEF TaskInv, QuietTask
  <1>4. CASE Create \/ Rename
    <2>1. /\ task'.seq = task.seq /\ task'.presenting = task.presenting /\ task'.permit = task.permit
          /\ task'.timer = task.timer /\ UNCHANGED <<pane, frames>>
          /\ task.pc \in {"create", "rename"}
      BY <1>0, <1>4 DEF Create, Rename, Tasks
    <2>. QED  BY <2>1 DEF TaskInv, QuietTask
  <1>. QED  BY <1>1, <1>2, <1>3, <1>4 DEF TaskNext

LEMMA DiskKeptByTask == ASSUME Base, DiskInv, TaskNext PROVE DiskInv'
  <1>0. pane \in Panes /\ Order(pane) /\ task \in Tasks
    BY DEF Base, Typed
  <1>. SUFFICES ASSUME final.pc = "no" PROVE DiskInv'
    BY DEF DiskInv, TaskNext, Wake, Work, FinalSnapshot, Create, Rename
  <1>1. CASE Wake
    <2>1. task.pc = "sleep" /\ task'.pc \in {"over", "woken"} /\ task'.seq = task.seq /\ UNCHANGED <<tmp, disk>>
         /\ task'.failed = task.failed
      BY <1>0, <1>1 DEF Wake, Tasks
    <2>. QED  BY <2>1 DEF DiskInv
  <1>2. CASE Work
    <2>1. task.pc = "woken" /\ UNCHANGED <<tmp, disk>> /\ task'.pc \in {"final", "create", "sleep"}
      BY <1>2, WorkIs DEF Work
    <2>2. CASE task'.pc = "create"
      <3>1. Order(pane') /\ ~pane'.dirty /\ task'.seq = pane'.seq /\ task'.ck = pane'.shown
        BY <1>2, <2>2, WorkIs
      <3>. QED  BY <2>2, <3>1 DEF Order, DiskInv
    <2>3. CASE task'.pc # "create"
      <3>1. task'.seq = task.seq /\ task'.failed = task.failed
        BY <1>2, <2>1, <2>3, WorkIs
      <3>. QED  BY <2>1, <2>3, <3>1 DEF DiskInv
    <2>. QED  BY <2>2, <2>3
  <1>3. CASE FinalSnapshot
    <2>1. pane' = Settled(pane) /\ task'.pc = "create" /\ task'.ck = pane'.shown /\ task'.seq = pane'.seq
      BY <1>0, <1>3 DEF FinalSnapshot, Tasks
    <2>2. pane'.seq = pane'.shown
      BY <1>0, <2>1, SettledIs DEF Order
    <2>. QED  BY <2>1, <2>2 DEF DiskInv
  <1>4. CASE Create
    <2>1. /\ task.pc = "create" /\ task'.ck = task.ck /\ task'.seq = task.seq
          /\ \/ task'.pc = "rename" /\ tmp' = task.ck
             \/ task'.pc = "sleep" /\ task'.failed
      BY <1>0, <1>4 DEF Create, Created, Tasks
    <2>. QED  BY <2>1 DEF DiskInv
  <1>5. CASE Rename
    <2>1. /\ task.pc = "rename" /\ task'.pc = "sleep" /\ task'.seq = task.seq
          /\ disk' = tmp \/ task'.failed
      BY <1>0, <1>5 DEF Rename, Renamed, Tasks
    <2>2. tmp = task.ck /\ task.ck = task.seq
      BY <2>1 DEF DiskInv
    <2>. QED  BY <2>1, <2>2 DEF DiskInv
  <1>. QED  BY <1>1, <1>2, <1>3, <1>4, <1>5 DEF TaskNext

LEMMA QuietHolds == Spec => [](TaskInv /\ DiskInv)
  <1>1. Init => TaskInv /\ DiskInv
    BY DEF Init, TaskInv, DiskInv, QuietTask
  <1>2. Base /\ TaskInv /\ DiskInv /\ [Next]_vars => (TaskInv /\ DiskInv)'
    <2>. SUFFICES ASSUME Base, TaskInv, DiskInv, [Next]_vars PROVE TaskInv' /\ DiskInv'
      OBVIOUS
    <2>0. task \in Tasks /\ final \in Finals
      BY DEF Base, Typed
    <2>1. CASE ProcessNext \/ ConnNext \/ AskScreen \/ UNCHANGED vars
      <3>1. UNCHANGED <<task, frames, tmp, disk, final>>
        BY <2>1 DEF ProcessNext, Write, Exit, Close, ConnNext, Leave, SubscribeRaw, SendOutput, RawSignal,
                    SendExited, RawOver, SubscribeFrames, SendFrame, AskScreen, vars
      <3>2. pane' = pane \/ pane' = Settled(pane) \/ pane' = Seen(pane)
        BY <2>1 DEF ProcessNext, Write, Exit, Close, ConnNext, Leave, SubscribeRaw, SendOutput, RawSignal,
                    SendExited, RawOver, SubscribeFrames, SendFrame, AskScreen, vars
      <3>. QED  BY <3>1, <3>2, QuietStays, DiskStays
    <2>2. CASE ReaderNext \/ MarkExited \/ KillSignals
      <3>1. task' = Poked(task) /\ UNCHANGED <<tmp, disk>> /\ final'.pc = final.pc
        BY <2>0, <2>2 DEF ReaderNext, Ingest, ReaderEof, MarkExited, KillSignals, Finals
      <3>2. /\ task'.permit /\ task'.pc = task.pc /\ task'.seq = task.seq /\ task'.ck = task.ck
            /\ task'.failed = task.failed
        BY <2>0, <3>1, PokedIs
      <3>3. TaskInv'
        BY <3>2 DEF TaskInv, QuietTask
      <3>. QED  BY <3>1, <3>2, <3>3, DiskStays
    <2>3. CASE ShutdownSnapshot \/ ShutdownCreate \/ ShutdownRename
      <3>1. UNCHANGED <<task, frames>> /\ (pane' = pane \/ pane' = Settled(pane))
        BY <2>3 DEF ShutdownSnapshot, ShutdownCreate, ShutdownRename
      <3>2. final'.pc # "no"
        BY <2>0, <2>3 DEF ShutdownSnapshot, ShutdownCreate, ShutdownRename, Finals
      <3>. QED  BY <3>1, <3>2, QuietStays DEF DiskInv
    <2>5. CASE Kill \/ KillClears
      <3>1. UNCHANGED <<task, tmp, disk, frames>> /\ final'.pc = final.pc
        BY <2>0, <2>5 DEF Kill, KillClears, Finals
      <3>2. pane'.fed = pane.fed /\ pane'.sync = pane.sync /\ pane'.dirty = pane.dirty /\ pane'.seq = pane.seq
        BY <2>5, KilledIs DEF KillClears
      <3>3. TaskInv'
        BY <3>1, <3>2 DEF TaskInv, QuietTask
      <3>. QED  BY <3>1, <3>3, DiskStays
    <2>4. CASE TaskNext
      BY <2>4, QuietKeptByTask, DiskKeptByTask
    <2>. QED
      BY <2>1, <2>2, <2>3, <2>4, <2>5 DEF Next, WaiterNext, KillNext
  <1>. QED  BY <1>1, <1>2, BaseHolds, PTL DEF Spec

(* When the pane comes to rest every frames client its task saw has been, or *)
(* is being, told of the screen as it is, and the checkpoint on disk shows   *)
(* that screen, unless the last write of it failed: no wake-up is lost between the reader's poke, the timers and *)
(* the settles that requests make on their own.                              *)
THEOREM NothingIsStale == Spec => []NothingStale
  <1>1. Base /\ TaskInv /\ DiskInv => NothingStale
    <2>. SUFFICES ASSUME Base, TaskInv, DiskInv, Asleep
                  PROVE  FramesCurrent /\ CheckpointCurrent
      BY DEF NothingStale, FramesCurrent, FramesCurrentAlways, CheckpointCurrent, CheckpointAlways
    <2>1. QuietTask /\ task.pc = "sleep"
      BY DEF Asleep, QuietTask
    <2>2. pane \in Panes /\ Order(pane)
      BY DEF Base, Typed
    <2>3. FramesCurrent
      BY <2>1, <2>2 DEF TaskInv, Order, FramesCurrent, FramesCurrentAlways
    <2>4. ASSUME final.pc = "no", pane.fed > 0, ~task.failed PROVE disk = pane.shown
      <3>1. pane.fed # 0 /\ pane.seq # None
        BY <2>2, <2>4, ConstantsAssumption DEF Panes, Chunks, None
      <3>2. ~pane.dirty /\ task.seq = pane.seq /\ pane.seq = pane.shown
        BY <2>1, <2>2, <3>1 DEF TaskInv, Order
      <3>. QED  BY <2>1, <2>4, <3>1, <3>2 DEF DiskInv
    <2>. QED  BY <2>3, <2>4 DEF CheckpointCurrent, CheckpointAlways
  <1>. QED  BY <1>1, BaseHolds, QuietHolds, PTL

===============================================================================
