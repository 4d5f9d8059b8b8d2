------------------------------- MODULE PtydPane -------------------------------
(***************************************************************************)
(* One pane of the ptyd host: the threads around its state mutex.  The      *)
(* reader feeds output into the emulator and the raw subscribers' queues,   *)
(* the waiter marks the pane exited, the pane task publishes the screen's   *)
(* seq and writes checkpoints, and every connection forwards to its client. *)
(*                                                                          *)
(* Output is a run of numbered chunks.  What a screen shows is the number   *)
(* of the last chunk it reflects; a repaint ("paint", n) brings a client to *)
(* chunk n, bytes ("bytes", n) take it from n - 1 to n.  The seq of a       *)
(* screen, which grows when a settle finds it changed, stands for the chunk *)
(* it showed then.  A synchronized update is a run of chunks the emulator   *)
(* holds back until it ends, is flushed or times out.  Left out: input and  *)
(* the writer thread, resizing, a panic of the emulator, the freeze of a    *)
(* live upgrade (PtydHandoff).                                              *)
(***************************************************************************)
EXTENDS Naturals, Sequences

CONSTANTS
    Raw, Frame,     \* clients that subscribe in raw and in frames mode
    Depth,          \* RAW_QUEUE: chunks a raw subscriber's queue holds
    MaxOut,         \* bound on the chunks of output
    Scenarios       \* bound: the sets of events to explore together

Events == {"raw", "frames", "sync", "linger", "leave", "kill", "shutdown", "disk"}

ASSUME ConstantsAssumption ==
    /\ Raw \intersect Frame = {}
    /\ Depth \in Nat \ {0} /\ MaxOut \in Nat
    /\ Scenarios \subseteq SUBSET Events

VARIABLES
    may,        \* the scenario: which events happen in this behaviour
    child,      \* is the process running, does something hold its terminal, chunks it wrote
    reader,     \* the reader thread
    waiter,     \* the waiter thread
    pane,       \* PaneState: the emulator, dirty, seq, alive; and the pane's killed
    frames,     \* what connections watch: seq, exited, gone
    conn,       \* each client's connection
    task,       \* the pane task
    final,      \* kill_all, writing its last checkpoint, and the steps of Pane::kill
    tmp, disk   \* the checkpoint's temporary file and the checkpoint: chunk shown

vars == <<may, child, reader, waiter, pane, frames, conn, task, final, tmp, disk>>

Clients == Raw \union Frame
Chunks == 0..MaxOut
None == MaxOut + 1      \* no checkpoint
Mixed == MaxOut + 2     \* two writers' bytes in one file
Items == {"paint", "bytes"} \X Chunks

TypeOK ==
    /\ may \in Scenarios
    /\ child \in [alive : BOOLEAN, open : BOOLEAN, made : Chunks]
    /\ reader \in {"running", "eof"}
    /\ waiter \in {"waiting", "drained", "gaveup"}
    /\ pane \in [fed : Chunks, shown : Chunks, sync : BOOLEAN, dirty : BOOLEAN, seq : Chunks,
                 alive : BOOLEAN, killed : BOOLEAN]
    /\ frames \in [seq : Chunks, exited : BOOLEAN, gone : BOOLEAN]
    /\ conn \in [Clients -> [pc : {"off", "on", "closing", "ended"}, subscribed : BOOLEAN,
                             queue : Seq(Items), lagged : BOOLEAN, view : Chunks, torn : BOOLEAN,
                             last : Chunks, exit : BOOLEAN]]
    /\ \A c \in Raw : Len(conn[c].queue) <= Depth
    /\ task \in [pc : {"sleep", "woken", "final", "create", "rename", "over"}, permit : BOOLEAN,
                 timer : BOOLEAN, presenting : BOOLEAN, ck : Chunks, seq : Chunks \union {None}, last : BOOLEAN,
                 failed : BOOLEAN]
    /\ final \in [pc : {"no", "create", "rename", "kill"}, ck : Chunks, kill : {"no", "clear", "signal", "done"}]
    /\ {tmp, disk} \subseteq Chunks \union {None, Mixed}
    /\ pane.seq <= pane.shown /\ pane.shown <= pane.fed /\ pane.fed <= child.made

Init ==
    /\ may \in Scenarios
    /\ child = [alive |-> TRUE, open |-> TRUE, made |-> 0]
    /\ reader = "running" /\ waiter = "waiting"
    /\ pane = [fed |-> 0, shown |-> 0, sync |-> FALSE, dirty |-> FALSE, seq |-> 0,
               alive |-> TRUE, killed |-> FALSE]
    /\ frames = [seq |-> 0, exited |-> FALSE, gone |-> FALSE]
    /\ conn = [c \in Clients |-> [pc |-> "off", subscribed |-> FALSE, queue |-> <<>>, lagged |-> FALSE,
                                  view |-> 0, torn |-> FALSE, last |-> 0, exit |-> FALSE]]
    /\ task = [pc |-> "sleep", permit |-> FALSE, timer |-> FALSE, presenting |-> FALSE, ck |-> 0,
               seq |-> None, last |-> FALSE, failed |-> FALSE]
    /\ final = [pc |-> "no", ck |-> 0, kill |-> "no"]
    /\ tmp = None /\ disk = None

Poked(t) == [t EXCEPT !.permit = TRUE]

\* PaneState::settle: a new seq if what the screen shows has changed
Settled(p) ==
    IF p.dirty THEN [p EXCEPT !.dirty = FALSE, !.seq = p.shown] ELSE p

\* TerminalEngine::flush_sync
Flushed(p) == IF p.sync THEN [p EXCEPT !.sync = FALSE, !.shown = p.fed, !.dirty = TRUE] ELSE p

-----------------------------------------------------------------------------
(* The process on the terminal *)

Write ==
    /\ child.open /\ child.made < MaxOut /\ child.made = pane.fed
    /\ child' = [child EXCEPT !.made = @ + 1]
    /\ UNCHANGED <<may, reader, waiter, pane, frames, conn, task, final, tmp, disk>>

\* another process of its group may keep the terminal open
Exit ==
    /\ child.alive
    /\ \E b \in BOOLEAN : /\ b => "linger" \in may
                          /\ child' = [child EXCEPT !.alive = FALSE, !.open = b]
    /\ UNCHANGED <<may, reader, waiter, pane, frames, conn, task, final, tmp, disk>>

Close ==
    /\ ~child.alive /\ child.open /\ child' = [child EXCEPT !.open = FALSE]
    /\ UNCHANGED <<may, reader, waiter, pane, frames, conn, task, final, tmp, disk>>

-----------------------------------------------------------------------------
(* The reader thread *)

\* Mutant of Push: a full queue loses the chunk.
PushDrops(k, n, shown) ==
    IF k.subscribed /\ Len(k.queue) < Depth THEN [k EXCEPT !.queue = Append(@, <<"bytes", n>>)] ELSE k

\* Mutant of Push: the queue has no bound.
PushUnbounded(k, n, shown) == IF k.subscribed THEN [k EXCEPT !.queue = Append(@, <<"bytes", n>>)] ELSE k

\* a full queue marks the subscriber lagged, and one that lags is repainted
\* from the emulator as soon as its queue has room
Push(k, n, shown) ==
    IF ~k.subscribed THEN k
    ELSE IF Len(k.queue) = Depth THEN [k EXCEPT !.lagged = TRUE]
    ELSE IF k.lagged
    THEN [k EXCEPT !.lagged = FALSE, !.queue = Append(@, <<"paint", shown>>), !.torn = @ \/ shown # n]
    ELSE [k EXCEPT !.queue = Append(@, <<"bytes", n>>)]

\* ingest: one chunk, under the state lock; it may begin or go on with a
\* synchronized update.  Then the pane task is poked
Ingest ==
    /\ reader = "running" /\ pane.fed < child.made
    /\ \E s \in BOOLEAN :
         LET n == pane.fed + 1
             shown == IF s THEN pane.shown ELSE n
         IN /\ s => "sync" \in may
            /\ pane' = [pane EXCEPT !.fed = n, !.shown = shown, !.sync = s, !.dirty = TRUE]
            /\ conn' = [c \in Clients |-> Push(conn[c], n, shown)]
    /\ task' = Poked(task)
    /\ UNCHANGED <<may, child, reader, waiter, frames, final, tmp, disk>>

ReaderEof ==
    /\ reader = "running" /\ ~child.open /\ pane.fed = child.made
    /\ reader' = "eof" /\ task' = Poked(task)
    /\ UNCHANGED <<may, child, waiter, pane, frames, conn, final, tmp, disk>>

-----------------------------------------------------------------------------
(* The waiter thread *)

\* Mutant of Drained: the exit is marked as soon as the child is reaped.
NotDrained == TRUE

\* the reader has stopped, or EXIT_DRAIN is over: while it still reads, only a
\* terminal that is held open makes it take that long
Drained == reader = "eof" \/ child.open

MarkExited ==
    /\ waiter = "waiting" /\ ~child.alive /\ Drained
    /\ waiter' = IF child.open THEN "gaveup" ELSE "drained"
    /\ pane' = [pane EXCEPT !.alive = FALSE]
    /\ frames' = [frames EXCEPT !.exited = TRUE]
    /\ task' = Poked(task)
    /\ UNCHANGED <<may, child, reader, conn, final, tmp, disk>>

-----------------------------------------------------------------------------
(* Connections: run_subscription *)

Set(c, k) == conn' = [conn EXCEPT ![c] = k]
Ended == [pc |-> "ended", subscribed |-> FALSE, queue |-> <<>>, lagged |-> FALSE, view |-> 0, torn |-> FALSE,
          last |-> 0, exit |-> FALSE]

\* a half-received synchronized update is applied before the first repaint
Seen(p) == Settled(Flushed(p))

\* add_raw_subscriber; the connection may have found the pane before a kill
\* took it out of the host's table
SubscribeRaw(c) ==
    /\ "raw" \in may /\ conn[c].pc = "off" /\ pane' = Seen(pane)
    /\ Set(c, [conn[c] EXCEPT !.pc = "on", !.subscribed = TRUE, !.queue = << <<"paint", pane'.shown>> >>])
    /\ UNCHANGED <<may, child, reader, waiter, frames, task, final, tmp, disk>>

SendOutput(c) ==
    /\ conn[c].pc \in {"on", "closing"} /\ conn[c].queue # <<>>
    /\ Set(c, [conn[c] EXCEPT !.view = Head(conn[c].queue)[2], !.queue = Tail(@)])
    /\ UNCHANGED <<may, child, reader, waiter, pane, frames, task, final, tmp, disk>>

Signalled == frames.gone \/ frames.exited

\* what is still queued is sent before the exit is
SawExit(k) == [k EXCEPT !.pc = "closing"]

RawSignal(c) ==
    /\ conn[c].pc = "on" /\ Signalled
    /\ Set(c, IF frames.gone THEN Ended ELSE SawExit(conn[c]))
    /\ UNCHANGED <<may, child, reader, waiter, pane, frames, task, final, tmp, disk>>

SendExited(c) ==
    /\ conn[c].pc = "closing" /\ conn[c].queue = <<>>
    /\ Set(c, [conn[c] EXCEPT !.pc = "ended", !.subscribed = FALSE, !.exit = TRUE])
    /\ UNCHANGED <<may, child, reader, waiter, pane, frames, task, final, tmp, disk>>

\* a subscriber the kill cleared: the queue has run out
RawOver(c) ==
    /\ conn[c].pc = "on" /\ ~conn[c].subscribed /\ conn[c].queue = <<>>
    /\ Set(c, Ended)
    /\ UNCHANGED <<may, child, reader, waiter, pane, frames, task, final, tmp, disk>>

\* the current seq first
SubscribeFrames(c) ==
    /\ "frames" \in may /\ conn[c].pc = "off" /\ pane' = Settled(pane)
    /\ Set(c, [conn[c] EXCEPT !.pc = "on", !.last = pane'.seq])
    /\ UNCHANGED <<may, child, reader, waiter, frames, task, final, tmp, disk>>

SendFrame(c) ==
    /\ conn[c].pc = "on"
    /\ \/ frames.gone /\ Set(c, Ended)
       \/ /\ ~frames.gone
          /\ frames.seq > conn[c].last \/ (frames.exited /\ ~conn[c].exit)
          /\ Set(c, [conn[c] EXCEPT !.last = IF frames.seq > @ THEN frames.seq ELSE @, !.exit = frames.exited])
    /\ UNCHANGED <<may, child, reader, waiter, pane, frames, task, final, tmp, disk>>

Leave(c) ==
    /\ "leave" \in may /\ conn[c].pc \in {"on", "closing"}
    /\ Set(c, Ended)
    /\ UNCHANGED <<may, child, reader, waiter, pane, frames, task, final, tmp, disk>>

\* a Screen, Info or List request settles the screen, too
AskScreen ==
    /\ pane.dirty /\ pane' = Settled(pane)
    /\ UNCHANGED <<may, child, reader, waiter, frames, conn, task, final, tmp, disk>>

-----------------------------------------------------------------------------
(* The pane task *)

Presenting == \E c \in Clients : conn[c].pc \in {"on", "closing"}

\* a poke or a timer; then a pause of up to FRAME_INTERVAL while someone watches
Wake ==
    /\ task.pc = "sleep" /\ (task.permit \/ task.timer)
    /\ \E byTimer \in BOOLEAN :
         /\ IF byTimer THEN task.timer ELSE task.permit
         /\ task' = [task EXCEPT !.permit = @ /\ byTimer, !.timer = FALSE,
                                 !.pc = IF pane.killed THEN "over" ELSE "woken", !.presenting = Presenting]
    /\ UNCHANGED <<may, child, reader, waiter, pane, frames, conn, final, tmp, disk>>

\* Mutant of Published: the seq read before the settle.
PublishedBefore(p) == IF task.presenting THEN [frames EXCEPT !.seq = pane.seq] ELSE frames

Published(p) == IF task.presenting THEN [frames EXCEPT !.seq = p.seq] ELSE frames

\* Mutant of Changed: only a settled change counts.
ChangedSeq(p) == task.seq # p.seq

Changed(p) == task.seq # p.seq \/ p.dirty

\* the work of one round, under the state lock; `late': the update's deadline
\* is over, `due': CHECKPOINT_INTERVAL is, as it is before the first checkpoint
Work ==
    /\ task.pc = "woken"
    /\ \E late, due \in BOOLEAN :
         LET p0 == IF late THEN Flushed(pane) ELSE pane
             p == IF task.presenting \/ due \/ ~pane.alive THEN Settled(p0) ELSE p0
             fin == ~p.alive /\ ~task.last
             wait == ~fin /\ ~due /\ Changed(p)
             ck == ~fin /\ due /\ task.seq # p.seq
         IN /\ task.seq = None => due
            /\ pane' = p
            /\ frames' = Published(p)
            /\ task' = [task EXCEPT !.timer = p.sync \/ wait,
                                    !.pc = IF fin THEN "final" ELSE IF ck THEN "create" ELSE "sleep",
                                    !.ck = IF ck THEN p.shown ELSE @,
                                    !.seq = IF ck THEN p.seq ELSE @]
    /\ UNCHANGED <<may, child, reader, waiter, conn, final, tmp, disk>>

\* the final checkpoint's snapshot is taken under the lock again
FinalSnapshot ==
    /\ task.pc = "final" /\ pane' = Settled(pane)
    /\ task' = [task EXCEPT !.pc = "create", !.last = TRUE, !.ck = pane'.shown, !.seq = pane'.seq]
    /\ UNCHANGED <<may, child, reader, waiter, frames, conn, final, tmp, disk>>

\* checkpoint::write: the temporary file, whose name all writers of a host share ...
Created(ck, other) == tmp' \in IF other THEN {ck, Mixed} ELSE {ck}

\* ... then the rename, which fails if the other writer's came first
Renamed == tmp # None /\ disk' = tmp /\ tmp' = None

\* a write that fails removes the temporary file
WriteFails == tmp' = None /\ UNCHANGED disk

\* what the task last wrote counts as written, whatever became of it: it is
\* not tried again, and a failure is no more than logged
Create ==
    /\ task.pc = "create"
    /\ \/ /\ Created(task.ck, final.pc = "rename") /\ UNCHANGED disk
          /\ task' = [task EXCEPT !.pc = "rename"]
       \/ /\ "disk" \in may /\ WriteFails
          /\ task' = [task EXCEPT !.pc = "sleep", !.failed = TRUE]
    /\ UNCHANGED <<may, child, reader, waiter, pane, frames, conn, final>>

Rename ==
    /\ task.pc = "rename"
    /\ \/ Renamed /\ task' = [task EXCEPT !.pc = "sleep", !.failed = FALSE]
       \/ /\ "disk" \in may \/ tmp = None
          /\ WriteFails /\ task' = [task EXCEPT !.pc = "sleep", !.failed = TRUE]
    /\ UNCHANGED <<may, child, reader, waiter, pane, frames, conn, final>>

-----------------------------------------------------------------------------
(* Kill and shutdown *)

\* kill_all: a final checkpoint of every pane, which may fail, then the kill
ShutdownSnapshot ==
    /\ "shutdown" \in may /\ ~pane.killed /\ final.pc = "no"
    /\ pane' = Settled(pane)
    /\ final' = [final EXCEPT !.pc = "create", !.ck = pane.shown]
    /\ UNCHANGED <<may, child, reader, waiter, frames, conn, task, tmp, disk>>

ShutdownCreate ==
    /\ final.pc = "create"
    /\ \/ /\ Created(final.ck, task.pc = "rename") /\ UNCHANGED disk
          /\ final' = [final EXCEPT !.pc = "rename"]
       \/ "disk" \in may /\ WriteFails /\ final' = [final EXCEPT !.pc = "kill"]
    /\ UNCHANGED <<may, child, reader, waiter, pane, frames, conn, task>>

ShutdownRename ==
    /\ final.pc = "rename" /\ final' = [final EXCEPT !.pc = "kill"]
    /\ \/ Renamed
       \/ ("disk" \in may \/ tmp = None) /\ WriteFails
    /\ UNCHANGED <<may, child, reader, waiter, pane, frames, conn, task>>

\* Pane::kill, of a pane that left the host's table: it is marked, its raw
\* subscribers are dropped, those who watch are told; the signalled group
\* ends in its own time
Kill ==
    /\ ~pane.killed
    /\ final.pc = "kill" \/ ("kill" \in may /\ final.pc = "no")
    /\ pane' = [pane EXCEPT !.killed = TRUE] /\ final' = [final EXCEPT !.kill = "clear"]
    /\ UNCHANGED <<may, child, reader, waiter, frames, conn, task, tmp, disk>>

KillClears ==
    /\ final.kill = "clear" /\ final' = [final EXCEPT !.kill = "signal"]
    /\ conn' = [c \in Clients |-> [conn[c] EXCEPT !.subscribed = FALSE]]
    /\ UNCHANGED <<may, child, reader, waiter, pane, frames, task, tmp, disk>>

KillSignals ==
    /\ final.kill = "signal" /\ final' = [final EXCEPT !.kill = "done"]
    /\ frames' = [frames EXCEPT !.gone = TRUE] /\ task' = Poked(task)
    /\ UNCHANGED <<may, child, reader, waiter, pane, conn, tmp, disk>>

-----------------------------------------------------------------------------

ProcessNext == Write \/ Exit \/ Close
ReaderNext == Ingest \/ ReaderEof
WaiterNext == MarkExited
TaskNext == Wake \/ Work \/ FinalSnapshot \/ Create \/ Rename
KillNext == ShutdownSnapshot \/ ShutdownCreate \/ ShutdownRename \/ Kill \/ KillClears \/ KillSignals
ConnNext ==
    \/ \E c \in Clients : Leave(c)
    \/ \E c \in Raw : SubscribeRaw(c) \/ SendOutput(c) \/ RawSignal(c) \/ SendExited(c) \/ RawOver(c)
    \/ \E c \in Frame : SubscribeFrames(c) \/ SendFrame(c)

Next == ProcessNext \/ ReaderNext \/ WaiterNext \/ TaskNext \/ ConnNext \/ AskScreen \/ KillNext

Spec == Init /\ [][Next]_vars

-----------------------------------------------------------------------------
(* Properties *)

Marked(c) == conn[c].lagged \/ conn[c].torn

\* Every item of a raw client's queue takes up where the one before it ended,
\* and the last one reaches the emulator's state: nothing is lost or doubled
\* without the subscriber being marked lagged ("it gets a fresh repaint later
\* instead of the bytes it missed").  Excepted is a client that was repainted
\* in the middle of a synchronized update (StreamWholeAlways).
Follows(k, i) ==
    LET before == IF i = 1 THEN k.view ELSE k.queue[i - 1][2]
    IN k.queue[i][1] = "bytes" => k.queue[i][2] = before + 1

Reaches(k) == IF k.queue = <<>> THEN k.view ELSE k.queue[Len(k.queue)][2]

StreamWhole ==
    \A c \in Raw : conn[c].subscribed /\ ~conn[c].torn =>
        /\ \A i \in 1..Len(conn[c].queue) : Follows(conn[c], i)
        /\ conn[c].lagged \/ Reaches(conn[c]) = pane.fed

\* The same of every client ("The repaint reflects this chunk too").
StreamWholeAlways ==
    \A c \in Raw : conn[c].subscribed => \A i \in 1..Len(conn[c].queue) : Follows(conn[c], i)

\* The pane task sleeps, and nothing is about to wake it.
Asleep == task.pc = "sleep" /\ ~task.permit /\ ~task.timer /\ ~pane.killed

\* No wake-up is lost: while the pane task is asleep every frames client has
\* been, or is being, told of the screen as it is.
FramesCurrentAlways ==
    Asleep => \A c \in Frame : conn[c].pc = "on" =>
        /\ pane.seq = pane.shown
        /\ pane.seq \in {conn[c].last, frames.seq}

\* It is so when the task's last round knew that someone watched.
FramesCurrent == task.presenting => FramesCurrentAlways

\* ... and the checkpoint on disk shows the screen as it is, unless a shutdown
\* is writing one, too, or the task's last write failed: then an old checkpoint
\* stays, or none, until the screen changes (CheckpointAlways).
CheckpointAlways == Asleep /\ final.pc = "no" /\ pane.fed > 0 => disk = pane.shown
CheckpointCurrent == ~task.failed => CheckpointAlways

\* Nobody is left with an old screen when the pane comes to rest.
NothingStale == FramesCurrent /\ CheckpointCurrent

\* A checkpoint is a whole one, and the host's last one is the latest
\* ("Writes are atomic (tmp + rename)").
CheckpointWhole == disk # Mixed
ShutdownKeepsLast ==
    final.pc = "kill" /\ task.pc \in {"sleep", "over"} => disk \in Chunks /\ disk >= final.ck

\* A raw client that is told of the exit has been sent all the output ("marks
\* the pane exited once the reader has drained the final output"), unless it
\* was left lagged, the waiter gave up on a terminal that is held open, or the
\* pane was killed meanwhile.
ExitAfterOutput ==
    \A c \in Raw :
        conn[c].exit /\ waiter = "drained" /\ ~Marked(c) /\ ~pane.killed => conn[c].view = child.made

=============================================================================
