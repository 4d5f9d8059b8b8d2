---------------------------- MODULE PtydHandoff ----------------------------
(***************************************************************************)
(* The live upgrade of the PTY host (crates/ninox-ptyd/src/handoff.rs, with *)
(* the parts of host.rs and pane.rs it runs through).  A running host (old) *)
(* freezes its reader threads, sends a manifest, one replay per pane and    *)
(* the PTY master fds to a successor (new), and after the successor's ack   *)
(* writes `released`, the commit point.  The successor starts the panes and *)
(* renames `<socket>.next` over `<socket>`; old then stops without killing. *)
(*                                                                          *)
(* Every host is a process with a program counter; a successor serves once  *)
(* it took over, so a chain of upgrades is a behaviour.  A pane is one      *)
(* spawned process.  Its output is numbered 1..MaxOut; the kernel buffer    *)
(* holds rd[p]+1..out[p] and screen[h][p] is the set of chunks that host    *)
(* h's emulator was fed, directly or by the replay it received.             *)
(***************************************************************************)
EXTENDS Naturals

CONSTANTS Hosts,    \* host processes, each started at most once
          First,    \* the host that is running initially
          NoHost,
          Panes,
          MaxOut,   \* bound: chunks of output one pane produces
          Events,   \* environment events the instance includes, see EventNames
          Overlap   \* "none": takeovers one at a time; "retry": a new one may start
                    \* while old still thaws after the last; "any": at any time

(* The last three are failures for want of an fd or a thread, logged and passed *)
(* over: of prepare_pane, of PendingPane::start and of restart_reader.          *)
EventNames == {"kill", "fail", "rename", "timeout", "term", "crash",
               "prepare", "start", "restart"}

ASSUME HandoffAssumption == /\ First \in Hosts
                            /\ NoHost \notin Hosts
                            /\ MaxOut \in Nat
                            /\ Events \subseteq EventNames
                            /\ Overlap \in {"none", "retry", "any"}

VARIABLES
  pc,          \* program counter of each host process
  peer,        \* the host a successor connected to (itself before that)
  hand,        \* old side: serve_handoff for the successor's connection
  pend,        \* panes covered by the handoff to this successor, not started
  ack,         \* successors whose ack is on the wire or read
  rel,         \* successors to which `released` was written
  handingOff,  \* Host.handing_off
  released,    \* Host.released
  stop,        \* Host.shutdown
  frozen,      \* the freeze pipe is readable
  panes,       \* Host.panes
  reader,      \* reader thread of a pane in a host
  screen,      \* chunks fed to the pane's emulator in a host
  proc,        \* the pane's process
  signalled,   \* panes some host sent SIGHUP/SIGKILL to
  out, rd,     \* chunks the process wrote; chunks read off the PTY
  sock, next,  \* whose listener <socket> and <socket>.next refer to
  ino,         \* the listener `serve` found at <socket> when it started
  unadopted,   \* panes a successor could not prepare or start
  home         \* history: where a pane was spawned, or whom it was released to last

hostVars == <<pc, peer, stop, ino>>
lossVars == <<unadopted, home>>
handVars == <<hand, pend, ack, rel, handingOff, released, frozen, lossVars>>
paneVars == <<panes, reader, screen, proc, signalled, out, rd>>
fileVars == <<sock, next>>
vars == <<hostVars, handVars, paneVars, fileVars>>

PC == {"unborn", "connected", "bound", "acked", "quitting", "starting",
       "serving", "killing", "cleaning", "unlinking", "leaving", "exited", "crashed"}
Hand == {"none", "begun", "freezing", "sent", "releasing", "committed",
         "thaw", "restart", "abort", "over"}
(* A reader whose restart failed: before dup(2) its state is still Frozen, in   *)
(* "lost" it is Running, but no thread was started.                             *)
Reader == {"none", "running", "reading", "frozen", "eof", "stuck", "lost"}

(* One type invariant for the whole protocol. *)
TypeOK ==
  /\ pc \in [Hosts -> PC]
  /\ peer \in [Hosts -> Hosts]
  /\ hand \in [Hosts -> Hand]
  /\ pend \in [Hosts -> SUBSET Panes] /\ unadopted \in [Hosts -> SUBSET Panes]
  /\ home \in [Panes -> Hosts \cup {NoHost}]
  /\ ack \subseteq Hosts /\ rel \subseteq Hosts
  /\ handingOff \in [Hosts -> BOOLEAN]
  /\ released \in [Hosts -> BOOLEAN]
  /\ stop \in [Hosts -> {"running", "shutdown", "handedoff"}]
  /\ frozen \in [Hosts -> BOOLEAN]
  /\ panes \in [Hosts -> SUBSET Panes]
  /\ reader \in [Hosts -> [Panes -> Reader]]
  /\ screen \in [Hosts -> [Panes -> SUBSET (1..MaxOut)]]
  /\ proc \in [Panes -> {"none", "live", "dead"}]
  /\ signalled \subseteq Panes
  /\ out \in [Panes -> 0..MaxOut] /\ rd \in [Panes -> 0..MaxOut]
  /\ \A p \in Panes : rd[p] <= out[p]
  /\ sock \in Hosts \cup {NoHost} /\ next \in Hosts \cup {NoHost}
  /\ ino \in [Hosts -> Hosts \cup {NoHost}]

Init ==
  /\ pc = [h \in Hosts |-> IF h = First THEN "serving" ELSE "unborn"]
  /\ peer = [h \in Hosts |-> h]
  /\ hand = [h \in Hosts |-> "none"]
  /\ pend = [h \in Hosts |-> {}] /\ unadopted = [h \in Hosts |-> {}]
  /\ home = [p \in Panes |-> NoHost]
  /\ ack = {} /\ rel = {}
  /\ handingOff = [h \in Hosts |-> FALSE]
  /\ released = [h \in Hosts |-> FALSE]
  /\ stop = [h \in Hosts |-> "running"]
  /\ frozen = [h \in Hosts |-> FALSE]
  /\ panes = [h \in Hosts |-> {}]
  /\ reader = [h \in Hosts |-> [p \in Panes |-> "none"]]
  /\ screen = [h \in Hosts |-> [p \in Panes |-> {}]]
  /\ proc = [p \in Panes |-> "none"]
  /\ signalled = {}
  /\ out = [p \in Panes |-> 0] /\ rd = [p \in Panes |-> 0]
  /\ sock = First /\ next = NoHost
  /\ ino = [h \in Hosts |-> IF h = First THEN First ELSE NoHost]

Up(h) == pc[h] \notin {"unborn", "exited", "crashed"}
(* The tokio runtime still runs: connections are served.  In "leaving" only *)
(* the blocking thread of send_panes can go on until the process exits.     *)
Async(h) == pc[h] \in {"serving", "killing", "cleaning", "unlinking"}
Closed(n) == pc[n] \in {"exited", "crashed"}

(* No takeover is running on the new side; on either side. *)
NewQuiet == \A m \in Hosts :
              pc[m] \notin {"connected", "bound", "acked", "quitting", "starting"}
Quiet == NewQuiet /\ \A m \in Hosts : hand[m] \in {"none", "over"} \/ ~Async(peer[m])
MayStart == \/ Overlap = "any"
            \/ Overlap = "retry" /\ NewQuiet
            \/ Quiet

-----------------------------------------------------------------------------
(* Pane processes and the client requests that touch the registry. *)

Spawn(h, p) ==
  /\ Async(h) /\ ~handingOff[h] /\ proc[p] = "none"
  /\ proc' = [proc EXCEPT ![p] = "live"]
  /\ panes' = [panes EXCEPT ![h] = @ \cup {p}]
  /\ reader' = [reader EXCEPT ![h][p] = "running"]
  /\ home' = [home EXCEPT ![p] = h]
  /\ UNCHANGED <<hostVars, hand, pend, ack, rel, handingOff, released, frozen, unadopted,
                 fileVars, screen, signalled, out, rd>>

KillPane(h, p) ==
  /\ "kill" \in Events
  /\ Async(h) /\ p \in panes[h]
  /\ panes' = [panes EXCEPT ![h] = @ \ {p}]
  /\ signalled' = signalled \cup {p}
  /\ UNCHANGED <<hostVars, handVars, fileVars, reader, screen, proc, out, rd>>

Emit(p) ==
  /\ proc[p] = "live" /\ out[p] < MaxOut
  /\ out' = [out EXCEPT ![p] = @ + 1]
  /\ UNCHANGED <<hostVars, handVars, fileVars, panes, reader, screen, proc, signalled, rd>>

Dies(p) ==
  /\ proc[p] = "live"
  /\ proc' = [proc EXCEPT ![p] = "dead"]
  /\ UNCHANGED <<hostVars, handVars, fileVars, panes, reader, screen, signalled, out, rd>>

-----------------------------------------------------------------------------
(* reader_loop: poll looks at the freeze pipe before the PTY; a chunk polled *)
(* before the freeze is still read and ingested after it.                    *)

SetReader(h, p, to) ==
  /\ reader' = [reader EXCEPT ![h][p] = to]
  /\ UNCHANGED <<hostVars, handVars, fileVars, panes, proc, signalled, out>>

PollFrozen(h, p) ==
  /\ Up(h) /\ reader[h][p] = "running" /\ frozen[h]
  /\ SetReader(h, p, "frozen") /\ UNCHANGED <<screen, rd>>

PollData(h, p) ==
  /\ Up(h) /\ reader[h][p] = "running" /\ ~frozen[h] /\ rd[p] < out[p]
  /\ SetReader(h, p, "reading") /\ UNCHANGED <<screen, rd>>

PollEof(h, p) ==
  /\ Up(h) /\ reader[h][p] = "running" /\ ~frozen[h]
  /\ proc[p] = "dead" /\ rd[p] = out[p]
  /\ SetReader(h, p, "eof") /\ UNCHANGED <<screen, rd>>

(* mutant: a chunk is counted twice *)
IngestTwice(h, p) ==
  /\ Up(h) /\ reader[h][p] = "reading" /\ rd[p] < out[p]
  /\ SetReader(h, p, "running")
  /\ screen' = [screen EXCEPT ![h][p] = @ \cup {rd[p] + 1}]
  /\ rd' = [rd EXCEPT ![p] = @ + 2]

Ingest(h, p) ==
  /\ Up(h) /\ reader[h][p] = "reading" /\ rd[p] < out[p]
  /\ SetReader(h, p, "running")
  /\ screen' = [screen EXCEPT ![h][p] = @ \cup {rd[p] + 1}]
  /\ rd' = [rd EXCEPT ![p] = @ + 1]

-----------------------------------------------------------------------------
(* Old side: serve_handoff and send_panes, one thread per successor. *)

(* mutant: spawns stay accepted during the handoff *)
OldBeginOpen(n) ==
  /\ hand[n] = "none" /\ pc[n] = "bound" /\ Async(peer[n])
  /\ hand' = [hand EXCEPT ![n] = "begun"]
  /\ UNCHANGED <<hostVars, paneVars, fileVars, lossVars, pend, ack, rel, handingOff, released, frozen>>

OldBegin(n) ==
  /\ hand[n] = "none" /\ pc[n] = "bound" /\ Async(peer[n])
  /\ hand' = [hand EXCEPT ![n] = "begun"]
  /\ handingOff' = [handingOff EXCEPT ![peer[n]] = TRUE]
  /\ UNCHANGED <<hostVars, paneVars, fileVars, lossVars, pend, ack, rel, released, frozen>>

(* mutant: the freeze pipe is never written *)
OldFreezeNot(n) ==
  /\ hand[n] = "begun" /\ Up(peer[n])
  /\ hand' = [hand EXCEPT ![n] = "freezing"]
  /\ pend' = [pend EXCEPT ![n] = panes[peer[n]]]
  /\ UNCHANGED <<hostVars, paneVars, fileVars, lossVars, ack, rel, handingOff, released, frozen>>

OldFreeze(n) ==
  /\ hand[n] = "begun" /\ Up(peer[n])
  /\ hand' = [hand EXCEPT ![n] = "freezing"]
  /\ frozen' = [frozen EXCEPT ![peer[n]] = TRUE]
  /\ pend' = [pend EXCEPT ![n] = panes[peer[n]]]
  /\ UNCHANGED <<hostVars, paneVars, fileVars, lossVars, ack, rel, handingOff, released>>

ReadersStopped(n) == \A p \in pend[n] : reader[peer[n]][p] \in {"frozen", "stuck", "eof"}

(* mutant: the replay is taken without waiting for the readers *)
OldSendEarly(n) ==
  /\ hand[n] = "freezing" /\ Up(peer[n]) /\ ~Closed(n)
  /\ hand' = [hand EXCEPT ![n] = "sent"]
  /\ screen' = [screen EXCEPT ![n] =
                  [p \in Panes |-> IF p \in pend[n] THEN screen[peer[n]][p] ELSE {}]]
  /\ UNCHANGED <<hostVars, fileVars, lossVars, pend, ack, rel, handingOff, released, frozen,
                 panes, reader, proc, signalled, out, rd>>

(* Manifest, replays and fds: the replay is what old's emulator holds now. *)
OldSend(n) ==
  /\ hand[n] = "freezing" /\ Up(peer[n]) /\ ReadersStopped(n) /\ ~Closed(n)
  /\ hand' = [hand EXCEPT ![n] = "sent"]
  /\ screen' = [screen EXCEPT ![n] =
                  [p \in Panes |-> IF p \in pend[n] THEN screen[peer[n]][p] ELSE {}]]
  /\ UNCHANGED <<hostVars, fileVars, lossVars, pend, ack, rel, handingOff, released, frozen,
                 panes, reader, proc, signalled, out, rd>>

HandTo(n, to) ==
  /\ hand' = [hand EXCEPT ![n] = to]
  /\ UNCHANGED <<hostVars, paneVars, fileVars, lossVars, pend, ack, rel>>

(* A reader that did not stop in 2 s (one without a thread never does), an   *)
(* ack that did not come in 30 s, or a successor that closed the stream.     *)
OldBail(n) ==
  /\ Up(peer[n])
  /\ \/ hand[n] = "freezing" /\ "timeout" \in Events /\ ~ReadersStopped(n)
     \/ hand[n] = "freezing" /\ \E p \in pend[n] : reader[peer[n]][p] = "lost"
     \/ hand[n] = "freezing" /\ Closed(n) /\ ReadersStopped(n)
     \/ hand[n] = "sent" /\ n \notin ack /\ (Closed(n) \/ "timeout" \in Events)
  /\ HandTo(n, "thaw") /\ UNCHANGED <<handingOff, released, frozen>>

OldReadAck(n) ==
  /\ hand[n] = "sent" /\ Up(peer[n]) /\ n \in ack
  /\ HandTo(n, "releasing")
  /\ released' = [released EXCEPT ![peer[n]] = TRUE]
  /\ UNCHANGED <<handingOff, frozen>>

(* The commit point; a closed stream fails the write. *)
OldRelease(n) ==
  /\ hand[n] = "releasing" /\ Up(peer[n]) /\ ~Closed(n)
  /\ hand' = [hand EXCEPT ![n] = "committed"]
  /\ rel' = rel \cup {n}
  /\ home' = [p \in Panes |-> IF p \in panes[peer[n]] THEN n ELSE home[p]]
  /\ UNCHANGED <<hostVars, paneVars, fileVars, pend, ack, unadopted, handingOff, released, frozen>>

(* mutant: a failed release still counts as committed *)
OldReleaseIgnored(n) ==
  /\ hand[n] = "releasing" /\ Up(peer[n]) /\ Closed(n)
  /\ HandTo(n, "committed") /\ UNCHANGED <<handingOff, released, frozen>>

OldReleaseFails(n) ==
  /\ hand[n] = "releasing" /\ Up(peer[n]) /\ Closed(n)
  /\ HandTo(n, "thaw") /\ UNCHANGED <<handingOff, released, frozen>>

(* thaw: drain the freeze pipe, restart every frozen reader, abort_handoff. *)
OldUnfreeze(n) ==
  /\ hand[n] = "thaw" /\ Async(peer[n])
  /\ HandTo(n, "restart")
  /\ frozen' = [frozen EXCEPT ![peer[n]] = FALSE]
  /\ UNCHANGED <<handingOff, released>>

(* mutant: the readers are not restarted *)
OldRestartNone(n) ==
  /\ hand[n] = "restart" /\ Async(peer[n])
  /\ HandTo(n, "abort") /\ UNCHANGED <<handingOff, released, frozen>>

(* A reader whose restart fails is logged, and the next one tried.           *)
OldRestart(n) ==
  /\ hand[n] = "restart" /\ Async(peer[n])
  /\ hand' = [hand EXCEPT ![n] = "abort"]
  /\ LET frozenOnes == {p \in panes[peer[n]] : reader[peer[n]][p] \in {"frozen", "stuck"}}
     IN  \E how \in [frozenOnes -> {"running", "stuck", "lost"}] :
           /\ "restart" \notin Events => \A p \in frozenOnes : how[p] = "running"
           /\ reader' = [reader EXCEPT ![peer[n]] =
                            [p \in Panes |-> IF p \in frozenOnes THEN how[p] ELSE @[p]]]
  /\ UNCHANGED <<hostVars, fileVars, lossVars, pend, ack, rel, handingOff, released, frozen,
                 panes, screen, proc, signalled, out, rd>>

OldAbort(n) ==
  /\ hand[n] = "abort" /\ Async(peer[n])
  /\ HandTo(n, "over")
  /\ released' = [released EXCEPT ![peer[n]] = FALSE]
  /\ handingOff' = [handingOff EXCEPT ![peer[n]] = FALSE]
  /\ UNCHANGED frozen

(* Host::stop: the first reason wins. *)
Stopped(h, how) == stop' = [stop EXCEPT ![h] = IF @ = "running" THEN how ELSE @]

(* mutant: old does not wait for the rename *)
OldStopAtOnce(n) ==
  /\ hand[n] = "committed" /\ Async(peer[n])
  /\ hand' = [hand EXCEPT ![n] = "over"]
  /\ Stopped(peer[n], "handedoff")
  /\ UNCHANGED <<pc, peer, ino, paneVars, fileVars, lossVars, pend, ack, rel,
                 handingOff, released, frozen>>

(* wait_renamed (the frame, EOF or 5 s), then stop(HandedOff). *)
OldStop(n) ==
  /\ hand[n] = "committed" /\ Async(peer[n])
  /\ pc[n] \notin {"acked", "quitting", "starting"} \/ "timeout" \in Events
  /\ hand' = [hand EXCEPT ![n] = "over"]
  /\ Stopped(peer[n], "handedoff")
  /\ UNCHANGED <<pc, peer, ino, paneVars, fileVars, lossVars, pend, ack, rel,
                 handingOff, released, frozen>>

-----------------------------------------------------------------------------
(* New side: run_takeover and take_panes. *)

PcTo(n, to) == pc' = [pc EXCEPT ![n] = to]

Connect(n) ==
  /\ pc[n] = "unborn" /\ sock # NoHost /\ pc[sock] = "serving"
  /\ MayStart
  /\ PcTo(n, "connected")
  /\ peer' = [peer EXCEPT ![n] = sock]
  /\ UNCHANGED <<stop, ino, handVars, paneVars, fileVars>>

(* Remove a leftover <socket>.next, bind it, send Request::Handoff. *)
Bind(n) ==
  /\ pc[n] = "connected"
  /\ PcTo(n, "bound")
  /\ next' = n
  /\ UNCHANGED <<peer, stop, ino, handVars, paneVars, sock>>

(* A pane that cannot be prepared is logged, its fds are closed, and the ack  *)
(* says `owned` all the same.                                                *)
NewAck(n) ==
  /\ pc[n] = "bound" /\ hand[n] = "sent"
  /\ PcTo(n, "acked")
  /\ ack' = ack \cup {n}
  /\ \E failed \in SUBSET pend[n] :
       /\ failed # {} => "prepare" \in Events
       /\ pend' = [pend EXCEPT ![n] = @ \ failed]
       /\ unadopted' = [unadopted EXCEPT ![n] = @ \cup failed]
  /\ UNCHANGED <<peer, stop, ino, hand, rel, home, handingOff, released, frozen,
                 paneVars, fileVars>>

(* Old closed the stream, refused, or died. *)
PeerGone(n) == ~Up(peer[n]) \/ hand[n] \in {"thaw", "restart", "abort", "over"}

(* Old is gone, or the release did not come in 30 s. *)
NewGiveUp(n) ==
  /\ \/ pc[n] \in {"connected", "bound"} /\ PeerGone(n)
     \/ pc[n] = "bound" /\ hand[n] = "none" /\ ~Async(peer[n])
     \/ pc[n] = "acked" /\ n \notin rel /\ (PeerGone(n) \/ "timeout" \in Events)
  /\ PcTo(n, "quitting")
  /\ UNCHANGED <<peer, stop, ino, handVars, paneVars, fileVars>>

(* Any other error before the ack: bind, manifest version, malformed frames. *)
NewFail(n) ==
  /\ "fail" \in Events /\ pc[n] \in {"connected", "bound"}
  /\ PcTo(n, "quitting")
  /\ UNCHANGED <<peer, stop, ino, handVars, paneVars, fileVars>>

(* The process ends: its threads are gone and its fds closed. *)
Gone(h, how) ==
  /\ PcTo(h, how)
  /\ panes' = [panes EXCEPT ![h] = {}]
  /\ reader' = [reader EXCEPT ![h] = [p \in Panes |-> "none"]]
  /\ pend' = [pend EXCEPT ![h] = {}]
  /\ UNCHANGED <<peer, stop, ino, lossVars, hand, ack, rel, handingOff, released, frozen,
                 screen, proc, signalled, out, rd, sock>>

(* The listener is dropped and whatever is at <socket>.next removed. *)
Quit(n) == pc[n] = "quitting" /\ Gone(n, "exited") /\ next' = NoHost

(* A pane that does not start is logged and left out of Host.panes; if it was *)
(* a later thread that failed, its reader goes on (half).                    *)
NewStart(n) ==
  /\ pc[n] = "acked" /\ n \in rel
  /\ PcTo(n, "starting")
  /\ \E failed \in SUBSET pend[n] : \E half \in SUBSET failed :
       /\ failed # {} => "start" \in Events
       /\ panes' = [panes EXCEPT ![n] = pend[n] \ failed]
       /\ unadopted' = [unadopted EXCEPT ![n] = @ \cup failed]
       /\ reader' = [reader EXCEPT ![n] =
                       [p \in Panes |-> IF p \in (pend[n] \ failed) \cup half THEN "running" ELSE "none"]]
  /\ pend' = [pend EXCEPT ![n] = {}]
  /\ UNCHANGED <<peer, stop, ino, hand, ack, rel, home, handingOff, released, frozen,
                 screen, proc, signalled, out, rd, fileVars>>

(* rename(next, socket), the `renamed` frame, and the accept loop. *)
NewRename(n) ==
  /\ pc[n] = "starting" /\ next # NoHost
  /\ sock' = next /\ next' = NoHost
  /\ PcTo(n, "serving")
  /\ ino' = [ino EXCEPT ![n] = next]
  /\ UNCHANGED <<peer, stop, handVars, paneVars>>

(* Another takeover has taken `<socket>.next` away, or rename(2) fails.       *)
NewRenameFails(n) ==
  /\ pc[n] = "starting" /\ (next = NoHost \/ "rename" \in Events)
  /\ PcTo(n, "quitting")
  /\ UNCHANGED <<peer, stop, ino, handVars, paneVars, fileVars>>

(* mutant: the lock fd does not travel with the panes *)
HoldsLockServing(h) == Async(h) \/ pc[h] = "leaving"

(* The flock: every host that serves, and every successor that the lock fd *)
(* reached or is on its way to.                                            *)
HoldsLock(h) ==
  /\ Up(h)
  /\ \/ Async(h) \/ pc[h] \in {"leaving", "starting"}
     \/ h \in ack
     \/ hand[h] \in {"sent", "releasing", "committed"}

Refused == IF sock = NoHost THEN TRUE
           ELSE pc[sock] \in {"killing", "cleaning", "unlinking", "leaving", "exited", "crashed"}

(* No host answers: run() takes the lock, replaces the stale socket, serves. *)
Fresh(n) ==
  /\ pc[n] = "unborn"
  /\ Refused
  /\ \A h \in Hosts : ~HoldsLock(h)
  /\ PcTo(n, "serving")
  /\ sock' = n /\ ino' = [ino EXCEPT ![n] = n]
  /\ UNCHANGED <<peer, stop, handVars, paneVars, next>>

-----------------------------------------------------------------------------
(* serve(): the accept loop and what follows it. *)

(* SIGTERM, or a client's Shutdown request. *)
Term(h) ==
  /\ "term" \in Events /\ pc[h] = "serving" /\ stop[h] = "running"
  /\ Stopped(h, "shutdown")
  /\ UNCHANGED <<pc, peer, ino, handVars, paneVars, fileVars>>

ServeBreak(h) ==
  /\ pc[h] = "serving" /\ stop[h] # "running"
  /\ PcTo(h, IF stop[h] = "handedoff" \/ released[h] THEN "leaving" ELSE "killing")
  /\ UNCHANGED <<peer, stop, ino, handVars, paneVars, fileVars>>

KillAll(h) ==
  /\ pc[h] = "killing"
  /\ PcTo(h, "cleaning")
  /\ panes' = [panes EXCEPT ![h] = {}]
  /\ signalled' = signalled \cup panes[h]
  /\ UNCHANGED <<peer, stop, ino, handVars, fileVars, reader, screen, proc, out, rd>>

(* The socket is removed only if its inode is still the one found at start. *)
CheckInode(h) ==
  /\ pc[h] = "cleaning"
  /\ PcTo(h, IF ino[h] # NoHost /\ sock = ino[h] THEN "unlinking" ELSE "leaving")
  /\ UNCHANGED <<peer, stop, ino, handVars, paneVars, fileVars>>

Unlink(h) ==
  /\ pc[h] = "unlinking"
  /\ PcTo(h, "leaving")
  /\ sock' = NoHost
  /\ UNCHANGED <<peer, stop, ino, handVars, paneVars, next>>

Exit(h) == pc[h] = "leaving" /\ Gone(h, "exited") /\ UNCHANGED next

Crash(h) == "crash" \in Events /\ Up(h) /\ Gone(h, "crashed") /\ UNCHANGED next

-----------------------------------------------------------------------------
ReaderNext(h, p) == PollFrozen(h, p) \/ PollData(h, p) \/ PollEof(h, p) \/ Ingest(h, p)
OldNext(n) ==
  \/ OldBegin(n) \/ OldFreeze(n) \/ OldSend(n) \/ OldBail(n) \/ OldReadAck(n)
  \/ OldRelease(n) \/ OldReleaseFails(n) \/ OldUnfreeze(n) \/ OldRestart(n)
  \/ OldAbort(n) \/ OldStop(n)
NewNext(n) ==
  \/ Bind(n) \/ NewAck(n) \/ NewGiveUp(n) \/ Quit(n) \/ NewStart(n)
  \/ NewRename(n) \/ NewRenameFails(n)
ServeNext(h) == ServeBreak(h) \/ KillAll(h) \/ CheckInode(h) \/ Unlink(h) \/ Exit(h)

Next ==
  \/ \E h \in Hosts, p \in Panes : Spawn(h, p) \/ KillPane(h, p) \/ ReaderNext(h, p)
  \/ \E p \in Panes : Emit(p) \/ Dies(p)
  \/ \E h \in Hosts : \/ Connect(h) \/ Fresh(h) \/ NewFail(h) \/ Term(h) \/ Crash(h)
                      \/ OldNext(h) \/ NewNext(h) \/ ServeNext(h)

Spec == Init /\ [][Next]_vars

(* Threads and processes that can run do run; clients, operators, signals,  *)
(* faults and the agents' own output owe nothing.                           *)
Fairness ==
  /\ \A h \in Hosts : WF_vars(OldNext(h)) /\ WF_vars(NewNext(h)) /\ WF_vars(ServeNext(h))
  /\ \A h \in Hosts, p \in Panes : WF_vars(ReaderNext(h, p))

FairSpec == Spec /\ Fairness
-----------------------------------------------------------------------------
(* Properties. *)

Reading(h, p) == reader[h][p] \in {"running", "reading"}
Committed(h) == \E n \in rel : peer[n] = h

(* The host that answers for p: the one that has it and has not released it, *)
(* from the commit point on the successor, even before it starts p.          *)
Responsible(h, p) ==
  /\ Up(h) /\ p \notin signalled
  /\ \/ p \in panes[h] /\ ~Committed(h)
     \/ p \in pend[h] /\ h \in rel
Owner(p) == IF \E h \in Hosts : Responsible(h, p)
            THEN CHOOSE h \in Hosts : Responsible(h, p) ELSE NoHost

(* A process that runs, that nobody was asked to end, and whose PTY master   *)
(* no process holds any more: the kernel hangs it up.                        *)
Holds(h, p) ==
  /\ Up(h)
  /\ p \in panes[h] \/ (p \in pend[h] /\ (h \in ack \/ hand[h] = "sent")) \/ Reading(h, p)
Orphan(p) == proc[p] = "live" /\ p \notin signalled /\ \A h \in Hosts : ~Holds(h, p)

(* No two hosts read the same PTY: output is never split between emulators   *)
(* (handoff.rs steps 2 and 4, reader_loop's freeze).                         *)
OneReader == \A p \in Panes : \A g, h \in Hosts :
               Reading(g, p) /\ Reading(h, p) => g = h

(* The emulator of the host that answers for a pane has seen every byte read *)
(* off the PTY, across any number of upgrades and aborted upgrades.          *)
ScreenComplete == \A h \in Hosts, p \in Panes :
                    Responsible(h, p) => screen[h][p] = 1..rd[p]

(* No upgrade, completed or aborted, costs an agent its terminal, but for    *)
(* the panes that the host they were released to could not prepare or start. *)
NoOrphan == \A p \in Panes : Orphan(p) => home[p] \in Hosts /\ p \in unadopted[home[p]]

(* Before the commit point, any failure leaves old owning everything          *)
(* (handoff.rs:30): nothing is released to a successor that could not prepare *)
(* a pane.                                                                    *)
FailureKeepsOld == \A n \in rel : pc[n] = "acked" => unadopted[n] = {}

(* n was released to, and ended before it served. *)
GaveUp(n) == n \in rel /\ Closed(n) /\ ino[n] = NoHost
(* What can have cost a pane of h, or released to h, its terminal: h could    *)
(* not adopt it, was shut down or killed, or released it, as what it had      *)
(* later, to a successor that gave up.                                        *)
Cost(h, p) ==
  \/ p \in unadopted[h]
  \/ pc[h] = "crashed"
  \/ pc[h] = "exited" /\ stop[h] = "shutdown"
  \/ GaveUp(h) \/ \E n \in rel : peer[n] = h /\ GaveUp(n)

(* With timeouts and signals a terminal is lost only by what befell the host  *)
(* it was released to last: a failure before the commit point costs nothing   *)
(* (handoff.rs:30), but for the panes that could not be prepared.             *)
OrphanOnlyAfterCommit == \A p \in Panes : Orphan(p) => home[p] \in Hosts /\ Cost(home[p], p)

(* At most one host accepts spawns: the lock and the release keep a fresh    *)
(* start, the old host and its successor apart.                              *)
OneHost == \A g, h \in Hosts :
             /\ pc[g] = "serving" /\ ~handingOff[g]
             /\ pc[h] = "serving" /\ ~handingOff[h]
             => g = h

(* Both: what faults cost is bounded.                                        *)
FaultsContained == OneHost /\ OrphanOnlyAfterCommit

(* Clients always find a listening host at the socket during an upgrade.     *)
AlwaysReachable == sock # NoHost /\ pc[sock] = "serving"

(* A host that no takeover is working on and that released nothing is whole: *)
(* it accepts spawns, and every reader of its panes runs whose restart did    *)
(* not fail (thaw undid all).                                                *)
IdleHostWhole ==
  Quiet => \A h \in Hosts :
    pc[h] = "serving" /\ ~Committed(h) =>
      /\ ~handingOff[h] /\ ~released[h] /\ ~frozen[h]
      /\ \A p \in panes[h] : reader[h][p] # "frozen"

(* What an upgrade must spare: every terminal, the socket, and old when it   *)
(* fails (send_panes, thaw).                                                 *)
UpgradeSafe == NoOrphan /\ AlwaysReachable /\ IdleHostWhole

(* After the release old never touches the panes again (handoff.rs:21).      *)
ReleasedNeverTouched ==
  [][\A h \in Hosts : Committed(h) /\ Async(h) => (panes[h] = panes'[h] /\ panes[h] \cap (signalled' \ signalled) = {})]_vars

(* A SIGTERM racing the commit never kills panes the successor owns          *)
(* (host.rs:132).                                                            *)
TermSparesReleased ==
  [][\A h \in Hosts : Committed(h) /\ KillAll(h) => panes[h] = {}]_vars

(* The socket file a stopping host removes is its own (host.rs:530).         *)
UnlinksOwnSocket == [][\A h \in Hosts : Unlink(h) => sock = ino[h]]_vars

(* A failed takeover started nothing (take_panes, handoff.rs:252).           *)
FailedStartedNothing == \A n \in Hosts : pc[n] = "quitting" => panes[n] = {}

(* A takeover always comes to an end: it serves or its process exits.        *)
UpgradeEnds == \A n \in Hosts : pc[n] = "connected" ~> pc[n] \in {"serving", "exited"}

(* Output written while the readers are frozen is read in the end, by old or *)
(* by the successor, unless the pane was killed, could not be adopted, or its *)
(* reader not be restarted.                                                  *)
Unread(p) == home[p] \in Hosts /\ (p \in unadopted[home[p]] \/ reader[home[p]][p] \in {"stuck", "lost"})
OutputRead == \A p \in Panes : out[p] > rd[p] ~> (out[p] = rd[p] \/ p \in signalled \/ Unread(p))

(* Both: neither a takeover nor a frozen reader hangs.                       *)
UpgradeSettles == UpgradeEnds /\ OutputRead

Ownership == INSTANCE PtydOwnership WITH
               owner <- [p \in Panes |-> Owner(p)],
               failed <- unadopted,
               used <- {p \in Panes : proc[p] # "none"}
ImplementsOwnership == Ownership!ASpec
-----------------------------------------------------------------------------
(* Why OneReader holds when takeovers do not overlap: an inductive invariant. *)

Succ(n) == pc[n] \in {"connected", "bound", "acked", "quitting", "starting"}
Busy(n) == Succ(n) \/ (hand[n] \notin {"none", "over"} /\ Async(peer[n]))
PreCommit(n) == hand[n] \notin {"committed", "over"}
NotYet(h) == pc[h] \in {"unborn", "connected", "bound", "acked"}

(* Takeovers exclude each other. *)
IBusy == \A m, n \in Hosts : Busy(m) /\ Busy(n) => m = n
(* A takeover's peer has served, so it never becomes a successor again. *)
IPeer == \A n \in Hosts : Succ(n) \/ hand[n] # "none" =>
           ~NotYet(peer[n]) /\ ~Succ(peer[n])
INext == \A n \in Hosts : pc[n] \in {"bound", "acked", "starting"} => next = n
IRel == \A n \in Hosts :
          /\ n \in rel => hand[n] \in {"committed", "over"}
          /\ pc[n] = "starting" => n \in rel
          /\ pc[n] \in {"unborn", "connected"} => hand[n] = "none" /\ pend[n] = {}
(* What was never spawned is nowhere; who has not taken over has nothing. *)
IUnspawned == \A p \in Panes, h \in Hosts :
                /\ proc[p] = "none" => reader[h][p] = "none" /\ p \notin panes[h] \cup pend[h]
                /\ NotYet(h) => reader[h][p] = "none" /\ p \notin panes[h]
(* Before the commit the socket has not moved on from old. *)
ISock == \A n \in Hosts :
           Busy(n) /\ PreCommit(n) /\ Async(peer[n]) => sock \in {peer[n], NoHost}
(* Before the commit nobody but old reads its panes. *)
IOld == \A n, g \in Hosts, p \in Panes :
          /\ Busy(n) /\ PreCommit(n) /\ Up(peer[n]) /\ g # peer[n]
          /\ p \in panes[peer[n]] \cup pend[n]
          => ~Reading(g, p)
(* From the replay to the start nobody reads the panes. *)
ISent == \A n, g \in Hosts, p \in Panes :
           /\ hand[n] \in {"sent", "releasing"} \/ n \in rel
           /\ Succ(n) /\ p \in pend[n]
           => ~Reading(g, p)
(* Between the start and the rename only the successor reads them. *)
IStarted == \A n, g \in Hosts, p \in Panes :
              pc[n] = "starting" /\ p \in panes[n] /\ g # n => ~Reading(g, p)
(* The host behind the socket shares its panes with a started successor only. *)
IHome == \A g, h \in Hosts, p \in Panes :
           sock = h /\ p \in panes[h] /\ g # h /\ Reading(g, p) => Succ(g)

Exclusive == /\ IBusy /\ IPeer /\ INext /\ IRel /\ IUnspawned
             /\ ISock /\ IOld /\ ISent /\ IStarted /\ IHome /\ OneReader
OneReaderInv == TypeOK /\ Exclusive
=============================================================================
