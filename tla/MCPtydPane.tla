---- MODULE MCPtydPane ----
(* Model checking of PtydPane. *)
EXTENDS PtydPane

CONSTANTS r1, f1

OneRaw == {r1}
OneFrame == {f1}

EachEvent == {
    {"raw", "frames", "sync"},
    {"raw", "sync", "leave", "kill"},
    {"raw", "sync", "linger"},
    {"frames", "leave", "disk"},
    {"frames", "sync", "linger", "leave", "kill"},
    {"raw", "shutdown"}, {"sync", "shutdown"} }

\* The host's threads run, and every client reads what it is sent.
Fairness ==
    /\ WF_vars(ReaderNext) /\ WF_vars(WaiterNext) /\ WF_vars(TaskNext) /\ WF_vars(KillNext)
    /\ \A c \in Raw : WF_vars(SendOutput(c) \/ RawSignal(c) \/ SendExited(c) \/ RawOver(c))
    /\ \A c \in Frame : WF_vars(SendFrame(c))

FairSpec == Spec /\ Fairness

\* Once the process is gone and its terminal is closed, every client is told,
\* or its connection ends: no subscription hangs on a dead pane.
EveryoneHears ==
    ~child.alive /\ ~child.open ~> \A c \in Clients : conn[c].pc = "on" => conn[c].exit

\* A lagged client is repainted ("it gets a fresh repaint later instead of the
\* bytes it missed").
LagEnds == \A c \in Raw : conn[c].lagged ~> ~conn[c].lagged \/ ~conn[c].subscribed
====
