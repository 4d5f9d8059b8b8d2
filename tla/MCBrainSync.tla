----------------------------- MODULE MCBrainSync -----------------------------
(* TLC instances of BrainSync.                                             *)
EXTENDS BrainSync, TLC

CONSTANTS a, b, e, f, q1, q2, q3

OneEach == q1 :> a @@ q2 :> b
TwoOnAOneOnB == q1 :> a @@ q2 :> a @@ q3 :> b

Both == {"sync", "lookup"}
OnlySync == [q \in Procs |-> {"sync"}]
OneLooks == q1 :> {"index"} @@ q2 :> Both
LookupBeside == q1 :> {"sync"} @@ q2 :> {"lookup"} @@ q3 :> {"sync"}
==============================================================================
