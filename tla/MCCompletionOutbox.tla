------------------------ MODULE MCCompletionOutbox ------------------------
(* Instances of CompletionOutbox for TLC.                                      *)
EXTENDS CompletionOutbox, TLC

CONSTANTS w1, w2, deaf, near, p1, p2, m1, m2

TwoWorkers == {w1, w2}
TwoOrchs == {deaf, near}
\* w1 works for an orchestrator that need never answer.
Owners == w1 :> deaf @@ w2 :> near
OnePoller == {p1}
TwoPollers == {p1, p2}
OneWorker == {w2}
OneOrch == {near}
OneOwner == w2 :> near
OneSummary == {m1}
TwoSummaries == {m1, m2}
OnlyNear == {near}

SendAndPrompt == {"send", "prompt"}
AllFaults == {"send", "poller", "prompt", "receive", "removal"}
ReceiveFaults == {"receive"}
NoFaults == {}
NoEvents == {}
Removals == {"remove"}
Sweeps == {"resume", "sweep"}
OrchRemovals == {"removeOrch"}

AllEvents == {"claim", "resume", "remove", "sweep", "removeOrch"}

\* Apps and texts are interchangeable.
Interchangeable == Permutations(Pollers) \cup Permutations(Summaries)
=============================================================================
