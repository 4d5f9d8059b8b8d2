----------------------------- MODULE MCWorkerOps -----------------------------
(* Instances of WorkerOps for TLC.                                             *)
EXTENDS WorkerOps, TLC

CONSTANTS s1, s2, c1, c2, o1, o2, o3, o4

OneSession == {s1}
TwoSessions == {s1, s2}
OneCheckout == {c1}
TwoCheckouts == {c1, c2}
ThreeCommands == {o1, o2, o3}
FourCommands == {o1, o2, o3, o4}
ThreeProcs == ThreeCommands \cup {App}
FourProcs == FourCommands \cup {App}
AllColumns == (Checkouts \cup {NoCheckout}) \X BOOLEAN \X BOOLEAN

NoFaults == {}
AllFaults == {"git", "launch", "crash"}
GitCrash == {"git", "crash"}
NoEvents == {}
AllEvents == {"exit", "poll", "report", "merge"}
Reports == {"report"}
ReportsMerges == {"report", "merge"}

\* Sets of commands.
NoResume == AllKinds \ {"resume", "relaunch"}
NoRelaunch == AllKinds \ {"relaunch"}
NoRefile == AllKinds \ {"refile"}
SpawnRelaunchRelease == {"spawn", "relaunch", "release"}
SpawnFinalize == {"spawn", "finalize"}
SpawnFinalizeRelease == {"spawn", "finalize", "release"}
SpawnOpen == {"spawn", "open"}
SpawnRemove == {"spawn", "remove"}
SpawnResume == {"spawn", "resume"}
SpawnResumeRemove == {"spawn", "resume", "remove"}
SpawnRefileRemove == {"spawn", "refile", "remove"}

\* Which command of the set runs what is all the same, and which session it is
\* when all are owned.
Interchangeable == Permutations(Commands)
InterchangeableSessions == Permutations(Commands) \cup Permutations(Sessions)
=============================================================================
