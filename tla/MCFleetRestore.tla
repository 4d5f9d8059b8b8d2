---- MODULE MCFleetRestore ----
(* Model checking of FleetRestore: one or two workers and their orchestrator. *)
EXTENDS FleetRestore, TLC

\* Two restores, by the CLI and by the app, follow the same steps.
SameRestorers == Permutations(Restorers)

\* A bound: a behaviour in which work is requested has one reboot and neither
\* a crash of a restore nor an action by hand.
RequestAlone ==
    (\E r \in Requests : req[r] # NoRequest) =>
        left.upsets = MaxUpsets /\ left.reboots + 1 >= MaxReboots

\* Liveness: the app is started again, its poller runs, `fleet restore' is
\* run again and again, and a relaunch, a store access or a briefing that is
\* tried for ever succeeds some time.
Fairness ==
    /\ WF_vars(StartApp) /\ WF_vars(ReconcileDone) /\ WF_vars(RetryDeferred) /\ WF_vars(LeaseAges)
    /\ \A s \in Sessions : /\ WF_vars(CheckLiveness(s)) /\ WF_vars(ReconcileDead(s)) /\ WF_vars(MarkInterrupted(s))
                           /\ SF_vars(~pane[s] /\ s \in app.chk /\ CheckLiveness(s) /\ s \in app'.dead)
    /\ \A a \in Actors : /\ WF_vars(CheckLive(a) \/ KillStale(a) \/ CreatePane(a) \/ WriteRow(a) \/ RecordOutcome(a))
                         /\ \A s \in Sessions : SF_vars(act[a].s = s /\ CreatePane(a) /\ pane'[s])
    /\ \A p \in Restorers : /\ WF_vars(RestoreNext(p))
                            /\ SF_vars(Plan(p)) /\ SF_vars(NoteWorkers(p)) /\ SF_vars(BeginRecovery(p))
                            /\ SF_vars(DeliverBriefing(p) /\ run'[p].pc = "mark")

FairSpec == Spec /\ Fairness

\* Whatever a reboot took is brought back or reaped.
FleetComesBack == \A s \in Sessions : s \in lost ~> s \notin lost
\* A restored orchestrator gets its briefing, unless that restore ended by an
\* error before it recorded the recovery.
OrchestratorBriefed == Orch \in owed ~> Orch \notin owed \/ slips.begin
====
