---- MODULE MCSessionPoller ----
(* Model checking of SessionPoller: one worker, one pull request. *)
EXTENDS SessionPoller

\* The poller's ticks come round, a lookup that is tried for ever is answered,
\* a removal that is tried for ever does not fail for ever, and time goes by.
\* Nothing is assumed of the stamp, nor of the write of a reap or terminate.
Fairness ==
    /\ WF_vars(PollNext) /\ SF_vars(PidTick) /\ SF_vars(GithubTick)
    /\ SF_vars(FetchPr /\ poll'.pc = "tell") /\ SF_vars(RemoveSession)
    /\ WF_vars(Age)

FairSpec == Spec /\ Fairness

\* A merge of the tracked PR is announced even when the worker has ended ("or a
\* later merge becomes permanently invisible", poll_github), unless the session
\* is removed first.
MergeNoticed == row.pr /\ pr.state = "merged" ~> told.merged > 0 \/ ~row.here

\* A merged worker that nobody reaps is reclaimed in the end ("this fallback
\* stops a merged worker leaking its row/tmux/worktree forever",
\* sweep_retired_sessions), unless its checkout is retained or the worker was
\* relaunched under an incarnation that no removal finds.
MergedReclaimedAlways ==
    row.here /\ row.merged # "no" ~> ~row.here \/ worker.state = "retained" \/ "relaunch" \in used

\* It is, unless a cleanup that failed half-way left it claimed.
MergedReclaimed ==
    row.here /\ row.merged # "no" ~>
        ~row.here \/ worker.state \in {"retained", "claimed"} \/ "relaunch" \in used

\* A merge is announced, and what it leaves behind is reclaimed.
MergeSettles == MergeNoticed /\ MergedReclaimed
====
