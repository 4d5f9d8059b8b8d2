----------------------------- MODULE SessionPoller -----------------------------
(***************************************************************************)
(* The lifecycle poller over one worker session: its row, its incarnation, *)
(* its agent, the pull request it opened, and what the orchestrator is     *)
(* told.  The poller is one task that runs its ticks one after the other   *)
(* (poll_pids with the metadata sync before it, the retention sweep,       *)
(* poll_usage, the GitHub pass), but every tick works on a snapshot of the *)
(* row, and `ninox reap', `ninox release', a finalization, Resume and the  *)
(* agent itself run in other processes in between.                         *)
(*                                                                         *)
(* The live statuses (working, pr_open, ci_failed, ...) are one; the       *)
(* retention window is an age, "fresh" or "old".  update_live_session_row  *)
(* (read, then write at once) and remove_session are one step each; the    *)
(* writes that use a snapshot taken earlier are not.                       *)
(***************************************************************************)
EXTENDS Naturals, FiniteSets

CONSTANTS
    AutoReap,       \* [auto_reap].enabled
    Batched,        \* [pr_watch].enabled: one batched fetch instead of REST calls
    Hands,          \* which of HandNames may happen; the last two again and again, the others once
    MaxHands,       \* bound on how many of them
    MaxTold         \* the notices are counted up to here

\* "nostamp": the stamp that follows a merge notice fails; "noremove": a removal does
HandNames == {"reap", "terminate", "finish", "release", "relaunch", "crash", "nostamp", "noremove"}

ASSUME ConstantsAssumption ==
    /\ {AutoReap, Batched} \subseteq BOOLEAN
    /\ Hands \subseteq HandNames
    /\ MaxHands \in Nat
    /\ MaxTold \in Nat \ {0}

VARIABLES
    row,        \* the sessions row; here = FALSE once it is deleted
    worker,     \* its worker_incarnations row: state and started_at
    alive,      \* is the agent's process running?
    pr,         \* the pull request on GitHub, and whether the metadata file reports it
    poll,       \* the poller: which step of a tick, on which snapshot
    hand,       \* the reap or terminate that has yet to write the row
    told,       \* ghost: notices sent to the orchestrator, and the failures to act on them
    used        \* hands that have acted

vars == <<row, worker, alive, pr, poll, hand, told, used>>

Ages == {"no", "fresh", "old"}
Rows == [here : BOOLEAN, status : {"live", "done", "terminated", "interrupted"}, inc : 0..1,
         pr : BOOLEAN, pid : BOOLEAN, merged : Ages, term : Ages]
NoRow == [here |-> FALSE, status |-> "live", inc |-> 0, pr |-> FALSE, pid |-> FALSE, merged |-> "no", term |-> "no"]
Ended(r) == r.status # "live"
Finished(r) == r.status \in {"done", "terminated"}
MergeHandled(r) == r.status = "done" \/ r.merged # "no"

\* the retention clock runs for an ended row only
TypeOK ==
    /\ row \in Rows /\ (row.term # "no" => Ended(row))
    /\ worker \in [state : {"active", "retained", "claimed", "released"}, inc : 0..1]
    /\ alive \in BOOLEAN
    /\ pr \in [state : {"none", "open", "merged"}, reported : BOOLEAN]
    /\ poll \in [pc : {"idle", "sync", "list", "pids", "sweep", "decide", "retire", "remove", "usage",
                       "find", "fetch", "tell", "stamp"}, snap : Rows]
    /\ hand \in {"none", "reap", "terminate"}
    /\ told \in [merged : 0..MaxTold, retired : 0..MaxTold, nostamp : 0..MaxTold, noremove : 0..MaxTold]
    /\ used \subseteq Hands

\* a worker the CLI spawned has no pid on record, one the app launched has
Init ==
    /\ row \in {r \in Rows : /\ r.here /\ ~Ended(r) /\ r.inc = 0 /\ ~r.pr
                             /\ r.merged = "no" /\ r.term = "no"}
    /\ worker = [state |-> "active", inc |-> 0]
    /\ alive = TRUE
    /\ pr = [state |-> "none", reported |-> FALSE]
    /\ poll = [pc |-> "idle", snap |-> NoRow]
    /\ hand = "none"
    /\ told = [merged |-> 0, retired |-> 0, nostamp |-> 0, noremove |-> 0]
    /\ used = {}

-----------------------------------------------------------------------------
(* The agent, GitHub, time *)

AgentDies ==
    /\ alive /\ alive' = FALSE
    /\ UNCHANGED <<row, worker, pr, poll, hand, told, used>>

\* the gh wrapper reports the PR; one opened another way goes unreported
OpenPr ==
    /\ alive /\ pr.state = "none"
    /\ \E b \in BOOLEAN : pr' = [state |-> "open", reported |-> b]
    /\ UNCHANGED <<row, worker, alive, poll, hand, told, used>>

MergePr ==
    /\ pr.state = "open" /\ pr' = [pr EXCEPT !.state = "merged"]
    /\ UNCHANGED <<row, worker, alive, poll, hand, told, used>>

\* the retention window goes by, for a snapshot's stamps as for the row's
Older(r) ==
    LET age(a) == IF a = "fresh" THEN "old" ELSE a
    IN [r EXCEPT !.term = age(@), !.merged = age(@)]
Age ==
    /\ "fresh" \in {row.term, row.merged}
    /\ row' = Older(row) /\ poll' = [poll EXCEPT !.snap = Older(@)]
    /\ UNCHANGED <<worker, alive, pr, hand, told, used>>

-----------------------------------------------------------------------------
(* What others do to the row *)

Rest == poll' = [pc |-> "idle", snap |-> NoRow]

\* Mutant of UpdateLive: the status the caller derived from its snapshot wins.
UpdateBlindly(r, snap) == [r EXCEPT !.status = snap.status]

\* update_live_session_row: a row that ended meanwhile keeps its status
UpdateLive(r, snap) == IF Ended(r) THEN r ELSE [r EXCEPT !.status = snap.status]

May(h) ==
    /\ h \in Hands \ used /\ Cardinality(used) < MaxHands
    /\ used' = used \union {h}

\* a failure that may come again and again
Fails(h) ==
    /\ h \in Hands /\ (h \in used \/ Cardinality(used) < MaxHands)
    /\ used' = used \union {h}

\* the states in which a cleanup or a launch may claim an incarnation; one that is
\* "claimed" for a cleanup nobody claims again
Claimable == {"active", "retained"}

\* `ninox reap --force' and terminate_session kill first; a reap of a row that
\* has finished writes nothing
Kill(kind) ==
    /\ May(kind) /\ row.here /\ hand = "none"
    /\ hand' = IF kind = "reap" /\ Finished(row) THEN "none" ELSE kind
    /\ alive' = FALSE
    /\ UNCHANGED <<row, worker, pr, poll, told>>

\* Mutant of MarkReaped: reaping a worker completes it.
MarkReapedDone ==
    /\ hand = "reap" /\ hand' = "none"
    /\ row' = IF row.here /\ ~Finished(row) THEN [row EXCEPT !.status = "done", !.term = "fresh"] ELSE row
    /\ UNCHANGED <<worker, alive, pr, poll, told, used>>

\* mark_reaped_terminal reads the row again
MarkReaped ==
    /\ hand = "reap" /\ hand' = "none"
    /\ row' = IF row.here /\ ~Finished(row) THEN [row EXCEPT !.status = "terminated", !.term = "fresh"] ELSE row
    /\ UNCHANGED <<worker, alive, pr, poll, told, used>>

\* no terminal_at: the card is dismissed at once
MarkTerminated ==
    /\ hand = "terminate" /\ hand' = "none"
    /\ row' = IF row.here /\ ~Ended(row) THEN [row EXCEPT !.status = "terminated"] ELSE row
    /\ UNCHANGED <<worker, alive, pr, poll, told, used>>

\* the worker's finalization: the row ends, the checkout is retained
Finish ==
    /\ May("finish") /\ row.here
    /\ worker.state \in {"active", "retained"} /\ worker.inc = row.inc
    /\ worker' = [worker EXCEPT !.state = "retained"]
    /\ row' = [row EXCEPT !.status = IF @ = "done" THEN @ ELSE "terminated",
                          !.term = IF @ = "no" THEN "fresh" ELSE @]
    /\ UNCHANGED <<alive, pr, poll, hand, told>>

\* `ninox release': the runtime is stopped and the checkout given back, the row stays
Release ==
    /\ May("release") /\ row.here /\ worker.state = "retained"
    /\ worker' = [worker EXCEPT !.state = "released"]
    /\ alive' = FALSE
    /\ UNCHANGED <<row, pr, poll, hand, told>>

\* Mutant of Relaunch: the stamp of the last end is carried over.
RelaunchKeepsClock ==
    /\ May("relaunch") /\ row.here
    /\ row' = [row EXCEPT !.status = "live", !.inc = 1, !.pid = TRUE]
    /\ alive' = TRUE
    /\ UNCHANGED <<worker, pr, poll, hand, told>>

\* the app's Resume rebinds the incarnation to the new started_at; the TUI's,
\* restart and fleet restore do not
Relaunch ==
    /\ May("relaunch") /\ row.here
    /\ row' = [row EXCEPT !.status = "live", !.inc = 1, !.pid = TRUE, !.term = "no"]
    /\ alive' = TRUE
    /\ \/ UNCHANGED worker
       \/ worker.state \in Claimable /\ worker' = [state |-> "active", inc |-> 1]
    /\ UNCHANGED <<pr, poll, hand, told>>

\* the app goes down and its poller starts over, reconciling a dead session first
Restart ==
    /\ May("crash")
    /\ Rest
    /\ row' = IF row.here /\ ~Ended(row) /\ ~alive THEN [row EXCEPT !.status = "interrupted"] ELSE row
    /\ UNCHANGED <<worker, alive, pr, hand, told>>

-----------------------------------------------------------------------------
(* The pid tick: metadata, dead processes, retention sweep *)

Goto(pc) == poll' = [poll EXCEPT !.pc = pc]
Look(pc) == poll' = [pc |-> pc, snap |-> row]

\* sync_sessions_metadata lists the sessions, and delivers work requests first
PidTick ==
    /\ poll.pc = "idle" /\ Look("sync")
    /\ UNCHANGED <<row, worker, alive, pr, hand, told, used>>

AdoptReported ==
    /\ poll.pc = "sync"
    /\ row' = IF row.here /\ poll.snap.here /\ ~Ended(poll.snap) /\ ~poll.snap.pr /\ pr.reported
              THEN [UpdateLive(row, poll.snap) EXCEPT !.pr = TRUE] ELSE row
    /\ poll' = [pc |-> "list", snap |-> NoRow]
    /\ UNCHANGED <<worker, alive, pr, hand, told, used>>

ListPids ==
    /\ poll.pc = "list" /\ Look("pids")
    /\ UNCHANGED <<row, worker, alive, pr, hand, told, used>>

\* a live row with a dead pid: the whole snapshot goes back with the new status
ReapDead ==
    LET s == poll.snap IN
    /\ poll.pc = "pids"
    /\ row' = IF s.here /\ ~Ended(s) /\ s.pid /\ (~alive \/ row.inc # s.inc)
              THEN [s EXCEPT !.status = "terminated", !.term = "fresh"] ELSE row
    /\ poll' = [pc |-> "sweep", snap |-> NoRow]
    /\ UNCHANGED <<worker, alive, pr, hand, told, used>>

\* the sweep's list: every other session's removal is awaited before this one's turn
ListRetired ==
    /\ poll.pc = "sweep" /\ Look("decide")
    /\ UNCHANGED <<row, worker, alive, pr, hand, told, used>>

Expired(r) == (IF Finished(r) THEN r.term ELSE r.merged) # "fresh"

\* Mutant of Swept: only rows that have ended go.
SweptEnded(r) ==
    /\ r.here /\ worker.state # "retained"
    /\ Finished(r) /\ Expired(r)

\* an interrupted row waits for its restore, unless its merge was seen
Swept(r) ==
    /\ r.here /\ worker.state # "retained"
    /\ r.merged = "no" => Finished(r)
    /\ Expired(r)

\* Mutant of Told: only the status is looked at.
ToldIfDone(r) == r.status # "terminated"

\* has the orchestrator heard of this session's end?
Told(r) == r.status # "terminated" \/ r.merged # "no"

\* sweep_retired_sessions: does the row go, and does the orchestrator hear of it first?
Sweep ==
    /\ poll.pc = "decide"
    /\ IF ~Swept(poll.snap) THEN Rest ELSE Goto(IF Told(poll.snap) THEN "remove" ELSE "retire")
    /\ UNCHANGED <<row, worker, alive, pr, hand, told, used>>

Count(n) == IF n < MaxTold THEN n + 1 ELSE n

SendRetired ==
    /\ poll.pc = "retire"
    /\ told' = [told EXCEPT !.retired = Count(@)]
    /\ Goto("remove")
    /\ UNCHANGED <<row, worker, alive, pr, hand, used>>

\* Mutant of RemoveSession: a worker already released is left alone.
RemoveSessionOwned ==
    /\ poll.pc = "remove"
    /\ IF row.here /\ worker.inc = row.inc /\ worker.state \in Claimable
       THEN /\ row' = [row EXCEPT !.here = FALSE]
            /\ worker' = [worker EXCEPT !.state = "released"]
            /\ alive' = FALSE
       ELSE UNCHANGED <<row, worker, alive>>
    /\ Rest
    /\ UNCHANGED <<pr, hand, told, used>>

\* remove_session: the row read again, its incarnation claimed by started_at
\* unless it is released; what an earlier removal left claimed is passed over
RemoveSession ==
    /\ poll.pc = "remove"
    /\ IF row.here /\ worker.inc = row.inc /\ worker.state # "claimed"
       THEN /\ row' = [row EXCEPT !.here = FALSE]
            /\ worker' = [worker EXCEPT !.state = "released"]
            /\ alive' = IF worker.state = "released" THEN alive ELSE FALSE
       ELSE UNCHANGED <<row, worker, alive>>
    /\ Rest
    /\ UNCHANGED <<pr, hand, told, used>>

\* the same refused or failed, with a warning at most: the stop fails and undoes
\* the claim or cannot, or the row is not deleted and the claim stays (as it does
\* when the app ends in between)
RemoveFails ==
    /\ poll.pc = "remove" /\ row.here /\ worker.inc = row.inc
    /\ Fails("noremove")
    /\ told' = [told EXCEPT !.noremove = Count(@)]
    /\ \/ UNCHANGED <<worker, alive>>
       \/ /\ worker.state \in Claimable
          /\ worker' \in {worker, [worker EXCEPT !.state = "claimed"]}
          /\ alive' \in {alive, FALSE}
    /\ Rest
    /\ UNCHANGED <<row, pr, hand>>

-----------------------------------------------------------------------------
(* The usage tick: a transcript is read between the snapshot and its write *)

UsageTick ==
    /\ poll.pc = "idle" /\ row.here /\ ~Ended(row) /\ Look("usage")
    /\ UNCHANGED <<row, worker, alive, pr, hand, told, used>>

WriteUsage ==
    /\ poll.pc = "usage"
    /\ row' \in {row, poll.snap}
    /\ Rest
    /\ UNCHANGED <<worker, alive, pr, hand, told, used>>

-----------------------------------------------------------------------------
(* The GitHub tick: reconciliation by branch, then the PR's own state *)

\* Mutant of GithubTick: sessions that have ended are skipped.
GithubTickLive ==
    /\ poll.pc = "idle" /\ row.here /\ ~MergeHandled(row) /\ ~Ended(row)
    /\ Look(IF row.pr THEN "fetch" ELSE "find")
    /\ UNCHANGED <<row, worker, alive, pr, hand, told, used>>

GithubTick ==
    /\ poll.pc = "idle" /\ row.here /\ ~MergeHandled(row)
    /\ row.pr \/ ~Ended(row)
    /\ Look(IF row.pr THEN "fetch" ELSE "find")
    /\ UNCHANGED <<row, worker, alive, pr, hand, told, used>>

\* poll_pr_reconciliation; only an open PR is found by its branch
FindPr ==
    /\ poll.pc = "find"
    /\ row' = IF row.here /\ pr.state = "open" THEN [UpdateLive(row, poll.snap) EXCEPT !.pr = TRUE] ELSE row
    /\ Rest
    /\ UNCHANGED <<worker, alive, pr, hand, told, used>>

\* the answer arrives, or the lookup fails; REST then asks whether the session is the same
FetchPr ==
    /\ poll.pc = "fetch"
    /\ \/ /\ pr.state = "merged"
          /\ Batched \/ (row.here /\ row.inc = poll.snap.inc /\ row.pr)
          /\ Goto("tell")
       \/ Rest
    /\ UNCHANGED <<row, worker, alive, pr, hand, told, used>>

KeepAlive(s) == ~AutoReap /\ ~Ended(s)

\* handle_merge_detection: the notice first ...
TellMerged ==
    /\ poll.pc = "tell"
    /\ told' = [told EXCEPT !.merged = Count(@)]
    /\ Goto("stamp")
    /\ UNCHANGED <<row, worker, alive, pr, hand, used>>

\* Mutant of Stamped: a row that ended since the tick began is left alone.
StampedIfLive(r) == IF Ended(r) THEN r ELSE [r EXCEPT !.merged = "fresh"]

Stamped(r) == IF r.here THEN [r EXCEPT !.merged = "fresh"] ELSE r

AsDone(r) == [r EXCEPT !.status = "done", !.term = "fresh"]
Owned == row.here /\ worker.inc = row.inc /\ worker.state \in Claimable

\* ... then the stamp that makes it the only one: merged_at on a worker kept
\* alive, Done on one whose incarnation could be retained or claimed
StampMerged ==
    LET s == poll.snap IN
    /\ poll.pc = "stamp"
    /\ CASE KeepAlive(s) ->
              /\ row' = Stamped(row)
              /\ UNCHANGED <<worker, alive>>
         [] ~KeepAlive(s) /\ worker.inc = s.inc ->
              /\ row' = IF Owned /\ row.status # "done" THEN AsDone(row) ELSE row
              /\ worker' = IF Owned /\ row.status # "done" THEN [worker EXCEPT !.state = "retained"] ELSE worker
              /\ UNCHANGED alive
         [] OTHER ->
              /\ row' = IF Owned THEN AsDone(row) ELSE row
              /\ worker' = IF Owned THEN [worker EXCEPT !.state = "released"] ELSE worker
              /\ alive' = (alive /\ ~Owned)
    /\ Rest
    /\ UNCHANGED <<pr, hand, told, used>>

\* the same, failed with a warning: nothing is written, or cleanup_session got as
\* far as the claim, the stop, or the row
StampFails ==
    /\ poll.pc = "stamp"
    /\ Fails("nostamp")
    /\ told' = [told EXCEPT !.nostamp = Count(@)]
    /\ \/ UNCHANGED <<row, worker, alive>>
       \/ /\ ~KeepAlive(poll.snap) /\ worker.inc # poll.snap.inc /\ Owned
          /\ alive' \in {alive, FALSE}
          /\ \/ UNCHANGED <<row, worker>>
             \/ row' \in {row, AsDone(row)} /\ worker' = [worker EXCEPT !.state = "claimed"]
             \/ UNCHANGED row /\ worker' = [worker EXCEPT !.state = "released"]
    /\ Rest
    /\ UNCHANGED <<pr, hand>>

-----------------------------------------------------------------------------

PollNext ==
    \/ PidTick \/ AdoptReported \/ ListPids \/ ReapDead \/ ListRetired \/ Sweep \/ SendRetired \/ RemoveSession \/ RemoveFails
    \/ UsageTick \/ WriteUsage
    \/ GithubTick \/ FindPr \/ FetchPr \/ TellMerged \/ StampMerged \/ StampFails

HandNext ==
    \/ Kill("reap") \/ Kill("terminate") \/ MarkReaped \/ MarkTerminated
    \/ Finish \/ Release \/ Relaunch \/ Restart

Next == PollNext \/ HandNext \/ AgentDies \/ OpenPr \/ MergePr \/ Age

Spec == Init /\ [][Next]_vars

-----------------------------------------------------------------------------
(* Properties *)

\* nobody gave the checkout back, relaunched the worker or restarted the app, and
\* no failed cleanup left the worker claimed
Undisturbed == used \intersect {"release", "relaunch", "crash"} = {} /\ worker.state # "claimed"

\* The orchestrator hears of a merge once ("a session can never fire this
\* reaction twice", handle_merge_detection).
MergeToldOnce == told.merged <= 1

\* It does when the worker is left to the poller, reap, terminate and finish, and
\* once more for every stamp that failed ("the merge may re-notify").
MergeToldOnceUndisturbed == Undisturbed => told.merged <= 1 + told.nostamp

\* The orchestrator is told once that a worker was retired ("their one and only
\* chance before the record disappears", sweep_retired_sessions).
RetiredToldOnce == told.retired <= 1

\* It is when nobody relaunched the worker, the app stayed up and no failed
\* cleanup left the worker claimed, and once more for every removal that failed.
RetiredToldOnceUndisturbed ==
    used \intersect {"relaunch", "crash"} = {} /\ worker.state # "claimed" => told.retired <= 1 + told.noremove

\* It never hears of a merge and then that there was none (the sweep's notice
\* "would flatly contradict it"), whatever is done to the worker in between,
\* release, relaunch, a crash between notice and stamp and a stamp that failed
\* excepted.
NotContradicted ==
    [][Undisturbed /\ told.merged > 0 /\ told.nostamp = 0 => told'.retired = told.retired]_vars

\* A row that says Done was announced: the sweep drops it without a word.
DoneMeansTold == row.here /\ row.status = "done" => told.merged > 0

\* Merge and retirement are announced once each, again only for a failure to act
\* on the notice, and a row that says Done was announced.
NoticesRight == MergeToldOnceUndisturbed /\ RetiredToldOnceUndisturbed /\ DoneMeansTold

\* A row that ended comes back to life only by a relaunch ("never resurrect a
\* terminal row to a live status"), the usage tick's write aside.
TerminalStays ==
    [][row.here /\ Ended(row) /\ row'.here /\ poll.pc # "usage" => Ended(row') \/ row'.inc > row.inc]_vars

\* The same, the usage tick included.
TerminalStaysAlways ==
    [][row.here /\ Ended(row) /\ row'.here => Ended(row') \/ row'.inc > row.inc]_vars

\* "A live worker with no merge stamp is never swept."
SweepSparesLive == [][row.here /\ ~row'.here => Ended(row) \/ row.merged # "no"]_vars

\* It is not, unless it came back to life between the sweep's list and its removal.
SweepSparesLiveUnlessRelaunched ==
    [][row.here /\ ~row'.here => Ended(row) \/ row.merged # "no" \/ "relaunch" \in used]_vars

\* A PR the dead worker's metadata reports was adopted before poll_pids ended
\* the row ("a dying worker's last acts are processed before the reap").
DyingReportAdopted ==
    used = {} /\ row.here /\ row.status = "terminated" /\ pr.reported => row.pr

=============================================================================
