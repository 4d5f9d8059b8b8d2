----------------------------- MODULE FleetRestore -----------------------------
(***************************************************************************)
(* Bringing a fleet back after its panes are gone: the reconciliation the  *)
(* poller runs at startup (which rows are restorable), `ninox fleet        *)
(* restore` (workers, then the orchestrator, then its recovery briefing,   *)
(* under a store lease), `ninox restart`, Resume by hand, `reap`, and the  *)
(* request-work items that the poller nudges and the briefing carries.     *)
(*                                                                         *)
(* One orchestrator and its workers.  Every process may be between any two *)
(* of its awaits when another one runs; a reboot takes everything down but *)
(* the store and the request files.  Timestamps are kept as the order they *)
(* are compared for: `interrupted_at' and `restored_at' as which was       *)
(* written last, `terminal_at' against `reconciled_terminal_at' as whether *)
(* they still agree, request times as the set created before the stamp.    *)
(***************************************************************************)
EXTENDS Naturals, FiniteSets

CONSTANTS
    Workers, Orch,      \* the sessions
    Resumable,          \* those whose harness can --resume
    Restorers,          \* processes that run `fleet restore' (CLI, auto-restore)
    User,               \* the person (or UI) who resumes, restarts, reaps
    Requests,           \* request-work items
    None,
    MaxReboots,         \* bound on reboots
    MaxUpsets,          \* bound on crashes of a restore and actions by hand
    Flaky,              \* may a launch, a send or a liveness answer fail?
    SlowRestore         \* may a restore outlive RESTORE_LEASE_MS?

Sessions == Workers \union {Orch}
Actors == Restorers \union {User}

ASSUME SessionsAssumption == /\ Orch \notin Workers
                             /\ Resumable \subseteq Sessions
                             /\ User \notin Restorers /\ None \notin Actors \union Sessions
ASSUME BoundsAssumption == /\ MaxReboots \in Nat /\ MaxUpsets \in Nat
                           /\ {Flaky, SlowRestore} \subseteq BOOLEAN

VARIABLES
    pane,       \* session -> is its agent running?
    status,     \* session -> sessions.status
    rec,        \* session -> fleet_sessions: last of interrupted/restored, restore failed?
    cand,       \* session -> row carries the very terminal_at reconciliation stamped
    app,        \* the poller: phase, unchecked, found dead, unmarked, deferred sessions
    lease,      \* fleet_lock: holder and whether it is older than RESTORE_LEASE_MS
    run,        \* restorer -> its progress through restore()
    act,        \* actor -> the relaunch_in_place it is in
    recovery,   \* fleet_recoveries row of the orchestrator
    req,        \* request -> its file and its row
    left,       \* bounds not used up: reboots, upsets
    lost,       \* ghost: sessions on record that a reboot took, not brought back or reaped
    owed,       \* ghost: sessions a restore relaunched and has not briefed
    told,       \* ghost: requests the orchestrator was sent or saw in a briefing
    slips,      \* ghost: what failed or came too late, see Init
    reaped      \* ghost: sessions reaped and not resumed by hand since

fleet == <<pane, status, rec, cand, lost, owed>>
vars == <<fleet, app, lease, run, act, recovery, req, left, told, slips, reaped>>

Terminal == {"interrupted", "terminated"}

\* awaits_restore: an Interrupted row, or the Terminated row reconciliation wrote
Awaits(s) ==
    \/ status[s] = "interrupted"
    \/ status[s] = "terminated" /\ cand[s] /\ (rec[s].last = "interrupted" \/ rec[s].failed)

\* compute_anomalies: a worker whose orchestrator will not come back is skipped
OrchestratorGone == status[Orch] \in Terminal /\ ~Awaits(Orch)
Restorable(s) == Awaits(s) /\ (s \in Workers => ~OrchestratorGone)

Idle == [pc |-> "idle", s |-> None, was |-> "working", kind |-> "restore"]
NoRun == [pc |-> "idle", todo |-> {}, plan |-> {}, snap |-> [s \in Sessions |-> "working"], live |-> {}, pending |-> FALSE,
          listed |-> {}, upto |-> {}]
AppDown == [phase |-> "down", chk |-> {}, dead |-> {}, unmarked |-> {}, deferred |-> {}]

TypeOK ==
    /\ pane \in [Sessions -> BOOLEAN]
    /\ status \in [Sessions -> Terminal \union {"working"}]
    /\ rec \in [Sessions -> [last : {"none", "interrupted", "restored"}, failed : BOOLEAN]]
    /\ cand \in [Sessions -> BOOLEAN]
    /\ app \in [phase : {"down", "starting", "up"}, chk : SUBSET Sessions,
                dead : SUBSET Sessions, unmarked : SUBSET Sessions, deferred : SUBSET Sessions]
    /\ lease \in [holder : Restorers \union {None}, stale : BOOLEAN]
    /\ run \in [Restorers -> [pc : {"idle", "plan", "workers", "notes", "orch", "begin", "deliver", "mark", "finish"},
                              todo : SUBSET Sessions, plan : SUBSET Sessions,
                              snap : [Sessions -> Terminal \union {"working"}], live : SUBSET Sessions,
                              pending : BOOLEAN, listed : SUBSET Requests, upto : SUBSET Requests]]
    /\ act \in [Actors -> [pc : {"idle", "check", "kill", "create", "row", "ok", "failed"},
                           s : Sessions \union {None}, was : Terminal \union {"working"},
                           kind : {"restore", "resume", "restart"}]]
    /\ recovery \in [exists : BOOLEAN, sent : BOOLEAN, before : SUBSET Requests]
    /\ req \in [Requests -> [file : {"none", "pending", "moved"}, filing : BOOLEAN,
                             poll : {"rest", "move", "record"}, sent : BOOLEAN,
                             row : BOOLEAN, delivered : BOOLEAN, resolved : BOOLEAN]]
    /\ lost \subseteq Sessions /\ owed \subseteq Sessions /\ reaped \subseteq Sessions
    /\ told \subseteq Requests
    /\ slips \in [writer : SUBSET Requests, poller : SUBSET Requests, late : SUBSET Requests, begin : BOOLEAN]

\* A request: its file; is its writer still to insert the row? the poller's pass
\* over it, and whether the nudge went through; the row and its two stamps.
NoRequest == [file |-> "none", filing |-> FALSE, poll |-> "rest", sent |-> FALSE,
              row |-> FALSE, delivered |-> FALSE, resolved |-> FALSE]

Init ==
    /\ pane = [s \in Sessions |-> TRUE]
    /\ status = [s \in Sessions |-> "working"]
    /\ rec = [s \in Sessions |-> [last |-> "none", failed |-> FALSE]]
    /\ cand = [s \in Sessions |-> FALSE]
    /\ app = [AppDown EXCEPT !.phase = "up"]
    /\ lease = [holder |-> None, stale |-> FALSE]
    /\ run = [p \in Restorers |-> NoRun]
    /\ act = [a \in Actors |-> Idle]
    /\ recovery = [exists |-> FALSE, sent |-> FALSE, before |-> {}]
    /\ req = [r \in Requests |-> NoRequest]
    /\ left = [reboots |-> MaxReboots, upsets |-> MaxUpsets]
    /\ lost = {} /\ owed = {} /\ told = {} /\ reaped = {}
    \* Requests whose row the writer, or the poller, failed to insert; requests whose
    \* row came between a briefing's snapshot and its mark; was a restore ended by an
    \* error after it brought the orchestrator back and before it recorded the recovery?
    /\ slips = [writer |-> {}, poller |-> {}, late |-> {}, begin |-> FALSE]

-----------------------------------------------------------------------------
(* Losing things *)

\* The next start or restore finds the session: its row has not ended, or awaits a restore.
OnRecord(s) == status[s] = "working" \/ Awaits(s)

\* Rows that reconciliation has ended and not yet marked as its own: a poller
\* that dies there leaves a Terminated row like any other.
Unrecorded == {s \in app.unmarked : status[s] = "terminated"}

\* The machine goes down with every pane and every process.
Reboot ==
    /\ left.reboots > 0
    /\ left' = [left EXCEPT !.reboots = @ - 1]
    /\ pane' = [s \in Sessions |-> FALSE]
    /\ lost' = (lost \union {s \in Sessions : pane[s] /\ OnRecord(s)}) \ Unrecorded
    /\ owed' = {}
    /\ app' = AppDown
    /\ run' = [p \in Restorers |-> NoRun]
    /\ act' = [a \in Actors |-> Idle]
    /\ req' = [r \in Requests |-> [req[r] EXCEPT !.filing = FALSE, !.poll = "rest", !.sent = FALSE]]
    /\ slips' = [slips EXCEPT !.writer = @ \union {r \in Requests : req[r].filing},
                             !.poller = @ \union {r \in Requests : req[r].poll = "record"},
                             !.begin = FALSE]
    /\ UNCHANGED <<status, rec, cand, lease, recovery, told, reaped>>

\* A restore process dies wherever it is; its lease row stays.
Crash(p) ==
    /\ left.upsets > 0 /\ run[p].pc # "idle"
    /\ left' = [left EXCEPT !.upsets = @ - 1]
    /\ run' = [run EXCEPT ![p] = NoRun]
    /\ act' = [act EXCEPT ![p] = Idle]
    /\ UNCHANGED <<fleet, app, lease, recovery, req, told, slips, reaped>>

\* RESTORE_LEASE_MS go by
LeaseAges ==
    /\ lease.holder # None /\ ~lease.stale
    /\ SlowRestore \/ run[lease.holder].pc = "idle"
    /\ lease' = [lease EXCEPT !.stale = TRUE]
    /\ UNCHANGED <<fleet, app, run, act, recovery, req, left, told, slips, reaped>>

-----------------------------------------------------------------------------
(* The poller's startup reconciliation, its retry, and its pid tick *)

AppIdle == app.chk = {} /\ app.dead = {} /\ app.unmarked = {}
             /\ \A r \in Requests : req[r].poll = "rest"

StartApp ==
    /\ app.phase = "down"
    /\ app' = [AppDown EXCEPT !.phase = "starting", !.chk = {s \in Sessions : status[s] \notin Terminal}]
    /\ UNCHANGED <<fleet, lease, run, act, recovery, req, left, told, slips, reaped>>

\* liveness(id).await: Live, Dead, or no answer (deferred)
CheckLiveness(s) ==
    /\ s \in app.chk
    /\ \/ pane[s]  /\ app' = [app EXCEPT !.chk = @ \ {s}]
       \/ ~pane[s] /\ app' = [app EXCEPT !.chk = @ \ {s}, !.dead = @ \union {s}]
       \/ Flaky    /\ app' = [app EXCEPT !.chk = @ \ {s}, !.deferred = @ \union {s}]
    /\ UNCHANGED <<fleet, lease, run, act, recovery, req, left, told, slips, reaped>>

\* Mutant of ReconciledStatus: a worker that cannot resume is done.
ReconciledDone(s) == IF s \in Resumable THEN "interrupted" ELSE "done"

ReconciledStatus(s) == IF s \in Resumable THEN "interrupted" ELSE "terminated"

\* reconcile_dead_session re-reads the row after the await, then writes it
ReconcileDead(s) ==
    /\ s \in app.dead
    /\ IF status[s] \in Terminal
       THEN /\ app' = [app EXCEPT !.dead = @ \ {s}]
            /\ UNCHANGED fleet
       ELSE /\ app' = [app EXCEPT !.dead = @ \ {s}, !.unmarked = @ \union {s}]
            /\ status' = [status EXCEPT ![s] = ReconciledStatus(s)]
            /\ cand' = [cand EXCEPT ![s] = FALSE]
            /\ UNCHANGED <<pane, rec, lost, owed>>
    /\ UNCHANGED <<lease, run, act, recovery, req, left, told, slips, reaped>>

\* ... and record_interruption and mark_reconciled_terminal follow
MarkInterrupted(s) ==
    /\ s \in app.unmarked
    /\ app' = [app EXCEPT !.unmarked = @ \ {s}]
    /\ rec' = [rec EXCEPT ![s].last = "interrupted"]
    /\ cand' = [cand EXCEPT ![s] = status[s] = "terminated"]
    /\ UNCHANGED <<pane, status, lost, owed, lease, run, act, recovery, req, left, told, slips, reaped>>

ReconcileDone ==
    /\ app.phase = "starting" /\ AppIdle
    /\ app' = [app EXCEPT !.phase = "up"]
    /\ UNCHANGED <<fleet, lease, run, act, recovery, req, left, told, slips, reaped>>

\* the pid tick asks again about the deferred sessions that are not terminal
RetryDeferred ==
    /\ app.phase = "up" /\ AppIdle /\ app.deferred # {}
    /\ app' = [app EXCEPT !.chk = {s \in app.deferred : status[s] \notin Terminal}, !.deferred = {}]
    /\ UNCHANGED <<fleet, lease, run, act, recovery, req, left, told, slips, reaped>>

\* Mutant of PollPid: a session whose liveness is unknown is not spared.
PollPidDeferred(s) ==
    /\ app.phase = "up" /\ AppIdle
    /\ status[s] = "working" /\ ~pane[s]
    /\ status' = [status EXCEPT ![s] = "terminated"]
    /\ cand' = [cand EXCEPT ![s] = FALSE]
    /\ UNCHANGED <<pane, rec, lost, owed, app, lease, run, act, recovery, req, left, told, slips, reaped>>

\* poll_pids: a row with a dead pid and no deferral ends for good
PollPid(s) ==
    /\ app.phase = "up" /\ AppIdle
    /\ status[s] = "working" /\ ~pane[s] /\ s \notin app.deferred
    /\ status' = [status EXCEPT ![s] = "terminated"]
    /\ cand' = [cand EXCEPT ![s] = FALSE]
    /\ UNCHANGED <<pane, rec, lost, owed, app, lease, run, act, recovery, req, left, told, slips, reaped>>

-----------------------------------------------------------------------------
(* relaunch_in_place, shared by restore, restart and Resume *)

\* fleet.rs relaunch: a live pane is left alone
CheckLive(p) ==
    /\ act[p].pc = "check"
    /\ act' = [act EXCEPT ![p].pc = IF pane[act[p].s] THEN "ok" ELSE "kill"]
    /\ UNCHANGED <<fleet, app, lease, run, recovery, req, left, told, slips, reaped>>

KillStale(a) ==
    /\ act[a].pc = "kill"
    /\ pane' = [pane EXCEPT ![act[a].s] = FALSE]
    /\ act' = [act EXCEPT ![a].pc = "create"]
    /\ UNCHANGED <<status, rec, cand, lost, owed, app, lease, run, recovery, req, left, told, slips, reaped>>

\* create_session: the name may be taken by then, or the launch may fail; or the
\* orchestrator's runtime cannot be registered: its pane is killed again (that kill
\* works), and a row with the old start time is not written
CreatePane(a) ==
    LET s == act[a].s IN
    /\ act[a].pc = "create"
    /\ \/ /\ ~pane[s]
          /\ pane' = [pane EXCEPT ![s] = TRUE]
          /\ lost' = lost \ {s}
          /\ act' = [act EXCEPT ![a].pc = "row"]
          /\ UNCHANGED <<status, reaped>>
       \/ /\ pane[s] \/ Flaky
          /\ status' = [status EXCEPT ![s] = act[a].was]
          /\ act' = [act EXCEPT ![a].pc = "failed"]
          /\ UNCHANGED <<pane, lost, reaped>>
       \/ /\ s = Orch /\ ~pane[s] /\ Flaky
          /\ act' = [act EXCEPT ![a].pc = "failed"]
          /\ UNCHANGED <<pane, status, lost, reaped>>
    /\ UNCHANGED <<rec, cand, owed, app, lease, run, recovery, req, left, told, slips>>

\* the row is rebuilt and note_relaunch closes an open interruption
WriteRow(a) ==
    LET s == act[a].s IN
    /\ act[a].pc = "row"
    /\ status' = [status EXCEPT ![s] = "working"]
    /\ cand' = [cand EXCEPT ![s] = FALSE]
    /\ rec' = IF rec[s].last = "interrupted"
              THEN [rec EXCEPT ![s] = [last |-> "restored", failed |-> FALSE]] ELSE rec
    /\ owed' = IF act[a].kind = "restore" THEN owed \union {s} ELSE owed \ {s}
    /\ reaped' = IF act[a].kind = "restore" THEN reaped ELSE reaped \ {s}
    /\ slips' = [slips EXCEPT !.begin = @ /\ s # Orch]
    /\ act' = [act EXCEPT ![a].pc = "ok"]
    /\ UNCHANGED <<pane, lost, app, lease, run, recovery, req, left, told>>

Recorded(s, failed) == [rec EXCEPT ![s] = [last |-> "restored", failed |-> failed]]

\* record_restore after the attempt: restore and restart stamp the outcome, Resume does not
RecordOutcome(a) ==
    LET s == act[a].s IN
    /\ act[a].pc \in {"ok", "failed"}
    /\ rec' = IF act[a].kind = "resume" THEN rec ELSE Recorded(s, act[a].pc = "failed")
    /\ act' = [act EXCEPT ![a] = Idle]
    /\ run' = IF a \notin Restorers THEN run
              ELSE [run EXCEPT ![a].live = IF act[a].pc = "ok" THEN @ \union {s} ELSE @]
    /\ UNCHANGED <<pane, status, cand, lost, owed, app, lease, recovery, req, left, told, slips, reaped>>

Begin(a, s, pc, was, kind) == act' = [act EXCEPT ![a] = [pc |-> pc, s |-> s, was |-> was, kind |-> kind]]

\* Resume (desktop or TUI) takes no lease and does not ask whether the pane lives
ResumeByHand(s) ==
    /\ left.upsets > 0 /\ act[User].pc = "idle" /\ app.phase = "up"
    /\ s \in Resumable /\ status[s] \in Terminal
    /\ left' = [left EXCEPT !.upsets = @ - 1]
    /\ Begin(User, s, "kill", status[s], "resume")
    /\ UNCHANGED <<fleet, app, lease, run, recovery, req, told, slips, reaped>>

\* `ninox restart': a live session, refused while a lease row exists, none taken
RestartOne(s) ==
    /\ left.upsets > 0 /\ act[User].pc = "idle"
    /\ pane[s] /\ lease.holder = None
    /\ left' = [left EXCEPT !.upsets = @ - 1]
    /\ Begin(User, s, "kill", "interrupted", "restart")
    /\ UNCHANGED <<fleet, app, lease, run, recovery, req, told, slips, reaped>>

\* reap: kill, forget the interruption, end the row unless it already ended
Reap(s) ==
    /\ left.upsets > 0 /\ s \in Workers
    /\ left' = [left EXCEPT !.upsets = @ - 1]
    /\ pane' = [pane EXCEPT ![s] = FALSE]
    /\ rec' = [rec EXCEPT ![s] = [last |-> "none", failed |-> FALSE]]
    /\ cand' = [cand EXCEPT ![s] = FALSE]
    /\ status' = [status EXCEPT ![s] = "terminated"]
    /\ lost' = lost \ {s} /\ owed' = owed \ {s} /\ reaped' = reaped \union {s}
    /\ UNCHANGED <<app, lease, run, act, recovery, req, told, slips>>

-----------------------------------------------------------------------------
(* restore() *)

Step(p, pc) == run' = [run EXCEPT ![p].pc = pc]

\* Mutant of Acquire: a lease counts as abandoned however young it is.
AcquireAnyLease(p) ==
    /\ run[p].pc = "idle" /\ app.phase # "down"
    /\ lease' = [holder |-> p, stale |-> FALSE]
    /\ Step(p, "plan")
    /\ UNCHANGED <<fleet, app, act, recovery, req, left, told, slips, reaped>>

\* RestoreLease::acquire: free, or older than RESTORE_LEASE_MS
Acquire(p) ==
    /\ run[p].pc = "idle" /\ app.phase # "down"
    /\ lease.holder = None \/ lease.stale
    /\ lease' = [holder |-> p, stale |-> FALSE]
    /\ Step(p, "plan")
    /\ UNCHANGED <<fleet, app, act, recovery, req, left, told, slips, reaped>>

\* snapshot and plan_restore, workers first
Plan(p) ==
    /\ run[p].pc = "plan"
    /\ LET chosen == {s \in Sessions : Restorable(s)} IN
       run' = [run EXCEPT ![p].pc = "workers", ![p].plan = chosen, ![p].snap = status, ![p].todo = chosen \ {Orch},
                          ![p].pending = recovery.exists /\ ~recovery.sent /\ status[Orch] \notin Terminal]
    /\ UNCHANGED <<fleet, app, lease, act, recovery, req, left, told, slips, reaped>>

\* the next planned relaunch; a failure gives the row the snapshot's status again
Relaunch(p, s) ==
    /\ run[p].pc \in {"workers", "orch"} /\ act[p].pc = "idle" /\ s \in run[p].todo
    /\ run' = [run EXCEPT ![p].todo = @ \ {s}]
    /\ Begin(p, s, "check", run[p].snap[s], "restore")
    /\ UNCHANGED <<fleet, app, lease, recovery, req, left, told, slips, reaped>>

\* the prompts were waited for; each live worker gets its note, delivered or not
NoteWorkers(p) ==
    /\ run[p].pc = "workers" /\ run[p].todo = {} /\ act[p].pc = "idle"
    /\ \E missed \in SUBSET (run[p].live \intersect Workers) :
          /\ missed # {} => Flaky
          /\ owed' = owed \ ((run[p].live \intersect Workers) \ missed)
    /\ run' = [run EXCEPT ![p].pc = "orch", ![p].todo = run[p].plan \intersect {Orch}]
    /\ UNCHANGED <<pane, status, rec, cand, lost, app, lease, act, recovery, req, left, told, slips, reaped>>

Created == {r \in Requests : req[r].file # "none"}
OpenRows == {r \in Requests : req[r].row /\ ~req[r].resolved}

\* Mutant of BeginRecovery: no recovery row until the briefing is out.
BeginUnrecorded(p) ==
    /\ run[p].pc = "orch" /\ run[p].todo = {} /\ act[p].pc = "idle"
    /\ IF (run[p].pending \/ run[p].plan # {}) /\ status[Orch] \notin Terminal
       THEN run' = [run EXCEPT ![p].pc = "deliver", ![p].listed = OpenRows, ![p].upto = Created]
       ELSE Step(p, "finish")
    /\ UNCHANGED <<fleet, app, lease, act, recovery, req, left, told, slips, reaped>>

\* briefing_targets, begin_recovery, and the snapshot the briefing is written from
BeginRecovery(p) ==
    /\ run[p].pc = "orch" /\ run[p].todo = {} /\ act[p].pc = "idle"
    /\ IF (run[p].pending \/ run[p].plan # {}) /\ status[Orch] \notin Terminal
       THEN /\ run' = [run EXCEPT ![p].pc = "deliver", ![p].listed = OpenRows, ![p].upto = Created]
            /\ recovery' = IF run[p].pending THEN recovery
                           ELSE [exists |-> TRUE, sent |-> FALSE, before |-> {}]
            /\ slips' = [slips EXCEPT !.begin = FALSE]
       ELSE /\ Step(p, "finish")
            /\ UNCHANGED <<recovery, slips>>
    /\ UNCHANGED <<fleet, app, lease, act, req, left, told, reaped>>

DeliverBriefing(p) ==
    /\ run[p].pc = "deliver"
    /\ \/ /\ told' = told \union run[p].listed
          /\ owed' = owed \ {Orch}
          /\ Step(p, "mark")
       \/ /\ Flaky
          /\ Step(p, "finish")
          /\ UNCHANGED <<told, owed>>
    /\ UNCHANGED <<pane, status, rec, cand, lost, app, lease, act, recovery, req, left, slips, reaped>>

\* Mutant of MarkSent: every open request is marked, not those of the snapshot.
MarkAllSent(p) ==
    /\ run[p].pc = "mark"
    /\ recovery' = [recovery EXCEPT !.sent = TRUE, !.before = Created]
    /\ req' = [r \in Requests |-> [req[r] EXCEPT !.delivered = @ \/ r \in OpenRows]]
    /\ Step(p, "finish")
    /\ UNCHANGED <<fleet, app, lease, act, left, told, slips, reaped>>

\* mark_briefing_sent; mark_listed_work_requests_delivered up to the snapshot's time
MarkSent(p) ==
    /\ run[p].pc = "mark"
    /\ recovery' = [recovery EXCEPT !.sent = TRUE, !.before = Created]
    /\ req' = [r \in Requests |-> [req[r] EXCEPT
                 !.delivered = @ \/ (r \in run[p].upto /\ r \in OpenRows)]]
    /\ Step(p, "finish")
    /\ UNCHANGED <<fleet, app, lease, act, left, told, slips, reaped>>

\* An error of the store ends restore() at one of its `?': a snapshot, begin_recovery,
\* or either mark of a briefing that is out
RestoreFails(p) ==
    /\ Flaky /\ act[p].pc = "idle"
    /\ run[p].pc \in {"plan", "workers", "orch", "mark"} /\ run[p].todo = {}
    /\ Step(p, "finish")
    /\ \/ UNCHANGED recovery
       \/ run[p].pc = "mark" /\ recovery' = [recovery EXCEPT !.sent = TRUE, !.before = Created]
    /\ slips' = [slips EXCEPT !.begin = @ \/ (run[p].pc = "orch" /\ ~run[p].pending /\ Orch \in owed)]
    /\ UNCHANGED <<fleet, app, lease, act, req, left, told, reaped>>

\* Drop for RestoreLease deletes the row only if it is still ours
Finish(p) ==
    /\ run[p].pc = "finish"
    /\ lease' = IF lease.holder = p THEN [holder |-> None, stale |-> FALSE] ELSE lease
    /\ run' = [run EXCEPT ![p] = NoRun]
    /\ UNCHANGED <<fleet, app, act, recovery, req, left, told, slips, reaped>>

\* `ninox fleet ack' resolves what was delivered and created before the briefing went out
Ack ==
    /\ recovery.exists /\ pane[Orch]
    /\ LET upTo == IF recovery.sent THEN recovery.before ELSE Requests IN
       /\ \E r \in upTo : req[r].delivered /\ ~req[r].resolved
       /\ req' = [r \in Requests |-> [req[r] EXCEPT !.resolved = @ \/ (r \in upTo /\ req[r].row /\ req[r].delivered)]]
    /\ UNCHANGED <<fleet, app, lease, run, act, recovery, left, told, slips, reaped>>

-----------------------------------------------------------------------------
(* request-work *)

\* append_work_request stamps the request and puts its file in place ...
FileRequest(r) ==
    /\ req[r].file = "none" /\ \E w \in Workers : pane[w]
    /\ req' = [req EXCEPT ![r].file = "pending", ![r].filing = TRUE]
    /\ UNCHANGED <<fleet, app, lease, run, act, recovery, left, told, slips, reaped>>

\* A briefing is under way whose snapshot is later than r and had no row of r.
Unlisted(r) == \E p \in Restorers : run[p].pc \in {"deliver", "mark"} /\ r \in run[p].upto \ run[p].listed

Inserted(r) == [slips EXCEPT !.late = IF ~req[r].row /\ Unlisted(r) THEN @ \union {r} ELSE @]

\* ... and insert_work_request follows, which may fail with a warning; or the
\* process is killed before it
InsertRow(r) ==
    /\ req[r].filing
    /\ \/ /\ req' = [req EXCEPT ![r].filing = FALSE, ![r].row = TRUE]
          /\ slips' = Inserted(r)
       \/ /\ Flaky
          /\ req' = [req EXCEPT ![r].filing = FALSE]
          /\ slips' = [slips EXCEPT !.writer = @ \union {r}]
    /\ UNCHANGED <<fleet, app, lease, run, act, recovery, left, told, reaped>>

\* deliver_work_requests: nudge the orchestrator ...
NudgeRequest(r) ==
    /\ app.phase = "up" /\ AppIdle /\ req[r].file = "pending"
    /\ \/ /\ pane[Orch]
          /\ req' = [req EXCEPT ![r].poll = "move", ![r].sent = TRUE]
          /\ told' = told \union {r}
       \/ /\ ~pane[Orch] \/ Flaky
          /\ req' = [req EXCEPT ![r].poll = "move", ![r].sent = FALSE]
          /\ UNCHANGED told
    /\ UNCHANGED <<fleet, app, lease, run, act, recovery, left, slips, reaped>>

\* ... move the file out of the pending set either way (a rename that fails is
\* logged, and the next tick nudges again) ...
MoveRequest(r) ==
    /\ req[r].poll = "move"
    /\ \E file \in {"moved"} \union (IF Flaky THEN {"pending"} ELSE {}) :
          req' = [req EXCEPT ![r].poll = "record", ![r].file = file]
    /\ UNCHANGED <<fleet, app, lease, run, act, recovery, left, told, slips, reaped>>

\* Mutant of RecordRequest: a nudge that failed counts as delivered.
RecordAsSent(r) ==
    /\ req[r].poll = "record"
    /\ req' = [req EXCEPT ![r].poll = "rest", ![r].sent = FALSE, ![r].row = TRUE, ![r].delivered = TRUE]
    /\ slips' = Inserted(r)
    /\ UNCHANGED <<fleet, app, lease, run, act, recovery, left, told, reaped>>

\* ... and mirror the outcome: the row if there is none, then the delivery of one
\* that was sent; either may fail
RecordRequest(r) ==
    /\ req[r].poll = "record"
    /\ \E row, marked \in BOOLEAN :
          /\ Flaky \/ (row /\ marked = req[r].sent)
          /\ req[r].row => row
          /\ marked => row /\ req[r].sent
          /\ req' = [req EXCEPT ![r].poll = "rest", ![r].sent = FALSE, ![r].row = row, ![r].delivered = @ \/ marked]
          /\ slips' = IF row THEN Inserted(r) ELSE [slips EXCEPT !.poller = @ \union {r}]
    /\ UNCHANGED <<fleet, app, lease, run, act, recovery, left, told, reaped>>

-----------------------------------------------------------------------------

PollerNext ==
    \/ StartApp \/ ReconcileDone \/ RetryDeferred
    \/ \E s \in Sessions : CheckLiveness(s) \/ ReconcileDead(s) \/ MarkInterrupted(s) \/ PollPid(s)
    \/ \E r \in Requests : NudgeRequest(r) \/ MoveRequest(r) \/ RecordRequest(r)

RelaunchNext(a) ==
    \/ CheckLive(a) \/ KillStale(a) \/ CreatePane(a) \/ WriteRow(a) \/ RecordOutcome(a)

RestoreNext(p) ==
    \/ Acquire(p) \/ Plan(p) \/ NoteWorkers(p) \/ BeginRecovery(p)
    \/ DeliverBriefing(p) \/ MarkSent(p) \/ RestoreFails(p) \/ Finish(p)
    \/ \E s \in Sessions : Relaunch(p, s)

HandNext ==
    \/ Ack
    \/ \E s \in Sessions : ResumeByHand(s) \/ RestartOne(s) \/ Reap(s)
    \/ \E r \in Requests : FileRequest(r) \/ InsertRow(r)

Next ==
    \/ PollerNext \/ HandNext \/ Reboot \/ LeaseAges
    \/ \E a \in Actors : RelaunchNext(a)
    \/ \E p \in Restorers : RestoreNext(p) \/ Crash(p)

Spec == Init /\ [][Next]_vars

-----------------------------------------------------------------------------
(* Properties *)

\* Two restores never run at once, crashes and abandoned leases included
\* (fleet.rs: "A store lease keeps two restores from racing").
OneRestorer ==
    /\ \A p, q \in Restorers : run[p].pc # "idle" /\ run[q].pc # "idle" => p = q
    /\ \A p \in Restorers : run[p].pc # "idle" => lease.holder = p

\* A session that a reboot took stays restorable until something brings it
\* back or reaps it: neither the pid tick, nor a deferred check, nor a failed
\* relaunch ends it for good (poller.rs: "Runs before the first poll_pids tick").
LostOnRecord == \A s \in lost : OnRecord(s) \/ s \in app.unmarked

\* Up to now no restore crashed and nobody resumed, restarted or reaped.
Calm == left.upsets = MaxUpsets

\* An agent that runs is one that the next start or restore would find.
RunningOnRecord == Calm => \A s \in Sessions : pane[s] => OnRecord(s)

\* No running session can be forgotten: a reboot takes only what is on record,
\* and what it took stays on record.
NoneForgotten == LostOnRecord /\ RunningOnRecord

\* An orchestrator that a restore relaunched and has not briefed is on record
\* as such whenever no restore is running, so that the next one briefs it
\* (fleet.rs: re-running "delivers briefings a crashed run never sent").
UnbriefedIsPending ==
    Orch \in owed /\ (\A p \in Restorers : run[p].pc = "idle")
        => recovery.exists /\ ~recovery.sent

\* ... which holds as long as nobody interferes and no restore that brought the
\* orchestrator back was ended by an error before it recorded the recovery:
\* nothing repeats that one (fleet.rs, the `?' of the snapshot and begin_recovery).
BriefingKept == Calm /\ ~slips.begin => UnbriefedIsPending

\* A filed request is on the way to the orchestrator (its file pending, its writer or
\* the poller at work on it, or its row open and undelivered) until the orchestrator
\* was told of it, whichever send, rename, briefing or reboot fails; but for one whose
\* row both its writer and the poller failed to insert, and one whose row came too
\* late for the briefing that ticked it off (poller.rs: "The store row keeps
\* `delivered_at` empty instead, so the orchestrator's next recovery briefing carries it").
RequestKept ==
    \A r \in Requests : req[r].file # "none" =>
        \/ req[r].file = "pending" \/ req[r].filing \/ req[r].poll = "record"
        \/ r \in told
        \/ req[r].row /\ ~req[r].delivered /\ ~req[r].resolved
        \/ ~req[r].row /\ r \in slips.writer \intersect slips.poller
        \/ r \in slips.late

\* A request marked delivered (and so one an ack resolves) was told to the
\* orchestrator, or its row came between a briefing's snapshot and its mark.
DeliveredWasTold == \A r \in Requests : req[r].delivered \/ req[r].resolved => r \in told \union slips.late

\* Between them: a work request reaches the orchestrator before anything stops
\* carrying it.
RequestsReach == RequestKept /\ DeliveredWasTold

\* ... without the exception, as store_fleet.rs has it: a briefing was delivered, and
\* the undelivered requests created at or before its snapshot "have now reached it".
MarkedHaveReached == \A r \in Requests : req[r].delivered => r \in told

\* A row that says Interrupted has no agent behind it once nothing is under
\* way, as long as nothing but reboots and failures interfere.
InterruptedIsDown ==
    Calm /\ (\A a \in Actors : act[a].pc = "idle") =>
        \A s \in Sessions : status[s] = "interrupted" => ~pane[s]

\* A reaped worker is not running again unless a person resumed it.
ReapedStaysDown == \A s \in reaped : ~pane[s]

\* A lease row means that a restore is running (what `ninox restart' tells the user).
LeaseMeansRunning == lease.holder # None => run[lease.holder].pc # "idle"

=============================================================================
