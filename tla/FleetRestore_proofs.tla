-------------------------- MODULE FleetRestore_proofs --------------------------
(* What holds of the restore of a fleet for every set of sessions, processes *)
(* and requests, and every number of reboots, crashes and actions by hand.   *)
EXTENDS FleetRestore, TLAPS

(* The types of the records, so that the provers see them as wholes.         *)
Statuses == Terminal \union {"working"}
RunPcs == {"idle", "plan", "workers", "notes", "orch", "begin", "deliver", "mark", "finish"}
ActPcs == {"idle", "check", "kill", "create", "row", "ok", "failed"}
Recs == [last : {"none", "interrupted", "restored"}, failed : BOOLEAN]
Apps == [phase : {"down", "starting", "up"}, chk : SUBSET Sessions,
         dead : SUBSET Sessions, unmarked : SUBSET Sessions, deferred : SUBSET Sessions]
Runs == [pc : RunPcs, todo : SUBSET Sessions, plan : SUBSET Sessions, snap : [Sessions -> Statuses],
         live : SUBSET Sessions, pending : BOOLEAN, listed : SUBSET Requests, upto : SUBSET Requests]
Acts == [pc : ActPcs, s : Sessions \union {None}, was : Statuses, kind : {"restore", "resume", "restart"}]
Files == {"none", "pending", "moved"}
Polls == {"rest", "move", "record"}
Reqs == [file : Files, filing : BOOLEAN, poll : Polls, sent : BOOLEAN,
         row : BOOLEAN, delivered : BOOLEAN, resolved : BOOLEAN]
Slips == [writer : SUBSET Requests, poller : SUBSET Requests, late : SUBSET Requests, begin : BOOLEAN]

(* A relaunch under way is that of a session.                                *)
ActOnSession == \A a \in Actors : act[a].pc # "idle" => act[a].s \in Sessions

Typed ==
    /\ pane \in [Sessions -> BOOLEAN] /\ status \in [Sessions -> Statuses]
    /\ rec \in [Sessions -> Recs] /\ cand \in [Sessions -> BOOLEAN]
    /\ app \in Apps
    /\ lease \in [holder : Restorers \union {None}, stale : BOOLEAN]
    /\ run \in [Restorers -> Runs] /\ act \in [Actors -> Acts]
    /\ recovery \in [exists : BOOLEAN, sent : BOOLEAN, before : SUBSET Requests]
    /\ req \in [Requests -> Reqs]
    /\ lost \subseteq Sessions /\ owed \subseteq Sessions /\ reaped \subseteq Sessions
    /\ told \subseteq Requests /\ slips \in Slips
    /\ ActOnSession

LEMMA TypedIsTypeOK == Typed <=> TypeOK /\ ActOnSession
  BY DEF Typed, TypeOK, Statuses, RunPcs, ActPcs, Recs, Apps, Runs, Acts, Reqs, Files, Polls, Slips

LEMMA ActTypes ==
    ASSUME NEW t \in Acts, NEW c \in ActPcs
    PROVE  [t EXCEPT !.pc = c] \in Acts
  BY DEF Acts

LEMMA RunTypes ==
    ASSUME NEW t \in Runs, NEW c \in RunPcs
    PROVE  /\ [t EXCEPT !.pc = c] \in Runs
           /\ \A S, T \in SUBSET Sessions : \A f \in [Sessions -> Statuses] : \A b \in BOOLEAN :
                 [t EXCEPT !.pc = c, !.plan = S, !.snap = f, !.todo = T, !.pending = b] \in Runs
           /\ \A S \in SUBSET Sessions : /\ [t EXCEPT !.todo = S] \in Runs
                                         /\ [t EXCEPT !.live = S] \in Runs
                                         /\ [t EXCEPT !.pc = c, !.todo = S] \in Runs
           /\ \A P, Q \in SUBSET Requests : [t EXCEPT !.pc = c, !.listed = P, !.upto = Q] \in Runs
  BY DEF Runs

LEMMA RunFields ==
    ASSUME NEW t \in Runs
    PROVE  /\ t.pc \in RunPcs /\ t.todo \subseteq Sessions /\ t.plan \subseteq Sessions
           /\ t.snap \in [Sessions -> Statuses] /\ t.live \subseteq Sessions
           /\ t.listed \subseteq Requests /\ t.upto \subseteq Requests
  BY DEF Runs

LEMMA ReqTypes ==
    ASSUME NEW t \in Reqs
    PROVE  /\ \A b \in BOOLEAN : /\ [t EXCEPT !.poll = "move", !.sent = b] \in Reqs
                                /\ [t EXCEPT !.delivered = b] \in Reqs
                                /\ [t EXCEPT !.resolved = b] \in Reqs
           /\ \A b, c \in BOOLEAN : [t EXCEPT !.poll = "rest", !.sent = FALSE, !.row = b, !.delivered = c] \in Reqs
           /\ \A f \in Files : [t EXCEPT !.poll = "record", !.file = f] \in Reqs
           /\ [t EXCEPT !.file = "pending", !.filing = TRUE] \in Reqs
           /\ [t EXCEPT !.filing = FALSE] \in Reqs
           /\ [t EXCEPT !.filing = FALSE, !.row = TRUE] \in Reqs
           /\ [t EXCEPT !.filing = FALSE, !.poll = "rest", !.sent = FALSE] \in Reqs
  BY DEF Reqs, Files, Polls

(* What failed is only added to, but for the mark of an ended restore.       *)
LEMMA SlipTypes ==
    ASSUME Typed, NEW S \in SUBSET Requests, NEW T \in SUBSET Requests, NEW b \in BOOLEAN
    PROVE  /\ [slips EXCEPT !.writer = S] \in Slips /\ [slips EXCEPT !.poller = S] \in Slips
           /\ [slips EXCEPT !.late = S] \in Slips /\ [slips EXCEPT !.begin = b] \in Slips
           /\ [slips EXCEPT !.writer = S, !.poller = T, !.begin = b] \in Slips
  BY DEF Typed, Slips

LEMMA AppTypes ==
    ASSUME app \in Apps, NEW s \in Sessions
    PROVE  /\ [app EXCEPT !.chk = @ \ {s}] \in Apps
           /\ [app EXCEPT !.chk = @ \ {s}, !.dead = @ \union {s}] \in Apps
           /\ [app EXCEPT !.chk = @ \ {s}, !.deferred = @ \union {s}] \in Apps
           /\ [app EXCEPT !.dead = @ \ {s}] \in Apps
           /\ [app EXCEPT !.dead = @ \ {s}, !.unmarked = @ \union {s}] \in Apps
  BY DEF Apps

LEMMA EmptyTypes == Idle \in Acts /\ NoRun \in Runs /\ AppDown \in Apps
  BY DEF Idle, Acts, ActPcs, NoRun, Runs, RunPcs, AppDown, Apps, Statuses, Terminal

(* A relaunch moves on, ends, or begins.                                     *)
LEMMA ActMoves ==
    ASSUME Typed, NEW a \in Actors, NEW c \in ActPcs, act[a].pc # "idle",
           act' = [act EXCEPT ![a].pc = c]
    PROVE  act' \in [Actors -> Acts] /\ ActOnSession'
  <1>1. act' = [act EXCEPT ![a] = [act[a] EXCEPT !.pc = c]]
    BY DEF Typed
  <1>2. [act[a] EXCEPT !.pc = c] \in Acts /\ [act[a] EXCEPT !.pc = c].s = act[a].s
    BY ActTypes DEF Typed, Acts
  <1>. HIDE DEF Acts
  <1>. QED  BY <1>1, <1>2 DEF Typed, ActOnSession

LEMMA ActEnds ==
    ASSUME Typed, NEW a \in Actors, act' = [act EXCEPT ![a] = Idle]
    PROVE  act' \in [Actors -> Acts] /\ ActOnSession'
  <1>1. Idle.pc = "idle"
    BY DEF Idle
  <1>. QED  BY <1>1, EmptyTypes DEF Typed, ActOnSession

LEMMA ActBegins ==
    ASSUME Typed, NEW a \in Actors, NEW s \in Sessions, NEW c \in ActPcs, NEW was \in Statuses,
           NEW kind \in {"restore", "resume", "restart"}, Begin(a, s, c, was, kind)
    PROVE  act' \in [Actors -> Acts] /\ ActOnSession'
  <1>. DEFINE next == [pc |-> c, s |-> s, was |-> was, kind |-> kind]
  <1>1. next \in Acts /\ next.s = s
    BY DEF Acts
  <1>2. act' = [act EXCEPT ![a] = next]
    BY DEF Begin
  <1>. HIDE DEF next
  <1>. QED  BY <1>1, <1>2 DEF Typed, ActOnSession

(* A restore moves on.                                                       *)
LEMMA RunSteps ==
    ASSUME Typed, NEW p \in Restorers, NEW c \in RunPcs, Step(p, c)
    PROVE  run' \in [Restorers -> Runs]
  <1>1. [run[p] EXCEPT !.pc = c] \in Runs
    BY RunTypes DEF Typed
  <1>. QED  BY <1>1 DEF Typed, Step
-----------------------------------------------------------------------------
(* Type correctness, one lemma per group of actions.                         *)

LEMMA PollerTyped ==
    ASSUME Typed, NEW s \in Sessions,
           CheckLiveness(s) \/ ReconcileDead(s) \/ MarkInterrupted(s) \/ PollPid(s)
    PROVE  Typed'
  <1>1. app' \in Apps
    <2>1. CASE CheckLiveness(s)
      <3>1. app' \in {[app EXCEPT !.chk = @ \ {s}],
                      [app EXCEPT !.chk = @ \ {s}, !.dead = @ \union {s}],
                      [app EXCEPT !.chk = @ \ {s}, !.deferred = @ \union {s}]}
        BY <2>1, Zenon DEF CheckLiveness
      <3>2. app \in Apps
        BY DEF Typed
      <3>. QED  BY <3>1, <3>2, AppTypes
    <2>2. CASE ReconcileDead(s)
      <3>1. app' \in {[app EXCEPT !.dead = @ \ {s}],
                      [app EXCEPT !.dead = @ \ {s}, !.unmarked = @ \union {s}]}
        BY <2>2, Zenon DEF ReconcileDead
      <3>2. app \in Apps
        BY DEF Typed
      <3>. QED  BY <3>1, <3>2, AppTypes
    <2>3. CASE MarkInterrupted(s) \/ PollPid(s)
      BY <2>3 DEF Typed, Apps, MarkInterrupted, PollPid
    <2>. QED  BY <2>1, <2>2, <2>3
  <1>2. /\ (pane \in [Sessions -> BOOLEAN])'
        /\ (status \in [Sessions -> Statuses])' /\ (cand \in [Sessions -> BOOLEAN])'
        /\ (rec \in [Sessions -> Recs])'
    <2>1. CASE CheckLiveness(s)
      BY <2>1 DEF Typed, CheckLiveness, fleet
    <2>2. CASE ReconcileDead(s)
      BY <2>2, Zenon DEF Typed, ReconcileDead, ReconciledStatus, Statuses, Terminal, fleet
    <2>3. CASE MarkInterrupted(s)
      <3>1. [rec[s] EXCEPT !.last = "interrupted"] \in Recs
        BY DEF Typed, Recs
      <3>2. rec' = [rec EXCEPT ![s] = [rec[s] EXCEPT !.last = "interrupted"]]
        BY <2>3 DEF Typed, MarkInterrupted
      <3>3. (rec \in [Sessions -> Recs])'
        BY <3>1, <3>2 DEF Typed
      <3>4. (cand \in [Sessions -> BOOLEAN])'
        BY <2>3, Zenon DEF Typed, MarkInterrupted
      <3>. QED  BY <2>3, <3>3, <3>4 DEF Typed, MarkInterrupted
    <2>4. CASE PollPid(s)
      BY <2>4 DEF Typed, PollPid, Statuses, Terminal
    <2>. QED  BY <2>1, <2>2, <2>3, <2>4
  <1>3. UNCHANGED <<lost, owed, lease, run, act, recovery, req, told, slips, reaped>>
    BY DEF CheckLiveness, ReconcileDead, MarkInterrupted, PollPid, fleet
  <1>. QED  BY <1>1, <1>2, <1>3 DEF Typed, ActOnSession

LEMMA PhaseTyped == ASSUME Typed, StartApp \/ ReconcileDone \/ RetryDeferred PROVE Typed'
  <1>1. app' \in Apps
    <2>1. CASE StartApp
      BY <2>1 DEF StartApp, Apps, AppDown
    <2>2. CASE ReconcileDone
      BY <2>2 DEF Typed, ReconcileDone, Apps
    <2>3. CASE RetryDeferred
      BY <2>3 DEF Typed, RetryDeferred, Apps
    <2>. QED  BY <2>1, <2>2, <2>3
  <1>2. UNCHANGED <<fleet, lease, run, act, recovery, req, told, slips, reaped>>
    BY DEF StartApp, ReconcileDone, RetryDeferred
  <1>. QED  BY <1>1, <1>2 DEF Typed, ActOnSession, fleet

LEMMA InsertedTyped == ASSUME Typed, NEW r \in Requests PROVE Inserted(r) \in Slips
  <1>1. slips.late \subseteq Requests
    BY DEF Typed, Slips
  <1>2. (IF ~req[r].row /\ Unlisted(r) THEN slips.late \union {r} ELSE slips.late) \subseteq Requests
    BY <1>1
  <1>3. Inserted(r) = [slips EXCEPT !.late = IF ~req[r].row /\ Unlisted(r) THEN slips.late \union {r} ELSE slips.late]
    BY DEF Inserted
  <1>. QED  BY <1>2, <1>3, SlipTypes

(* The steps that take a request on its way.                                 *)
RequestStep(r) == NudgeRequest(r) \/ MoveRequest(r) \/ RecordRequest(r) \/ FileRequest(r) \/ InsertRow(r)

LEMMA RequestsTyped ==
    ASSUME Typed, NEW r \in Requests, RequestStep(r)
    PROVE  Typed'
  <1>0. req[r] \in Reqs /\ slips.writer \subseteq Requests /\ slips.poller \subseteq Requests
    BY DEF Typed, Slips
  <1>1. \E t \in Reqs : req' = [req EXCEPT ![r] = t]
    <2>1. CASE NudgeRequest(r)
      <3>1. \E b \in BOOLEAN : req' = [req EXCEPT ![r] = [req[r] EXCEPT !.poll = "move", !.sent = b]]
        BY <2>1 DEF Typed, NudgeRequest
      <3>. QED  BY <1>0, <3>1, ReqTypes
    <2>2. CASE FileRequest(r)
      <3>1. req' = [req EXCEPT ![r] = [req[r] EXCEPT !.file = "pending", !.filing = TRUE]]
        BY <2>2 DEF Typed, FileRequest
      <3>. QED  BY <1>0, <3>1, ReqTypes
    <2>3. CASE MoveRequest(r)
      <3>1. \E f \in Files : req' = [req EXCEPT ![r] = [req[r] EXCEPT !.poll = "record", !.file = f]]
        BY <2>3 DEF Typed, MoveRequest, Files
      <3>. QED  BY <1>0, <3>1, ReqTypes
    <2>4. CASE InsertRow(r)
      <3>1. \/ req' = [req EXCEPT ![r] = [req[r] EXCEPT !.filing = FALSE, !.row = TRUE]]
            \/ req' = [req EXCEPT ![r] = [req[r] EXCEPT !.filing = FALSE]]
        BY <2>4 DEF Typed, InsertRow
      <3>. QED  BY <1>0, <3>1, ReqTypes
    <2>5. CASE RecordRequest(r)
      <3>1. PICK row, marked \in BOOLEAN :
               req' = [req EXCEPT ![r] = [req[r] EXCEPT !.poll = "rest", !.sent = FALSE, !.row = row,
                                             !.delivered = req[r].delivered \/ marked]]
        BY <2>5 DEF Typed, RecordRequest
      <3>2. (req[r].delivered \/ marked) \in BOOLEAN
        OBVIOUS
      <3>. QED  BY <1>0, <3>1, <3>2, ReqTypes
    <2>. QED  BY <2>1, <2>2, <2>3, <2>4, <2>5 DEF RequestStep
  <1>2. (req \in [Requests -> Reqs])' /\ told' \subseteq Requests
    BY <1>1 DEF Typed, RequestStep, NudgeRequest, MoveRequest, RecordRequest, FileRequest, InsertRow
  <1>3. UNCHANGED <<fleet, app, lease, run, act, recovery, reaped>>
    BY DEF RequestStep, NudgeRequest, MoveRequest, RecordRequest, FileRequest, InsertRow
  <1>4. slips' \in Slips
    <2>1. slips' \in {slips, Inserted(r), [slips EXCEPT !.writer = slips.writer \union {r}],
                      [slips EXCEPT !.poller = slips.poller \union {r}]}
      BY Zenon DEF RequestStep, NudgeRequest, MoveRequest, RecordRequest, FileRequest, InsertRow
    <2>2. slips.writer \union {r} \subseteq Requests /\ slips.poller \union {r} \subseteq Requests
      BY <1>0
    <2>3. /\ [slips EXCEPT !.writer = slips.writer \union {r}] \in Slips
          /\ [slips EXCEPT !.poller = slips.poller \union {r}] \in Slips
      BY <2>2, SlipTypes
    <2>. QED  BY <2>1, <2>3, InsertedTyped DEF Typed
  <1>. QED  BY <1>2, <1>3, <1>4 DEF Typed, ActOnSession, fleet

LEMMA RelaunchTyped ==
    ASSUME Typed, NEW a \in Actors, RelaunchNext(a)
    PROVE  Typed'
  <1>1. CASE CheckLive(a)
    <2>1. act' \in [Actors -> Acts] /\ ActOnSession'
      BY <1>1, ActMoves DEF CheckLive, ActPcs
    <2>. QED  BY <1>1, <2>1 DEF CheckLive, Typed, fleet
  <1>2. CASE KillStale(a)
    <2>1. act' \in [Actors -> Acts] /\ ActOnSession'
      BY <1>2, ActMoves DEF KillStale, ActPcs
    <2>2. (pane \in [Sessions -> BOOLEAN])'
      BY <1>2, Zenon DEF KillStale, Typed
    <2>. QED  BY <1>2, <2>1, <2>2 DEF KillStale, Typed
  <1>3. CASE CreatePane(a)
    <2>1. act' \in [Actors -> Acts] /\ ActOnSession'
      BY <1>3, ActMoves DEF CreatePane, ActPcs
    <2>2. act[a].was \in Statuses
      BY DEF Typed, Acts
    <2>3. (pane \in [Sessions -> BOOLEAN])' /\ (status \in [Sessions -> Statuses])' /\ lost' \subseteq Sessions
      BY <1>3, <2>2, Zenon DEF CreatePane, Typed
    <2>. QED  BY <1>3, <2>1, <2>3 DEF CreatePane, Typed
  <1>4. CASE WriteRow(a)
    <2>1. act' \in [Actors -> Acts] /\ ActOnSession'
      BY <1>4, ActMoves DEF WriteRow, ActPcs
    <2>2. [last |-> "restored", failed |-> FALSE] \in Recs
      BY DEF Recs
    <2>3. act[a].s \in Sessions
      BY <1>4 DEF WriteRow, Typed, ActOnSession
    <2>4. (rec \in [Sessions -> Recs])' /\ (cand \in [Sessions -> BOOLEAN])' /\ (status \in [Sessions -> Statuses])'
      BY <1>4, <2>2 DEF WriteRow, Typed, Statuses
    <2>5. slips' \in Slips
      <3>1. (slips.begin /\ act[a].s # Orch) \in BOOLEAN
        BY DEF Typed, Slips
      <3>2. slips' = [slips EXCEPT !.begin = slips.begin /\ act[a].s # Orch]
        BY <1>4 DEF WriteRow
      <3>. QED  BY <3>1, <3>2, SlipTypes
    <2>. QED  BY <1>4, <2>1, <2>3, <2>4, <2>5 DEF WriteRow, Typed
  <1>5. CASE RecordOutcome(a)
    <2>1. act' \in [Actors -> Acts] /\ ActOnSession'
      BY <1>5, ActEnds DEF RecordOutcome
    <2>2. [last |-> "restored", failed |-> act[a].pc = "failed"] \in Recs
      BY Zenon DEF Recs
    <2>3. (rec \in [Sessions -> Recs])'
      BY <1>5, <2>2 DEF RecordOutcome, Recorded, Typed
    <2>4. (run \in [Restorers -> Runs])'
      <3>1. CASE a \in Restorers
        <4>. DEFINE L == IF act[a].pc = "ok" THEN run[a].live \union {act[a].s} ELSE run[a].live
        <4>1. run' = [run EXCEPT ![a] = [run[a] EXCEPT !.live = L]]
          BY <1>5, <3>1 DEF RecordOutcome, Typed
        <4>2. L \subseteq Sessions
          BY <1>5, <3>1, RunFields DEF RecordOutcome, Typed, ActOnSession
        <4>. HIDE DEF L
        <4>3. [run[a] EXCEPT !.live = L] \in Runs
          BY <4>2, <3>1, RunTypes DEF Typed, RunPcs
        <4>. QED  BY <4>1, <4>3, <3>1 DEF Typed
      <3>. QED  BY <1>5, <3>1 DEF RecordOutcome, Typed
    <2>. QED  BY <1>5, <2>1, <2>3, <2>4 DEF RecordOutcome, Typed
  <1>. QED  BY <1>1, <1>2, <1>3, <1>4, <1>5 DEF RelaunchNext

LEMMA HandTyped ==
    ASSUME Typed, NEW s \in Sessions, ResumeByHand(s) \/ RestartOne(s) \/ Reap(s)
    PROVE  Typed'
  <1>1. CASE ResumeByHand(s)
    <2>1. act' \in [Actors -> Acts] /\ ActOnSession'
      BY <1>1, ActBegins DEF ResumeByHand, Typed, Actors, ActPcs
    <2>. QED  BY <1>1, <2>1 DEF ResumeByHand, Typed, fleet
  <1>2. CASE RestartOne(s)
    <2>1. act' \in [Actors -> Acts] /\ ActOnSession'
      BY <1>2, ActBegins DEF RestartOne, Actors, ActPcs, Statuses, Terminal
    <2>. QED  BY <1>2, <2>1 DEF RestartOne, Typed, fleet
  <1>3. CASE Reap(s)
    <2>1. [last |-> "none", failed |-> FALSE] \in Recs
      BY DEF Recs
    <2>2. (rec \in [Sessions -> Recs])' /\ (status \in [Sessions -> Statuses])'
      BY <1>3, <2>1 DEF Reap, Typed, Statuses, Terminal
    <2>3. (pane \in [Sessions -> BOOLEAN])' /\ (cand \in [Sessions -> BOOLEAN])'
      BY <1>3, Zenon DEF Reap, Typed
    <2>. QED  BY <1>3, <2>2, <2>3 DEF Reap, Typed, ActOnSession
  <1>. QED  BY <1>1, <1>2, <1>3

LEMMA AckTyped == ASSUME Typed, Ack PROVE Typed'
  <1>1. PICK upTo : req' = [r \in Requests |-> [req[r] EXCEPT
                               !.resolved = @ \/ (r \in upTo /\ req[r].row /\ req[r].delivered)]]
    BY DEF Ack
  <1>2. \A t \in Reqs : \A b \in BOOLEAN : [t EXCEPT !.resolved = b] \in Reqs
    BY ReqTypes
  <1>3. \A r \in Requests : [req[r] EXCEPT !.resolved = @ \/ (r \in upTo /\ req[r].row /\ req[r].delivered)] \in Reqs
    <2>. TAKE r \in Requests
    <2>1. (req[r].resolved \/ (r \in upTo /\ req[r].row /\ req[r].delivered)) \in BOOLEAN
      OBVIOUS
    <2>. QED  BY <1>2, <2>1 DEF Typed
  <1>4. (req \in [Requests -> Reqs])'
    BY <1>1, <1>3
  <1>. QED  BY <1>4 DEF Ack, Typed, ActOnSession, fleet

LEMMA LeaseAgesTyped == ASSUME Typed, LeaseAges PROVE Typed'
  BY DEF LeaseAges, Typed, ActOnSession, fleet

LEMMA CrashTyped == ASSUME Typed, NEW p \in Restorers, Crash(p) PROVE Typed'
  <1>1. act' \in [Actors -> Acts] /\ ActOnSession'
    BY ActEnds DEF Crash, Actors
  <1>. QED  BY <1>1, EmptyTypes DEF Crash, Typed, fleet

LEMMA RebootTyped == ASSUME Typed, Reboot PROVE Typed'
  <1>1. (req \in [Requests -> Reqs])'
    <2>1. \A r \in Requests : [req[r] EXCEPT !.filing = FALSE, !.poll = "rest", !.sent = FALSE] \in Reqs
      BY ReqTypes DEF Typed
    <2>. QED  BY <2>1 DEF Reboot
  <1>2. (pane \in [Sessions -> BOOLEAN])' /\ (act \in [Actors -> Acts])' /\ (run \in [Restorers -> Runs])'
        /\ app' \in Apps
    BY EmptyTypes, Zenon DEF Reboot
  <1>3. ActOnSession'
    BY DEF Reboot, ActOnSession, Idle
  <1>4. lost' \subseteq Sessions /\ owed' \subseteq Sessions
    BY DEF Reboot, Typed
  <1>5. slips' \in Slips
    <2>. DEFINE W == slips.writer \union {r \in Requests : req[r].filing}
                P == slips.poller \union {r \in Requests : req[r].poll = "record"}
    <2>1. W \subseteq Requests /\ P \subseteq Requests
      BY DEF Typed, Slips
    <2>2. slips' = [slips EXCEPT !.writer = W, !.poller = P, !.begin = FALSE]
      BY DEF Reboot
    <2>. HIDE DEF W, P
    <2>. QED  BY <2>1, <2>2, SlipTypes
  <1>. QED  BY <1>1, <1>2, <1>3, <1>4, <1>5 DEF Reboot, Typed

LEMMA RestoreTyped == ASSUME Typed, NEW p \in Restorers, RestoreNext(p) PROVE Typed'
  <1>0. run[p] \in Runs /\ p \in Actors
    BY DEF Typed, Actors
  <1>1. CASE Acquire(p)
    BY <1>1, RunSteps DEF Acquire, RunPcs, Typed, ActOnSession, fleet
  <1>2. CASE Plan(p)
    <2>. DEFINE chosen == {s \in Sessions : Restorable(s)}
                b == recovery.exists /\ ~recovery.sent /\ status[Orch] \notin Terminal
                next == [run[p] EXCEPT !.pc = "workers", !.plan = chosen, !.snap = status,
                                       !.todo = chosen \ {Orch}, !.pending = b]
    <2>1. b \in BOOLEAN /\ chosen \in SUBSET Sessions
      OBVIOUS
    <2>2. run' = [run EXCEPT ![p] = next]
      BY <1>2 DEF Plan, Typed
    <2>. HIDE DEF b, chosen
    <2>3. next \in Runs
      <3>1. "workers" \in RunPcs /\ status \in [Sessions -> Statuses] /\ chosen \ {Orch} \in SUBSET Sessions
        BY <2>1 DEF RunPcs, Typed
      <3>. QED  BY <1>0, <2>1, <3>1, RunTypes, ZenonT(30)
    <2>. HIDE DEF next
    <2>4. UNCHANGED <<fleet, app, lease, act, recovery, req, told, slips, reaped>>
      BY <1>2 DEF Plan
    <2>. QED  BY <2>2, <2>3, <2>4 DEF Typed, ActOnSession, fleet
  <1>3. ASSUME NEW s \in Sessions, Relaunch(p, s) PROVE Typed'
    <2>1. run[p].snap[s] \in Statuses /\ run[p].todo \ {s} \subseteq Sessions
      BY <1>0, RunFields
    <2>2. act' \in [Actors -> Acts] /\ ActOnSession'
      BY <1>0, <1>3, <2>1, ActBegins DEF Relaunch, ActPcs
    <2>3. [run[p] EXCEPT !.todo = run[p].todo \ {s}] \in Runs
      BY <1>0, <2>1, RunTypes DEF RunPcs
    <2>4. run' = [run EXCEPT ![p] = [run[p] EXCEPT !.todo = run[p].todo \ {s}]]
      BY <1>3 DEF Relaunch, Typed
    <2>. QED  BY <1>3, <2>2, <2>3, <2>4 DEF Relaunch, Typed, fleet
  <1>4. CASE NoteWorkers(p)
    <2>1. run' = [run EXCEPT ![p] = [run[p] EXCEPT !.pc = "orch", !.todo = run[p].plan \intersect {Orch}]]
      BY <1>4 DEF NoteWorkers, Typed
    <2>2. [run[p] EXCEPT !.pc = "orch", !.todo = run[p].plan \intersect {Orch}] \in Runs
      BY <1>0, RunFields, RunTypes DEF RunPcs
    <2>. QED  BY <1>4, <2>1, <2>2 DEF NoteWorkers, Typed, ActOnSession
  <1>5. CASE BeginRecovery(p)
    <2>1. (run \in [Restorers -> Runs])'
      <3>1. CASE Step(p, "finish")
        BY <3>1, RunSteps DEF RunPcs
      <3>2. CASE ~Step(p, "finish")
        <4>1. run' = [run EXCEPT ![p] = [run[p] EXCEPT !.pc = "deliver", !.listed = OpenRows, !.upto = Created]]
          BY <1>5, <3>2 DEF BeginRecovery, Typed
        <4>2. OpenRows \subseteq Requests /\ Created \subseteq Requests
          BY DEF OpenRows, Created
        <4>3. [run[p] EXCEPT !.pc = "deliver", !.listed = OpenRows, !.upto = Created] \in Runs
          BY <1>0, <4>2, RunTypes DEF RunPcs
        <4>. QED  BY <4>1, <4>3 DEF Typed
      <3>. QED  BY <3>1, <3>2
    <2>2. (recovery \in [exists : BOOLEAN, sent : BOOLEAN, before : SUBSET Requests])'
      <3>1. recovery' \in {recovery, [exists |-> TRUE, sent |-> FALSE, before |-> {}]}
        BY <1>5, Zenon DEF BeginRecovery
      <3>2. [exists |-> TRUE, sent |-> FALSE, before |-> {}] \in
               [exists : BOOLEAN, sent : BOOLEAN, before : SUBSET Requests]
        OBVIOUS
      <3>. QED  BY <3>1, <3>2 DEF Typed
    <2>3. slips' \in Slips
      <3>1. slips' \in {slips, [slips EXCEPT !.begin = FALSE]}
        BY <1>5, Zenon DEF BeginRecovery
      <3>. QED  BY <3>1, SlipTypes DEF Typed
    <2>. QED  BY <1>5, <2>1, <2>2, <2>3 DEF BeginRecovery, Typed, ActOnSession, fleet
  <1>6. CASE DeliverBriefing(p)
    <2>1. (run \in [Restorers -> Runs])'
      BY <1>6, RunSteps DEF DeliverBriefing, RunPcs
    <2>2. told' \subseteq Requests /\ owed' \subseteq Sessions
      BY <1>0, <1>6, RunFields DEF DeliverBriefing, Typed
    <2>. QED  BY <1>6, <2>1, <2>2 DEF DeliverBriefing, Typed, ActOnSession
  <1>7. CASE MarkSent(p)
    <2>1. (run \in [Restorers -> Runs])'
      BY <1>7, RunSteps DEF MarkSent, RunPcs
    <2>2. (recovery \in [exists : BOOLEAN, sent : BOOLEAN, before : SUBSET Requests])'
      BY <1>7, Zenon DEF MarkSent, Typed, Created
    <2>3. \A r \in Requests : [req[r] EXCEPT !.delivered = @ \/ (r \in run[p].upto /\ r \in OpenRows)] \in Reqs
      <3>. TAKE r \in Requests
      <3>1. (req[r].delivered \/ (r \in run[p].upto /\ r \in OpenRows)) \in BOOLEAN
        OBVIOUS
      <3>2. \A t \in Reqs : \A b \in BOOLEAN : [t EXCEPT !.delivered = b] \in Reqs
        BY ReqTypes
      <3>. QED  BY <3>1, <3>2 DEF Typed
    <2>4. (req \in [Requests -> Reqs])'
      BY <1>7, <2>3 DEF MarkSent
    <2>. QED  BY <1>7, <2>1, <2>2, <2>4 DEF MarkSent, Typed, ActOnSession, fleet
  <1>8. CASE Finish(p)
    <2>1. (lease \in [holder : Restorers \union {None}, stale : BOOLEAN])'
      BY <1>8, Zenon DEF Finish, Typed
    <2>. QED  BY <1>8, <2>1, EmptyTypes DEF Finish, Typed, ActOnSession, fleet
  <1>9. CASE RestoreFails(p)
    <2>1. (run \in [Restorers -> Runs])'
      BY <1>9, RunSteps DEF RestoreFails, RunPcs
    <2>2. (recovery \in [exists : BOOLEAN, sent : BOOLEAN, before : SUBSET Requests])'
      <3>1. recovery' \in {recovery, [recovery EXCEPT !.sent = TRUE, !.before = Created]}
        BY <1>9, Zenon DEF RestoreFails
      <3>2. [recovery EXCEPT !.sent = TRUE, !.before = Created] \in
               [exists : BOOLEAN, sent : BOOLEAN, before : SUBSET Requests]
        BY Zenon DEF Typed, Created
      <3>. QED  BY <3>1, <3>2 DEF Typed
    <2>3. slips' \in Slips
      <3>. DEFINE b == slips.begin \/ (run[p].pc = "orch" /\ ~run[p].pending /\ Orch \in owed)
      <3>1. b \in BOOLEAN
        BY DEF Typed, Slips
      <3>2. slips' = [slips EXCEPT !.begin = b]
        BY <1>9 DEF RestoreFails
      <3>. HIDE DEF b
      <3>. QED  BY <3>1, <3>2, SlipTypes
    <2>. QED  BY <1>9, <2>1, <2>2, <2>3 DEF RestoreFails, Typed, ActOnSession, fleet
  <1>. QED  BY <1>1, <1>2, <1>3, <1>4, <1>5, <1>6, <1>7, <1>8, <1>9 DEF RestoreNext

LEMMA TypedHolds == Spec => []Typed
  <1>1. ASSUME Init PROVE Typed
    <2>1. /\ [last |-> "none", failed |-> FALSE] \in Recs
          /\ NoRequest \in Reqs /\ [writer |-> {}, poller |-> {}, late |-> {}, begin |-> FALSE] \in Slips
          /\ [AppDown EXCEPT !.phase = "up"] \in Apps
      BY DEF Recs, Reqs, Files, Polls, NoRequest, Slips, Apps, AppDown
    <2>2. (lease \in [holder : Restorers \union {None}, stale : BOOLEAN])
          /\ recovery \in [exists : BOOLEAN, sent : BOOLEAN, before : SUBSET Requests]
      BY <1>1, Zenon DEF Init
    <2>3. pane \in [Sessions -> BOOLEAN] /\ cand \in [Sessions -> BOOLEAN] /\ status \in [Sessions -> Statuses]
      BY <1>1, Zenon DEF Init, Statuses
    <2>4. ActOnSession
      BY <1>1 DEF Init, ActOnSession, Idle
    <2>. QED  BY <1>1, <2>1, <2>2, <2>3, <2>4, EmptyTypes DEF Init, Typed
  <1>2. Typed /\ [Next]_vars => Typed'
    <2>. SUFFICES ASSUME Typed, [Next]_vars PROVE Typed'
      OBVIOUS
    <2>1. CASE PollerNext
      BY <2>1, PollerTyped, PhaseTyped, RequestsTyped DEF PollerNext, RequestStep
    <2>2. CASE HandNext
      BY <2>2, AckTyped, HandTyped, RequestsTyped DEF HandNext, RequestStep
    <2>3. CASE UNCHANGED vars
      BY <2>3 DEF vars, fleet, Typed, ActOnSession
    <2>. QED
      BY <2>1, <2>2, <2>3, RebootTyped, LeaseAgesTyped, RelaunchTyped, RestoreTyped, CrashTyped DEF Next
  <1>. QED  BY <1>1, <1>2, PTL DEF Spec

(* The rows, the poller's lists, the restores and the relaunches have their  *)
(* types, across reboots and crashes at any step of any of them.             *)
THEOREM TypeCorrect == Spec => []TypeOK
  <1>1. Typed => TypeOK
    BY TypedIsTypeOK
  <1>. QED  BY <1>1, TypedHolds, PTL

-----------------------------------------------------------------------------
(* Requests: whoever should have inserted a row and no longer will has       *)
(* failed to; what was nudged was told; and the briefing's list has what is  *)
(* open of the requests it will tick off, but for a row that came too late.  *)
RequestsInv ==
    /\ \A r \in Requests :
          /\ req[r].file # "none" /\ ~req[r].filing /\ ~req[r].row => r \in slips.writer
          /\ req[r].file = "moved" /\ req[r].poll # "record" /\ ~req[r].row => r \in slips.poller
          /\ req[r].poll # "rest" => req[r].file # "none"
          /\ req[r].sent => r \in told
          /\ req[r].delivered \/ req[r].resolved => r \in told \union slips.late
    /\ \A p \in Restorers :
          /\ run[p].pc \in {"deliver", "mark"} =>
                \A r \in run[p].upto \ run[p].listed : req[r].row => req[r].resolved \/ r \in slips.late
          /\ run[p].pc = "mark" => run[p].listed \subseteq told

(* A relaunch adds to its restore's list of live sessions, nothing else.     *)
LEMMA RelaunchKeepsRun ==
    ASSUME Typed, NEW a \in Actors, RelaunchNext(a)
    PROVE  \A q \in Restorers :
              /\ run'[q].pc = run[q].pc /\ run'[q].todo = run[q].todo /\ run'[q].plan = run[q].plan
              /\ run'[q].snap = run[q].snap /\ run'[q].pending = run[q].pending
              /\ run'[q].listed = run[q].listed /\ run'[q].upto = run[q].upto
  <1>1. CASE RecordOutcome(a) /\ a \in Restorers
    <2>. DEFINE L == IF act[a].pc = "ok" THEN run[a].live \union {act[a].s} ELSE run[a].live
    <2>1. run' = [run EXCEPT ![a] = [run[a] EXCEPT !.live = L]]
      BY <1>1 DEF RecordOutcome, Typed
    <2>2. run[a] \in Runs
      BY <1>1 DEF Typed
    <2>. HIDE DEF L
    <2>. QED  BY <2>1, <2>2 DEF Typed, Runs
  <1>2. CASE ~(RecordOutcome(a) /\ a \in Restorers)
    BY <1>2 DEF RelaunchNext, CheckLive, KillStale, CreatePane, WriteRow, RecordOutcome
  <1>. QED  BY <1>1, <1>2

(* What each step of a restore does to its own progress.                     *)
LEMMA OthersRun ==
    ASSUME Typed, NEW p \in Restorers, RestoreNext(p) \/ Crash(p)
    PROVE  \A q \in Restorers \ {p} : run'[q] = run[q]
  BY DEF RestoreNext, Acquire, Plan, Relaunch, NoteWorkers, BeginRecovery, DeliverBriefing, MarkSent,
         RestoreFails, Finish, Crash, Step, Typed

LEMMA StepEffect ==
    ASSUME Typed, NEW p \in Restorers, NEW c \in RunPcs, Step(p, c)
    PROVE  /\ run'[p].pc = c /\ run'[p].todo = run[p].todo /\ run'[p].plan = run[p].plan
           /\ run'[p].snap = run[p].snap /\ run'[p].pending = run[p].pending
           /\ run'[p].listed = run[p].listed /\ run'[p].upto = run[p].upto
  <1>1. run[p] \in Runs /\ run'[p] = [run[p] EXCEPT !.pc = c]
    BY DEF Step, Typed
  <1>. QED  BY <1>1 DEF Runs

LEMMA PlanEffect ==
    ASSUME Typed, NEW p \in Restorers, Plan(p)
    PROVE  /\ run'[p].pc = "workers" /\ run'[p].plan = {s \in Sessions : Restorable(s)}
           /\ run'[p].todo = run'[p].plan \ {Orch} /\ run'[p].snap = status
           /\ run'[p].pending = (recovery.exists /\ ~recovery.sent /\ status[Orch] \notin Terminal)
  <1>. DEFINE chosen == {s \in Sessions : Restorable(s)}
              b == recovery.exists /\ ~recovery.sent /\ status[Orch] \notin Terminal
              next == [run[p] EXCEPT !.pc = "workers", !.plan = chosen, !.snap = status,
                                     !.todo = chosen \ {Orch}, !.pending = b]
  <1>1. run' = [run EXCEPT ![p] = next] /\ run[p] \in Runs
    BY DEF Plan, Typed
  <1>. HIDE DEF b, chosen
  <1>2. next.pc = "workers" /\ next.plan = chosen /\ next.todo = chosen \ {Orch} /\ next.snap = status
        /\ next.pending = b
    BY <1>1 DEF Runs
  <1>. HIDE DEF next
  <1>3. run'[p] = next
    BY <1>1 DEF Typed
  <1>. QED  BY <1>2, <1>3 DEF b, chosen

LEMMA RelaunchEffect ==
    ASSUME Typed, NEW p \in Restorers, NEW s \in Sessions, Relaunch(p, s)
    PROVE  /\ run'[p].pc = run[p].pc /\ run'[p].todo = run[p].todo \ {s} /\ run'[p].plan = run[p].plan
           /\ run'[p].snap = run[p].snap /\ run'[p].pending = run[p].pending
           /\ act'[p].pc = "check" /\ act'[p].s = s /\ act'[p].was = run[p].snap[s]
           /\ act'[p].kind = "restore"
           /\ \A a \in Actors \ {p} : act'[a] = act[a]
  <1>1. run[p] \in Runs /\ run'[p] = [run[p] EXCEPT !.todo = @ \ {s}]
    BY DEF Relaunch, Typed
  <1>. QED  BY <1>1 DEF Runs, Relaunch, Begin, Typed, Actors

LEMMA NoteEffect ==
    ASSUME Typed, NEW p \in Restorers, NoteWorkers(p)
    PROVE  /\ run'[p].pc = "orch" /\ run'[p].todo = run[p].plan \intersect {Orch}
           /\ run'[p].plan = run[p].plan /\ run'[p].snap = run[p].snap /\ run'[p].pending = run[p].pending
  <1>1. run[p] \in Runs /\ run'[p] = [run[p] EXCEPT !.pc = "orch", !.todo = run[p].plan \intersect {Orch}]
    BY DEF NoteWorkers, Typed
  <1>. QED  BY <1>1 DEF Runs

LEMMA BeginEffect ==
    ASSUME Typed, NEW p \in Restorers, BeginRecovery(p)
    PROVE  /\ run'[p].todo = {} /\ run'[p].plan = run[p].plan
           /\ run'[p].snap = run[p].snap /\ run'[p].pending = run[p].pending
           /\ \/ /\ run'[p].pc = "deliver" /\ run'[p].listed = OpenRows /\ run'[p].upto = Created
                 /\ recovery' = IF run[p].pending THEN recovery
                                ELSE [exists |-> TRUE, sent |-> FALSE, before |-> {}]
              \/ /\ run'[p].pc = "finish" /\ UNCHANGED recovery
                 /\ ~(run[p].pending \/ run[p].plan # {}) \/ status[Orch] \in Terminal
  <1>1. run[p] \in Runs
    BY DEF Typed
  <1>2. CASE Step(p, "finish") /\ UNCHANGED recovery
             /\ ~((run[p].pending \/ run[p].plan # {}) /\ status[Orch] \notin Terminal)
    BY <1>2, StepEffect DEF BeginRecovery, RunPcs
  <1>3. CASE /\ run' = [run EXCEPT ![p].pc = "deliver", ![p].listed = OpenRows, ![p].upto = Created]
             /\ recovery' = IF run[p].pending THEN recovery
                            ELSE [exists |-> TRUE, sent |-> FALSE, before |-> {}]
    <2>1. run'[p] = [run[p] EXCEPT !.pc = "deliver", !.listed = OpenRows, !.upto = Created]
      BY <1>3 DEF Typed
    <2>2. run'[p].pc = "deliver" /\ run'[p].listed = OpenRows /\ run'[p].upto = Created
          /\ run'[p].todo = run[p].todo /\ run'[p].plan = run[p].plan
          /\ run'[p].snap = run[p].snap /\ run'[p].pending = run[p].pending
      BY <1>1, <2>1, Zenon DEF Runs
    <2>. QED  BY <1>3, <2>2 DEF BeginRecovery
  <1>. QED  BY <1>2, <1>3 DEF BeginRecovery

LEMMA EndEffect ==
    ASSUME Typed, NEW p \in Restorers, Finish(p) \/ Crash(p) PROVE run'[p] = NoRun
  BY DEF Finish, Crash, Typed

LEMMA FailsEffect ==
    ASSUME Typed, NEW p \in Restorers, RestoreFails(p)
    PROVE  /\ run'[p].pc = "finish" /\ run'[p].todo = {} /\ run[p].todo = {} /\ run'[p].plan = run[p].plan
           /\ run'[p].snap = run[p].snap /\ run'[p].pending = run[p].pending
  BY StepEffect DEF RestoreFails, RunPcs

(* What failed with a request stays on record.                               *)
SlipsGrow == /\ slips.writer \subseteq slips'.writer /\ slips.poller \subseteq slips'.poller
             /\ slips.late \subseteq slips'.late

LEMMA InsertedEffect ==
    ASSUME Typed, NEW r \in Requests, slips' = Inserted(r)
    PROVE  SlipsGrow /\ (~req[r].row /\ Unlisted(r) => r \in slips'.late)
  BY DEF Typed, Slips, Inserted, SlipsGrow

LEMMA RequestsKeptByRelaunch ==
    ASSUME Typed, RequestsInv, NEW a \in Actors, RelaunchNext(a) PROVE RequestsInv'
  <1>1. UNCHANGED <<req, told>>
    BY DEF RelaunchNext, CheckLive, KillStale, CreatePane, WriteRow, RecordOutcome
  <1>2. slips' = slips \/ slips' = [slips EXCEPT !.begin = slips.begin /\ act[a].s # Orch]
    BY DEF RelaunchNext, CheckLive, KillStale, CreatePane, WriteRow, RecordOutcome
  <1>3. slips'.writer = slips.writer /\ slips'.poller = slips.poller /\ slips'.late = slips.late
    BY <1>2 DEF Typed, Slips
  <1>. QED  BY <1>1, <1>3, RelaunchKeepsRun DEF RequestsInv

LEMMA RequestsKeptByRequest ==
    ASSUME Typed, RequestsInv, NEW r \in Requests, RequestStep(r)
    PROVE  RequestsInv'
  <1>0. req[r] \in Reqs /\ \A p \in Restorers : run[p].upto \subseteq Requests
    BY RunFields DEF Typed
  <1>1. UNCHANGED run /\ \A t \in Requests \ {r} : req'[t] = req[t]
    BY DEF RequestStep, NudgeRequest, MoveRequest, RecordRequest, FileRequest, InsertRow, Typed
  <1>2. SlipsGrow /\ told \subseteq told'
    <2>1. \/ slips' = slips \/ slips' = Inserted(r)
          \/ slips' = [slips EXCEPT !.writer = slips.writer \union {r}]
          \/ slips' = [slips EXCEPT !.poller = slips.poller \union {r}]
      BY Zenon DEF RequestStep, NudgeRequest, MoveRequest, RecordRequest, FileRequest, InsertRow
    <2>2. SlipsGrow
      BY <2>1, InsertedEffect DEF SlipsGrow, Typed, Slips
    <2>. QED  BY <2>2 DEF RequestStep, NudgeRequest, MoveRequest, RecordRequest, FileRequest, InsertRow
  (* It is enough to look at r itself, and at a row that is new.             *)
  <1>3. SUFFICES
          /\ req'[r].file # "none" /\ ~req'[r].filing /\ ~req'[r].row => r \in slips'.writer
          /\ req'[r].file = "moved" /\ req'[r].poll # "record" /\ ~req'[r].row => r \in slips'.poller
          /\ req'[r].poll # "rest" => req'[r].file # "none"
          /\ req'[r].sent => r \in told'
          /\ req'[r].delivered \/ req'[r].resolved => r \in told' \union slips'.late
          /\ req[r].resolved => req'[r].resolved
          /\ req'[r].row /\ ~req[r].row /\ Unlisted(r) => r \in slips'.late
    BY <1>0, <1>1, <1>2, Zenon DEF RequestsInv, SlipsGrow, Unlisted
  <1>4. CASE NudgeRequest(r)
    <2>1. /\ req'[r].row = req[r].row /\ req'[r].delivered = req[r].delivered /\ req'[r].filing = req[r].filing
          /\ req'[r].resolved = req[r].resolved /\ req'[r].file = req[r].file /\ req[r].file = "pending"
          /\ req'[r].sent => r \in told'
      BY <1>0, <1>4 DEF NudgeRequest, Typed, Reqs
    <2>. QED  BY <1>2, <2>1 DEF RequestsInv, SlipsGrow
  <1>5. CASE MoveRequest(r)
    <2>1. /\ req'[r].row = req[r].row /\ req'[r].delivered = req[r].delivered /\ req'[r].filing = req[r].filing
          /\ req'[r].resolved = req[r].resolved /\ req'[r].poll = "record" /\ req'[r].sent = req[r].sent
          /\ req'[r].file \in {"moved", "pending"}
      BY <1>0, <1>5 DEF MoveRequest, Typed, Reqs
    <2>2. req'[r].file # "none" => req[r].file # "none"
      <3>1. req[r].poll = "move"
        BY <1>5 DEF MoveRequest
      <3>. QED  BY <3>1, <2>1 DEF RequestsInv
    <2>. QED  BY <1>2, <2>1, <2>2 DEF RequestsInv, SlipsGrow
  <1>6. CASE FileRequest(r)
    <2>1. /\ req'[r].file = "pending" /\ req'[r].filing /\ req'[r].row = req[r].row /\ req'[r].sent = req[r].sent
          /\ req'[r].resolved = req[r].resolved /\ req'[r].delivered = req[r].delivered
      BY <1>0, <1>6 DEF FileRequest, Typed, Reqs
    <2>. QED  BY <1>2, <2>1 DEF RequestsInv, SlipsGrow
  <1>7. CASE InsertRow(r)
    <2>1. /\ req'[r].file = req[r].file /\ req'[r].sent = req[r].sent /\ req'[r].poll = req[r].poll
          /\ req'[r].resolved = req[r].resolved /\ req'[r].delivered = req[r].delivered
          /\ \/ req'[r].row /\ slips' = Inserted(r)
             \/ req'[r].row = req[r].row /\ slips' = [slips EXCEPT !.writer = slips.writer \union {r}]
      BY <1>0, <1>7 DEF InsertRow, Typed, Reqs
    <2>2. req'[r].row \/ r \in slips'.writer
      BY <2>1 DEF Typed, Slips
    <2>. QED  BY <1>2, <2>1, <2>2, InsertedEffect DEF RequestsInv, SlipsGrow
  <1>8. CASE RecordRequest(r)
    <2>1. PICK row, marked \in BOOLEAN :
             /\ req[r].row => row
             /\ marked => row /\ req[r].sent
             /\ req' = [req EXCEPT ![r].poll = "rest", ![r].sent = FALSE, ![r].row = row, ![r].delivered = @ \/ marked]
             /\ slips' = IF row THEN Inserted(r) ELSE [slips EXCEPT !.poller = @ \union {r}]
      BY <1>8 DEF RecordRequest
    <2>2. /\ req'[r].file = req[r].file /\ req'[r].filing = req[r].filing /\ ~req'[r].sent
          /\ req'[r].poll = "rest" /\ req'[r].row = row /\ req'[r].resolved = req[r].resolved
          /\ req'[r].delivered = (req[r].delivered \/ marked)
      BY <1>0, <2>1 DEF Typed, Reqs
    <2>3. row \/ r \in slips'.poller
      BY <2>1 DEF Typed, Slips
    <2>4. row => slips' = Inserted(r)
      BY <2>1
    <2>. QED  BY <1>2, <2>1, <2>2, <2>3, <2>4, InsertedEffect DEF RequestsInv, SlipsGrow
  <1>. QED  BY <1>4, <1>5, <1>6, <1>7, <1>8 DEF RequestStep

LEMMA RequestsKeptByAck == ASSUME Typed, RequestsInv, Ack PROVE RequestsInv'
  <1>1. PICK upTo : req' = [r \in Requests |-> [req[r] EXCEPT
                               !.resolved = @ \/ (r \in upTo /\ req[r].row /\ req[r].delivered)]]
    BY DEF Ack
  <1>2. UNCHANGED <<run, told, slips>>
    BY DEF Ack
  <1>3. \A p \in Restorers : run[p].upto \subseteq Requests
    BY RunFields DEF Typed
  <1>. QED  BY <1>1, <1>2, <1>3 DEF RequestsInv, Typed, Reqs

LEMMA RequestsKeptByReboot == ASSUME Typed, RequestsInv, Reboot PROVE RequestsInv'
  <1>1. \A p \in Restorers : run'[p].pc = "idle"
    BY DEF Reboot, NoRun
  <1>2. \A r \in Requests : /\ req'[r].file = req[r].file /\ req'[r].row = req[r].row
                            /\ req'[r].delivered = req[r].delivered /\ req'[r].resolved = req[r].resolved
                            /\ ~req'[r].sent /\ req'[r].poll = "rest"
    BY DEF Reboot, Typed, Reqs
  <1>3. /\ SlipsGrow /\ UNCHANGED told
        /\ \A r \in Requests : /\ req[r].filing => r \in slips'.writer
                               /\ req[r].poll = "record" => r \in slips'.poller
    BY DEF Reboot, Typed, Slips, SlipsGrow
  <1>. QED  BY <1>1, <1>2, <1>3 DEF RequestsInv, SlipsGrow

LEMMA RequestsKeptByRestore ==
    ASSUME Typed, RequestsInv, NEW p \in Restorers, RestoreNext(p) \/ Crash(p) PROVE RequestsInv'
  <1>1. \A q \in Restorers \ {p} : run'[q] = run[q]
    BY OthersRun
  <1>2. CASE BeginRecovery(p)
    <2>1. \A r \in Created \ OpenRows : req[r].row => req[r].resolved
      BY DEF Created, OpenRows
    <2>2. UNCHANGED <<req, told>>
      BY <1>2 DEF BeginRecovery
    <2>3. slips'.writer = slips.writer /\ slips'.poller = slips.poller /\ slips'.late = slips.late
      <3>1. slips' = slips \/ slips' = [slips EXCEPT !.begin = FALSE]
        BY <1>2 DEF BeginRecovery
      <3>. QED  BY <3>1 DEF Typed, Slips
    <2>. QED  BY <1>1, <1>2, <2>1, <2>2, <2>3, BeginEffect DEF RequestsInv
  <1>3. CASE DeliverBriefing(p)
    <2>1. UNCHANGED <<req, slips>> /\ told \subseteq told' /\ run[p].pc = "deliver"
      BY <1>3 DEF DeliverBriefing
    <2>2. \/ Step(p, "mark") /\ run[p].listed \subseteq told'
          \/ Step(p, "finish")
      BY <1>3 DEF DeliverBriefing
    <2>. QED  BY <1>1, <2>1, <2>2, StepEffect DEF RequestsInv, RunPcs
  <1>4. CASE MarkSent(p)
    <2>1. UNCHANGED <<told, slips>> /\ run'[p].pc = "finish"
      BY <1>4, StepEffect DEF MarkSent, RunPcs
    <2>2. \A r \in Requests : /\ req'[r].file = req[r].file /\ req'[r].row = req[r].row
                              /\ req'[r].filing = req[r].filing /\ req'[r].poll = req[r].poll
                              /\ req'[r].sent = req[r].sent /\ req'[r].resolved = req[r].resolved
                              /\ req'[r].delivered => req[r].delivered \/ (r \in run[p].upto /\ r \in OpenRows)
      BY <1>4 DEF MarkSent, Typed, Reqs
    <2>3. \A r \in run[p].upto \intersect OpenRows : r \in told \union slips.late
      BY <1>4 DEF MarkSent, OpenRows, RequestsInv
    <2>4. \A q \in Restorers : run[q].upto \subseteq Requests
      BY RunFields DEF Typed
    <2>. QED  BY <1>1, <2>1, <2>2, <2>3, <2>4 DEF RequestsInv
  <1>5. CASE RestoreFails(p)
    <2>1. UNCHANGED <<req, told>> /\ run'[p].pc = "finish"
      BY <1>5, FailsEffect DEF RestoreFails
    <2>2. slips'.writer = slips.writer /\ slips'.poller = slips.poller /\ slips'.late = slips.late
      BY <1>5 DEF RestoreFails, Typed, Slips
    <2>. QED  BY <1>1, <2>1, <2>2 DEF RequestsInv
  <1>6. CASE Acquire(p) \/ Plan(p) \/ NoteWorkers(p) \/ Finish(p) \/ Crash(p) \/ \E s \in Sessions : Relaunch(p, s)
    <2>1. UNCHANGED <<req, told, slips>>
      BY <1>6 DEF Acquire, Plan, NoteWorkers, Finish, Crash, Relaunch
    <2>2. run'[p].pc \notin {"deliver", "mark"}
      <3>1. CASE Acquire(p)
        BY <3>1, StepEffect DEF Acquire, RunPcs
      <3>2. CASE Finish(p) \/ Crash(p)
        BY <3>2, EndEffect DEF NoRun
      <3>3. ASSUME NEW s \in Sessions, Relaunch(p, s) PROVE run'[p].pc \notin {"deliver", "mark"}
        BY <3>3, RelaunchEffect DEF Relaunch
      <3>. QED  BY <1>6, <3>1, <3>2, <3>3, PlanEffect, NoteEffect
    <2>. QED  BY <1>1, <2>1, <2>2 DEF RequestsInv
  <1>. QED  BY <1>2, <1>3, <1>4, <1>5, <1>6 DEF RestoreNext

LEMMA RequestsHold == Spec => []RequestsInv
  <1>1. Init => RequestsInv
    BY DEF Init, RequestsInv, NoRun, NoRequest
  <1>2. Typed /\ RequestsInv /\ [Next]_vars => RequestsInv'
    <2>. SUFFICES ASSUME Typed, RequestsInv, [Next]_vars PROVE RequestsInv'
      OBVIOUS
    <2>1. ASSUME UNCHANGED <<req, told, slips, run>> PROVE RequestsInv'
      BY <2>1 DEF RequestsInv
    <2>2. CASE PollerNext
      BY <2>1, <2>2, RequestsKeptByRequest DEF PollerNext, RequestStep, StartApp, ReconcileDone, RetryDeferred,
         CheckLiveness, ReconcileDead, MarkInterrupted, PollPid
    <2>3. CASE HandNext
      BY <2>1, <2>3, RequestsKeptByRequest, RequestsKeptByAck DEF HandNext, RequestStep, ResumeByHand, RestartOne, Reap
    <2>4. CASE LeaseAges \/ UNCHANGED vars
      BY <2>1, <2>4 DEF LeaseAges, vars
    <2>. QED
      BY <2>2, <2>3, <2>4, RequestsKeptByReboot, RequestsKeptByRelaunch, RequestsKeptByRestore DEF Next
  <1>. QED  BY <1>1, <1>2, TypedHolds, PTL DEF Spec

(* A filed work request is on the way until the orchestrator was told of it,  *)
(* unless neither its writer nor the poller got its row into the store; and   *)
(* none is marked delivered, or resolved by an ack, that it was not told of,  *)
(* unless its row came between a briefing's snapshot and its mark: whichever  *)
(* of nudge, rename, insert, briefing and machine fails, and when.            *)
THEOREM RequestsReachOrchestrator == Spec => []RequestsReach
  <1>1. Typed /\ RequestsInv => RequestsReach
    BY DEF Typed, Reqs, Files, RequestsInv, RequestKept, DeliveredWasTold, RequestsReach
  <1>. QED  BY <1>1, TypedHolds, RequestsHold, PTL

-----------------------------------------------------------------------------
(* What a reboot took: its pane is down, its row is watched by the poller    *)
(* while it says working, and a relaunch that gives up gives the row back    *)
(* what it said.                                                             *)
Watched(s) == status[s] = "working" =>
                 app.phase = "down" \/ s \in app.chk \union app.dead \union app.deferred
RelaunchedAsIs(s) == \A a \in Actors : act[a].pc # "idle" /\ act[a].s = s =>
                        /\ act[a].pc \in {"check", "kill", "create", "failed"}
                        /\ act[a].was = status[s] /\ status[s] \in Terminal
PlannedAsIs(s) == \A p \in Restorers : s \in run[p].plan \union run[p].todo =>
                     run[p].snap[s] = status[s] /\ status[s] \in Terminal

(* A poller that is down has nothing in hand.                                *)
DownIsEmpty == app.phase = "down" => app = AppDown

LostInv ==
    \A s \in lost : /\ ~pane[s] /\ (OnRecord(s) \/ s \in app.unmarked)
                    /\ Watched(s) /\ RelaunchedAsIs(s) /\ PlannedAsIs(s)

LEMMA ActMoveEffect ==
    ASSUME Typed, NEW a \in Actors, NEW c \in ActPcs, act' = [act EXCEPT ![a].pc = c]
    PROVE  /\ act'[a].pc = c /\ act'[a].s = act[a].s /\ act'[a].was = act[a].was /\ act'[a].kind = act[a].kind
           /\ \A b \in Actors \ {a} : act'[b] = act[b]
  <1>1. act[a] \in Acts /\ act'[a] = [act[a] EXCEPT !.pc = c]
    BY DEF Typed
  <1>2. \A b \in Actors \ {a} : act'[b] = act[b]
    BY DEF Typed
  <1>. QED  BY <1>1, <1>2 DEF Acts

LEMMA DownHolds == Spec => []DownIsEmpty
  <1>1. Init => DownIsEmpty
    BY DEF Init, AppDown, DownIsEmpty
  <1>2. Typed /\ DownIsEmpty /\ [Next]_vars => DownIsEmpty'
    <2>. SUFFICES ASSUME Typed, DownIsEmpty, [Next]_vars PROVE DownIsEmpty'
      OBVIOUS
    <2>0. app \in Apps
      BY DEF Typed
    <2>1. CASE UNCHANGED app
      BY <2>1 DEF DownIsEmpty
    <2>2. CASE Reboot \/ StartApp \/ ReconcileDone \/ RetryDeferred
      BY <2>2, <2>0 DEF Reboot, StartApp, ReconcileDone, RetryDeferred, AppDown, Apps, DownIsEmpty
    <2>3. ASSUME NEW s \in Sessions, CheckLiveness(s) \/ ReconcileDead(s) \/ MarkInterrupted(s)
          PROVE  DownIsEmpty'
      <3>1. app # AppDown
        BY <2>3 DEF CheckLiveness, ReconcileDead, MarkInterrupted, AppDown
      <3>2. app'.phase = app.phase
        BY <2>0, <2>3 DEF CheckLiveness, ReconcileDead, MarkInterrupted, Apps
      <3>. QED  BY <3>1, <3>2 DEF DownIsEmpty
    <2>. QED
      BY <2>1, <2>2, <2>3, ZenonT(30) DEF Next, PollerNext, HandNext, RelaunchNext, RestoreNext, LeaseAges,
         PollPid, NudgeRequest, MoveRequest, Ack, ResumeByHand, RestartOne, Reap, RecordRequest, FileRequest, InsertRow,
         CheckLive, KillStale, CreatePane, WriteRow, RecordOutcome, Acquire, Plan, NoteWorkers,
         BeginRecovery, DeliverBriefing, MarkSent, RestoreFails, Finish, Relaunch, Crash, vars
  <1>. QED  BY <1>1, <1>2, TypedHolds, PTL DEF Spec

(* A step that leaves rows, panes and lists alone.                           *)
LEMMA LostStays ==
    ASSUME LostInv, UNCHANGED <<fleet, app, run, act>> PROVE LostInv'
  BY DEF LostInv, OnRecord, Awaits, Watched, RelaunchedAsIs, PlannedAsIs, fleet

LEMMA LostKeptByPoller ==
    ASSUME Typed, LostInv, NEW t \in Sessions,
           CheckLiveness(t) \/ ReconcileDead(t) \/ MarkInterrupted(t) \/ PollPid(t)
    PROVE  LostInv'
  <1>0. app \in Apps /\ lost \subseteq Sessions
    BY DEF Typed
  <1>1. UNCHANGED <<pane, lost, run, act>>
    BY DEF CheckLiveness, ReconcileDead, MarkInterrupted, PollPid, fleet
  <1>. SUFFICES ASSUME NEW s \in lost
                PROVE  /\ (OnRecord(s) \/ s \in app.unmarked)' /\ Watched(s)'
                       /\ RelaunchedAsIs(s)' /\ PlannedAsIs(s)'
    BY <1>1 DEF LostInv
  <1>2. /\ ~pane[s] /\ (OnRecord(s) \/ s \in app.unmarked) /\ Watched(s)
        /\ RelaunchedAsIs(s) /\ PlannedAsIs(s)
    BY DEF LostInv
  <1>3. CASE CheckLiveness(t)
    <2>1. /\ app'.phase = app.phase /\ app'.unmarked = app.unmarked
          /\ s \in app.chk \union app.dead \union app.deferred =>
                s \in app'.chk \union app'.dead \union app'.deferred
      BY <1>0, <1>2, <1>3 DEF CheckLiveness, Apps
    <2>. QED
      BY <1>1, <1>2, <1>3, <2>1 DEF CheckLiveness, fleet, OnRecord, Awaits, Watched, RelaunchedAsIs, PlannedAsIs
  <1>4. CASE ReconcileDead(t)
    <2>1. CASE s # t \/ status[t] \in Terminal
      <3>1. UNCHANGED rec /\ status'[s] = status[s] /\ cand'[s] = cand[s]
        BY <1>0, <1>4, <2>1 DEF ReconcileDead, fleet, Typed
      <3>2. /\ app'.phase = app.phase /\ app.unmarked \subseteq app'.unmarked
            /\ app'.chk = app.chk /\ app'.deferred = app.deferred /\ app.dead \ {t} \subseteq app'.dead
        BY <1>0, <1>4 DEF ReconcileDead, Apps
      <3>. QED
        BY <1>1, <1>2, <2>1, <3>1, <3>2
           DEF OnRecord, Awaits, Watched, RelaunchedAsIs, PlannedAsIs, Terminal
    <2>2. CASE s = t /\ status[t] \notin Terminal
      <3>1. ReconciledStatus(s) \in Terminal
        BY DEF ReconciledStatus, Terminal
      <3>2. status'[s] \in Terminal
        BY <1>4, <2>2, <3>1 DEF ReconcileDead, Typed
      <3>3. s \in app'.unmarked
        <4>1. app' = [app EXCEPT !.dead = @ \ {t}, !.unmarked = @ \union {t}]
          BY <1>4, <2>2 DEF ReconcileDead
        <4>. QED  BY <1>0, <2>2, <4>1 DEF Apps
      <3>. QED
        BY <1>1, <1>2, <2>2, <3>2, <3>3 DEF Watched, RelaunchedAsIs, PlannedAsIs, Terminal
    <2>. QED  BY <2>1, <2>2
  <1>5. CASE MarkInterrupted(t)
    <2>1. /\ UNCHANGED status /\ app'.phase = app.phase /\ app.unmarked \ {t} \subseteq app'.unmarked
          /\ app'.chk = app.chk /\ app'.deferred = app.deferred /\ app'.dead = app.dead
      BY <1>0, <1>5 DEF MarkInterrupted, Apps
    <2>2. s # t => rec'[s] = rec[s] /\ cand'[s] = cand[s]
      BY <1>0, <1>5 DEF MarkInterrupted, Typed
    <2>3. /\ rec'[t].last = "interrupted"
          /\ status[t] = "terminated" => cand'[t]
      BY <1>0, <1>5 DEF MarkInterrupted, Typed, Recs
    <2>4. status[s] \in Statuses
      BY <1>0 DEF Typed
    <2>. QED
      BY <1>1, <1>2, <2>1, <2>2, <2>3, <2>4
         DEF OnRecord, Awaits, Watched, RelaunchedAsIs, PlannedAsIs, Statuses, Terminal
  <1>6. CASE PollPid(t)
    <2>1. s # t
      BY <1>0, <1>2, <1>6 DEF PollPid, AppIdle, Watched
    <2>2. UNCHANGED <<app, rec>> /\ status'[s] = status[s] /\ cand'[s] = cand[s]
      BY <1>0, <1>6, <2>1 DEF PollPid, Typed
    <2>. QED
      BY <1>1, <1>2, <2>2 DEF OnRecord, Awaits, Watched, RelaunchedAsIs, PlannedAsIs
  <1>. QED  BY <1>3, <1>4, <1>5, <1>6

LEMMA LostKeptByPhase ==
    ASSUME Typed, DownIsEmpty, LostInv, StartApp \/ ReconcileDone \/ RetryDeferred PROVE LostInv'
  <1>0. app \in Apps /\ lost \subseteq Sessions
    BY DEF Typed
  <1>1. UNCHANGED <<fleet, run, act>>
    BY DEF StartApp, ReconcileDone, RetryDeferred
  <1>2. app'.unmarked = app.unmarked
    <2>1. CASE StartApp
      BY <2>1, Zenon DEF StartApp, AppDown, DownIsEmpty
    <2>2. CASE ReconcileDone \/ RetryDeferred
      BY <1>0, <2>2 DEF ReconcileDone, RetryDeferred, Apps
    <2>. QED  BY <2>1, <2>2
  <1>3. \A s \in lost : Watched(s) => Watched(s)'
    <2>1. CASE StartApp
      BY <1>0, <1>1, <2>1 DEF StartApp, AppDown, Watched, Terminal, fleet
    <2>2. CASE ReconcileDone
      BY <1>0, <1>1, <2>2 DEF ReconcileDone, Apps, Watched, fleet
    <2>3. CASE RetryDeferred
      BY <1>0, <1>1, <2>3 DEF RetryDeferred, AppIdle, Apps, Watched, Terminal, fleet
    <2>. QED  BY <2>1, <2>2, <2>3
  <1>. QED
    BY <1>1, <1>2, <1>3 DEF LostInv, OnRecord, Awaits, RelaunchedAsIs, PlannedAsIs, fleet

LEMMA LostKeptByRelaunch ==
    ASSUME Typed, LostInv, NEW a \in Actors, RelaunchNext(a) PROVE LostInv'
  <1>. DEFINE t == act[a].s
  <1>0. /\ UNCHANGED app /\ lost' \subseteq lost /\ lost \subseteq Sessions
        /\ act[a].pc # "idle" /\ t \in Sessions
    BY DEF RelaunchNext, CheckLive, KillStale, CreatePane, WriteRow, RecordOutcome, fleet,
       Typed, ActOnSession
  <1>. SUFFICES ASSUME NEW s \in lost'
                PROVE  /\ (~pane[s] /\ (OnRecord(s) \/ s \in app.unmarked))' /\ Watched(s)'
                       /\ RelaunchedAsIs(s)' /\ PlannedAsIs(s)'
    BY DEF LostInv
  <1>1. /\ s \in lost /\ ~pane[s] /\ (OnRecord(s) \/ s \in app.unmarked) /\ Watched(s)
        /\ RelaunchedAsIs(s) /\ PlannedAsIs(s)
    BY <1>0 DEF LostInv
  <1>2. t = s => /\ act[a].pc \in {"check", "kill", "create", "failed"}
                 /\ act[a].was = status[s] /\ status[s] \in Terminal
    BY <1>0, <1>1 DEF RelaunchedAsIs
  <1>3. ~pane'[s] /\ status'[s] = status[s]
    BY <1>0, <1>1, <1>2 DEF RelaunchNext, CheckLive, KillStale, CreatePane, WriteRow, RecordOutcome, fleet, Typed
  <1>4. OnRecord(s) => OnRecord(s)'
    <2>1. CASE RecordOutcome(a) /\ act[a].kind # "resume" /\ t = s
      <3>1. rec'[s] = [last |-> "restored", failed |-> TRUE] /\ UNCHANGED cand
        BY <1>0, <1>2, <2>1 DEF RecordOutcome, Recorded, Typed
      <3>. QED  BY <1>3, <3>1 DEF OnRecord, Awaits
    <2>2. CASE ~(RecordOutcome(a) /\ act[a].kind # "resume" /\ t = s)
      <3>1. rec'[s] = rec[s] /\ cand'[s] = cand[s]
        BY <1>0, <1>2, <2>2 DEF RelaunchNext, CheckLive, KillStale, CreatePane, WriteRow, RecordOutcome,
           Recorded, fleet, Typed
      <3>. QED  BY <1>3, <3>1 DEF OnRecord, Awaits
    <2>. QED  BY <2>1, <2>2
  <1>5. RelaunchedAsIs(s)'
    <2>1. CASE RecordOutcome(a)
      <3>1. act'[a].pc = "idle" /\ \A b \in Actors \ {a} : act'[b] = act[b]
        BY <2>1 DEF RecordOutcome, Idle, Typed
      <3>. QED  BY <1>1, <1>3, <3>1 DEF RelaunchedAsIs
    <2>2. ASSUME NEW c \in ActPcs, act' = [act EXCEPT ![a].pc = c],
                 t = s => c \in {"check", "kill", "create", "failed"}
          PROVE  RelaunchedAsIs(s)'
      BY <1>0, <1>1, <1>3, <2>2, ActMoveEffect DEF RelaunchedAsIs
    <2>3. CASE CheckLive(a)
      BY <1>1, <2>2, <2>3 DEF CheckLive, ActPcs
    <2>4. CASE KillStale(a)
      BY <2>2, <2>4 DEF KillStale, ActPcs
    <2>5. CASE CreatePane(a)
      <3>1. t = s => act' # [act EXCEPT ![a].pc = "row"] \/ act' = [act EXCEPT ![a].pc = "failed"]
        BY <1>0, <1>1, <1>3, <2>5 DEF CreatePane, Typed
      <3>. QED  BY <2>2, <2>5, <3>1 DEF CreatePane, ActPcs
    <2>6. CASE WriteRow(a)
      BY <1>2, <2>2, <2>6 DEF WriteRow, ActPcs
    <2>. QED  BY <2>1, <2>3, <2>4, <2>5, <2>6 DEF RelaunchNext
  <1>6. PlannedAsIs(s)'
    BY <1>1, <1>3, RelaunchKeepsRun DEF PlannedAsIs
  <1>. QED  BY <1>0, <1>1, <1>3, <1>4, <1>5, <1>6 DEF Watched

LEMMA LostKeptByHand ==
    ASSUME Typed, LostInv, NEW t \in Sessions, ResumeByHand(t) \/ RestartOne(t) \/ Reap(t) PROVE LostInv'
  <1>0. /\ lost' \subseteq lost /\ lost \subseteq Sessions /\ UNCHANGED <<app, run>>
    BY DEF ResumeByHand, RestartOne, Reap, fleet, Typed
  <1>. SUFFICES ASSUME NEW s \in lost'
                PROVE  /\ (~pane[s] /\ (OnRecord(s) \/ s \in app.unmarked))' /\ Watched(s)'
                       /\ RelaunchedAsIs(s)' /\ PlannedAsIs(s)'
    BY DEF LostInv
  <1>1. /\ s \in lost /\ ~pane[s] /\ (OnRecord(s) \/ s \in app.unmarked) /\ Watched(s)
        /\ RelaunchedAsIs(s) /\ PlannedAsIs(s)
    BY <1>0 DEF LostInv
  <1>2. /\ ~pane'[s] /\ status'[s] = status[s] /\ rec'[s] = rec[s] /\ cand'[s] = cand[s]
    BY <1>0, <1>1 DEF ResumeByHand, RestartOne, Reap, fleet, Typed
  <1>3. RelaunchedAsIs(s)'
    <2>1. CASE Reap(t)
      BY <1>1, <1>2, <2>1 DEF Reap, RelaunchedAsIs
    <2>2. CASE ResumeByHand(t) \/ RestartOne(t)
      <3>1. \A b \in Actors \ {User} : act'[b] = act[b]
        BY <2>2 DEF ResumeByHand, RestartOne, Begin, Typed
      <3>2. act'[User].s = t /\ act'[User].pc = "kill"
            /\ (ResumeByHand(t) => act'[User].was = status[t] /\ status[t] \in Terminal)
        BY <2>2 DEF ResumeByHand, RestartOne, Begin, Typed, Actors
      <3>3. RestartOne(t) => s # t
        BY <1>1 DEF RestartOne
      <3>. QED  BY <1>1, <1>2, <2>2, <3>1, <3>2, <3>3 DEF RelaunchedAsIs
    <2>. QED  BY <2>1, <2>2
  <1>. QED  BY <1>0, <1>1, <1>2, <1>3 DEF OnRecord, Awaits, Watched, PlannedAsIs

LEMMA LostKeptByRestore ==
    ASSUME Typed, LostInv, NEW p \in Restorers, RestoreNext(p) \/ Crash(p) PROVE LostInv'
  <1>0. UNCHANGED <<pane, status, rec, cand, lost, app>> /\ lost \subseteq Sessions
    BY DEF RestoreNext, Acquire, Plan, Relaunch, NoteWorkers, BeginRecovery, DeliverBriefing, MarkSent,
       RestoreFails, Finish, Crash, fleet, Typed
  <1>. SUFFICES ASSUME NEW s \in lost PROVE RelaunchedAsIs(s)' /\ PlannedAsIs(s)'
    BY <1>0 DEF LostInv, OnRecord, Awaits, Watched
  <1>1. RelaunchedAsIs(s) /\ PlannedAsIs(s)
    BY DEF LostInv
  <1>2. RelaunchedAsIs(s)'
    <2>1. CASE UNCHANGED act
      BY <1>0, <1>1, <2>1 DEF RelaunchedAsIs
    <2>2. CASE Crash(p)
      <3>1. act'[p].pc = "idle" /\ \A a \in Actors \ {p} : act'[a] = act[a]
        BY <2>2 DEF Crash, Idle, Typed, Actors
      <3>. QED  BY <1>0, <1>1, <3>1 DEF RelaunchedAsIs
    <2>3. ASSUME NEW t \in Sessions, Relaunch(p, t) PROVE RelaunchedAsIs(s)'
      <3>1. t = s => run[p].snap[s] = status[s] /\ status[s] \in Terminal
        BY <1>1, <2>3 DEF PlannedAsIs, Relaunch
      <3>2. /\ act'[p].pc = "check" /\ act'[p].s = t /\ act'[p].was = run[p].snap[t]
            /\ \A a \in Actors \ {p} : act'[a] = act[a]
        BY <2>3, RelaunchEffect
      <3>. QED  BY <1>0, <1>1, <3>1, <3>2 DEF RelaunchedAsIs
    <2>. QED
      BY <2>1, <2>2, <2>3 DEF RestoreNext, Acquire, Plan, NoteWorkers, BeginRecovery, DeliverBriefing,
         MarkSent, RestoreFails, Finish
  <1>3. PlannedAsIs(s)'
    <2>1. \A q \in Restorers \ {p} : run'[q] = run[q]
      BY OthersRun
    <2>2. s \in run'[p].plan \union run'[p].todo =>
             run'[p].snap[s] = status[s] /\ status[s] \in Terminal
      <3>1. ASSUME NEW c \in RunPcs, Step(p, c)
            PROVE  s \in run'[p].plan \union run'[p].todo =>
                      run'[p].snap[s] = status[s] /\ status[s] \in Terminal
        BY <1>1, <3>1, StepEffect DEF PlannedAsIs
      <3>2. CASE Acquire(p) \/ DeliverBriefing(p) \/ MarkSent(p) \/ RestoreFails(p)
        BY <3>1, <3>2 DEF Acquire, DeliverBriefing, MarkSent, RestoreFails, RunPcs
      <3>3. CASE Finish(p) \/ Crash(p)
        BY <3>3, EndEffect DEF NoRun
      <3>4. CASE Plan(p)
        BY <3>4, PlanEffect DEF Restorable, Awaits, Terminal
      <3>5. ASSUME NEW t \in Sessions, Relaunch(p, t)
            PROVE  s \in run'[p].plan \union run'[p].todo =>
                      run'[p].snap[s] = status[s] /\ status[s] \in Terminal
        BY <1>1, <3>5, RelaunchEffect DEF PlannedAsIs
      <3>6. CASE NoteWorkers(p)
        BY <1>1, <3>6, NoteEffect DEF PlannedAsIs
      <3>7. CASE BeginRecovery(p)
        BY <1>1, <3>7, BeginEffect DEF PlannedAsIs
      <3>. QED  BY <3>2, <3>3, <3>4, <3>5, <3>6, <3>7 DEF RestoreNext
    <2>. QED  BY <1>0, <1>1, <2>1, <2>2 DEF PlannedAsIs
  <1>. QED  BY <1>2, <1>3

LEMMA LostKeptByReboot == ASSUME Typed, LostInv, Reboot PROVE LostInv'
  <1>1. /\ \A s \in Sessions : ~pane'[s] /\ status[s] \in Statuses
        /\ app'.phase = "down" /\ UNCHANGED <<status, rec, cand>> /\ lost' \subseteq Sessions
    BY DEF Reboot, AppDown, Typed
  <1>2. \A a \in Actors : act'[a].pc = "idle"
    BY DEF Reboot, Idle
  <1>3. \A p \in Restorers : run'[p].plan \union run'[p].todo = {}
    BY DEF Reboot, NoRun
  <1>4. \A s \in lost' : OnRecord(s)
    BY <1>1 DEF Reboot, LostInv, OnRecord, Unrecorded, Awaits, Statuses, Terminal
  <1>. QED  BY <1>1, <1>2, <1>3, <1>4 DEF LostInv, OnRecord, Awaits, Watched, RelaunchedAsIs, PlannedAsIs

LEMMA LostHolds == Spec => []LostInv
  <1>1. Init => LostInv
    BY DEF Init, LostInv
  <1>2. Typed /\ DownIsEmpty /\ LostInv /\ [Next]_vars => LostInv'
    <2>. SUFFICES ASSUME Typed, DownIsEmpty, LostInv, [Next]_vars PROVE LostInv'
      OBVIOUS
    <2>1. CASE PollerNext
      BY <2>1, LostKeptByPhase, LostKeptByPoller, LostStays DEF PollerNext, NudgeRequest, MoveRequest, RecordRequest
    <2>2. CASE HandNext
      BY <2>2, LostKeptByHand, LostStays DEF HandNext, Ack, FileRequest, InsertRow
    <2>3. CASE LeaseAges \/ UNCHANGED vars
      BY <2>3, LostStays DEF LeaseAges, vars
    <2>. QED  BY <2>1, <2>2, <2>3, LostKeptByReboot, LostKeptByRelaunch, LostKeptByRestore DEF Next
  <1>. QED  BY <1>1, <1>2, TypedHolds, DownHolds, PTL DEF Spec

(* What a reboot took stays restorable, or is being marked so, until a       *)
(* relaunch brings it back or someone reaps it: whatever crashes, however    *)
(* many reboots, restores, resumes and restarts interleave with it.          *)
THEOREM LostStaysOnRecord == Spec => []LostOnRecord
  <1>1. LostInv => LostOnRecord
    BY DEF LostInv, LostOnRecord
  <1>. QED  BY <1>1, LostHolds, PTL

-----------------------------------------------------------------------------
(* One restore at a time, as long as none outlives its lease: who runs holds *)
(* a lease that is not old.                                                  *)
LeaseInv == \A p \in Restorers : run[p].pc # "idle" => lease.holder = p /\ ~lease.stale

LEMMA LeaseKeptByRestore ==
    ASSUME Typed, LeaseInv, NEW p \in Restorers, RestoreNext(p) \/ Crash(p) PROVE LeaseInv'
  <1>1. \A q \in Restorers \ {p} : run'[q] = run[q]
    BY OthersRun
  <1>2. CASE Acquire(p)
    <2>1. \A q \in Restorers : run[q].pc = "idle"
      BY <1>2, SessionsAssumption DEF Acquire, LeaseInv, Actors
    <2>2. lease'.holder = p /\ ~lease'.stale
      BY <1>2 DEF Acquire
    <2>. QED  BY <1>1, <2>1, <2>2 DEF LeaseInv
  <1>3. CASE Finish(p)
    <2>1. run'[p].pc = "idle"
      BY <1>3, EndEffect DEF NoRun
    <2>2. \A q \in Restorers \ {p} : run[q].pc # "idle" => lease' = lease
      BY <1>3 DEF Finish, LeaseInv
    <2>. QED  BY <1>1, <2>1, <2>2 DEF LeaseInv
  <1>4. CASE /\ UNCHANGED lease
             /\ run'[p].pc # "idle" => run[p].pc # "idle"
    BY <1>1, <1>4 DEF LeaseInv
  <1>5. CASE Crash(p)
    BY <1>4, <1>5, EndEffect DEF Crash, NoRun
  <1>. QED
    BY <1>2, <1>3, <1>4, <1>5 DEF RestoreNext, Plan, Relaunch, NoteWorkers, BeginRecovery, DeliverBriefing, MarkSent,
       RestoreFails

LEMMA LeaseHolds == ASSUME ~SlowRestore PROVE Spec => []LeaseInv
  <1>1. Init => LeaseInv
    BY DEF Init, LeaseInv, NoRun
  <1>2. Typed /\ LeaseInv /\ [Next]_vars => LeaseInv'
    <2>. SUFFICES ASSUME Typed, LeaseInv, [Next]_vars PROVE LeaseInv'
      OBVIOUS
    <2>1. CASE UNCHANGED <<lease, run>>
      BY <2>1 DEF LeaseInv
    <2>2. CASE Reboot
      BY <2>2 DEF Reboot, NoRun, LeaseInv
    <2>3. CASE LeaseAges
      <3>1. UNCHANGED run /\ run[lease.holder].pc = "idle"
        BY <2>3 DEF LeaseAges
      <3>. QED  BY <3>1 DEF LeaseInv
    <2>4. ASSUME NEW a \in Actors, RelaunchNext(a) PROVE LeaseInv'
      <3>1. UNCHANGED lease
        BY <2>4 DEF RelaunchNext, CheckLive, KillStale, CreatePane, WriteRow, RecordOutcome
      <3>. QED  BY <2>4, <3>1, RelaunchKeepsRun DEF LeaseInv
    <2>. QED
      BY <2>1, <2>2, <2>3, <2>4, LeaseKeptByRestore DEF Next, PollerNext, HandNext,
         StartApp, ReconcileDone, RetryDeferred, CheckLiveness, ReconcileDead, MarkInterrupted,
         PollPid, NudgeRequest, MoveRequest, Ack, ResumeByHand, RestartOne, Reap, RecordRequest, FileRequest, InsertRow, vars
  <1>. QED  BY <1>1, <1>2, TypedHolds, PTL DEF Spec

(* Two restores never run at once, whatever crashes and whichever leases are *)
(* left behind or taken over, as long as no restore outlives its lease.      *)
THEOREM OneRestorerHolds == ASSUME ~SlowRestore PROVE Spec => []OneRestorer
  <1>1. LeaseInv => OneRestorer
    BY DEF LeaseInv, OneRestorer
  <1>. QED  BY <1>1, LeaseHolds, PTL

(* A relaunch of a restore is part of its run.                               *)
ActInRun == \A p \in Restorers : act[p].pc # "idle" => run[p].pc \in {"workers", "orch"}

LEMMA ActInRunHolds == Spec => []ActInRun
  <1>1. Init => ActInRun
    BY DEF Init, ActInRun, Idle, Actors
  <1>2. Typed /\ ActInRun /\ [Next]_vars => ActInRun'
    <2>. SUFFICES ASSUME Typed, ActInRun, [Next]_vars PROVE ActInRun'
      OBVIOUS
    <2>1. CASE UNCHANGED <<act, run>>
      BY <2>1 DEF ActInRun
    <2>2. CASE Reboot
      BY <2>2 DEF Reboot, Idle, ActInRun, Actors
    <2>3. ASSUME NEW s \in Sessions, ResumeByHand(s) \/ RestartOne(s) PROVE ActInRun'
      <3>1. UNCHANGED run /\ \A p \in Restorers : act'[p] = act[p]
        BY <2>3, SessionsAssumption DEF ResumeByHand, RestartOne, Begin, Typed, Actors
      <3>. QED  BY <3>1 DEF ActInRun
    <2>4. ASSUME NEW a \in Actors, RelaunchNext(a) PROVE ActInRun'
      <3>1. act[a].pc # "idle" /\ \A b \in Actors \ {a} : act'[b] = act[b]
        BY <2>4 DEF RelaunchNext, CheckLive, KillStale, CreatePane, WriteRow, RecordOutcome, Typed
      <3>. QED  BY <2>4, <3>1, RelaunchKeepsRun DEF ActInRun, Actors
    <2>5. ASSUME NEW p \in Restorers, RestoreNext(p) \/ Crash(p) PROVE ActInRun'
      <3>1. \A q \in Restorers \ {p} : run'[q] = run[q] /\ act'[q] = act[q]
        BY <2>5, OthersRun DEF RestoreNext, Acquire, Plan, Relaunch, NoteWorkers, BeginRecovery,
           DeliverBriefing, MarkSent, RestoreFails, Finish, Crash, Begin, Typed, Actors
      <3>2. act'[p].pc # "idle" => run'[p].pc \in {"workers", "orch"}
        <4>1. CASE Crash(p)
          BY <4>1 DEF Crash, Idle, Typed, Actors
        <4>2. ASSUME NEW s \in Sessions, Relaunch(p, s) PROVE run'[p].pc \in {"workers", "orch"}
          BY <4>2, RelaunchEffect DEF Relaunch
        <4>3. CASE Plan(p)
          BY <4>3, PlanEffect
        <4>4. CASE act[p].pc = "idle" /\ UNCHANGED act
          BY <4>4
        <4>. QED
          BY <2>5, <4>1, <4>2, <4>3, <4>4 DEF ActInRun, RestoreNext, Acquire, NoteWorkers, BeginRecovery,
             DeliverBriefing, MarkSent, RestoreFails, Finish
      <3>. QED  BY <3>1, <3>2 DEF ActInRun
    <2>. QED
      BY <2>1, <2>2, <2>3, <2>4, <2>5 DEF Next, PollerNext, HandNext, LeaseAges,
         StartApp, ReconcileDone, RetryDeferred, CheckLiveness, ReconcileDead, MarkInterrupted,
         PollPid, NudgeRequest, MoveRequest, Ack, Reap, RecordRequest, FileRequest, InsertRow, vars
  <1>. QED  BY <1>1, <1>2, TypedHolds, PTL DEF Spec

(* While only reboots and failures interfere, what the poller has in hand    *)
(* says working and what a restore has in hand awaits it, so that neither    *)
(* undoes the other; and only a restore brings a pane up.                    *)

Bounded == left \in [reboots : Nat, upsets : Nat] /\ left.upsets <= MaxUpsets

(* What a restore has planned and not begun.                                 *)
Ahead(p) == IF run[p].pc \in {"workers", "orch"}
            THEN run[p].todo \union (IF run[p].pc = "workers" THEN run[p].plan \intersect {Orch} ELSE {})
            ELSE {}

ListsApart ==
    /\ \A s \in app.chk \union app.dead \union app.deferred : status[s] = "working"
    /\ \A s \in app.dead : ~pane[s] /\ s \notin app.chk \union app.deferred
    /\ app.chk \intersect app.deferred = {}

PanesKnown ==
    \A s \in Sessions : pane[s] =>
        status[s] = "working" \/ \E p \in Restorers : act[p].pc = "row" /\ act[p].s = s

RelaunchDue(p) == act[p].pc # "idle" =>
    /\ act[p].kind = "restore" /\ act[p].s \in run[p].plan \ Ahead(p)
    /\ act[p].pc = "row" <=> act[p].pc # "ok" /\ pane[act[p].s]
    /\ act[p].pc # "ok" => Awaits(act[p].s) /\ act[p].was = status[act[p].s]
    /\ act[p].s = Orch => run[p].pc = "orch"

AheadDue(p) ==
    /\ run[p].pc = "workers" => Orch \notin run[p].todo
    /\ \A s \in Ahead(p) : s \in run[p].plan /\ Awaits(s) /\ run[p].snap[s] = status[s]

InHand ==
    /\ act[User].pc = "idle"
    /\ ListsApart /\ PanesKnown
    /\ \A p \in Restorers : RelaunchDue(p) /\ AheadDue(p)

CalmInv == Calm => InHand

LEMMA BoundedHolds == Spec => []Bounded
  <1>1. Init => Bounded
    BY BoundsAssumption DEF Init, Bounded
  <1>2. Bounded /\ [Next]_vars => Bounded'
    <2>. SUFFICES ASSUME Bounded, [Next]_vars PROVE Bounded'
      OBVIOUS
    <2>1. CASE UNCHANGED left
      BY <2>1 DEF Bounded
    <2>2. CASE left.reboots > 0 /\ left' = [left EXCEPT !.reboots = @ - 1]
      BY <2>2 DEF Bounded
    <2>3. CASE left.upsets > 0 /\ left' = [left EXCEPT !.upsets = @ - 1]
      BY <2>3, BoundsAssumption DEF Bounded
    <2>. QED
      BY <2>1, <2>2, <2>3, ZenonT(30) DEF Next, PollerNext, HandNext, RelaunchNext, RestoreNext, LeaseAges, Reboot,
         StartApp, ReconcileDone, RetryDeferred, CheckLiveness, ReconcileDead, MarkInterrupted,
         PollPid, NudgeRequest, MoveRequest, Ack, ResumeByHand, RestartOne, Reap, RecordRequest, FileRequest, InsertRow,
         CheckLive, KillStale, CreatePane, WriteRow, RecordOutcome, Acquire, Plan, NoteWorkers,
         BeginRecovery, DeliverBriefing, MarkSent, RestoreFails, Finish, Relaunch, Crash, vars
  <1>. QED  BY <1>1, <1>2, PTL DEF Spec

(* A crash and an action by hand end the calm, nothing restores it.          *)
LEMMA UpsetEndsCalm ==
    ASSUME Bounded,
           \/ \E s \in Sessions : ResumeByHand(s) \/ RestartOne(s) \/ Reap(s)
           \/ \E p \in Restorers : Crash(p)
    PROVE  ~Calm'
  <1>1. left.upsets > 0 /\ left' = [left EXCEPT !.upsets = @ - 1]
    BY DEF ResumeByHand, RestartOne, Reap, Crash
  <1>. QED  BY <1>1, BoundsAssumption DEF Bounded, Calm

LEMMA QuietKeepsCalm == ASSUME Bounded, UNCHANGED left \/ Reboot, Calm' PROVE Calm
  BY DEF Bounded, Calm, Reboot

LEMMA InHandStays == ASSUME InHand, UNCHANGED <<pane, status, rec, cand, app, run, act>> PROVE InHand'
  BY DEF InHand, ListsApart, PanesKnown, RelaunchDue, AheadDue, Ahead, Awaits

LEMMA InHandKeptByPhase ==
    ASSUME Typed, InHand, StartApp \/ ReconcileDone \/ RetryDeferred PROVE InHand'
  <1>0. app \in Apps /\ \A s \in Sessions : status[s] \in Terminal \union {"working"}
    BY DEF Typed, Statuses
  <1>1. UNCHANGED <<pane, status, rec, cand, run, act>>
    BY DEF StartApp, ReconcileDone, RetryDeferred, fleet
  <1>2. ListsApart'
    <2>1. CASE StartApp
      BY <1>0, <1>1, <2>1 DEF StartApp, AppDown, ListsApart
    <2>2. CASE ReconcileDone
      BY <1>0, <1>1, <2>2 DEF ReconcileDone, Apps, InHand, ListsApart
    <2>3. CASE RetryDeferred
      <3>1. /\ app'.chk \subseteq app.deferred /\ app'.dead = {} /\ app'.deferred = {}
        BY <1>0, <2>3 DEF RetryDeferred, AppIdle, Apps
      <3>. QED  BY <1>1, <3>1 DEF InHand, ListsApart
    <2>. QED  BY <2>1, <2>2, <2>3
  <1>. QED  BY <1>1, <1>2 DEF InHand, PanesKnown, RelaunchDue, AheadDue, Ahead, Awaits

LEMMA InHandKeptByPoller ==
    ASSUME Typed, InHand, NEW t \in Sessions,
           CheckLiveness(t) \/ ReconcileDead(t) \/ MarkInterrupted(t) \/ PollPid(t)
    PROVE  InHand'
  <1>0. app \in Apps
    BY DEF Typed
  <1>1. UNCHANGED <<pane, run, act>>
    BY DEF CheckLiveness, ReconcileDead, MarkInterrupted, PollPid, fleet
  <1>2. ListsApart
    BY DEF InHand
  <1>3. ASSUME \A s \in Sessions : (pane[s] \/ Awaits(s)) => status'[s] = status[s],
               \A s \in Sessions : Awaits(s) => Awaits(s)'
        PROVE  PanesKnown' /\ \A p \in Restorers : RelaunchDue(p)' /\ AheadDue(p)'
    <2>1. PanesKnown'
      BY <1>1, <1>3 DEF InHand, PanesKnown
    <2>2. ASSUME NEW p \in Restorers PROVE RelaunchDue(p)' /\ AheadDue(p)'
      <3>1. RelaunchDue(p) /\ AheadDue(p)
        BY DEF InHand
      <3>2. run[p].todo \subseteq Sessions /\ run[p].plan \subseteq Sessions
        BY RunFields DEF Typed
      <3>3. Ahead(p)' = Ahead(p) /\ Ahead(p) \subseteq Sessions
        BY <1>1, <3>2 DEF Ahead
      <3>4. act[p].pc # "idle" => act[p].s \in Sessions
        BY DEF Typed, ActOnSession, Actors
      <3>. QED  BY <1>1, <1>3, <3>1, <3>3, <3>4 DEF RelaunchDue, AheadDue
    <2>. QED  BY <2>1, <2>2
  <1>4. CASE CheckLiveness(t)
    <2>1. UNCHANGED <<status, rec, cand>>
      BY <1>4 DEF CheckLiveness, fleet
    <2>2. /\ t \in app.chk /\ app'.chk = app.chk \ {t}
          /\ \/ app'.dead = app.dead /\ app'.deferred = app.deferred
             \/ ~pane[t] /\ app'.dead = app.dead \union {t} /\ app'.deferred = app.deferred
             \/ app'.dead = app.dead /\ app'.deferred = app.deferred \union {t}
      BY <1>0, <1>4 DEF CheckLiveness, Apps
    <2>3. ListsApart'
      BY <1>1, <1>2, <2>1, <2>2 DEF ListsApart
    <2>. QED  BY <1>1, <1>3, <2>1, <2>3 DEF InHand, Awaits
  <1>5. CASE MarkInterrupted(t)
    <2>1. /\ UNCHANGED status /\ app'.chk = app.chk /\ app'.dead = app.dead /\ app'.deferred = app.deferred
      BY <1>0, <1>5 DEF MarkInterrupted, Apps
    <2>2. ListsApart'
      BY <1>1, <1>2, <2>1 DEF ListsApart
    <2>3. /\ \A s \in Sessions \ {t} : rec'[s] = rec[s] /\ cand'[s] = cand[s]
          /\ rec'[t].last = "interrupted" /\ cand'[t] = (status[t] = "terminated")
      BY <1>5 DEF MarkInterrupted, Typed, Recs
    <2>4. \A s \in Sessions : Awaits(s) => Awaits(s)'
      BY <2>1, <2>3 DEF Awaits
    <2>. QED  BY <1>1, <1>3, <2>1, <2>2, <2>4 DEF InHand
  <1>6. ASSUME status[t] = "working", ~pane[t], UNCHANGED rec,
               \A s \in Sessions \ {t} : status'[s] = status[s] /\ cand'[s] = cand[s]
        PROVE  PanesKnown' /\ \A p \in Restorers : RelaunchDue(p)' /\ AheadDue(p)'
    <2>1. ~Awaits(t)
      BY <1>6 DEF Awaits
    <2>2. \A s \in Sessions : Awaits(s) => Awaits(s)'
      BY <1>6, <2>1 DEF Awaits
    <2>. QED  BY <1>3, <1>6, <2>1, <2>2
  <1>7. CASE ReconcileDead(t)
    <2>0. status[t] = "working" /\ ~pane[t] /\ t \notin app.chk \union app.deferred
      BY <1>2, <1>7 DEF ReconcileDead, ListsApart
    <2>1. /\ UNCHANGED rec /\ app'.chk = app.chk /\ app'.dead = app.dead \ {t} /\ app'.deferred = app.deferred
          /\ \A s \in Sessions \ {t} : status'[s] = status[s] /\ cand'[s] = cand[s]
      BY <1>0, <1>7, <2>0 DEF ReconcileDead, Apps, Typed, Terminal
    <2>2. ListsApart'
      BY <1>0, <1>1, <1>2, <2>0, <2>1 DEF ListsApart, Apps
    <2>. QED  BY <1>1, <1>6, <2>0, <2>1, <2>2 DEF InHand
  <1>8. CASE PollPid(t)
    <2>1. /\ UNCHANGED <<rec, app>> /\ app.chk = {} /\ app.dead = {} /\ t \notin app.deferred
          /\ status[t] = "working" /\ ~pane[t]
          /\ \A s \in Sessions \ {t} : status'[s] = status[s] /\ cand'[s] = cand[s]
      BY <1>8 DEF PollPid, AppIdle, Typed
    <2>2. ListsApart'
      BY <1>0, <1>1, <1>2, <2>1 DEF ListsApart, Apps
    <2>. QED  BY <1>1, <1>6, <2>1, <2>2 DEF InHand
  <1>. QED  BY <1>4, <1>5, <1>7, <1>8

LEMMA InHandKeptByReboot == ASSUME Reboot PROVE InHand'
  <1>1. \A s \in Sessions : ~pane'[s]
    BY DEF Reboot
  <1>2. app'.chk = {} /\ app'.dead = {} /\ app'.deferred = {}
    BY DEF Reboot, AppDown
  <1>3. \A a \in Actors : act'[a].pc = "idle"
    BY DEF Reboot, Idle
  <1>4. \A p \in Restorers : run'[p].pc = "idle"
    BY DEF Reboot, NoRun
  <1>. QED  BY <1>1, <1>2, <1>3, <1>4 DEF InHand, ListsApart, PanesKnown, RelaunchDue, AheadDue, Ahead, Actors

(* While a restore runs, the others do not.                                  *)
Alone(p) == \A q \in Restorers \ {p} : run[q].pc = "idle" /\ act[q].pc = "idle"

LEMMA RunsAlone ==
    ASSUME LeaseInv, ActInRun, NEW p \in Restorers, run[p].pc # "idle" \/ act[p].pc # "idle" \/ Acquire(p)
    PROVE  Alone(p)
  <1>1. CASE run[p].pc # "idle" \/ act[p].pc # "idle"
    BY <1>1 DEF LeaseInv, ActInRun, Alone
  <1>2. CASE Acquire(p)
    <2>1. \A q \in Restorers : run[q].pc = "idle"
      BY <1>2, SessionsAssumption DEF Acquire, LeaseInv, Actors
    <2>. QED  BY <2>1 DEF ActInRun, Alone
  <1>. QED  BY <1>1, <1>2

LEMMA InHandKeptByRelaunch ==
    ASSUME Typed, InHand, NEW p \in Restorers, RelaunchNext(p), Alone(p) PROVE InHand'
  <1>. DEFINE s == act[p].s
  <1>0. /\ act[p].pc # "idle" /\ s \in Sessions /\ UNCHANGED app /\ p \in Actors
        /\ \A b \in Actors \ {p} : act'[b] = act[b]
    BY DEF RelaunchNext, CheckLive, KillStale, CreatePane, WriteRow, RecordOutcome, Typed, ActOnSession,
       Actors, fleet
  <1>1. /\ RelaunchDue(p) /\ AheadDue(p) /\ ListsApart /\ PanesKnown /\ act[User].pc = "idle"
    BY DEF InHand
  <1>2. \A x \in Sessions \ {s} : /\ pane'[x] = pane[x] /\ status'[x] = status[x]
                                  /\ rec'[x] = rec[x] /\ cand'[x] = cand[x]
    BY DEF RelaunchNext, CheckLive, KillStale, CreatePane, WriteRow, RecordOutcome, Recorded, fleet, Typed
  <1>3. /\ act[p].kind = "restore" /\ s \in run[p].plan \ Ahead(p)
        /\ act[p].pc = "row" <=> act[p].pc # "ok" /\ pane[s]
        /\ act[p].pc # "ok" => Awaits(s) /\ act[p].was = status[s] /\ status[s] # "working"
        /\ s = Orch => run[p].pc = "orch"
    BY <1>0, <1>1 DEF RelaunchDue, Awaits
  <1>k. \A q \in Restorers : /\ run'[q].pc = run[q].pc /\ run'[q].todo = run[q].todo
                             /\ run'[q].plan = run[q].plan /\ run'[q].snap = run[q].snap
    BY <1>0, RelaunchKeepsRun
  <1>4. \A q \in Restorers : Ahead(q)' = Ahead(q)
    BY <1>k DEF Ahead
  <1>5. /\ pane'[s] => status'[s] = "working" \/ (act'[p].pc = "row" /\ act'[p].s = s)
        /\ status[s] = "working" => status'[s] = "working" /\ pane'[s] = pane[s]
        /\ act'[p].pc # "idle" =>
              /\ act'[p].kind = "restore" /\ act'[p].s = s
              /\ act'[p].pc = "row" <=> act'[p].pc # "ok" /\ pane'[s]
              /\ act'[p].pc # "ok" => Awaits(s)' /\ act'[p].was = status'[s]
    <2>1. ASSUME NEW c \in ActPcs, act' = [act EXCEPT ![p].pc = c]
          PROVE  /\ act'[p].pc = c /\ act'[p].s = s
                 /\ act'[p].was = act[p].was /\ act'[p].kind = act[p].kind
      BY <1>0, <2>1, ActMoveEffect
    <2>2. CASE CheckLive(p)
      <3>1. ~pane[s] /\ act' = [act EXCEPT ![p].pc = "kill"] /\ UNCHANGED fleet /\ act[p].pc = "check"
        BY <1>3, <2>2 DEF CheckLive
      <3>. QED  BY <1>3, <2>1, <3>1 DEF ActPcs, fleet, Awaits
    <2>3. CASE KillStale(p)
      <3>1. ~pane[s] /\ ~pane'[s] /\ act' = [act EXCEPT ![p].pc = "create"] /\ UNCHANGED <<status, rec, cand>>
            /\ act[p].pc = "kill"
        BY <1>0, <1>3, <2>3 DEF KillStale, Typed
      <3>. QED  BY <1>3, <2>1, <3>1 DEF ActPcs, Awaits
    <2>4. CASE CreatePane(p)
      <3>1. act[p].pc = "create" /\ ~pane[s]
        BY <1>3, <2>4 DEF CreatePane
      <3>2. \/ pane'[s] /\ act' = [act EXCEPT ![p].pc = "row"] /\ UNCHANGED <<status, rec, cand>>
            \/ UNCHANGED <<pane, rec, cand>> /\ act' = [act EXCEPT ![p].pc = "failed"] /\ status'[s] = status[s]
        BY <1>0, <1>3, <2>4, <3>1 DEF CreatePane, Typed
      <3>. QED  BY <1>3, <2>1, <3>1, <3>2 DEF ActPcs, Awaits
    <2>5. CASE WriteRow(p)
      <3>1. /\ status'[s] = "working" /\ pane' = pane /\ act[p].pc = "row"
            /\ act' = [act EXCEPT ![p].pc = "ok"]
        BY <1>0, <2>5 DEF WriteRow, Typed
      <3>. QED  BY <1>3, <2>1, <3>1 DEF ActPcs
    <2>6. CASE RecordOutcome(p)
      <3>1. act'[p].pc = "idle" /\ UNCHANGED <<pane, status>> /\ act[p].pc \in {"ok", "failed"}
        BY <1>0, <2>6 DEF RecordOutcome, Idle, Typed
      <3>2. pane[s] => status[s] = "working" \/ act[p].pc = "row"
        BY <1>0, <1>1 DEF PanesKnown, Alone
      <3>. QED  BY <1>3, <3>1, <3>2
    <2>. QED  BY <2>2, <2>3, <2>4, <2>5, <2>6 DEF RelaunchNext
  <1>6. ListsApart'
    <2>1. app.chk \subseteq Sessions /\ app.dead \subseteq Sessions /\ app.deferred \subseteq Sessions
      BY DEF Typed, Apps
    <2>. QED  BY <1>0, <1>1, <1>2, <1>5, <2>1 DEF ListsApart
  <1>7. PanesKnown'
    <2>1. \A x \in Sessions \ {s} : pane[x] => status[x] = "working"
      BY <1>1 DEF PanesKnown, Alone
    <2>. QED  BY <1>2, <1>5, <2>1 DEF PanesKnown
  <1>8. \A q \in Restorers : RelaunchDue(q)'
    <2>1. RelaunchDue(p)'
      BY <1>3, <1>4, <1>5, <1>k DEF RelaunchDue
    <2>2. \A q \in Restorers \ {p} : act'[q].pc = "idle"
      BY <1>0 DEF Alone, Actors
    <2>. QED  BY <2>1, <2>2 DEF RelaunchDue
  <1>9. \A q \in Restorers : AheadDue(q)'
    <2>1. AheadDue(p)'
      <3>1. Ahead(p) \subseteq Sessions /\ s \notin Ahead(p)
        BY <1>3, RunFields DEF Ahead, Typed
      <3>. QED  BY <1>1, <1>2, <1>4, <3>1, <1>k DEF AheadDue, Awaits
    <2>2. \A q \in Restorers \ {p} : run'[q].pc = "idle"
      BY <1>k DEF Alone
    <2>. QED  BY <2>1, <2>2 DEF AheadDue, Ahead
  <1>10. act'[User].pc = "idle"
    BY <1>0, <1>1, SessionsAssumption DEF Actors
  <1>. QED  BY <1>6, <1>7, <1>8, <1>9, <1>10 DEF InHand

LEMMA InHandKeptByRestore ==
    ASSUME Typed, ActInRun, InHand, NEW p \in Restorers, RestoreNext(p), Alone(p) PROVE InHand'
  <1>0. UNCHANGED <<pane, status, rec, cand, app>> /\ act'[User] = act[User]
        /\ \A q \in Restorers \ {p} : run'[q] = run[q] /\ act'[q] = act[q]
    BY OthersRun, SessionsAssumption
       DEF RestoreNext, Acquire, Plan, Relaunch, NoteWorkers, BeginRecovery, DeliverBriefing, MarkSent,
           RestoreFails, Finish, fleet, Begin, Typed, Actors
  <1>1. RelaunchDue(p) /\ AheadDue(p) /\ PanesKnown
    BY DEF InHand
  <1>2. \A q \in Restorers \ {p} : RelaunchDue(q)' /\ AheadDue(q)'
    BY <1>0 DEF Alone, RelaunchDue, AheadDue, Ahead
  <1>3. CASE UNCHANGED act /\ act[p].pc = "idle" /\ AheadDue(p)'
    BY <1>0, <1>2, <1>3 DEF InHand, ListsApart, PanesKnown, RelaunchDue
  <1>4. ASSUME NEW c \in RunPcs, Step(p, c), c \notin {"workers", "orch"} PROVE AheadDue(p)'
    BY <1>4, StepEffect DEF AheadDue, Ahead
  <1>5. CASE Acquire(p) \/ DeliverBriefing(p) \/ MarkSent(p) \/ RestoreFails(p)
    BY <1>3, <1>4, <1>5 DEF Acquire, DeliverBriefing, MarkSent, RestoreFails, ActInRun, RunPcs
  <1>6. CASE Finish(p)
    <2>1. AheadDue(p)'
      BY <1>6, EndEffect DEF NoRun, AheadDue, Ahead
    <2>. QED  BY <1>3, <1>6, <2>1 DEF Finish, ActInRun
  <1>7. CASE Plan(p)
    <2>1. Ahead(p)' \subseteq run'[p].plan /\ \A s \in run'[p].plan : Awaits(s) /\ s \in Sessions
      BY <1>7, PlanEffect DEF Ahead, Restorable
    <2>2. AheadDue(p)'
      BY <1>0, <1>7, <2>1, PlanEffect DEF AheadDue, Awaits
    <2>. QED  BY <1>3, <1>7, <2>2 DEF Plan, ActInRun
  <1>8. CASE NoteWorkers(p)
    <2>1. Ahead(p)' \subseteq Ahead(p) /\ run[p].pc = "workers"
      BY <1>8, NoteEffect DEF Ahead, NoteWorkers
    <2>2. AheadDue(p)'
      BY <1>0, <1>1, <1>8, <2>1, NoteEffect DEF AheadDue, Awaits
    <2>. QED  BY <1>3, <1>8, <2>2 DEF NoteWorkers
  <1>9. CASE BeginRecovery(p)
    <2>1. AheadDue(p)'
      BY <1>9, BeginEffect DEF AheadDue, Ahead
    <2>. QED  BY <1>3, <1>9, <2>1 DEF BeginRecovery
  <1>10. ASSUME NEW s \in Sessions, Relaunch(p, s) PROVE InHand'
    <2>1. /\ run[p].pc \in {"workers", "orch"} /\ act[p].pc = "idle" /\ s \in run[p].todo
      BY <1>10 DEF Relaunch
    <2>2. /\ s \in Ahead(p) /\ s \in run[p].plan /\ Awaits(s) /\ run[p].snap[s] = status[s]
          /\ s = Orch => run[p].pc = "orch"
      BY <1>1, <2>1 DEF Ahead, AheadDue
    <2>3. ~pane[s]
      BY <1>1, <2>1, <2>2 DEF PanesKnown, Alone, Awaits
    <2>4. Ahead(p)' = Ahead(p) \ {s}
      BY <1>10, <2>1, <2>2, RelaunchEffect DEF Ahead
    <2>5. RelaunchDue(p)'
      BY <1>0, <1>10, <2>2, <2>3, <2>4, RelaunchEffect DEF RelaunchDue, Awaits
    <2>6. AheadDue(p)'
      BY <1>0, <1>1, <1>10, <2>4, RelaunchEffect DEF AheadDue, Awaits
    <2>7. PanesKnown'
      BY <1>0, <1>1, <2>1 DEF PanesKnown
    <2>. QED  BY <1>0, <1>2, <2>5, <2>6, <2>7 DEF InHand, ListsApart
  <1>. QED  BY <1>5, <1>6, <1>7, <1>8, <1>9, <1>10 DEF RestoreNext

LEMMA CalmHolds == ASSUME ~SlowRestore PROVE Spec => []CalmInv
  <1>1. Init => CalmInv
    BY DEF Init, CalmInv, InHand, ListsApart, PanesKnown, RelaunchDue, AheadDue, Ahead, Idle, NoRun, AppDown, Actors
  <1>2. Typed /\ Bounded /\ LeaseInv /\ ActInRun /\ CalmInv /\ [Next]_vars => CalmInv'
    <2>. SUFFICES ASSUME Typed, Bounded, LeaseInv, ActInRun, CalmInv, [Next]_vars, Calm' PROVE InHand'
      BY DEF CalmInv
    <2>1. CASE Reboot
      BY <2>1, InHandKeptByReboot
    <2>2. ASSUME UNCHANGED left PROVE InHand
      BY <2>2, QuietKeepsCalm DEF CalmInv
    <2>3. CASE PollerNext
      <3>1. InHand
        BY <2>2, <2>3 DEF PollerNext, StartApp, ReconcileDone, RetryDeferred, CheckLiveness, ReconcileDead,
           MarkInterrupted, PollPid, NudgeRequest, MoveRequest, RecordRequest
      <3>. QED
        BY <2>3, <3>1, InHandKeptByPhase, InHandKeptByPoller, InHandStays
           DEF PollerNext, NudgeRequest, MoveRequest, RecordRequest, fleet
    <2>4. CASE LeaseAges \/ Ack \/ (\E r \in Requests : FileRequest(r) \/ InsertRow(r)) \/ UNCHANGED vars
      <3>1. UNCHANGED <<pane, status, rec, cand, app, run, act, left>>
        BY <2>4 DEF LeaseAges, Ack, FileRequest, InsertRow, fleet, vars
      <3>. QED  BY <2>2, <3>1, InHandStays
    <2>5. ASSUME NEW a \in Actors, RelaunchNext(a) PROVE InHand'
      <3>1. InHand /\ act[a].pc # "idle"
        BY <2>2, <2>5 DEF RelaunchNext, CheckLive, KillStale, CreatePane, WriteRow, RecordOutcome
      <3>2. a \in Restorers /\ Alone(a)
        BY <3>1, RunsAlone DEF InHand, Actors
      <3>. QED  BY <2>5, <3>1, <3>2, InHandKeptByRelaunch
    <2>6. ASSUME NEW p \in Restorers, RestoreNext(p) PROVE InHand'
      <3>1. InHand
        BY <2>2, <2>6 DEF RestoreNext, Acquire, Plan, Relaunch, NoteWorkers, BeginRecovery, DeliverBriefing,
           MarkSent, RestoreFails, Finish
      <3>2. run[p].pc # "idle" \/ Acquire(p)
        BY <2>6 DEF RestoreNext, Plan, Relaunch, NoteWorkers, BeginRecovery, DeliverBriefing, MarkSent, RestoreFails,
           Finish
      <3>. QED  BY <2>6, <3>1, <3>2, RunsAlone, InHandKeptByRestore
    <2>. QED  BY <2>1, <2>3, <2>4, <2>5, <2>6, UpsetEndsCalm DEF Next, HandNext
  <1>. QED  BY <1>1, <1>2, TypedHolds, BoundedHolds, LeaseHolds, ActInRunHolds, PTL DEF Spec

(* No agent that runs can be lost from sight: a reboot takes only sessions   *)
(* on record, for which restores and reconciliation that do not overlap      *)
(* never undo each other, and what it took stays on record.                  *)
THEOREM NothingForgotten == ASSUME ~SlowRestore PROVE Spec => []NoneForgotten
  <1>1. CalmInv => RunningOnRecord
    BY DEF CalmInv, InHand, PanesKnown, RelaunchDue, RunningOnRecord, OnRecord
  <1>. QED  BY <1>1, LostStaysOnRecord, CalmHolds, PTL DEF NoneForgotten

-----------------------------------------------------------------------------
(* ... and an orchestrator that a restore relaunched is up and its briefing  *)
(* is on record, or the restore has the briefing still ahead; but for one    *)
(* that was ended by an error in between.                                    *)
BriefingPending == recovery.exists /\ ~recovery.sent

Briefed ==
    /\ Orch \in owed =>
          /\ pane[Orch] /\ status[Orch] = "working"
          /\ ~slips.begin => BriefingPending \/ \E p \in Restorers : run[p].pc = "orch" /\ run[p].plan # {}
    /\ \A p \in Restorers :
          /\ run[p].pc \in {"workers", "orch"} /\ run[p].pending => BriefingPending
          /\ run[p].pc = "deliver" => BriefingPending
          /\ run[p].pc = "mark" => Orch \notin owed

BriefingInv == Calm => Briefed

(* The steps of a request have no part in it.                                *)
LEMMA RequestsKeepBegin ==
    ASSUME Typed, NEW r \in Requests, RequestStep(r) PROVE slips'.begin = slips.begin
  <1>1. \/ slips' = slips \/ slips' = Inserted(r)
        \/ slips' = [slips EXCEPT !.writer = slips.writer \union {r}]
        \/ slips' = [slips EXCEPT !.poller = slips.poller \union {r}]
    BY Zenon DEF RequestStep, NudgeRequest, MoveRequest, RecordRequest, FileRequest, InsertRow
  <1>. QED  BY <1>1 DEF Typed, Slips, Inserted

LEMMA BriefedStays ==
    ASSUME Briefed, UNCHANGED <<owed, recovery, run>>, slips'.begin = slips.begin,
           Orch \in owed => pane'[Orch] /\ status'[Orch] = "working"
    PROVE  Briefed'
  BY DEF Briefed, BriefingPending

LEMMA BriefedKeptByPoller ==
    ASSUME Typed, InHand, Briefed, PollerNext PROVE Briefed'
  <1>1. UNCHANGED <<owed, recovery, run, pane>>
    BY DEF PollerNext, StartApp, ReconcileDone, RetryDeferred, CheckLiveness, ReconcileDead,
       MarkInterrupted, PollPid, NudgeRequest, MoveRequest, RecordRequest, fleet
  <1>2. ASSUME Orch \in owed PROVE status'[Orch] = "working"
    <2>1. pane[Orch] /\ status[Orch] = "working" /\ Orch \notin app.dead
      BY <1>2 DEF Briefed, InHand, ListsApart
    <2>. QED
      BY <2>1 DEF PollerNext, StartApp, ReconcileDone, RetryDeferred, CheckLiveness, ReconcileDead,
         MarkInterrupted, PollPid, NudgeRequest, MoveRequest, RecordRequest, fleet, Typed, Sessions
  <1>3. slips'.begin = slips.begin
    BY RequestsKeepBegin DEF RequestStep, PollerNext, StartApp, ReconcileDone, RetryDeferred, CheckLiveness,
       ReconcileDead, MarkInterrupted, PollPid
  <1>. QED  BY <1>1, <1>2, <1>3, BriefedStays DEF Briefed

LEMMA BriefedKeptByRelaunch ==
    ASSUME Typed, ActInRun, InHand, Briefed, NEW p \in Restorers, RelaunchNext(p), Alone(p) PROVE Briefed'
  <1>. DEFINE s == act[p].s
  <1>0. p \in Actors /\ act[p].pc # "idle" /\ run[p].pc \in {"workers", "orch"} /\ UNCHANGED recovery
    BY DEF RelaunchNext, CheckLive, KillStale, CreatePane, WriteRow, RecordOutcome, Actors, ActInRun
  <1>1. \A q \in Restorers : /\ run'[q].pc = run[q].pc /\ run'[q].plan = run[q].plan
                             /\ run'[q].pending = run[q].pending
    BY <1>0, RelaunchKeepsRun
  <1>2. \A q \in Restorers : run[q].pc # "mark"
    BY <1>0 DEF Alone
  <1>3. /\ s \in run[p].plan /\ (s = Orch => run[p].pc = "orch")
        /\ act[p].pc = "row" <=> act[p].pc # "ok" /\ pane[s]
        /\ act[p].pc # "ok" => act[p].was = status[s]
        /\ act[p].kind = "restore" /\ s \in Sessions
    BY <1>0 DEF InHand, RelaunchDue, Typed, ActOnSession
  <1>4. ASSUME Orch \in owed PROVE pane'[Orch] /\ status'[Orch] = "working"
    <2>1. pane[Orch] /\ status[Orch] = "working"
      BY <1>4 DEF Briefed
    <2>. QED
      BY <1>3, <2>1 DEF RelaunchNext, CheckLive, KillStale, CreatePane, WriteRow, RecordOutcome, fleet, Typed,
         Sessions
  <1>5. CASE UNCHANGED <<owed, slips>>
    BY <1>0, <1>1, <1>2, <1>4, <1>5 DEF Briefed, BriefingPending
  <1>6. CASE WriteRow(p)
    <2>1. /\ owed' = owed \union {s} /\ UNCHANGED pane /\ pane[s] /\ status'[s] = "working"
      BY <1>3, <1>6 DEF WriteRow, Typed
    <2>2. s # Orch => slips'.begin = slips.begin
      BY <1>6 DEF WriteRow, Typed, Slips
    <2>. QED  BY <1>0, <1>1, <1>2, <1>3, <1>4, <2>1, <2>2 DEF Briefed, BriefingPending
  <1>. QED  BY <1>5, <1>6 DEF RelaunchNext, CheckLive, KillStale, CreatePane, RecordOutcome, fleet

LEMMA BriefedKeptByRestore ==
    ASSUME Typed, Briefed, NEW p \in Restorers, RestoreNext(p), Alone(p) PROVE Briefed'
  <1>0. UNCHANGED <<pane, status>> /\ owed' \subseteq owed /\ \A q \in Restorers \ {p} : run'[q] = run[q]
    BY OthersRun DEF RestoreNext, Acquire, Plan, Relaunch, NoteWorkers, BeginRecovery, DeliverBriefing,
       MarkSent, RestoreFails, Finish, fleet
  <1>1. ASSUME /\ run'[p].pc \in {"workers", "orch"} /\ run'[p].pending => BriefingPending'
               /\ run'[p].pc = "deliver" => BriefingPending'
               /\ run'[p].pc = "mark" => Orch \notin owed'
               /\ Orch \in owed' /\ ~slips'.begin => BriefingPending' \/ (run'[p].pc = "orch" /\ run'[p].plan # {})
        PROVE  Briefed'
    BY <1>0, <1>1 DEF Alone, Briefed
  <1>2. Orch \in owed /\ ~slips.begin => BriefingPending \/ (run[p].pc = "orch" /\ run[p].plan # {})
    BY DEF Alone, Briefed
  <1>3. CASE Acquire(p)
    <2>1. run'[p].pc = "plan" /\ run[p].pc = "idle" /\ UNCHANGED <<owed, recovery, slips>>
      BY <1>3, StepEffect DEF Acquire, RunPcs, fleet
    <2>. QED  BY <1>1, <1>2, <2>1 DEF BriefingPending
  <1>4. CASE Plan(p)
    <2>1. UNCHANGED <<owed, recovery, slips>> /\ run[p].pc = "plan"
      BY <1>4 DEF Plan, fleet
    <2>. QED  BY <1>1, <1>2, <1>4, <2>1, PlanEffect DEF BriefingPending
  <1>5. ASSUME NEW s \in Sessions, Relaunch(p, s) PROVE Briefed'
    <2>1. UNCHANGED <<owed, recovery, slips>> /\ run[p].pc \in {"workers", "orch"}
      BY <1>5 DEF Relaunch, fleet
    <2>2. run[p].pending => BriefingPending
      BY <2>1 DEF Briefed
    <2>. QED  BY <1>1, <1>2, <1>5, <2>1, <2>2, RelaunchEffect DEF BriefingPending
  <1>6. CASE NoteWorkers(p)
    <2>1. UNCHANGED <<recovery, slips>> /\ run[p].pc = "workers"
      BY <1>6 DEF NoteWorkers
    <2>2. run[p].pending => BriefingPending
      BY <2>1 DEF Briefed
    <2>. QED  BY <1>0, <1>1, <1>2, <1>6, <2>1, <2>2, NoteEffect DEF BriefingPending
  <1>7. CASE BeginRecovery(p)
    <2>1. UNCHANGED owed /\ run[p].pc = "orch"
      BY <1>7 DEF BeginRecovery, fleet
    <2>2. run[p].pending => BriefingPending
      BY <2>1 DEF Briefed
    <2>3. CASE run'[p].pc = "deliver" /\ recovery' = IF run[p].pending THEN recovery
                                                     ELSE [exists |-> TRUE, sent |-> FALSE, before |-> {}]
      <3>1. BriefingPending'
        BY <2>2, <2>3 DEF BriefingPending
      <3>. QED  BY <1>1, <2>3, <3>1
    <2>4. CASE /\ run'[p].pc = "finish" /\ UNCHANGED recovery
               /\ ~(run[p].pending \/ run[p].plan # {}) \/ status[Orch] \in Terminal
      <3>1. Orch \in owed /\ ~slips.begin => BriefingPending
        BY <1>2, <2>4 DEF Briefed, Terminal
      <3>2. Orch \in owed => status[Orch] \notin Terminal
        BY DEF Briefed, Terminal
      <3>3. Orch \in owed => UNCHANGED slips
        BY <1>7, <2>4, <3>2 DEF BeginRecovery
      <3>. QED  BY <1>1, <2>1, <2>4, <3>1, <3>3 DEF BriefingPending
    <2>. QED  BY <1>7, <2>3, <2>4, BeginEffect
  <1>8. CASE DeliverBriefing(p)
    <2>1. BriefingPending /\ UNCHANGED <<recovery, slips>>
      BY <1>8 DEF DeliverBriefing, Briefed
    <2>2. \/ run'[p].pc = "mark" /\ Orch \notin owed'
          \/ run'[p].pc = "finish"
      BY <1>8, StepEffect DEF DeliverBriefing, RunPcs
    <2>. QED  BY <1>1, <2>1, <2>2 DEF BriefingPending
  <1>9. CASE MarkSent(p)
    <2>1. Orch \notin owed /\ run'[p].pc = "finish"
      BY <1>9, StepEffect DEF MarkSent, RunPcs, Briefed
    <2>. QED  BY <1>0, <1>1, <2>1
  <1>10. CASE Finish(p)
    <2>0. run'[p].pc = "idle"
      BY <1>10, EndEffect DEF NoRun
    <2>1. run'[p].pc = "idle" /\ run[p].pc = "finish" /\ UNCHANGED <<owed, recovery, slips>>
      BY <1>10, <2>0 DEF Finish, fleet
    <2>. QED  BY <1>1, <1>2, <2>1 DEF BriefingPending
  <1>11. CASE RestoreFails(p)
    <2>1. UNCHANGED owed /\ run'[p].pc = "finish" /\ run[p].pc \in {"plan", "workers", "orch", "mark"}
      BY <1>11, FailsEffect DEF RestoreFails, fleet
    <2>2. CASE run[p].pc = "mark"
      BY <1>1, <2>1, <2>2 DEF Briefed
    <2>3. CASE run[p].pc # "mark"
      <3>1. UNCHANGED recovery
        BY <1>11, <2>3 DEF RestoreFails
      <3>2. run[p].pc = "orch" /\ run[p].pending => BriefingPending
        BY DEF Briefed
      <3>3. /\ slips.begin => slips'.begin
            /\ run[p].pc = "orch" /\ ~run[p].pending /\ Orch \in owed => slips'.begin
        BY <1>11 DEF RestoreFails, Typed, Slips
      <3>. QED  BY <1>1, <1>2, <2>1, <3>1, <3>2, <3>3 DEF BriefingPending
    <2>. QED  BY <2>2, <2>3
  <1>. QED  BY <1>3, <1>4, <1>5, <1>6, <1>7, <1>8, <1>9, <1>10, <1>11 DEF RestoreNext

LEMMA BriefingHolds == ASSUME ~SlowRestore PROVE Spec => []BriefingInv
  <1>1. Init => BriefingInv
    BY DEF Init, BriefingInv, Briefed, NoRun
  <1>2. Typed /\ Bounded /\ LeaseInv /\ ActInRun /\ CalmInv /\ BriefingInv /\ [Next]_vars
           => BriefingInv'
    <2>. SUFFICES ASSUME Typed, Bounded, LeaseInv, ActInRun, CalmInv, BriefingInv, [Next]_vars, Calm'
                  PROVE  Briefed'
      BY DEF BriefingInv
    <2>1. CASE Reboot
      BY <2>1 DEF Reboot, NoRun, Briefed
    <2>2. ASSUME UNCHANGED left PROVE InHand /\ Briefed
      BY <2>2, QuietKeepsCalm DEF CalmInv, BriefingInv
    <2>3. CASE PollerNext
      <3>1. UNCHANGED left
        BY <2>3 DEF PollerNext, StartApp, ReconcileDone, RetryDeferred, CheckLiveness, ReconcileDead,
           MarkInterrupted, PollPid, NudgeRequest, MoveRequest, RecordRequest
      <3>. QED  BY <2>2, <2>3, <3>1, BriefedKeptByPoller
    <2>4. CASE LeaseAges \/ Ack \/ (\E r \in Requests : FileRequest(r) \/ InsertRow(r)) \/ UNCHANGED vars
      <3>1. UNCHANGED <<pane, status, owed, recovery, run, left>>
        BY <2>4 DEF LeaseAges, Ack, FileRequest, InsertRow, fleet, vars
      <3>2. slips'.begin = slips.begin
        BY <2>4, RequestsKeepBegin DEF RequestStep, LeaseAges, Ack, vars
      <3>. QED  BY <2>2, <3>1, <3>2, BriefedStays DEF Briefed
    <2>5. ASSUME NEW a \in Actors, RelaunchNext(a) PROVE Briefed'
      <3>1. InHand /\ Briefed /\ act[a].pc # "idle"
        BY <2>2, <2>5 DEF RelaunchNext, CheckLive, KillStale, CreatePane, WriteRow, RecordOutcome
      <3>2. a \in Restorers /\ Alone(a)
        BY <3>1, RunsAlone DEF InHand, Actors
      <3>. QED  BY <2>5, <3>1, <3>2, BriefedKeptByRelaunch
    <2>6. ASSUME NEW p \in Restorers, RestoreNext(p) PROVE Briefed'
      <3>1. Briefed
        BY <2>2, <2>6 DEF RestoreNext, Acquire, Plan, Relaunch, NoteWorkers, BeginRecovery, DeliverBriefing,
           MarkSent, RestoreFails, Finish
      <3>2. run[p].pc # "idle" \/ Acquire(p)
        BY <2>6 DEF RestoreNext, Plan, Relaunch, NoteWorkers, BeginRecovery, DeliverBriefing, MarkSent, RestoreFails,
           Finish
      <3>. QED  BY <2>6, <3>1, <3>2, RunsAlone, BriefedKeptByRestore
    <2>. QED  BY <2>1, <2>3, <2>4, <2>5, <2>6, UpsetEndsCalm DEF Next, HandNext
  <1>. QED  BY <1>1, <1>2, TypedHolds, BoundedHolds, LeaseHolds, ActInRunHolds, CalmHolds, PTL DEF Spec

(* The briefing of an orchestrator that a restore brought back is on record  *)
(* until it is delivered, over every reboot and failed launch, send and mark: *)
(* as long as no restore crashes, nobody resumes, restarts or reaps, and no   *)
(* error of the store ends the restore between the relaunch and the record.   *)
THEOREM BriefingIsKept == ASSUME ~SlowRestore PROVE Spec => []BriefingKept
  <1>1. BriefingInv => BriefingKept
    BY DEF BriefingInv, Briefed, BriefingPending, BriefingKept, UnbriefedIsPending
  <1>. QED  BY <1>1, BriefingHolds, PTL

=============================================================================
