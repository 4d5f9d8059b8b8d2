----------------------------- MODULE WorkerOps -----------------------------
(* The commands that drive WorkerStore, each as the sequence of transactions,  *)
(* tmux calls and git calls that its code makes: `ninox spawn`, `finalize`,     *)
(* `release` and relaunch (`restart`, `fleet restore`; one process each),       *)
(* re-file, resume, remove and merge cleanup (tasks of the app), and            *)
(* Store::open, which every ninox process runs first.                          *)
(* Between two steps any other command may run.  Git answers by choice: a       *)
(* checkout can be dirty, missing or impossible to create.                     *)
(*                                                                             *)
(* A re-file or resume is given the number its transaction takes as the new     *)
(* start time of the session.  "terminated" stands for Interrupted too.         *)
EXTENDS WorkerStore

CONSTANTS
  Commands,   \* command instances; each runs once
  Width,      \* bound: commands in progress at a time
  App,        \* the app's process: it holds the locks its commands take
  Kinds,      \* what a command may be
  Faults,     \* "git", "launch", "crash": what may go wrong
  Events,     \* "exit", "poll", "report", "merge": what else may happen
  Backend     \* "tmux" or "ptyd": where sessions are created

AllKinds == {"spawn", "refile", "resume", "relaunch", "finalize", "release",
             "remove", "cleanup", "open"}
AppKinds == {"refile", "resume", "remove", "cleanup"}

ASSUME ProcsAssumption == Procs = Commands \cup {App} /\ App \notin Commands
ASSUME WidthAssumption == Width \in Nat
ASSUME KindsAssumption == Kinds \subseteq AllKinds
ASSUME FaultsAssumption == Faults \subseteq {"git", "launch", "crash"}
ASSUME EventsAssumption == Events \subseteq {"exit", "poll", "report", "merge"}
\* What the store lets its clients write in these columns, the commands may write.
ASSUME AnyColumns == Columns = (Checkouts \cup {NoCheckout}) \X BOOLEAN \X BOOLEAN
ASSUME BackendAssumption == Backend \in {"tmux", "ptyd"}

VARIABLES
  op,    \* what each command knows and what it does next
  run    \* the last agent of each session: whether there was one, the incarnation its
         \* environment names (0: none) and, while it lives, its directory

vars == <<session, worker, claim, fin, checkout, lock, next, op, run>>

NoRun == [live |-> FALSE, ran |-> FALSE, inc |-> 0, ws |-> NoCheckout]
Idle == [cmd |-> "none", pc |-> "idle", s |-> NoSession, i |-> 0, k |-> 0, l |-> 0,
         c |-> NoCheckout, row |-> NoRow, left |-> {}, dead |-> {}, note |-> "none"]

Init ==
  /\ StoreInit
  /\ op = [p \in Commands |-> Idle]
  /\ run = [s \in Sessions |-> NoRun]

-----------------------------------------------------------------------------
(* Commands.                                                                   *)

At(p, pc) == op[p].pc = pc
Running(p) == op[p].pc \notin {"idle", "done"}
Ready(p, kind) ==
  At(p, "idle") /\ kind \in Kinds /\ Cardinality({q \in Commands : Running(q)}) < Width
IsApp(p) == op[p].cmd \in AppKinds
Begin(p, kind, s, pc) == [Idle EXCEPT !.cmd = kind, !.s = s, !.pc = pc]
Set(p, new) == op' = [op EXCEPT ![p] = new]
Go(p, pc) == Set(p, [op[p] EXCEPT !.pc = pc])
GoNote(p, pc, note) == Set(p, [op[p] EXCEPT !.pc = pc, !.note = note])
\* A command of the app just returns; a process exits, and its locks go with it.
End(p) == Set(p, [Idle EXCEPT !.cmd = op[p].cmd, !.pc = IF IsApp(p) THEN "done" ELSE "exit"])
Keep == UNCHANGED db

Exit(p) == At(p, "exit") /\ DropLocks(p) /\ Go(p, "done") /\ UNCHANGED run

(* Only tmux is asked whether a session runs and which incarnation it is.       *)
Visible(s) == run[s].live /\ Backend = "tmux"
Ended(s) == [run[s] EXCEPT !.live = FALSE, !.ws = NoCheckout]
Kill(s) == run' = [run EXCEPT ![s] = Ended(s)]
HasRun(s) == run[s].ran

(* stop_exact_runtime refuses to stop any other agent.  For the stop of         *)
(* spawn_util (`named`), an agent whose environment names no incarnation does   *)
(* not count: it succeeds and stops nothing.                                   *)
Stop(s, i, named) ==
  /\ Visible(s) => run[s].inc = i \/ (named /\ run[s].inc = 0)
  /\ IF Visible(s) /\ run[s].inc = i THEN Kill(s) ELSE UNCHANGED run
StopOr(p, named, pc, refused) ==
  LET s == op[p].s  i == op[p].i
  IN \/ Stop(s, i, named) /\ Go(p, pc)
     \/ Visible(s) /\ run[s].inc # i /\ ~(named /\ run[s].inc = 0) /\ UNCHANGED run /\ refused

\* worker_incarnation_for_snapshot finds the session's incarnation.
Current(s) == HasWorker(s) /\ worker[s].started = session[s].started

Present(c) == IF c \in Checkouts THEN checkout[c].state # "absent" ELSE FALSE

-----------------------------------------------------------------------------
(* acquire_pooled_checkout, for spawn and re-file: recover what can be          *)
(* recovered, then take a free checkout or reserve a new one.                   *)

Acquired(p) ==
  Go(p, IF op[p].cmd = "spawn" THEN "workspace" ELSE "rehome")
NotAcquired(p) ==
  Set(p, [op[p] EXCEPT !.pc = "rollback", !.c = NoCheckout, !.left = {},
                       !.note = IF op[p].cmd = "spawn" THEN "terminalize" ELSE "none"])

AcquireScan(p) ==
  /\ At(p, "scan")
  /\ Set(p, [op[p] EXCEPT !.pc = "visit", !.left =
       {<<c, checkout[c]>> : c \in {d \in Checkouts :
                                      checkout[d].state \in {"provisioning", "quarantined"}}}])
  /\ Keep /\ UNCHANGED run

\* A provisioning reservation that nobody will finish.
Stale(r) ==
  \/ worker[r.session].state \in {"none", "released"}
  \/ worker[r.session].id # r.owner
  \/ session[r.session].status \in {"done", "terminated"}

Leave(p, seen, row) ==
  Set(p, [op[p] EXCEPT !.left = (@ \ {seen}) \cup
            IF row.state = "quarantined" THEN {<<seen[1], row>>} ELSE {}])

VisitProvisioning(p) ==
  /\ At(p, "visit")
  /\ \E seen \in op[p].left :
       LET c == seen[1]  r == seen[2]
       IN /\ r.state = "provisioning"
          /\ \/ ~Stale(r) /\ Keep /\ Set(p, [op[p] EXCEPT !.left = @ \ {seen}])
             \/ Stale(r) /\ Quarantine(r.session, r.owner, r.lease, c) /\ Leave(p, seen, checkout'[c])
             \/ /\ Stale(r) /\ ~CanQuarantine(r.session, r.owner, r.lease, c) /\ Present(c)
                /\ Keep /\ Leave(p, seen, checkout[c])
             \/ Stale(r) /\ ~Present(c) /\ Keep /\ NotAcquired(p)
  /\ UNCHANGED run

VisitQuarantined(p) ==
  /\ At(p, "visit")
  /\ \E seen \in op[p].left :
       LET c == seen[1]
       IN /\ seen[2].state = "quarantined"
          /\ Set(p, [op[p] EXCEPT !.left = @ \ {seen}])
          /\ \/ RecoverQuarantined(c)
             \/ "git" \in Faults /\ (RemoveQuarantined(c) \/ Keep)
             \/ checkout[c].state # "quarantined" /\ Keep
  /\ UNCHANGED run

TakeCheckout(p) ==
  /\ At(p, "visit") /\ op[p].left = {}
  /\ LET s == op[p].s  i == op[p].i
         free == {c \in Checkouts : checkout[c].state = "free"}
     IN \/ \E c \in free : ClaimFree(s, i, c) /\ Set(p, [op[p] EXCEPT !.pc = "create", !.c = c])
        \/ /\ free = {}
           /\ \E c \in Checkouts :
                Reserve(s, i, c) /\ Set(p, [op[p] EXCEPT !.pc = "create", !.c = c, !.note = "new"])
        \/ /\ \A c \in Checkouts : ~CanTake(s, i, c, IF free = {} THEN "absent" ELSE "free")
           /\ Keep /\ NotAcquired(p)
  /\ UNCHANGED run

Create(p) ==
  /\ At(p, "create")
  /\ LET s == op[p].s  i == op[p].i  c == op[p].c
     IN \/ FinalizeCheckout(s, i, i, c) /\ Acquired(p)
        \/ ~CanFinalizeCheckout(s, i, i, c) /\ Keep /\ NotAcquired(p)
        \/ /\ "git" \in Faults
           /\ \/ Quarantine(s, i, i, c)
              \/ op[p].note = "new" /\ RemoveFailed(s, i, i, c)
           /\ NotAcquired(p)
  /\ UNCHANGED run

-----------------------------------------------------------------------------
(* rollback_worker_incarnation_checkout: give back what was acquired and        *)
(* release the incarnation, unless another command claimed it.                  *)

\* Mutant of Rollback: without a checkout there is nothing to roll back.
RollbackCheckoutOnly(p) ==
  /\ At(p, "rollback")
  /\ LET s == op[p].s  i == op[p].i
     IN \/ op[p].c # NoCheckout /\ ClaimWithLease(s, i, i) /\ Go(p, "undo")
        \/ (op[p].c = NoCheckout \/ ~CanClaimWithLease(s, i, i)) /\ Keep /\ End(p)
  /\ UNCHANGED run

Rollback(p) ==
  /\ At(p, "rollback")
  /\ LET s == op[p].s  i == op[p].i
     IN IF op[p].c # NoCheckout
          THEN \/ ClaimWithLease(s, i, i) /\ Go(p, "undo")
               \/ ~CanClaimWithLease(s, i, i) /\ Keep /\ End(p)
          ELSE \/ ClaimCleanup(s, i) /\ Go(p, "settle")
               \/ ~CanClaimCleanup(s, i) /\ Keep /\ End(p)
  /\ UNCHANGED run

\* A clean checkout goes back to the pool, a dirty one is quarantined.
GiveBack(s, i, l, c) ==
  \/ ReleaseCheckout(s, i, l, c)
  \/ (checkout[c].state = "provisioning" \/ "git" \in Faults) /\ Quarantine(s, i, l, c)
  \/ ~CanQuarantine(s, i, l, c) /\ Keep

Undo(p) ==
  /\ At(p, "undo")
  /\ GiveBack(op[p].s, op[p].i, op[p].i, op[p].c)
  /\ Go(p, "settle") /\ UNCHANGED run

Settle(p) ==
  /\ At(p, "settle")
  /\ LET s == op[p].s  i == op[p].i
     IN \/ CompleteClaim(s, i, "cleanup_claimed")
           /\ IF op[p].note \in {"terminalize", "status"} THEN Go(p, op[p].note) ELSE End(p)
        \/ ~CanSettle(s, i, "cleanup_claimed") /\ Keep /\ End(p)
  /\ UNCHANGED run

Mark(p) ==
  /\ LET s == op[p].s  t == op[p].row.started
     IN \/ At(p, "terminalize") /\ TerminalizeSpawning(s, t, NoCheckout)
        \/ At(p, "terminalize") /\ ~CanUpdateSpawning(s, t) /\ Keep
        \/ At(p, "status") /\ UpdateStatus(s, t, "terminated")
        \/ At(p, "status") /\ ~CanUpdateStatus(s, t) /\ Keep
  /\ End(p) /\ UNCHANGED run

-----------------------------------------------------------------------------
(* Launching, for spawn, re-file and resume.  tmux refuses a second session of  *)
(* the same name and a directory that is not there.                            *)

CanLaunch(s, ws) == ~run[s].live /\ (ws = NoCheckout \/ Present(ws))

Launch(p) ==
  /\ At(p, "launch")
  /\ LET s == op[p].s  ws == op[p].row.ws  cmd == op[p].cmd
     IN \/ /\ CanLaunch(s, ws)
           /\ run' = [run EXCEPT ![s] = [live |-> TRUE, ran |-> TRUE, inc |-> op[p].i, ws |-> ws]]
           /\ Go(p, IF cmd = "spawn" THEN "complete" ELSE "row")
        \/ /\ ~CanLaunch(s, ws) \/ "launch" \in Faults
           /\ UNCHANGED run
           /\ IF cmd = "spawn" THEN GoNote(p, "unclaim", "status") ELSE Go(p, "failed")
  /\ Keep

(* The code stops the agent when the claim it launched under is gone: that      *)
(* does not happen (LaunchCompletes).                                          *)
CompleteLaunch(p) ==
  /\ At(p, "complete")
  /\ CompleteStart(op[p].s, op[p].i, op[p].k)
  /\ End(p) /\ UNCHANGED run

\* Mutant of Unclaim: a failed launch forgets its claim.
UnclaimForgets(p) ==
  /\ At(p, "unclaim") /\ Keep
  /\ IF op[p].cmd = "spawn" THEN Go(p, "rollback") ELSE End(p)
  /\ UNCHANGED run

Unclaim(p) ==
  /\ At(p, "unclaim")
  /\ LET s == op[p].s  i == op[p].i  k == op[p].k
     IN AbortStart(s, i, k) \/ (~CanAbortStart(s, i, k) /\ Keep)
  /\ IF op[p].cmd = "spawn" THEN Go(p, "rollback") ELSE End(p)
  /\ UNCHANGED run

-----------------------------------------------------------------------------
(* ninox spawn (run_spawn).                                                    *)

SpawnInsert(p, s) ==
  /\ Ready(p, "spawn")
  /\ InsertSpawning(s)
  /\ Set(p, [Begin(p, "spawn", s, "prepare") EXCEPT !.row = session'[s]])
  /\ UNCHANGED run

SpawnPrepare(p) ==
  /\ At(p, "prepare") /\ op[p].cmd = "spawn"
  /\ LET s == op[p].s  t == op[p].row.started
     IN \/ Prepare(p, s, t) /\ Set(p, [op[p] EXCEPT !.pc = "scan", !.i = next])
        \/ ~CanPrepare(s) /\ Keep /\ Go(p, "unspawn")
  /\ UNCHANGED run

Unspawn(p) ==
  /\ At(p, "unspawn")
  /\ LET s == op[p].s  t == op[p].row.started
     IN DeleteSpawning(s, t) \/ (~CanDeleteSpawning(s, t) /\ Keep)
  /\ End(p) /\ UNCHANGED run

SpawnWorkspace(p) ==
  /\ At(p, "workspace")
  /\ LET s == op[p].s  t == op[p].row.started
     IN \/ UpdateSpawningWorkspace(s, t, op[p].c)
           /\ Set(p, [op[p] EXCEPT !.pc = "bind", !.row.ws = op[p].c])
        \/ ~CanUpdateSpawning(s, t) /\ Keep /\ GoNote(p, "rollback", "none")
  /\ UNCHANGED run

(* The capability the incarnation is bound to: the checkout acquired now, or    *)
(* the one its predecessor left.                                               *)
BindLease(p) ==
  /\ At(p, "bind")
  /\ LET s == op[p].s  i == op[p].i
         l == IF op[p].c # NoCheckout THEN i ELSE op[p].l
     IN \/ Bind(s, i, l) /\ Go(p, IF op[p].cmd = "spawn" THEN "working" ELSE "launch")
        \/ ~CanBind(s, i) /\ Keep /\ GoNote(p, "rollback", "none")
  /\ UNCHANGED run

SpawnWorking(p) ==
  /\ At(p, "working")
  /\ \/ UpsertSession(op[p].s, [op[p].row EXCEPT !.status = "working", !.talk = TRUE])
        /\ Go(p, "claim")
     \/ "launch" \in Faults /\ Keep /\ GoNote(p, "rollback", "terminalize")
  /\ UNCHANGED run

SpawnClaim(p) ==
  /\ At(p, "claim") /\ op[p].cmd = "spawn"
  /\ LET s == op[p].s  i == op[p].i
     IN \/ ClaimStart(p, s, i) /\ Set(p, [op[p] EXCEPT !.pc = "launch", !.k = next])
        \/ ~CanClaimStart(s, i) /\ Keep /\ End(p)
  /\ UNCHANGED run

-----------------------------------------------------------------------------
(* Re-file (Message::RefileSession): a new incarnation in the session's         *)
(* workspace, or in a new checkout when the lease is gone.                      *)

RefileStart(p, s) ==
  /\ Ready(p, "refile")
  /\ Exists(s) /\ session[s].status # "spawning"
  /\ Set(p, [Begin(p, "refile", s, "stop") EXCEPT !.row = session[s], !.i = worker[s].id])
  /\ Keep /\ UNCHANGED run

\* Mutant of RefileStop: the previous agent is not stopped.
RefileStopNothing(p) ==
  At(p, "stop") /\ op[p].cmd = "refile" /\ Go(p, "prepare") /\ Keep /\ UNCHANGED run

RefileStop(p) ==
  /\ At(p, "stop") /\ op[p].cmd = "refile"
  /\ IF op[p].i # 0 THEN StopOr(p, TRUE, "prepare", End(p))
     ELSE UNCHANGED run /\ IF run[op[p].s].live THEN End(p) ELSE Go(p, "prepare")
  /\ Keep

RefilePrepare(p) ==
  /\ At(p, "prepare") /\ op[p].cmd = "refile"
  /\ LET s == op[p].s
     IN \/ Prepare(App, s, next)
           /\ Set(p, [op[p] EXCEPT !.pc = "find", !.i = next, !.l = Kept(s), !.row.started = next])
        \/ ~CanPrepare(s) /\ Keep /\ End(p)
  /\ UNCHANGED run

RefileFind(p) ==
  /\ At(p, "find")
  /\ Go(p, IF LeasesOf(op[p].s) = {} /\ Present(op[p].row.ws) THEN "scan" ELSE "ensure")
  /\ Keep /\ UNCHANGED run

RefileRehome(p) ==
  /\ At(p, "rehome")
  /\ LET s == op[p].s  c == op[p].c
     IN /\ \/ Exists(s) /\ UpsertSession(s, [session[s] EXCEPT !.ws = c])
           \/ ~Exists(s) /\ Keep
        /\ Set(p, [op[p] EXCEPT !.pc = "ensure", !.row.ws = c])
  /\ UNCHANGED run

(* ensure_session_workspace_with_store, for re-file and resume.                 *)
EnsureFails(p) ==
  IF op[p].cmd = "refile" THEN GoNote(p, "rollback", "none") ELSE Go(p, "unclaim")
Ensure(p) ==
  /\ At(p, "ensure")
  /\ LET s == op[p].s  ws == op[p].row.ws  leases == LeasesOf(s)
     IN \/ \E c \in leases :
             LET i == checkout[c].owner  l == checkout[c].lease
             IN /\ checkout[c].state = "provisioning"
                /\ \/ FinalizeCheckout(s, i, l, c) /\ Go(p, "ensure")
                   \/ ~CanFinalizeCheckout(s, i, l, c) /\ Keep /\ EnsureFails(p)
                   \/ "git" \in Faults /\ (RemoveFailed(s, i, l, c) \/ Keep) /\ EnsureFails(p)
        \/ \E c \in leases :
             /\ checkout[c].state = "leased" /\ Keep
             /\ \/ c = ws /\ Go(p, IF op[p].cmd = "refile" THEN "bind" ELSE "launch")
                \/ (c # ws \/ "git" \in Faults) /\ EnsureFails(p)
        \/ leases = {} /\ ws \in Checkouts /\ Keep /\ EnsureFails(p)
        \/ leases = {} /\ ws = NoCheckout /\ Keep
           /\ Go(p, IF op[p].cmd = "refile" THEN "bind" ELSE "launch")
  /\ UNCHANGED run

(* What launch_interactive_session writes: the whole row after a launch, also   *)
(* when the row is gone; the failure status only when it is there.              *)
LaunchedRow(p) ==
  /\ At(p, "row")
  /\ UpsertSession(op[p].s, [op[p].row EXCEPT !.status = "working",
                                  !.pid = run[op[p].s].live, !.talk = TRUE])
  /\ IF op[p].cmd = "resume" THEN Go(p, "complete") ELSE End(p)
  /\ UNCHANGED run

FailedRow(p) ==
  /\ At(p, "failed")
  /\ LET s == op[p].s
         failed == {"terminated"} \cup (IF op[p].cmd = "relaunch" THEN {op[p].row.status} \cap {"done"} ELSE {})
     IN \/ Exists(s) /\ \E status \in failed : UpsertSession(s, [session[s] EXCEPT !.status = status])
        \/ ~Exists(s) /\ Keep
  /\ CASE op[p].cmd = "refile" -> Go(p, "reclaim")
       [] op[p].cmd = "resume" -> Go(p, "unclaim")
       [] OTHER -> End(p)
  /\ UNCHANGED run

RefileReclaim(p) ==
  /\ At(p, "reclaim")
  /\ LET s == op[p].s  i == op[p].i
     IN \/ ClaimCleanup(s, i) /\ Go(p, IF op[p].c # NoCheckout THEN "undo" ELSE "retain")
        \/ ~CanClaimCleanup(s, i) /\ Keep /\ End(p)
  /\ UNCHANGED run

RefileRetain(p) ==
  /\ At(p, "retain")
  /\ LET s == op[p].s  i == op[p].i
     IN AbortClaim(s, i, "cleanup_claimed") \/ (~CanSettle(s, i, "cleanup_claimed") /\ Keep)
  /\ End(p) /\ UNCHANGED run

-----------------------------------------------------------------------------
(* Resume (Message::ResumeSession) of a session that has an incarnation.        *)

ResumeStart(p, s) ==
  /\ Ready(p, "resume")
  /\ session[s].talk
  /\ ClaimStart(App, s, worker[s].id)
  /\ Set(p, [Begin(p, "resume", s, "kill_old") EXCEPT
               !.i = worker[s].id, !.k = next, !.row = [session[s] EXCEPT !.started = next]])
  /\ UNCHANGED run

KillOld(p) ==
  /\ At(p, "kill_old")
  /\ Kill(op[p].s) /\ Go(p, IF op[p].cmd = "resume" THEN "ensure" ELSE "launch") /\ Keep

(* relaunch_in_place: `ninox restart` of a live session, `ninox fleet restore`   *)
(* and the TUI's resume of an ended one.  It takes no runtime claim and does    *)
(* not tell the agent its incarnation.                                         *)
RelaunchStart(p, s) ==
  /\ Ready(p, "relaunch")
  /\ run[s].live \/ session[s].status \in {"terminated", "done"}
  /\ Exists(s) /\ Tick
  /\ Set(p, [Begin(p, "relaunch", s, "kill_old") EXCEPT !.row = [session[s] EXCEPT !.started = next]])
  /\ UNCHANGED run

-----------------------------------------------------------------------------
(* ninox finalize (finalize_owned_worker).                                      *)

FinalizeStart(p, s) ==
  /\ Ready(p, "finalize")
  /\ BeginFinalization(s)
  /\ LET begun == [Begin(p, "finalize", s, "stop") EXCEPT !.i = worker'[s].id]
     IN Set(p, IF fin'[s].done THEN [begun EXCEPT !.pc = "exit"] ELSE begun)
  /\ UNCHANGED run

FinalizeStop(p) ==
  /\ At(p, "stop") /\ op[p].cmd = "finalize"
  /\ StopOr(p, FALSE, "finish", End(p)) /\ Keep

FinalizeFinish(p) ==
  /\ At(p, "finish")
  /\ LET s == op[p].s  i == op[p].i
     IN CompleteFinalization(s, i) \/ (~CanCompleteFinalization(s, i) /\ Keep)
  /\ End(p) /\ UNCHANGED run

-----------------------------------------------------------------------------
(* ninox release (run_release).  The lock on the identity of the checkout keeps *)
(* a second release of it waiting; a release that died is taken up again.       *)

ReleaseStart(p, s) ==
  /\ Ready(p, "release")
  /\ Exists(s) /\ ~Claimed(s)
  /\ ~\E q \in Commands : Running(q) /\ op[q].cmd = "release" /\ op[q].s = s
  /\ \/ ClaimRelease(s, worker[s].id)
     \/ worker[s].state = "release_claimed" /\ Keep
  /\ Set(p, [Begin(p, "release", s, "stop") EXCEPT !.i = worker[s].id, !.l = worker[s].lease])
  /\ UNCHANGED run

ReleaseStop(p) ==
  /\ At(p, "stop") /\ op[p].cmd = "release"
  /\ StopOr(p, TRUE, "free", Go(p, "unrelease")) /\ Keep

(* release_retained_worker_checkout: nothing is left to free when the checkout  *)
(* is free already or gone.                                                    *)
ReleaseFree(p) ==
  /\ At(p, "free")
  /\ LET s == op[p].s  i == op[p].i  l == op[p].l
         ws == session[s].ws
         freed == LeasesOf(s) = {} /\ ws \in Checkouts /\ (Present(ws) => checkout[ws].state = "free")
     IN \/ freed /\ Keep /\ Go(p, "released")
        \/ LeasesOf(s) = {} /\ ~freed /\ Keep /\ Go(p, "unrelease")
        \/ \E c \in LeasesOf(s) :
             \/ ReleaseCheckout(s, i, l, c) /\ Go(p, "released")
             \/ "git" \in Faults /\ RemoveMissing(s, i, l, c) /\ Go(p, "released")
             \/ /\ ~CanReleaseCheckout(s, i, l, c) \/ "git" \in Faults
                /\ Keep /\ Go(p, "unrelease")
  /\ UNCHANGED run

ReleaseSettle(p) ==
  /\ LET s == op[p].s  i == op[p].i  can == CanSettle(s, i, "release_claimed")
     IN \/ At(p, "released") /\ CompleteClaim(s, i, "release_claimed")
        \/ At(p, "unrelease") /\ AbortClaim(s, i, "release_claimed")
        \/ op[p].pc \in {"released", "unrelease"} /\ ~can /\ Keep
  /\ End(p) /\ UNCHANGED run

-----------------------------------------------------------------------------
(* remove_session and cleanup_session: the same but for the row, which cleanup  *)
(* writes back as it read it, with status done.  Cleanup is for a merged PR     *)
(* whose session has no incarnation of its start time.                         *)

RemoveStart(p, kind, s) ==
  /\ Ready(p, kind) /\ kind \in {"remove", "cleanup"}
  /\ Exists(s) /\ (kind = "cleanup" => HasRun(s) /\ ~Current(s))
  /\ Set(p, [Begin(p, kind, s, "claim") EXCEPT !.row = session[s]])
  /\ Keep /\ UNCHANGED run

RemoveClaim(p) ==
  /\ At(p, "claim") /\ op[p].cmd \in {"remove", "cleanup"}
  /\ LET s == op[p].s  t == op[p].row.started
         gone == worker[s].state = "released" /\ worker[s].started = t
     IN \/ /\ ClaimSnapshot(s, t)
           /\ Set(p, [op[p] EXCEPT !.pc = "stop", !.i = worker'[s].id, !.l = worker'[s].lease,
                                   !.note = worker[s].state])
        \/ /\ ~CanClaimSnapshot(s, t)
           /\ \/ op[p].cmd = "remove" /\ gone /\ DeleteSession(s)
              \/ (op[p].cmd = "cleanup" \/ ~gone) /\ Keep
           /\ End(p)
  /\ UNCHANGED run

\* Mutant of RemoveStop: the agent is not stopped.
RemoveStopNothing(p) ==
  At(p, "stop") /\ op[p].cmd \in {"remove", "cleanup"} /\ Go(p, "detach") /\ Keep /\ UNCHANGED run

RemoveStop(p) ==
  /\ At(p, "stop") /\ op[p].cmd \in {"remove", "cleanup"}
  /\ StopOr(p, FALSE, "detach", Go(p, "unremove")) /\ Keep

RemoveAbort(p) ==
  /\ At(p, "unremove")
  /\ LET s == op[p].s  i == op[p].i  t == op[p].row.started
     IN \/ AbortSnapshot(s, i, t, op[p].note)
        \/ ~CanAbortSnapshot(s, i, t, op[p].note) /\ Keep
  /\ End(p) /\ UNCHANGED run

(* release_pooled_checkout: only the exact lease of the claimed incarnation.    *)
RemoveDetach(p) ==
  /\ At(p, "detach")
  /\ LET s == op[p].s  i == op[p].i  l == op[p].l
     IN \/ \E c \in LeasesOf(s) : Owns(s, i, l, c) /\ GiveBack(s, i, l, c)
        \/ ~(\E c \in LeasesOf(s) : Owns(s, i, l, c)) /\ Keep
  /\ Go(p, "record") /\ UNCHANGED run

\* Mutant of RemoveRecord: the row goes, what else the session had stays.
RemoveRowOnly(p) ==
  /\ At(p, "record")
  /\ UpsertSession(op[p].s, IF op[p].cmd = "remove" THEN NoRow ELSE [op[p].row EXCEPT !.status = "done"])
  /\ Go(p, "unclaim_row") /\ UNCHANGED run

RemoveRecord(p) ==
  /\ At(p, "record")
  /\ \/ op[p].cmd = "remove" /\ DeleteSession(op[p].s)
     \/ op[p].cmd = "cleanup" /\ UpsertSession(op[p].s, [op[p].row EXCEPT !.status = "done"])
  /\ Go(p, "unclaim_row") /\ UNCHANGED run

RemoveSettle(p) ==
  /\ At(p, "unclaim_row")
  /\ LET s == op[p].s  i == op[p].i
     IN CompleteClaim(s, i, "cleanup_claimed") \/ (~CanSettle(s, i, "cleanup_claimed") /\ Keep)
  /\ End(p) /\ UNCHANGED run

-----------------------------------------------------------------------------
(* Store::open, at the start of every process.  What to reclaim is read first,  *)
(* the locks are tried next, and only then does a transaction reclaim.          *)

OpenAdopt(p) ==
  /\ Ready(p, "open")
  /\ AdoptLeases
  /\ Set(p, Begin(p, "open", NoSession, "allocations"))
  /\ UNCHANGED run

OpenScan(p) ==
  /\ \/ At(p, "allocations")
        /\ Set(p, [op[p] EXCEPT !.pc = "try_allocations", !.dead = {}, !.left =
             {<<s, worker[s].id>> : s \in {r \in Sessions :
                                             worker[r].state = "allocating" /\ worker[r].token}}])
     \/ At(p, "claims")
        /\ Set(p, [op[p] EXCEPT !.pc = "try_claims", !.dead = {}, !.left =
             {<<s, claim[s].id>> : s \in {r \in Sessions : Claimed(r)}}])
  /\ Keep /\ UNCHANGED run

\* Mutants of OpenTryLock: every row is dead; only the locks of allocations are
\* tried; a row is visited again.
OpenTryNothing(p) ==
  /\ op[p].pc \in {"try_allocations", "try_claims"}
  /\ \E row \in op[p].left : Set(p, [op[p] EXCEPT !.left = @ \ {row}, !.dead = @ \cup {row}])
  /\ Keep /\ UNCHANGED run

OpenTryAllocations(p) ==
  /\ op[p].pc \in {"try_allocations", "try_claims"}
  /\ \E row \in op[p].left :
       Set(p, [op[p] EXCEPT !.left = @ \ {row},
                 !.dead = IF Locked(row[2]) \/ At(p, "try_claims") THEN @ ELSE @ \cup {row}])
  /\ Keep /\ UNCHANGED run

OpenTryAgain(p) ==
  /\ op[p].pc \in {"try_allocations", "try_claims"}
  /\ \E row \in op[p].left :
       Set(p, [op[p] EXCEPT !.dead = IF Locked(row[2]) THEN @ ELSE @ \cup {row}])
  /\ Keep /\ UNCHANGED run

OpenTryLock(p) ==
  /\ op[p].pc \in {"try_allocations", "try_claims"}
  /\ \E row \in op[p].left :
       Set(p, [op[p] EXCEPT !.left = @ \ {row}, !.dead = IF Locked(row[2]) THEN @ ELSE @ \cup {row}])
  /\ Keep /\ UNCHANGED run

OpenReclaimAllocations(p) ==
  /\ At(p, "try_allocations") /\ op[p].left = {}
  /\ ReclaimAllocations(op[p].dead)
  /\ Go(p, "claims") /\ UNCHANGED run

\* Dead claims are deleted one at a time.
OpenReclaimClaim(p) ==
  /\ At(p, "try_claims") /\ op[p].left = {}
  /\ \E row \in op[p].dead :
       ReclaimClaim(row[1], row[2]) /\ Set(p, [op[p] EXCEPT !.dead = @ \ {row}])
  /\ UNCHANGED run

OpenOrphans(p) ==
  /\ At(p, "try_claims") /\ op[p].left = {} /\ op[p].dead = {}
  /\ RemoveOrphans /\ End(p) /\ UNCHANGED run

-----------------------------------------------------------------------------
(* What else happens: an agent exits or reports that it is done, the poller     *)
(* notices a dead agent or a merged PR, a process crashes.                      *)

AgentExits(s) ==
  /\ "exit" \in Events /\ run[s].live
  /\ Kill(s) /\ Keep /\ UNCHANGED op

PollPid(s) ==
  /\ "poll" \in Events
  /\ session[s].status = "working" /\ session[s].pid /\ ~run[s].live
  /\ UpsertSession(s, [session[s] EXCEPT !.status = "terminated"])
  /\ UNCHANGED <<op, run>>

AgentReports(s) ==
  /\ "report" \in Events /\ run[s].live
  /\ CompleteIncarnation(s, run[s].inc)
  /\ UNCHANGED <<op, run>>

Merged(s) ==
  /\ "merge" \in Events /\ HasRun(s)
  /\ Retain(s, worker[s].id, session[s].started)
  /\ UNCHANGED <<op, run>>

\* Of a dead command only its kind is remembered.
Dead(p) == [Idle EXCEPT !.cmd = op[p].cmd, !.pc = "done"]

Crash(p) ==
  /\ "crash" \in Faults /\ Running(p) /\ ~IsApp(p)
  /\ DropLocks(p) /\ Set(p, Dead(p)) /\ UNCHANGED run

CrashApp ==
  /\ "crash" \in Faults /\ \E p \in Commands : Running(p) /\ IsApp(p)
  /\ DropLocks(App)
  /\ op' = [p \in Commands |-> IF Running(p) /\ IsApp(p) THEN Dead(p) ELSE op[p]]
  /\ UNCHANGED run

-----------------------------------------------------------------------------

Start(p) ==
  \/ OpenAdopt(p)
  \/ \E s \in Sessions :
       \/ SpawnInsert(p, s) \/ RefileStart(p, s) \/ ResumeStart(p, s) \/ RelaunchStart(p, s)
       \/ FinalizeStart(p, s) \/ ReleaseStart(p, s) \/ RemoveStart(p, "remove", s) \/ RemoveStart(p, "cleanup", s)

Step(p) ==
  \/ AcquireScan(p) \/ VisitProvisioning(p) \/ VisitQuarantined(p) \/ TakeCheckout(p) \/ Create(p)
  \/ Rollback(p) \/ Undo(p) \/ Settle(p) \/ Mark(p)
  \/ Launch(p) \/ CompleteLaunch(p) \/ Unclaim(p)
  \/ SpawnPrepare(p) \/ Unspawn(p) \/ SpawnWorkspace(p) \/ BindLease(p) \/ SpawnWorking(p) \/ SpawnClaim(p)
  \/ RefileStop(p) \/ RefilePrepare(p) \/ RefileFind(p) \/ RefileRehome(p) \/ Ensure(p)
  \/ LaunchedRow(p) \/ FailedRow(p) \/ RefileReclaim(p) \/ RefileRetain(p) \/ KillOld(p)
  \/ FinalizeStop(p) \/ FinalizeFinish(p)
  \/ ReleaseStop(p) \/ ReleaseFree(p) \/ ReleaseSettle(p)
  \/ RemoveClaim(p) \/ RemoveStop(p) \/ RemoveAbort(p) \/ RemoveDetach(p) \/ RemoveRecord(p) \/ RemoveSettle(p)
  \/ OpenScan(p) \/ OpenTryLock(p) \/ OpenReclaimAllocations(p) \/ OpenReclaimClaim(p) \/ OpenOrphans(p)
  \/ Exit(p)

Next ==
  \/ \E p \in Commands : Start(p) \/ Step(p) \/ Crash(p)
  \/ CrashApp
  \/ \E s \in Sessions : AgentExits(s) \/ PollPid(s) \/ AgentReports(s) \/ Merged(s)

Spec == Init /\ [][Next]_vars

\* A command in progress is a thread or a task that keeps being scheduled.
FairSpec == Spec /\ \A p \in Commands : WF_vars(Step(p))

-----------------------------------------------------------------------------
(* Properties.                                                                 *)

\* What a command can do next, note down and have seen.
Pcs == {"idle", "done", "exit", "prepare", "unspawn", "scan", "visit", "create", "workspace", "bind",
        "working", "claim", "launch", "complete", "unclaim", "rollback", "undo", "settle",
        "terminalize", "status", "stop", "find", "rehome", "ensure", "row", "failed", "reclaim",
        "retain", "kill_old", "finish", "free", "released", "unrelease", "detach", "unremove",
        "record", "unclaim_row", "allocations", "try_allocations", "claims", "try_claims"}
Notes == WorkerStates \cup {"new", "terminalize", "status"}
Seen == (Checkouts \X CheckoutRow) \cup (Sessions \X Numbers)

OpRec == [cmd : Kinds \cup {"none"}, pc : Pcs, s : Sessions \cup {NoSession},
          i : Numbers, k : Numbers, l : Numbers, c : Checkouts \cup {NoCheckout}, row : SessionRow,
          left : SUBSET Seen, dead : SUBSET (Sessions \X Numbers), note : Notes]
RunRow == [live : BOOLEAN, ran : BOOLEAN, inc : Numbers, ws : Checkouts \cup {NoCheckout}]

(* The tables are well typed, a command holds numbers, a checkout and rows of   *)
(* the tables, an agent runs in a pool checkout or outside the pool.           *)
OpsTypeOK == TypeOK /\ op \in [Commands -> OpRec] /\ run \in [Sessions -> RunRow]

Quiet == \A p \in Commands : ~Running(p)
InPool(s) == run[s].live /\ run[s].ws \in Checkouts
OwnsCheckout(s) ==
  InPool(s) => checkout[run[s].ws].state = "leased" /\ checkout[run[s].ws].session = s

(* The checkout a running agent works in is leased to the agent's session: no   *)
(* command frees, quarantines or re-leases it under the agent.                 *)
RuntimeOwnsCheckout == \A s \in Sessions : OwnsCheckout(s)

(* Spawn, finalize, release, remove and cleanup keep to the claims of the store: *)
(* as long as there are only these, none of them takes its checkout from a       *)
(* running agent or launches one in a checkout that is not its session's, but    *)
(* for a session that is merged or terminated: whoever has seen its reservation  *)
(* takes its lease for stale (VisitProvisioning).  A spawn launches its agent    *)
(* also when a finalization has terminated the session meanwhile.               *)
Claiming == {"spawn", "finalize", "release", "remove", "cleanup"}
ClaimsProtectCheckout ==
  [][(\A p \in Commands : op'[p].cmd \in Claiming \cup {"none"}) =>
       \A s \in Sessions :
         session[s].status \notin {"done", "terminated"} /\ OwnsCheckout(s) => OwnsCheckout(s)']_vars

(* What the commands do to the tables are transactions of WorkerStore with       *)
(* arguments its clients may use: what holds of StoreSpec holds here.           *)
StoreContract == StoreSpec

(* No two agents run in the same checkout.                                     *)
AgentsApart ==
  \A s, r \in Sessions : s # r /\ InPool(s) /\ InPool(r) => run[s].ws # run[r].ws

(* No more agents run in pool checkouts than the repository's cap allows.      *)
AgentsWithinCap == Cardinality({s \in Sessions : InPool(s)}) <= Cap

(* Once the commands have ended, a running agent can be found and stopped: its  *)
(* session has a row and its incarnation is the session's current one.         *)
LiveAgentKnown ==
  Quiet => \A s \in Sessions : run[s].live => Exists(s) /\ Is(s, run[s].inc)

(* Once the commands have ended, a Working row has an incarnation.             *)
WorkingHasWorker ==
  Quiet => \A s \in Sessions : session[s].status = "working" => HasWorker(s)

(* Rows and agents agree both ways once the commands have ended.               *)
RowsMatchAgents == LiveAgentKnown /\ WorkingHasWorker

(* Once the commands have ended, a leased checkout belongs to the incarnation   *)
(* its session has now, so that some command can give it back.                 *)
LeasedHasOwner ==
  Quiet => \A c \in Checkouts : checkout[c].state = "leased" =>
    /\ Is(checkout[c].session, checkout[c].owner)
    /\ worker[checkout[c].session].state # "released"

(* A runtime claim never leaks: a command in progress holds it, or its lock is  *)
(* free and the next Store::open deletes it.                                   *)
ClaimNeverLeaks ==
  \A s \in Sessions : Claimed(s) =>
    \/ ~Locked(claim[s].id)
    \/ \E p \in Commands : Running(p) /\ op[p].s = s /\ op[p].k = claim[s].id

(* A launch that succeeded completes: until then nobody takes its claim away,   *)
(* not a Store::open of another process, and nobody moves its incarnation on.  *)
LaunchCompletes ==
  \A p \in Commands : At(p, "complete") => CanCompleteStart(op[p].s, op[p].i, op[p].k)

(* A runtime claim is nobody else's and ends with its launch.                  *)
ClaimSettles == ClaimNeverLeaks /\ LaunchCompletes

(* Store::open leaves no allocation and no runtime claim of a dead process.     *)
RecoveredByOpen ==
  \A p \in Commands : op[p].cmd = "open" /\ At(p, "exit") =>
    \A s \in Sessions :
      /\ worker[s].state = "allocating" /\ worker[s].token => Locked(worker[s].id)
      /\ Claimed(s) => Locked(claim[s].id)

(* A session whose worker was released can be re-filed when the pool has room.  *)
HuskCanBeRefiled ==
  Quiet => \A s \in Sessions :
    Exists(s) /\ worker[s].state = "released" /\ CapacityUsed(s) < Cap => CanPrepare(s)

(* remove_session leaves no row of the session behind.                         *)
RemoveRemoves ==
  [][\A p \in Commands :
       op[p].cmd = "remove" /\ Running(p) /\ op'[p].pc = "done" => session'[op[p].s] = NoRow]_vars

(* Every command ends.                                                         *)
CommandsEnd == \A p \in Commands : Running(p) ~> ~Running(p)

(* An allocation is bound, released or deleted.                                *)
AllocationEnds ==
  \A s \in Sessions : worker[s].state = "allocating" ~> worker[s].state # "allocating"

(* Both: neither a command nor what it allocated hangs.                        *)
WorkEnds == CommandsEnd /\ AllocationEnds
=============================================================================
