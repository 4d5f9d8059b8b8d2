---------------------------- MODULE WorkerStore ----------------------------
(* The worker tables of ninox-core's SQLite store: `sessions`,                 *)
(* `worker_incarnations`, `worker_runtime_claims`, `worker_finalizations` and   *)
(* `pooled_checkouts`, with one operator for each transaction that the spawn,   *)
(* re-file, resume, finalize, release and remove commands run against them.     *)
(* A transaction runs under the store's mutex and BEGIN IMMEDIATE, so it is one *)
(* step.  `CanX` is the condition under which transaction X changes anything:   *)
(* when it does not hold, the code returns None, Ok(false) or an error and the  *)
(* tables keep their contents.                                                 *)
(*                                                                             *)
(* Incarnation ids, lease ids, claim ids and start times are numbers; `next` is *)
(* the first one not handed out yet, and 0 is NULL.  A lease is named by the    *)
(* incarnation that took it.  All workers share one repository.                 *)
EXTENDS Integers, FiniteSets

CONSTANTS
  Sessions,      \* session names
  Owned,         \* those with an orchestrator; the others are standalone
  Procs,         \* processes that open the store
  Checkouts,     \* paths of the repository's checkout pool
  NoSession,
  NoCheckout,
  Cap,           \* maximum checkout-backed workers of the repository
  Columns,       \* what clients write in a session's workspace, pid and conversation
  MaxGen         \* bound: numbers handed out in a behaviour

ASSUME CapAssumption == Cap \in Nat /\ MaxGen \in Nat
ASSUME ColumnsAssumption == Columns \subseteq (Checkouts \cup {NoCheckout}) \X BOOLEAN \X BOOLEAN
ASSUME NullAssumption == NoSession \notin Sessions /\ NoCheckout \notin Checkouts
ASSUME OwnedAssumption == Owned \subseteq Sessions

VARIABLES session, worker, claim, fin, checkout, lock, next

db == <<session, worker, claim, fin, checkout, lock, next>>

Numbers == 0..MaxGen
Statuses == {"none", "spawning", "working", "terminated", "done"}
Live == {"allocating", "active", "retained"}
Launchable == {"active", "retained"}
Claims == {"cleanup_claimed", "release_claimed"}
WorkerStates == Live \cup Claims \cup {"none", "released"}
Busy == {"provisioning", "leased"}
CheckoutStates == Busy \cup {"absent", "free", "quarantined"}

\* A workspace outside the pool is NoCheckout; of pid and claude_session_id only
\* the presence counts.
SessionRow == [status : Statuses, started : Numbers, ws : Checkouts \cup {NoCheckout},
               pid : BOOLEAN, talk : BOOLEAN]
WorkerRow == [state : WorkerStates, id : Numbers, started : Numbers,
              lease : Numbers, backed : BOOLEAN, token : BOOLEAN]
ClaimRow == [id : Numbers, inc : Numbers, prior : Launchable \cup {"none"}]
FinRow == [inc : Numbers, done : BOOLEAN]
CheckoutRow == [state : CheckoutStates, session : Sessions \cup {NoSession},
                owner : Numbers, lease : Numbers]

NoRow == [status |-> "none", started |-> 0, ws |-> NoCheckout, pid |-> FALSE, talk |-> FALSE]
NoWorker == [state |-> "none", id |-> 0, started |-> 0,
             lease |-> 0, backed |-> FALSE, token |-> FALSE]
NoClaim == [id |-> 0, inc |-> 0, prior |-> "none"]
NoFin == [inc |-> 0, done |-> FALSE]
Unused(state) == [state |-> state, session |-> NoSession, owner |-> 0, lease |-> 0]

(* The tables hold rows of these shapes, locks name numbers handed out.         *)
TypeOK ==
  /\ session \in [Sessions -> SessionRow]
  /\ worker \in [Sessions -> WorkerRow]
  /\ claim \in [Sessions -> ClaimRow]
  /\ fin \in [Sessions -> FinRow]
  /\ checkout \in [Checkouts -> CheckoutRow]
  /\ lock \subseteq Procs \X Numbers
  /\ next \in 1..(MaxGen + 1)

StoreInit ==
  /\ session = [s \in Sessions |-> NoRow]
  /\ worker = [s \in Sessions |-> NoWorker]
  /\ claim = [s \in Sessions |-> NoClaim]
  /\ fin = [s \in Sessions |-> NoFin]
  /\ checkout = [c \in Checkouts |-> Unused("absent")]
  /\ lock = {}
  /\ next = 1

-----------------------------------------------------------------------------
(* Conditions the transactions share.                                          *)

Exists(s) == session[s].status # "none"
HasWorker(s) == worker[s].state # "none"
Is(s, i) == HasWorker(s) /\ worker[s].id = i
Finalizing(s) == fin[s].inc # 0 /\ ~fin[s].done
FinalizingInc(s, i) == Finalizing(s) /\ fin[s].inc = i
Claimed(s) == claim[s].id # 0
ClaimedInc(s, i) == Claimed(s) /\ claim[s].inc = i

LeasesOf(s) == {c \in Checkouts : checkout[c].state \in Busy /\ checkout[c].session = s}
Exact(s, i, l) == \E c \in LeasesOf(s) : checkout[c].owner = i /\ checkout[c].lease = l
LeaseExact(s) == worker[s].lease # 0 => Exact(s, worker[s].id, worker[s].lease)

Locked(n) == \E p \in Procs : <<p, n>> \in lock
Unlocked(n) == {l \in lock : l[2] # n}
Fresh(k) == next + k - 1 <= MaxGen

(* worker_allocation_is_current                                                *)
Allocating(s, i) ==
  ~FinalizingInc(s, i) /\ (HasWorker(s) => Is(s, i) /\ worker[s].state = "allocating")

\* The allocator has nothing left to do for the incarnation.
Settled(s, state) == [worker[s] EXCEPT !.state = state, !.token = FALSE]
Move(s, state) == worker' = [worker EXCEPT ![s].state = state]

-----------------------------------------------------------------------------
(* Session rows.                                                               *)

\* Mutant of InsertSpawning: the row starts out as Working.
InsertSpawningWorking(s) ==
  /\ ~Exists(s)
  /\ Fresh(1)
  /\ session' = [session EXCEPT ![s] = [NoRow EXCEPT !.status = "working", !.started = next]]
  /\ next' = next + 1
  /\ UNCHANGED <<worker, claim, fin, checkout, lock>>

InsertSpawning(s) ==
  /\ ~Exists(s)
  /\ Fresh(1)
  /\ session' = [session EXCEPT ![s] = [NoRow EXCEPT !.status = "spawning", !.started = next]]
  /\ next' = next + 1
  /\ UNCHANGED <<worker, claim, fin, checkout, lock>>

UpsertSession(s, row) ==
  /\ session' = [session EXCEPT ![s] = row]
  /\ UNCHANGED <<worker, claim, fin, checkout, lock, next>>

CanUpdateSpawning(s, t) == session[s].status = "spawning" /\ session[s].started = t
UpdateSpawningWorkspace(s, t, c) ==
  CanUpdateSpawning(s, t) /\ UpsertSession(s, [session[s] EXCEPT !.ws = c])
TerminalizeSpawning(s, t, c) ==
  CanUpdateSpawning(s, t) /\ UpsertSession(s, [session[s] EXCEPT !.status = "terminated", !.ws = c])

CanUpdateStatus(s, t) == Exists(s) /\ session[s].started = t
UpdateStatus(s, t, status) ==
  CanUpdateStatus(s, t) /\ UpsertSession(s, [session[s] EXCEPT !.status = status])

(* With no incarnation named: only when the session has no unreleased worker.   *)
CanDeleteSpawning(s, t) ==
  /\ worker[s].state \in {"none", "released"}
  /\ session[s].started = t
  /\ session[s].status \in {"spawning", "terminated"}
DeleteSpawning(s, t) == CanDeleteSpawning(s, t) /\ UpsertSession(s, NoRow)

DeleteSession(s) ==
  /\ session' = [session EXCEPT ![s] = NoRow]
  /\ fin' = [fin EXCEPT ![s] = NoFin]
  /\ worker' = IF worker[s].state \in Claims \cup {"released"}
                 THEN [worker EXCEPT ![s] = NoWorker] ELSE worker
  /\ UNCHANGED <<claim, checkout, lock, next>>

-----------------------------------------------------------------------------
(* Incarnations.                                                               *)

(* The lease the session's previous incarnation leaves to the next one.         *)
Inherited(s) ==
  IF worker[s].lease # 0 THEN worker[s].lease
  ELSE IF \E c \in LeasesOf(s) : checkout[c].owner = worker[s].id
         THEN checkout[CHOOSE c \in LeasesOf(s) : checkout[c].owner = worker[s].id].lease
         ELSE 0
Kept(s) == IF HasWorker(s) THEN Inherited(s) ELSE 0
Counted(t) == worker[t].backed /\ worker[t].state # "released"
CapacityUsed(s) == Cardinality({t \in Sessions \ {s} : Counted(t)})

\* Mutant of CanPrepare: a re-file does not look for a runtime claim.
CanPrepareClaimed(s) ==
  /\ ~Finalizing(s)
  /\ worker[s].state \notin Claims \cup {"allocating"}
  /\ CapacityUsed(s) < Cap
  /\ Kept(s) # 0 => Exact(s, worker[s].id, Kept(s))

CanPrepare(s) ==
  /\ ~Claimed(s) /\ ~Finalizing(s)
  /\ worker[s].state \notin Claims \cup {"allocating"}
  /\ CapacityUsed(s) < Cap
  /\ Kept(s) # 0 => Exact(s, worker[s].id, Kept(s))

(* The new incarnation is `next`; it takes over the previous one's lease.       *)
Prepare(p, s, t) ==
  /\ CanPrepare(s)
  /\ Fresh(1)
  /\ LET kept == Kept(s)
     IN /\ worker' = [worker EXCEPT ![s] =
             [state |-> "allocating", id |-> next, started |-> t,
              lease |-> kept, backed |-> TRUE, token |-> TRUE]]
        /\ checkout' = [c \in Checkouts |->
             IF kept # 0 /\ c \in LeasesOf(s) /\ checkout[c].owner = worker[s].id
                          /\ checkout[c].lease = kept
               THEN [checkout[c] EXCEPT !.owner = next] ELSE checkout[c]]
  /\ session' = IF Exists(s) THEN [session EXCEPT ![s].started = t] ELSE session
  /\ lock' = lock \cup {<<p, next>>}
  /\ next' = next + 1
  /\ UNCHANGED <<claim, fin>>

CanBind(s, i) == Is(s, i) /\ worker[s].state = "allocating" /\ ~FinalizingInc(s, i)
Bind(s, i, l) ==
  /\ CanBind(s, i)
  /\ worker' = [worker EXCEPT ![s] = [Settled(s, "active") EXCEPT !.lease = l]]
  /\ lock' = Unlocked(i)
  /\ UNCHANGED <<session, claim, fin, checkout, next>>

CanCompleteIncarnation(s, i) ==
  /\ Is(s, i) /\ worker[s].state \in Launchable
  /\ Exists(s) /\ s \in Owned
  /\ ~ClaimedInc(s, i) /\ ~FinalizingInc(s, i)
CompleteIncarnation(s, i) ==
  /\ CanCompleteIncarnation(s, i)
  /\ worker' = [worker EXCEPT ![s] = Settled(s, "retained")]
  /\ lock' = Unlocked(i)
  /\ UNCHANGED <<session, claim, fin, checkout, next>>

(* The merge poller keeps the worker for validation and closes its session.     *)
CanRetain(s, i, t) ==
  /\ Is(s, i) /\ worker[s].started = t /\ worker[s].state \in Launchable
  /\ ~ClaimedInc(s, i)
  /\ Exists(s) /\ session[s].started = t /\ session[s].status # "done"
Retain(s, i, t) ==
  /\ CanRetain(s, i, t)
  /\ Move(s, "retained")
  /\ session' = [session EXCEPT ![s].status = "done"]
  /\ UNCHANGED <<claim, fin, checkout, lock, next>>

-----------------------------------------------------------------------------
(* Adoption of a session that has no incarnation row.                           *)

Adopted(s, state) ==
  LET leases == LeasesOf(s)
      c == CHOOSE c \in leases : TRUE
  IN [state |-> state, started |-> session[s].started, token |-> FALSE,
      id |-> IF leases = {} THEN next ELSE checkout[c].owner,
      lease |-> IF leases = {} THEN 0 ELSE checkout[c].lease,
      backed |-> leases # {}]
AdoptNumbers(s) == IF LeasesOf(s) = {} THEN 1 ELSE 0
CanAdopt(s) == Exists(s) /\ ~HasWorker(s) /\ Fresh(AdoptNumbers(s))

-----------------------------------------------------------------------------
(* Finalization.                                                               *)

FinalState(s) ==
  CASE session[s].status = "spawning" -> "allocating"
    [] session[s].status = "done" -> "retained"
    [] OTHER -> "active"
ToFinalize(s) == IF HasWorker(s) THEN worker[s] ELSE Adopted(s, FinalState(s))

CanBeginFinalization(s) ==
  /\ Exists(s) /\ s \in Owned
  /\ HasWorker(s) \/ CanAdopt(s)
  /\ ToFinalize(s).state \in Live
  /\ \/ fin[s].inc = ToFinalize(s).id
     \/ ~Finalizing(s) /\ ~ClaimedInc(s, ToFinalize(s).id)
BeginFinalization(s) ==
  /\ CanBeginFinalization(s)
  /\ worker' = [worker EXCEPT ![s] = ToFinalize(s)]
  /\ next' = IF HasWorker(s) THEN next ELSE next + AdoptNumbers(s)
  /\ fin' = IF fin[s].inc = ToFinalize(s).id THEN fin
            ELSE [fin EXCEPT ![s] = [inc |-> ToFinalize(s).id, done |-> FALSE]]
  /\ UNCHANGED <<session, claim, checkout, lock>>

CanCompleteFinalization(s, i) ==
  /\ Is(s, i) /\ worker[s].state \in Live
  /\ FinalizingInc(s, i) /\ ~ClaimedInc(s, i)
  /\ Exists(s) /\ session[s].started = worker[s].started
CompleteFinalization(s, i) ==
  /\ CanCompleteFinalization(s, i)
  /\ session' = [session EXCEPT ![s].status = IF @ = "done" THEN "done" ELSE "terminated"]
  /\ worker' = [worker EXCEPT ![s] = Settled(s, "retained")]
  /\ fin' = [fin EXCEPT ![s].done = TRUE]
  /\ lock' = Unlocked(i)
  /\ UNCHANGED <<claim, checkout, next>>

-----------------------------------------------------------------------------
(* Runtime claims: held from before a launch until it is complete.             *)

\* Mutant of CanClaimStart: any live incarnation, the allocating one too.
CanClaimStartLive(s, i) ==
  ~FinalizingInc(s, i) /\ Is(s, i) /\ worker[s].state \in Live /\ LeaseExact(s) /\ ~Claimed(s)

CanClaimStart(s, i) ==
  /\ ~FinalizingInc(s, i)
  /\ Is(s, i) /\ worker[s].state \in Launchable
  /\ LeaseExact(s)
  /\ ~Claimed(s)
ClaimStart(p, s, i) ==
  /\ CanClaimStart(s, i)
  /\ Fresh(1)
  /\ claim' = [claim EXCEPT ![s] = [id |-> next, inc |-> i, prior |-> worker[s].state]]
  /\ lock' = lock \cup {<<p, next>>}
  /\ next' = next + 1
  /\ UNCHANGED <<session, worker, fin, checkout>>

CanCompleteStart(s, i, k) ==
  /\ Claimed(s) /\ claim[s].id = k /\ claim[s].inc = i
  /\ Is(s, i) /\ worker[s].state = claim[s].prior
CompleteStart(s, i, k) ==
  /\ CanCompleteStart(s, i, k)
  /\ Move(s, "active")
  /\ claim' = [claim EXCEPT ![s] = NoClaim]
  /\ lock' = Unlocked(k)
  /\ UNCHANGED <<session, fin, checkout, next>>

CanAbortStart(s, i, k) == Claimed(s) /\ claim[s].id = k /\ claim[s].inc = i
AbortStart(s, i, k) ==
  /\ CanAbortStart(s, i, k)
  /\ claim' = [claim EXCEPT ![s] = NoClaim]
  /\ lock' = Unlocked(k)
  /\ UNCHANGED <<session, worker, fin, checkout, next>>

-----------------------------------------------------------------------------
(* Resource claims: cleanup and release.                                       *)

CanClaimState(s, i, from) ==
  /\ ~ClaimedInc(s, i) /\ ~FinalizingInc(s, i)
  /\ Is(s, i) /\ worker[s].state \in from
  /\ LeaseExact(s)
ClaimState(s, i, from, target) ==
  /\ CanClaimState(s, i, from)
  /\ Move(s, target)
  /\ UNCHANGED <<session, claim, fin, checkout, lock, next>>

CanClaimCleanup(s, i) == CanClaimState(s, i, Live)
ClaimCleanup(s, i) == ClaimState(s, i, Live, "cleanup_claimed")
CanClaimRelease(s, i) == CanClaimState(s, i, {"retained"})
ClaimRelease(s, i) == ClaimState(s, i, {"retained"}, "release_claimed")

CanClaimWithLease(s, i, l) ==
  /\ Exact(s, i, l)
  /\ Is(s, i) /\ worker[s].state \in Live
  /\ worker[s].lease \in {0, l}
  /\ ~FinalizingInc(s, i) /\ ~ClaimedInc(s, i)
ClaimWithLease(s, i, l) ==
  /\ CanClaimWithLease(s, i, l)
  /\ worker' = [worker EXCEPT ![s] = [@ EXCEPT !.state = "cleanup_claimed", !.lease = l]]
  /\ UNCHANGED <<session, claim, fin, checkout, lock, next>>

(* claim_worker_cleanup_snapshot: the caller knows only when the session it     *)
(* looked at was started.                                                      *)
\* Mutant of CanClaimSnapshot: a launch in progress is not looked for.
CanClaimSnapshotClaimed(s, t) ==
  /\ ~Finalizing(s)
  /\ \/ HasWorker(s) /\ worker[s].started = t /\ worker[s].state \in Live /\ LeaseExact(s)
     \/ CanAdopt(s) /\ session[s].started = t

CanClaimSnapshot(s, t) ==
  /\ ~Claimed(s) /\ ~Finalizing(s)
  /\ \/ HasWorker(s) /\ worker[s].started = t /\ worker[s].state \in Live /\ LeaseExact(s)
     \/ CanAdopt(s) /\ session[s].started = t
ClaimSnapshot(s, t) ==
  /\ CanClaimSnapshot(s, t)
  /\ worker' = [worker EXCEPT ![s] =
       IF HasWorker(s) THEN [worker[s] EXCEPT !.state = "cleanup_claimed"]
       ELSE Adopted(s, "cleanup_claimed")]
  /\ next' = IF HasWorker(s) THEN next ELSE next + AdoptNumbers(s)
  /\ UNCHANGED <<session, claim, fin, checkout, lock>>

(* `prior` is the state before the claim, "none" when the row was adopted.      *)
CanAbortSnapshot(s, i, t, prior) ==
  /\ Is(s, i) /\ worker[s].state = "cleanup_claimed"
  /\ Exists(s) /\ session[s].started = t
  /\ prior = "none" => ~Claimed(s) /\ ~Finalizing(s)
AbortSnapshot(s, i, t, prior) ==
  /\ CanAbortSnapshot(s, i, t, prior)
  /\ worker' = [worker EXCEPT ![s] =
       IF prior = "none" THEN NoWorker ELSE [worker[s] EXCEPT !.state = prior]]
  /\ UNCHANGED <<session, claim, fin, checkout, lock, next>>

CanSettle(s, i, claimed) == Is(s, i) /\ worker[s].state = claimed
AbortClaim(s, i, claimed) ==
  /\ CanSettle(s, i, claimed)
  /\ Move(s, "retained")
  /\ UNCHANGED <<session, claim, fin, checkout, lock, next>>
CompleteClaim(s, i, claimed) ==
  /\ CanSettle(s, i, claimed)
  /\ worker' = [worker EXCEPT ![s] = Settled(s, "released")]
  /\ lock' = Unlocked(i)
  /\ UNCHANGED <<session, claim, fin, checkout, next>>

-----------------------------------------------------------------------------
(* The checkout pool.                                                          *)

SetCheckout(c, row) ==
  checkout' = [checkout EXCEPT ![c] = row] /\ UNCHANGED <<session, worker, claim, fin, lock, next>>

(* The unique index allows one provisioning or leased checkout per session.     *)
CanTake(s, i, c, from) == Allocating(s, i) /\ LeasesOf(s) = {} /\ checkout[c].state = from
Take(s, i, c, from) ==
  /\ CanTake(s, i, c, from)
  /\ SetCheckout(c, [state |-> "provisioning", session |-> s, owner |-> i, lease |-> i])
ClaimFree(s, i, c) == Take(s, i, c, "free")
Reserve(s, i, c) == Take(s, i, c, "absent")

Owns(s, i, l, c) == checkout[c].session = s /\ checkout[c].owner = i /\ checkout[c].lease = l

CanFinalizeCheckout(s, i, l, c) ==
  checkout[c].state = "provisioning" /\ Owns(s, i, l, c) /\ Allocating(s, i)
FinalizeCheckout(s, i, l, c) ==
  CanFinalizeCheckout(s, i, l, c) /\ SetCheckout(c, [checkout[c] EXCEPT !.state = "leased"])

CanReleaseCheckout(s, i, l, c) == checkout[c].state = "leased" /\ Owns(s, i, l, c)
ReleaseCheckout(s, i, l, c) == CanReleaseCheckout(s, i, l, c) /\ SetCheckout(c, Unused("free"))

CanQuarantine(s, i, l, c) == checkout[c].state \in Busy /\ Owns(s, i, l, c)
Quarantine(s, i, l, c) == CanQuarantine(s, i, l, c) /\ SetCheckout(c, Unused("quarantined"))
RemoveMissing(s, i, l, c) == CanQuarantine(s, i, l, c) /\ SetCheckout(c, Unused("absent"))

RemoveFailed(s, i, l, c) ==
  checkout[c].state = "provisioning" /\ RemoveMissing(s, i, l, c)

RecoverQuarantined(c) == checkout[c].state = "quarantined" /\ SetCheckout(c, Unused("free"))
RemoveQuarantined(c) == checkout[c].state = "quarantined" /\ SetCheckout(c, Unused("absent"))

-----------------------------------------------------------------------------
(* Store::open.  The scans that choose what to reclaim are not part of these    *)
(* transactions: each runs before its own, outside it.                         *)

AdoptLeases ==
  /\ worker' = [s \in Sessions |->
       IF ~HasWorker(s) /\ Exists(s) /\ LeasesOf(s) # {}
         THEN Adopted(s, IF session[s].status = "done" THEN "retained" ELSE "active")
         ELSE worker[s]]
  /\ UNCHANGED <<session, claim, fin, checkout, lock, next>>

\* `dead` holds pairs of a session and an incarnation whose allocator is gone.
ReclaimAllocations(dead) ==
  /\ checkout' = [c \in Checkouts |->
       IF checkout[c].state \in Busy /\ <<checkout[c].session, checkout[c].owner>> \in dead
         THEN Unused("quarantined") ELSE checkout[c]]
  /\ worker' = [s \in Sessions |->
       IF worker[s].state = "allocating" /\ <<s, worker[s].id>> \in dead
         THEN Settled(s, "released") ELSE worker[s]]
  /\ session' = [s \in Sessions |->
       IF /\ HasWorker(s) /\ <<s, worker[s].id>> \in dead
          /\ session[s].status = "spawning" /\ session[s].started = worker[s].started
         THEN [session[s] EXCEPT !.status = "terminated"] ELSE session[s]]
  /\ lock' = {l \in lock : \A d \in dead : l[2] # d[2]}
  /\ UNCHANGED <<claim, fin, next>>

ReclaimClaim(s, k) ==
  /\ claim' = IF claim[s].id = k THEN [claim EXCEPT ![s] = NoClaim] ELSE claim
  /\ lock' = Unlocked(k)
  /\ UNCHANGED <<session, worker, fin, checkout, next>>

RemoveOrphans ==
  /\ session' = [s \in Sessions |->
       CASE session[s].status = "working" /\ ~session[s].pid /\ worker[s].state = "released"
              /\ worker[s].started = session[s].started -> [session[s] EXCEPT !.status = "terminated"]
         [] session[s].status = "spawning" /\ s \notin Owned
              /\ worker[s].state \in {"none", "released"} -> NoRow
         [] OTHER -> session[s]]
  /\ UNCHANGED <<worker, claim, fin, checkout, lock, next>>

(* A client takes a start time of its own, outside any transaction.             *)
Tick == Fresh(1) /\ next' = next + 1 /\ UNCHANGED <<session, worker, claim, fin, checkout, lock>>

(* A process that exits or crashes loses its file locks.                        *)
DropLocks(p) ==
  /\ lock' = {l \in lock : l[1] # p}
  /\ UNCHANGED <<session, worker, claim, fin, checkout, next>>

-----------------------------------------------------------------------------
(* The store under any clients: every transaction, with every argument a        *)
(* client could hold, in any order.                                            *)

IncarnationNext(s, i) ==
  \/ \E l \in 0..(next - 1) : Bind(s, i, l) \/ ClaimWithLease(s, i, l)
  \/ CompleteIncarnation(s, i)
  \/ \E t \in 1..(next - 1) : Retain(s, i, t)
  \/ CompleteFinalization(s, i)
  \/ \E p \in Procs : ClaimStart(p, s, i)
  \/ \E k \in 1..(next - 1) : CompleteStart(s, i, k) \/ AbortStart(s, i, k)
  \/ ClaimCleanup(s, i) \/ ClaimRelease(s, i)
  \/ \E t \in 1..(next - 1), prior \in Live \cup {"none"} : AbortSnapshot(s, i, t, prior)
  \/ \E claimed \in Claims : AbortClaim(s, i, claimed) \/ CompleteClaim(s, i, claimed)
  \/ ReclaimClaim(s, i)

SessionNext(s) ==
  \/ InsertSpawning(s)
  \/ \E status \in Statuses \ {"none"}, t \in 1..(next - 1), column \in Columns :
       UpsertSession(s, [status |-> status, started |-> t, ws |-> column[1],
                         pid |-> column[2], talk |-> column[3]])
  \/ \E t \in 1..(next - 1), column \in Columns : TerminalizeSpawning(s, t, column[1])
  \/ \E t \in 1..(next - 1) : DeleteSpawning(s, t) \/ ClaimSnapshot(s, t)
  \/ \E t \in 1..(next - 1), status \in Statuses \ {"none"} : UpdateStatus(s, t, status)
  \/ \E t \in 1..(next - 1), c \in Checkouts : UpdateSpawningWorkspace(s, t, c)
  \/ DeleteSession(s)
  \/ \E p \in Procs, t \in 1..next : Prepare(p, s, t)
  \/ BeginFinalization(s)

PoolNext(s, c) ==
  \/ \E i \in 1..(next - 1) : ClaimFree(s, i, c) \/ Reserve(s, i, c)
  \/ \E i \in 1..(next - 1), l \in 1..(next - 1) :
       \/ FinalizeCheckout(s, i, l, c) \/ ReleaseCheckout(s, i, l, c)
       \/ Quarantine(s, i, l, c) \/ RemoveMissing(s, i, l, c) \/ RemoveFailed(s, i, l, c)

StoreNext ==
  \/ \E s \in Sessions : SessionNext(s) \/ \E i \in 1..(next - 1) : IncarnationNext(s, i)
  \/ \E s \in Sessions, c \in Checkouts : PoolNext(s, c)
  \/ \E c \in Checkouts : RecoverQuarantined(c) \/ RemoveQuarantined(c)
  \/ AdoptLeases \/ RemoveOrphans \/ Tick
  \/ \E p \in Procs : DropLocks(p)
  \/ \E dead \in SUBSET (Sessions \X (1..(next - 1))) : ReclaimAllocations(dead)

StoreSpec == StoreInit /\ [][StoreNext]_db

-----------------------------------------------------------------------------
(* While a launch holds the runtime claim of a session, the session's current   *)
(* incarnation is the one being launched, it is still in the state the launch   *)
(* found it in, and no finalization of it is pending: the claim keeps release,  *)
(* cleanup, finalize and re-file out until the launch completes or aborts.       *)
ClaimExclusive ==
  \A s \in Sessions : Claimed(s) =>
    /\ Is(s, claim[s].inc)
    /\ worker[s].state = claim[s].prior
    /\ ~FinalizingInc(s, claim[s].inc)
=============================================================================
