------------------------ MODULE WorkerOps_proofs ------------------------
(* Theorems about WorkerStore and WorkerOps, for every set of sessions,        *)
(* commands and checkouts, every capacity and every bound: what the tables     *)
(* promise to any clients, that the commands are such clients, what the        *)
(* commands make of the runtime claims and, where they run one after the other, *)
(* what a Store::open reclaims and what agents keep of checkouts and rows.      *)
EXTENDS WorkerOps, FiniteSetTheorems, TLAPS

(* A claim records the state the launch found, which is one it may launch.   *)
Launching == \A s \in Sessions : Claimed(s) => claim[s].prior \in Launchable
ClaimInv == Launching /\ ClaimExclusive

USE CapAssumption, ColumnsAssumption, NullAssumption, OwnedAssumption

-----------------------------------------------------------------------------
(* Type correctness.                                                        *)

LEMMA NumbersHandedOut ==
  ASSUME TypeOK PROVE next \in Nat /\ 1..(next - 1) \subseteq Numbers /\ 0..(next - 1) \subseteq Numbers
  BY DEF TypeOK, Numbers

LEMMA FreshIsNumber == ASSUME TypeOK, Fresh(1) PROVE next \in Numbers /\ next + 1 \in 1..(MaxGen + 1)
  BY DEF TypeOK, Numbers, Fresh

LEMMA InitTypeOK == StoreInit => TypeOK
  BY DEF StoreInit, TypeOK, Numbers, SessionRow, WorkerRow, ClaimRow, FinRow, CheckoutRow, Unused,
         NoRow, NoWorker, NoClaim, NoFin, Statuses, WorkerStates, CheckoutStates

LEMMA UnlockedTypeOK == ASSUME TypeOK, NEW n PROVE Unlocked(n) \subseteq Procs \X Numbers
  BY DEF TypeOK, Unlocked

LEMMA RowUpdates ==
  ASSUME NEW r \in WorkerRow, NEW state \in WorkerStates, NEW l \in Numbers
  PROVE  /\ [r EXCEPT !.state = state, !.token = FALSE] \in WorkerRow
         /\ [r EXCEPT !.state = state, !.lease = l] \in WorkerRow
         /\ [r EXCEPT !.lease = l] \in WorkerRow
<1>1. [r EXCEPT !.state = state, !.token = FALSE] \in WorkerRow BY Zenon DEF WorkerRow
<1>2. [r EXCEPT !.state = state, !.lease = l] \in WorkerRow BY Zenon DEF WorkerRow
<1>3. [r EXCEPT !.lease = l] \in WorkerRow BY DEF WorkerRow
<1> QED BY <1>1, <1>2, <1>3

LEMMA RowColumns ==
  ASSUME NEW r \in SessionRow, NEW c \in Checkouts \cup {NoCheckout}
  PROVE  [r EXCEPT !.status = "terminated", !.ws = c] \in SessionRow
<1>1. "terminated" \in Statuses BY DEF Statuses
<1> QED BY <1>1, Zenon DEF SessionRow

LEMMA AdoptedType ==
  ASSUME TypeOK, NEW s \in Sessions, CanAdopt(s), NEW state \in WorkerStates
  PROVE  /\ Adopted(s, state) \in WorkerRow
         /\ next + AdoptNumbers(s) \in 1..(MaxGen + 1)
<1>1. CASE LeasesOf(s) = {}
  BY <1>1 DEF TypeOK, CanAdopt, AdoptNumbers, Fresh, Adopted, WorkerRow, Numbers, SessionRow
<1>2. CASE LeasesOf(s) # {}
  <2> DEFINE c == CHOOSE c \in LeasesOf(s) : TRUE
  <2>1. c \in Checkouts BY <1>2 DEF LeasesOf
  <2>2. checkout[c].owner \in Numbers /\ checkout[c].lease \in Numbers
    BY <2>1 DEF TypeOK, CheckoutRow
  <2> QED BY <1>2, <2>2 DEF TypeOK, CanAdopt, AdoptNumbers, Fresh, Adopted, WorkerRow, SessionRow
<1> QED BY <1>1, <1>2

LEMMA SessionTypeOK ==
  ASSUME TypeOK, NEW s \in Sessions, SessionNext(s) PROVE TypeOK'
<1> USE DEF TypeOK
<1>1. CASE InsertSpawning(s)
  BY <1>1, FreshIsNumber DEF InsertSpawning, NoRow, SessionRow, Statuses
<1>2. ASSUME NEW status \in Statuses \ {"none"}, NEW t \in 1..(next - 1), NEW column \in Columns,
             UpsertSession(s, [status |-> status, started |-> t, ws |-> column[1],
                               pid |-> column[2], talk |-> column[3]])
      PROVE  TypeOK'
  BY <1>2, NumbersHandedOut DEF UpsertSession, SessionRow
<1>3. ASSUME NEW t \in 1..(next - 1), NEW column \in Columns, TerminalizeSpawning(s, t, column[1])
      PROVE  TypeOK'
  <2>1. column[1] \in Checkouts \cup {NoCheckout} OBVIOUS
  <2>2. [session[s] EXCEPT !.status = "terminated", !.ws = column[1]] \in SessionRow
    <3>1. session[s] \in SessionRow OBVIOUS
    <3> QED BY <2>1, <3>1, RowColumns
  <2> QED BY <1>3, <2>2 DEF TerminalizeSpawning, UpsertSession
<1>4. ASSUME NEW t \in 1..(next - 1), DeleteSpawning(s, t) PROVE TypeOK'
  BY <1>4, NumbersHandedOut DEF DeleteSpawning, UpsertSession, SessionRow, Statuses, NoRow, Numbers
<1>5. ASSUME NEW t \in 1..(next - 1), ClaimSnapshot(s, t) PROVE TypeOK'
  <2>1. CASE HasWorker(s)
    BY <1>5, <2>1 DEF ClaimSnapshot, WorkerRow, WorkerStates, Claims
  <2>2. CASE ~HasWorker(s)
    <3>1. CanAdopt(s) BY <1>5, <2>2 DEF ClaimSnapshot, CanClaimSnapshot
    <3> QED BY <1>5, <2>2, <3>1, AdoptedType DEF ClaimSnapshot, WorkerStates, Claims
  <2> QED BY <2>1, <2>2
<1>6. ASSUME NEW t \in 1..(next - 1), NEW status \in Statuses \ {"none"}, UpdateStatus(s, t, status)
      PROVE  TypeOK'
  <2>1. [session[s] EXCEPT !.status = status] \in SessionRow BY DEF SessionRow
  <2> QED BY <1>6, <2>1 DEF UpdateStatus, UpsertSession
<1>7. ASSUME NEW t \in 1..(next - 1), NEW c \in Checkouts, UpdateSpawningWorkspace(s, t, c)
      PROVE  TypeOK'
  BY <1>7 DEF UpdateSpawningWorkspace, UpsertSession, SessionRow
<1>8. CASE DeleteSession(s)
  BY <1>8 DEF DeleteSession, SessionRow, FinRow, WorkerRow, NoRow, NoFin, NoWorker, Statuses,
              WorkerStates, Numbers
<1>9. ASSUME NEW p \in Procs, NEW t \in 1..next, Prepare(p, s, t) PROVE TypeOK'
  <2>1. t \in Numbers /\ next \in Numbers /\ next + 1 \in 1..(MaxGen + 1)
    BY <1>9, FreshIsNumber DEF Prepare, Numbers
  <2>2. Kept(s) \in Numbers
    <3>1. CASE worker[s].lease # 0 BY <3>1 DEF Kept, Inherited, WorkerRow, Numbers
    <3>2. CASE worker[s].lease = 0 /\ \E c \in LeasesOf(s) : checkout[c].owner = worker[s].id
      <4> DEFINE c == CHOOSE c \in LeasesOf(s) : checkout[c].owner = worker[s].id
      <4>1. c \in Checkouts BY <3>2 DEF LeasesOf
      <4> QED BY <3>2, <4>1 DEF Kept, Inherited, CheckoutRow, Numbers
    <3> QED BY <3>1, <3>2 DEF Kept, Inherited, Numbers
  <2>3. worker' \in [Sessions -> WorkerRow]
    BY <1>9, <2>1, <2>2 DEF Prepare, WorkerRow, WorkerStates, Live, Numbers
  <2>4. checkout' \in [Checkouts -> CheckoutRow]
    BY <1>9, <2>1 DEF Prepare, CheckoutRow
  <2>5. session' \in [Sessions -> SessionRow]
    <3>1. ASSUME NEW r \in SessionRow, NEW n \in Numbers PROVE [r EXCEPT !.started = n] \in SessionRow
      BY <3>1, Zenon DEF SessionRow
    <3> QED BY <1>9, <2>1, <3>1 DEF Prepare
  <2>6. lock' \subseteq Procs \X Numbers
    BY <1>9, <2>1 DEF Prepare
  <2> QED BY <1>9, <2>1, <2>3, <2>4, <2>5, <2>6 DEF Prepare
<1>10. CASE BeginFinalization(s)
  <2>1. ToFinalize(s) \in WorkerRow /\ worker' \in [Sessions -> WorkerRow]
    <3>1. CASE HasWorker(s) BY <3>1, <1>10 DEF BeginFinalization, ToFinalize
    <3>2. CASE ~HasWorker(s)
      <4>1. CanAdopt(s) BY <3>2, <1>10 DEF BeginFinalization, CanBeginFinalization
      <4>2. FinalState(s) \in WorkerStates BY DEF FinalState, WorkerStates, Live
      <4> QED BY <3>2, <4>1, <4>2, <1>10, AdoptedType DEF BeginFinalization, ToFinalize
    <3> QED BY <3>1, <3>2
  <2>2. next' \in 1..(MaxGen + 1)
    <3>1. CASE HasWorker(s) BY <3>1, <1>10 DEF BeginFinalization
    <3>2. CASE ~HasWorker(s)
      <4>1. CanAdopt(s) BY <3>2, <1>10 DEF BeginFinalization, CanBeginFinalization
      <4> QED BY <3>2, <4>1, <1>10, AdoptedType DEF BeginFinalization, WorkerStates
    <3> QED BY <3>1, <3>2
  <2>3. fin' \in [Sessions -> FinRow]
    BY <2>1, <1>10 DEF BeginFinalization, FinRow, WorkerRow
  <2> QED BY <2>1, <2>2, <2>3, <1>10 DEF BeginFinalization
<1> QED BY <1>1, <1>2, <1>3, <1>4, <1>5, <1>6, <1>7, <1>8, <1>9, <1>10 DEF SessionNext

LEMMA IncarnationTypeOK ==
  ASSUME TypeOK, NEW s \in Sessions, NEW i \in 1..(next - 1), IncarnationNext(s, i) PROVE TypeOK'
<1>n. 1..(next - 1) \subseteq Numbers /\ 0..(next - 1) \subseteq Numbers
  BY NumbersHandedOut
<1>k. \A n : Unlocked(n) \subseteq Procs \X Numbers
  BY UnlockedTypeOK
<1>w. ASSUME NEW state \in WorkerStates, NEW l \in Numbers
      PROVE  /\ Settled(s, state) \in WorkerRow
             /\ [worker[s] EXCEPT !.state = state, !.lease = l] \in WorkerRow
             /\ [Settled(s, state) EXCEPT !.lease = l] \in WorkerRow
  BY RowUpdates DEF TypeOK, Settled
<1>z. 0 \in Numbers BY DEF Numbers
<1> USE DEF TypeOK, Live, Claims, Launchable
<1>1. ASSUME NEW l \in 0..(next - 1), Bind(s, i, l) PROVE TypeOK'
  <2>1. worker' \in [Sessions -> WorkerRow] BY <1>1, <1>n, <1>w, <1>z DEF Bind, WorkerStates
  <2> QED BY <1>1, <1>k, <2>1 DEF Bind
<1>2. ASSUME NEW l \in 0..(next - 1), ClaimWithLease(s, i, l) PROVE TypeOK'
  <2>1. worker' \in [Sessions -> WorkerRow] BY <1>2, <1>n, <1>w DEF ClaimWithLease, WorkerStates
  <2> QED BY <1>2, <2>1 DEF ClaimWithLease
<1>3. CASE CompleteIncarnation(s, i)
  <2>1. worker' \in [Sessions -> WorkerRow] BY <1>3, <1>w, <1>z DEF CompleteIncarnation, WorkerStates
  <2> QED BY <1>3, <1>k, <2>1 DEF CompleteIncarnation
<1>4. ASSUME NEW t \in 1..(next - 1), Retain(s, i, t) PROVE TypeOK'
  <2>1. worker' \in [Sessions -> WorkerRow] BY <1>4 DEF Retain, Move, WorkerRow, WorkerStates
  <2>2. session' \in [Sessions -> SessionRow] BY <1>4 DEF Retain, SessionRow, Statuses
  <2> QED BY <1>4, <2>1, <2>2 DEF Retain
<1>5. CASE CompleteFinalization(s, i)
  <2>1. worker' \in [Sessions -> WorkerRow] BY <1>5, <1>w, <1>z DEF CompleteFinalization, WorkerStates
  <2>2. session' \in [Sessions -> SessionRow] BY <1>5 DEF CompleteFinalization, SessionRow, Statuses
  <2>3. fin' \in [Sessions -> FinRow] BY <1>5 DEF CompleteFinalization, FinRow
  <2> QED BY <1>5, <1>k, <2>1, <2>2, <2>3 DEF CompleteFinalization
<1>6. ASSUME NEW p \in Procs, ClaimStart(p, s, i) PROVE TypeOK'
  <2>1. worker[s].state \in Launchable BY <1>6 DEF ClaimStart, CanClaimStart
  <2> QED BY <1>6, <1>n, <2>1, FreshIsNumber DEF ClaimStart, ClaimRow
<1>7. ASSUME NEW k \in 1..(next - 1), CompleteStart(s, i, k) PROVE TypeOK'
  <2>1. worker' \in [Sessions -> WorkerRow] BY <1>7 DEF CompleteStart, Move, WorkerRow, WorkerStates
  <2>2. claim' \in [Sessions -> ClaimRow] BY <1>7 DEF CompleteStart, ClaimRow, NoClaim, Numbers
  <2> QED BY <1>7, <1>k, <2>1, <2>2 DEF CompleteStart
<1>8. ASSUME NEW k \in 1..(next - 1), AbortStart(s, i, k) PROVE TypeOK'
  BY <1>8, <1>k DEF AbortStart, ClaimRow, NoClaim, Numbers
<1>9. CASE ClaimCleanup(s, i) \/ ClaimRelease(s, i)
  <2>1. worker' \in [Sessions -> WorkerRow]
    <3>1. \E state \in WorkerStates : worker' = [worker EXCEPT ![s].state = state]
      BY <1>9 DEF ClaimCleanup, ClaimRelease, ClaimState, Move, WorkerStates, Claims
    <3>2. ASSUME NEW r \in WorkerRow, NEW state \in WorkerStates PROVE [r EXCEPT !.state = state] \in WorkerRow
      BY <3>2, Zenon DEF WorkerRow
    <3> QED BY <3>1, <3>2
  <2>2. UNCHANGED <<session, claim, fin, checkout, lock, next>>
    BY <1>9 DEF ClaimCleanup, ClaimRelease, ClaimState
  <2> QED BY <2>1, <2>2
<1>10. ASSUME NEW t \in 1..(next - 1), NEW prior \in Live \cup {"none"}, AbortSnapshot(s, i, t, prior)
       PROVE  TypeOK'
  BY <1>10 DEF AbortSnapshot, WorkerRow, WorkerStates, NoWorker, Numbers
<1>11. ASSUME NEW claimed \in Claims, AbortClaim(s, i, claimed) \/ CompleteClaim(s, i, claimed)
       PROVE  TypeOK'
  <2>1. worker' \in [Sessions -> WorkerRow]
    <3>1. CASE AbortClaim(s, i, claimed) BY <3>1 DEF AbortClaim, Move, WorkerRow, WorkerStates
    <3>2. CASE CompleteClaim(s, i, claimed) BY <3>2, <1>w, <1>z DEF CompleteClaim, WorkerStates
    <3> QED BY <1>11, <3>1, <3>2
  <2> QED BY <1>11, <1>k, <2>1 DEF AbortClaim, CompleteClaim, Move
<1>12. CASE ReclaimClaim(s, i)
  BY <1>12, <1>k DEF ReclaimClaim, ClaimRow, NoClaim, Numbers
<1> QED BY <1>1, <1>2, <1>3, <1>4, <1>5, <1>6, <1>7, <1>8, <1>9, <1>10, <1>11, <1>12
        DEF IncarnationNext

LEMMA PoolTypeOK ==
  ASSUME TypeOK, NEW s \in Sessions, NEW c \in Checkouts, PoolNext(s, c) PROVE TypeOK'
<1> USE NumbersHandedOut DEF TypeOK, SetCheckout, CheckoutRow, CheckoutStates, Busy, Unused, Numbers
<1>1. ASSUME NEW i \in 1..(next - 1), ClaimFree(s, i, c) \/ Reserve(s, i, c) PROVE TypeOK'
  BY <1>1 DEF ClaimFree, Reserve, Take
<1>2. ASSUME NEW i \in 1..(next - 1), NEW l \in 1..(next - 1),
             FinalizeCheckout(s, i, l, c) \/ ReleaseCheckout(s, i, l, c)
               \/ Quarantine(s, i, l, c) \/ RemoveMissing(s, i, l, c) \/ RemoveFailed(s, i, l, c)
      PROVE  TypeOK'
  BY <1>2 DEF FinalizeCheckout, ReleaseCheckout, Quarantine, RemoveMissing, RemoveFailed
<1> QED BY <1>1, <1>2 DEF PoolNext

LEMMA OpenTypeOK ==
  ASSUME TypeOK,
         \/ AdoptLeases \/ RemoveOrphans
         \/ \E dead \in SUBSET (Sessions \X (1..(next - 1))) : ReclaimAllocations(dead)
  PROVE  TypeOK'
<1>1. CASE AdoptLeases
  <2>1. ASSUME NEW s \in Sessions, LeasesOf(s) # {}, NEW state \in WorkerStates
        PROVE  Adopted(s, state) \in WorkerRow
    <3> DEFINE c == CHOOSE c \in LeasesOf(s) : TRUE
    <3>1. c \in Checkouts BY <2>1 DEF LeasesOf
    <3>2. checkout[c].owner \in Numbers /\ checkout[c].lease \in Numbers
      BY <3>1 DEF TypeOK, CheckoutRow
    <3> QED BY <2>1, <3>2 DEF TypeOK, Adopted, WorkerRow, SessionRow
  <2>2. worker' \in [Sessions -> WorkerRow]
    BY <1>1, <2>1 DEF AdoptLeases, TypeOK, WorkerStates, Live
  <2> QED BY <1>1, <2>2 DEF AdoptLeases, TypeOK
<1>2. CASE RemoveOrphans
  <2>1. NoRow \in SessionRow BY DEF NoRow, SessionRow, Statuses, Numbers
  <2>2. \A s \in Sessions : [session[s] EXCEPT !.status = "terminated"] \in SessionRow
    BY DEF TypeOK, SessionRow, Statuses
  <2>3. session' \in [Sessions -> SessionRow]
    BY <1>2, <2>1, <2>2 DEF RemoveOrphans, TypeOK
  <2> QED BY <1>2, <2>3 DEF RemoveOrphans, TypeOK
<1>3. ASSUME NEW dead \in SUBSET (Sessions \X (1..(next - 1))), ReclaimAllocations(dead) PROVE TypeOK'
  <2>1. worker' \in [Sessions -> WorkerRow]
    <3>1. \A s \in Sessions : Settled(s, "released") \in WorkerRow
      <4>1. "released" \in WorkerStates BY DEF WorkerStates
      <4>2. 0 \in Numbers BY DEF Numbers
      <4>3. \A s \in Sessions : worker[s] \in WorkerRow BY DEF TypeOK
      <4> QED BY <4>1, <4>2, <4>3, RowUpdates DEF Settled
    <3> QED BY <1>3, <3>1 DEF ReclaimAllocations, TypeOK
  <2>2. session' \in [Sessions -> SessionRow]
    <3>1. \A s \in Sessions : [session[s] EXCEPT !.status = "terminated"] \in SessionRow
      BY DEF TypeOK, SessionRow, Statuses
    <3> QED BY <1>3, <3>1 DEF ReclaimAllocations, TypeOK
  <2>3. checkout' \in [Checkouts -> CheckoutRow]
    BY <1>3 DEF ReclaimAllocations, TypeOK, CheckoutRow, CheckoutStates, Unused, Numbers
  <2>4. lock' \subseteq Procs \X Numbers BY <1>3 DEF ReclaimAllocations, TypeOK
  <2> QED BY <1>3, <2>1, <2>2, <2>3, <2>4 DEF ReclaimAllocations, TypeOK
<1> QED BY <1>1, <1>2, <1>3

LEMMA NextTypeOK == TypeOK /\ [StoreNext]_db => TypeOK'
<1> SUFFICES ASSUME TypeOK, [StoreNext]_db PROVE TypeOK'
  OBVIOUS
<1>1. ASSUME NEW c \in Checkouts, RecoverQuarantined(c) \/ RemoveQuarantined(c) PROVE TypeOK'
  BY <1>1 DEF TypeOK, RecoverQuarantined, RemoveQuarantined, SetCheckout, CheckoutRow,
              CheckoutStates, Unused, Numbers
<1>2. ASSUME NEW p \in Procs, DropLocks(p) PROVE TypeOK'
  BY <1>2 DEF TypeOK, DropLocks
<1>3. CASE Tick
  BY <1>3, FreshIsNumber DEF TypeOK, Tick
<1>4. CASE UNCHANGED db
  BY <1>4 DEF TypeOK, db
<1> QED BY <1>1, <1>2, <1>3, <1>4, SessionTypeOK, IncarnationTypeOK, PoolTypeOK, OpenTypeOK DEF StoreNext

(* Type correctness of the worker tables of store.rs under any clients.      *)
THEOREM TypeCorrect == StoreSpec => []TypeOK
  BY InitTypeOK, NextTypeOK, PTL DEF StoreSpec
-----------------------------------------------------------------------------
(* Exclusion by the runtime claim.  A transaction touches the rows of one     *)
(* session; what ClaimSafe says of the others is untouched.  For the session  *)
(* itself, a transaction that would disturb a claimed incarnation either asks *)
(* that no claim be held, or asks for a state no claimed incarnation is in.   *)

ClaimSafe(s) ==
  Claimed(s) => /\ claim[s].prior \in Launchable
                /\ Is(s, claim[s].inc)
                /\ worker[s].state = claim[s].prior
                /\ ~FinalizingInc(s, claim[s].inc)

LEMMA ClaimSafeAll == ClaimInv <=> \A s \in Sessions : ClaimSafe(s)
  BY DEF ClaimInv, Launching, ClaimExclusive, ClaimSafe

LEMMA ClaimFrame ==
  ASSUME NEW s \in Sessions, ClaimSafe(s),
         worker'[s] = worker[s], claim'[s] = claim[s], fin'[s] = fin[s]
  PROVE  ClaimSafe(s)'
  BY DEF ClaimSafe, Claimed, Is, HasWorker, FinalizingInc, Finalizing

LEMMA InitClaimSafe == StoreInit => ClaimInv
  BY DEF StoreInit, ClaimInv, Launching, ClaimExclusive, Claimed, NoClaim

USE DEF ClaimSafe, Claimed, ClaimedInc, Is, HasWorker, FinalizingInc, Finalizing, Live, Launchable, Claims

LEMMA SessionClaimSafe ==
  ASSUME TypeOK, NEW s \in Sessions, ClaimSafe(s), SessionNext(s) PROVE ClaimSafe(s)'
<1>1. CASE InsertSpawning(s) BY <1>1, ClaimFrame DEF InsertSpawning
<1>2. ASSUME NEW row, UpsertSession(s, row) PROVE ClaimSafe(s)'
  BY <1>2, ClaimFrame DEF UpsertSession
<1>3. ASSUME NEW t, ClaimSnapshot(s, t) PROVE ClaimSafe(s)'
  BY <1>3 DEF ClaimSnapshot, CanClaimSnapshot, TypeOK
<1>4. CASE DeleteSession(s)
  BY <1>4 DEF DeleteSession, TypeOK, NoFin
<1>5. ASSUME NEW p, NEW t, Prepare(p, s, t) PROVE ClaimSafe(s)'
  BY <1>5 DEF Prepare, CanPrepare, TypeOK
<1>6. CASE BeginFinalization(s)
  <2>1. CASE fin[s].inc = ToFinalize(s).id
    BY <1>6, <2>1, ClaimFrame DEF BeginFinalization, CanBeginFinalization, ToFinalize, TypeOK
  <2>2. CASE fin[s].inc # ToFinalize(s).id
    <3>1. ~ClaimedInc(s, ToFinalize(s).id) BY <1>6, <2>2 DEF BeginFinalization, CanBeginFinalization
    <3>2. claim'[s] = claim[s] BY <1>6 DEF BeginFinalization
    <3>3. ~Claimed(s) BY <3>1 DEF ToFinalize
    <3> QED BY <3>2, <3>3
  <2> QED BY <2>1, <2>2
<1> QED BY <1>1, <1>2, <1>3, <1>4, <1>5, <1>6
        DEF SessionNext, TerminalizeSpawning, DeleteSpawning, UpdateStatus, UpdateSpawningWorkspace

LEMMA IncarnationClaimSafe ==
  ASSUME TypeOK, NEW s \in Sessions, ClaimSafe(s), NEW i \in 1..(next - 1), IncarnationNext(s, i)
  PROVE  ClaimSafe(s)'
<1>1. ASSUME NEW l, Bind(s, i, l) PROVE ClaimSafe(s)'
  BY <1>1 DEF Bind, CanBind
<1>2. ASSUME NEW l, ClaimWithLease(s, i, l) PROVE ClaimSafe(s)'
  BY <1>2 DEF ClaimWithLease, CanClaimWithLease
<1>3. CASE CompleteIncarnation(s, i) BY <1>3 DEF CompleteIncarnation, CanCompleteIncarnation
<1>4. ASSUME NEW t, Retain(s, i, t) PROVE ClaimSafe(s)'
  BY <1>4 DEF Retain, CanRetain
<1>5. CASE CompleteFinalization(s, i) BY <1>5 DEF CompleteFinalization, CanCompleteFinalization
<1>6. ASSUME NEW p, ClaimStart(p, s, i) PROVE ClaimSafe(s)'
  BY <1>6 DEF ClaimStart, CanClaimStart, TypeOK
<1>7. ASSUME NEW k, CompleteStart(s, i, k) \/ AbortStart(s, i, k) PROVE ClaimSafe(s)'
  <2>1. claim'[s] = NoClaim BY <1>7 DEF CompleteStart, AbortStart, TypeOK
  <2> QED BY <2>1 DEF NoClaim
<1>8. CASE ClaimCleanup(s, i) \/ ClaimRelease(s, i)
  BY <1>8 DEF ClaimCleanup, ClaimRelease, ClaimState, CanClaimState
<1>9. ASSUME NEW t, NEW prior, AbortSnapshot(s, i, t, prior) PROVE ClaimSafe(s)'
  BY <1>9 DEF AbortSnapshot, CanAbortSnapshot
<1>10. ASSUME NEW claimed \in Claims, AbortClaim(s, i, claimed) \/ CompleteClaim(s, i, claimed)
       PROVE  ClaimSafe(s)'
  BY <1>10 DEF AbortClaim, CompleteClaim, CanSettle
<1>11. CASE ReclaimClaim(s, i)
  <2>1. CASE claim[s].id = i
    <3>1. claim'[s] = NoClaim BY <1>11, <2>1 DEF ReclaimClaim, TypeOK
    <3> QED BY <3>1 DEF NoClaim
  <2>2. CASE claim[s].id # i
    BY <1>11, <2>2, ClaimFrame DEF ReclaimClaim
  <2> QED BY <2>1, <2>2
<1> QED BY <1>1, <1>2, <1>3, <1>4, <1>5, <1>6, <1>7, <1>8, <1>9, <1>10, <1>11
        DEF IncarnationNext

(* Every transaction on s leaves the rows of the other sessions alone.       *)
LEMMA OthersUntouched ==
  ASSUME TypeOK, NEW s \in Sessions, NEW r \in Sessions \ {s},
         SessionNext(s) \/ \E i \in 1..(next - 1) : IncarnationNext(s, i)
  PROVE  worker'[r] = worker[r] /\ claim'[r] = claim[r] /\ fin'[r] = fin[r]
<1>1. CASE SessionNext(s)
  <2>1. CASE \E p \in Procs, t \in 1..next : Prepare(p, s, t)
    BY <2>1 DEF Prepare, TypeOK
  <2>2. CASE BeginFinalization(s) BY <2>2 DEF BeginFinalization, TypeOK
  <2>3. CASE DeleteSession(s) BY <2>3 DEF DeleteSession, TypeOK
  <2>4. CASE \E t \in 1..(next - 1) : ClaimSnapshot(s, t) BY <2>4 DEF ClaimSnapshot, TypeOK
  <2> QED BY <1>1, <2>1, <2>2, <2>3, <2>4
          DEF SessionNext, InsertSpawning, UpsertSession, TerminalizeSpawning, DeleteSpawning,
              UpdateStatus, UpdateSpawningWorkspace
<1>2. ASSUME NEW i \in 1..(next - 1), IncarnationNext(s, i)
      PROVE  worker'[r] = worker[r] /\ claim'[r] = claim[r] /\ fin'[r] = fin[r]
  <2>1. worker'[r] = worker[r]
    BY <1>2 DEF IncarnationNext, Bind, ClaimWithLease, CompleteIncarnation, Retain,
         CompleteFinalization, ClaimStart, CompleteStart, AbortStart, ClaimCleanup, ClaimRelease,
         ClaimState, AbortSnapshot, AbortClaim, CompleteClaim, ReclaimClaim,
         Move, TypeOK
  <2>2. claim'[r] = claim[r]
    BY <1>2 DEF IncarnationNext, Bind, ClaimWithLease, CompleteIncarnation, Retain,
         CompleteFinalization, ClaimStart, CompleteStart, AbortStart, ClaimCleanup, ClaimRelease,
         ClaimState, AbortSnapshot, AbortClaim, CompleteClaim, ReclaimClaim,
         TypeOK
  <2>3. fin'[r] = fin[r]
    BY <1>2 DEF IncarnationNext, Bind, ClaimWithLease, CompleteIncarnation, Retain,
         CompleteFinalization, ClaimStart, CompleteStart, AbortStart, ClaimCleanup, ClaimRelease,
         ClaimState, AbortSnapshot, AbortClaim, CompleteClaim, ReclaimClaim,
         TypeOK
  <2> QED BY <2>1, <2>2, <2>3
<1> QED BY <1>1, <1>2

LEMMA NextClaimSafe == TypeOK /\ ClaimInv /\ [StoreNext]_db => ClaimInv'
<1> SUFFICES ASSUME TypeOK, ClaimInv, [StoreNext]_db, NEW r \in Sessions PROVE ClaimSafe(r)'
  BY ClaimSafeAll DEF ClaimInv, Launching, ClaimExclusive
<1>s. ClaimSafe(r) BY ClaimSafeAll
<1>1. ASSUME NEW s \in Sessions, SessionNext(s) \/ \E i \in 1..(next - 1) : IncarnationNext(s, i)
      PROVE  ClaimSafe(r)'
  <2>1. CASE r = s BY <1>1, <1>s, <2>1, SessionClaimSafe, IncarnationClaimSafe
  <2>2. CASE r # s BY <1>1, <1>s, <2>2, OthersUntouched, ClaimFrame
  <2> QED BY <2>1, <2>2
<1>2. CASE UNCHANGED <<worker, claim, fin>> BY <1>2, <1>s, ClaimFrame
<1>3. ASSUME NEW s \in Sessions, NEW c \in Checkouts, PoolNext(s, c) PROVE ClaimSafe(r)'
  BY <1>2, <1>3 DEF PoolNext, ClaimFree, Reserve, Take, FinalizeCheckout, ReleaseCheckout, Quarantine,
                    RemoveMissing, RemoveFailed, SetCheckout
<1>4. ASSUME NEW c \in Checkouts, RecoverQuarantined(c) \/ RemoveQuarantined(c) PROVE ClaimSafe(r)'
  BY <1>2, <1>4 DEF RecoverQuarantined, RemoveQuarantined, SetCheckout
<1>5. CASE AdoptLeases BY <1>5, <1>s DEF AdoptLeases, TypeOK
<1>6. CASE RemoveOrphans \/ Tick \/ \E p \in Procs : DropLocks(p)
  BY <1>2, <1>6 DEF RemoveOrphans, Tick, DropLocks
<1>7. ASSUME NEW dead \in SUBSET (Sessions \X (1..(next - 1))), ReclaimAllocations(dead) PROVE ClaimSafe(r)'
  BY <1>7, <1>s DEF ReclaimAllocations, TypeOK
<1>8. CASE UNCHANGED db BY <1>2, <1>8 DEF db
<1> QED BY <1>1, <1>3, <1>4, <1>5, <1>6, <1>7, <1>8 DEF StoreNext

(* A runtime claim excludes every other use of the incarnation, whatever the  *)
(* clients of the store do: prepare_worker_incarnation, the claim_worker_     *)
(* family, begin_worker_finalization and the rest of store.rs never disturb   *)
(* an incarnation whose launch is under way.                                 *)
THEOREM ClaimExcludes == StoreSpec => []ClaimExclusive
<1>1. StoreInit => TypeOK /\ ClaimInv BY InitTypeOK, InitClaimSafe
<1>2. TypeOK /\ ClaimInv /\ [StoreNext]_db => (TypeOK /\ ClaimInv)' BY NextTypeOK, NextClaimSafe
<1>3. ClaimInv => ClaimExclusive BY DEF ClaimInv
<1> QED BY <1>1, <1>2, <1>3, PTL DEF StoreSpec

HIDE DEF ClaimSafe, Claimed, ClaimedInc, Is, HasWorker, FinalizingInc, Finalizing, Live, Launchable, Claims

-----------------------------------------------------------------------------
(* Every number in the tables has been handed out.                           *)

Out == 1..(next - 1)
SessionOut(s) ==
  /\ Exists(s) => session[s].started \in Out
  /\ HasWorker(s) => worker[s].id \in Out /\ worker[s].started \in Out
  /\ worker[s].id \in Out \cup {0} /\ worker[s].lease \in Out \cup {0}
  /\ Claimed(s) => claim[s].id \in Out /\ claim[s].inc \in Out
CheckoutOut(c) ==
  /\ checkout[c].owner \in Out \cup {0}
  /\ checkout[c].state \in Busy =>
       checkout[c].session \in Sessions /\ checkout[c].owner \in Out /\ checkout[c].lease \in Out
HandedOut == /\ \A s \in Sessions : SessionOut(s)
             /\ \A c \in Checkouts : CheckoutOut(c)
             /\ \A l \in lock : l[2] \in Out

LEMMA InitHandedOut == StoreInit => HandedOut
  BY DEF StoreInit, HandedOut, SessionOut, CheckoutOut, Exists, HasWorker, Claimed, NoRow, NoWorker,
         NoClaim, Unused, Busy

LEMMA OutGrows ==
  ASSUME TypeOK, NEW n \in Nat, next' = next + n PROVE Out \subseteq Out' /\ (n = 1 => next \in Out')
  BY DEF Out, TypeOK

LEMMA AdoptedOut ==
  ASSUME TypeOK, HandedOut, NEW s \in Sessions, Exists(s), NEW state
  PROVE  /\ Adopted(s, state).id \in Out \cup {next} /\ Adopted(s, state).started \in Out
         /\ Adopted(s, state).lease \in Out \cup {0}
         /\ LeasesOf(s) # {} => Adopted(s, state).id \in Out
<1>1. session[s].started \in Out BY DEF HandedOut, SessionOut
<1>2. CASE LeasesOf(s) = {} BY <1>1, <1>2 DEF Adopted
<1>3. CASE LeasesOf(s) # {}
  <2> DEFINE c == CHOOSE c \in LeasesOf(s) : TRUE
  <2>1. c \in Checkouts /\ checkout[c].state \in Busy BY <1>3 DEF LeasesOf
  <2>2. checkout[c].owner \in Out /\ checkout[c].lease \in Out BY <2>1 DEF HandedOut, CheckoutOut
  <2> HIDE DEF c
  <2>3. Adopted(s, state) = [state |-> state, started |-> session[s].started, token |-> FALSE,
                             id |-> checkout[c].owner, lease |-> checkout[c].lease, backed |-> TRUE]
    BY <1>3 DEF Adopted, c
  <2> QED BY <1>1, <2>2, <2>3
<1> QED BY <1>2, <1>3

LEMMA KeptOut ==
  ASSUME TypeOK, HandedOut, NEW s \in Sessions PROVE Kept(s) \in Out \cup {0}
<1>1. CASE worker[s].lease # 0 BY <1>1 DEF Kept, Inherited, HandedOut, SessionOut
<1>2. CASE worker[s].lease = 0 /\ \E c \in LeasesOf(s) : checkout[c].owner = worker[s].id
  <2> DEFINE c == CHOOSE c \in LeasesOf(s) : checkout[c].owner = worker[s].id
  <2>1. c \in Checkouts /\ checkout[c].state \in Busy BY <1>2 DEF LeasesOf
  <2>2. checkout[c].lease \in Out BY <2>1 DEF HandedOut, CheckoutOut
  <2> QED BY <1>2, <2>2 DEF Kept, Inherited
<1> QED BY <1>1, <1>2 DEF Kept, Inherited

LEMMA NextGrows == ASSUME TypeOK, [StoreNext]_db PROVE next' \in Nat /\ next <= next' /\ Out \subseteq Out'
<1>1. next \in Nat BY DEF TypeOK
<1>2. \A s \in Sessions : AdoptNumbers(s) \in {0, 1} BY DEF AdoptNumbers
<1>3. ASSUME NEW s \in Sessions, SessionNext(s) PROVE next' \in Nat /\ next <= next'
  <2>1. CASE BeginFinalization(s) BY <1>1, <1>2, <2>1 DEF BeginFinalization
  <2>2. ASSUME NEW t, ClaimSnapshot(s, t) PROVE next' \in Nat /\ next <= next'
    BY <1>1, <1>2, <2>2 DEF ClaimSnapshot
  <2>3. ASSUME NEW p, NEW t, Prepare(p, s, t) PROVE next' \in Nat /\ next <= next'
    BY <1>1, <2>3 DEF Prepare
  <2>4. CASE InsertSpawning(s) BY <1>1, <2>4 DEF InsertSpawning
  <2>5. CASE DeleteSession(s) BY <1>1, <2>5 DEF DeleteSession
  <2>6. ASSUME NEW row, UpsertSession(s, row) PROVE next' \in Nat /\ next <= next'
    BY <1>1, <2>6 DEF UpsertSession
  <2>7. ASSUME NEW t, NEW x, \/ TerminalizeSpawning(s, t, x) \/ UpdateSpawningWorkspace(s, t, x)
                             \/ UpdateStatus(s, t, x) \/ DeleteSpawning(s, t)
        PROVE  next' \in Nat /\ next <= next'
    BY <2>6, <2>7 DEF TerminalizeSpawning, DeleteSpawning, UpdateStatus, UpdateSpawningWorkspace
  <2> QED BY <1>1, <1>3, <2>1, <2>2, <2>3, <2>4, <2>5, <2>6, <2>7, Zenon DEF SessionNext
<1>4. ASSUME NEW s \in Sessions, NEW i, IncarnationNext(s, i) PROVE next' \in Nat /\ next <= next'
  <2>1. ASSUME NEW p, ClaimStart(p, s, i) PROVE next' = next + 1 BY <2>1 DEF ClaimStart
  <2>2. ASSUME NEW t, Retain(s, i, t) PROVE next' = next BY <2>2 DEF Retain
  <2>3. ASSUME NEW t, NEW prior, AbortSnapshot(s, i, t, prior) PROVE next' = next
    BY <2>3 DEF AbortSnapshot
  <2>4. ASSUME NEW l, Bind(s, i, l) \/ ClaimWithLease(s, i, l) PROVE next' = next
    BY <2>4 DEF Bind, ClaimWithLease
  <2>5. ASSUME NEW k, CompleteStart(s, i, k) \/ AbortStart(s, i, k) PROVE next' = next
    BY <2>5 DEF CompleteStart, AbortStart
  <2>6. ASSUME NEW claimed, AbortClaim(s, i, claimed) \/ CompleteClaim(s, i, claimed) PROVE next' = next
    BY <2>6 DEF AbortClaim, CompleteClaim
  <2>7. CASE CompleteIncarnation(s, i) \/ CompleteFinalization(s, i) \/ ReclaimClaim(s, i)
    BY <1>1, <2>7 DEF CompleteIncarnation, CompleteFinalization, ReclaimClaim
  <2>8. CASE ClaimCleanup(s, i) \/ ClaimRelease(s, i)
    BY <1>1, <2>8 DEF ClaimCleanup, ClaimRelease, ClaimState
  <2> QED BY <1>1, <1>4, <2>1, <2>2, <2>3, <2>4, <2>5, <2>6, <2>7, <2>8 DEF IncarnationNext
<1>5. ASSUME NEW s \in Sessions, NEW c \in Checkouts, PoolNext(s, c) PROVE next' = next
  BY <1>5 DEF PoolNext, ClaimFree, Reserve, Take, FinalizeCheckout, ReleaseCheckout, Quarantine,
              RemoveMissing, RemoveFailed, SetCheckout
<1>6. CASE UNCHANGED db BY <1>1, <1>6 DEF db, Out
<1>7. ASSUME StoreNext PROVE next' \in Nat /\ next <= next'
  BY <1>1, <1>3, <1>4, <1>5, <1>7
     DEF StoreNext, RecoverQuarantined, RemoveQuarantined, SetCheckout, AdoptLeases, RemoveOrphans, Tick,
         ReclaimAllocations, DropLocks
<1> QED BY <1>1, <1>6, <1>7 DEF Out

LEMMA SessionRowUpdates ==
  ASSUME NEW r \in SessionRow
  PROVE  /\ \A status \in Statuses : [r EXCEPT !.status = status] \in SessionRow
         /\ \A c \in Checkouts \cup {NoCheckout} : [r EXCEPT !.ws = c] \in SessionRow
         /\ \A t \in Numbers : [r EXCEPT !.started = t] \in SessionRow
  BY DEF SessionRow

(* A transaction on s leaves the rows of the other sessions alone.           *)
LEMMA SessionFrame ==
  ASSUME HandedOut, Out \subseteq Out', NEW s \in Sessions,
         session'[s] = session[s], worker'[s] = worker[s], claim'[s] = claim[s]
  PROVE  SessionOut(s)'
  BY DEF HandedOut, SessionOut, Exists, HasWorker, Claimed

LEMMA CheckoutFrame ==
  ASSUME HandedOut, Out \subseteq Out', NEW c \in Checkouts, checkout'[c] = checkout[c]
  PROVE  CheckoutOut(c)'
  BY DEF HandedOut, CheckoutOut

LEMMA LocksFrame ==
  ASSUME HandedOut, Out \subseteq Out', lock' \subseteq lock PROVE \A l \in lock' : l[2] \in Out'
  BY DEF HandedOut

LEMMA SessionHandedOut ==
  ASSUME TypeOK, HandedOut, NEW s \in Sessions, SessionNext(s), Out \subseteq Out' PROVE HandedOut'
<1> USE DEF TypeOK
<1>o. ASSUME SessionOut(s)',
             \A r \in Sessions \ {s} : session'[r] = session[r] /\ worker'[r] = worker[r] /\ claim'[r] = claim[r],
             \A c \in Checkouts : CheckoutOut(c)', \A l \in lock' : l[2] \in Out'
      PROVE  HandedOut'
  BY <1>o, SessionFrame DEF HandedOut
<1>s. SessionOut(s) BY DEF HandedOut
<1>r. ASSUME NEW row \in SessionRow, row.status # "none" => row.started \in Out, UpsertSession(s, row) PROVE HandedOut'
  <2>1. SessionOut(s)'
    BY <1>r, <1>s DEF UpsertSession, SessionOut, Exists, HasWorker, Claimed
  <2> QED BY <1>o, <1>r, <2>1, CheckoutFrame, LocksFrame DEF UpsertSession
<1>1. CASE InsertSpawning(s)
  <2>1. next \in Out' BY <1>1, OutGrows DEF InsertSpawning
  <2>2. SessionOut(s)'
    BY <1>1, <1>s, <2>1 DEF InsertSpawning, SessionOut, Exists, HasWorker, Claimed, NoRow
  <2> QED BY <1>o, <1>1, <2>2, CheckoutFrame, LocksFrame DEF InsertSpawning
<1>2. ASSUME NEW status \in Statuses \ {"none"}, NEW t \in 1..(next - 1), NEW column \in Columns,
             UpsertSession(s, [status |-> status, started |-> t, ws |-> column[1],
                               pid |-> column[2], talk |-> column[3]])
      PROVE  HandedOut'
  BY <1>2, <1>r, NumbersHandedOut DEF Out, SessionRow
<1>3. ASSUME NEW t \in 1..(next - 1), NEW column \in Columns, TerminalizeSpawning(s, t, column[1])
      PROVE  HandedOut'
  <2>1. column[1] \in Checkouts \cup {NoCheckout} OBVIOUS
  <2>2. [session[s] EXCEPT !.status = "terminated", !.ws = column[1]] \in SessionRow
    BY <2>1, RowColumns
  <2> QED BY <1>3, <1>r, <1>s, <2>2
          DEF TerminalizeSpawning, CanUpdateSpawning, SessionOut, Exists, SessionRow
<1>4. ASSUME NEW t \in 1..(next - 1), DeleteSpawning(s, t) PROVE HandedOut'
  <2>1. NoRow \in SessionRow /\ NoRow.status = "none" BY DEF NoRow, SessionRow, Statuses, Numbers
  <2> QED BY <1>4, <1>r, <2>1 DEF DeleteSpawning
<1>5. ASSUME NEW t \in 1..(next - 1), ClaimSnapshot(s, t) PROVE HandedOut'
  <2>1. SessionOut(s)'
    <3>1. CASE HasWorker(s)
      BY <1>5, <1>s, <3>1 DEF ClaimSnapshot, SessionOut, Exists, HasWorker, Claimed
    <3>2. CASE ~HasWorker(s)
      <4>1. CanAdopt(s) BY <1>5, <3>2 DEF ClaimSnapshot, CanClaimSnapshot
      <4>2. worker'[s] = Adopted(s, "cleanup_claimed") /\ next' = next + AdoptNumbers(s)
        BY <1>5, <3>2 DEF ClaimSnapshot
      <4>3. worker'[s].id \in Out'
        BY <4>1, <4>2, AdoptedOut DEF CanAdopt, AdoptNumbers, Out
      <4> QED BY <1>5, <1>s, <4>1, <4>2, <4>3, AdoptedOut
              DEF CanAdopt, ClaimSnapshot, SessionOut, Exists, HasWorker, Claimed
    <3> QED BY <3>1, <3>2
  <2> QED BY <1>o, <1>5, <2>1, CheckoutFrame, LocksFrame DEF ClaimSnapshot
<1>6. ASSUME NEW t \in 1..(next - 1), NEW status \in Statuses \ {"none"}, UpdateStatus(s, t, status)
      PROVE  HandedOut'
  <2>1. [session[s] EXCEPT !.status = status] \in SessionRow BY SessionRowUpdates
  <2> QED BY <1>6, <1>r, <1>s, <2>1 DEF UpdateStatus, CanUpdateStatus, SessionOut, Exists, SessionRow
<1>7. ASSUME NEW t \in 1..(next - 1), NEW c \in Checkouts, UpdateSpawningWorkspace(s, t, c)
      PROVE  HandedOut'
  <2>1. [session[s] EXCEPT !.ws = c] \in SessionRow BY SessionRowUpdates
  <2> QED BY <1>7, <1>r, <1>s, <2>1
          DEF UpdateSpawningWorkspace, CanUpdateSpawning, SessionOut, Exists, SessionRow
<1>8. CASE DeleteSession(s)
  <2>1. SessionOut(s)'
    BY <1>8, <1>s DEF DeleteSession, SessionOut, Exists, HasWorker, Claimed, NoRow, NoWorker
  <2> QED BY <1>o, <1>8, <2>1, CheckoutFrame, LocksFrame DEF DeleteSession
<1>9. ASSUME NEW p \in Procs, NEW t \in 1..next, Prepare(p, s, t) PROVE HandedOut'
  <2>1. next' = next + 1 /\ next \in Out' /\ t \in Out' BY <1>9 DEF Prepare, Out
  <2>2. Kept(s) \in Out \cup {0} BY KeptOut
  <2>3. SessionOut(s)'
    BY <1>9, <1>s, <2>1, <2>2 DEF Prepare, SessionOut, Exists, HasWorker, Claimed
  <2>4. \A c \in Checkouts : CheckoutOut(c)'
    <3> TAKE c \in Checkouts
    <3>1. CASE checkout'[c] = checkout[c] BY <3>1, CheckoutFrame
    <3>2. CASE checkout'[c] = [checkout[c] EXCEPT !.owner = next]
      BY <2>1, <3>2 DEF HandedOut, CheckoutOut, CheckoutRow
    <3> QED BY <1>9, <3>1, <3>2 DEF Prepare
  <2>5. \A l \in lock' : l[2] \in Out'
    BY <1>9, <2>1 DEF Prepare, HandedOut
  <2> QED BY <1>o, <1>9, <2>3, <2>4, <2>5 DEF Prepare
<1>10. CASE BeginFinalization(s)
  <2>1. SessionOut(s)'
    <3>1. CASE HasWorker(s)
      BY <1>10, <1>s, <3>1 DEF BeginFinalization, ToFinalize, SessionOut, Exists, HasWorker, Claimed
    <3>2. CASE ~HasWorker(s)
      <4>1. CanAdopt(s) BY <1>10, <3>2 DEF BeginFinalization, CanBeginFinalization
      <4>2. worker'[s] = Adopted(s, FinalState(s)) /\ next' = next + AdoptNumbers(s)
        BY <1>10, <3>2 DEF BeginFinalization, ToFinalize
      <4>3. worker'[s].id \in Out'
        BY <4>1, <4>2, AdoptedOut DEF CanAdopt, AdoptNumbers, Out
      <4> QED BY <1>10, <1>s, <4>1, <4>2, <4>3, AdoptedOut
              DEF CanAdopt, BeginFinalization, SessionOut, Exists, HasWorker, Claimed
    <3> QED BY <3>1, <3>2
  <2> QED BY <1>o, <1>10, <2>1, CheckoutFrame, LocksFrame DEF BeginFinalization
<1> QED BY <1>1, <1>2, <1>3, <1>4, <1>5, <1>6, <1>7, <1>8, <1>9, <1>10 DEF SessionNext

LEMMA IncarnationHandedOut ==
  ASSUME TypeOK, HandedOut, NEW s \in Sessions, NEW i \in 1..(next - 1), IncarnationNext(s, i),
         Out \subseteq Out'
  PROVE  HandedOut'
<1> USE DEF TypeOK
<1>s. SessionOut(s) BY DEF HandedOut
<1>o. ASSUME SessionOut(s)', checkout' = checkout, \A l \in lock' : l[2] \in Out',
             \A r \in Sessions \ {s} : session'[r] = session[r] /\ worker'[r] = worker[r] /\ claim'[r] = claim[r]
      PROVE  HandedOut'
  BY <1>o, SessionFrame, CheckoutFrame DEF HandedOut
<1>u. \A n : Unlocked(n) \subseteq lock BY DEF Unlocked
<1>w. ASSUME worker' = [worker EXCEPT ![s] = worker'[s]], UNCHANGED <<claim, checkout>>,
             \A r \in Sessions \ {s} : session'[r] = session[r], lock' \subseteq lock,
             Exists(s)' => session'[s].started \in Out',
             HasWorker(s)' => worker'[s].id \in Out' /\ worker'[s].started \in Out',
             worker'[s].id \in Out' \cup {0} /\ worker'[s].lease \in Out' \cup {0}
      PROVE  HandedOut'
  <2>1. SessionOut(s)' BY <1>w, <1>s DEF SessionOut, Claimed
  <2> QED BY <1>o, <1>w, <2>1, LocksFrame
<1>1. ASSUME NEW l \in 0..(next - 1), Bind(s, i, l) PROVE HandedOut'
  BY <1>1, <1>s, <1>u, <1>w DEF Bind, Settled, SessionOut, Exists, CanBind, Is, HasWorker, Out
<1>2. ASSUME NEW l \in 0..(next - 1), ClaimWithLease(s, i, l) PROVE HandedOut'
  BY <1>2, <1>s, <1>w DEF ClaimWithLease, SessionOut, Exists, CanClaimWithLease, Is, HasWorker, Out
<1>3. CASE CompleteIncarnation(s, i)
  BY <1>3, <1>s, <1>u, <1>w
  DEF CompleteIncarnation, CanCompleteIncarnation, Settled, SessionOut, Exists, Is, HasWorker
<1>4. ASSUME NEW t \in 1..(next - 1), Retain(s, i, t) PROVE HandedOut'
  BY <1>4, <1>s, <1>w DEF Retain, CanRetain, Move, SessionOut, Exists, Is, HasWorker
<1>5. CASE CompleteFinalization(s, i)
  BY <1>5, <1>s, <1>u, <1>w
  DEF CompleteFinalization, CanCompleteFinalization, Settled, SessionOut, Exists, Is, HasWorker
<1>6. ASSUME NEW p \in Procs, ClaimStart(p, s, i) PROVE HandedOut'
  <2>1. next' = next + 1 /\ next \in Out' BY <1>6, OutGrows DEF ClaimStart
  <2>2. SessionOut(s)'
    BY <1>6, <1>s, <2>1 DEF ClaimStart, SessionOut, Exists, HasWorker, Claimed, Out
  <2>3. \A l \in lock' : l[2] \in Out'
    <3>1. \A l \in lock' : l \in lock \/ l = <<p, next>> BY <1>6 DEF ClaimStart
    <3>2. \A l \in lock : l[2] \in Out' BY DEF HandedOut
    <3>3. <<p, next>>[2] \in Out' BY <2>1
    <3> QED BY <3>1, <3>2, <3>3
  <2> QED BY <1>6, <1>o, <2>2, <2>3 DEF ClaimStart
<1>c. ASSUME claim' = [claim EXCEPT ![s] = NoClaim], UNCHANGED <<session, checkout>>, lock' \subseteq lock,
             worker' = worker \/ (HasWorker(s) /\ \E state : worker' = [worker EXCEPT ![s].state = state])
      PROVE  HandedOut'
  <2>1. SessionOut(s)'
    <3>1. ~Claimed(s)' BY <1>c DEF Claimed, NoClaim
    <3>2. CASE worker' = worker BY <1>c, <1>s, <3>1, <3>2 DEF SessionOut, Exists, HasWorker
    <3>3. CASE HasWorker(s) /\ \E state : worker' = [worker EXCEPT ![s].state = state]
      BY <1>c, <1>s, <3>1, <3>3 DEF SessionOut, Exists, HasWorker
    <3> QED BY <1>c, <3>2, <3>3
  <2> QED BY <1>o, <1>c, <2>1, LocksFrame
<1>7. ASSUME NEW k \in 1..(next - 1), CompleteStart(s, i, k) \/ AbortStart(s, i, k) PROVE HandedOut'
  BY <1>7, <1>c, <1>u DEF CompleteStart, CanCompleteStart, AbortStart, Move, Is
<1>8. CASE ClaimCleanup(s, i) \/ ClaimRelease(s, i)
  <2>1. PICK state : worker' = [worker EXCEPT ![s].state = state]
    BY <1>8 DEF ClaimCleanup, ClaimRelease, ClaimState, Move
  <2>2. HasWorker(s) /\ UNCHANGED <<session, claim, checkout, lock>>
    BY <1>8 DEF ClaimCleanup, ClaimRelease, ClaimState, CanClaimState, Is
  <2> QED BY <1>s, <1>w, <2>1, <2>2 DEF SessionOut, Exists, HasWorker
<1>9. ASSUME NEW t \in 1..(next - 1), NEW prior \in Live \cup {"none"}, AbortSnapshot(s, i, t, prior)
       PROVE HandedOut'
  BY <1>9, <1>s, <1>w DEF AbortSnapshot, CanAbortSnapshot, SessionOut, Exists, Is, HasWorker, NoWorker
<1>10. ASSUME NEW claimed \in Claims, AbortClaim(s, i, claimed) \/ CompleteClaim(s, i, claimed)
       PROVE HandedOut'
  <2>1. CASE AbortClaim(s, i, claimed)
    BY <1>s, <1>w, <2>1 DEF AbortClaim, CanSettle, Move, SessionOut, Exists, Is, HasWorker
  <2>2. CASE CompleteClaim(s, i, claimed)
    BY <1>s, <1>u, <1>w, <2>2 DEF CompleteClaim, CanSettle, Settled, SessionOut, Exists, Is, HasWorker
  <2> QED BY <1>10, <2>1, <2>2
<1>11. CASE ReclaimClaim(s, i)
  <2>1. CASE claim[s].id = i BY <1>11, <2>1, <1>c, <1>u DEF ReclaimClaim
  <2>2. CASE claim[s].id # i
    BY <1>11, <2>2, <1>o, <1>u, <1>s, SessionFrame, LocksFrame DEF ReclaimClaim
  <2> QED BY <2>1, <2>2
<1> QED BY <1>1, <1>2, <1>3, <1>4, <1>5, <1>6, <1>7, <1>8, <1>9, <1>10, <1>11 DEF IncarnationNext

LEMMA PoolHandedOut ==
  ASSUME TypeOK, HandedOut, NEW s \in Sessions, NEW c \in Checkouts, PoolNext(s, c), Out \subseteq Out'
  PROVE  HandedOut'
<1> USE DEF TypeOK
<1>c. ASSUME NEW row, SetCheckout(c, row), row.owner \in Out \cup {0},
             row.state \in Busy => row.session \in Sessions /\ row.owner \in Out /\ row.lease \in Out
      PROVE  HandedOut'
  BY <1>c, SessionFrame, CheckoutFrame, LocksFrame DEF HandedOut, SetCheckout, CheckoutOut, Out
<1>f. \A state : Unused(state).state = state /\ Unused(state).owner = 0 BY DEF Unused
<1>1. ASSUME NEW i \in 1..(next - 1), ClaimFree(s, i, c) \/ Reserve(s, i, c) PROVE HandedOut'
  BY <1>1, <1>c DEF ClaimFree, Reserve, Take, Out
<1>2. ASSUME NEW i \in 1..(next - 1), NEW l \in 1..(next - 1), FinalizeCheckout(s, i, l, c) PROVE HandedOut'
  <2>1. CheckoutOut(c) /\ checkout[c].state \in Busy /\ checkout[c] \in CheckoutRow
    BY <1>2 DEF FinalizeCheckout, CanFinalizeCheckout, HandedOut, Busy
  <2>2. SetCheckout(c, [checkout[c] EXCEPT !.state = "leased"]) BY <1>2 DEF FinalizeCheckout
  <2> QED BY <1>c, <2>1, <2>2 DEF CheckoutOut, CheckoutRow
<1>3. ASSUME NEW i \in 1..(next - 1), NEW l \in 1..(next - 1),
             ReleaseCheckout(s, i, l, c) \/ Quarantine(s, i, l, c) \/ RemoveMissing(s, i, l, c)
      PROVE HandedOut'
  BY <1>3, <1>c, <1>f DEF ReleaseCheckout, Quarantine, RemoveMissing, Busy
<1> QED BY <1>1, <1>2, <1>3 DEF PoolNext, RemoveFailed

LEMMA OpenHandedOut ==
  ASSUME TypeOK, HandedOut, Out \subseteq Out',
         \/ AdoptLeases \/ RemoveOrphans
         \/ \E dead \in SUBSET (Sessions \X (1..(next - 1))) : ReclaimAllocations(dead)
  PROVE  HandedOut'
<1> USE DEF TypeOK
<1>1. CASE AdoptLeases
  <2>1. ASSUME NEW s \in Sessions PROVE SessionOut(s)'
    <3>1. CASE ~HasWorker(s) /\ Exists(s) /\ LeasesOf(s) # {}
      <4>1. PICK state : worker'[s] = Adopted(s, state) BY <1>1, <3>1 DEF AdoptLeases
      <4> QED BY <1>1, <3>1, <4>1, AdoptedOut
              DEF AdoptLeases, HandedOut, SessionOut, Exists, HasWorker, Claimed
    <3>2. CASE ~(~HasWorker(s) /\ Exists(s) /\ LeasesOf(s) # {})
      BY <1>1, <3>2, SessionFrame DEF AdoptLeases
    <3> QED BY <3>1, <3>2
  <2> QED BY <1>1, <2>1, CheckoutFrame, LocksFrame DEF AdoptLeases, HandedOut
<1>2. CASE RemoveOrphans
  <2>1. ASSUME NEW s \in Sessions PROVE SessionOut(s)'
    <3>1. \/ session'[s] = NoRow \/ session'[s] = session[s]
          \/ Exists(s) /\ session'[s] = [session[s] EXCEPT !.status = "terminated"]
      BY <1>2 DEF RemoveOrphans, Exists
    <3> QED BY <1>2, <3>1 DEF RemoveOrphans, HandedOut, SessionOut, Exists, HasWorker, Claimed, NoRow
  <2> QED BY <1>2, <2>1, CheckoutFrame, LocksFrame DEF RemoveOrphans, HandedOut
<1>3. ASSUME NEW dead \in SUBSET (Sessions \X (1..(next - 1))), ReclaimAllocations(dead) PROVE HandedOut'
  <2>1. ASSUME NEW s \in Sessions PROVE SessionOut(s)'
    <3>1. \/ session'[s] = session[s]
          \/ Exists(s) /\ session'[s] = [session[s] EXCEPT !.status = "terminated"]
      BY <1>3 DEF ReclaimAllocations, Exists
    <3>2. \/ worker'[s] = worker[s]
          \/ HasWorker(s) /\ worker'[s] = [worker[s] EXCEPT !.state = "released", !.token = FALSE]
      BY <1>3 DEF ReclaimAllocations, HasWorker, Settled
    <3>3. SessionOut(s) /\ session[s] \in SessionRow /\ worker[s] \in WorkerRow /\ claim'[s] = claim[s]
      BY <1>3 DEF ReclaimAllocations, HandedOut
    <3>4. Exists(s)' => session'[s].started \in Out'
      BY <3>1, <3>3 DEF SessionOut, Exists, SessionRow
    <3>5. /\ HasWorker(s)' => worker'[s].id \in Out' /\ worker'[s].started \in Out'
          /\ worker'[s].id \in Out' \cup {0} /\ worker'[s].lease \in Out' \cup {0}
      BY <3>2, <3>3 DEF SessionOut, HasWorker, WorkerRow
    <3> QED BY <3>3, <3>4, <3>5 DEF SessionOut, Claimed
  <2>2. ASSUME NEW c \in Checkouts PROVE CheckoutOut(c)'
    <3>1. checkout'[c] = checkout[c] \/ checkout'[c] = Unused("quarantined")
      BY <1>3 DEF ReclaimAllocations
    <3> QED BY <3>1, CheckoutFrame DEF CheckoutOut, Unused, Busy
  <2>3. lock' \subseteq lock BY <1>3 DEF ReclaimAllocations
  <2> QED BY <2>1, <2>2, <2>3, LocksFrame DEF HandedOut
<1> QED BY <1>1, <1>2, <1>3

LEMMA NextHandedOut == ASSUME TypeOK, HandedOut, [StoreNext]_db PROVE HandedOut'
<1>g. Out \subseteq Out' BY NextGrows
<1>1. ASSUME NEW c \in Checkouts, RecoverQuarantined(c) \/ RemoveQuarantined(c) PROVE HandedOut'
  <2>1. PICK state \in {"free", "absent"} : SetCheckout(c, Unused(state))
    BY <1>1 DEF RecoverQuarantined, RemoveQuarantined
  <2>2. \A d \in Checkouts : CheckoutOut(d)'
    BY <1>g, <2>1, CheckoutFrame DEF SetCheckout, TypeOK, CheckoutOut, Unused, Busy
  <2> QED BY <1>g, <2>1, <2>2, SessionFrame, LocksFrame DEF SetCheckout, HandedOut
<1>2. ASSUME UNCHANGED <<session, worker, claim, checkout>>, lock' \subseteq lock PROVE HandedOut'
  BY <1>2, <1>g, SessionFrame, CheckoutFrame, LocksFrame DEF HandedOut
<1>3. ASSUME NEW p \in Procs, DropLocks(p) PROVE HandedOut' BY <1>2, <1>3 DEF DropLocks
<1>4. CASE Tick BY <1>2, <1>4 DEF Tick
<1>5. CASE UNCHANGED db BY <1>2, <1>5 DEF db
<1> QED BY <1>g, <1>1, <1>3, <1>4, <1>5, SessionHandedOut, IncarnationHandedOut, PoolHandedOut,
           OpenHandedOut
        DEF StoreNext

-----------------------------------------------------------------------------
(* What the commands run against the store are transactions of its clients.  *)
(* These are the arguments a command may use, as numbers it got from the      *)
(* tables: the guards of the transactions say the rest.                       *)

OfIncarnation(s, i) ==
  /\ \A l \in Out \cup {0} : Bind(s, i, l) \/ ClaimWithLease(s, i, l) => StoreNext
  /\ CompleteIncarnation(s, i) \/ CompleteFinalization(s, i) => StoreNext
  /\ \A p \in Procs : ClaimStart(p, s, i) => StoreNext
  /\ \A k : CompleteStart(s, i, k) \/ AbortStart(s, i, k) => StoreNext
  /\ ClaimCleanup(s, i) \/ ClaimRelease(s, i) => StoreNext
  /\ \A t : Retain(s, i, t) => StoreNext
  /\ \A prior \in Live \cup {"none"} : \A t : AbortSnapshot(s, i, t, prior) => StoreNext
  /\ \A claimed \in Claims : AbortClaim(s, i, claimed) \/ CompleteClaim(s, i, claimed) => StoreNext

LEMMA IncarnationClients ==
  ASSUME TypeOK, HandedOut, NEW s \in Sessions, NEW i
  PROVE  OfIncarnation(s, i)
<1>i. ASSUME i \in Out, IncarnationNext(s, i) PROVE StoreNext BY <1>i DEF StoreNext, Out
<1>w. Is(s, i) => i \in Out BY DEF Is, HandedOut, SessionOut
<1>e. Exists(s) => session[s].started \in Out BY DEF HandedOut, SessionOut
<1>1. ASSUME NEW l \in Out \cup {0}, Bind(s, i, l) \/ ClaimWithLease(s, i, l) PROVE StoreNext
  <2>1. i \in Out BY <1>w, <1>1 DEF Bind, CanBind, ClaimWithLease, CanClaimWithLease
  <2>2. l \in 0..(next - 1) BY DEF Out, TypeOK
  <2> QED BY <1>i, <1>1, <2>1, <2>2 DEF IncarnationNext
<1>2. ASSUME CompleteIncarnation(s, i) \/ CompleteFinalization(s, i) PROVE StoreNext
  <2>1. i \in Out
    BY <1>w, <1>2
    DEF CompleteIncarnation, CanCompleteIncarnation, CompleteFinalization, CanCompleteFinalization
  <2> QED BY <1>i, <1>2, <2>1 DEF IncarnationNext
<1>3. ASSUME NEW p \in Procs, ClaimStart(p, s, i) PROVE StoreNext
  <2>1. i \in Out BY <1>w, <1>3 DEF ClaimStart, CanClaimStart
  <2> QED BY <1>i, <1>3, <2>1 DEF IncarnationNext
<1>4. ASSUME NEW k, CompleteStart(s, i, k) \/ AbortStart(s, i, k) PROVE StoreNext
  <2>1. i \in Out /\ k \in 1..(next - 1)
    BY <1>4 DEF CompleteStart, CanCompleteStart, AbortStart, CanAbortStart, HandedOut, SessionOut, Out
  <2> QED BY <1>i, <1>4, <2>1 DEF IncarnationNext
<1>5. ASSUME ClaimCleanup(s, i) \/ ClaimRelease(s, i) PROVE StoreNext
  <2>1. i \in Out BY <1>w, <1>5 DEF ClaimCleanup, ClaimRelease, ClaimState, CanClaimState
  <2> QED BY <1>i, <1>5, <2>1 DEF IncarnationNext
<1>6. ASSUME NEW t, Retain(s, i, t) PROVE StoreNext
  <2>1. i \in Out /\ t \in 1..(next - 1) BY <1>e, <1>w, <1>6 DEF Retain, CanRetain, Out
  <2> QED BY <1>i, <1>6, <2>1 DEF IncarnationNext
<1>7. ASSUME NEW t, NEW prior \in Live \cup {"none"}, AbortSnapshot(s, i, t, prior) PROVE StoreNext
  <2>1. i \in Out /\ t \in 1..(next - 1) BY <1>e, <1>w, <1>7 DEF AbortSnapshot, CanAbortSnapshot, Out
  <2> QED BY <1>i, <1>7, <2>1 DEF IncarnationNext
<1>8. ASSUME NEW claimed \in Claims, AbortClaim(s, i, claimed) \/ CompleteClaim(s, i, claimed) PROVE StoreNext
  <2>1. i \in Out BY <1>w, <1>8 DEF AbortClaim, CompleteClaim, CanSettle
  <2> QED BY <1>i, <1>8, <2>1 DEF IncarnationNext
<1> QED BY <1>1, <1>2, <1>3, <1>4, <1>5, <1>6, <1>7, <1>8 DEF OfIncarnation

OfSession(s) ==
  /\ InsertSpawning(s) \/ DeleteSession(s) \/ BeginFinalization(s) => StoreNext
  /\ \A row \in SessionRow :
      row.status # "none" /\ row.started \in Out /\ UpsertSession(s, row) => StoreNext
  /\ \A c \in Checkouts \cup {NoCheckout} : \A t : TerminalizeSpawning(s, t, c) => StoreNext
  /\ \A c \in Checkouts : \A t : UpdateSpawningWorkspace(s, t, c) => StoreNext
  /\ \A status \in Statuses \ {"none"} : \A t : UpdateStatus(s, t, status) => StoreNext
  /\ \A t : DeleteSpawning(s, t) => StoreNext
  /\ \A t \in Out : ClaimSnapshot(s, t) => StoreNext
  /\ \A p \in Procs, t \in Out \cup {next} : Prepare(p, s, t) => StoreNext

LEMMA SessionClients ==
  ASSUME TypeOK, HandedOut, NEW s \in Sessions
  PROVE  OfSession(s)
<1>s. ASSUME SessionNext(s) PROVE StoreNext BY <1>s DEF StoreNext
<1>e. Exists(s) => session[s].started \in 1..(next - 1) BY DEF HandedOut, SessionOut, Out
<1>1. InsertSpawning(s) \/ DeleteSession(s) \/ BeginFinalization(s) => StoreNext
  BY <1>s DEF SessionNext
<1>2. ASSUME NEW row \in SessionRow, row.status # "none", row.started \in Out, UpsertSession(s, row)
      PROVE  StoreNext
  <2>1. PICK column \in Columns : column = <<row.ws, row.pid, row.talk>> BY AnyColumns DEF SessionRow
  <2>2. row = [status |-> row.status, started |-> row.started, ws |-> column[1],
               pid |-> column[2], talk |-> column[3]]
    BY <2>1 DEF SessionRow
  <2>3. row.status \in Statuses \ {"none"} /\ row.started \in 1..(next - 1) BY <1>2 DEF Out, SessionRow
  <2> QED BY <1>2, <1>s, <2>2, <2>3 DEF SessionNext
<1>3. ASSUME NEW t, NEW c \in Checkouts \cup {NoCheckout}, TerminalizeSpawning(s, t, c) PROVE StoreNext
  <2>1. t \in 1..(next - 1) BY <1>3, <1>e DEF TerminalizeSpawning, CanUpdateSpawning, Exists
  <2>2. PICK column \in Columns : column[1] = c
    <3>1. <<c, TRUE, TRUE>> \in Columns /\ <<c, TRUE, TRUE>>[1] = c BY AnyColumns
    <3> QED BY <3>1
  <2> QED BY <1>3, <1>s, <2>1, <2>2 DEF SessionNext
<1>4. ASSUME NEW t, NEW c \in Checkouts, UpdateSpawningWorkspace(s, t, c) PROVE StoreNext
  <2>1. t \in 1..(next - 1) BY <1>4, <1>e DEF UpdateSpawningWorkspace, CanUpdateSpawning, Exists
  <2> QED BY <1>4, <1>s, <2>1 DEF SessionNext
<1>5. ASSUME NEW t, NEW status \in Statuses \ {"none"}, UpdateStatus(s, t, status) PROVE StoreNext
  <2>1. t \in 1..(next - 1) BY <1>5, <1>e DEF UpdateStatus, CanUpdateStatus
  <2> QED BY <1>5, <1>s, <2>1 DEF SessionNext
<1>6. ASSUME NEW t, DeleteSpawning(s, t) PROVE StoreNext
  <2>1. t \in 1..(next - 1) BY <1>6, <1>e DEF DeleteSpawning, CanDeleteSpawning, Exists
  <2> QED BY <1>6, <1>s, <2>1 DEF SessionNext
<1>7. ASSUME NEW t \in Out, ClaimSnapshot(s, t) PROVE StoreNext
  BY <1>7, <1>s DEF SessionNext, Out
<1>8. ASSUME NEW p \in Procs, NEW t \in Out \cup {next}, Prepare(p, s, t) PROVE StoreNext
  <2>1. t \in 1..next BY DEF Out, TypeOK
  <2> QED BY <1>8, <1>s, <2>1 DEF SessionNext
<1> QED BY <1>1, <1>2, <1>3, <1>4, <1>5, <1>6, <1>7, <1>8 DEF OfSession

OfPool(c) ==
  /\ \A s \in Sessions, i \in Out : ClaimFree(s, i, c) \/ Reserve(s, i, c) => StoreNext
  /\ \A s, i, l : FinalizeCheckout(s, i, l, c) \/ ReleaseCheckout(s, i, l, c)
      \/ Quarantine(s, i, l, c) \/ RemoveMissing(s, i, l, c)
      \/ RemoveFailed(s, i, l, c) => StoreNext
  /\ RecoverQuarantined(c) \/ RemoveQuarantined(c) => StoreNext

LEMMA PoolClients ==
  ASSUME TypeOK, HandedOut, NEW c \in Checkouts
  PROVE  OfPool(c)
<1>1. ASSUME NEW s \in Sessions, NEW i \in Out, ClaimFree(s, i, c) \/ Reserve(s, i, c) PROVE StoreNext
  BY <1>1 DEF StoreNext, PoolNext, Out
<1>2. ASSUME NEW s, NEW i, NEW l,
             FinalizeCheckout(s, i, l, c) \/ ReleaseCheckout(s, i, l, c)
               \/ Quarantine(s, i, l, c) \/ RemoveMissing(s, i, l, c) \/ RemoveFailed(s, i, l, c)
      PROVE  StoreNext
  <2>1. checkout[c].state \in Busy /\ Owns(s, i, l, c)
    BY <1>2 DEF FinalizeCheckout, CanFinalizeCheckout, ReleaseCheckout, CanReleaseCheckout, Quarantine,
                CanQuarantine, RemoveMissing, RemoveFailed, Busy
  <2>2. s \in Sessions /\ i \in 1..(next - 1) /\ l \in 1..(next - 1)
    BY <2>1 DEF HandedOut, CheckoutOut, Owns, Out
  <2>3. PoolNext(s, c) BY <1>2, <2>2 DEF PoolNext
  <2> QED BY <2>2, <2>3 DEF StoreNext
<1>3. RecoverQuarantined(c) \/ RemoveQuarantined(c) => StoreNext BY DEF StoreNext
<1> QED BY <1>1, <1>2, <1>3 DEF OfPool

OfOpen ==
  /\ AdoptLeases \/ RemoveOrphans \/ Tick => StoreNext
  /\ \A dead \in SUBSET (Sessions \X Out) : ReclaimAllocations(dead) => StoreNext
  /\ \A s \in Sessions, k \in Out : ReclaimClaim(s, k) => StoreNext
  /\ \A p \in Procs : DropLocks(p) => StoreNext

LEMMA OpenClients ==
  ASSUME TypeOK, HandedOut
  PROVE  OfOpen
<1>1. AdoptLeases \/ RemoveOrphans \/ Tick => StoreNext BY DEF StoreNext
<1>2. ASSUME NEW dead \in SUBSET (Sessions \X Out), ReclaimAllocations(dead) PROVE StoreNext
  BY <1>2 DEF StoreNext, Out
<1>3. ASSUME NEW s \in Sessions, NEW k \in Out, ReclaimClaim(s, k) PROVE StoreNext
  BY <1>3 DEF StoreNext, IncarnationNext, Out
<1>4. ASSUME NEW p \in Procs, DropLocks(p) PROVE StoreNext BY <1>4 DEF StoreNext
<1> QED BY <1>1, <1>2, <1>3, <1>4 DEF OfOpen

-----------------------------------------------------------------------------
(* What a command knows: numbers that have been handed out, a session, the    *)
(* row it read, a checkout of the pool.                                       *)

Away(r) == r.pc \in {"idle", "done", "exit", "allocations", "try_allocations", "claims", "try_claims"}
(* The commands that read or wrote the session's row when they began.         *)
KnowsRow(r) == /\ ~Away(r)
               /\ r.pc \notin {"finish", "free", "released", "unrelease"}
               /\ r.pc = "stop" => r.cmd \notin {"finalize", "release"}
Fits(r, n) ==
  /\ r.i \in 0..(n - 1) /\ r.k \in 0..(n - 1) /\ r.l \in 0..(n - 1)
  /\ ~Away(r) => r.s \in Sessions
  /\ KnowsRow(r) => r.row.started \in 1..(n - 1)
  /\ r.pc \in {"find", "scan", "visit"} => r.i # 0
  /\ r.pc \in {"create", "workspace", "rehome", "undo"} => r.c \in Checkouts
  /\ r.pc = "visit" => r.left \subseteq Checkouts \X CheckoutRow
  /\ r.pc \in {"try_allocations", "try_claims"} =>
       r.left \subseteq Sessions \X (1..(n - 1)) /\ r.dead \subseteq Sessions \X (1..(n - 1))
  /\ r.pc = "unremove" \/ (r.pc = "stop" /\ r.cmd \in {"remove", "cleanup"}) => r.note \in Live \cup {"none"}
OpsInv == OpsTypeOK /\ HandedOut /\ \A p \in Commands : Fits(op[p], next)

(* Where a command goes with the row it knows, and without it.                *)
Plain == {"unspawn", "bind", "working", "claim", "launch", "complete", "unclaim", "rollback", "settle",
          "terminalize", "status", "ensure", "row", "failed", "reclaim", "retain", "kill_old", "detach",
          "record", "unclaim_row", "prepare"}
Rowless == {"finish", "free", "released", "unrelease"}
Fitting(p) == op'[p] \in OpRec /\ Fits(op'[p], next')

LEMMA CommandsClients == ASSUME OpsInv, Next PROVE [StoreNext]_db
<1>t. TypeOK /\ HandedOut BY DEF OpsInv, OpsTypeOK
<1>s. \A s \in Sessions : OfSession(s) /\ \A i : OfIncarnation(s, i)
  BY <1>t, SessionClients, IncarnationClients
<1>c. \A c \in Checkouts : OfPool(c) BY <1>t, PoolClients
<1>o. OfOpen BY <1>t, OpenClients
<1>1. ASSUME NEW p \in Commands, Start(p) PROVE [StoreNext]_db
  <2>1. CASE OpenAdopt(p) BY <2>1, <1>o DEF OpenAdopt, OfOpen
  <2>2. ASSUME NEW s \in Sessions,
               \/ SpawnInsert(p, s) \/ RefileStart(p, s) \/ ResumeStart(p, s) \/ RelaunchStart(p, s)
               \/ FinalizeStart(p, s) \/ ReleaseStart(p, s) \/ RemoveStart(p, "remove", s)
               \/ RemoveStart(p, "cleanup", s)
        PROVE  [StoreNext]_db
    <3>1. CASE SpawnInsert(p, s) BY <3>1, <1>s DEF SpawnInsert, OfSession
    <3>2. CASE RefileStart(p, s) BY <3>2 DEF RefileStart, Keep
    <3>3. CASE ResumeStart(p, s) BY <3>3, <1>s, ProcsAssumption DEF ResumeStart, OfIncarnation
    <3>4. CASE RelaunchStart(p, s) BY <3>4, <1>o DEF RelaunchStart, OfOpen
    <3>5. CASE FinalizeStart(p, s) BY <3>5, <1>s DEF FinalizeStart, OfSession
    <3>6. CASE ReleaseStart(p, s) BY <3>6, <1>s DEF ReleaseStart, OfIncarnation, Keep
    <3>7. CASE RemoveStart(p, "remove", s) BY <3>7 DEF RemoveStart, Keep
    <3>8. CASE RemoveStart(p, "cleanup", s) BY <3>8 DEF RemoveStart, Keep
    <3> QED BY <2>2, <3>1, <3>2, <3>3, <3>4, <3>5, <3>6, <3>7, <3>8
  <2> QED BY <1>1, <2>1, <2>2 DEF Start
<1>2. ASSUME NEW p \in Commands, Step(p) PROVE [StoreNext]_db
  <2>f. Fits(op[p], next) /\ op[p] \in OpRec BY DEF OpsInv, OpsTypeOK
  <2>s. ~Away(op[p]) => op[p].s \in Sessions /\ OfSession(op[p].s) BY <1>s, <2>f DEF Fits
  <2>i. ~Away(op[p]) => OfIncarnation(op[p].s, op[p].i) BY <1>s, <2>s
  <2>r. KnowsRow(op[p]) => op[p].row \in SessionRow /\ op[p].row.started \in Out
    BY <2>f DEF Fits, OpRec, Out
  <2>c. /\ op[p].pc \in {"create", "workspace", "rehome", "undo"} => op[p].c \in Checkouts
        /\ op[p].pc = "visit" => op[p].i \in Out /\ op[p].s \in Sessions /\ op[p].left \subseteq Checkouts \X CheckoutRow
    BY <2>f DEF Fits, Out, Away
  <2>n. /\ op[p].i \in Out \cup {0} /\ op[p].l \in Out \cup {0}
        /\ op[p].pc = "unremove" => op[p].note \in Live \cup {"none"}
    BY <2>f DEF Fits, Out
  <2>l. op[p].s \in Sessions => run[op[p].s].live \in BOOLEAN BY DEF OpsInv, OpsTypeOK, RunRow
  <2>o. op[p].pc \in {"try_allocations", "try_claims"} => op[p].dead \subseteq Sessions \X Out
    BY <2>f DEF Fits, Out
  <2>1. CASE AcquireScan(p) BY <2>1 DEF AcquireScan, Keep
  <2>2. CASE VisitProvisioning(p) BY <2>2, <1>c, <2>c DEF VisitProvisioning, OfPool, Away, At, Keep
  <2>3. CASE VisitQuarantined(p) BY <2>3, <1>c, <2>c DEF VisitQuarantined, OfPool, Away, At, Keep
  <2>4. CASE TakeCheckout(p) BY <2>4, <1>c, <2>c DEF TakeCheckout, OfPool, Away, At, Keep
  <2>5. CASE Create(p) BY <2>5, <1>c, <2>c DEF Create, OfPool, Away, At, Keep
  <2>6. CASE Rollback(p) BY <2>6, <2>i, <2>n DEF Rollback, OfIncarnation, Away, At, Keep
  <2>7. CASE Undo(p) BY <2>7, <1>c, <2>c DEF Undo, OfPool, Away, At, GiveBack, Keep
  <2>8. CASE Settle(p) BY <2>8, <2>i DEF Settle, OfIncarnation, Away, At, Keep, Claims
  <2>9. CASE Mark(p)
    <3>1. OfSession(op[p].s) BY <2>9, <2>s DEF Mark, Away, At
    <3>2. NoCheckout \in Checkouts \cup {NoCheckout} /\ "terminated" \in Statuses \ {"none"}
      BY DEF Statuses
    <3>3. \A t : TerminalizeSpawning(op[p].s, t, NoCheckout) \/ UpdateStatus(op[p].s, t, "terminated") => StoreNext
      BY <3>1, <3>2 DEF OfSession
    <3> QED BY <2>9, <3>3 DEF Mark, Keep
  <2>10. CASE Launch(p) BY <2>10 DEF Launch, Keep
  <2>11. CASE CompleteLaunch(p) BY <2>11, <2>i DEF CompleteLaunch, OfIncarnation, Away, At
  <2>12. CASE Unclaim(p) BY <2>12, <2>i DEF Unclaim, OfIncarnation, Away, At, Keep
  <2>13. CASE SpawnPrepare(p)
    BY <2>13, <2>s, <2>r, ProcsAssumption DEF SpawnPrepare, OfSession, Away, KnowsRow, At, Keep
  <2>14. CASE Unspawn(p) BY <2>14, <2>s DEF Unspawn, OfSession, Away, At, Keep
  <2>15. CASE SpawnWorkspace(p)
    <3>1. OfSession(op[p].s) /\ op[p].c \in Checkouts BY <2>15, <2>s, <2>c DEF SpawnWorkspace, Away, At
    <3>2. \A t : UpdateSpawningWorkspace(op[p].s, t, op[p].c) => StoreNext BY <3>1 DEF OfSession
    <3> QED BY <2>15, <3>2 DEF SpawnWorkspace, Keep
  <2>16. CASE BindLease(p) BY <2>16, <2>i, <2>n DEF BindLease, OfIncarnation, Away, At, Keep
  <2>17. CASE SpawnWorking(p)
    <3>1. OfSession(op[p].s) /\ op[p].row \in SessionRow /\ op[p].row.started \in Out
      BY <2>17, <2>s, <2>r DEF SpawnWorking, Away, KnowsRow, At
    <3>2. LET row == [op[p].row EXCEPT !.status = "working", !.talk = TRUE]
          IN  row \in SessionRow /\ row.status # "none" /\ row.started \in Out
      BY <3>1, Zenon DEF SessionRow, Statuses
    <3> QED BY <2>17, <3>1, <3>2 DEF SpawnWorking, OfSession, Keep
  <2>18. CASE SpawnClaim(p)
    BY <2>18, <2>i, ProcsAssumption DEF SpawnClaim, OfIncarnation, Away, At, Keep
  <2>19. CASE RefileStop(p) BY <2>19 DEF RefileStop, Keep
  <2>20. CASE RefilePrepare(p)
    BY <2>20, <2>s, ProcsAssumption DEF RefilePrepare, OfSession, Away, At, Keep
  <2>21. CASE RefileFind(p) BY <2>21 DEF RefileFind, Keep
  <2>22. CASE RefileRehome(p)
    <3>1. OfSession(op[p].s) /\ op[p].s \in Sessions /\ op[p].c \in Checkouts
      BY <2>22, <2>s, <2>c DEF RefileRehome, Away, At
    <3>2. CASE Exists(op[p].s)
      <4>1. session[op[p].s] \in SessionRow /\ session[op[p].s].started \in Out
        BY <1>t, <3>1, <3>2 DEF TypeOK, HandedOut, SessionOut
      <4>2. LET row == [session[op[p].s] EXCEPT !.ws = op[p].c]
            IN  row \in SessionRow /\ row.status # "none" /\ row.started \in Out
        BY <3>1, <3>2, <4>1, Zenon DEF SessionRow, Exists
      <4> QED BY <2>22, <3>1, <3>2, <4>2 DEF RefileRehome, OfSession
    <3> QED BY <2>22, <3>2 DEF RefileRehome, Keep
  <2>23. CASE Ensure(p) BY <2>23, <1>c DEF Ensure, OfPool, Keep, LeasesOf
  <2>24. CASE LaunchedRow(p)
    <3>1. OfSession(op[p].s) /\ op[p].row \in SessionRow /\ op[p].row.started \in Out
      BY <2>24, <2>s, <2>r DEF LaunchedRow, Away, KnowsRow, At
    <3>2. LET row == [op[p].row EXCEPT !.status = "working", !.pid = run[op[p].s].live, !.talk = TRUE]
          IN  row \in SessionRow /\ row.status # "none" /\ row.started \in Out
      <4>1. run[op[p].s].live \in BOOLEAN BY <2>24, <2>s, <2>l DEF LaunchedRow, Away, At
      <4> QED BY <3>1, <4>1, Zenon DEF SessionRow, Statuses
    <3> QED BY <2>24, <3>1, <3>2 DEF LaunchedRow, OfSession, Keep
  <2>25. CASE FailedRow(p)
    <3>1. OfSession(op[p].s) /\ op[p].s \in Sessions BY <2>25, <2>s DEF FailedRow, Away, At
    <3>2. CASE Exists(op[p].s)
      <4>1. session[op[p].s] \in SessionRow /\ session[op[p].s].started \in Out
        BY <1>t, <3>1, <3>2 DEF TypeOK, HandedOut, SessionOut
      <4>2. ASSUME NEW status \in {"terminated", "done"}
            PROVE  LET row == [session[op[p].s] EXCEPT !.status = status]
                   IN  row \in SessionRow /\ row.status # "none" /\ row.started \in Out
        BY <4>1, <4>2, Zenon DEF SessionRow, Statuses
      <4>3. \E status \in {"terminated", "done"} : UpsertSession(op[p].s, [session[op[p].s] EXCEPT !.status = status])
        BY <2>25, <3>2 DEF FailedRow
      <4> QED BY <3>1, <4>2, <4>3 DEF OfSession
    <3> QED BY <2>25, <3>2 DEF FailedRow, Keep
  <2>26. CASE RefileReclaim(p) BY <2>26, <2>i DEF RefileReclaim, OfIncarnation, Away, At, Keep
  <2>27. CASE RefileRetain(p) BY <2>27, <2>i DEF RefileRetain, OfIncarnation, Away, At, Keep, Claims
  <2>28. CASE KillOld(p) BY <2>28 DEF KillOld, Keep
  <2>29. CASE FinalizeStop(p) BY <2>29 DEF FinalizeStop, Keep
  <2>30. CASE FinalizeFinish(p) BY <2>30, <2>i DEF FinalizeFinish, OfIncarnation, Away, At, Keep
  <2>31. CASE ReleaseStop(p) BY <2>31 DEF ReleaseStop, Keep
  <2>32. CASE ReleaseFree(p) BY <2>32, <1>c DEF ReleaseFree, OfPool, Keep, LeasesOf
  <2>33. CASE ReleaseSettle(p) BY <2>33, <2>i DEF ReleaseSettle, OfIncarnation, Away, At, Keep, Claims
  <2>34. CASE RemoveClaim(p) BY <2>34, <2>s, <2>r DEF RemoveClaim, OfSession, Away, KnowsRow, At, Keep
  <2>35. CASE RemoveStop(p) BY <2>35 DEF RemoveStop, Keep
  <2>36. CASE RemoveAbort(p)
    <3>1. OfIncarnation(op[p].s, op[p].i) /\ op[p].note \in Live \cup {"none"}
      BY <2>36, <2>i, <2>n DEF RemoveAbort, Away, At
    <3>2. \A t : AbortSnapshot(op[p].s, op[p].i, t, op[p].note) => StoreNext BY <3>1 DEF OfIncarnation
    <3> QED BY <2>36, <3>2 DEF RemoveAbort, Keep
  <2>37. CASE RemoveDetach(p) BY <2>37, <1>c DEF RemoveDetach, OfPool, Keep, GiveBack, LeasesOf
  <2>38. CASE RemoveRecord(p)
    <3>1. OfSession(op[p].s) /\ op[p].row \in SessionRow /\ op[p].row.started \in Out
      BY <2>38, <2>s, <2>r DEF RemoveRecord, Away, KnowsRow, At
    <3>2. LET row == [op[p].row EXCEPT !.status = "done"]
          IN  row \in SessionRow /\ row.status # "none" /\ row.started \in Out
      BY <3>1, Zenon DEF SessionRow, Statuses
    <3> QED BY <2>38, <3>1, <3>2 DEF RemoveRecord, OfSession, Keep
  <2>39. CASE RemoveSettle(p) BY <2>39, <2>i DEF RemoveSettle, OfIncarnation, Away, At, Keep, Claims
  <2>40. CASE OpenScan(p) BY <2>40 DEF OpenScan, Keep
  <2>41. CASE OpenTryLock(p) BY <2>41 DEF OpenTryLock, Keep
  <2>42. CASE OpenReclaimAllocations(p) BY <2>42, <1>o, <2>o DEF OpenReclaimAllocations, OfOpen, At
  <2>43. CASE OpenReclaimClaim(p) BY <2>43, <1>o, <2>o DEF OpenReclaimClaim, OfOpen, At
  <2>44. CASE OpenOrphans(p) BY <2>44, <1>o DEF OpenOrphans, OfOpen
  <2>45. CASE Exit(p) BY <2>45, <1>o, ProcsAssumption DEF Exit, OfOpen
  <2> QED BY <1>2, <2>1, <2>2, <2>3, <2>4, <2>5, <2>6, <2>7, <2>8, <2>9, <2>10, <2>11, <2>12, <2>13,
            <2>14, <2>15, <2>16, <2>17, <2>18, <2>19, <2>20, <2>21, <2>22, <2>23, <2>24, <2>25,
            <2>26, <2>27, <2>28, <2>29, <2>30, <2>31, <2>32, <2>33, <2>34, <2>35, <2>36, <2>37,
            <2>38, <2>39, <2>40, <2>41, <2>42, <2>43, <2>44, <2>45
          DEF Step
<1>3. ASSUME NEW p \in Commands, Crash(p) PROVE [StoreNext]_db
  BY <1>3, <1>o, ProcsAssumption DEF Crash, OfOpen
<1>4. CASE CrashApp BY <1>4, <1>o, ProcsAssumption DEF CrashApp, OfOpen
<1>5. ASSUME NEW s \in Sessions, AgentExits(s) \/ PollPid(s) \/ AgentReports(s) \/ Merged(s)
      PROVE  [StoreNext]_db
  <2>1. CASE AgentExits(s) BY <2>1 DEF AgentExits, Keep
  <2>2. CASE PollPid(s)
    <3>1. session[s] \in SessionRow /\ session[s].started \in Out
      BY <1>t, <2>2 DEF PollPid, TypeOK, HandedOut, SessionOut, Exists
    <3> QED BY <1>s, <2>2, <3>1 DEF PollPid, OfSession, SessionRow, Statuses
  <2>3. CASE AgentReports(s) BY <1>s, <2>3 DEF AgentReports, OfIncarnation
  <2>4. CASE Merged(s) BY <1>s, <2>4 DEF Merged, OfIncarnation
  <2> QED BY <1>5, <2>1, <2>2, <2>3, <2>4
<1> QED BY <1>1, <1>2, <1>3, <1>4, <1>5 DEF Next

LEMMA KillTyped ==
  ASSUME run \in [Sessions -> RunRow], NEW s, Kill(s) PROVE run' \in [Sessions -> RunRow]
<1>1. CASE s \in Sessions
  <2>1. Ended(s) \in RunRow BY <1>1 DEF Ended, RunRow
  <2> QED BY <1>1, <2>1 DEF Kill
<1>2. CASE s \notin Sessions BY <1>2 DEF Kill
<1> QED BY <1>1, <1>2

LEMMA CommandFrame ==
  ASSUME OpsInv, NEW p \in Commands, Start(p) \/ Step(p)
  PROVE  op' = [op EXCEPT ![p] = op'[p]] /\ run' \in [Sessions -> RunRow]
<1>t. op \in [Commands -> OpRec] /\ run \in [Sessions -> RunRow] /\ \A q \in Commands : Fits(op[q], next)
  BY DEF OpsInv, OpsTypeOK
<1>1. CASE Start(p)
  <2>1. CASE OpenAdopt(p) BY <2>1, <1>t DEF OpenAdopt, Set
  <2>2. ASSUME NEW s \in Sessions,
               \/ SpawnInsert(p, s) \/ RefileStart(p, s) \/ ResumeStart(p, s) \/ RelaunchStart(p, s)
               \/ FinalizeStart(p, s) \/ ReleaseStart(p, s) \/ RemoveStart(p, "remove", s)
               \/ RemoveStart(p, "cleanup", s)
        PROVE  op' = [op EXCEPT ![p] = op'[p]] /\ run' \in [Sessions -> RunRow]
    <3>1. CASE SpawnInsert(p, s) BY <3>1, <1>t DEF SpawnInsert, Set
    <3>2. CASE RefileStart(p, s) BY <3>2, <1>t DEF RefileStart, Set
    <3>3. CASE ResumeStart(p, s) BY <3>3, <1>t DEF ResumeStart, Set
    <3>4. CASE RelaunchStart(p, s) BY <3>4, <1>t DEF RelaunchStart, Set
    <3>5. CASE FinalizeStart(p, s) BY <3>5, <1>t DEF FinalizeStart, Set
    <3>6. CASE ReleaseStart(p, s) BY <3>6, <1>t DEF ReleaseStart, Set
    <3>7. CASE RemoveStart(p, "remove", s) BY <3>7, <1>t DEF RemoveStart, Set
    <3>8. CASE RemoveStart(p, "cleanup", s) BY <3>8, <1>t DEF RemoveStart, Set
    <3> QED BY <2>2, <3>1, <3>2, <3>3, <3>4, <3>5, <3>6, <3>7, <3>8
  <2> QED BY <1>1, <2>1, <2>2 DEF Start
<1>2. CASE Step(p)
  <2>s. ~Away(op[p]) => op[p].s \in Sessions BY <1>t DEF Fits
  <2>r. op[p].i \in Numbers /\ op[p].row.ws \in Checkouts \cup {NoCheckout}
    BY <1>t DEF OpRec, SessionRow
  <2>1. CASE AcquireScan(p) BY <2>1, <1>t, <2>s DEF AcquireScan, Set
  <2>2. CASE VisitProvisioning(p) BY <2>2, <1>t, <2>s DEF VisitProvisioning, Set, NotAcquired, Leave
  <2>3. CASE VisitQuarantined(p) BY <2>3, <1>t, <2>s DEF VisitQuarantined, Set
  <2>4. CASE TakeCheckout(p) BY <2>4, <1>t, <2>s DEF TakeCheckout, Set, NotAcquired
  <2>5. CASE Create(p) BY <2>5, <1>t, <2>s DEF Create, NotAcquired, Set, Acquired, Go
  <2>6. CASE Rollback(p) BY <2>6, <1>t, <2>s DEF Rollback, End, Set, Go
  <2>7. CASE Undo(p) BY <2>7, <1>t, <2>s DEF Undo, Go, Set
  <2>8. CASE Settle(p) BY <2>8, <1>t, <2>s DEF Settle, End, Set, Go
  <2>9. CASE Mark(p) BY <2>9, <1>t, <2>s DEF Mark, End, Set
  <2>10. CASE Launch(p)
    <3>1. run' \in [Sessions -> RunRow]
      <4>1. \/ run' = run
            \/ run' = [run EXCEPT ![op[p].s] = [live |-> TRUE, ran |-> TRUE, inc |-> op[p].i, ws |-> op[p].row.ws]]
        BY <2>10 DEF Launch
      <4>2. [live |-> TRUE, ran |-> TRUE, inc |-> op[p].i, ws |-> op[p].row.ws] \in RunRow
        BY <2>r, Zenon DEF RunRow
      <4> QED BY <1>t, <4>1, <4>2
    <3>2. op' = [op EXCEPT ![p] = op'[p]] BY <2>10, <1>t DEF Launch, Go, GoNote, Set
    <3> QED BY <3>1, <3>2
  <2>11. CASE CompleteLaunch(p) BY <2>11, <1>t, <2>s DEF CompleteLaunch, End, Set
  <2>12. CASE Unclaim(p) BY <2>12, <1>t, <2>s DEF Unclaim, End, Set, Go
  <2>13. CASE SpawnPrepare(p) BY <2>13, <1>t, <2>s DEF SpawnPrepare, Go, Set
  <2>14. CASE Unspawn(p) BY <2>14, <1>t, <2>s DEF Unspawn, End, Set
  <2>15. CASE SpawnWorkspace(p) BY <2>15, <1>t, <2>s DEF SpawnWorkspace, GoNote, Set
  <2>16. CASE BindLease(p) BY <2>16, <1>t, <2>s DEF BindLease, GoNote, Set, Go
  <2>17. CASE SpawnWorking(p) BY <2>17, <1>t, <2>s DEF SpawnWorking, GoNote, Set, Go
  <2>18. CASE SpawnClaim(p) BY <2>18, <1>t, <2>s DEF SpawnClaim, End, Set
  <2>19. CASE RefileStop(p)
    <3>1. run' = run \/ Kill(op[p].s) BY <2>19 DEF RefileStop, StopOr, Stop
    <3>2. run' \in [Sessions -> RunRow] BY <1>t, <3>1, KillTyped
    <3>3. op' = [op EXCEPT ![p] = op'[p]] BY <2>19, <1>t DEF RefileStop, StopOr, End, Go, Set
    <3> QED BY <3>2, <3>3
  <2>20. CASE RefilePrepare(p) BY <2>20, <1>t, <2>s DEF RefilePrepare, End, Set
  <2>21. CASE RefileFind(p) BY <2>21, <1>t, <2>s DEF RefileFind, Go, Set
  <2>22. CASE RefileRehome(p) BY <2>22, <1>t, <2>s DEF RefileRehome, Set
  <2>23. CASE Ensure(p) BY <2>23, <1>t, <2>s DEF Ensure, Go, Set, EnsureFails, GoNote
  <2>24. CASE LaunchedRow(p) BY <2>24, <1>t, <2>s DEF LaunchedRow, End, Set, Go
  <2>25. CASE FailedRow(p) BY <2>25, <1>t, <2>s DEF FailedRow, End, Set, Go
  <2>26. CASE RefileReclaim(p) BY <2>26, <1>t, <2>s DEF RefileReclaim, End, Set, Go
  <2>27. CASE RefileRetain(p) BY <2>27, <1>t, <2>s DEF RefileRetain, End, Set
  <2>28. CASE KillOld(p) BY <2>28, <1>t, KillTyped DEF KillOld, Go, Set
  <2>29. CASE FinalizeStop(p)
    <3>1. run' = run \/ Kill(op[p].s) BY <2>29 DEF FinalizeStop, StopOr, Stop
    <3>2. run' \in [Sessions -> RunRow] BY <1>t, <3>1, KillTyped
    <3>3. op' = [op EXCEPT ![p] = op'[p]] BY <2>29, <1>t DEF FinalizeStop, StopOr, End, Go, Set
    <3> QED BY <3>2, <3>3
  <2>30. CASE FinalizeFinish(p) BY <2>30, <1>t, <2>s DEF FinalizeFinish, End, Set
  <2>31. CASE ReleaseStop(p)
    <3>1. run' = run \/ Kill(op[p].s) BY <2>31 DEF ReleaseStop, StopOr, Stop
    <3>2. run' \in [Sessions -> RunRow] BY <1>t, <3>1, KillTyped
    <3>3. op' = [op EXCEPT ![p] = op'[p]] BY <2>31, <1>t DEF ReleaseStop, StopOr, End, Go, Set
    <3> QED BY <3>2, <3>3
  <2>32. CASE ReleaseFree(p) BY <2>32, <1>t, <2>s DEF ReleaseFree, Go, Set
  <2>33. CASE ReleaseSettle(p) BY <2>33, <1>t, <2>s DEF ReleaseSettle, End, Set
  <2>34. CASE RemoveClaim(p) BY <2>34, <1>t, <2>s DEF RemoveClaim, End, Set
  <2>35. CASE RemoveStop(p)
    <3>1. run' = run \/ Kill(op[p].s) BY <2>35 DEF RemoveStop, StopOr, Stop
    <3>2. run' \in [Sessions -> RunRow] BY <1>t, <3>1, KillTyped
    <3>3. op' = [op EXCEPT ![p] = op'[p]] BY <2>35, <1>t DEF RemoveStop, StopOr, End, Go, Set
    <3> QED BY <3>2, <3>3
  <2>36. CASE RemoveAbort(p) BY <2>36, <1>t, <2>s DEF RemoveAbort, End, Set
  <2>37. CASE RemoveDetach(p) BY <2>37, <1>t, <2>s DEF RemoveDetach, Go, Set
  <2>38. CASE RemoveRecord(p) BY <2>38, <1>t, <2>s DEF RemoveRecord, Go, Set
  <2>39. CASE RemoveSettle(p) BY <2>39, <1>t, <2>s DEF RemoveSettle, End, Set
  <2>40. CASE OpenScan(p) BY <2>40, <1>t, <2>s DEF OpenScan, Set
  <2>41. CASE OpenTryLock(p) BY <2>41, <1>t, <2>s DEF OpenTryLock, Set
  <2>42. CASE OpenReclaimAllocations(p) BY <2>42, <1>t, <2>s DEF OpenReclaimAllocations, Go, Set
  <2>43. CASE OpenReclaimClaim(p) BY <2>43, <1>t, <2>s DEF OpenReclaimClaim, Set
  <2>44. CASE OpenOrphans(p) BY <2>44, <1>t, <2>s DEF OpenOrphans, End, Set
  <2>45. CASE Exit(p) BY <2>45, <1>t, <2>s DEF Exit, Go, Set
  <2> QED BY <1>2, <2>1, <2>2, <2>3, <2>4, <2>5, <2>6, <2>7, <2>8, <2>9, <2>10, <2>11, <2>12, <2>13,
            <2>14, <2>15, <2>16, <2>17, <2>18, <2>19, <2>20, <2>21, <2>22, <2>23, <2>24, <2>25,
            <2>26, <2>27, <2>28, <2>29, <2>30, <2>31, <2>32, <2>33, <2>34, <2>35, <2>36, <2>37,
            <2>38, <2>39, <2>40, <2>41, <2>42, <2>43, <2>44, <2>45
          DEF Step
<1> QED BY <1>1, <1>2

-----------------------------------------------------------------------------
(* What a command becomes stays a command's record.                          *)

LEMMA OpUpdates ==
  ASSUME NEW r \in OpRec, NEW pc \in Pcs, NEW note \in Notes, NEW i \in Numbers, NEW l \in Numbers,
         NEW c \in Checkouts \cup {NoCheckout}, NEW row \in SessionRow,
         NEW left \in SUBSET Seen, NEW dead \in SUBSET (Sessions \X Numbers)
  PROVE  /\ [r EXCEPT !.pc = pc] \in OpRec
         /\ [r EXCEPT !.left = left] \in OpRec
         /\ [r EXCEPT !.dead = dead] \in OpRec
         /\ [r EXCEPT !.pc = pc, !.note = note] \in OpRec
         /\ [r EXCEPT !.pc = pc, !.left = left] \in OpRec
         /\ [r EXCEPT !.pc = pc, !.c = c] \in OpRec
         /\ [r EXCEPT !.pc = pc, !.i = i] \in OpRec
         /\ [r EXCEPT !.pc = pc, !.k = i] \in OpRec
         /\ [r EXCEPT !.pc = pc, !.row = row] \in OpRec
         /\ [r EXCEPT !.left = left, !.dead = dead] \in OpRec
         /\ [r EXCEPT !.pc = pc, !.c = c, !.note = note] \in OpRec
         /\ [r EXCEPT !.pc = pc, !.c = c, !.left = left, !.note = note] \in OpRec
         /\ [r EXCEPT !.pc = pc, !.i = i, !.l = l, !.note = note] \in OpRec
         /\ [r EXCEPT !.pc = pc, !.i = i, !.l = l, !.row = row] \in OpRec
         /\ [r EXCEPT !.pc = pc, !.dead = dead, !.left = left] \in OpRec
<1>1. [r EXCEPT !.pc = pc] \in OpRec BY DEF OpRec
<1>2. [r EXCEPT !.left = left] \in OpRec BY DEF OpRec
<1>3. [r EXCEPT !.dead = dead] \in OpRec BY DEF OpRec
<1>4. [r EXCEPT !.pc = pc, !.note = note] \in OpRec BY DEF OpRec
<1>5. [r EXCEPT !.pc = pc, !.left = left] \in OpRec BY DEF OpRec
<1>6. [r EXCEPT !.pc = pc, !.c = c] \in OpRec BY DEF OpRec
<1>7. [r EXCEPT !.pc = pc, !.i = i] \in OpRec BY DEF OpRec
<1>8. [r EXCEPT !.pc = pc, !.k = i] \in OpRec BY DEF OpRec
<1>9. [r EXCEPT !.pc = pc, !.row = row] \in OpRec BY DEF OpRec
<1>10. [r EXCEPT !.left = left, !.dead = dead] \in OpRec BY DEF OpRec
<1>11. [r EXCEPT !.pc = pc, !.c = c, !.note = note] \in OpRec BY DEF OpRec
<1>12. [r EXCEPT !.pc = pc, !.c = c, !.left = left, !.note = note] \in OpRec BY DEF OpRec
<1>13. [r EXCEPT !.pc = pc, !.i = i, !.l = l, !.note = note] \in OpRec BY DEF OpRec
<1>14. [r EXCEPT !.pc = pc, !.i = i, !.l = l, !.row = row] \in OpRec BY DEF OpRec
<1>15. [r EXCEPT !.pc = pc, !.dead = dead, !.left = left] \in OpRec BY DEF OpRec
<1> QED BY <1>1, <1>2, <1>3, <1>4, <1>5, <1>6, <1>7, <1>8, <1>9, <1>10, <1>11, <1>12, <1>13, <1>14,
           <1>15

LEMMA KnownPcs ==
  /\ "done" \in Pcs /\ "exit" \in Pcs /\ "scan" \in Pcs /\ "visit" \in Pcs /\ "create" \in Pcs /\ "bind" \in Pcs
  /\ "launch" \in Pcs /\ "find" \in Pcs /\ "ensure" \in Pcs /\ "stop" \in Pcs /\ "new" \in Notes
  BY DEF Pcs, Notes

LEMMA IdleRecord == Idle \in OpRec /\ NoRow \in SessionRow
<1>1. NoRow \in SessionRow BY DEF NoRow, SessionRow, Statuses, Numbers
<1>2. 0 \in Numbers /\ "idle" \in Pcs /\ "none" \in Notes BY DEF Numbers, Pcs, Notes, WorkerStates
<1> QED BY <1>1, <1>2 DEF Idle, OpRec

LEMMA BeginRecord ==
  ASSUME NEW p, NEW kind \in Kinds, NEW s \in Sessions \cup {NoSession}, NEW pc \in Pcs
  PROVE  Begin(p, kind, s, pc) \in OpRec
  BY IdleRecord DEF Begin, OpRec

LEMMA ZeroNumber == \A n \in Nat : n >= 1 => 0 \in 0..(n - 1)
  OBVIOUS

LEMMA EndFits ==
  ASSUME op \in [Commands -> OpRec], NEW p \in Commands, End(p), next' \in Nat, next' >= 1 PROVE Fitting(p)
<1>1. PICK pc \in {"done", "exit"} : op'[p] = [Idle EXCEPT !.cmd = op[p].cmd, !.pc = pc]
  BY DEF End, Set
<1>2. op[p].cmd \in Kinds \cup {"none"} BY DEF OpRec
<1>3. op'[p].pc \in {"done", "exit"} /\ op'[p].i = 0 /\ op'[p].k = 0 /\ op'[p].l = 0
  BY <1>1 DEF Idle
<1>4. op'[p] \in OpRec
  <2>1. [Idle EXCEPT !.cmd = op[p].cmd, !.pc = pc] \in OpRec BY <1>2, IdleRecord, KnownPcs DEF OpRec
  <2> QED BY <1>1, <2>1
<1>5. 0 \in 0..(next' - 1) BY ZeroNumber
<1>6. Away(op'[p]) /\ op'[p].pc \in {"done", "exit"} BY <1>3 DEF Away
<1> QED BY <1>3, <1>4, <1>5, <1>6 DEF Fitting, Fits, KnowsRow

LEMMA MoveFits ==
  ASSUME op \in [Commands -> OpRec], NEW p \in Commands, Fits(op[p], next), ~Away(op[p]),
         next \in Nat, next' \in Nat, next <= next',
         NEW pc \in Plain \cup Rowless, pc \in Plain => KnowsRow(op[p]),
         Go(p, pc) \/ \E note \in Notes : GoNote(p, pc, note)
  PROVE  Fitting(p)
<1>1. pc \in Pcs /\ pc \notin {"find", "scan", "visit", "create", "workspace", "rehome", "undo", "stop",
                              "unremove", "try_allocations", "try_claims"}
  BY DEF Plain, Rowless, Pcs
<1>2. PICK note \in Notes : op'[p] = [op[p] EXCEPT !.pc = pc,
                                                   !.note = note] \/ op'[p] = [op[p] EXCEPT !.pc = pc]
  BY DEF Go, GoNote, Set, Notes
<1>r. op[p] \in OpRec OBVIOUS
<1>0. op'[p] \in OpRec
  <2>1. ASSUME NEW r \in OpRec PROVE [r EXCEPT !.pc = pc] \in OpRec /\ [r EXCEPT !.pc = pc,
                                               !.note = note] \in OpRec
    <3>1. [r EXCEPT !.pc = pc] \in OpRec BY <1>1 DEF OpRec
    <3>2. [r EXCEPT !.pc = pc, !.note = note] \in OpRec BY <1>1 DEF OpRec
    <3> QED BY <3>1, <3>2
  <2> QED BY <1>2, <1>r, <2>1, Zenon
<1>3. /\ op'[p].pc = pc /\ op'[p].s = op[p].s /\ op'[p].i = op[p].i /\ op'[p].k = op[p].k
      /\ op'[p].l = op[p].l /\ op'[p].row = op[p].row
  BY <1>2, <1>r DEF OpRec
<1>4. op[p].s \in Sessions /\ op[p].i \in 0..(next' - 1) /\ op[p].k \in 0..(next' - 1) /\ op[p].l \in 0..(next' - 1)
  BY DEF Fits
<1>5. pc \in Plain => op[p].row.started \in 1..(next' - 1) BY DEF Fits
<1>6. pc \in Rowless => ~KnowsRow(op'[p]) BY <1>3 DEF Rowless, KnowsRow
<1> QED BY <1>0, <1>1, <1>3, <1>4, <1>5, <1>6 DEF Fitting, Fits

(* A command that keeps its session and its row fits where its numbers and    *)
(* its checkout do.                                                          *)
LEMMA Moved ==
  ASSUME NEW r \in OpRec, Fits(r, next), ~Away(r), KnowsRow(r), next \in Nat, next' \in Nat, next <= next',
         NEW q \in OpRec, q.s = r.s, q.row.started \in {r.row.started} \cup 1..(next' - 1),
         q.i \in {r.i} \cup 0..(next' - 1), q.k \in {r.k} \cup 0..(next' - 1), q.l \in {r.l} \cup 0..(next' - 1),
         q.pc \in {"find", "scan", "visit"} => q.i # 0,
         q.pc \in {"create", "workspace", "rehome", "undo"} => q.c \in Checkouts,
         q.pc = "visit" => q.left \subseteq Checkouts \X CheckoutRow,
         q.pc \notin {"try_allocations", "try_claims"},
         q.pc = "unremove" \/ (q.pc = "stop" /\ q.cmd \in {"remove", "cleanup"}) => q.note \in Live \cup {"none"}
  PROVE  Fits(q, next')
<1>1. r.s \in Sessions /\ r.row.started \in 1..(next' - 1) /\ r.i \in 0..(next' - 1) /\ r.k \in 0..(next' - 1)
      /\ r.l \in 0..(next' - 1)
  BY DEF Fits
<1> QED BY <1>1 DEF Fits

LEMMA BeginFields ==
  ASSUME NEW p, NEW kind, NEW s, NEW pc
  PROVE  LET b == Begin(p, kind, s, pc)
         IN  /\ b.cmd = kind /\ b.s = s /\ b.pc = pc /\ b.i = 0 /\ b.k = 0 /\ b.l = 0 /\ b.note = "none"
             /\ b.left = {} /\ b.dead = {} /\ b.row = NoRow
  BY DEF Begin, Idle

LEMMA NotAcquiredFits ==
  ASSUME op \in [Commands -> OpRec], NEW p \in Commands, Fits(op[p], next), KnowsRow(op[p]),
         next \in Nat, next' \in Nat, next <= next', NotAcquired(p)
  PROVE  Fitting(p)
<1>1. PICK note \in Notes : op'[p] = [op[p] EXCEPT !.pc = "rollback", !.c = NoCheckout, !.left = {},
                                                   !.note = note]
  <2> DEFINE note == IF op[p].cmd = "spawn" THEN "terminalize" ELSE "none"
  <2>1. note \in Notes BY DEF Notes, WorkerStates
  <2>2. op'[p] = [op[p] EXCEPT !.pc = "rollback", !.c = NoCheckout, !.left = {}, !.note = note]
    BY DEF NotAcquired, Set
  <2> QED BY <2>1, <2>2
<1>2. op[p] \in OpRec OBVIOUS
<1>3. op'[p] \in OpRec
  <2>1. ASSUME NEW r \in OpRec, NEW c \in Checkouts \cup {NoCheckout}, NEW left \in SUBSET Seen, NEW pc \in Pcs
        PROVE  [r EXCEPT !.pc = pc, !.c = c, !.left = left, !.note = note] \in OpRec
    BY DEF OpRec
  <2>2. NoCheckout \in Checkouts \cup {NoCheckout} /\ {} \in SUBSET Seen /\ "rollback" \in Pcs
    BY DEF Pcs
  <2>3. [op[p] EXCEPT !.pc = "rollback", !.c = NoCheckout, !.left = {}, !.note = note] \in OpRec
    BY <1>2, <2>1, <2>2
  <2> QED BY <1>1, <2>3
<1>4. /\ op'[p].pc = "rollback" /\ op'[p].s = op[p].s /\ op'[p].row = op[p].row /\ op'[p].i = op[p].i
      /\ op'[p].k = op[p].k /\ op'[p].l = op[p].l
  BY <1>1, <1>2 DEF OpRec
<1>5. ~Away(op[p]) BY DEF KnowsRow
<1> QED BY <1>2, <1>3, <1>4, <1>5, Moved DEF Fitting

LEMMA CommandFits ==
  ASSUME OpsInv, NEW p \in Commands, Start(p) \/ Step(p), next' \in 1..(MaxGen + 1), next <= next', TypeOK', HandedOut'
  PROVE  Fitting(p)
<1>t. op \in [Commands -> OpRec] /\ \A q \in Commands : Fits(op[q], next)
  BY DEF OpsInv, OpsTypeOK
<1>m. next \in Nat /\ next' \in Nat /\ next <= next' /\ next' >= 1
  <2>1. next \in Nat BY DEF OpsInv, OpsTypeOK, TypeOK
  <2> QED BY <2>1
<1>y. TypeOK /\ HandedOut /\ TypeOK' /\ HandedOut' BY DEF OpsInv, OpsTypeOK
<1>e. End(p) => Fitting(p) BY <1>t, <1>m, EndFits
<1>1. CASE Start(p)
  <2>1. CASE OpenAdopt(p)
    <3>1. Begin(p, "open", NoSession, "allocations") \in OpRec
      BY <2>1, BeginRecord DEF OpenAdopt, Ready, Pcs
    <3>2. op'[p] = Begin(p, "open", NoSession, "allocations") BY <2>1, <1>t DEF OpenAdopt, Set
    <3>3. op'[p].pc = "allocations" /\ op'[p].i = 0 /\ op'[p].k = 0 /\ op'[p].l = 0 BY <3>2, BeginFields
    <3> QED BY <1>m, <3>1, <3>2, <3>3, ZeroNumber DEF Fitting, Fits, Away, KnowsRow
  <2>2. ASSUME NEW s \in Sessions,
               \/ SpawnInsert(p, s) \/ RefileStart(p, s) \/ ResumeStart(p, s) \/ RelaunchStart(p, s)
               \/ FinalizeStart(p, s) \/ ReleaseStart(p, s) \/ RemoveStart(p, "remove", s)
               \/ RemoveStart(p, "cleanup", s)
        PROVE  Fitting(p)
    <3>1. CASE SpawnInsert(p, s)
      <4>1. session'[s] \in SessionRow /\ session'[s].started \in 1..(next' - 1)
        BY <3>1, <1>m, <1>y DEF SpawnInsert, InsertSpawning, TypeOK, NoRow
      <4>2. Begin(p, "spawn", s, "prepare") \in OpRec BY <3>1, BeginRecord DEF SpawnInsert, Ready, Pcs
      <4>3. [Begin(p, "spawn", s, "prepare") EXCEPT !.row = session'[s]] \in OpRec
        BY <4>1, <4>2 DEF OpRec
      <4>4. op'[p] = [Begin(p, "spawn", s, "prepare") EXCEPT !.row = session'[s]]
        BY <3>1, <1>t DEF SpawnInsert, Set
      <4>5. /\ op'[p].cmd = "spawn" /\ op'[p].pc = "prepare" /\ op'[p].s = s /\ op'[p].i = 0
            /\ op'[p].k = 0 /\ op'[p].l = 0 /\ op'[p].note = "none" /\ op'[p].row = session'[s]
        BY <4>2, <4>4, BeginFields DEF OpRec
      <4> QED BY <1>m, <4>1, <4>3, <4>4, <4>5, ZeroNumber DEF Fitting, Fits, Away, KnowsRow
    <3>2. CASE RefileStart(p, s)
      <4>1. /\ session[s] \in SessionRow /\ session[s].started \in 1..(next' - 1)
            /\ worker[s].id \in Numbers /\ worker[s].id \in 0..(next' - 1)
        BY <3>2, <1>m, <1>y DEF RefileStart, TypeOK, HandedOut, SessionOut, Out, WorkerRow
      <4>2. Begin(p, "refile", s, "stop") \in OpRec BY <3>2, BeginRecord DEF RefileStart, Ready, Pcs
      <4>3. [Begin(p, "refile", s, "stop") EXCEPT !.row = session[s], !.i = worker[s].id] \in OpRec
        BY <4>1, <4>2 DEF OpRec
      <4>4. op'[p] = [Begin(p, "refile", s, "stop") EXCEPT !.row = session[s], !.i = worker[s].id]
        BY <3>2, <1>t DEF RefileStart, Set
      <4>5. /\ op'[p].cmd = "refile" /\ op'[p].pc = "stop" /\ op'[p].s = s /\ op'[p].i = worker[s].id
            /\ op'[p].k = 0 /\ op'[p].l = 0 /\ op'[p].note = "none" /\ op'[p].row = session[s]
        BY <4>2, <4>4, BeginFields DEF OpRec
      <4> QED BY <1>m, <4>1, <4>3, <4>4, <4>5, ZeroNumber DEF Fitting, Fits, Away, KnowsRow
    <3>3. CASE ResumeStart(p, s)
      <4>1. /\ [session[s] EXCEPT !.started = next] \in SessionRow
            /\ [session[s] EXCEPT !.started = next].started \in 1..(next' - 1)
            /\ worker[s].id \in Numbers /\ worker[s].id \in 0..(next' - 1) /\ next \in Numbers
            /\ next \in 0..(next' - 1)
        BY <3>3, <1>m, <1>y, FreshIsNumber, SessionRowUpdates
        DEF ResumeStart, ClaimStart, TypeOK, HandedOut, SessionOut, Out, WorkerRow, SessionRow
      <4>2. Begin(p, "resume", s, "kill_old") \in OpRec BY <3>3, BeginRecord DEF ResumeStart, Ready, Pcs
      <4>3. [Begin(p, "resume", s, "kill_old") EXCEPT !.i = worker[s].id, !.k = next,
                                                      !.row = [session[s] EXCEPT !.started = next]] \in OpRec
        BY <4>1, <4>2 DEF OpRec
      <4>4. op'[p] = [Begin(p, "resume", s, "kill_old") EXCEPT !.i = worker[s].id, !.k = next,
                                                               !.row = [session[s] EXCEPT !.started = next]]
        BY <3>3, <1>t DEF ResumeStart, Set
      <4>5. /\ op'[p].cmd = "resume" /\ op'[p].pc = "kill_old" /\ op'[p].s = s
            /\ op'[p].i = worker[s].id /\ op'[p].k = next /\ op'[p].l = 0 /\ op'[p].note = "none"
            /\ op'[p].row = [session[s] EXCEPT !.started = next]
        BY <4>2, <4>4, BeginFields DEF OpRec
      <4> QED BY <1>m, <4>1, <4>3, <4>4, <4>5, ZeroNumber DEF Fitting, Fits, Away, KnowsRow
    <3>4. CASE RelaunchStart(p, s)
      <4> DEFINE renewed == [session[s] EXCEPT !.started = next]
      <4>1. renewed \in SessionRow /\ renewed.started \in 1..(next' - 1)
        BY <3>4, <1>m, <1>y, FreshIsNumber, SessionRowUpdates
        DEF RelaunchStart, Tick, TypeOK, SessionRow
      <4>2. Begin(p, "relaunch", s, "kill_old") \in OpRec
        BY <3>4, BeginRecord DEF RelaunchStart, Ready, Pcs
      <4>4. op'[p] = [Begin(p, "relaunch", s, "kill_old") EXCEPT !.row = renewed]
        BY <3>4, <1>t DEF RelaunchStart, Set
      <4> HIDE DEF renewed
      <4>3. [Begin(p, "relaunch", s, "kill_old") EXCEPT !.row = renewed] \in OpRec
        BY <4>1, <4>2 DEF OpRec
      <4>5. /\ op'[p].cmd = "relaunch" /\ op'[p].pc = "kill_old" /\ op'[p].s = s /\ op'[p].i = 0
            /\ op'[p].k = 0
            /\ op'[p].l = 0 /\ op'[p].note = "none" /\ op'[p].row = renewed
        BY <4>2, <4>4, BeginFields DEF OpRec
      <4> QED BY <1>m, <4>1, <4>3, <4>4, <4>5, ZeroNumber DEF Fitting, Fits, Away, KnowsRow
    <3>5. CASE FinalizeStart(p, s)
      <4>1. worker'[s].id \in Numbers /\ worker'[s].id \in 0..(next' - 1)
        BY <1>m, <1>y DEF TypeOK, HandedOut, SessionOut, Out, WorkerRow
      <4>2. Begin(p, "finalize", s, "stop") \in OpRec BY <3>5, BeginRecord DEF FinalizeStart, Ready, Pcs
      <4> DEFINE begun == [Begin(p, "finalize", s, "stop") EXCEPT !.i = worker'[s].id]
      <4>3. begun \in OpRec BY <4>1, <4>2 DEF OpRec
      <4>4. /\ begun.cmd = "finalize" /\ begun.pc = "stop" /\ begun.s = s /\ begun.i = worker'[s].id
            /\ begun.k = 0 /\ begun.l = 0
        BY <4>2, BeginFields DEF OpRec
      <4>5. op'[p] = begun \/ op'[p] = [begun EXCEPT !.pc = "exit"] BY <3>5, <1>t DEF FinalizeStart, Set
      <4> HIDE DEF begun
      <4>6. [begun EXCEPT !.pc = "exit"] \in OpRec BY <4>3 DEF OpRec, Pcs
      <4>7. /\ op'[p].cmd = "finalize" /\ op'[p].pc \in {"stop", "exit"} /\ op'[p].s = s
            /\ op'[p].i = worker'[s].id
            /\ op'[p].k = 0 /\ op'[p].l = 0
        BY <4>3, <4>4, <4>5 DEF OpRec
      <4> QED BY <1>m, <4>1, <4>3, <4>5, <4>6, <4>7, ZeroNumber DEF Fitting, Fits, Away, KnowsRow
    <3>6. CASE ReleaseStart(p, s)
      <4>1. /\ worker[s].id \in Numbers /\ worker[s].id \in 0..(next' - 1)
            /\ worker[s].lease \in Numbers /\ worker[s].lease \in 0..(next' - 1)
        BY <3>6, <1>m, <1>y DEF ReleaseStart, TypeOK, HandedOut, SessionOut, Out, WorkerRow
      <4>2. Begin(p, "release", s, "stop") \in OpRec BY <3>6, BeginRecord DEF ReleaseStart, Ready, Pcs
      <4>3. [Begin(p, "release", s, "stop") EXCEPT !.i = worker[s].id, !.l = worker[s].lease] \in OpRec
        BY <4>1, <4>2 DEF OpRec
      <4>4. op'[p] = [Begin(p, "release", s, "stop") EXCEPT !.i = worker[s].id, !.l = worker[s].lease]
        BY <3>6, <1>t DEF ReleaseStart, Set
      <4>5. /\ op'[p].cmd = "release" /\ op'[p].pc = "stop" /\ op'[p].s = s /\ op'[p].i = worker[s].id
            /\ op'[p].k = 0 /\ op'[p].l = worker[s].lease /\ op'[p].note = "none"
        BY <4>2, <4>4, BeginFields DEF OpRec
      <4> QED BY <1>m, <4>1, <4>3, <4>4, <4>5, ZeroNumber DEF Fitting, Fits, Away, KnowsRow
    <3>7. CASE RemoveStart(p, "remove", s)
      <4>1. session[s] \in SessionRow /\ session[s].started \in 1..(next' - 1)
        BY <3>7, <1>m, <1>y DEF RemoveStart, TypeOK, HandedOut, SessionOut, Out
      <4>2. Begin(p, "remove", s, "claim") \in OpRec BY <3>7, BeginRecord DEF RemoveStart, Ready, Pcs
      <4>3. [Begin(p, "remove", s, "claim") EXCEPT !.row = session[s]] \in OpRec BY <4>1, <4>2 DEF OpRec
      <4>4. op'[p] = [Begin(p, "remove", s, "claim") EXCEPT !.row = session[s]]
        BY <3>7, <1>t DEF RemoveStart, Set
      <4>5. /\ op'[p].cmd = "remove" /\ op'[p].pc = "claim" /\ op'[p].s = s /\ op'[p].i = 0
            /\ op'[p].k = 0 /\ op'[p].l = 0 /\ op'[p].note = "none" /\ op'[p].row = session[s]
        BY <4>2, <4>4, BeginFields DEF OpRec
      <4> QED BY <1>m, <4>1, <4>3, <4>4, <4>5, ZeroNumber DEF Fitting, Fits, Away, KnowsRow
    <3>8. CASE RemoveStart(p, "cleanup", s)
      <4>1. session[s] \in SessionRow /\ session[s].started \in 1..(next' - 1)
        BY <3>8, <1>m, <1>y DEF RemoveStart, TypeOK, HandedOut, SessionOut, Out
      <4>2. Begin(p, "cleanup", s, "claim") \in OpRec BY <3>8, BeginRecord DEF RemoveStart, Ready, Pcs
      <4>3. [Begin(p, "cleanup", s, "claim") EXCEPT !.row = session[s]] \in OpRec
        BY <4>1, <4>2 DEF OpRec
      <4>4. op'[p] = [Begin(p, "cleanup", s, "claim") EXCEPT !.row = session[s]]
        BY <3>8, <1>t DEF RemoveStart, Set
      <4>5. /\ op'[p].cmd = "cleanup" /\ op'[p].pc = "claim" /\ op'[p].s = s /\ op'[p].i = 0
            /\ op'[p].k = 0 /\ op'[p].l = 0 /\ op'[p].note = "none" /\ op'[p].row = session[s]
        BY <4>2, <4>4, BeginFields DEF OpRec
      <4> QED BY <1>m, <4>1, <4>3, <4>4, <4>5, ZeroNumber DEF Fitting, Fits, Away, KnowsRow
    <3> QED BY <2>2, <3>1, <3>2, <3>3, <3>4, <3>5, <3>6, <3>7, <3>8
  <2> QED BY <1>1, <2>1, <2>2 DEF Start
<1>2. CASE Step(p)
  <2>r. op[p] \in OpRec /\ Fits(op[p], next) BY <1>t
  <2>a. KnowsRow(op[p]) /\ NotAcquired(p) => Fitting(p)
    BY <1>t, <1>m, <2>r, NotAcquiredFits DEF KnowsRow
  <2>g. KnowsRow(op[p]) => \A pc \in Plain : Go(p, pc) => Fitting(p)
    BY <1>t, <1>m, <2>r, MoveFits DEF KnowsRow
  <2>n. KnowsRow(op[p]) => \A pc \in Plain, note \in Notes : GoNote(p, pc, note) => Fitting(p)
    BY <1>t, <1>m, <2>r, MoveFits DEF KnowsRow
  <2>w. ~Away(op[p]) => \A pc \in Rowless : Go(p, pc) => Fitting(p)
    <3>1. Plain \cap Rowless = {} BY DEF Plain, Rowless
    <3> QED BY <1>t, <1>m, <2>r, <3>1, MoveFits
  <2>1. CASE AcquireScan(p)
    <3>k. KnowsRow(op[p]) /\ ~Away(op[p]) BY <2>1 DEF AcquireScan, At, Away, KnowsRow
    <3>1. PICK left : Set(p, [op[p] EXCEPT !.pc = "visit",
                                           !.left = left]) /\ left \subseteq Checkouts \X CheckoutRow
      <4> DEFINE left == {<<c, checkout[c]>> : c \in {d \in Checkouts : checkout[d].state \in {"provisioning", "quarantined"}}}
      <4>1. Set(p, [op[p] EXCEPT !.pc = "visit", !.left = left]) BY <2>1 DEF AcquireScan
      <4>2. left \subseteq Checkouts \X CheckoutRow BY <1>y DEF TypeOK
      <4> QED BY <4>1, <4>2
    <3>2. [op[p] EXCEPT !.pc = "visit", !.left = left] \in OpRec
      <4>1. left \in SUBSET Seen BY <3>1 DEF Seen
      <4> QED BY <2>r, <4>1, KnownPcs DEF OpRec
    <3>3. op'[p] = [op[p] EXCEPT !.pc = "visit", !.left = left] BY <1>t, <3>1 DEF Set
    <3>4. /\ op'[p].pc = "visit" /\ op'[p].s = op[p].s /\ op'[p].row = op[p].row /\ op'[p].i = op[p].i
          /\ op'[p].k = op[p].k /\ op'[p].l = op[p].l /\ op'[p].left = left /\ op[p].i # 0
      BY <2>1, <2>r, <3>3 DEF AcquireScan, At, Fits, OpRec
    <3> QED BY <1>m, <2>r, <3>k, <3>1, <3>2, <3>3, <3>4, Moved DEF Fitting
  <2>2. CASE VisitProvisioning(p)
    <3>k. KnowsRow(op[p]) /\ ~Away(op[p]) BY <2>2 DEF VisitProvisioning, At, Away, KnowsRow
    <3>1. CASE NotAcquired(p) BY <2>a, <3>1, <3>k
    <3>2. CASE ~NotAcquired(p)
      <4>1. PICK left : Set(p, [op[p] EXCEPT !.left = left]) /\ left \subseteq Checkouts \X CheckoutRow
        <5>1. At(p, "visit") /\ op[p].left \subseteq Checkouts \X CheckoutRow
          BY <2>2, <2>r DEF VisitProvisioning, At, Fits
        <5>2. PICK seen \in op[p].left : \/ Set(p, [op[p] EXCEPT !.left = op[p].left \ {seen}])
                                      \/ Leave(p, seen, checkout[seen[1]]) \/ Leave(p, seen, checkout'[seen[1]])
          <6>1. PICK seen \in op[p].left :
                  \/ Set(p, [op[p] EXCEPT !.left = op[p].left \ {seen}]) \/ NotAcquired(p)
                  \/ Leave(p, seen, checkout[seen[1]]) \/ Leave(p, seen, checkout'[seen[1]])
            BY <2>2, Zenon DEF VisitProvisioning
          <6> QED BY <3>2, <6>1
        <5>3. seen \in Checkouts \X CheckoutRow BY <5>1
        <5>4. checkout[seen[1]] \in CheckoutRow /\ checkout'[seen[1]] \in CheckoutRow /\ seen[1] \in Checkouts
          BY <1>y, <5>3 DEF TypeOK
        <5>5. ASSUME NEW row \in CheckoutRow, Leave(p, seen, row)
              PROVE  \E left : Set(p, [op[p] EXCEPT !.left = left]) /\ left \subseteq Checkouts \X CheckoutRow
          <6> DEFINE left == (op[p].left \ {seen}) \cup IF row.state = "quarantined" THEN {<<seen[1], row>>} ELSE {}
          <6>1. left \subseteq Checkouts \X CheckoutRow BY <5>1, <5>4, <5>5
          <6>2. Set(p, [op[p] EXCEPT !.left = left]) BY <5>5 DEF Leave
          <6> QED BY <6>1, <6>2
        <5>6. op[p].left \ {seen} \subseteq Checkouts \X CheckoutRow BY <5>1
        <5>7. CASE Set(p, [op[p] EXCEPT !.left = op[p].left \ {seen}]) BY <5>6, <5>7
        <5> QED BY <5>2, <5>4, <5>5, <5>7
      <4>2. [op[p] EXCEPT !.left = left] \in OpRec BY <2>r, <4>1 DEF OpRec, Seen
      <4>3. op'[p] = [op[p] EXCEPT !.left = left] BY <1>t, <4>1 DEF Set
      <4>4. /\ op'[p].pc = "visit" /\ op'[p].s = op[p].s /\ op'[p].row = op[p].row /\ op'[p].i = op[p].i
            /\ op'[p].k = op[p].k /\ op'[p].l = op[p].l /\ op'[p].left = left /\ op[p].i # 0
        BY <2>2, <2>r, <4>3 DEF VisitProvisioning, At, Fits, OpRec
      <4> QED BY <1>m, <2>r, <3>k, <4>1, <4>2, <4>3, <4>4, Moved DEF Fitting
    <3> QED BY <3>1, <3>2
  <2>3. CASE VisitQuarantined(p)
    BY <2>3, <1>t, <1>m, <2>r DEF VisitQuarantined, Set, Fitting, At, Away, KnowsRow, Fits, OpRec, Pcs
  <2>4. CASE TakeCheckout(p)
    <3>k. KnowsRow(op[p]) /\ ~Away(op[p]) BY <2>4 DEF TakeCheckout, At, Away, KnowsRow
    <3>1. CASE NotAcquired(p) BY <2>a, <3>1, <3>k
    <3>2. ASSUME NEW c \in Checkouts, \/ Set(p, [op[p] EXCEPT !.pc = "create", !.c = c])
                                     \/ Set(p, [op[p] EXCEPT !.pc = "create", !.c = c, !.note = "new"])
          PROVE  Fitting(p)
      <4>1. [op[p] EXCEPT !.pc = "create", !.c = c] \in OpRec BY <2>r, KnownPcs DEF OpRec
      <4>2. [op[p] EXCEPT !.pc = "create", !.c = c, !.note = "new"] \in OpRec
        BY <2>r, KnownPcs DEF OpRec
      <4>3. \/ op'[p] = [op[p] EXCEPT !.pc = "create", !.c = c]
            \/ op'[p] = [op[p] EXCEPT !.pc = "create", !.c = c, !.note = "new"]
        BY <1>t, <3>2 DEF Set
      <4>4. /\ op'[p].pc = "create" /\ op'[p].s = op[p].s /\ op'[p].row = op[p].row
            /\ op'[p].i = op[p].i
            /\ op'[p].k = op[p].k /\ op'[p].l = op[p].l /\ op'[p].c = c
        BY <2>r, <4>3, ZenonT(40) DEF OpRec
      <4> QED BY <1>m, <2>r, <3>k, <4>1, <4>2, <4>3, <4>4, Moved DEF Fitting
    <3> QED BY <2>4, <3>1, <3>2, Zenon DEF TakeCheckout
  <2>5. CASE Create(p)
    <3>k. KnowsRow(op[p]) /\ ~Away(op[p]) BY <2>5 DEF Create, At, Away, KnowsRow
    <3>1. CASE NotAcquired(p) BY <2>a, <3>1, <3>k
    <3>2. CASE Acquired(p)
      <4>1. op[p].c \in Checkouts BY <2>5, <2>r DEF Create, At, Fits
      <4>2. PICK pc \in {"workspace", "rehome"} : Go(p, pc) BY <3>2 DEF Acquired
      <4>3. [op[p] EXCEPT !.pc = pc] \in OpRec BY <2>r DEF OpRec, Pcs
      <4>4. op'[p] = [op[p] EXCEPT !.pc = pc] BY <1>t, <4>2 DEF Go, Set
      <4>5. /\ op'[p].pc = pc /\ op'[p].s = op[p].s /\ op'[p].row = op[p].row /\ op'[p].i = op[p].i
            /\ op'[p].k = op[p].k /\ op'[p].l = op[p].l /\ op'[p].c = op[p].c
        BY <2>r, <4>4 DEF OpRec
      <4> QED BY <1>m, <2>r, <3>k, <4>1, <4>3, <4>4, <4>5, Moved DEF Fitting
    <3> QED BY <2>5, <3>1, <3>2 DEF Create
  <2>6. CASE Rollback(p)
    <3>k. KnowsRow(op[p]) /\ ~Away(op[p]) BY <2>6 DEF Rollback, At, Away, KnowsRow
    <3>1. CASE op[p].c # NoCheckout /\ Go(p, "undo")
      <4>1. op[p].c \in Checkouts BY <2>r, <3>1 DEF OpRec
      <4>2. [op[p] EXCEPT !.pc = "undo"] \in OpRec BY <2>r DEF OpRec, Pcs
      <4>3. op'[p] = [op[p] EXCEPT !.pc = "undo"] BY <1>t, <3>1 DEF Go, Set
      <4>4. /\ op'[p].pc = "undo" /\ op'[p].s = op[p].s /\ op'[p].row = op[p].row /\ op'[p].i = op[p].i
            /\ op'[p].k = op[p].k /\ op'[p].l = op[p].l /\ op'[p].c = op[p].c
        BY <2>r, <4>3, ZenonT(40) DEF OpRec
      <4> QED BY <1>m, <2>r, <3>k, <4>1, <4>2, <4>3, <4>4, Moved DEF Fitting
    <3> QED BY <2>6, <1>e, <2>g, <3>k, <3>1 DEF Rollback, Plain
  <2>7. CASE Undo(p) BY <2>7, <1>e, <2>g, <2>n, <2>w DEF Undo, At, Away, KnowsRow, Plain, Rowless, Notes
  <2>8. CASE Settle(p)
    BY <2>8, <1>e, <2>g, <2>n, <2>w DEF Settle, At, Away, KnowsRow, Plain, Rowless, Notes
  <2>9. CASE Mark(p) BY <2>9, <1>e, <2>g, <2>n, <2>w DEF Mark, At, Away, KnowsRow, Plain, Rowless, Notes
  <2>10. CASE Launch(p)
    BY <2>10, <1>e, <2>g, <2>n, <2>w DEF Launch, At, Away, KnowsRow, Plain, Rowless, Notes
  <2>11. CASE CompleteLaunch(p)
    BY <2>11, <1>e, <2>g, <2>n, <2>w DEF CompleteLaunch, At, Away, KnowsRow, Plain, Rowless, Notes
  <2>12. CASE Unclaim(p)
    BY <2>12, <1>e, <2>g, <2>n, <2>w DEF Unclaim, At, Away, KnowsRow, Plain, Rowless, Notes
  <2>13. CASE SpawnPrepare(p)
    <3>k. KnowsRow(op[p]) /\ ~Away(op[p]) BY <2>13 DEF SpawnPrepare, At, Away, KnowsRow
    <3>1. CASE Prepare(p, op[p].s, op[p].row.started) /\ Set(p, [op[p] EXCEPT !.pc = "scan",
                                                                              !.i = next])
      <4>1. next \in Numbers /\ next \in 0..(next' - 1) /\ next # 0
        BY <2>13, <1>m, <1>y, <3>1, FreshIsNumber DEF SpawnPrepare, Prepare, TypeOK
      <4>2. [op[p] EXCEPT !.pc = "scan", !.i = next] \in OpRec BY <2>r, <4>1, KnownPcs DEF OpRec
      <4>3. op'[p] = [op[p] EXCEPT !.pc = "scan", !.i = next] BY <1>t, <3>1 DEF Set
      <4>4. /\ op'[p].pc = "scan" /\ op'[p].s = op[p].s /\ op'[p].cmd = op[p].cmd
            /\ op'[p].row = op[p].row /\ op'[p].i = next
            /\ op'[p].k = op[p].k /\ op'[p].l = op[p].l /\ op'[p].c = op[p].c
            /\ op'[p].note = op[p].note
        BY <2>r, <4>3, ZenonT(40) DEF OpRec
      <4> QED BY <1>m, <2>r, <3>k, <4>1, <4>2, <4>3, <4>4, Moved DEF Fitting
    <3> QED BY <2>13, <1>e, <2>g, <2>n, <3>k, <3>1 DEF SpawnPrepare, Plain, Notes
  <2>14. CASE Unspawn(p)
    BY <2>14, <1>e, <2>g, <2>n, <2>w DEF Unspawn, At, Away, KnowsRow, Plain, Rowless, Notes
  <2>15. CASE SpawnWorkspace(p)
    <3>k. KnowsRow(op[p]) /\ ~Away(op[p]) BY <2>15 DEF SpawnWorkspace, At, Away, KnowsRow
    <3>1. CASE Set(p, [op[p] EXCEPT !.pc = "bind", !.row.ws = op[p].c])
      <4>1. [op[p].row EXCEPT !.ws = op[p].c] \in SessionRow /\ [op[p].row EXCEPT !.ws = op[p].c].started = op[p].row.started
        <5>1. op[p].row \in SessionRow /\ op[p].c \in Checkouts \cup {NoCheckout} BY <2>r DEF OpRec
        <5>2. [op[p].row EXCEPT !.ws = op[p].c] \in SessionRow BY <5>1, SessionRowUpdates
        <5>3. [op[p].row EXCEPT !.ws = op[p].c].started = op[p].row.started BY <5>1 DEF SessionRow
        <5> QED BY <5>2, <5>3
      <4>2. [op[p] EXCEPT !.pc = "bind", !.row = [op[p].row EXCEPT !.ws = op[p].c]] \in OpRec
        BY <2>r, <4>1, KnownPcs DEF OpRec
      <4>3. op'[p] = [op[p] EXCEPT !.pc = "bind", !.row = [op[p].row EXCEPT !.ws = op[p].c]]
        BY <1>t, <3>1 DEF Set
      <4>4. /\ op'[p].pc = "bind" /\ op'[p].s = op[p].s /\ op'[p].cmd = op[p].cmd
            /\ op'[p].row = [op[p].row EXCEPT !.ws = op[p].c] /\ op'[p].i = op[p].i
            /\ op'[p].k = op[p].k /\ op'[p].l = op[p].l /\ op'[p].c = op[p].c
            /\ op'[p].note = op[p].note
        BY <2>r, <4>3, ZenonT(40) DEF OpRec
      <4> QED BY <1>m, <2>r, <3>k, <4>1, <4>2, <4>3, <4>4, Moved DEF Fitting
    <3>2. CASE GoNote(p, "rollback", "none") BY <2>n, <3>k, <3>2 DEF Plain, Notes, WorkerStates
    <3> QED BY <2>15, <3>1, <3>2 DEF SpawnWorkspace
  <2>16. CASE BindLease(p)
    <3>k. KnowsRow(op[p]) /\ ~Away(op[p]) BY <2>16 DEF BindLease, At, Away, KnowsRow
    <3>1. CASE GoNote(p, "rollback", "none") BY <2>n, <3>k, <3>1 DEF Plain, Notes, WorkerStates
    <3>2. ASSUME NEW pc \in {"working", "launch"}, Go(p, pc) PROVE Fitting(p)
      BY <2>g, <3>k, <3>2 DEF Plain
    <3> QED BY <2>16, <3>1, <3>2 DEF BindLease
  <2>17. CASE SpawnWorking(p)
    BY <2>17, <1>e, <2>g, <2>n, <2>w DEF SpawnWorking, At, Away, KnowsRow, Plain, Rowless, Notes
  <2>18. CASE SpawnClaim(p)
    <3>k. KnowsRow(op[p]) /\ ~Away(op[p]) BY <2>18 DEF SpawnClaim, At, Away, KnowsRow
    <3>1. CASE ClaimStart(p, op[p].s, op[p].i) /\ Set(p, [op[p] EXCEPT !.pc = "launch", !.k = next])
      <4>1. next \in Numbers /\ next \in 0..(next' - 1)
        BY <2>18, <1>m, <1>y, <3>1, FreshIsNumber DEF SpawnClaim, ClaimStart, TypeOK
      <4>2. [op[p] EXCEPT !.pc = "launch", !.k = next] \in OpRec BY <2>r, <4>1, KnownPcs DEF OpRec
      <4>3. op'[p] = [op[p] EXCEPT !.pc = "launch", !.k = next] BY <1>t, <3>1 DEF Set
      <4>4. /\ op'[p].pc = "launch" /\ op'[p].s = op[p].s /\ op'[p].cmd = op[p].cmd
            /\ op'[p].row = op[p].row /\ op'[p].i = op[p].i
            /\ op'[p].k = next /\ op'[p].l = op[p].l /\ op'[p].c = op[p].c /\ op'[p].note = op[p].note
        BY <2>r, <4>3, ZenonT(40) DEF OpRec
      <4> QED BY <1>m, <2>r, <3>k, <4>1, <4>2, <4>3, <4>4, Moved DEF Fitting
    <3> QED BY <2>18, <1>e, <2>g, <2>n, <3>k, <3>1 DEF SpawnClaim, Plain, Notes
  <2>19. CASE RefileStop(p)
    BY <2>19, <1>e, <2>g, <2>n, <2>w DEF RefileStop, At, Away, KnowsRow, Plain, Rowless, Notes, StopOr
  <2>20. CASE RefilePrepare(p)
    <3>k. KnowsRow(op[p]) /\ ~Away(op[p]) BY <2>20 DEF RefilePrepare, At, Away, KnowsRow
    <3>1. CASE Prepare(App, op[p].s, next) /\ Set(p, [op[p] EXCEPT !.pc = "find", !.i = next,
                                                                   !.l = Kept(op[p].s), !.row.started = next])
      <4>1. /\ next \in Numbers /\ next \in 1..(next' - 1) /\ next # 0 /\ Kept(op[p].s) \in Numbers
            /\ Kept(op[p].s) \in 0..(next' - 1)
            /\ [op[p].row EXCEPT !.started = next] \in SessionRow
            /\ [op[p].row EXCEPT !.started = next].started = next
        <5>1. next \in Numbers /\ next \in 1..(next' - 1) /\ next # 0
          BY <2>20, <1>m, <1>y, <3>1, FreshIsNumber DEF RefilePrepare, Prepare, TypeOK
        <5>2. Kept(op[p].s) \in Numbers /\ Kept(op[p].s) \in 0..(next' - 1)
          <6>1. Kept(op[p].s) \in Out \cup {0} BY <1>y, <2>r, <3>k, KeptOut DEF Fits
          <6> QED BY <1>m, <1>y, <6>1, NumbersHandedOut DEF Out, Numbers
        <5>3. op[p].row \in SessionRow BY <2>r DEF OpRec
        <5>4. [op[p].row EXCEPT !.started = next] \in SessionRow BY <5>1, <5>3, SessionRowUpdates
        <5>5. [op[p].row EXCEPT !.started = next].started = next BY <5>3 DEF SessionRow
        <5> QED BY <5>1, <5>2, <5>4, <5>5
      <4>2. [op[p] EXCEPT !.pc = "find", !.i = next, !.l = Kept(op[p].s),
                          !.row = [op[p].row EXCEPT !.started = next]] \in OpRec
        BY <2>r, <4>1, KnownPcs DEF OpRec
      <4>3. op'[p] = [op[p] EXCEPT !.pc = "find", !.i = next, !.l = Kept(op[p].s),
                                   !.row = [op[p].row EXCEPT !.started = next]]
        BY <1>t, <3>1 DEF Set
      <4>4. /\ op'[p].pc = "find" /\ op'[p].s = op[p].s /\ op'[p].cmd = op[p].cmd
            /\ op'[p].row.started = next /\ op'[p].i = next
            /\ op'[p].k = op[p].k /\ op'[p].l = Kept(op[p].s) /\ op'[p].c = op[p].c
            /\ op'[p].note = op[p].note
        BY <2>r, <4>1, <4>3 DEF OpRec
      <4>5. /\ op'[p] \in OpRec /\ op'[p].row.started \in 1..(next' - 1) /\ op'[p].i \in 0..(next' - 1)
            /\ op'[p].i # 0
            /\ op'[p].l \in 0..(next' - 1)
        BY <1>m, <4>1, <4>2, <4>3, <4>4
      <4>6. Fits(op'[p], next') BY <1>m, <2>r, <3>k, <4>4, <4>5, Moved
      <4> QED BY <4>5, <4>6 DEF Fitting
    <3> QED BY <2>20, <1>e, <2>g, <2>n, <3>k, <3>1 DEF RefilePrepare, Plain, Notes
  <2>21. CASE RefileFind(p)
    BY <2>21, <1>t, <1>m, <2>r DEF RefileFind, Go, Set, Fitting, At, Away, KnowsRow, Fits, OpRec, Pcs
  <2>22. CASE RefileRehome(p)
    <3>k. KnowsRow(op[p]) /\ ~Away(op[p]) BY <2>22 DEF RefileRehome, At, Away, KnowsRow
    <3>1. CASE Set(p, [op[p] EXCEPT !.pc = "ensure", !.row.ws = op[p].c])
      <4>1. [op[p].row EXCEPT !.ws = op[p].c] \in SessionRow /\ [op[p].row EXCEPT !.ws = op[p].c].started = op[p].row.started
        <5>1. op[p].row \in SessionRow /\ op[p].c \in Checkouts \cup {NoCheckout} BY <2>r DEF OpRec
        <5>2. [op[p].row EXCEPT !.ws = op[p].c] \in SessionRow BY <5>1, SessionRowUpdates
        <5>3. [op[p].row EXCEPT !.ws = op[p].c].started = op[p].row.started BY <5>1 DEF SessionRow
        <5> QED BY <5>2, <5>3
      <4>2. [op[p] EXCEPT !.pc = "ensure", !.row = [op[p].row EXCEPT !.ws = op[p].c]] \in OpRec
        BY <2>r, <4>1, KnownPcs DEF OpRec
      <4>3. op'[p] = [op[p] EXCEPT !.pc = "ensure", !.row = [op[p].row EXCEPT !.ws = op[p].c]]
        BY <1>t, <3>1 DEF Set
      <4>4. /\ op'[p].pc = "ensure" /\ op'[p].s = op[p].s /\ op'[p].cmd = op[p].cmd
            /\ op'[p].row = [op[p].row EXCEPT !.ws = op[p].c] /\ op'[p].i = op[p].i
            /\ op'[p].k = op[p].k /\ op'[p].l = op[p].l /\ op'[p].c = op[p].c
            /\ op'[p].note = op[p].note
        BY <2>r, <4>3, ZenonT(40) DEF OpRec
      <4> QED BY <1>m, <2>r, <3>k, <4>1, <4>2, <4>3, <4>4, Moved DEF Fitting
    <3> QED BY <2>22, <1>e, <2>g, <2>n, <3>k, <3>1 DEF RefileRehome, Plain, Notes
  <2>23. CASE Ensure(p)
    <3>k. KnowsRow(op[p]) /\ ~Away(op[p]) BY <2>23 DEF Ensure, At, Away, KnowsRow
    <3>1. CASE EnsureFails(p) BY <2>g, <2>n, <3>k, <3>1 DEF EnsureFails, Plain, Notes, WorkerStates
    <3>2. ASSUME NEW pc \in {"ensure", "bind", "launch"}, Go(p, pc) PROVE Fitting(p)
      BY <2>g, <3>k, <3>2 DEF Plain
    <3> QED BY <2>23, <3>1, <3>2 DEF Ensure
  <2>24. CASE LaunchedRow(p)
    BY <2>24, <1>e, <2>g, <2>n, <2>w DEF LaunchedRow, At, Away, KnowsRow, Plain, Rowless, Notes
  <2>25. CASE FailedRow(p)
    BY <2>25, <1>e, <2>g, <2>n, <2>w DEF FailedRow, At, Away, KnowsRow, Plain, Rowless, Notes
  <2>26. CASE RefileReclaim(p)
    <3>k. KnowsRow(op[p]) /\ ~Away(op[p]) BY <2>26 DEF RefileReclaim, At, Away, KnowsRow
    <3>1. CASE op[p].c # NoCheckout /\ Go(p, "undo")
      <4>1. op[p].c \in Checkouts BY <2>r, <3>1 DEF OpRec
      <4>2. [op[p] EXCEPT !.pc = "undo"] \in OpRec BY <2>r DEF OpRec, Pcs
      <4>3. op'[p] = [op[p] EXCEPT !.pc = "undo"] BY <1>t, <3>1 DEF Go, Set
      <4>4. /\ op'[p].pc = "undo" /\ op'[p].s = op[p].s /\ op'[p].row = op[p].row /\ op'[p].i = op[p].i
            /\ op'[p].k = op[p].k /\ op'[p].l = op[p].l /\ op'[p].c = op[p].c
        BY <2>r, <4>3, ZenonT(40) DEF OpRec
      <4> QED BY <1>m, <2>r, <3>k, <4>1, <4>2, <4>3, <4>4, Moved DEF Fitting
    <3> QED BY <2>26, <1>e, <2>g, <3>k, <3>1 DEF RefileReclaim, Plain
  <2>27. CASE RefileRetain(p)
    BY <2>27, <1>e, <2>g, <2>n, <2>w DEF RefileRetain, At, Away, KnowsRow, Plain, Rowless, Notes
  <2>28. CASE KillOld(p)
    BY <2>28, <1>e, <2>g, <2>n, <2>w DEF KillOld, At, Away, KnowsRow, Plain, Rowless, Notes
  <2>29. CASE FinalizeStop(p)
    BY <2>29, <1>e, <2>g, <2>n, <2>w DEF FinalizeStop, At, Away, KnowsRow, Plain, Rowless, Notes, StopOr
  <2>30. CASE FinalizeFinish(p)
    BY <2>30, <1>e, <2>g, <2>n, <2>w DEF FinalizeFinish, At, Away, KnowsRow, Plain, Rowless, Notes
  <2>31. CASE ReleaseStop(p)
    BY <2>31, <1>e, <2>g, <2>n, <2>w DEF ReleaseStop, At, Away, KnowsRow, Plain, Rowless, Notes, StopOr
  <2>32. CASE ReleaseFree(p)
    BY <2>32, <1>e, <2>g, <2>n, <2>w DEF ReleaseFree, At, Away, KnowsRow, Plain, Rowless, Notes
  <2>33. CASE ReleaseSettle(p)
    BY <2>33, <1>e, <2>g, <2>n, <2>w DEF ReleaseSettle, At, Away, KnowsRow, Plain, Rowless, Notes
  <2>34. CASE RemoveClaim(p)
    <3>k. KnowsRow(op[p]) /\ ~Away(op[p]) BY <2>34 DEF RemoveClaim, At, Away, KnowsRow
    <3>1. CASE ClaimSnapshot(op[p].s, op[p].row.started) /\ Set(p, [op[p] EXCEPT !.pc = "stop",
                                                                                 !.i = worker'[op[p].s].id, !.l = worker'[op[p].s].lease, !.note = worker[op[p].s].state])
      <4>1. /\ worker'[op[p].s].id \in Numbers /\ worker'[op[p].s].id \in 0..(next' - 1)
            /\ worker'[op[p].s].lease \in Numbers /\ worker'[op[p].s].lease \in 0..(next' - 1)
            /\ worker[op[p].s].state \in Live \cup {"none"} /\ worker[op[p].s].state \in Notes
        <5>1. op[p].s \in Sessions BY <2>r, <3>k DEF Fits
        <5>2. worker[op[p].s].state \in Live \cup {"none"}
          BY <3>1, <5>1 DEF ClaimSnapshot, CanClaimSnapshot, CanAdopt, HasWorker
        <5> QED BY <1>m, <1>y, <5>1, <5>2
                DEF TypeOK, HandedOut, SessionOut, Out, WorkerRow, Notes, WorkerStates
      <4>2. [op[p] EXCEPT !.pc = "stop", !.i = worker'[op[p].s].id, !.l = worker'[op[p].s].lease,
                          !.note = worker[op[p].s].state] \in OpRec
        BY <2>r, <4>1, KnownPcs DEF OpRec
      <4>3. op'[p] = [op[p] EXCEPT !.pc = "stop", !.i = worker'[op[p].s].id,
                                   !.l = worker'[op[p].s].lease, !.note = worker[op[p].s].state]
        BY <1>t, <3>1 DEF Set
      <4>4. /\ op'[p].pc = "stop" /\ op'[p].s = op[p].s /\ op'[p].cmd = op[p].cmd
            /\ op'[p].row = op[p].row /\ op'[p].i = worker'[op[p].s].id
            /\ op'[p].k = op[p].k /\ op'[p].l = worker'[op[p].s].lease /\ op'[p].c = op[p].c
            /\ op'[p].note = worker[op[p].s].state
        BY <2>r, <4>3, ZenonT(40) DEF OpRec
      <4> QED BY <1>m, <2>r, <3>k, <4>1, <4>2, <4>3, <4>4, Moved DEF Fitting
    <3> QED BY <2>34, <1>e, <2>g, <2>n, <3>k, <3>1 DEF RemoveClaim, Plain, Notes
  <2>35. CASE RemoveStop(p)
    BY <2>35, <1>t, <1>m, <2>r
    DEF RemoveStop, Go, Set, StopOr, Stop, Kill, Ended, Fitting, At, Away, KnowsRow, Fits, OpRec, Pcs
  <2>36. CASE RemoveAbort(p)
    BY <2>36, <1>e, <2>g, <2>n, <2>w DEF RemoveAbort, At, Away, KnowsRow, Plain, Rowless, Notes
  <2>37. CASE RemoveDetach(p)
    BY <2>37, <1>e, <2>g, <2>n, <2>w DEF RemoveDetach, At, Away, KnowsRow, Plain, Rowless, Notes
  <2>38. CASE RemoveRecord(p)
    BY <2>38, <1>e, <2>g, <2>n, <2>w DEF RemoveRecord, At, Away, KnowsRow, Plain, Rowless, Notes
  <2>39. CASE RemoveSettle(p)
    BY <2>39, <1>e, <2>g, <2>n, <2>w DEF RemoveSettle, At, Away, KnowsRow, Plain, Rowless, Notes
  <2>40. CASE OpenScan(p)
    <3>1. PICK pc \in {"try_allocations", "try_claims"},
              left \in SUBSET (Sessions \X Numbers), dead \in SUBSET (Sessions \X Numbers) :
            /\ op'[p] = [op[p] EXCEPT !.pc = pc, !.dead = dead, !.left = left]
            /\ left \subseteq Sessions \X (1..(next' - 1))
            /\ dead \subseteq Sessions \X (1..(next' - 1))
            /\ left \subseteq Sessions \X Numbers /\ dead \subseteq Sessions \X Numbers
      <4>1. CASE At(p, "allocations")
        <5> DEFINE left == {<<s, worker[s].id>> : s \in {r \in Sessions : worker[r].state = "allocating" /\ worker[r].token}}
        <5>1. \A s \in Sessions : worker[s].state = "allocating" => worker[s].id \in 1..(next' - 1) /\ worker[s].id \in Numbers
          BY <1>m, <1>y DEF TypeOK, HandedOut, SessionOut, HasWorker, Out, WorkerRow
        <5>2. op'[p] = [op[p] EXCEPT !.pc = "try_allocations", !.dead = {}, !.left = left]
          BY <1>t, <2>40, <4>1 DEF OpenScan, At, Set
        <5>3. left \subseteq Sessions \X (1..(next' - 1)) /\ left \subseteq Sessions \X Numbers BY <5>1
        <5> HIDE DEF left
        <5>4. PICK dead : dead = {} OBVIOUS
        <5>5. op'[p] = [op[p] EXCEPT !.pc = "try_allocations", !.dead = dead, !.left = left]
          BY <5>2, <5>4
        <5>6. dead \subseteq Sessions \X (1..(next' - 1)) /\ dead \subseteq Sessions \X Numbers BY <5>4
        <5> QED BY <5>3, <5>5, <5>6
      <4>2. CASE At(p, "claims")
        <5> DEFINE left == {<<s, claim[s].id>> : s \in {r \in Sessions : Claimed(r)}}
        <5>1. \A s \in Sessions : Claimed(s) => claim[s].id \in 1..(next' - 1) /\ claim[s].id \in Numbers
          BY <1>m, <1>y DEF TypeOK, HandedOut, SessionOut, Out, ClaimRow
        <5>2. op'[p] = [op[p] EXCEPT !.pc = "try_claims", !.dead = {}, !.left = left]
          BY <1>t, <2>40, <4>2 DEF OpenScan, At, Set
        <5>3. left \subseteq Sessions \X (1..(next' - 1)) /\ left \subseteq Sessions \X Numbers BY <5>1
        <5> HIDE DEF left
        <5>4. PICK dead : dead = {} OBVIOUS
        <5>5. op'[p] = [op[p] EXCEPT !.pc = "try_claims", !.dead = dead, !.left = left] BY <5>2, <5>4
        <5>6. dead \subseteq Sessions \X (1..(next' - 1)) /\ dead \subseteq Sessions \X Numbers BY <5>4
        <5> QED BY <5>3, <5>5, <5>6
      <4> QED BY <2>40, <4>1, <4>2 DEF OpenScan
    <3>2. [op[p] EXCEPT !.pc = pc, !.dead = dead, !.left = left] \in OpRec
      <4>1. left \in SUBSET Seen /\ dead \in SUBSET (Sessions \X Numbers) /\ pc \in Pcs
        BY <3>1 DEF Seen, Pcs
      <4> QED BY <2>r, <4>1 DEF OpRec
    <3>3. op'[p] = [op[p] EXCEPT !.pc = pc, !.dead = dead, !.left = left] BY <3>1
    <3>4. /\ op'[p].pc = pc /\ op'[p].i = op[p].i /\ op'[p].k = op[p].k /\ op'[p].l = op[p].l
          /\ op'[p].left = left /\ op'[p].dead = dead
      BY <2>r, <3>1, <3>3 DEF OpRec
    <3>5. op'[p].i \in 0..(next' - 1) /\ op'[p].k \in 0..(next' - 1) /\ op'[p].l \in 0..(next' - 1)
      BY <1>m, <2>r, <3>4 DEF Fits
    <3> QED BY <3>1, <3>2, <3>3, <3>4, <3>5 DEF Fitting, Fits, Away, KnowsRow
  <2>41. CASE OpenTryLock(p)
    <3>1. PICK pc \in {"try_allocations", "try_claims"},
              left \in SUBSET (Sessions \X Numbers), dead \in SUBSET (Sessions \X Numbers) :
            /\ Set(p, [op[p] EXCEPT !.left = left, !.dead = dead])
            /\ left \subseteq Sessions \X (1..(next' - 1))
            /\ dead \subseteq Sessions \X (1..(next' - 1))
            /\ left \subseteq Sessions \X Numbers /\ dead \subseteq Sessions \X Numbers /\ op[p].pc = pc
      <4>1. /\ op[p].left \subseteq Sessions \X (1..(next' - 1))
            /\ op[p].dead \subseteq Sessions \X (1..(next' - 1))
            /\ 1..(next' - 1) \subseteq Numbers
        BY <2>41, <1>m, <1>y, <2>r DEF OpenTryLock, Fits, TypeOK, Numbers
      <4>2. PICK row \in op[p].left : Set(p, [op[p] EXCEPT !.left = op[p].left \ {row},
                                                !.dead = IF Locked(row[2]) THEN op[p].dead ELSE op[p].dead \cup {row}])
        BY <2>41, Zenon DEF OpenTryLock
      <4> DEFINE left == op[p].left \ {row}
                 dead == IF Locked(row[2]) THEN op[p].dead ELSE op[p].dead \cup {row}
      <4>3. left \subseteq Sessions \X (1..(next' - 1)) /\ dead \subseteq Sessions \X (1..(next' - 1))
        BY <4>1, <4>2
      <4>4. left \subseteq Sessions \X Numbers /\ dead \subseteq Sessions \X Numbers BY <4>1, <4>3
      <4>5. Set(p, [op[p] EXCEPT !.left = left, !.dead = dead]) BY <4>2, Zenon
      <4> QED BY <2>41, <4>3, <4>4, <4>5 DEF OpenTryLock
    <3>2. [op[p] EXCEPT !.left = left, !.dead = dead] \in OpRec
      <4>1. left \in SUBSET Seen /\ dead \in SUBSET (Sessions \X Numbers) /\ pc \in Pcs
        BY <3>1 DEF Seen, Pcs
      <4> QED BY <2>r, <4>1 DEF OpRec
    <3>3. op'[p] = [op[p] EXCEPT !.left = left, !.dead = dead] BY <1>t, <3>1 DEF Set
    <3>4. /\ op'[p].pc = pc /\ op'[p].i = op[p].i /\ op'[p].k = op[p].k /\ op'[p].l = op[p].l
          /\ op'[p].left = left /\ op'[p].dead = dead
      BY <2>r, <3>1, <3>3 DEF OpRec
    <3>5. op'[p].i \in 0..(next' - 1) /\ op'[p].k \in 0..(next' - 1) /\ op'[p].l \in 0..(next' - 1)
      BY <1>m, <2>r, <3>4 DEF Fits
    <3> QED BY <3>1, <3>2, <3>3, <3>4, <3>5 DEF Fitting, Fits, Away, KnowsRow
  <2>42. CASE OpenReclaimAllocations(p)
    BY <2>42, <1>t, <1>m, <2>r
    DEF OpenReclaimAllocations, Go, Set, Fitting, At, Away, KnowsRow, Fits, OpRec, Pcs
  <2>43. CASE OpenReclaimClaim(p)
    BY <2>43, <1>t, <1>m, <2>r DEF OpenReclaimClaim, Set, Fitting, At, Away, KnowsRow, Fits, OpRec, Pcs
  <2>44. CASE OpenOrphans(p)
    BY <2>44, <1>e, <2>g, <2>n, <2>w DEF OpenOrphans, At, Away, KnowsRow, Plain, Rowless, Notes
  <2>45. CASE Exit(p)
    BY <2>45, <1>t, <1>m, <2>r DEF Exit, Go, Set, Fitting, At, Away, KnowsRow, Fits, OpRec, Pcs
  <2> QED BY <1>2, <2>1, <2>2, <2>3, <2>4, <2>5, <2>6, <2>7, <2>8, <2>9, <2>10, <2>11, <2>12, <2>13,
            <2>14, <2>15, <2>16, <2>17, <2>18, <2>19, <2>20, <2>21, <2>22, <2>23, <2>24, <2>25,
            <2>26, <2>27, <2>28, <2>29, <2>30, <2>31, <2>32, <2>33, <2>34, <2>35, <2>36, <2>37,
            <2>38, <2>39, <2>40, <2>41, <2>42, <2>43, <2>44, <2>45
          DEF Step
<1> QED BY <1>1, <1>2

-----------------------------------------------------------------------------
(* OpsInv is an invariant.                                                     *)

LEMMA FitsGrows ==
  ASSUME NEW r \in OpRec, NEW n \in Nat, NEW m \in Nat, n <= m, Fits(r, n) PROVE Fits(r, m)
<1>1. 0..(n - 1) \subseteq 0..(m - 1) /\ 1..(n - 1) \subseteq 1..(m - 1) OBVIOUS
<1>2. r.i \in 0..(m - 1) /\ r.k \in 0..(m - 1) /\ r.l \in 0..(m - 1) BY <1>1 DEF Fits
<1>3. KnowsRow(r) => r.row.started \in 1..(m - 1) BY <1>1 DEF Fits
<1>4. r.pc \in {"try_allocations", "try_claims"} =>
        r.left \subseteq Sessions \X (1..(m - 1)) /\ r.dead \subseteq Sessions \X (1..(m - 1))
  <2>1. Sessions \X (1..(n - 1)) \subseteq Sessions \X (1..(m - 1)) BY <1>1
  <2> QED BY <2>1 DEF Fits
<1> QED BY <1>2, <1>3, <1>4 DEF Fits

LEMMA DeadFits ==
  ASSUME op \in [Commands -> OpRec], NEW p \in Commands, NEW n \in Nat, n >= 1
  PROVE  Dead(p) \in OpRec /\ Fits(Dead(p), n)
<1>1. op[p].cmd \in Kinds \cup {"none"} BY DEF OpRec
<1>2. Dead(p) \in OpRec BY <1>1, IdleRecord, KnownPcs DEF Dead, OpRec
<1>3. Dead(p).pc = "done" /\ Dead(p).i = 0 /\ Dead(p).k = 0 /\ Dead(p).l = 0 BY DEF Dead, Idle
<1>4. 0 \in 0..(n - 1) BY ZeroNumber
<1> QED BY <1>2, <1>3, <1>4 DEF Fits, Away, KnowsRow

LEMMA InitOpsInv == Init => OpsInv
<1> SUFFICES ASSUME Init PROVE OpsInv OBVIOUS
<1>1. TypeOK /\ HandedOut /\ next = 1 BY InitTypeOK, InitHandedOut DEF Init, StoreInit
<1>2. op \in [Commands -> OpRec] BY IdleRecord DEF Init
<1>3. Fits(Idle, 1) BY DEF Fits, Idle, Away, KnowsRow
<1>4. \A p \in Commands : Fits(op[p], next) BY <1>1, <1>3 DEF Init
<1>5. NoRun \in RunRow BY DEF NoRun, RunRow, Numbers
<1>6. run \in [Sessions -> RunRow] BY <1>5 DEF Init
<1> QED BY <1>1, <1>2, <1>4, <1>6 DEF OpsInv, OpsTypeOK

LEMMA NextOpsInv == ASSUME OpsInv, [Next]_vars PROVE OpsInv' /\ [StoreNext]_db
<1>0. [StoreNext]_db BY CommandsClients DEF vars, db
<1>1. TypeOK /\ HandedOut /\ op \in [Commands -> OpRec] /\ run \in [Sessions -> RunRow]
      /\ \A q \in Commands : Fits(op[q], next)
  BY DEF OpsInv, OpsTypeOK
<1>2. TypeOK' /\ HandedOut' BY <1>0, <1>1, NextTypeOK, NextHandedOut
<1>3. next \in Nat /\ next >= 1 /\ next' \in 1..(MaxGen + 1) /\ next' \in Nat /\ next <= next'
  BY <1>0, <1>1, <1>2, NextGrows DEF TypeOK
<1>4. \A r \in OpRec : Fits(r, next) => Fits(r, next') BY <1>3, FitsGrows
<1>5. ASSUME op' \in [Commands -> OpRec], run' \in [Sessions -> RunRow],
             \A q \in Commands : Fits(op'[q], next')
      PROVE  OpsInv'
  BY <1>2, <1>5 DEF OpsInv, OpsTypeOK
<1>6. ASSUME op' = op, run' \in [Sessions -> RunRow] PROVE OpsInv'
  BY <1>1, <1>4, <1>5, <1>6
<1>7. ASSUME NEW p \in Commands, Start(p) \/ Step(p) PROVE OpsInv'
  <2>1. Fitting(p) BY <1>2, <1>3, <1>7, CommandFits
  <2>2. op' = [op EXCEPT ![p] = op'[p]] /\ run' \in [Sessions -> RunRow] BY <1>7, CommandFrame
  <2>3. op' \in [Commands -> OpRec] BY <1>1, <2>1, <2>2 DEF Fitting
  <2>4. \A q \in Commands : Fits(op'[q], next')
    <3>1. \A q \in Commands \ {p} : op'[q] = op[q] /\ op[q] \in OpRec BY <1>1, <2>2
    <3> QED BY <1>1, <1>4, <2>1, <3>1 DEF Fitting
  <2> QED BY <1>5, <2>2, <2>3, <2>4
<1>8. ASSUME NEW p \in Commands, Crash(p) PROVE OpsInv'
  <2>1. op' = [op EXCEPT ![p] = Dead(p)] /\ run' = run BY <1>8 DEF Crash, Set
  <2>2. Dead(p) \in OpRec /\ Fits(Dead(p), next') BY <1>1, <1>3, DeadFits
  <2>3. op' \in [Commands -> OpRec] BY <1>1, <2>1, <2>2
  <2>4. \A q \in Commands : Fits(op'[q], next') BY <1>1, <1>4, <2>1, <2>2
  <2> QED BY <1>1, <1>5, <2>1, <2>3, <2>4
<1>9. CASE CrashApp
  <2>1. \A p \in Commands : op'[p] \in {op[p], Dead(p)} BY <1>9 DEF CrashApp
  <2>2. \A p \in Commands : Dead(p) \in OpRec /\ Fits(Dead(p), next') BY <1>1, <1>3, DeadFits
  <2>3. op' \in [Commands -> OpRec] BY <1>1, <1>9, <2>1, <2>2 DEF CrashApp
  <2>4. \A q \in Commands : Fits(op'[q], next') BY <1>1, <1>4, <2>1, <2>2
  <2>5. run' = run BY <1>9 DEF CrashApp
  <2> QED BY <1>0, <1>1, <1>5, <2>3, <2>4, <2>5
<1>10. ASSUME NEW s \in Sessions, AgentExits(s) PROVE OpsInv'
  BY <1>1, <1>6, <1>10, KillTyped DEF AgentExits
<1>11. ASSUME NEW s \in Sessions, PollPid(s) \/ AgentReports(s) \/ Merged(s) PROVE OpsInv'
  BY <1>1, <1>6, <1>11 DEF PollPid, AgentReports, Merged
<1>12. CASE UNCHANGED vars
  <2>1. op' = op /\ run' = run BY <1>12 DEF vars
  <2> QED BY <1>0, <1>1, <1>6, <2>1
<1> QED BY <1>0, <1>7, <1>8, <1>9, <1>10, <1>11, <1>12 DEF Next

-----------------------------------------------------------------------------
(* What the commands do to the tables are transactions of the store.           *)

(* Whatever spawn, resume, finalize, cleanup, remove, reconcile and the open     *)
(* of a store do, one step at a time and killed between any two, reaches the     *)
(* tables only as the transactions of store.rs, called as they may be called:    *)
(* the commands implement StoreSpec.                                             *)
THEOREM CommandsKeepContract == Spec => StoreContract
<1>1. Init => StoreInit BY DEF Init
<1>2. OpsInv /\ [Next]_vars => OpsInv' /\ [StoreNext]_db BY NextOpsInv
<1> QED BY <1>1, <1>2, InitOpsInv, PTL DEF Spec, StoreContract, StoreSpec

(* The tables, what each command carries from one transaction to the next        *)
(* (incarnation, lease, claim, rows it has seen) and what the runtime knows of   *)
(* an agent keep their types; every number in hand has been handed out.          *)
THEOREM CommandsTypeCorrect == Spec => []OpsTypeOK
<1>1. OpsInv => OpsTypeOK BY DEF OpsInv
<1> QED BY <1>1, InitOpsInv, NextOpsInv, PTL DEF Spec

(* A start, an abort and a finalization never act on the same incarnation at     *)
(* once (acquire_claim, prepare_finalization), whichever commands overlap,       *)
(* are killed, or find the session re-filed.                                     *)
THEOREM CommandsExclude == Spec => []ClaimExclusive
<1>1. Init => OpsInv /\ ClaimInv BY InitOpsInv, InitClaimSafe DEF Init
<1>2. OpsInv /\ ClaimInv /\ [Next]_vars => OpsInv' /\ ClaimInv'
  BY NextOpsInv, NextClaimSafe DEF OpsInv, OpsTypeOK
<1>3. ClaimInv => ClaimExclusive BY DEF ClaimInv
<1> QED BY <1>1, <1>2, <1>3, PTL DEF Spec

-----------------------------------------------------------------------------
(* Who holds which runtime claim.                                              *)

HoldsAt(cmd, pc) ==
  \/ cmd = "spawn" /\ pc \in {"launch", "complete", "unclaim"}
  \/ cmd = "resume" /\ pc \in {"kill_old", "ensure", "launch", "row", "failed", "complete", "unclaim"}

(* Which commands reach the steps that several commands share.                *)
Opening == {"allocations", "try_allocations", "claims", "try_claims"}
Reaches(cmd, pc) ==
  /\ pc \in {"complete", "unclaim"} => cmd \in {"spawn", "resume"}
  /\ pc = "ensure" => cmd \in {"refile", "resume"}
  /\ pc = "kill_old" => cmd \in {"resume", "relaunch"}
  /\ pc \in {"scan", "visit", "create", "bind"} => cmd \in {"spawn", "refile"}
  /\ pc = "workspace" => cmd = "spawn"
  /\ pc \in {"find", "rehome"} => cmd = "refile"
  /\ pc \in Opening => cmd = "open"
  /\ cmd = "open" => pc \in Opening \cup {"exit", "done"}
Holds(p) == HoldsAt(op[p].cmd, op[p].pc)
KindFits(p) == Reaches(op[p].cmd, op[p].pc)
Holder(p) == IF IsApp(p) THEN App ELSE p
HoldsClaim(p) ==
  /\ claim[op[p].s].id = op[p].k /\ claim[op[p].s].inc = op[p].i /\ op[p].k # 0
  /\ <<Holder(p), op[p].k>> \in lock
Incarnations == {worker[s].id : s \in Sessions} \cup {checkout[c].owner : c \in Checkouts}
                  \cup {op[p].i : p \in Commands}
OneHolder == \A p, q \in Commands : Holds(p) /\ Holds(q) /\ op[p].s = op[q].s => p = q
OwnNumber == \A s \in Sessions : Claimed(s) =>
  claim[s].id \notin Incarnations /\ \A r \in Sessions \ {s} : claim[r].id # claim[s].id
LockHeld == \A s \in Sessions, l \in lock : Claimed(s) /\ l[2] = claim[s].id =>
  \E p \in Commands : Holds(p) /\ op[p].s = s /\ l[1] = Holder(p)
DeadUnlocked == \A p \in Commands : op[p].pc \in {"try_allocations", "try_claims"} =>
  \A d \in op[p].dead : ~Locked(d[2])
LaunchInv ==
  /\ \A p \in Commands : KindFits(p) /\ (Holds(p) => HoldsClaim(p))
  /\ OneHolder /\ OwnNumber /\ LockHeld /\ DeadUnlocked

-----------------------------------------------------------------------------
(* The transactions that leave the runtime claims alone: numbers of            *)
(* incarnations come from the tables, from the caller or are new, a session    *)
(* gets none of another session's, and only the locks of incarnations are      *)
(* dropped.                                                                    *)

\* The numbers of a session: its incarnation's, its leases', its commands'.
Uses(s, n) ==
  \/ n = 0 \/ n = worker[s].id
  \/ \E c \in LeasesOf(s) : n = checkout[c].owner
  \/ \E p \in Commands : op[p].s = s /\ n = op[p].i
\* No session gets a number of another one, and only z gets the new one.
KeepsTo(z) == \A r \in Sessions :
  /\ Uses(r, worker'[r].id) \/ (r = z /\ worker'[r].id = next)
  /\ \A c \in Checkouts : checkout'[c].state \in Busy /\ checkout'[c].session = r =>
       Uses(r, checkout'[c].owner) \/ (r = z /\ checkout'[c].owner = next)

Renumbers ==
  /\ \E z : KeepsTo(z)
  /\ \A s \in Sessions : worker'[s].id \in Incarnations \cup {0, next}
  /\ \A c \in Checkouts : checkout'[c].owner \in Incarnations \cup {0, next}
  /\ \A l \in lock' : l \in lock \/ l[2] = next
  /\ \A l \in lock : l \in lock' \/ l[2] \in Incarnations
Renumbered == claim' = claim /\ Renumbers

RenumbersIncarnation(s, i) ==
  /\ \A l : Bind(s, i, l) \/ ClaimWithLease(s, i, l) => Renumbered
  /\ CompleteIncarnation(s, i) \/ CompleteFinalization(s, i) => Renumbered
  /\ ClaimCleanup(s, i) \/ ClaimRelease(s, i) => Renumbered
  /\ \A t : Retain(s, i, t) => Renumbered
  /\ \A t, prior : AbortSnapshot(s, i, t, prior) => Renumbered
  /\ \A claimed : AbortClaim(s, i, claimed) \/ CompleteClaim(s, i, claimed) => Renumbered

LEMMA KnownNumbers ==
  /\ \A s \in Sessions : worker[s].id \in Incarnations
  /\ \A c \in Checkouts : checkout[c].owner \in Incarnations
  /\ \A p \in Commands : op[p].i \in Incarnations
  BY DEF Incarnations

LEMMA OwnNumbers ==
  /\ \A s \in Sessions : Uses(s, 0) /\ Uses(s, worker[s].id)
  /\ \A s \in Sessions : \A c \in LeasesOf(s) : Uses(s, checkout[c].owner)
  /\ \A s \in Sessions, c \in Checkouts :
       checkout[c].state \in Busy /\ checkout[c].session = s => Uses(s, checkout[c].owner)
  /\ \A s \in Sessions : \A n : Uses(s, n) => n \in Incarnations \cup {0}
<1>1. \A s \in Sessions, c \in Checkouts :
        checkout[c].state \in Busy /\ checkout[c].session = s => Uses(s, checkout[c].owner)
  BY DEF Uses, LeasesOf
<1>2. \A s \in Sessions : Uses(s, 0) /\ Uses(s, worker[s].id) BY DEF Uses
<1>3. \A s \in Sessions : \A c \in LeasesOf(s) : Uses(s, checkout[c].owner) BY DEF Uses
<1>4. \A s \in Sessions : \A n : Uses(s, n) => n \in Incarnations \cup {0}
  BY KnownNumbers DEF Uses, LeasesOf
<1> QED BY <1>1, <1>2, <1>3, <1>4

LEMMA KeptNumbers ==
  ASSUME TypeOK, UNCHANGED checkout
  PROVE  /\ (\A s \in Sessions : worker'[s].id = worker[s].id) => \E z : KeepsTo(z)
         /\ \A s \in Sessions : \A row : worker' = [worker EXCEPT ![s] = row]
              /\ (Uses(s, row.id) \/ row.id = next) => \E z : KeepsTo(z)
<1>1. ASSUME \A s \in Sessions : worker'[s].id = worker[s].id PROVE \E z : KeepsTo(z)
  BY <1>1, OwnNumbers DEF KeepsTo
<1>2. ASSUME NEW s \in Sessions, NEW row, worker' = [worker EXCEPT ![s] = row],
             Uses(s, row.id) \/ row.id = next
      PROVE  \E z : KeepsTo(z)
  <2>1. worker'[s] = row /\ \A r \in Sessions \ {s} : worker'[r] = worker[r] BY <1>2 DEF TypeOK
  <2>2. KeepsTo(s) BY <1>2, <2>1, OwnNumbers DEF KeepsTo
  <2> QED BY <2>2
<1> QED BY <1>1, <1>2

LEMMA KeptCheckouts ==
  ASSUME TypeOK, UNCHANGED worker, NEW c \in Checkouts, NEW row, checkout' = [checkout EXCEPT ![c] = row],
         \A s \in Sessions : row.state \in Busy /\ row.session = s => Uses(s, row.owner)
  PROVE  \E z : KeepsTo(z)
<1>1. checkout'[c] = row /\ \A d \in Checkouts \ {c} : checkout'[d] = checkout[d] BY DEF TypeOK
<1>2. KeepsTo(NoSession) BY <1>1, OwnNumbers DEF KeepsTo
<1> QED BY <1>2

LEMMA IncarnationRenumbers ==
  ASSUME TypeOK, NEW s \in Sessions, NEW i PROVE RenumbersIncarnation(s, i)
<1> USE KnownNumbers DEF TypeOK
<1>k. \A r \in Sessions : worker[r] \in WorkerRow OBVIOUS
<1>i. Is(s, i) => i \in Incarnations BY DEF Is
<1>s. \A state : Settled(s, state).id = worker[s].id BY <1>k DEF Settled, WorkerRow
<1>e. \A state : [worker[s] EXCEPT !.state = state].id = worker[s].id BY <1>k DEF WorkerRow
<1>l. \A state, l : [worker[s] EXCEPT !.state = state, !.lease = l].id = worker[s].id
  BY <1>k DEF WorkerRow
<1>b. \A l : [Settled(s, "active") EXCEPT !.lease = l].id = worker[s].id BY <1>k DEF Settled, WorkerRow
<1>o. ASSUME NEW row, row.id = 0 \/ row.id = worker[s].id, worker' = [worker EXCEPT ![s] = row],
             UNCHANGED <<claim, checkout>>, lock' = lock \/ (lock' = Unlocked(i) /\ i \in Incarnations)
      PROVE  Renumbered
  <2>1. \E z : KeepsTo(z) BY <1>o, KeptNumbers, OwnNumbers
  <2> QED BY <1>o, <2>1 DEF Renumbered, Renumbers, Unlocked
<1>1. ASSUME NEW l, Bind(s, i, l) PROVE Renumbered
  <2> DEFINE row == [Settled(s, "active") EXCEPT !.lease = l]
  <2>1. row.id = worker[s].id BY <1>b
  <2>2. worker' = [worker EXCEPT ![s] = row] BY <1>1 DEF Bind
  <2> HIDE DEF row
  <2> QED BY <1>i, <1>o, <1>1, <2>1, <2>2 DEF Bind, CanBind
<1>2. ASSUME NEW l, ClaimWithLease(s, i, l) PROVE Renumbered
  <2> DEFINE row == [worker[s] EXCEPT !.state = "cleanup_claimed", !.lease = l]
  <2>1. row.id = worker[s].id BY <1>l
  <2>2. worker' = [worker EXCEPT ![s] = row] BY <1>2 DEF ClaimWithLease
  <2> HIDE DEF row
  <2> QED BY <1>o, <1>2, <2>1, <2>2 DEF ClaimWithLease
<1>m. ASSUME NEW state, Move(s, state), UNCHANGED <<claim, checkout, lock>> PROVE Renumbered
  <2> DEFINE row == [worker[s] EXCEPT !.state = state]
  <2>1. row.id = worker[s].id BY <1>e
  <2>2. worker' = [worker EXCEPT ![s] = row] BY <1>m DEF Move
  <2> HIDE DEF row
  <2> QED BY <1>o, <1>m, <2>1, <2>2
<1>t. ASSUME NEW state, worker' = [worker EXCEPT ![s] = Settled(s, state)], Is(s, i), lock' = Unlocked(i),
             UNCHANGED <<claim, checkout>>
      PROVE  Renumbered
  BY <1>i, <1>o, <1>s, <1>t
<1>3. CompleteIncarnation(s, i) => Renumbered
  BY <1>t DEF CompleteIncarnation, CanCompleteIncarnation
<1>4. CompleteFinalization(s, i) => Renumbered
  BY <1>t DEF CompleteFinalization, CanCompleteFinalization
<1>5. ClaimCleanup(s, i) \/ ClaimRelease(s, i) => Renumbered
  BY <1>m DEF ClaimCleanup, ClaimRelease, ClaimState
<1>6. ASSUME NEW t, Retain(s, i, t) PROVE Renumbered BY <1>m, <1>6 DEF Retain
<1>7. ASSUME NEW t, NEW prior, AbortSnapshot(s, i, t, prior) PROVE Renumbered
  <2> DEFINE row == IF prior = "none" THEN NoWorker ELSE [worker[s] EXCEPT !.state = prior]
  <2>1. row.id = 0 \/ row.id = worker[s].id BY <1>e DEF NoWorker
  <2>2. worker' = [worker EXCEPT ![s] = row] BY <1>7 DEF AbortSnapshot
  <2> HIDE DEF row
  <2> QED BY <1>o, <1>7, <2>1, <2>2 DEF AbortSnapshot
<1>8. ASSUME NEW claimed, AbortClaim(s, i, claimed) PROVE Renumbered BY <1>m, <1>8 DEF AbortClaim
<1>9. ASSUME NEW claimed, CompleteClaim(s, i, claimed) PROVE Renumbered
  BY <1>t, <1>9 DEF CompleteClaim, CanSettle
<1> QED BY <1>1, <1>2, <1>3, <1>4, <1>5, <1>6, <1>7, <1>8, <1>9 DEF RenumbersIncarnation

RenumbersSession(s) ==
  /\ InsertSpawning(s) \/ DeleteSession(s) \/ BeginFinalization(s) => Renumbered
  /\ \A row : UpsertSession(s, row) => Renumbered
  /\ \A t, c : TerminalizeSpawning(s, t, c) \/ UpdateSpawningWorkspace(s, t, c) => Renumbered
  /\ \A t, status : UpdateStatus(s, t, status) => Renumbered
  /\ \A t : DeleteSpawning(s, t) \/ ClaimSnapshot(s, t) => Renumbered
  /\ \A p, t : Prepare(p, s, t) => Renumbered

LEMMA SameNumbers ==
  ASSUME UNCHANGED <<worker, claim, checkout, lock>> PROVE Renumbered
<1>1. KeepsTo(NoSession) BY OwnNumbers DEF KeepsTo
<1> QED BY <1>1, KnownNumbers DEF Renumbered, Renumbers

LEMMA AdoptedNumber ==
  ASSUME NEW s \in Sessions, NEW state
  PROVE  /\ Adopted(s, state).id \in Incarnations \cup {0, next}
         /\ Uses(s, Adopted(s, state).id) \/ Adopted(s, state).id = next
         /\ LeasesOf(s) # {} => Uses(s, Adopted(s, state).id)
<1>1. LeasesOf(s) # {} => Uses(s, Adopted(s, state).id) BY OwnNumbers DEF Adopted
<1>2. LeasesOf(s) = {} => Adopted(s, state).id = next BY DEF Adopted
<1> QED BY <1>1, <1>2, OwnNumbers

LEMMA SessionRenumbers == ASSUME TypeOK, NEW s \in Sessions PROVE RenumbersSession(s)
<1>k. \A r \in Sessions : worker[r] \in WorkerRow BY DEF TypeOK
<1>1. InsertSpawning(s) => Renumbered BY SameNumbers DEF InsertSpawning
<1>y. TypeOK OBVIOUS
<1>o. ASSUME NEW row, worker' = [worker EXCEPT ![s] = row], UNCHANGED <<claim, checkout, lock>>,
             Uses(s, row.id) \/ row.id = next
      PROVE  Renumbered
  <2>1. \E z : KeepsTo(z) BY <1>y, <1>o, KeptNumbers
  <2>2. row.id \in Incarnations \cup {0, next} BY <1>o, OwnNumbers
  <2> QED BY <1>y, <1>o, <2>1, <2>2, KnownNumbers DEF Renumbered, Renumbers, TypeOK
<1>2. ASSUME DeleteSession(s) PROVE Renumbered
  <2>1. CASE UNCHANGED worker BY <1>2, <2>1, SameNumbers DEF DeleteSession
  <2>2. CASE worker' = [worker EXCEPT ![s] = NoWorker]
    <3>1. NoWorker.id = 0 BY DEF NoWorker
    <3> QED BY <1>2, <1>o, <2>2, <3>1, OwnNumbers DEF DeleteSession
  <2> QED BY <1>2, <2>1, <2>2 DEF DeleteSession
<1>3. ASSUME BeginFinalization(s) PROVE Renumbered
  <2>1. Uses(s, ToFinalize(s).id) \/ ToFinalize(s).id = next
    BY AdoptedNumber, OwnNumbers DEF ToFinalize
  <2> QED BY <1>3, <1>o, <2>1 DEF BeginFinalization
<1>u. ASSUME NEW row, UpsertSession(s, row) PROVE Renumbered BY <1>u, SameNumbers DEF UpsertSession
<1>4. ASSUME NEW t, NEW c, TerminalizeSpawning(s, t, c) \/ UpdateSpawningWorkspace(s, t, c) PROVE Renumbered
  BY <1>4, <1>u DEF TerminalizeSpawning, UpdateSpawningWorkspace
<1>5. ASSUME NEW t, NEW status, UpdateStatus(s, t, status) PROVE Renumbered
  BY <1>5, <1>u DEF UpdateStatus
<1>6. ASSUME NEW t, DeleteSpawning(s, t) PROVE Renumbered BY <1>6, <1>u DEF DeleteSpawning
<1>7. ASSUME NEW t, ClaimSnapshot(s, t) PROVE Renumbered
  <2> DEFINE row == IF HasWorker(s) THEN [worker[s] EXCEPT !.state = "cleanup_claimed"]
                    ELSE Adopted(s, "cleanup_claimed")
  <2>1. Uses(s, row.id) \/ row.id = next BY <1>k, OwnNumbers, AdoptedNumber DEF WorkerRow
  <2>2. worker' = [worker EXCEPT ![s] = row] /\ UNCHANGED <<claim, checkout, lock>>
    BY <1>7 DEF ClaimSnapshot
  <2> HIDE DEF row
  <2> QED BY <1>o, <2>1, <2>2
<1>8. ASSUME NEW p, NEW t, Prepare(p, s, t) PROVE Renumbered
  <2>1. claim' = claim /\ lock' = lock \cup {<<p, next>>} BY <1>8 DEF Prepare
  <2>2. \A r \in Sessions : worker'[r].id \in Incarnations \cup {next}
    BY <1>8, KnownNumbers DEF Prepare, TypeOK
  <2>3. \A c \in Checkouts : checkout'[c].owner \in Incarnations \cup {next}
    BY <1>8, KnownNumbers DEF Prepare, TypeOK, CheckoutRow
  <2>4. KeepsTo(s)
    <3>1. \A r \in Sessions : worker'[r].id = worker[r].id \/ (r = s /\ worker'[r].id = next)
      BY <1>8 DEF Prepare, TypeOK
    <3>2. \A c \in Checkouts :
            \/ checkout'[c] = checkout[c]
            \/ checkout'[c].session = s /\ checkout'[c].owner = next
      BY <1>8 DEF Prepare, TypeOK, CheckoutRow, LeasesOf
    <3> QED BY <3>1, <3>2, OwnNumbers DEF KeepsTo
  <2> QED BY <2>1, <2>2, <2>3, <2>4 DEF Renumbered, Renumbers
<1> QED BY <1>1, <1>2, <1>3, <1>u, <1>4, <1>5, <1>6, <1>7, <1>8 DEF RenumbersSession

RenumbersPool(c) ==
  /\ \A s \in Sessions : \A i : Uses(s, i) /\ (ClaimFree(s, i, c) \/ Reserve(s, i, c)) => Renumbered
  /\ \A s, i, l : FinalizeCheckout(s, i, l, c) \/ ReleaseCheckout(s, i, l, c)
      \/ Quarantine(s, i, l, c) \/ RemoveMissing(s, i, l, c)
      \/ RemoveFailed(s, i, l, c) => Renumbered
  /\ RecoverQuarantined(c) \/ RemoveQuarantined(c) => Renumbered

LEMMA PoolRenumbers == ASSUME TypeOK, NEW c \in Checkouts PROVE RenumbersPool(c)
<1>k. \A d \in Checkouts : checkout[d] \in CheckoutRow BY DEF TypeOK
<1>y. TypeOK OBVIOUS
<1>o. ASSUME NEW row, row.owner \in Incarnations \cup {0}, SetCheckout(c, row),
             \A s \in Sessions : row.state \in Busy /\ row.session = s => Uses(s, row.owner)
      PROVE  Renumbered
  <2>1. \E z : KeepsTo(z) BY <1>y, <1>o, KeptCheckouts DEF SetCheckout
  <2> QED BY <1>y, <1>o, <2>1, KnownNumbers DEF SetCheckout, Renumbered, Renumbers, TypeOK
<1>u. ASSUME NEW state, SetCheckout(c, Unused(state)) PROVE Renumbered
  <2>1. Unused(state).owner = 0 BY DEF Unused
  <2> QED BY <1>o, <1>u, <2>1, OwnNumbers
<1>1. ASSUME NEW s \in Sessions, NEW i, Uses(s, i), ClaimFree(s, i, c) \/ Reserve(s, i, c)
      PROVE  Renumbered
  <2> DEFINE row == [state |-> "provisioning", session |-> s, owner |-> i, lease |-> i]
  <2>1. SetCheckout(c, row) BY <1>1 DEF ClaimFree, Reserve, Take
  <2>2. row.owner = i /\ row.session = s OBVIOUS
  <2> HIDE DEF row
  <2> QED BY <1>o, <1>1, <2>1, <2>2, OwnNumbers
<1>2. ASSUME NEW s, NEW i, NEW l, FinalizeCheckout(s, i, l, c) PROVE Renumbered
  <2> DEFINE row == [checkout[c] EXCEPT !.state = "leased"]
  <2>1. SetCheckout(c, row) /\ checkout[c].state \in Busy
    BY <1>2 DEF FinalizeCheckout, CanFinalizeCheckout, Busy
  <2>2. row.owner = checkout[c].owner /\ row.session = checkout[c].session BY <1>k DEF CheckoutRow
  <2> HIDE DEF row
  <2> QED BY <1>o, <2>1, <2>2, KnownNumbers, OwnNumbers
<1>3. ASSUME NEW s, NEW i, NEW l, ReleaseCheckout(s, i, l, c) \/ Quarantine(s, i, l, c)
                                    \/ RemoveMissing(s, i, l, c) \/ RemoveFailed(s, i, l, c)
      PROVE  Renumbered
  BY <1>3, <1>u DEF ReleaseCheckout, Quarantine, RemoveMissing, RemoveFailed
<1>4. RecoverQuarantined(c) \/ RemoveQuarantined(c) => Renumbered
  BY <1>u DEF RecoverQuarantined, RemoveQuarantined
<1> QED BY <1>1, <1>2, <1>3, <1>4 DEF RenumbersPool

LEMMA OpenRenumbers == ASSUME TypeOK, AdoptLeases \/ RemoveOrphans \/ Tick PROVE Renumbered
<1>1. CASE AdoptLeases
  <2>1. \A s \in Sessions : Uses(s, worker'[s].id) BY <1>1, OwnNumbers, AdoptedNumber DEF AdoptLeases
  <2>2. UNCHANGED <<claim, checkout, lock>> BY <1>1 DEF AdoptLeases
  <2>3. KeepsTo(NoSession) BY <2>1, <2>2, OwnNumbers DEF KeepsTo
  <2> QED BY <2>1, <2>2, <2>3, KnownNumbers, OwnNumbers DEF Renumbered, Renumbers
<1>2. CASE RemoveOrphans BY <1>2, SameNumbers DEF RemoveOrphans
<1>3. CASE Tick BY <1>3, SameNumbers DEF Tick
<1> QED BY <1>1, <1>2, <1>3

-----------------------------------------------------------------------------
(* What a step makes of the record of its command.                             *)

Trying == {"try_allocations", "try_claims"}
Same(p, pc) == /\ op'[p].pc = pc /\ op'[p].cmd = op[p].cmd /\ op'[p].s = op[p].s
               /\ op'[p].i = op[p].i /\ op'[p].k = op[p].k
\* The number a command holds is its session's.
Named(p) == \/ op'[p].i = 0
            \/ op'[p].i = op[p].i /\ op'[p].s = op[p].s
            \/ op'[p].s \in Sessions /\ op'[p].i = worker'[op'[p].s].id
Tidy(p) ==
  /\ Reaches(op'[p].cmd, op'[p].pc)
  /\ At(p, "idle") \/ op'[p].cmd = op[p].cmd
  /\ Named(p)
  /\ op'[p].i \in Incarnations \cup {0, next}
  /\ HoldsAt(op'[p].cmd, op'[p].pc) <=> Holds(p)
  /\ Holds(p) => op'[p].cmd = op[p].cmd /\ op'[p].s = op[p].s /\ op'[p].i = op[p].i /\ op'[p].k = op[p].k
  /\ op'[p].pc \in Trying => \A d \in op'[p].dead : ~Locked(d[2])'
Leads(r, pc) ==
  pc \notin Trying /\ Reaches(r.cmd, pc) /\ (HoldsAt(r.cmd, pc) <=> HoldsAt(r.cmd, r.pc))

LEMMA SameTidy ==
  ASSUME NEW p \in Commands
  PROVE  \A pc : Same(p, pc) /\ Leads(op[p], pc) => Tidy(p)
<1>1. op[p].i \in Incarnations BY KnownNumbers
<1> QED BY <1>1 DEF Same, Leads, Tidy, Holds, Named

LEMMA GoSame ==
  ASSUME op \in [Commands -> OpRec], NEW p \in Commands
  PROVE  \A pc : Go(p, pc) \/ (\E note : GoNote(p, pc, note)) => Same(p, pc)
<1>1. op[p] \in OpRec OBVIOUS
<1>2. ASSUME NEW pc, Go(p, pc) PROVE Same(p, pc)
  <2>1. op'[p] = [op[p] EXCEPT !.pc = pc] BY <1>2 DEF Go, Set
  <2> QED BY <1>1, <2>1 DEF OpRec, Same
<1>3. ASSUME NEW pc, NEW note, GoNote(p, pc, note) PROVE Same(p, pc)
  <2>1. op'[p] = [op[p] EXCEPT !.pc = pc, !.note = note] BY <1>3 DEF GoNote, Set
  <2> QED BY <1>1, <2>1 DEF OpRec, Same
<1> QED BY <1>2, <1>3

LEMMA NotAcquiredSame ==
  ASSUME op \in [Commands -> OpRec], NEW p \in Commands, NotAcquired(p)
  PROVE  Same(p, "rollback")
  BY DEF NotAcquired, Set, OpRec, Same

LEMMA TidyEnd ==
  ASSUME op \in [Commands -> OpRec], NEW p \in Commands, ~Holds(p), End(p)
  PROVE  Tidy(p)
<1>1. PICK pc \in {"done", "exit"} : op'[p] = [Idle EXCEPT !.cmd = op[p].cmd, !.pc = pc]
  BY DEF End, Set
<1>2. op'[p].pc \in {"done", "exit"} /\ op'[p].i = 0 /\ op'[p].cmd = op[p].cmd BY <1>1 DEF Idle
<1> QED BY <1>2 DEF Tidy, Reaches, Opening, HoldsAt, Holds, Trying, Named

LEMMA BeginTidy ==
  ASSUME NEW p \in Commands, At(p, "idle"), Reaches(op'[p].cmd, op'[p].pc), ~HoldsAt(op'[p].cmd, op'[p].pc),
         op'[p].pc \notin Trying, op'[p].i \in Incarnations \cup {0, next}, Named(p)
  PROVE  Tidy(p)
  BY DEF At, Tidy, Holds, HoldsAt

(* Each step but those that take, give back or reclaim a runtime claim.        *)
LEMMA CommandTidy ==
  ASSUME OpsInv, OpsInv', NEW p \in Commands, KindFits(p),
         \A s \in Sessions : worker'[s].id \in Incarnations \cup {0, next},
         DeadUnlocked, Start(p) \/ Step(p),
         ~CompleteLaunch(p), ~Unclaim(p), ~\E s \in Sessions : ResumeStart(p, s),
         ~(SpawnClaim(p) /\ ClaimStart(p, op[p].s, op[p].i))
  PROVE  Tidy(p)
<1>t. op \in [Commands -> OpRec] BY DEF OpsInv, OpsTypeOK
<1>f. Fits(op[p], next) BY DEF OpsInv
<1>y. TypeOK BY DEF OpsInv, OpsTypeOK
<1>n. \A s \in Sessions : worker'[s].id \in Incarnations \cup {0, next} OBVIOUS
<1>1. CASE Start(p)
  <2>1. CASE OpenAdopt(p)
    <3>1. op'[p].cmd = "open" /\ op'[p].pc = "allocations" /\ op'[p].i = 0 /\ At(p, "idle")
      BY <2>1, <1>t DEF OpenAdopt, Ready, Set, Begin, Idle
    <3> QED BY <3>1, BeginTidy DEF Reaches, Opening, HoldsAt, Trying, Named
  <2>2. ASSUME NEW s \in Sessions,
               \/ SpawnInsert(p, s) \/ RefileStart(p, s) \/ ResumeStart(p, s) \/ RelaunchStart(p, s)
               \/ FinalizeStart(p, s) \/ ReleaseStart(p, s) \/ RemoveStart(p, "remove", s)
               \/ RemoveStart(p, "cleanup", s)
        PROVE  Tidy(p)
    <3>1. CASE SpawnInsert(p, s)
      <4>1. op'[p].cmd = "spawn" /\ op'[p].pc = "prepare" /\ op'[p].i = 0 /\ At(p, "idle")
        BY <3>1, <1>t DEF SpawnInsert, Ready, Set, Begin, Idle
      <4> QED BY <1>n, <4>1, BeginTidy, KnownNumbers DEF Reaches, Opening, HoldsAt, Trying, Named
    <3>2. CASE RefileStart(p, s)
      <4>1. op'[p].cmd = "refile" /\ op'[p].pc = "stop" /\ op'[p].i = worker[s].id /\ At(p, "idle")
        BY <3>2, <1>t DEF RefileStart, Ready, Set, Begin, Idle
      <4>2. op'[p].s = s /\ worker' = worker BY <3>2, <1>t DEF RefileStart, Set, Begin, Idle, Keep, db
      <4> QED BY <1>n, <4>1, <4>2, BeginTidy, KnownNumbers DEF Reaches, Opening, HoldsAt, Trying, Named
    <3>3. CASE ResumeStart(p, s) BY <3>3 DEF ResumeStart
    <3>4. CASE RelaunchStart(p, s)
      <4>1. op'[p].cmd = "relaunch" /\ op'[p].pc = "kill_old" /\ op'[p].i = 0 /\ At(p, "idle")
        BY <3>4, <1>t DEF RelaunchStart, Ready, Set, Begin, Idle
      <4> QED BY <1>n, <4>1, BeginTidy, KnownNumbers DEF Reaches, Opening, HoldsAt, Trying, Named
    <3>5. CASE FinalizeStart(p, s)
      <4>1. op'[p].cmd = "finalize" /\ op'[p].pc \in {"stop", "exit"} /\ op'[p].i = worker'[s].id /\ At(p, "idle")
        BY <3>5, <1>t DEF FinalizeStart, Ready, Set, Begin, Idle
      <4>2. op'[p].s = s BY <3>5, <1>t DEF FinalizeStart, Set, Begin, Idle
      <4> QED BY <1>n, <4>1, <4>2, BeginTidy DEF Reaches, Opening, HoldsAt, Trying, Named
    <3>6. CASE ReleaseStart(p, s)
      <4>1. op'[p].cmd = "release" /\ op'[p].pc = "stop" /\ op'[p].i = worker[s].id /\ At(p, "idle")
        BY <3>6, <1>t DEF ReleaseStart, Ready, Set, Begin, Idle
      <4>2. op'[p].s = s BY <3>6, <1>t DEF ReleaseStart, Set, Begin, Idle
      <4>3. worker'[s].id = worker[s].id
        <5>1. CASE ClaimRelease(s, worker[s].id)
          <6>1. worker[s] \in WorkerRow BY <1>y DEF TypeOK
          <6> QED BY <5>1, <6>1, <1>y DEF ClaimRelease, ClaimState, Move, TypeOK, WorkerRow
        <5>2. CASE Keep BY <5>2 DEF Keep, db
        <5> QED BY <3>6, <5>1, <5>2 DEF ReleaseStart
      <4> QED BY <1>n, <4>1, <4>2, <4>3, BeginTidy, KnownNumbers DEF Reaches, Opening, HoldsAt, Trying, Named
    <3>7. CASE RemoveStart(p, "remove", s)
      <4>1. op'[p].cmd = "remove" /\ op'[p].pc = "claim" /\ op'[p].i = 0 /\ At(p, "idle")
        BY <3>7, <1>t DEF RemoveStart, Ready, Set, Begin, Idle
      <4> QED BY <1>n, <4>1, BeginTidy, KnownNumbers DEF Reaches, Opening, HoldsAt, Trying, Named
    <3>8. CASE RemoveStart(p, "cleanup", s)
      <4>1. op'[p].cmd = "cleanup" /\ op'[p].pc = "claim" /\ op'[p].i = 0 /\ At(p, "idle")
        BY <3>8, <1>t DEF RemoveStart, Ready, Set, Begin, Idle
      <4> QED BY <1>n, <4>1, BeginTidy, KnownNumbers DEF Reaches, Opening, HoldsAt, Trying, Named
    <3> QED BY <2>2, <3>1, <3>2, <3>3, <3>4, <3>5, <3>6, <3>7, <3>8
  <2> QED BY <1>1, <2>1, <2>2 DEF Start
<1>2. CASE Step(p)
  <2> USE DEF At, Leads, Trying, Reaches, Opening, HoldsAt, KindFits, Holds
  <2>e. ~Holds(p) /\ End(p) => Tidy(p) BY <1>t, TidyEnd
  <2>s. \A pc : Same(p, pc) /\ Leads(op[p], pc) => Tidy(p) BY SameTidy
  <2>g. \A pc : Go(p, pc) /\ Leads(op[p], pc) => Tidy(p) BY <1>t, GoSame, SameTidy
  <2>h. \A pc, note : GoNote(p, pc, note) /\ Leads(op[p], pc) => Tidy(p) BY <1>t, GoSame, SameTidy
  <2>a. NotAcquired(p) /\ Leads(op[p], "rollback") => Tidy(p) BY <1>t, NotAcquiredSame, SameTidy
  <2>1. CASE AcquireScan(p)
    BY <2>1, <1>t, <2>g, <2>h, <2>e, <2>a, <2>s DEF AcquireScan, Set, Leave, Same, OpRec
  <2>2. CASE VisitProvisioning(p)
    BY <2>2, <1>t, <2>g, <2>h, <2>e, <2>a, <2>s DEF VisitProvisioning, Set, Leave, Same, OpRec
  <2>3. CASE VisitQuarantined(p)
    BY <2>3, <1>t, <2>g, <2>h, <2>e, <2>a, <2>s DEF VisitQuarantined, Set, Leave, Same, OpRec
  <2>4. CASE TakeCheckout(p)
    <3>1. CASE NotAcquired(p) BY <2>4, <2>a, <3>1 DEF TakeCheckout
    <3>2. ASSUME NEW c, \/ Set(p, [op[p] EXCEPT !.pc = "create", !.c = c])
                        \/ Set(p, [op[p] EXCEPT !.pc = "create", !.c = c, !.note = "new"])
          PROVE  Same(p, "create")
      <4>1. op[p] \in OpRec BY <1>t
      <4>2. CASE Set(p, [op[p] EXCEPT !.pc = "create", !.c = c])
        <5>1. op'[p] = [op[p] EXCEPT !.pc = "create", !.c = c] BY <1>t, <4>2 DEF Set
        <5> QED BY <4>1, <5>1 DEF Same, OpRec
      <4>3. CASE Set(p, [op[p] EXCEPT !.pc = "create", !.c = c, !.note = "new"])
        <5>1. op'[p] = [op[p] EXCEPT !.pc = "create", !.c = c, !.note = "new"] BY <1>t, <4>3 DEF Set
        <5> QED BY <4>1, <5>1 DEF Same, OpRec
      <4> QED BY <3>2, <4>2, <4>3
    <3>3. Same(p, "create") => Tidy(p)
      BY <2>4, <2>s DEF TakeCheckout
    <3> QED BY <2>4, <3>1, <3>2, <3>3, Zenon DEF TakeCheckout
  <2>5. CASE Create(p) BY <2>5, <1>t, <2>g, <2>h, <2>a DEF Create, Acquired
  <2>6. CASE Rollback(p) BY <2>6, <1>t, <2>g, <2>h, <2>e DEF Rollback
  <2>7. CASE Undo(p) BY <2>7, <1>t, <2>g, <2>h DEF Undo
  <2>8. CASE Settle(p) BY <2>8, <1>t, <2>g, <2>h, <2>e DEF Settle
  <2>9. CASE Mark(p) BY <2>9, <1>t, <2>e DEF Mark
  <2>10. CASE Launch(p) BY <2>10, <1>t, <2>g, <2>h DEF Launch
  <2>11. CASE CompleteLaunch(p) BY <2>11, <1>t, <2>e DEF CompleteLaunch
  <2>12. CASE Unclaim(p) BY <2>12, <1>t, <2>g, <2>h, <2>e DEF Unclaim
  <2>13. CASE SpawnPrepare(p)
    <3>1. CASE Set(p, [op[p] EXCEPT !.pc = "scan", !.i = next])
      <4>1. op'[p].pc = "scan" /\ op'[p].cmd = op[p].cmd /\ op'[p].i = next BY <1>t, <3>1 DEF Set, OpRec
      <4>2. op'[p].s = op[p].s /\ op[p].s \in Sessions
        BY <1>t, <1>f, <2>13, <3>1 DEF SpawnPrepare, Set, OpRec, Fits, Away
      <4>3. CASE Prepare(p, op[p].s, op[p].row.started)
        <5>1. worker'[op[p].s].id = next BY <1>y, <4>2, <4>3 DEF Prepare, TypeOK
        <5> QED BY <2>13, <4>1, <4>2, <5>1 DEF SpawnPrepare, Tidy, Named
      <4>4. CASE Go(p, "unspawn") BY <2>13, <2>g, <4>4 DEF SpawnPrepare
      <4> QED BY <2>13, <4>3, <4>4 DEF SpawnPrepare
    <3> QED BY <2>13, <2>g, <3>1 DEF SpawnPrepare
  <2>14. CASE Unspawn(p) BY <2>14, <1>t, <2>e DEF Unspawn
  <2>15. CASE SpawnWorkspace(p)
    <3>1. CASE Set(p, [op[p] EXCEPT !.pc = "bind", !.row.ws = op[p].c])
      <4>1. Same(p, "bind") BY <1>t, <3>1 DEF Set, OpRec, Same
      <4> QED BY <2>15, <2>s, <4>1 DEF SpawnWorkspace
    <3>2. CASE GoNote(p, "rollback", "none")
      BY <2>15, <2>h, <3>2 DEF SpawnWorkspace
    <3> QED BY <2>15, <3>1, <3>2 DEF SpawnWorkspace
  <2>16. CASE BindLease(p) BY <2>16, <1>t, <2>g, <2>h DEF BindLease
  <2>17. CASE SpawnWorking(p) BY <2>17, <1>t, <2>g, <2>h DEF SpawnWorking
  <2>18. CASE SpawnClaim(p)
    <3>1. End(p) BY <2>18 DEF SpawnClaim
    <3> QED BY <2>18, <2>e, <3>1 DEF SpawnClaim
  <2>19. CASE RefileStop(p) BY <2>19, <1>t, <2>g, <2>h, <2>e DEF RefileStop, StopOr
  <2>20. CASE RefilePrepare(p)
    <3>1. CASE Set(p, [op[p] EXCEPT !.pc = "find", !.i = next, !.l = Kept(op[p].s),
                                    !.row.started = next])
      <4>1. op'[p].pc = "find" /\ op'[p].cmd = op[p].cmd /\ op'[p].i = next BY <1>t, <3>1 DEF Set, OpRec
      <4>2. op'[p].s = op[p].s /\ op[p].s \in Sessions
        BY <1>t, <1>f, <2>20, <3>1 DEF RefilePrepare, Set, OpRec, Fits, Away
      <4>3. CASE Prepare(App, op[p].s, next)
        <5>1. worker'[op[p].s].id = next BY <1>y, <4>2, <4>3 DEF Prepare, TypeOK
        <5> QED BY <2>20, <4>1, <4>2, <5>1 DEF RefilePrepare, Tidy, Named
      <4>4. CASE End(p) BY <2>20, <2>e, <4>4 DEF RefilePrepare
      <4> QED BY <2>20, <4>3, <4>4 DEF RefilePrepare
    <3> QED BY <2>20, <2>e, <3>1 DEF RefilePrepare
  <2>21. CASE RefileFind(p) BY <2>21, <1>t, <2>g, <2>h DEF RefileFind
  <2>22. CASE RefileRehome(p)
    BY <2>22, <1>t, <2>g, <2>h, <2>e, <2>a, <2>s DEF RefileRehome, Set, Leave, Same, OpRec
  <2>23. CASE Ensure(p) BY <2>23, <1>t, <2>g, <2>h DEF Ensure, EnsureFails
  <2>24. CASE LaunchedRow(p) BY <2>24, <1>t, <2>g, <2>h, <2>e DEF LaunchedRow
  <2>25. CASE FailedRow(p) BY <2>25, <1>t, <2>g, <2>h, <2>e DEF FailedRow
  <2>26. CASE RefileReclaim(p) BY <2>26, <1>t, <2>g, <2>h, <2>e DEF RefileReclaim
  <2>27. CASE RefileRetain(p) BY <2>27, <1>t, <2>e DEF RefileRetain
  <2>28. CASE KillOld(p) BY <2>28, <1>t, <2>g, <2>h DEF KillOld
  <2>29. CASE FinalizeStop(p) BY <2>29, <1>t, <2>g, <2>h, <2>e DEF FinalizeStop, StopOr
  <2>30. CASE FinalizeFinish(p) BY <2>30, <1>t, <2>e DEF FinalizeFinish
  <2>31. CASE ReleaseStop(p) BY <2>31, <1>t, <2>g, <2>h DEF ReleaseStop, StopOr
  <2>32. CASE ReleaseFree(p) BY <2>32, <1>t, <2>g, <2>h DEF ReleaseFree
  <2>33. CASE ReleaseSettle(p) BY <2>33, <1>t, <2>e DEF ReleaseSettle
  <2>34. CASE RemoveClaim(p)
    <3>1. CASE End(p) BY <2>34, <2>e, <3>1 DEF RemoveClaim
    <3>2. CASE Set(p, [op[p] EXCEPT !.pc = "stop", !.i = worker'[op[p].s].id,
                                    !.l = worker'[op[p].s].lease, !.note = worker[op[p].s].state])
      <4>1. /\ op'[p].pc = "stop" /\ op'[p].cmd = op[p].cmd /\ op'[p].i = worker'[op[p].s].id
            /\ op'[p].s = op[p].s
        BY <1>t, <3>2 DEF Set, OpRec
      <4>2. op[p].s \in Sessions BY <2>34, <1>f DEF RemoveClaim, Fits, Away
      <4> QED BY <2>34, <1>n, <4>1, <4>2 DEF RemoveClaim, Tidy, Named
    <3> QED BY <2>34, <3>1, <3>2 DEF RemoveClaim
  <2>35. CASE RemoveStop(p) BY <2>35, <1>t, <2>g, <2>h DEF RemoveStop, StopOr
  <2>36. CASE RemoveAbort(p) BY <2>36, <1>t, <2>e DEF RemoveAbort
  <2>37. CASE RemoveDetach(p) BY <2>37, <1>t, <2>g, <2>h DEF RemoveDetach
  <2>38. CASE RemoveRecord(p) BY <2>38, <1>t, <2>g, <2>h DEF RemoveRecord
  <2>39. CASE RemoveSettle(p) BY <2>39, <1>t, <2>e DEF RemoveSettle
  <2>40. CASE OpenScan(p)
    <3>1. \E pc, left : op'[p] = [op[p] EXCEPT !.pc = pc, !.dead = {}, !.left = left] /\ pc \in Trying
      BY <2>40, <1>t DEF OpenScan, Set
    <3>2. op'[p].pc \in Trying /\ op'[p].dead = {} /\ op'[p].i = op[p].i /\ op'[p].s = op[p].s /\ op'[p].cmd = op[p].cmd
      BY <1>t, <3>1 DEF OpRec
    <3> QED BY <2>40, <3>2, KnownNumbers DEF OpenScan, Tidy, Named
  <2>41. CASE OpenTryLock(p)
    <3>1. op[p].pc \in Trying /\ lock' = lock BY <2>41 DEF OpenTryLock, Keep, db
    <3>2. PICK row \in op[p].left :
            Set(p, [op[p] EXCEPT !.left = op[p].left \ {row},
                                 !.dead = IF Locked(row[2]) THEN op[p].dead ELSE op[p].dead \cup {row}])
      BY <2>41, Zenon DEF OpenTryLock
    <3>3. /\ op'[p].pc = op[p].pc /\ op'[p].i = op[p].i /\ op'[p].s = op[p].s /\ op'[p].cmd = op[p].cmd
          /\ op'[p].dead = IF Locked(row[2]) THEN op[p].dead ELSE op[p].dead \cup {row}
      BY <1>t, <3>2 DEF Set, OpRec
    <3>4. \A d \in op'[p].dead : ~Locked(d[2]) BY <3>1, <3>3 DEF DeadUnlocked
    <3>5. \A d \in op'[p].dead : ~Locked(d[2])' BY <3>1, <3>4 DEF Locked
    <3> QED BY <3>1, <3>3, <3>5, KnownNumbers DEF Tidy, Named
  <2>42. CASE OpenReclaimAllocations(p) BY <2>42, <1>t, <2>g, <2>h DEF OpenReclaimAllocations
  <2>43. CASE OpenReclaimClaim(p)
    <3>1. PICK row \in op[p].dead : ReclaimClaim(row[1], row[2]) /\ Set(p, [op[p] EXCEPT !.dead = op[p].dead \ {row}])
      BY <2>43, Zenon DEF OpenReclaimClaim
    <3>2. /\ op'[p].pc = op[p].pc /\ op'[p].i = op[p].i /\ op'[p].s = op[p].s /\ op'[p].cmd = op[p].cmd
          /\ op'[p].dead = op[p].dead \ {row} /\ op[p].pc \in Trying
      BY <2>43, <1>t, <3>1 DEF OpenReclaimClaim, Set, OpRec
    <3>3. \A d \in op'[p].dead : ~Locked(d[2])'
      BY <3>1, <3>2 DEF DeadUnlocked, ReclaimClaim, Unlocked, Locked
    <3> QED BY <3>2, <3>3, KnownNumbers DEF Tidy, Named
  <2>44. CASE OpenOrphans(p) BY <2>44, <1>t, <2>e DEF OpenOrphans
  <2>45. CASE Exit(p) BY <2>45, <1>t, <2>g, <2>h DEF Exit
  <2> QED BY <1>2, <2>1, <2>2, <2>3, <2>4, <2>5, <2>6, <2>7, <2>8, <2>9, <2>10, <2>11, <2>12, <2>13,
            <2>14, <2>15, <2>16, <2>17, <2>18, <2>19, <2>20, <2>21, <2>22, <2>23, <2>24, <2>25,
            <2>26, <2>27, <2>28, <2>29, <2>30, <2>31, <2>32, <2>33, <2>34, <2>35, <2>36, <2>37,
            <2>38, <2>39, <2>40, <2>41, <2>42, <2>43, <2>44, <2>45
          DEF Step
<1> QED BY <1>1, <1>2

LEMMA CommandRenumbers ==
  ASSUME OpsInv, DeadUnlocked, NEW p \in Commands, Start(p) \/ Step(p),
         ~CompleteLaunch(p), ~Unclaim(p), ~\E s \in Sessions : ResumeStart(p, s),
         ~(SpawnClaim(p) /\ ClaimStart(p, op[p].s, op[p].i)), ~OpenReclaimClaim(p), ~Exit(p)
  PROVE  Renumbered
<1>t. TypeOK BY DEF OpsInv, OpsTypeOK
<1>s. \A s \in Sessions : RenumbersSession(s) /\ \A i : RenumbersIncarnation(s, i)
  BY <1>t, SessionRenumbers, IncarnationRenumbers
<1>c. \A c \in Checkouts : RenumbersPool(c) BY <1>t, PoolRenumbers
<1>o. AdoptLeases \/ RemoveOrphans \/ Tick => Renumbered BY <1>t, OpenRenumbers
<1>k. Keep => Renumbered BY SameNumbers DEF Keep, db
<1>1. CASE Start(p)
  <2>1. CASE OpenAdopt(p) BY <2>1, <1>o DEF OpenAdopt
  <2>2. ASSUME NEW s \in Sessions,
               \/ SpawnInsert(p, s) \/ RefileStart(p, s) \/ ResumeStart(p, s) \/ RelaunchStart(p, s)
               \/ FinalizeStart(p, s) \/ ReleaseStart(p, s) \/ RemoveStart(p, "remove", s)
               \/ RemoveStart(p, "cleanup", s)
        PROVE  Renumbered
    <3>1. CASE SpawnInsert(p, s) BY <3>1, <1>s DEF SpawnInsert, RenumbersSession
    <3>2. CASE RefileStart(p, s) BY <3>2, <1>k DEF RefileStart
    <3>3. CASE ResumeStart(p, s) BY <3>3 DEF ResumeStart
    <3>4. CASE RelaunchStart(p, s) BY <3>4, <1>o DEF RelaunchStart
    <3>5. CASE FinalizeStart(p, s) BY <3>5, <1>s DEF FinalizeStart, RenumbersSession
    <3>6. CASE ReleaseStart(p, s) BY <3>6, <1>s, <1>k DEF ReleaseStart, RenumbersIncarnation
    <3>7. CASE RemoveStart(p, "remove", s) BY <3>7, <1>k DEF RemoveStart
    <3>8. CASE RemoveStart(p, "cleanup", s) BY <3>8, <1>k DEF RemoveStart
    <3> QED BY <2>2, <3>1, <3>2, <3>3, <3>4, <3>5, <3>6, <3>7, <3>8
  <2> QED BY <1>1, <2>1, <2>2 DEF Start
<1>2. CASE Step(p)
  <2>f. Fits(op[p], next) BY DEF OpsInv
  <2>s. ~Away(op[p]) => RenumbersSession(op[p].s) BY <1>s, <2>f DEF Fits
  <2>i. ~Away(op[p]) => RenumbersIncarnation(op[p].s, op[p].i) BY <1>s, <2>f DEF Fits
  <2>c. /\ op[p].pc \in {"create", "workspace", "rehome", "undo"} => op[p].c \in Checkouts
        /\ op[p].pc = "visit" => op[p].left \subseteq Checkouts \X CheckoutRow
    BY <2>f DEF Fits
  <2>1. CASE AcquireScan(p) BY <2>1, <1>k DEF AcquireScan
  <2>2. CASE VisitProvisioning(p)
    BY <2>2, <1>k, <1>c, <2>c DEF VisitProvisioning, RenumbersPool, Away, At
  <2>3. CASE VisitQuarantined(p) BY <2>3, <1>k, <1>c, <2>c DEF VisitQuarantined, RenumbersPool, Away, At
  <2>4. CASE TakeCheckout(p)
    <3>1. CASE Keep BY <1>k, <3>1
    <3>2. ASSUME NEW c \in Checkouts, ClaimFree(op[p].s, op[p].i, c) \/ Reserve(op[p].s, op[p].i, c)
          PROVE  Renumbered
      <4>1. op[p].s \in Sessions BY <2>4, <2>f DEF TakeCheckout, At, Fits, Away
      <4>2. Uses(op[p].s, op[p].i) BY DEF Uses
      <4> QED BY <1>c, <3>2, <4>1, <4>2 DEF RenumbersPool
    <3> QED BY <2>4, <3>1, <3>2 DEF TakeCheckout
  <2>5. CASE Create(p) BY <2>5, <1>k, <1>c, <2>c DEF Create, RenumbersPool, Away, At
  <2>6. CASE Rollback(p) BY <2>6, <1>k, <2>i DEF Rollback, RenumbersIncarnation, Away, At
  <2>7. CASE Undo(p) BY <2>7, <1>k, <1>c, <2>c DEF Undo, RenumbersPool, Away, At, GiveBack
  <2>8. CASE Settle(p) BY <2>8, <1>k, <2>i DEF Settle, RenumbersIncarnation, Away, At
  <2>9. CASE Mark(p) BY <2>9, <1>k, <2>s DEF Mark, RenumbersSession, Away, At
  <2>10. CASE Launch(p) BY <2>10, <1>k DEF Launch
  <2>11. CASE CompleteLaunch(p) BY <2>11 DEF CompleteLaunch
  <2>12. CASE Unclaim(p) BY <2>12 DEF Unclaim
  <2>13. CASE SpawnPrepare(p) BY <2>13, <1>k, <2>s DEF SpawnPrepare, RenumbersSession, Away, At
  <2>14. CASE Unspawn(p) BY <2>14, <1>k, <2>s DEF Unspawn, RenumbersSession, Away, At
  <2>15. CASE SpawnWorkspace(p) BY <2>15, <1>k, <2>s DEF SpawnWorkspace, RenumbersSession, Away, At
  <2>16. CASE BindLease(p) BY <2>16, <1>k, <2>i DEF BindLease, RenumbersIncarnation, Away, At
  <2>17. CASE SpawnWorking(p) BY <2>17, <1>k, <2>s DEF SpawnWorking, RenumbersSession, Away, At
  <2>18. CASE SpawnClaim(p)
    <3>1. Keep BY <2>18 DEF SpawnClaim
    <3> QED BY <1>k, <3>1
  <2>19. CASE RefileStop(p) BY <2>19, <1>k DEF RefileStop
  <2>20. CASE RefilePrepare(p) BY <2>20, <1>k, <2>s DEF RefilePrepare, RenumbersSession, Away, At
  <2>21. CASE RefileFind(p) BY <2>21, <1>k DEF RefileFind
  <2>22. CASE RefileRehome(p) BY <2>22, <1>k, <2>s DEF RefileRehome, RenumbersSession, Away, At
  <2>23. CASE Ensure(p) BY <2>23, <1>k, <1>c DEF Ensure, RenumbersPool, LeasesOf
  <2>24. CASE LaunchedRow(p) BY <2>24, <1>k, <2>s DEF LaunchedRow, RenumbersSession, Away, At
  <2>25. CASE FailedRow(p) BY <2>25, <1>k, <2>s DEF FailedRow, RenumbersSession, Away, At
  <2>26. CASE RefileReclaim(p) BY <2>26, <1>k, <2>i DEF RefileReclaim, RenumbersIncarnation, Away, At
  <2>27. CASE RefileRetain(p) BY <2>27, <1>k, <2>i DEF RefileRetain, RenumbersIncarnation, Away, At
  <2>28. CASE KillOld(p) BY <2>28, <1>k DEF KillOld
  <2>29. CASE FinalizeStop(p) BY <2>29, <1>k DEF FinalizeStop
  <2>30. CASE FinalizeFinish(p) BY <2>30, <1>k, <2>i DEF FinalizeFinish, RenumbersIncarnation, Away, At
  <2>31. CASE ReleaseStop(p) BY <2>31, <1>k DEF ReleaseStop
  <2>32. CASE ReleaseFree(p) BY <2>32, <1>k, <1>c DEF ReleaseFree, RenumbersPool, LeasesOf
  <2>33. CASE ReleaseSettle(p) BY <2>33, <1>k, <2>i DEF ReleaseSettle, RenumbersIncarnation, Away, At
  <2>34. CASE RemoveClaim(p) BY <2>34, <1>k, <2>s DEF RemoveClaim, RenumbersSession, Away, At
  <2>35. CASE RemoveStop(p) BY <2>35, <1>k DEF RemoveStop
  <2>36. CASE RemoveAbort(p) BY <2>36, <1>k, <2>i DEF RemoveAbort, RenumbersIncarnation, Away, At
  <2>37. CASE RemoveDetach(p) BY <2>37, <1>k, <1>c DEF RemoveDetach, RenumbersPool, LeasesOf, GiveBack
  <2>38. CASE RemoveRecord(p) BY <2>38, <1>k, <2>s DEF RemoveRecord, RenumbersSession, Away, At
  <2>39. CASE RemoveSettle(p) BY <2>39, <1>k, <2>i DEF RemoveSettle, RenumbersIncarnation, Away, At
  <2>40. CASE OpenScan(p) BY <2>40, <1>k DEF OpenScan
  <2>41. CASE OpenTryLock(p) BY <2>41, <1>k DEF OpenTryLock
  <2>42. CASE OpenReclaimAllocations(p)
    <3>1. ReclaimAllocations(op[p].dead) /\ \A d \in op[p].dead : ~Locked(d[2])
      BY <2>42 DEF OpenReclaimAllocations, DeadUnlocked, At
    <3>2. lock' = lock BY <1>t, <3>1 DEF ReclaimAllocations, TypeOK, Locked
    <3>3. \A s \in Sessions : Settled(s, "released").id = worker[s].id
      BY <1>t DEF Settled, TypeOK, WorkerRow
    <3>4. \A s \in Sessions : worker'[s].id = worker[s].id
      BY <3>1, <3>3 DEF ReclaimAllocations
    <3>5. \A c \in Checkouts : checkout'[c] = checkout[c] \/ checkout'[c].owner = 0
      BY <3>1 DEF ReclaimAllocations, Unused
    <3>6. claim' = claim BY <3>1 DEF ReclaimAllocations
    <3>7. KeepsTo(NoSession) BY <3>4, <3>5, OwnNumbers DEF KeepsTo
    <3> QED BY <3>2, <3>4, <3>5, <3>6, <3>7, KnownNumbers DEF Renumbered, Renumbers
  <2>43. CASE OpenReclaimClaim(p) BY <2>43 DEF OpenReclaimClaim
  <2>44. CASE OpenOrphans(p) BY <2>44, <1>o DEF OpenOrphans
  <2>45. CASE Exit(p) BY <2>45 DEF Exit
  <2> QED BY <1>2, <2>1, <2>2, <2>3, <2>4, <2>5, <2>6, <2>7, <2>8, <2>9, <2>10, <2>11, <2>12, <2>13,
            <2>14, <2>15, <2>16, <2>17, <2>18, <2>19, <2>20, <2>21, <2>22, <2>23, <2>24, <2>25,
            <2>26, <2>27, <2>28, <2>29, <2>30, <2>31, <2>32, <2>33, <2>34, <2>35, <2>36, <2>37,
            <2>38, <2>39, <2>40, <2>41, <2>42, <2>43, <2>44, <2>45
          DEF Step
<1> QED BY <1>1, <1>2

-----------------------------------------------------------------------------
(* LaunchInv is kept by the steps that leave the runtime claims alone or       *)
(* delete one that nobody holds, ...                                           *)

Calm(q) == Tidy(q) \/ op'[q] = op[q]

LEMMA ClaimNumbers ==
  ASSUME OpsInv, NEW s \in Sessions, Claimed(s)
  PROVE  claim[s].id \in Out /\ claim[s].id # next /\ claim[s].id # 0
  BY DEF OpsInv, OpsTypeOK, TypeOK, HandedOut, SessionOut, Claimed, Out

LEMMA HoldsFacts ==
  ASSUME OpsInv, LaunchInv, NEW q \in Commands, Holds(q)
  PROVE  /\ op[q].s \in Sessions /\ Claimed(op[q].s) /\ HoldsClaim(q) /\ Holder(q) \in Procs
         /\ op[q].k # next /\ op[q].k \notin Incarnations /\ Locked(op[q].k)
<1>1. Fits(op[q], next) /\ HoldsClaim(q) BY DEF OpsInv, LaunchInv
<1>2. op[q].s \in Sessions BY <1>1 DEF Fits, Away, Holds, HoldsAt
<1>3. Claimed(op[q].s) BY <1>1 DEF HoldsClaim, Claimed
<1>4. op[q].k # next /\ op[q].k \notin Incarnations
  BY <1>1, <1>2, <1>3, ClaimNumbers DEF HoldsClaim, LaunchInv, OwnNumber
<1>5. Holder(q) \in Procs BY ProcsAssumption DEF Holder
<1> QED BY <1>1, <1>2, <1>3, <1>4, <1>5 DEF HoldsClaim, Locked

LEMMA CalmHolds ==
  ASSUME NEW q \in Commands, Calm(q)
  PROVE  /\ Holds(q)' <=> Holds(q)
         /\ Holds(q) => /\ op'[q].s = op[q].s /\ op'[q].i = op[q].i /\ op'[q].k = op[q].k
                        /\ Holder(q)' = Holder(q)
  BY DEF Calm, Tidy, Holds, HoldsAt, Holder, IsApp

LEMMA QuietPreserves ==
  ASSUME OpsInv, LaunchInv, Renumbers, \A q \in Commands : Calm(q),
         \A s \in Sessions : \/ claim'[s] = claim[s]
                             \/ claim'[s] = NoClaim /\ \A q \in Commands : Holds(q) => op[q].s # s
  PROVE  LaunchInv'
<1>q. \A q \in Commands : Calm(q) OBVIOUS
<1>h. \A q \in Commands :
        /\ Holds(q)' <=> Holds(q)
        /\ Holds(q) => /\ op'[q].s = op[q].s /\ op'[q].i = op[q].i /\ op'[q].k = op[q].k
                       /\ Holder(q)' = Holder(q)
  BY <1>q, CalmHolds
<1>c. ASSUME NEW s \in Sessions, Claimed(s)' PROVE Claimed(s) /\ claim'[s] = claim[s]
  BY <1>c DEF Claimed, NoClaim
<1>1. \A q \in Commands : KindFits(q)' BY DEF Calm, Tidy, KindFits, LaunchInv
<1>2. ASSUME NEW q \in Commands, Holds(q)' PROVE HoldsClaim(q)'
  <2>1. Holds(q) BY <1>h, <1>2
  <2>2. claim'[op[q].s] = claim[op[q].s] BY <2>1, HoldsFacts
  <2>3. <<Holder(q), op[q].k>> \in lock' BY <2>1, HoldsFacts DEF Renumbers, HoldsClaim
  <2> QED BY <1>h, <2>1, <2>2, <2>3, HoldsFacts DEF HoldsClaim
<1>3. OneHolder' BY <1>h DEF OneHolder, LaunchInv
<1>4. Incarnations' \subseteq Incarnations \cup {0, next}
  <2>1. \A q \in Commands : op'[q].i \in Incarnations \cup {0, next}
    BY KnownNumbers DEF Calm, Tidy
  <2> QED BY <2>1 DEF Renumbers, Incarnations
<1>5. OwnNumber'
  <2>1. ASSUME NEW s \in Sessions, Claimed(s)', NEW r \in Sessions \ {s} PROVE claim'[r].id # claim'[s].id
    <3>1. claim'[s].id = claim[s].id /\ claim[r].id # claim[s].id /\ claim[s].id # 0
      BY <1>c, <2>1 DEF OwnNumber, LaunchInv, Claimed
    <3>2. claim'[r].id \in {claim[r].id, 0} BY DEF NoClaim
    <3> QED BY <3>1, <3>2
  <2>2. ASSUME NEW s \in Sessions, Claimed(s)' PROVE claim'[s].id \notin Incarnations'
    BY <1>c, <1>4, <2>2, ClaimNumbers DEF OwnNumber, LaunchInv
  <2> QED BY <2>1, <2>2 DEF OwnNumber
<1>6. LockHeld'
  <2>1. ASSUME NEW s \in Sessions, NEW l \in lock', Claimed(s)', l[2] = claim'[s].id
        PROVE  \E q \in Commands : Holds(q)' /\ op'[q].s = s /\ l[1] = Holder(q)'
    <3>1. Claimed(s) /\ claim'[s] = claim[s] BY <1>c, <2>1
    <3>2. l \in lock BY <2>1, <3>1, ClaimNumbers DEF Renumbers
    <3>3. PICK q \in Commands : Holds(q) /\ op[q].s = s /\ l[1] = Holder(q)
      BY <2>1, <3>1, <3>2 DEF LaunchInv, LockHeld
    <3> QED BY <1>h, <3>3
  <2> QED BY <2>1 DEF LockHeld
<1>7. DeadUnlocked'
  <2>1. ASSUME NEW q \in Commands, op'[q].pc \in Trying, NEW d \in op'[q].dead PROVE ~Locked(d[2])'
    <3>1. CASE Tidy(q) BY <2>1, <3>1 DEF Tidy
    <3>2. CASE op'[q] = op[q]
      <4>1. ~Locked(d[2]) BY <2>1, <3>2 DEF LaunchInv, DeadUnlocked, Trying
      <4>2. d[2] # next
        <5>1. d \in Sessions \X (1..(next - 1)) BY <2>1, <3>2 DEF OpsInv, Fits, Trying
        <5>2. next \in Nat BY DEF OpsInv, OpsTypeOK, TypeOK
        <5> QED BY <5>1, <5>2
      <4> QED BY <4>1, <4>2 DEF Locked, Renumbers
    <3> QED BY <1>q, <3>1, <3>2 DEF Calm
  <2> QED BY <2>1 DEF DeadUnlocked, Trying
<1> QED BY <1>1, <1>2, <1>3, <1>5, <1>6, <1>7 DEF LaunchInv

(* ... by a launch that takes a runtime claim, ...                             *)
LEMMA TakenPreserves ==
  ASSUME OpsInv, LaunchInv, NEW p \in Commands, ~Holds(p), NEW s \in Sessions, NEW i \in Incarnations,
         ClaimStart(Holder(p)', s, i), op' = [op EXCEPT ![p] = op'[p]], KindFits(p)', Holds(p)',
         op'[p].s = s, op'[p].i = i, op'[p].k = next
  PROVE  LaunchInv'
<1>t. TypeOK /\ HandedOut /\ \A q \in Commands : Fits(op[q], next) BY DEF OpsInv, OpsTypeOK
<1>n. next \in Nat /\ next # 0 /\ \A n \in Out : n # next BY <1>t DEF TypeOK, Out
<1>o. \A q \in Commands \ {p} : op'[q] = op[q] /\ (Holds(q)' <=> Holds(q)) /\ Holder(q)' = Holder(q)
  <2>1. \A q \in Commands \ {p} : op'[q] = op[q] BY DEF OpsInv, OpsTypeOK
  <2> QED BY <2>1 DEF Holds, Holder, IsApp
<1>c. /\ ~Claimed(s) /\ claim'[s].id = next /\ claim'[s].inc = i
      /\ lock' = lock \cup {<<Holder(p)', next>>}
      /\ \A r \in Sessions \ {s} : claim'[r] = claim[r]
  BY <1>t DEF ClaimStart, CanClaimStart, TypeOK
<1>e. \A q \in Commands : Holds(q) => op[q].s # s BY <1>c, HoldsFacts
<1>1. \A q \in Commands : KindFits(q)' BY <1>o DEF KindFits, LaunchInv
<1>2. ASSUME NEW q \in Commands, Holds(q)' PROVE HoldsClaim(q)'
  <2>1. CASE q = p BY <1>c, <1>n, <2>1 DEF HoldsClaim
  <2>2. CASE q # p BY <1>c, <1>e, <1>o, <1>2, <2>2, HoldsFacts DEF HoldsClaim
  <2> QED BY <2>1, <2>2
<1>3. OneHolder' BY <1>e, <1>o DEF OneHolder, LaunchInv
<1>4. Incarnations' \subseteq Incarnations /\ next \notin Incarnations
  <2>1. worker' = worker /\ checkout' = checkout BY DEF ClaimStart
  <2>2. Incarnations' \subseteq Incarnations BY <1>o, <2>1 DEF Incarnations
  <2>3. \A r \in Sessions : worker[r].id # next BY <1>n, <1>t DEF HandedOut, SessionOut
  <2>4. \A c \in Checkouts : checkout[c].owner # next BY <1>n, <1>t DEF HandedOut, CheckoutOut
  <2>5. \A q \in Commands : op[q].i # next BY <1>n, <1>t DEF Fits
  <2> QED BY <2>2, <2>3, <2>4, <2>5 DEF Incarnations
<1>5. OwnNumber'
  <2>1. ASSUME NEW r \in Sessions, Claimed(r)', NEW x \in Sessions \ {r} PROVE claim'[x].id # claim'[r].id
    <3>1. CASE r = s
      <4>1. claim'[x].id = claim[x].id BY <1>c, <3>1
      <4>2. claim[x].id # next BY <1>n, ClaimNumbers DEF Claimed
      <4> QED BY <1>c, <3>1, <4>1, <4>2
    <3>2. CASE r # s
      <4>1. Claimed(r) /\ claim'[r] = claim[r] BY <1>c, <2>1, <3>2 DEF Claimed
      <4> QED BY <1>c, <4>1, ClaimNumbers DEF LaunchInv, OwnNumber
    <3> QED BY <3>1, <3>2
  <2>2. ASSUME NEW r \in Sessions, Claimed(r)' PROVE claim'[r].id \notin Incarnations'
    <3>1. CASE r = s BY <1>c, <1>4, <3>1
    <3>2. CASE r # s BY <1>c, <1>4, <2>2, <3>2 DEF LaunchInv, OwnNumber, Claimed
    <3> QED BY <3>1, <3>2
  <2> QED BY <2>1, <2>2 DEF OwnNumber
<1>6. LockHeld'
  <2>1. ASSUME NEW r \in Sessions, NEW l \in lock', Claimed(r)', l[2] = claim'[r].id
        PROVE  \E q \in Commands : Holds(q)' /\ op'[q].s = r /\ l[1] = Holder(q)'
    <3>1. CASE r = s
      <4>1. l \notin lock BY <1>c, <1>n, <1>t, <2>1, <3>1 DEF HandedOut
      <4>2. l = <<Holder(p)', next>> BY <1>c, <4>1
      <4> QED BY <3>1, <4>2
    <3>2. CASE r # s
      <4>1. Claimed(r) /\ claim'[r] = claim[r] BY <1>c, <2>1, <3>2 DEF Claimed
      <4>2. l[2] # next BY <2>1, <4>1, ClaimNumbers
      <4>3. l \in lock BY <1>c, <4>2
      <4>4. PICK q \in Commands : Holds(q) /\ op[q].s = r /\ l[1] = Holder(q)
        BY <2>1, <4>1, <4>3 DEF LaunchInv, LockHeld
      <4> QED BY <1>o, <4>4
    <3> QED BY <3>1, <3>2
  <2> QED BY <2>1 DEF LockHeld
<1>7. DeadUnlocked'
  <2>1. ASSUME NEW q \in Commands, op'[q].pc \in Trying, NEW d \in op'[q].dead PROVE ~Locked(d[2])'
    <3>1. q # p BY <2>1 DEF Holds, HoldsAt, Trying
    <3>2. ~Locked(d[2]) BY <1>o, <2>1, <3>1 DEF LaunchInv, DeadUnlocked, Trying
    <3>3. d[2] # next
      <4>1. d \in Sessions \X (1..(next - 1)) BY <1>o, <1>t, <2>1, <3>1 DEF Fits, Trying
      <4> QED BY <1>n, <4>1
    <3> QED BY <1>c, <3>2, <3>3 DEF Locked
  <2> QED BY <2>1 DEF DeadUnlocked, Trying
<1> QED BY <1>1, <1>2, <1>3, <1>5, <1>6, <1>7 DEF LaunchInv

(* ... by one that gives it back, ...                                          *)
LEMMA EndedPreserves ==
  ASSUME OpsInv, LaunchInv, NEW p \in Commands, Holds(p), UNCHANGED checkout,
         \A s \in Sessions : worker'[s].id = worker[s].id,
         claim' = [claim EXCEPT ![op[p].s] = NoClaim], lock' = Unlocked(op[p].k),
         op' = [op EXCEPT ![p] = op'[p]], KindFits(p)', ~Holds(p)', op'[p].pc \notin Trying,
         op'[p].i \in Incarnations \cup {0}
  PROVE  LaunchInv'
<1>t. TypeOK /\ op \in [Commands -> OpRec] BY DEF OpsInv, OpsTypeOK
<1>o. \A q \in Commands \ {p} : op'[q] = op[q] /\ (Holds(q)' <=> Holds(q)) /\ Holder(q)' = Holder(q)
  <2>1. \A q \in Commands \ {p} : op'[q] = op[q] BY <1>t
  <2> QED BY <2>1 DEF Holds, Holder, IsApp
<1>p. op[p].s \in Sessions /\ Claimed(op[p].s) /\ claim[op[p].s].id = op[p].k
  BY HoldsFacts DEF HoldsClaim
<1>c. /\ claim'[op[p].s] = NoClaim /\ NoClaim.id = 0
      /\ \A r \in Sessions \ {op[p].s} : claim'[r] = claim[r]
  BY <1>p, <1>t DEF TypeOK, NoClaim
<1>r. ASSUME NEW r \in Sessions, Claimed(r)'
      PROVE  r # op[p].s /\ Claimed(r) /\ claim'[r] = claim[r] /\ claim[r].id # op[p].k
  BY <1>c, <1>p, <1>r DEF Claimed, LaunchInv, OwnNumber
<1>h. ASSUME NEW q \in Commands, Holds(q)' PROVE q # p /\ Holds(q) /\ op'[q] = op[q] /\ op[q].s # op[p].s
  BY <1>h, <1>o DEF LaunchInv, OneHolder
<1>1. \A q \in Commands : KindFits(q)' BY <1>o DEF KindFits, LaunchInv
<1>2. ASSUME NEW q \in Commands, Holds(q)' PROVE HoldsClaim(q)'
  <2>1. Holds(q) /\ op'[q] = op[q] /\ op[q].s # op[p].s /\ Holder(q)' = Holder(q) BY <1>h, <1>o, <1>2
  <2>2. op[q].s \in Sessions /\ Claimed(op[q].s) /\ HoldsClaim(q) BY <2>1, HoldsFacts
  <2>3. op[q].k # op[p].k BY <1>p, <2>1, <2>2 DEF HoldsClaim, LaunchInv, OwnNumber
  <2> QED BY <1>c, <2>1, <2>2, <2>3 DEF HoldsClaim, Unlocked
<1>3. OneHolder' BY <1>h DEF OneHolder, LaunchInv
<1>4. Incarnations' \subseteq Incarnations \cup {0} BY <1>o, KnownNumbers DEF Incarnations
<1>5. OwnNumber'
  <2>1. ASSUME NEW r \in Sessions, Claimed(r)', NEW x \in Sessions \ {r} PROVE claim'[x].id # claim'[r].id
    <3>1. claim'[r].id = claim[r].id /\ claim[x].id # claim[r].id /\ claim[r].id # 0
      BY <1>r, <2>1 DEF LaunchInv, OwnNumber, Claimed
    <3>2. claim'[x].id \in {claim[x].id, 0} BY <1>c DEF NoClaim
    <3> QED BY <3>1, <3>2
  <2>2. ASSUME NEW r \in Sessions, Claimed(r)' PROVE claim'[r].id \notin Incarnations'
    BY <1>r, <1>4, <2>2, ClaimNumbers DEF LaunchInv, OwnNumber
  <2> QED BY <2>1, <2>2 DEF OwnNumber
<1>6. LockHeld'
  <2>1. ASSUME NEW r \in Sessions, NEW l \in lock', Claimed(r)', l[2] = claim'[r].id
        PROVE  \E q \in Commands : Holds(q)' /\ op'[q].s = r /\ l[1] = Holder(q)'
    <3>1. r # op[p].s /\ Claimed(r) /\ claim'[r] = claim[r] BY <1>r, <2>1
    <3>2. PICK q \in Commands : Holds(q) /\ op[q].s = r /\ l[1] = Holder(q)
      BY <2>1, <3>1 DEF LaunchInv, LockHeld, Unlocked
    <3> QED BY <1>o, <3>1, <3>2
  <2> QED BY <2>1 DEF LockHeld
<1>7. DeadUnlocked'
  <2>1. ASSUME NEW q \in Commands, op'[q].pc \in Trying, NEW d \in op'[q].dead PROVE ~Locked(d[2])'
    <3>1. q # p /\ ~Locked(d[2]) BY <1>o, <2>1 DEF LaunchInv, DeadUnlocked, Trying
    <3> QED BY <3>1 DEF Locked, Unlocked
  <2> QED BY <2>1 DEF DeadUnlocked, Trying
<1> QED BY <1>1, <1>2, <1>3, <1>5, <1>6, <1>7 DEF LaunchInv

(* ... and by the end of a process, with which its commands and locks go.      *)
LEMMA DroppedPreserves ==
  ASSUME OpsInv, LaunchInv, NEW d, DropLocks(d),
         \A q \in Commands :
           \/ op'[q] = op[q] /\ (Holds(q) => Holder(q) # d)
           \/ op'[q].pc = "done" /\ op'[q].i \in Incarnations \cup {0} /\ (Holds(q) => Holder(q) = d)
  PROVE  LaunchInv'
<1>0. UNCHANGED <<worker, claim, checkout>> /\ lock' = {l \in lock : l[1] # d} BY DEF DropLocks
<1>n. ASSUME NEW q \in Commands, op'[q].pc = "done" PROVE ~Holds(q)' /\ KindFits(q)' /\ op'[q].pc \notin Trying
  BY <1>n DEF Holds, HoldsAt, KindFits, Reaches, Opening, Trying
<1>h. ASSUME NEW q \in Commands, Holds(q)'
      PROVE  Holds(q) /\ op'[q] = op[q] /\ Holder(q) # d /\ Holder(q)' = Holder(q)
  <2>1. op'[q] = op[q] BY <1>n, <1>h
  <2>2. Holds(q) BY <1>h, <2>1 DEF Holds
  <2>3. op'[q].pc # "done" BY <1>n, <1>h
  <2> QED BY <2>1, <2>2, <2>3 DEF Holder, IsApp
<1>1. \A q \in Commands : KindFits(q)' BY <1>n DEF KindFits, LaunchInv
<1>2. \A q \in Commands : Holds(q)' => HoldsClaim(q)' BY <1>0, <1>h, HoldsFacts DEF HoldsClaim
<1>3. OneHolder' BY <1>h DEF OneHolder, LaunchInv
<1>4. Incarnations' \subseteq Incarnations \cup {0} BY <1>0, KnownNumbers DEF Incarnations
<1>5. OwnNumber'
  <2>1. \A r \in Sessions : Claimed(r)' <=> Claimed(r) BY <1>0 DEF Claimed
  <2> QED BY <1>0, <1>4, <2>1, ClaimNumbers DEF LaunchInv, OwnNumber
<1>6. LockHeld'
  <2>1. ASSUME NEW r \in Sessions, NEW l \in lock', Claimed(r)', l[2] = claim'[r].id
        PROVE  \E q \in Commands : Holds(q)' /\ op'[q].s = r /\ l[1] = Holder(q)'
    <3>1. l \in lock /\ l[1] # d /\ Claimed(r) BY <1>0, <2>1 DEF Claimed
    <3>2. PICK q \in Commands : Holds(q) /\ op[q].s = r /\ l[1] = Holder(q)
      BY <1>0, <2>1, <3>1 DEF LaunchInv, LockHeld
    <3>3. op'[q] = op[q] BY <3>1, <3>2
    <3> QED BY <3>2, <3>3 DEF Holds, Holder, IsApp
  <2> QED BY <2>1 DEF LockHeld
<1>7. DeadUnlocked'
  <2>1. ASSUME NEW q \in Commands, op'[q].pc \in Trying, NEW x \in op'[q].dead PROVE ~Locked(x[2])'
    <3>1. ~Locked(x[2]) BY <1>n, <2>1 DEF LaunchInv, DeadUnlocked, Trying
    <3> QED BY <1>0, <3>1 DEF Locked
  <2> QED BY <2>1 DEF DeadUnlocked, Trying
<1> QED BY <1>1, <1>2, <1>3, <1>5, <1>6, <1>7 DEF LaunchInv

-----------------------------------------------------------------------------
(* LaunchInv is an invariant.                                                  *)

LEMMA InitLaunchInv == Init => LaunchInv
<1> SUFFICES ASSUME Init PROVE LaunchInv OBVIOUS
<1>1. \A p \in Commands : op[p].pc = "idle" /\ op[p].cmd = "none" BY DEF Init, Idle
<1>2. \A s \in Sessions : ~Claimed(s) BY DEF Init, StoreInit, Claimed, NoClaim
<1> QED BY <1>1, <1>2
        DEF LaunchInv, KindFits, Reaches, Opening, Holds, HoldsAt, OneHolder, OwnNumber, LockHeld, DeadUnlocked

LEMMA EndRecord ==
  ASSUME op \in [Commands -> OpRec], NEW p \in Commands, End(p)
  PROVE  op'[p].pc \in {"done", "exit"} /\ op'[p].i = 0 /\ op'[p].cmd = op[p].cmd
  BY DEF End, Set, Idle

LEMMA CommandLaunchInv ==
  ASSUME OpsInv, OpsInv', LaunchInv, NEW p \in Commands, Start(p) \/ Step(p) PROVE LaunchInv'
<1>t. TypeOK /\ op \in [Commands -> OpRec] /\ Fits(op[p], next) BY DEF OpsInv, OpsTypeOK
<1>o. op' = [op EXCEPT ![p] = op'[p]] BY CommandFrame
<1>1. ASSUME NEW s \in Sessions, ResumeStart(p, s) PROVE LaunchInv'
  <2>1. ClaimStart(App, s, worker[s].id) /\ ~Holds(p) BY <1>1 DEF ResumeStart, Ready, At, Holds, HoldsAt
  <2>2. /\ op'[p].cmd = "resume" /\ op'[p].pc = "kill_old" /\ op'[p].s = s
        /\ op'[p].i = worker[s].id /\ op'[p].k = next
    BY <1>1, <1>t DEF ResumeStart, Set, Begin, Idle
  <2>3. KindFits(p)' /\ Holds(p)' /\ Holder(p)' = App
    BY <2>2 DEF KindFits, Reaches, Opening, Holds, HoldsAt, Holder, IsApp, AppKinds
  <2> QED BY <1>o, <2>1, <2>2, <2>3, KnownNumbers, TakenPreserves
<1>2. CASE SpawnClaim(p) /\ ClaimStart(p, op[p].s, op[p].i)
  <2>1. CanClaimStart(op[p].s, op[p].i) BY <1>2 DEF ClaimStart
  <2>2. op[p].cmd = "spawn" /\ op[p].pc = "claim" /\ Set(p, [op[p] EXCEPT !.pc = "launch", !.k = next])
    BY <1>2, <2>1 DEF SpawnClaim, At
  <2>3. /\ op'[p].cmd = "spawn" /\ op'[p].pc = "launch" /\ op'[p].s = op[p].s
        /\ op'[p].i = op[p].i /\ op'[p].k = next
    BY <1>t, <2>2 DEF Set, OpRec
  <2>4. KindFits(p)' /\ Holds(p)' /\ Holder(p)' = p /\ ~Holds(p)
    BY <2>2, <2>3 DEF KindFits, Reaches, Opening, Holds, HoldsAt, Holder, IsApp, AppKinds
  <2>5. op[p].s \in Sessions BY <1>t, <2>2 DEF Fits, Away
  <2> QED BY <1>o, <1>2, <2>3, <2>4, <2>5, KnownNumbers, TakenPreserves
<1>3. CASE CompleteLaunch(p)
  <2>1. Holds(p) BY <1>3 DEF CompleteLaunch, At, LaunchInv, KindFits, Reaches, Opening, Holds, HoldsAt
  <2>2. op'[p].pc \in {"done", "exit"} /\ op'[p].i = 0 BY <1>3, <1>t, EndRecord DEF CompleteLaunch
  <2>3. KindFits(p)' /\ ~Holds(p)' /\ op'[p].pc \notin Trying
    BY <2>2 DEF KindFits, Reaches, Opening, Holds, HoldsAt, Trying
  <2>4. \A s \in Sessions : worker'[s].id = worker[s].id
    BY <1>3, <1>t DEF CompleteLaunch, CompleteStart, Move, TypeOK, WorkerRow
  <2>5. claim' = [claim EXCEPT ![op[p].s] = NoClaim] /\ lock' = Unlocked(op[p].k) /\ UNCHANGED checkout
    BY <1>3 DEF CompleteLaunch, CompleteStart
  <2> QED BY <1>o, <2>1, <2>2, <2>3, <2>4, <2>5, EndedPreserves
<1>4. CASE Unclaim(p)
  <2>1. Holds(p) BY <1>4 DEF Unclaim, At, LaunchInv, KindFits, Reaches, Opening, Holds, HoldsAt
  <2>2. CanAbortStart(op[p].s, op[p].i, op[p].k)
    BY <2>1, HoldsFacts DEF CanAbortStart, HoldsClaim
  <2>3. AbortStart(op[p].s, op[p].i, op[p].k) BY <1>4, <2>2 DEF Unclaim
  <2>4. /\ op'[p].pc \in {"done", "exit", "rollback"} /\ op'[p].i \in {0, op[p].i}
        /\ op'[p].cmd = op[p].cmd
    <3>1. CASE Go(p, "rollback") BY <1>t, <3>1 DEF Go, Set, OpRec
    <3>2. CASE End(p) BY <1>t, <3>2, EndRecord
    <3> QED BY <1>4, <3>1, <3>2 DEF Unclaim
  <2>5. KindFits(p)' /\ ~Holds(p)' /\ op'[p].pc \notin Trying
    BY <2>1, <2>4 DEF KindFits, Reaches, Opening, Holds, HoldsAt, Trying
  <2>6. worker' = worker /\ UNCHANGED checkout
        /\ claim' = [claim EXCEPT ![op[p].s] = NoClaim] /\ lock' = Unlocked(op[p].k)
    BY <2>3 DEF AbortStart
  <2> QED BY <1>o, <2>1, <2>4, <2>5, <2>6, KnownNumbers, EndedPreserves
<1>c. \A q \in Commands \ {p} : op'[q] = op[q] BY <1>o, <1>t
<1>5. CASE Exit(p)
  <2>1. op'[p].pc = "done" /\ op'[p].i = op[p].i /\ op[p].pc = "exit"
    BY <1>5, <1>t DEF Exit, Go, Set, At, OpRec
  <2>2. ~Holds(p) BY <2>1 DEF Holds, HoldsAt
  <2>3. \A q \in Commands \ {p} : Holder(q) # p BY ProcsAssumption DEF Holder
  <2> QED BY <1>5, <1>c, <2>1, <2>2, <2>3, KnownNumbers, DroppedPreserves DEF Exit
<1>u. LaunchInv => KindFits(p) /\ DeadUnlocked BY DEF LaunchInv
<1>6. CASE OpenReclaimClaim(p)
  <2>1. PICK row \in op[p].dead : ReclaimClaim(row[1], row[2]) BY <1>6, Zenon DEF OpenReclaimClaim
  <2>2. row[1] \in Sessions /\ row[2] # 0 /\ ~Locked(row[2]) /\ op[p].pc = "try_claims"
    BY <1>6, <1>t, <1>u, <2>1 DEF OpenReclaimClaim, At, Fits, DeadUnlocked
  <2>3. lock' = lock BY <1>t, <2>1, <2>2 DEF ReclaimClaim, Unlocked, Locked, TypeOK
  <2>4. Renumbers
    <3>1. UNCHANGED <<worker, checkout>> BY <2>1 DEF ReclaimClaim
    <3>2. KeepsTo(NoSession) BY <3>1, OwnNumbers DEF KeepsTo
    <3> QED BY <2>3, <3>1, <3>2, KnownNumbers DEF Renumbers
  <2>5. ASSUME NEW s \in Sessions, claim'[s] # claim[s]
        PROVE  claim'[s] = NoClaim /\ \A q \in Commands : Holds(q) => op[q].s # s
    <3>1. s = row[1] /\ claim[s].id = row[2] /\ claim'[s] = NoClaim
      BY <1>t, <2>1, <2>5 DEF ReclaimClaim, TypeOK
    <3> QED BY <2>2, <3>1, HoldsFacts DEF HoldsClaim
  <2>6. ~CompleteLaunch(p) /\ ~Unclaim(p) /\ ~SpawnClaim(p) /\ ~\E s \in Sessions : ResumeStart(p, s)
    BY <2>2 DEF CompleteLaunch, Unclaim, SpawnClaim, ResumeStart, Ready, At
  <2>7. Tidy(p) BY <1>u, <2>4, <2>6, CommandTidy DEF Renumbers
  <2> QED BY <1>c, <2>4, <2>5, <2>7, QuietPreserves DEF Calm
<1>7. CASE /\ ~CompleteLaunch(p) /\ ~Unclaim(p) /\ ~\E s \in Sessions : ResumeStart(p, s)
           /\ ~(SpawnClaim(p) /\ ClaimStart(p, op[p].s, op[p].i)) /\ ~OpenReclaimClaim(p) /\ ~Exit(p)
  <2>1. Renumbered BY <1>7, <1>u, CommandRenumbers
  <2>2. Tidy(p) BY <1>7, <1>u, <2>1, CommandTidy DEF Renumbered, Renumbers
  <2> QED BY <1>c, <2>1, <2>2, QuietPreserves DEF Renumbered, Calm
<1> QED BY <1>1, <1>2, <1>3, <1>4, <1>5, <1>6, <1>7

LEMMA NextLaunchInv == ASSUME OpsInv, OpsInv', LaunchInv, [Next]_vars PROVE LaunchInv'
<1>t. TypeOK /\ op \in [Commands -> OpRec] BY DEF OpsInv, OpsTypeOK
<1>d. \A p \in Commands : Dead(p).pc = "done" /\ Dead(p).i = 0 BY DEF Dead, Idle
<1>k. Keep => Renumbered BY SameNumbers DEF Keep, db
<1>q. Renumbered /\ op' = op => LaunchInv' BY QuietPreserves DEF Renumbered, Calm
<1>1. ASSUME NEW p \in Commands, Crash(p) PROVE LaunchInv'
  <2>1. DropLocks(p) /\ ~IsApp(p) /\ op'[p] = Dead(p) /\ \A q \in Commands \ {p} : op'[q] = op[q]
    BY <1>1, <1>t DEF Crash, Set
  <2>2. Holder(p) = p /\ \A q \in Commands \ {p} : Holder(q) # p
    BY <2>1, ProcsAssumption DEF Holder
  <2> QED BY <1>d, <2>1, <2>2, DroppedPreserves
<1>2. CASE CrashApp
  <2>1. DropLocks(App) /\ \A q \in Commands : op'[q] = IF Running(q) /\ IsApp(q) THEN Dead(q) ELSE op[q]
    BY <1>2 DEF CrashApp
  <2>2. \A q \in Commands : Holds(q) => Running(q) BY DEF Holds, HoldsAt, Running
  <2>3. \A q \in Commands : Holder(q) = App <=> IsApp(q) BY ProcsAssumption DEF Holder
  <2> QED BY <1>d, <2>1, <2>2, <2>3, DroppedPreserves
<1>3. ASSUME NEW s \in Sessions, AgentExits(s) \/ PollPid(s) \/ AgentReports(s) \/ Merged(s)
      PROVE  LaunchInv'
  <2>1. RenumbersSession(s) /\ \A i : RenumbersIncarnation(s, i)
    BY <1>t, SessionRenumbers, IncarnationRenumbers
  <2>2. CASE AgentExits(s) BY <1>k, <1>q, <2>2 DEF AgentExits
  <2>3. CASE PollPid(s) BY <1>q, <2>1, <2>3 DEF PollPid, RenumbersSession
  <2>4. CASE AgentReports(s) BY <1>q, <2>1, <2>4 DEF AgentReports, RenumbersIncarnation
  <2>5. CASE Merged(s) BY <1>q, <2>1, <2>5 DEF Merged, RenumbersIncarnation
  <2> QED BY <1>3, <2>2, <2>3, <2>4, <2>5
<1>4. CASE UNCHANGED vars BY <1>q, <1>4, SameNumbers DEF vars
<1> QED BY <1>1, <1>2, <1>3, <1>4, CommandLaunchInv DEF Next

LEMMA LaunchSettles == ASSUME OpsInv, LaunchInv, ClaimInv PROVE ClaimSettles
<1>1. ClaimNeverLeaks
  <2>1. ASSUME NEW s \in Sessions, Claimed(s), Locked(claim[s].id)
        PROVE  \E p \in Commands : Running(p) /\ op[p].s = s /\ op[p].k = claim[s].id
    <3>1. PICK x \in Procs : <<x, claim[s].id>> \in lock BY <2>1 DEF Locked
    <3>2. PICK p \in Commands : Holds(p) /\ op[p].s = s
      BY <2>1, <3>1 DEF LaunchInv, LockHeld
    <3>3. Running(p) BY <3>2 DEF Holds, HoldsAt, Running
    <3> QED BY <3>2, <3>3, HoldsFacts DEF HoldsClaim
  <2> QED BY <2>1 DEF ClaimNeverLeaks
<1>2. LaunchCompletes
  <2>1. ASSUME NEW p \in Commands, At(p, "complete") PROVE CanCompleteStart(op[p].s, op[p].i, op[p].k)
    <3>1. Holds(p) BY <2>1 DEF At, LaunchInv, KindFits, Reaches, Opening, Holds, HoldsAt
    <3>2. op[p].s \in Sessions /\ Claimed(op[p].s) /\ HoldsClaim(p) BY <3>1, HoldsFacts
    <3> QED BY <3>2 DEF CanCompleteStart, HoldsClaim, ClaimInv, ClaimExclusive
  <2> QED BY <2>1 DEF LaunchCompletes
<1> QED BY <1>1, <1>2 DEF ClaimSettles

(* The claim a command took for its start, resume or finalization is still its   *)
(* own when it comes to complete or abort it: no other command, reclaiming open  *)
(* or re-filing takes it away while the command lives, and so complete_start     *)
(* succeeds (events.rs, workers.rs).                                             *)
THEOREM ClaimsSettle == Spec => []ClaimSettles
<1>1. Init => OpsInv /\ ClaimInv /\ LaunchInv BY InitOpsInv, InitClaimSafe, InitLaunchInv DEF Init
<1>2. OpsInv /\ ClaimInv /\ LaunchInv /\ [Next]_vars => OpsInv' /\ ClaimInv' /\ LaunchInv'
  BY NextOpsInv, NextClaimSafe, NextLaunchInv DEF OpsInv, OpsTypeOK
<1>3. OpsInv /\ ClaimInv /\ LaunchInv => ClaimSettles BY LaunchSettles
<1> QED BY <1>1, <1>2, <1>3, PTL DEF Spec
-----------------------------------------------------------------------------
(* No two sessions share a number: what is unlocked for the incarnation of     *)
(* one stays locked for that of another.                                       *)

Apart == \A s, r \in Sessions, n \in Numbers : s # r /\ Uses(s, n) /\ Uses(r, n) => n = 0

LEMMA CommandNumbers ==
  ASSUME OpsInv, OpsInv', LaunchInv, NEW p \in Commands, Start(p) \/ Step(p)
  PROVE  (\E z : KeepsTo(z)) /\ Named(p) /\ (At(p, "idle") \/ op'[p].cmd = op[p].cmd)
<1>t. TypeOK /\ op \in [Commands -> OpRec] /\ op[p] \in OpRec /\ Fits(op[p], next) BY DEF OpsInv, OpsTypeOK
<1>u. KindFits(p) /\ DeadUnlocked BY DEF LaunchInv
<1>k. UNCHANGED <<worker, checkout>> => \E z : KeepsTo(z) BY <1>t, KeptNumbers
<1>e. End(p) => Named(p) /\ op'[p].cmd = op[p].cmd BY <1>t, EndRecord DEF Named
<1>s. \A pc : Same(p, pc) => Named(p) /\ op'[p].cmd = op[p].cmd BY DEF Same, Named
<1>g. \A pc : Go(p, pc) => Named(p) /\ op'[p].cmd = op[p].cmd BY <1>t, <1>s, GoSame
<1>1. ASSUME NEW s \in Sessions, ResumeStart(p, s) PROVE (\E z : KeepsTo(z)) /\ Named(p) /\ At(p, "idle")
  <2>1. UNCHANGED <<worker, checkout>> BY <1>1 DEF ResumeStart, ClaimStart
  <2>2. op'[p].i = worker[s].id /\ op'[p].s = s /\ At(p, "idle")
    BY <1>1, <1>t DEF ResumeStart, Ready, Set, Begin, Idle
  <2> QED BY <1>k, <2>1, <2>2 DEF Named
<1>2. CASE SpawnClaim(p) /\ ClaimStart(p, op[p].s, op[p].i)
  <2>1. CanClaimStart(op[p].s, op[p].i) /\ UNCHANGED <<worker, checkout>> BY <1>2 DEF ClaimStart
  <2>2. Set(p, [op[p] EXCEPT !.pc = "launch", !.k = next]) BY <1>2, <2>1 DEF SpawnClaim
  <2>3. op'[p].cmd = op[p].cmd /\ op'[p].s = op[p].s /\ op'[p].i = op[p].i
    BY <1>t, <2>2 DEF Set, OpRec
  <2> QED BY <1>k, <2>1, <2>3 DEF Named
<1>3. CASE CompleteLaunch(p)
  <2>1. UNCHANGED checkout /\ \A s \in Sessions : worker'[s].id = worker[s].id
    BY <1>3, <1>t DEF CompleteLaunch, CompleteStart, Move, TypeOK, WorkerRow
  <2>2. \E z : KeepsTo(z) BY <1>t, <2>1, KeptNumbers
  <2> QED BY <1>3, <1>e, <2>2 DEF CompleteLaunch
<1>4. CASE Unclaim(p)
  <2>1. UNCHANGED <<worker, checkout>> BY <1>4 DEF Unclaim, AbortStart, Keep, db
  <2>2. End(p) \/ Go(p, "rollback") BY <1>4 DEF Unclaim
  <2> QED BY <1>k, <1>e, <1>g, <2>1, <2>2
<1>5. CASE Exit(p) BY <1>5, <1>k, <1>g DEF Exit, DropLocks
<1>6. CASE OpenReclaimClaim(p)
  <2>1. PICK row \in op[p].dead : ReclaimClaim(row[1], row[2]) /\ Set(p, [op[p] EXCEPT !.dead = op[p].dead \ {row}])
    BY <1>6, Zenon DEF OpenReclaimClaim
  <2>2. op'[p].cmd = op[p].cmd /\ op'[p].s = op[p].s /\ op'[p].i = op[p].i
    BY <1>t, <2>1 DEF Set, OpRec
  <2>3. UNCHANGED <<worker, checkout>> BY <2>1 DEF ReclaimClaim
  <2> QED BY <1>k, <2>2, <2>3 DEF Named
<1>7. CASE /\ ~CompleteLaunch(p) /\ ~Unclaim(p) /\ ~\E s \in Sessions : ResumeStart(p, s)
           /\ ~(SpawnClaim(p) /\ ClaimStart(p, op[p].s, op[p].i)) /\ ~OpenReclaimClaim(p) /\ ~Exit(p)
  <2>1. Renumbered BY <1>7, <1>u, CommandRenumbers
  <2>2. Tidy(p) BY <1>7, <1>u, <2>1, CommandTidy DEF Renumbered, Renumbers
  <2> QED BY <2>1, <2>2 DEF Renumbered, Renumbers, Tidy
<1> QED BY <1>1, <1>2, <1>3, <1>4, <1>5, <1>6, <1>7

LEMMA NextNumbers ==
  ASSUME OpsInv, OpsInv', LaunchInv, [Next]_vars
  PROVE  (\E z : KeepsTo(z)) /\ \A q \in Commands : op'[q] = op[q] \/ Named(q)
<1>t. TypeOK /\ op \in [Commands -> OpRec] BY DEF OpsInv, OpsTypeOK
<1>k. UNCHANGED <<worker, checkout>> => \E z : KeepsTo(z) BY <1>t, KeptNumbers
<1>d. \A p \in Commands : op'[p] = Dead(p) => Named(p) BY DEF Dead, Idle, Named
<1>1. ASSUME NEW p \in Commands, Start(p) \/ Step(p)
      PROVE  (\E z : KeepsTo(z)) /\ \A q \in Commands : op'[q] = op[q] \/ Named(q)
  <2>1. \A q \in Commands \ {p} : op'[q] = op[q] BY <1>1, <1>t, CommandFrame
  <2> QED BY <1>1, <2>1, CommandNumbers
<1>2. ASSUME NEW p \in Commands, Crash(p)
      PROVE  UNCHANGED <<worker, checkout>> /\ \A q \in Commands : op'[q] = op[q] \/ Named(q)
  BY <1>2, <1>t, <1>d DEF Crash, Set, DropLocks
<1>3. CASE CrashApp BY <1>3, <1>k, <1>d DEF CrashApp, DropLocks
<1>4. ASSUME NEW s \in Sessions, AgentExits(s) \/ PollPid(s) \/ AgentReports(s) \/ Merged(s)
      PROVE  (\E z : KeepsTo(z)) /\ op' = op
  <2>1. RenumbersSession(s) /\ \A i : RenumbersIncarnation(s, i)
    BY <1>t, SessionRenumbers, IncarnationRenumbers
  <2>2. CASE AgentExits(s) BY <1>k, <2>2 DEF AgentExits, Keep, db
  <2>3. CASE PollPid(s) BY <1>k, <2>3 DEF PollPid, UpsertSession
  <2>4. CASE AgentReports(s) BY <2>1, <2>4 DEF AgentReports, RenumbersIncarnation, Renumbered, Renumbers
  <2>5. CASE Merged(s) BY <2>1, <2>5 DEF Merged, RenumbersIncarnation, Renumbered, Renumbers
  <2> QED BY <1>4, <2>2, <2>3, <2>4, <2>5
<1>5. CASE UNCHANGED vars BY <1>5, <1>k DEF vars
<1> QED BY <1>k, <1>1, <1>2, <1>3, <1>4, <1>5 DEF Next

LEMMA InitApart == Init => Apart
  BY DEF Init, StoreInit, Apart, Uses, LeasesOf, NoWorker, Unused, Idle, Busy

LEMMA NextApart == ASSUME OpsInv, OpsInv', LaunchInv, Apart, [Next]_vars PROVE Apart'
<1>t. next \in Nat /\ next >= 1 /\ TypeOK' BY DEF OpsInv, OpsTypeOK, TypeOK
<1>1. PICK z : KeepsTo(z) BY NextNumbers
<1>2. ASSUME NEW s \in Sessions, NEW n, Uses(s, n) PROVE n # next /\ n \in Numbers
  <2>1. n \in 0..(next - 1)
    <3>1. worker[s].id \in 0..(next - 1) BY <1>t DEF OpsInv, HandedOut, SessionOut, Out
    <3>2. \A c \in Checkouts : checkout[c].owner \in 0..(next - 1)
      BY <1>t DEF OpsInv, HandedOut, CheckoutOut, Out
    <3>3. \A p \in Commands : op[p].i \in 0..(next - 1) BY DEF OpsInv, Fits
    <3> QED BY <1>t, <1>2, <3>1, <3>2, <3>3 DEF Uses, LeasesOf, OpsInv, OpsTypeOK, TypeOK
  <2> QED BY <1>t, <2>1 DEF OpsInv, OpsTypeOK, TypeOK, Numbers
<1>3. ASSUME NEW s \in Sessions, NEW n, Uses(s, n)' PROVE Uses(s, n) \/ (s = z /\ n = next)
  <2>1. Uses(s, 0) BY DEF Uses
  <2>2. Uses(s, worker'[s].id) \/ (s = z /\ worker'[s].id = next) BY <1>1 DEF KeepsTo
  <2>3. CASE n = 0 \/ n = worker'[s].id BY <2>1, <2>2, <2>3
  <2>4. ASSUME NEW c \in LeasesOf(s)', n = checkout'[c].owner PROVE Uses(s, n) \/ (s = z /\ n = next)
    BY <1>1, <2>4 DEF KeepsTo, LeasesOf
  <2>5. ASSUME NEW p \in Commands, op'[p].s = s, n = op'[p].i PROVE Uses(s, n) \/ (s = z /\ n = next)
    <3>1. CASE op'[p].i = op[p].i /\ op'[p].s = op[p].s BY <2>5, <3>1 DEF Uses
    <3>2. op'[p] = op[p] \/ Named(p) BY NextNumbers
    <3> QED BY <2>1, <2>2, <2>5, <3>1, <3>2 DEF Named
  <2> QED BY <1>3, <2>3, <2>4, <2>5 DEF Uses
<1>4. ASSUME NEW s \in Sessions, NEW r \in Sessions, NEW n \in Numbers, s # r, Uses(s, n)', Uses(r, n)'
      PROVE  n = 0
  <2>1. Uses(s, n) \/ (s = z /\ n = next) BY <1>3, <1>4
  <2>2. Uses(r, n) \/ (r = z /\ n = next) BY <1>3, <1>4
  <2> QED BY <1>2, <1>4, <2>1, <2>2 DEF Apart
<1> QED BY <1>4 DEF Apart
-----------------------------------------------------------------------------
(* With one command at a time, what Store::open of a process read stays all     *)
(* there is to reclaim until it has reclaimed it: agents and the poller go on,  *)
(* but unlock nobody else's number.                                            *)

OneRuns == \A p, q \in Commands : Running(p) /\ Running(q) => p = q
Awaits(s) == worker[s].state = "allocating" /\ worker[s].token
Pending(p) == op[p].left \cup op[p].dead
Recovers(p, s) ==
  /\ op[p].pc = "try_allocations" /\ Awaits(s) /\ ~Locked(worker[s].id) => <<s, worker[s].id>> \in Pending(p)
  /\ op[p].pc \in {"claims", "try_claims", "exit"} /\ Awaits(s) => Locked(worker[s].id)
  /\ op[p].pc = "try_claims" /\ Claimed(s) /\ ~Locked(claim[s].id) => <<s, claim[s].id>> \in Pending(p)
  /\ op[p].pc = "exit" /\ Claimed(s) => Locked(claim[s].id)
Recovering == \A p \in Commands, s \in Sessions : op[p].cmd = "open" => Recovers(p, s)

\* What is pending stays pending, and nothing new becomes it.
Undisturbed(s) ==
  /\ Awaits(s)' => Awaits(s) /\ worker'[s].id = worker[s].id /\ (Locked(worker[s].id) => Locked(worker[s].id)')
  /\ Claimed(s)' => Claimed(s) /\ claim'[s] = claim[s] /\ (Locked(claim[s].id) => Locked(claim[s].id)')

\* The steps of the commands but Store::open, and those of Store::open.
Elsewhere == Pcs \ (Opening \cup {"idle", "done", "exit"})
StepOfOpen(p) ==
  OpenScan(p) \/ OpenTryLock(p) \/ OpenReclaimAllocations(p) \/ OpenReclaimClaim(p) \/ OpenOrphans(p) \/ Exit(p)

LEMMA StepAt ==
  ASSUME NEW p \in Commands, Step(p) PROVE op[p].pc \in Elsewhere \/ (StepOfOpen(p) /\ op[p].pc \in Opening \cup {"exit"})
<1> USE DEF At, Elsewhere, Pcs, Opening
<1>1. AcquireScan(p) \/ VisitProvisioning(p) \/ VisitQuarantined(p) \/ TakeCheckout(p) \/ Create(p) => op[p].pc \in Elsewhere
  BY Zenon DEF AcquireScan, VisitProvisioning, VisitQuarantined, TakeCheckout, Create
<1>2. Rollback(p) \/ Undo(p) \/ Settle(p) \/ Mark(p) => op[p].pc \in Elsewhere
  BY DEF Rollback, Undo, Settle, Mark
<1>3. Launch(p) \/ CompleteLaunch(p) \/ Unclaim(p) => op[p].pc \in Elsewhere
  BY DEF Launch, CompleteLaunch, Unclaim
<1>4. SpawnPrepare(p) \/ Unspawn(p) \/ SpawnWorkspace(p) \/ BindLease(p) \/ SpawnWorking(p) \/ SpawnClaim(p) => op[p].pc \in Elsewhere
  BY DEF SpawnPrepare, Unspawn, SpawnWorkspace, BindLease, SpawnWorking, SpawnClaim
<1>5. RefileStop(p) \/ RefilePrepare(p) \/ RefileFind(p) \/ RefileRehome(p) \/ Ensure(p) => op[p].pc \in Elsewhere
  BY DEF RefileStop, RefilePrepare, RefileFind, RefileRehome, Ensure
<1>6. LaunchedRow(p) \/ FailedRow(p) \/ RefileReclaim(p) \/ RefileRetain(p) \/ KillOld(p) => op[p].pc \in Elsewhere
  BY DEF LaunchedRow, FailedRow, RefileReclaim, RefileRetain, KillOld
<1>7. FinalizeStop(p) \/ FinalizeFinish(p) \/ ReleaseStop(p) \/ ReleaseFree(p) \/ ReleaseSettle(p) => op[p].pc \in Elsewhere
  BY DEF FinalizeStop, FinalizeFinish, ReleaseStop, ReleaseFree, ReleaseSettle
<1>8. RemoveClaim(p) \/ RemoveStop(p) \/ RemoveAbort(p) \/ RemoveDetach(p) \/ RemoveRecord(p) \/ RemoveSettle(p) => op[p].pc \in Elsewhere
  BY DEF RemoveClaim, RemoveStop, RemoveAbort, RemoveDetach, RemoveRecord, RemoveSettle
<1>9. StepOfOpen(p) => op[p].pc \in Opening \cup {"exit"}
  BY DEF StepOfOpen, OpenScan, OpenTryLock, OpenReclaimAllocations, OpenReclaimClaim, OpenOrphans, Exit
<1> QED BY <1>1, <1>2, <1>3, <1>4, <1>5, <1>6, <1>7, <1>8, <1>9 DEF Step, StepOfOpen

LEMMA StartReady ==
  ASSUME NEW p \in Commands, Start(p)
  PROVE  (\E kind : Ready(p, kind)) /\ (OpenAdopt(p) \/ \E s \in Sessions :
           \/ SpawnInsert(p, s) \/ RefileStart(p, s) \/ ResumeStart(p, s) \/ RelaunchStart(p, s)
           \/ FinalizeStart(p, s) \/ ReleaseStart(p, s) \/ RemoveStart(p, "remove", s) \/ RemoveStart(p, "cleanup", s))
<1>1. OpenAdopt(p) => \E kind : Ready(p, kind) BY DEF OpenAdopt
<1>2. ASSUME NEW s \in Sessions,
             \/ SpawnInsert(p, s) \/ RefileStart(p, s) \/ ResumeStart(p, s) \/ RelaunchStart(p, s)
             \/ FinalizeStart(p, s) \/ ReleaseStart(p, s) \/ RemoveStart(p, "remove", s)
             \/ RemoveStart(p, "cleanup", s)
      PROVE  \E kind : Ready(p, kind)
  BY <1>2 DEF SpawnInsert, RefileStart, ResumeStart, RelaunchStart, FinalizeStart, ReleaseStart, RemoveStart
<1> QED BY <1>1, <1>2 DEF Start

LEMMA StartsAlone ==
  ASSUME Width = 1, OneRuns, NEW p \in Commands, NEW kind, Ready(p, kind), NEW q \in Commands PROVE ~Running(q)
<1> SUFFICES ASSUME Running(q) PROVE FALSE OBVIOUS
<1>1. {r \in Commands : Running(r)} = {q} BY DEF OneRuns
<1>2. Cardinality({q}) = 1 BY FS_Singleton
<1> QED BY <1>1, <1>2 DEF Ready

LEMMA InitRecovering == Init => OneRuns /\ Recovering
  BY DEF Init, Idle, OneRuns, Running, Recovering

LEMMA NextOneRuns == ASSUME Width = 1, OpsInv, OneRuns, [Next]_vars PROVE OneRuns'
<1>t. op \in [Commands -> OpRec] BY DEF OpsInv, OpsTypeOK
<1>d. \A p \in Commands : op'[p] = Dead(p) => ~Running(p)' BY DEF Dead, Idle, Running
<1>1. ASSUME NEW p \in Commands, Start(p) \/ Step(p) PROVE OneRuns'
  <2>1. \A q \in Commands \ {p} : op'[q] = op[q] BY <1>1, <1>t, CommandFrame
  <2>2. \A q \in Commands \ {p} : ~Running(q)
    <3>1. CASE Start(p) BY <3>1, StartReady, StartsAlone
    <3>2. CASE Step(p)
      <4>1. Running(p) BY <3>2, StepAt DEF Running, Elsewhere, Opening
      <4> QED BY <4>1 DEF OneRuns
    <3> QED BY <1>1, <3>1, <3>2
  <2>3. \A q \in Commands \ {p} : ~Running(q)' BY <2>1, <2>2 DEF Running
  <2> QED BY <2>3 DEF OneRuns
<1>2. ASSUME NEW p \in Commands, Crash(p) PROVE OneRuns'
  <2>1. op'[p] = Dead(p) /\ \A q \in Commands \ {p} : op'[q] = op[q] BY <1>2, <1>t DEF Crash, Set
  <2>2. \A q \in Commands : Running(q)' => Running(q) BY <1>d, <2>1 DEF Running
  <2> QED BY <2>2 DEF OneRuns
<1>3. CASE CrashApp
  <2>1. \A q \in Commands : op'[q] = Dead(q) \/ op'[q] = op[q] BY <1>3 DEF CrashApp
  <2>2. \A q \in Commands : Running(q)' => Running(q) BY <1>d, <2>1 DEF Running
  <2> QED BY <2>2 DEF OneRuns
<1>4. CASE op' = op BY <1>4 DEF OneRuns, Running
<1>5. ASSUME NEW s \in Sessions, AgentExits(s) \/ PollPid(s) \/ AgentReports(s) \/ Merged(s) PROVE op' = op
  BY <1>5 DEF AgentExits, PollPid, AgentReports, Merged
<1>6. UNCHANGED vars => op' = op BY DEF vars
<1> QED BY <1>1, <1>2, <1>3, <1>4, <1>5, <1>6 DEF Next

LEMMA EventUndisturbed ==
  ASSUME OpsInv, LaunchInv, Apart, NEW s \in Sessions, NEW r \in Sessions,
         AgentExits(s) \/ PollPid(s) \/ AgentReports(s) \/ Merged(s)
  PROVE  Undisturbed(r) /\ op' = op
<1>t. TypeOK BY DEF OpsInv, OpsTypeOK
<1>u. UNCHANGED <<worker, claim, lock>> => Undisturbed(r) BY DEF Undisturbed, Awaits, Claimed, Locked
<1>1. CASE AgentExits(s) BY <1>1, <1>u DEF AgentExits, Keep, db
<1>2. CASE PollPid(s) BY <1>2, <1>u DEF PollPid, UpsertSession
<1>3. CASE Merged(s)
  <2>1. UNCHANGED <<claim, lock>> /\ Move(s, "retained") BY <1>3 DEF Merged, Retain
  <2>2. worker'[r] = worker[r] \/ worker'[r].state = "retained" BY <1>t, <2>1 DEF Move, TypeOK, WorkerRow
  <2> QED BY <1>3, <2>1, <2>2 DEF Merged, Undisturbed, Awaits, Claimed, Locked
<1>4. CASE AgentReports(s)
  <2>1. PICK i : i = worker[s].id /\ CompleteIncarnation(s, i)
    BY <1>4 DEF AgentReports, CompleteIncarnation, CanCompleteIncarnation, Is
  <2>2. UNCHANGED claim /\ lock' = Unlocked(i) /\ worker' = [worker EXCEPT ![s] = Settled(s, "retained")]
    BY <2>1 DEF CompleteIncarnation
  <2>3. (worker'[r] = worker[r] /\ r # s) \/ ~worker'[r].token
    BY <1>t, <2>2 DEF TypeOK, WorkerRow, Settled
  <2>4. \A n : n # i /\ Locked(n) => Locked(n)' BY <2>2 DEF Locked, Unlocked
  <2>5. ASSUME r # s, Awaits(r) PROVE worker[r].id # i
    <3>1. worker[r].id # 0 /\ worker[r].id \in Numbers
      BY <1>t, <2>5 DEF Awaits, OpsInv, HandedOut, SessionOut, HasWorker, Out, TypeOK, WorkerRow
    <3>2. Uses(r, worker[r].id) /\ Uses(s, i) BY <2>1 DEF Uses
    <3> QED BY <2>5, <3>1, <3>2 DEF Apart
  <2>6. Claimed(r) => claim[r].id # i BY <2>1, KnownNumbers DEF LaunchInv, OwnNumber
  <2> QED BY <1>4, <2>2, <2>3, <2>4, <2>5, <2>6 DEF AgentReports, Undisturbed, Awaits, Claimed
<1> QED BY <1>1, <1>2, <1>3, <1>4

LEMMA UndisturbedRecovers ==
  ASSUME op' = op, NEW p \in Commands, NEW s \in Sessions, Undisturbed(s), Recovers(p, s)
  PROVE  Recovers(p, s)'
  BY DEF Undisturbed, Recovers, Pending

LEMMA OpenRecovers ==
  ASSUME OpsInv, LaunchInv, NEW p \in Commands, op[p].cmd = "open", StepOfOpen(p),
         NEW s \in Sessions, Recovers(p, s)
  PROVE  Recovers(p, s)'
<1>t. TypeOK /\ op \in [Commands -> OpRec] /\ op[p] \in OpRec /\ Fits(op[p], next)
  BY DEF OpsInv, OpsTypeOK
<1>k. Keep => UNCHANGED <<worker, claim, lock>> BY DEF Keep, db
<1>d. op[p].pc \in Trying => \A d \in op[p].dead : ~Locked(d[2])
  BY DEF LaunchInv, DeadUnlocked, Trying
<1>1. CASE OpenScan(p)
  <2>1. Keep BY <1>1 DEF OpenScan
  <2>2. CASE At(p, "allocations")
    <3> DEFINE rows == {<<x, worker[x].id>> : x \in {r \in Sessions : worker[r].state = "allocating" /\ worker[r].token}}
    <3>1. op'[p] = [op[p] EXCEPT !.pc = "try_allocations", !.dead = {}, !.left = rows]
      BY <1>1, <1>t, <2>2 DEF OpenScan, At, Set
    <3>2. op'[p].pc = "try_allocations" /\ op'[p].left = rows BY <1>t, <3>1 DEF OpRec
    <3>3. Awaits(s) => <<s, worker[s].id>> \in rows BY DEF Awaits
    <3> HIDE DEF rows
    <3> QED BY <1>k, <2>1, <3>2, <3>3 DEF Recovers, Pending, Awaits
  <2>3. CASE At(p, "claims")
    <3> DEFINE rows == {<<x, claim[x].id>> : x \in {r \in Sessions : Claimed(r)}}
    <3>1. op'[p] = [op[p] EXCEPT !.pc = "try_claims", !.dead = {}, !.left = rows]
      BY <1>1, <1>t, <2>3 DEF OpenScan, At, Set
    <3>2. op'[p].pc = "try_claims" /\ op'[p].left = rows BY <1>t, <3>1 DEF OpRec
    <3>3. Claimed(s) => <<s, claim[s].id>> \in rows OBVIOUS
    <3> HIDE DEF rows
    <3> QED BY <1>k, <2>1, <2>3, <3>2, <3>3 DEF At, Recovers, Pending, Awaits, Claimed, Locked
  <2> QED BY <1>1, <2>2, <2>3 DEF OpenScan
<1>2. CASE OpenTryLock(p)
  <2>1. Keep BY <1>2 DEF OpenTryLock
  <2>2. PICK row \in op[p].left :
          Set(p, [op[p] EXCEPT !.left = op[p].left \ {row},
                               !.dead = IF Locked(row[2]) THEN op[p].dead ELSE op[p].dead \cup {row}])
    BY <1>2, Zenon DEF OpenTryLock
  <2>3. /\ op'[p].pc = op[p].pc /\ op'[p].left = op[p].left \ {row}
        /\ op'[p].dead = IF Locked(row[2]) THEN op[p].dead ELSE op[p].dead \cup {row}
    BY <1>t, <2>2 DEF Set, OpRec
  <2>4. ASSUME NEW n, <<s, n>> \in Pending(p), ~Locked(n) PROVE <<s, n>> \in Pending(p)'
    BY <2>3, <2>4 DEF Pending
  <2> QED BY <1>k, <2>1, <2>3, <2>4 DEF Recovers, Awaits, Claimed, Locked
<1>3. CASE OpenReclaimAllocations(p)
  <2>1. /\ op[p].pc = "try_allocations" /\ op[p].left = {}
        /\ ReclaimAllocations(op[p].dead) /\ Go(p, "claims")
    BY <1>3 DEF OpenReclaimAllocations, At
  <2>2. op'[p].pc = "claims" BY <1>t, <2>1, GoSame DEF Same
  <2>3. lock' = lock BY <1>d, <1>t, <2>1 DEF ReclaimAllocations, TypeOK, Locked, Trying
  <2>4. Awaits(s)' => Awaits(s) /\ worker'[s] = worker[s] /\ <<s, worker[s].id>> \notin op[p].dead
    <3>1. ~Settled(s, "released").token BY <1>t DEF Settled, TypeOK, WorkerRow
    <3> QED BY <2>1, <3>1 DEF ReclaimAllocations, Awaits
  <2> QED BY <2>1, <2>2, <2>3, <2>4 DEF Recovers, Pending, Locked
<1>4. CASE OpenReclaimClaim(p)
  <2>1. PICK row \in op[p].dead : ReclaimClaim(row[1], row[2]) /\ Set(p, [op[p] EXCEPT !.dead = op[p].dead \ {row}])
    BY <1>4, Zenon DEF OpenReclaimClaim
  <2>2. op[p].pc = "try_claims" /\ op[p].left = {} BY <1>4 DEF OpenReclaimClaim, At
  <2>3. op'[p].pc = "try_claims" /\ op'[p].dead = op[p].dead \ {row}
    BY <1>t, <2>1, <2>2 DEF Set, OpRec
  <2>4. row = <<row[1], row[2]>> /\ row[1] \in Sessions /\ ~Locked(row[2])
    BY <1>d, <1>t, <2>1, <2>2 DEF Fits, Trying
  <2>5. lock' = lock /\ UNCHANGED worker BY <1>t, <2>1, <2>4 DEF ReclaimClaim, Unlocked, Locked, TypeOK
  <2>6. Claimed(s)' => Claimed(s) /\ claim'[s] = claim[s] /\ <<s, claim[s].id>> # row
    BY <1>t, <2>1, <2>4 DEF ReclaimClaim, Claimed, NoClaim, TypeOK
  <2> QED BY <2>2, <2>3, <2>5, <2>6 DEF Recovers, Pending, Awaits, Locked
<1>5. CASE OpenOrphans(p)
  <2>1. op[p].pc = "try_claims" /\ Pending(p) = {} BY <1>5 DEF OpenOrphans, At, Pending
  <2>2. UNCHANGED <<worker, claim, lock>> BY <1>5 DEF OpenOrphans, RemoveOrphans
  <2>3. op'[p].pc \in {"done", "exit"} BY <1>5, <1>t, EndRecord DEF OpenOrphans
  <2> QED BY <2>1, <2>2, <2>3 DEF Recovers, Awaits, Claimed, Locked
<1>6. CASE Exit(p)
  <2>1. op'[p].pc = "done" BY <1>6, <1>t, GoSame DEF Exit, Same
  <2> QED BY <2>1 DEF Recovers
<1> QED BY <1>1, <1>2, <1>3, <1>4, <1>5, <1>6 DEF StepOfOpen

LEMMA NextRecovering ==
  ASSUME Width = 1, OpsInv, OpsInv', LaunchInv, LaunchInv', Apart, OneRuns, Recovering, [Next]_vars
  PROVE  Recovering'
<1>t. op \in [Commands -> OpRec] BY DEF OpsInv, OpsTypeOK
<1> SUFFICES ASSUME NEW p \in Commands, NEW s \in Sessions, op'[p].cmd = "open" PROVE Recovers(p, s)'
  BY DEF Recovering
<1>d. op'[p].pc \in {"done", "allocations"} => Recovers(p, s)' BY DEF Recovers
<1>o. op[p].cmd = "open" /\ ~Running(p) => op[p].pc = "done"
  BY DEF LaunchInv, KindFits, Reaches, Running, Opening
<1>1. ASSUME NEW q \in Commands, Start(q) \/ Step(q) PROVE Recovers(p, s)'
  <2>0. \A r \in Commands \ {q} : op'[r] = op[r] BY <1>1, <1>t, CommandFrame
  <2>r. q # p => ~Running(p)
    <3>1. CASE Start(q) BY <3>1, StartReady, StartsAlone
    <3>2. CASE Step(q)
      <4>1. Running(q) BY <3>2, StepAt DEF Running, Elsewhere, Opening
      <4> QED BY <4>1 DEF OneRuns
    <3> QED BY <1>1, <3>1, <3>2
  <2>1. CASE q # p BY <1>d, <1>o, <2>0, <2>1, <2>r
  <2>2. CASE q = p /\ Start(p)
    <3>1. CASE OpenAdopt(p)
      <4>1. op'[p].pc = "allocations" BY <3>1, <1>t DEF OpenAdopt, Set, Begin, Idle
      <4> QED BY <1>d, <4>1
    <3>2. ASSUME NEW r \in Sessions,
                 \/ SpawnInsert(p, r) \/ RefileStart(p, r) \/ ResumeStart(p, r) \/ RelaunchStart(p, r)
                 \/ FinalizeStart(p, r) \/ ReleaseStart(p, r) \/ RemoveStart(p, "remove", r)
                 \/ RemoveStart(p, "cleanup", r)
          PROVE  op'[p].cmd # "open"
      <4>1. CASE SpawnInsert(p, r) BY <4>1, <1>t DEF SpawnInsert, Set, Begin, Idle
      <4>2. CASE RefileStart(p, r) BY <4>2, <1>t DEF RefileStart, Set, Begin, Idle
      <4>3. CASE ResumeStart(p, r) BY <4>3, <1>t DEF ResumeStart, Set, Begin, Idle
      <4>4. CASE RelaunchStart(p, r) BY <4>4, <1>t DEF RelaunchStart, Set, Begin, Idle
      <4>5. CASE FinalizeStart(p, r) BY <4>5, <1>t DEF FinalizeStart, Set, Begin, Idle
      <4>6. CASE ReleaseStart(p, r) BY <4>6, <1>t DEF ReleaseStart, Set, Begin, Idle
      <4>7. CASE RemoveStart(p, "remove", r) BY <4>7, <1>t DEF RemoveStart, Set, Begin, Idle
      <4>8. CASE RemoveStart(p, "cleanup", r) BY <4>8, <1>t DEF RemoveStart, Set, Begin, Idle
      <4> QED BY <3>2, <4>1, <4>2, <4>3, <4>4, <4>5, <4>6, <4>7, <4>8
    <3> QED BY <2>2, <3>1, <3>2, StartReady
  <2>3. CASE q = p /\ Step(p)
    <3>1. ~At(p, "idle") BY <2>3, StepAt DEF At, Elsewhere, Opening
    <3>2. op[p].cmd = "open" BY <2>3, <3>1, CommandNumbers
    <3>3. StepOfOpen(p)
      <4>1. op[p].pc \in Opening \cup {"exit", "done"} BY <3>2 DEF LaunchInv, KindFits, Reaches
      <4> QED BY <2>3, <4>1, StepAt DEF Elsewhere
    <3> QED BY <3>2, <3>3, OpenRecovers DEF Recovering
  <2> QED BY <1>1, <2>1, <2>2, <2>3
<1>2. ASSUME NEW q \in Commands, Crash(q) PROVE Recovers(p, s)'
  <2>1. Running(q) /\ op'[q] = Dead(q) /\ \A r \in Commands \ {q} : op'[r] = op[r]
    BY <1>2, <1>t DEF Crash, Set
  <2>2. op'[q].pc = "done" BY <2>1 DEF Dead, Idle
  <2>3. q # p => ~Running(p) BY <2>1 DEF OneRuns
  <2> QED BY <1>d, <1>o, <2>1, <2>2, <2>3
<1>3. CASE CrashApp
  <2>1. PICK q \in Commands : Running(q) /\ IsApp(q) BY <1>3 DEF CrashApp
  <2>2. op'[p] = Dead(p) \/ (op'[p] = op[p] /\ ~(Running(p) /\ IsApp(p))) BY <1>3 DEF CrashApp
  <2>3. op'[p] = Dead(p) => op'[p].pc = "done" BY DEF Dead, Idle
  <2>4. Running(p) => IsApp(p) BY <2>1 DEF OneRuns
  <2> QED BY <1>d, <1>o, <2>2, <2>3, <2>4
<1>4. ASSUME op' = op, Undisturbed(s) PROVE Recovers(p, s)'
  BY <1>4, UndisturbedRecovers DEF Recovering
<1>5. ASSUME NEW r \in Sessions, AgentExits(r) \/ PollPid(r) \/ AgentReports(r) \/ Merged(r)
      PROVE  Recovers(p, s)'
  BY <1>4, <1>5, EventUndisturbed
<1>6. CASE UNCHANGED vars BY <1>4, <1>6 DEF vars, Undisturbed, Awaits, Claimed, Locked
<1> QED BY <1>1, <1>2, <1>3, <1>5, <1>6 DEF Next

(* Where processes run one after the other, a Store::open leaves no allocation   *)
(* and no runtime claim of a process that is gone, whatever that process was     *)
(* doing and whatever agents report meanwhile: every one that is left is locked  *)
(* (store.rs, Store::open).                                                      *)
THEOREM OpenRecoversAll == ASSUME Width = 1 PROVE Spec => []RecoveredByOpen
<1> DEFINE Inv == OpsInv /\ LaunchInv /\ Apart /\ OneRuns /\ Recovering
<1>1. Init => Inv BY InitOpsInv, InitLaunchInv, InitApart, InitRecovering
<1>2. Inv /\ [Next]_vars => Inv'
  <2> SUFFICES ASSUME Inv, [Next]_vars PROVE Inv' OBVIOUS
  <2>1. OpsInv' BY NextOpsInv
  <2>2. LaunchInv' BY <2>1, NextLaunchInv
  <2> QED BY <2>1, <2>2, NextApart, NextOneRuns, NextRecovering
<1>3. Inv => RecoveredByOpen BY DEF Recovering, Recovers, RecoveredByOpen, At, Awaits
<1> HIDE DEF Inv
<1> QED BY <1>1, <1>2, <1>3, PTL DEF Spec

-----------------------------------------------------------------------------
(* Where tmux tells who runs and nothing relaunches behind the tables, one     *)
(* command at a time keeps every agent in its session's checkout.              *)

LeasedTo(s, c) == checkout[c].state = "leased" /\ checkout[c].session = s
CanBeRun(s, i) == Is(s, i) /\ worker[s].state \in Launchable

\* An agent is its session's, and so is its checkout; who works has a worker.
Serves(s) ==
  /\ run[s].live => /\ Exists(s) /\ Is(s, run[s].inc)
                    /\ worker[s].state \notin {"allocating", "released"} /\ OwnsCheckout(s)
  /\ session[s].status = "working" => HasWorker(s)
  /\ session[s].talk => Exists(s)

(* What a command relies on: on the way to a launch and on the way back there   *)
(* is no agent; the row is there until the launch; what is launched may be, and *)
(* its checkout is the session's; a scan of the pool or of allocations is       *)
(* accurate; a claim that is given back leaves a live agent its incarnation.    *)
WayThere == {"prepare", "scan", "visit", "create", "workspace", "find", "rehome", "ensure", "bind",
             "working", "launch"}
WayBack == {"unspawn", "unclaim", "rollback", "undo", "settle", "terminalize", "status", "failed",
            "reclaim", "retain", "finish", "free", "released", "detach", "record", "unclaim_row"}
SpawnClaims(p) == op[p].cmd = "spawn" /\ op[p].pc = "claim"
Underway(p) == SpawnClaims(p) \/ op[p].pc \in WayThere
HasRow(p) == Underway(p) \/ op[p].pc = "kill_old" \/ (op[p].cmd = "refile" /\ op[p].pc = "stop")
Bound(p) == \/ SpawnClaims(p) \/ op[p].pc \in {"working", "launch", "row", "complete", "kill_old"}
            \/ op[p].cmd = "resume" /\ op[p].pc = "ensure"
Housed(p) == SpawnClaims(p) \/ op[p].pc \in {"bind", "working", "launch"}
MayGiveBack(p) == op[p].pc = "unremove" \/ (op[p].pc = "stop" /\ op[p].cmd \in {"remove", "cleanup"})

Relies(p) ==
  /\ Underway(p) \/ op[p].pc \in WayBack => ~run[op[p].s].live
  /\ HasRow(p) => Exists(op[p].s)
  /\ Bound(p) => CanBeRun(op[p].s, op[p].i)
  /\ Housed(p) /\ op[p].row.ws \in Checkouts => LeasedTo(op[p].s, op[p].row.ws)
  /\ op[p].pc \in {"workspace", "rehome"} => LeasedTo(op[p].s, op[p].c)
  /\ op[p].pc = "visit" => \A seen \in op[p].left : checkout[seen[1]] = seen[2]
  /\ MayGiveBack(p) => /\ run[op[p].s].live => op[p].note \in Launchable
                       /\ session[op[p].s].status = "working" => op[p].note # "none"
  /\ op[p].pc = "try_allocations" => \A row \in op[p].left \cup op[p].dead : worker[row[1]].state = "allocating"
Serving == (\A s \in Sessions : Serves(s)) /\ \A p \in Commands : Relies(p)

\* A step for session s leaves the other ones and their checkouts alone.
Confined(s) ==
  /\ \A r \in Sessions \ {s} : session'[r] = session[r] /\ worker'[r] = worker[r]
  /\ \A r \in Sessions \ {s}, c \in Checkouts : LeasedTo(r, c) => LeasedTo(r, c)'
\* It keeps the session's row and worker and does not make them more.
Gentle(s) ==
  /\ Confined(s)
  /\ Exists(s) => Exists(s)'
  /\ HasWorker(s) => HasWorker(s)'
  /\ session'[s].status = "working" => session[s].status = "working"
  /\ session'[s].talk => session[s].talk
RunsAlone(s) == \A r \in Sessions \ {s} : run'[r] = run[r]

LEMMA OthersServe ==
  ASSUME NEW s \in Sessions, Confined(s), RunsAlone(s), NEW r \in Sessions \ {s}, Serves(r)
  PROVE  Serves(r)'
<1>1. session'[r] = session[r] /\ worker'[r] = worker[r] /\ run'[r] = run[r] BY DEF Confined, RunsAlone
<1>2. OwnsCheckout(r) => OwnsCheckout(r)' BY <1>1 DEF OwnsCheckout, InPool, Confined, LeasedTo
<1> QED BY <1>1, <1>2 DEF Serves, Exists, Is, HasWorker

LEMMA GentleServes ==
  ASSUME NEW s \in Sessions, Gentle(s), ~run'[s].live, RunsAlone(s), \A r \in Sessions : Serves(r)
  PROVE  \A r \in Sessions : Serves(r)'
<1>1. Serves(s)' BY DEF Gentle, Serves
<1> QED BY <1>1, OthersServe DEF Gentle

\* A command that is done, or on the way back.
LEMMA RelyLittle ==
  ASSUME NEW p \in Commands,
         \/ op'[p].pc \in {"idle", "done", "exit", "allocations", "claims", "try_claims", "unrelease"}
         \/ op'[p].pc \in WayBack /\ ~run'[op'[p].s].live
  PROVE  Relies(p)'
  BY DEF Relies, Underway, SpawnClaims, HasRow, Bound, Housed, MayGiveBack, WayThere, WayBack

LEMMA RowGentle ==
  ASSUME TypeOK, NEW s \in Sessions
  PROVE  /\ UNCHANGED <<session, worker, checkout>> => Gentle(s)
         /\ UNCHANGED <<session, checkout>> => \A row : worker' = [worker EXCEPT ![s] = row]
              /\ (row.state = "none" => ~HasWorker(s)) => Gentle(s)
         /\ UNCHANGED <<worker, checkout>> => \A row : session' = [session EXCEPT ![s] = row]
              /\ (row.status = "none" => ~Exists(s)) /\ (row.status = "working" => session[s].status = "working")
              /\ (row.talk => session[s].talk) => Gentle(s)
         /\ UNCHANGED <<session, worker>> => \A c \in Checkouts : \A row : checkout' = [checkout EXCEPT ![c] = row]
              /\ (LeasedTo(checkout[c].session, c) => checkout[c].session = s) => Gentle(s)
<1> USE DEF TypeOK, Gentle, Confined, Exists, HasWorker
<1>1. UNCHANGED <<session, worker, checkout>> => Gentle(s) BY DEF LeasedTo
<1>2. ASSUME UNCHANGED <<session, checkout>>, NEW row, worker' = [worker EXCEPT ![s] = row],
             row.state = "none" => ~HasWorker(s)
      PROVE  Gentle(s)
  BY <1>2 DEF LeasedTo
<1>3. ASSUME UNCHANGED <<worker, checkout>>, NEW row, session' = [session EXCEPT ![s] = row],
             row.status = "none" => ~Exists(s), row.status = "working" => session[s].status = "working",
             row.talk => session[s].talk
      PROVE  Gentle(s)
  BY <1>3 DEF LeasedTo
<1>4. ASSUME UNCHANGED <<session, worker>>, NEW c \in Checkouts, NEW row, checkout' = [checkout EXCEPT ![c] = row],
             LeasedTo(checkout[c].session, c) => checkout[c].session = s
      PROVE  Gentle(s)
  BY <1>4 DEF LeasedTo
<1> QED BY <1>1, <1>2, <1>3, <1>4

LEMMA IncarnationGentle ==
  ASSUME TypeOK, NEW s \in Sessions, NEW i
  PROVE  /\ \A l : Bind(s, i, l) \/ ClaimWithLease(s, i, l) => Gentle(s)
         /\ ClaimCleanup(s, i) \/ ClaimRelease(s, i) \/ CompleteFinalization(s, i) => Gentle(s)
         /\ \A claimed : AbortClaim(s, i, claimed) \/ CompleteClaim(s, i, claimed) => Gentle(s)
         /\ \A p : ClaimStart(p, s, i) => Gentle(s)
         /\ \A k : AbortStart(s, i, k) \/ CompleteStart(s, i, k) => Gentle(s)
<1>w. worker[s] \in WorkerRow /\ session[s] \in SessionRow BY DEF TypeOK
<1>1. ASSUME NEW l, Bind(s, i, l) PROVE Gentle(s)
  BY <1>1, <1>w, RowGentle DEF Bind, Settled, WorkerRow
<1>2. ASSUME NEW l, ClaimWithLease(s, i, l) PROVE Gentle(s)
  BY <1>2, <1>w, RowGentle DEF ClaimWithLease, WorkerRow
<1>3. ASSUME NEW state, state # "none", Move(s, state), UNCHANGED <<session, checkout>> PROVE Gentle(s)
  <2>1. [worker[s] EXCEPT !.state = state].state # "none" BY <1>3, <1>w DEF WorkerRow
  <2>2. worker' = [worker EXCEPT ![s] = [worker[s] EXCEPT !.state = state]] BY <1>3 DEF Move
  <2> QED BY <1>3, <2>1, <2>2, RowGentle
<1>4. CASE ClaimCleanup(s, i) \/ ClaimRelease(s, i)
  BY <1>3, <1>4 DEF ClaimCleanup, ClaimRelease, ClaimState
<1>5. CASE CompleteFinalization(s, i)
  <2>1. worker' = [worker EXCEPT ![s] = Settled(s, "retained")] /\ UNCHANGED checkout
    BY <1>5 DEF CompleteFinalization
  <2>2. \E status \in {"done", "terminated"} : session' = [session EXCEPT ![s].status = status]
    BY <1>5, <1>w DEF CompleteFinalization, SessionRow, TypeOK
  <2>3. Settled(s, "retained").state = "retained" BY <1>w DEF Settled, WorkerRow
  <2>4. worker'[s].state = "retained" /\ session'[s].status \in {"done", "terminated"}
        /\ session'[s].talk = session[s].talk
    BY <2>1, <2>2, <2>3, <1>w DEF TypeOK, SessionRow
  <2>5. \A r \in Sessions \ {s} : worker'[r] = worker[r] /\ session'[r] = session[r]
    BY <2>1, <2>2 DEF TypeOK
  <2> QED BY <2>1, <2>4, <2>5 DEF Gentle, Confined, LeasedTo, Exists, HasWorker
<1>6. ASSUME NEW claimed, AbortClaim(s, i, claimed) PROVE Gentle(s) BY <1>3, <1>6 DEF AbortClaim
<1>7. ASSUME NEW claimed, CompleteClaim(s, i, claimed) PROVE Gentle(s)
  BY <1>7, <1>w, RowGentle DEF CompleteClaim, Settled, WorkerRow
<1>8. ASSUME NEW p, ClaimStart(p, s, i) PROVE Gentle(s) BY <1>8, RowGentle DEF ClaimStart
<1>9. ASSUME NEW k, AbortStart(s, i, k) PROVE Gentle(s) BY <1>9, RowGentle DEF AbortStart
<1>10. ASSUME NEW k, CompleteStart(s, i, k) PROVE Gentle(s) BY <1>3, <1>10 DEF CompleteStart
<1> QED BY <1>1, <1>2, <1>4, <1>5, <1>6, <1>7, <1>8, <1>9, <1>10

LEMMA SessionGentle ==
  ASSUME TypeOK, NEW s \in Sessions
  PROVE  /\ \A t, c : UpdateSpawningWorkspace(s, t, c) \/ TerminalizeSpawning(s, t, c) => Gentle(s)
         /\ \A t : \A status \in {"terminated", "done"} : UpdateStatus(s, t, status) => Gentle(s)
         /\ \A p, t : Prepare(p, s, t) => Gentle(s)
         /\ Exists(s) => \A c : UpsertSession(s, [session[s] EXCEPT !.ws = c]) => Gentle(s)
         /\ Exists(s) => \A status \in {"terminated", "done"} :
              UpsertSession(s, [session[s] EXCEPT !.status = status]) => Gentle(s)
         /\ BeginFinalization(s) => Gentle(s)
         /\ \A t : ClaimSnapshot(s, t) => Gentle(s)
<1>w. worker[s] \in WorkerRow /\ session[s] \in SessionRow BY DEF TypeOK
<1>1. ASSUME Exists(s), NEW c, UpsertSession(s, [session[s] EXCEPT !.ws = c]) PROVE Gentle(s)
  BY <1>1, <1>w, RowGentle DEF UpsertSession, SessionRow, Exists
<1>2. ASSUME Exists(s), NEW status \in {"terminated", "done"},
             UpsertSession(s, [session[s] EXCEPT !.status = status])
      PROVE  Gentle(s)
  BY <1>2, <1>w, RowGentle DEF UpsertSession, SessionRow
<1>3. ASSUME NEW t, NEW c, UpdateSpawningWorkspace(s, t, c) PROVE Gentle(s)
  BY <1>1, <1>3 DEF UpdateSpawningWorkspace, CanUpdateSpawning, Exists
<1>4. ASSUME NEW t, NEW c, TerminalizeSpawning(s, t, c) PROVE Gentle(s)
  BY <1>4, <1>w, RowGentle DEF TerminalizeSpawning, UpsertSession, SessionRow
<1>5. ASSUME NEW t, NEW status \in {"terminated", "done"}, UpdateStatus(s, t, status) PROVE Gentle(s)
  BY <1>2, <1>5 DEF UpdateStatus, CanUpdateStatus
<1>6. ASSUME NEW p, NEW t, Prepare(p, s, t) PROVE Gentle(s)
  <2>1. /\ \A r \in Sessions \ {s} : worker'[r] = worker[r] /\ session'[r] = session[r]
        /\ worker'[s].state = "allocating" /\ session'[s].status = session[s].status
        /\ session'[s].talk = session[s].talk
    BY <1>6, <1>w DEF Prepare, TypeOK, SessionRow
  <2>2. \A c \in Checkouts : checkout'[c].state = checkout[c].state /\ checkout'[c].session = checkout[c].session
    BY <1>6 DEF Prepare, TypeOK, CheckoutRow
  <2> QED BY <2>1, <2>2 DEF Gentle, Confined, LeasedTo, Exists, HasWorker
<1>7. \A state : Adopted(s, state).state = state BY DEF Adopted
<1>8. CASE BeginFinalization(s)
  <2>1. ToFinalize(s).state # "none" BY <1>7 DEF ToFinalize, FinalState, HasWorker
  <2> QED BY <1>8, <2>1, RowGentle DEF BeginFinalization
<1>9. ASSUME NEW t, ClaimSnapshot(s, t) PROVE Gentle(s)
  <2>1. CASE HasWorker(s) BY <1>9, <1>w, <2>1, RowGentle DEF ClaimSnapshot, WorkerRow
  <2>2. CASE ~HasWorker(s) BY <1>7, <1>9, <2>2, RowGentle DEF ClaimSnapshot
  <2> QED BY <2>1, <2>2
<1> QED BY <1>1, <1>2, <1>3, <1>4, <1>5, <1>6, <1>8, <1>9

\* What is not leased, or to s.
LEMMA PoolGentle ==
  ASSUME TypeOK, NEW s \in Sessions, NEW c \in Checkouts
  PROVE  /\ \A i : ClaimFree(s, i, c) \/ Reserve(s, i, c) => Gentle(s)
         /\ \A i, l : FinalizeCheckout(s, i, l, c) \/ ReleaseCheckout(s, i, l, c) => Gentle(s)
         /\ \A i, l : Quarantine(s, i, l, c) \/ RemoveMissing(s, i, l, c) \/ RemoveFailed(s, i, l, c) => Gentle(s)
         /\ RecoverQuarantined(c) \/ RemoveQuarantined(c) => Gentle(s)
         /\ \A r, i, l : checkout[c].state = "provisioning" /\ Quarantine(r, i, l, c) => Gentle(s)
         /\ \A i, l : GiveBack(s, i, l, c) => Gentle(s)
<1>1. ASSUME NEW row, SetCheckout(c, row), checkout[c].state # "leased" \/ checkout[c].session = s PROVE Gentle(s)
  BY <1>1, RowGentle DEF SetCheckout, LeasedTo
<1>2. ASSUME NEW i, ClaimFree(s, i, c) \/ Reserve(s, i, c) PROVE Gentle(s)
  BY <1>1, <1>2 DEF ClaimFree, Reserve, Take, CanTake
<1>3. ASSUME NEW i, NEW l, \/ FinalizeCheckout(s, i, l, c) \/ ReleaseCheckout(s, i, l, c) \/ Quarantine(s, i, l, c)
                           \/ RemoveMissing(s, i, l, c) \/ RemoveFailed(s, i, l, c)
      PROVE  Gentle(s)
  BY <1>1, <1>3 DEF FinalizeCheckout, CanFinalizeCheckout, ReleaseCheckout, CanReleaseCheckout, Quarantine,
     RemoveMissing, RemoveFailed, CanQuarantine, Owns
<1>4. CASE RecoverQuarantined(c) \/ RemoveQuarantined(c)
  BY <1>1, <1>4 DEF RecoverQuarantined, RemoveQuarantined
<1>5. ASSUME NEW r, NEW i, NEW l, checkout[c].state = "provisioning", Quarantine(r, i, l, c) PROVE Gentle(s)
  BY <1>1, <1>5 DEF Quarantine
<1>6. ASSUME NEW i, NEW l, GiveBack(s, i, l, c) PROVE Gentle(s)
  BY <1>3, <1>6, RowGentle DEF GiveBack, Keep, db
<1> QED BY <1>2, <1>3, <1>4, <1>5, <1>6

-----------------------------------------------------------------------------
(* The steps, one by one.                                                      *)

Served(p) == (\A s \in Sessions : Serves(s)') /\ Relies(p)'
Goes(p, pc) == /\ Same(p, pc) /\ op'[p].row = op[p].row /\ op'[p].c = op[p].c
               /\ op'[p].note = op[p].note /\ op'[p].left = op[p].left /\ op'[p].dead = op[p].dead

LEMMA GoGoes ==
  ASSUME op \in [Commands -> OpRec], NEW p \in Commands
  PROVE  \A pc : Go(p, pc) => Goes(p, pc)
<1> SUFFICES ASSUME NEW pc, Go(p, pc) PROVE Goes(p, pc) OBVIOUS
<1>1. op'[p] = [op[p] EXCEPT !.pc = pc] /\ op[p] \in OpRec BY DEF Go, Set
<1> QED BY <1>1 DEF OpRec, Same, Goes

\* What most steps need.
LEMMA StepFacts ==
  ASSUME OpsInv, Serving, NEW p \in Commands
  PROVE  /\ TypeOK /\ op \in [Commands -> OpRec] /\ run \in [Sessions -> RunRow]
         /\ op[p] \in OpRec /\ Fits(op[p], next) /\ Relies(p)
         /\ ~Away(op[p]) => op[p].s \in Sessions
         /\ \A s \in Sessions : Serves(s)
         /\ \A s \in Sessions : Gentle(s) /\ ~run[s].live /\ UNCHANGED run => \A r \in Sessions : Serves(r)'
         /\ End(p) => Relies(p)'
         /\ \A pc \in WayBack : (Go(p, pc) \/ \E note : GoNote(p, pc, note)) /\ UNCHANGED run
              /\ ~run[op[p].s].live => Relies(p)'
<1>t. /\ TypeOK /\ op \in [Commands -> OpRec] /\ run \in [Sessions -> RunRow]
      /\ op[p] \in OpRec /\ Fits(op[p], next)
  BY DEF OpsInv, OpsTypeOK
<1>1. ASSUME NEW s \in Sessions, Gentle(s), ~run[s].live, UNCHANGED run, NEW r \in Sessions PROVE Serves(r)'
  <2>1. RunsAlone(s) /\ ~run'[s].live BY <1>1 DEF RunsAlone
  <2> QED BY <1>1, <2>1, GentleServes DEF Serving
<1>2. End(p) => Relies(p)'
  <2>1. End(p) => op'[p].pc \in {"done", "exit"} BY <1>t, EndRecord
  <2> QED BY <2>1, RelyLittle
<1>3. ASSUME NEW pc \in WayBack, Go(p, pc) \/ (\E note : GoNote(p, pc, note)), UNCHANGED run, ~run[op[p].s].live
      PROVE  Relies(p)'
  <2>1. Same(p, pc) BY <1>3, <1>t, GoSame
  <2> QED BY <1>3, <2>1, RelyLittle DEF Same
<1>4. ~Away(op[p]) => op[p].s \in Sessions BY <1>t DEF Fits
<1> QED BY <1>t, <1>1, <1>2, <1>3, <1>4 DEF Serving

\* The row of a session without an agent goes, or is marked done.
LEMMA RowDeleted ==
  ASSUME OpsInv, Serving, NEW s \in Sessions, ~run[s].live, UNCHANGED <<run, checkout>>,
         session' = [session EXCEPT ![s] = NoRow], \A r \in Sessions \ {s} : worker'[r] = worker[r]
  PROVE  \A r \in Sessions : Serves(r)'
<1>1. session \in [Sessions -> SessionRow] BY DEF OpsInv, OpsTypeOK, TypeOK
<1>2. Serves(s)' BY <1>1 DEF Serves, NoRow
<1>3. Confined(s) /\ RunsAlone(s) BY <1>1 DEF Confined, RunsAlone, LeasedTo
<1> QED BY <1>2, <1>3, OthersServe DEF Serving

LEMMA RowDone ==
  ASSUME OpsInv, Serving, NEW s \in Sessions, ~run[s].live, UNCHANGED <<run, checkout, worker>>,
         NEW row \in SessionRow, session' = [session EXCEPT ![s] = [row EXCEPT !.status = "done"]]
  PROVE  \A r \in Sessions : Serves(r)'
<1>1. session \in [Sessions -> SessionRow] BY DEF OpsInv, OpsTypeOK, TypeOK
<1>2. session'[s].status = "done" BY <1>1 DEF SessionRow
<1>3. Serves(s)' BY <1>2 DEF Serves, Exists
<1>4. Confined(s) /\ RunsAlone(s) BY <1>1 DEF Confined, RunsAlone, LeasedTo
<1> QED BY <1>3, <1>4, OthersServe DEF Serving

\* On the way back.
LEMMA BackServes ==
  ASSUME OpsInv, Serving, NEW p \in Commands,
         \/ Rollback(p) \/ Undo(p) \/ Settle(p) \/ Mark(p) \/ Unclaim(p) \/ Unspawn(p) \/ FailedRow(p)
         \/ RefileReclaim(p) \/ RefileRetain(p) \/ FinalizeFinish(p) \/ ReleaseFree(p) \/ RemoveDetach(p)
         \/ RemoveRecord(p) \/ RemoveSettle(p)
  PROVE  Served(p)
<1>0. op[p].pc \in WayBack /\ UNCHANGED run
  <2> USE DEF WayBack, At
  <2>1. CASE Rollback(p) BY <2>1 DEF Rollback
  <2>2. CASE Undo(p) BY <2>2 DEF Undo
  <2>3. CASE Settle(p) BY <2>3 DEF Settle
  <2>4. CASE Mark(p) BY <2>4 DEF Mark
  <2>5. CASE Unclaim(p) BY <2>5 DEF Unclaim
  <2>6. CASE Unspawn(p) BY <2>6 DEF Unspawn
  <2>7. CASE FailedRow(p) BY <2>7 DEF FailedRow
  <2>8. CASE RefileReclaim(p) BY <2>8 DEF RefileReclaim
  <2>9. CASE RefileRetain(p) BY <2>9 DEF RefileRetain
  <2>10. CASE FinalizeFinish(p) BY <2>10 DEF FinalizeFinish
  <2>11. CASE ReleaseFree(p) BY <2>11 DEF ReleaseFree
  <2>12. CASE RemoveDetach(p) BY <2>12 DEF RemoveDetach
  <2>13. CASE RemoveRecord(p) BY <2>13 DEF RemoveRecord
  <2>14. CASE RemoveSettle(p) BY <2>14 DEF RemoveSettle
  <2> QED BY <2>1, <2>2, <2>3, <2>4, <2>5, <2>6, <2>7, <2>8, <2>9, <2>10, <2>11, <2>12, <2>13, <2>14
<1>s. PICK s \in Sessions : s = op[p].s
  <2>1. ~Away(op[p]) BY <1>0 DEF WayBack, Away
  <2> QED BY <2>1, StepFacts
<1>f. /\ TypeOK /\ op \in [Commands -> OpRec] /\ op[p] \in OpRec /\ Fits(op[p], next)
      /\ (End(p) => Relies(p)')
  BY StepFacts
<1>a. ~run[s].live BY <1>0, <1>s, StepFacts DEF Relies
<1>b. ASSUME NEW pc \in WayBack \cup {"unrelease"}, Go(p, pc) \/ (\E note : GoNote(p, pc, note))
      PROVE  Relies(p)'
  <2>1. CASE pc \in WayBack BY <1>0, <1>s, <1>a, <1>b, <2>1, StepFacts
  <2>2. CASE pc = "unrelease" BY <1>b, <1>f, <2>2, GoSame, RelyLittle DEF Same
  <2> QED BY <2>1, <2>2
<1>g. Gentle(s) => \A r \in Sessions : Serves(r)' BY <1>0, <1>a, StepFacts
<1>k. Keep => Gentle(s) BY <1>f, RowGentle DEF Keep, db
<1>i. /\ \A l : ClaimWithLease(s, op[p].i, l) => Gentle(s)
      /\ ClaimCleanup(s, op[p].i) \/ CompleteFinalization(s, op[p].i) => Gentle(s)
      /\ \A claimed : AbortClaim(s, op[p].i, claimed) \/ CompleteClaim(s, op[p].i, claimed) => Gentle(s)
      /\ \A k : AbortStart(s, op[p].i, k) => Gentle(s)
  BY <1>f, IncarnationGentle
<1>p. \A c \in Checkouts : \A i, l :
        GiveBack(s, i, l, c) \/ ReleaseCheckout(s, i, l, c) \/ RemoveMissing(s, i, l, c) => Gentle(s)
  BY <1>f, PoolGentle
<1> USE DEF Served, At
<1>1. CASE Rollback(p)
  <2>1. Gentle(s) BY <1>1, <1>i, <1>k, <1>s DEF Rollback, WayBack
  <2>2. End(p) \/ (\E pc \in WayBack : Go(p, pc)) BY <1>1 DEF Rollback, WayBack
  <2> QED BY <1>f, <1>b, <1>g, <2>1, <2>2
<1>2. CASE Undo(p)
  <2>2. op[p].c \in Checkouts BY <1>2, <1>f DEF Undo, Fits
  <2>3. Gentle(s) /\ Go(p, "settle") BY <1>2, <1>p, <2>2, <1>s DEF Undo
  <2> QED BY <1>b, <1>g, <2>3 DEF WayBack
<1>3. CASE Settle(p)
  <2>1. Gentle(s) BY <1>3, <1>i, <1>k, <1>s DEF Settle, WayBack
  <2>2. End(p) \/ (\E pc \in WayBack : Go(p, pc)) BY <1>3 DEF Settle, WayBack
  <2> QED BY <1>f, <1>b, <1>g, <2>1, <2>2
<1>4. CASE Mark(p)
  <2>1. End(p) BY <1>4 DEF Mark, WayBack
  <2>2. \/ \E t, c : TerminalizeSpawning(s, t, c)
        \/ \E t : UpdateStatus(s, t, "terminated")
        \/ Keep
    BY <1>4, <1>s DEF Mark
  <2>3. Gentle(s) BY <1>a, <1>f, <1>k, <2>1, <2>2, SessionGentle
  <2> QED BY <1>f, <1>g, <2>1, <2>3
<1>5. CASE Unclaim(p)
  <2>1. Gentle(s) BY <1>5, <1>i, <1>k, <1>s DEF Unclaim, WayBack
  <2>2. End(p) \/ (\E pc \in WayBack : Go(p, pc)) BY <1>5 DEF Unclaim, WayBack
  <2> QED BY <1>f, <1>b, <1>g, <2>1, <2>2
<1>6. CASE Unspawn(p)
  <2>1. End(p) BY <1>6 DEF Unspawn, WayBack
  <2>2. CASE Keep BY <1>f, <1>g, <1>k, <2>1, <2>2
  <2>3. ASSUME NEW t, DeleteSpawning(s, t) PROVE \A r \in Sessions : Serves(r)'
    BY <1>0, <1>a, <2>3, RowDeleted DEF DeleteSpawning, UpsertSession
  <2> QED BY <1>6, <1>f, <2>1, <2>2, <2>3, <1>s DEF Unspawn
<1>7. CASE FailedRow(p)
  <2>2. \/ Exists(s) /\ \E status \in {"terminated", "done"} : UpsertSession(s, [session[s] EXCEPT !.status = status])
        \/ Keep
    BY <1>7, <1>s DEF FailedRow
  <2>3. Gentle(s) BY <1>f, <1>k, <2>2, SessionGentle
  <2>4. End(p) \/ (\E pc \in WayBack : Go(p, pc)) BY <1>7 DEF FailedRow, WayBack
  <2> QED BY <1>f, <1>b, <1>g, <2>3, <2>4
<1>8. CASE RefileReclaim(p)
  <2>1. Gentle(s) BY <1>8, <1>i, <1>k, <1>s DEF RefileReclaim, WayBack
  <2>2. End(p) \/ (\E pc \in WayBack : Go(p, pc)) BY <1>8 DEF RefileReclaim, WayBack
  <2> QED BY <1>f, <1>b, <1>g, <2>1, <2>2
<1>9. CASE RefileRetain(p)
  <2>1. Gentle(s) BY <1>9, <1>i, <1>k, <1>s DEF RefileRetain, WayBack
  <2> QED BY <1>9, <1>f, <1>g, <2>1 DEF RefileRetain
<1>10. CASE FinalizeFinish(p)
  <2>1. Gentle(s) BY <1>10, <1>i, <1>k, <1>s DEF FinalizeFinish, WayBack
  <2> QED BY <1>10, <1>f, <1>g, <2>1 DEF FinalizeFinish
<1>11. CASE ReleaseFree(p)
  <2>2. Keep \/ \E c \in Checkouts : \E i, l : ReleaseCheckout(s, i, l, c) \/ RemoveMissing(s, i, l, c)
    BY <1>11, <1>s, Zenon DEF ReleaseFree, LeasesOf
  <2>3. Gentle(s) BY <1>k, <1>p, <2>2
  <2>4. Go(p, "released") \/ Go(p, "unrelease") BY <1>11 DEF ReleaseFree
  <2> QED BY <1>b, <1>g, <2>3, <2>4 DEF WayBack
<1>12. CASE RemoveDetach(p)
  <2>1. Go(p, "record") BY <1>12 DEF RemoveDetach, WayBack
  <2>2. Keep \/ \E c \in Checkouts : \E i, l : GiveBack(s, i, l, c) BY <1>12, <1>s DEF RemoveDetach, LeasesOf
  <2>3. Gentle(s) BY <1>k, <1>p, <2>1, <2>2
  <2> QED BY <1>b, <1>g, <2>1, <2>3 DEF WayBack
<1>13. CASE RemoveRecord(p)
  <2>1. Go(p, "unclaim_row") BY <1>13 DEF RemoveRecord, WayBack
  <2>2. CASE DeleteSession(s)
    <3>1. \A r \in Sessions \ {s} : worker'[r] = worker[r] BY <1>f, <2>2 DEF DeleteSession, TypeOK
    <3>2. \A r \in Sessions : Serves(r)' BY <1>0, <1>a, <2>2, <3>1, RowDeleted DEF DeleteSession
    <3> QED BY <1>b, <2>1, <3>2 DEF WayBack
  <2>3. CASE UpsertSession(s, [op[p].row EXCEPT !.status = "done"])
    <3>1. op[p].row \in SessionRow BY <1>f DEF OpRec
    <3>2. \A r \in Sessions : Serves(r)' BY <1>0, <1>a, <2>3, <3>1, RowDone DEF UpsertSession
    <3> QED BY <1>b, <2>1, <3>2 DEF WayBack
  <2> QED BY <1>13, <2>2, <2>3, <1>s DEF RemoveRecord
<1>14. CASE RemoveSettle(p)
  <2>1. Gentle(s) BY <1>14, <1>i, <1>k, <1>s DEF RemoveSettle, WayBack
  <2> QED BY <1>14, <1>f, <1>g, <2>1 DEF RemoveSettle
<1> QED BY <1>1, <1>2, <1>3, <1>4, <1>5, <1>6, <1>7, <1>8, <1>9, <1>10, <1>11, <1>12, <1>13, <1>14

\* On the way to a launch.
RowAfter(s) == session'[s].status # "none"
RunnableAfter(s, i) == worker'[s].id = i /\ worker'[s].state \in Launchable
LeasedAfter(s, c) == checkout'[c].state = "leased" /\ checkout'[c].session = s

LEMMA RelyThere ==
  ASSUME NEW p \in Commands, op'[p].pc \in WayThere \/ SpawnClaims(p)',
         ~run'[op'[p].s].live, RowAfter(op'[p].s),
         Bound(p)' => RunnableAfter(op'[p].s, op'[p].i),
         Housed(p)' /\ op'[p].row.ws \in Checkouts => LeasedAfter(op'[p].s, op'[p].row.ws),
         op'[p].pc \in {"workspace", "rehome"} => LeasedAfter(op'[p].s, op'[p].c),
         op'[p].pc = "visit" => \A seen \in op'[p].left : checkout'[seen[1]] = seen[2]
  PROVE  Relies(p)'
<1>1. op'[p].pc \notin WayBack \cup {"stop", "unremove", "try_allocations"}
  BY DEF WayThere, WayBack, SpawnClaims
<1>2. Exists(op[p].s)' BY DEF RowAfter, Exists
<1>3. Bound(p)' => CanBeRun(op[p].s, op[p].i)'
  BY DEF RunnableAfter, CanBeRun, Is, HasWorker, Launchable
<1>4. Housed(p)' /\ op'[p].row.ws \in Checkouts => LeasedTo(op[p].s, op[p].row.ws)'
  BY DEF LeasedAfter, LeasedTo
<1>5. op'[p].pc \in {"workspace", "rehome"} => LeasedTo(op[p].s, op[p].c)' BY DEF LeasedAfter, LeasedTo
<1> QED BY <1>1, <1>2, <1>3, <1>4, <1>5 DEF Relies, MayGiveBack

LEMMA ThereFacts ==
  ASSUME OpsInv, Serving, NEW p \in Commands, Underway(p), UNCHANGED run, NEW s, s = op[p].s
  PROVE  /\ s \in Sessions /\ ~run[s].live /\ ~run'[s].live
         /\ Exists(s) /\ TypeOK /\ op[p] \in OpRec /\ op \in [Commands -> OpRec]
         /\ Gentle(s) => RowAfter(s) /\ \A r \in Sessions : Serves(r)'
         /\ Keep => Gentle(s)
         /\ End(p) => Relies(p)'
         /\ \A pc \in WayBack : Go(p, pc) \/ (\E note : GoNote(p, pc, note)) => Relies(p)'
         /\ NotAcquired(p) => Relies(p)'
<1>1. /\ TypeOK /\ op[p] \in OpRec /\ op \in [Commands -> OpRec] /\ Fits(op[p], next) /\ Relies(p)
      /\ (~Away(op[p]) => op[p].s \in Sessions) /\ (End(p) => Relies(p)')
  BY StepFacts
<1>2. ~Away(op[p]) BY DEF Underway, SpawnClaims, WayThere, Away
<1>3. ~run[s].live /\ ~run'[s].live /\ Exists(s) BY <1>1 DEF Relies, HasRow
<1>4. Gentle(s) => RowAfter(s) /\ \A r \in Sessions : Serves(r)'
  <2>1. Gentle(s) => RowAfter(s) BY <1>3 DEF Gentle, RowAfter, Exists
  <2> QED BY <1>1, <1>2, <1>3, <2>1, StepFacts
<1>5. Keep => Gentle(s) BY <1>1, <1>2, RowGentle DEF Keep, db
<1>6. \A pc \in WayBack : Go(p, pc) \/ (\E note : GoNote(p, pc, note)) => Relies(p)'
  BY <1>3, StepFacts
<1>7. NotAcquired(p) => Relies(p)'
  <2>1. NotAcquired(p) => Same(p, "rollback") BY <1>1, NotAcquiredSame
  <2> QED BY <1>3, <2>1, RelyLittle DEF Same, WayBack
<1> QED BY <1>1, <1>2, <1>3, <1>4, <1>5, <1>6, <1>7

LEMMA ThereServes ==
  ASSUME OpsInv, LaunchInv, Serving, NEW p \in Commands,
         \/ SpawnPrepare(p) \/ SpawnWorkspace(p) \/ BindLease(p) \/ SpawnWorking(p) \/ SpawnClaim(p)
         \/ RefilePrepare(p) \/ RefileFind(p) \/ RefileRehome(p) \/ Ensure(p)
  PROVE  Served(p)
<1>0. Underway(p) /\ UNCHANGED run
  <2> USE DEF Underway, SpawnClaims, WayThere, At
  <2>1. CASE SpawnPrepare(p) BY <2>1 DEF SpawnPrepare
  <2>2. CASE SpawnWorkspace(p) BY <2>2 DEF SpawnWorkspace
  <2>3. CASE BindLease(p) BY <2>3 DEF BindLease
  <2>4. CASE SpawnWorking(p) BY <2>4 DEF SpawnWorking
  <2>5. CASE SpawnClaim(p) BY <2>5 DEF SpawnClaim
  <2>6. CASE RefilePrepare(p) BY <2>6 DEF RefilePrepare
  <2>7. CASE RefileFind(p) BY <2>7 DEF RefileFind
  <2>8. CASE RefileRehome(p) BY <2>8 DEF RefileRehome
  <2>9. CASE Ensure(p) BY <2>9 DEF Ensure
  <2> QED BY <2>1, <2>2, <2>3, <2>4, <2>5, <2>6, <2>7, <2>8, <2>9
<1>s. PICK s \in Sessions : s = op[p].s
  <2>1. ~Away(op[p]) BY <1>0 DEF Underway, SpawnClaims, WayThere, Away
  <2> QED BY <2>1, StepFacts
<1>f. /\ ~run'[s].live /\ Exists(s) /\ TypeOK /\ op[p] \in OpRec /\ op \in [Commands -> OpRec]
      /\ (End(p) => Relies(p)') /\ (Keep => Gentle(s))
      /\ (Gentle(s) => RowAfter(s) /\ \A r \in Sessions : Serves(r)')
      /\ \A pc \in WayBack : Go(p, pc) \/ (\E note : GoNote(p, pc, note)) => Relies(p)'
  BY <1>0, <1>s, ThereFacts
<1>r. Relies(p) /\ KindFits(p) BY DEF Serving, LaunchInv
<1>l. \A c : UNCHANGED checkout /\ LeasedTo(s, c) => LeasedAfter(s, c) BY DEF LeasedTo, LeasedAfter
<1>u. \A i : UNCHANGED worker /\ CanBeRun(s, i) => RunnableAfter(s, i) BY DEF CanBeRun, Is, RunnableAfter
<1>g. \A pc : Go(p, pc) => Goes(p, pc) BY <1>f, GoGoes
<1> USE DEF Served, At
\* Steps to where nothing is relied on but the row.
<1>n. ASSUME Gentle(s), op'[p].s = s, op'[p].pc \in {"prepare", "scan", "create", "find"}
             \/ (op'[p].pc = "ensure" /\ op'[p].cmd = "refile")
      PROVE  Served(p)
  BY <1>f, <1>n, RelyThere DEF WayThere, Bound, Housed, SpawnClaims
<1>1. CASE SpawnPrepare(p)
  <2>1. CASE Prepare(p, s, op[p].row.started) /\ Set(p, [op[p] EXCEPT !.pc = "scan", !.i = next])
    <3>1. Gentle(s) BY <1>f, <2>1, SessionGentle
    <3>2. op'[p].pc = "scan" /\ op'[p].s = s BY <1>s, <1>f, <2>1 DEF Set, OpRec
    <3> QED BY <1>n, <3>1, <3>2
  <2>2. CASE Keep /\ Go(p, "unspawn") BY <1>f, <2>2 DEF WayBack
  <2> QED BY <1>s, <1>1, <2>1, <2>2 DEF SpawnPrepare
<1>2. CASE SpawnWorkspace(p)
  <2>1. CASE UpdateSpawningWorkspace(s, op[p].row.started, op[p].c) /\ Set(p, [op[p] EXCEPT !.pc = "bind", !.row.ws = op[p].c])
    <3>1. Gentle(s) /\ UNCHANGED checkout BY <1>f, <2>1, SessionGentle DEF UpdateSpawningWorkspace, UpsertSession
    <3>2. op'[p].pc = "bind" /\ op'[p].s = s /\ op'[p].row.ws = op[p].c
      BY <1>s, <1>f, <2>1 DEF Set, OpRec, SessionRow
    <3>3. LeasedTo(s, op[p].c) BY <1>s, <1>2, <1>r DEF SpawnWorkspace, Relies
    <3>4. LeasedAfter(s, op[p].c) => Relies(p)'
      BY <1>f, <3>1, <3>2, RelyThere DEF WayThere, Bound, SpawnClaims
    <3> QED BY <1>f, <1>l, <3>1, <3>3, <3>4
  <2>2. CASE Keep /\ GoNote(p, "rollback", "none") BY <1>f, <2>2 DEF WayBack
  <2> QED BY <1>s, <1>2, <2>1, <2>2 DEF SpawnWorkspace
<1>3. CASE BindLease(p)
  <2>1. ASSUME NEW l, NEW pc \in {"working", "launch"}, Bind(s, op[p].i, l), Go(p, pc) PROVE Served(p)
    <3>1. Gentle(s) /\ UNCHANGED checkout BY <1>f, <2>1, IncarnationGentle DEF Bind
    <3>2. Goes(p, pc) BY <1>g, <2>1
    <3>3. RunnableAfter(s, op[p].i)
      BY <1>f, <2>1 DEF Bind, CanBind, Is, RunnableAfter, Launchable, Settled, TypeOK, WorkerRow
    <3>4. op[p].row.ws \in Checkouts => LeasedTo(s, op[p].row.ws) BY <1>s, <1>3, <1>r DEF BindLease, Relies, Housed
    <3>5. op[p].row.ws \in Checkouts => LeasedAfter(s, op[p].row.ws) BY <1>l, <3>1, <3>4
    <3>6. Relies(p)' BY <1>s, <1>f, <2>1, <3>1, <3>2, <3>3, <3>5, RelyThere DEF Goes, Same, WayThere
    <3> QED BY <1>f, <3>1, <3>6
  <2>2. CASE Keep /\ GoNote(p, "rollback", "none") BY <1>f, <2>2 DEF WayBack
  <2> QED BY <1>s, <1>3, <2>1, <2>2 DEF BindLease
<1>4. CASE SpawnWorking(p)
  <2>1. CASE UpsertSession(s, [op[p].row EXCEPT !.status = "working", !.talk = TRUE]) /\ Go(p, "claim")
    <3>1. op[p].row \in SessionRow BY <1>f DEF OpRec
    <3>2. session'[s].status = "working" /\ \A r \in Sessions \ {s} : session'[r] = session[r]
      BY <1>f, <2>1, <3>1 DEF UpsertSession, TypeOK, SessionRow
    <3>3. UNCHANGED <<worker, checkout>> BY <2>1 DEF UpsertSession
    <3>4. CanBeRun(s, op[p].i) BY <1>s, <1>4, <1>r DEF SpawnWorking, Relies, Bound
    <3>5. RunnableAfter(s, op[p].i) BY <1>u, <3>3, <3>4
    <3>6. Serves(s)' BY <1>f, <3>2, <3>3, <3>4 DEF Serves, Exists, CanBeRun, Is, HasWorker
    <3>7. Confined(s) /\ RunsAlone(s) BY <1>0, <3>2, <3>3 DEF Confined, LeasedTo, RunsAlone
    <3>8. \A r \in Sessions : Serves(r)' BY <1>f, <3>6, <3>7, OthersServe DEF Serving
    <3>9. Goes(p, "claim") BY <1>g, <2>1
    <3>10. op[p].row.ws \in Checkouts => LeasedTo(s, op[p].row.ws) BY <1>s, <1>4, <1>r DEF SpawnWorking, Relies, Housed
    <3>11. op[p].row.ws \in Checkouts => LeasedAfter(s, op[p].row.ws) BY <1>l, <3>3, <3>10
    <3>12. Relies(p)'
      <4>1. op'[p].pc = "claim" /\ op'[p].s = s /\ op'[p].i = op[p].i /\ op'[p].row = op[p].row
        BY <1>s, <3>9 DEF Goes, Same
      <4>2. CASE SpawnClaims(p)' BY <1>f, <3>2, <3>5, <3>11, <4>1, <4>2, RelyThere DEF RowAfter
      <4>3. CASE op'[p].cmd # "spawn"
        BY <4>1, <4>3 DEF Relies, Underway, SpawnClaims, HasRow, Bound, Housed, MayGiveBack, WayThere, WayBack
      <4> QED BY <4>1, <4>2, <4>3 DEF SpawnClaims
    <3> QED BY <3>8, <3>12
  <2>2. CASE Keep /\ GoNote(p, "rollback", "terminalize") BY <1>f, <2>2 DEF WayBack
  <2> QED BY <1>s, <1>4, <2>1, <2>2 DEF SpawnWorking
<1>5. CASE SpawnClaim(p)
  <2>1. CASE ClaimStart(p, s, op[p].i) /\ Set(p, [op[p] EXCEPT !.pc = "launch", !.k = next])
    <3>1. Gentle(s) /\ UNCHANGED <<worker, checkout>> BY <1>f, <2>1, IncarnationGentle DEF ClaimStart
    <3>2. op'[p].pc = "launch" /\ op'[p].s = s /\ op'[p].i = op[p].i /\ op'[p].row = op[p].row
      BY <1>s, <1>f, <2>1 DEF Set, OpRec
    <3>3. CanBeRun(s, op[p].i) /\ (op[p].row.ws \in Checkouts => LeasedTo(s, op[p].row.ws))
      BY <1>s, <1>5, <1>r DEF SpawnClaim, Relies, Housed, Bound, SpawnClaims
    <3>4. RunnableAfter(s, op[p].i) /\ (op[p].row.ws \in Checkouts => LeasedAfter(s, op[p].row.ws))
      BY <1>l, <1>u, <3>1, <3>3
    <3>5. Relies(p)' BY <1>f, <3>1, <3>2, <3>4, RelyThere DEF WayThere
    <3> QED BY <1>f, <3>1, <3>5
  <2>2. CASE Keep /\ End(p) BY <1>f, <2>2
  <2> QED BY <1>s, <1>5, <2>1, <2>2 DEF SpawnClaim
<1>6. CASE RefilePrepare(p)
  <2>1. CASE /\ Prepare(App, s, next)
             /\ Set(p, [op[p] EXCEPT !.pc = "find", !.i = next, !.l = Kept(s), !.row.started = next])
    <3>1. Gentle(s) BY <1>f, <2>1, SessionGentle
    <3>2. op'[p].pc = "find" /\ op'[p].s = s BY <1>s, <1>f, <2>1 DEF Set, OpRec
    <3> QED BY <1>n, <3>1, <3>2
  <2>2. CASE Keep /\ End(p) BY <1>f, <2>2
  <2> QED BY <1>s, <1>6, <2>1, <2>2 DEF RefilePrepare
<1>7. CASE RefileFind(p)
  <2>1. Keep /\ (Goes(p, "scan") \/ Goes(p, "ensure")) BY <1>7, <1>g DEF RefileFind
  <2>2. op[p].cmd = "refile" BY <1>7, <1>r DEF RefileFind, KindFits, Reaches
  <2> QED BY <1>s, <1>f, <1>n, <2>1, <2>2 DEF Goes, Same
<1>8. CASE RefileRehome(p)
  <2>1. \/ UpsertSession(s, [session[s] EXCEPT !.ws = op[p].c])
        \/ Keep
    BY <1>s, <1>8 DEF RefileRehome
  <2>2. Gentle(s) BY <1>f, <2>1, SessionGentle
  <2>3. Set(p, [op[p] EXCEPT !.pc = "ensure", !.row.ws = op[p].c]) BY <1>8 DEF RefileRehome
  <2>4. op[p].cmd = "refile" BY <1>8, <1>r DEF RefileRehome, KindFits, Reaches
  <2>5. op'[p].pc = "ensure" /\ op'[p].s = s /\ op'[p].cmd = "refile" BY <1>s, <1>f, <2>3, <2>4 DEF Set, OpRec
  <2> QED BY <1>n, <2>2, <2>5
<1>9. CASE Ensure(p)
  <2>1. op[p].pc = "ensure" /\ op[p].cmd \in {"refile", "resume"} BY <1>9, <1>r DEF Ensure, KindFits, Reaches
  <2>2. op[p].cmd = "resume" => CanBeRun(s, op[p].i) BY <1>s, <1>r, <2>1 DEF Relies, Bound
  <2>3. EnsureFails(p) => Relies(p)' BY <1>f DEF EnsureFails, WayBack
  <2>4. ASSUME NEW c \in Checkouts, NEW i, NEW l, FinalizeCheckout(s, i, l, c), Go(p, "ensure") PROVE Served(p)
    <3>1. Gentle(s) /\ UNCHANGED worker BY <1>f, <2>4, PoolGentle DEF FinalizeCheckout, SetCheckout
    <3>2. Goes(p, "ensure") BY <1>g, <2>4
    <3>3. op[p].cmd = "resume" => RunnableAfter(s, op[p].i) BY <1>u, <2>2, <3>1
    <3>4. Relies(p)' BY <1>s, <1>f, <2>1, <3>1, <3>2, <3>3, RelyThere DEF Goes, Same, WayThere, Bound, Housed, SpawnClaims
    <3> QED BY <1>f, <3>1, <3>4
  <2>5. ASSUME Keep, Go(p, IF op[p].cmd = "refile" THEN "bind" ELSE "launch"),
               op[p].row.ws \in Checkouts => LeasedTo(s, op[p].row.ws)
        PROVE  Served(p)
    <3>1. Gentle(s) /\ UNCHANGED <<worker, checkout>> BY <1>f, <2>5 DEF Keep, db
    <3>2. Goes(p, IF op[p].cmd = "refile" THEN "bind" ELSE "launch") BY <1>g, <2>5
    <3>3. op[p].cmd = "resume" => RunnableAfter(s, op[p].i) BY <1>u, <2>2, <3>1
    <3>4. op[p].row.ws \in Checkouts => LeasedAfter(s, op[p].row.ws) BY <1>l, <2>5, <3>1
    <3>5. Relies(p)' BY <1>s, <1>f, <2>1, <3>1, <3>2, <3>3, <3>4, RelyThere DEF Goes, Same, WayThere, Bound, SpawnClaims
    <3> QED BY <1>f, <3>1, <3>5
  <2>6. ASSUME NEW c \in LeasesOf(s), checkout[c].state = "provisioning",
               LET i == checkout[c].owner  l == checkout[c].lease
               IN  \/ FinalizeCheckout(s, i, l, c) /\ Go(p, "ensure")
                   \/ ~CanFinalizeCheckout(s, i, l, c) /\ Keep /\ EnsureFails(p)
                   \/ "git" \in Faults /\ (RemoveFailed(s, i, l, c) \/ Keep) /\ EnsureFails(p)
        PROVE  Served(p)
    <3>1. c \in Checkouts BY DEF LeasesOf
    <3>2. ASSUME NEW i, NEW l, RemoveFailed(s, i, l, c) PROVE Gentle(s) BY <1>f, <3>1, <3>2, PoolGentle
    <3> QED BY <1>f, <2>3, <2>4, <2>6, <3>1, <3>2
  <2>7. ASSUME NEW c \in LeasesOf(s), checkout[c].state = "leased", Keep,
               \/ c = op[p].row.ws /\ Go(p, IF op[p].cmd = "refile" THEN "bind" ELSE "launch")
               \/ EnsureFails(p)
        PROVE  Served(p)
    <3>1. LeasedTo(s, c) BY <2>7 DEF LeasesOf, LeasedTo
    <3> QED BY <1>f, <2>3, <2>5, <2>7, <3>1
  <2>8. CASE Keep /\ EnsureFails(p) BY <1>f, <2>3, <2>8
  <2>9. CASE op[p].row.ws = NoCheckout /\ Keep /\ Go(p, IF op[p].cmd = "refile" THEN "bind" ELSE "launch")
    BY <2>5, <2>9, NullAssumption
  <2> QED BY <1>s, <1>9, <2>6, <2>7, <2>8, <2>9 DEF Ensure
<1> QED BY <1>1, <1>2, <1>3, <1>4, <1>5, <1>6, <1>7, <1>8, <1>9

LEMMA AcquireServes ==
  ASSUME OpsInv, Serving, NEW p \in Commands,
         AcquireScan(p) \/ VisitProvisioning(p) \/ VisitQuarantined(p) \/ TakeCheckout(p) \/ Create(p)
  PROVE  Served(p)
<1>0. Underway(p) /\ UNCHANGED run
  <2> USE DEF Underway, SpawnClaims, WayThere, At
  <2>1. CASE AcquireScan(p) BY <2>1 DEF AcquireScan
  <2>2. CASE VisitProvisioning(p) BY <2>2 DEF VisitProvisioning
  <2>3. CASE VisitQuarantined(p) BY <2>3 DEF VisitQuarantined
  <2>4. CASE TakeCheckout(p) BY <2>4, Zenon DEF TakeCheckout
  <2>5. CASE Create(p) BY <2>5 DEF Create
  <2> QED BY <2>1, <2>2, <2>3, <2>4, <2>5
<1>s. PICK s \in Sessions : s = op[p].s
  <2>1. ~Away(op[p]) BY <1>0 DEF Underway, SpawnClaims, WayThere, Away
  <2> QED BY <2>1, StepFacts
<1>f. /\ ~run'[s].live /\ TypeOK /\ op[p] \in OpRec /\ op \in [Commands -> OpRec] /\ Fits(op[p], next)
      /\ (Keep => Gentle(s)) /\ (NotAcquired(p) => Relies(p)')
      /\ (Gentle(s) => RowAfter(s) /\ \A r \in Sessions : Serves(r)')
  BY <1>0, <1>s, ThereFacts, StepFacts
<1>k. Keep => checkout' = checkout BY DEF Keep, db
<1> USE DEF Served, At
\* The pool is visited: what is left was seen as it is.
<1>v. ASSUME op[p].pc = "visit", NEW left, Set(p, [op[p] EXCEPT !.left = left]), Gentle(s),
             \A seen \in left : checkout'[seen[1]] = seen[2]
      PROVE  Served(p)
  <2>1. op'[p].pc = "visit" /\ op'[p].s = s /\ op'[p].left = left BY <1>f, <1>s, <1>v DEF Set, OpRec
  <2> QED BY <1>f, <1>v, <2>1, RelyThere DEF WayThere, Bound, Housed, SpawnClaims
<1>o. ASSUME op[p].pc = "visit", NEW seen \in op[p].left
      PROVE  /\ seen[1] \in Checkouts /\ checkout[seen[1]] = seen[2]
             /\ \A other \in op[p].left \ {seen} :
                  other[1] \in Checkouts \ {seen[1]} /\ checkout[other[1]] = other[2]
  <2>1. \A other \in op[p].left :
          other = <<other[1], other[2]>> /\ other[1] \in Checkouts /\ checkout[other[1]] = other[2]
    <3>1. op[p].left \subseteq Checkouts \X CheckoutRow BY <1>f, <1>o DEF Fits
    <3> QED BY <1>o, <3>1, StepFacts DEF Relies
  <2> QED BY <1>o, <2>1
<1>1. CASE AcquireScan(p)
  <2> DEFINE scan == {<<c, checkout[c]>> : c \in {d \in Checkouts : checkout[d].state \in {"provisioning", "quarantined"}}}
  <2>1. Keep /\ Set(p, [op[p] EXCEPT !.pc = "visit", !.left = scan]) BY <1>1 DEF AcquireScan
  <2>2. \A seen \in scan : checkout[seen[1]] = seen[2] OBVIOUS
  <2> HIDE DEF scan
  <2>3. op'[p].pc = "visit" /\ op'[p].s = s /\ op'[p].left = scan BY <1>f, <1>s, <2>1 DEF Set, OpRec
  <2> QED BY <1>f, <1>k, <2>1, <2>2, <2>3, RelyThere DEF WayThere, Bound, Housed, SpawnClaims
<1>2. CASE VisitProvisioning(p)
  <2>v. op[p].pc = "visit" BY <1>2 DEF VisitProvisioning
  <2>1. PICK seen \in op[p].left :
          LET c == seen[1]  r == seen[2]
          IN /\ r.state = "provisioning"
             /\ \/ ~Stale(r) /\ Keep /\ Set(p, [op[p] EXCEPT !.left = op[p].left \ {seen}])
                \/ Stale(r) /\ Quarantine(r.session, r.owner, r.lease, c) /\ Leave(p, seen, checkout'[c])
                \/ Keep /\ Leave(p, seen, checkout[c])
                \/ Keep /\ NotAcquired(p)
    BY <1>2, Zenon DEF VisitProvisioning
  <2>o. /\ seen[1] \in Checkouts /\ checkout[seen[1]] = seen[2]
        /\ \A other \in op[p].left \ {seen} :
             other[1] \in Checkouts \ {seen[1]} /\ checkout[other[1]] = other[2]
    BY <1>o, <2>v
  <2>2. CASE Keep /\ Set(p, [op[p] EXCEPT !.left = op[p].left \ {seen}])
    BY <1>f, <1>k, <1>v, <2>2, <2>o, <2>v
  <2>3. ASSUME NEW row, row = checkout'[seen[1]], Gentle(s), Leave(p, seen, row),
               \A c \in Checkouts \ {seen[1]} : checkout'[c] = checkout[c]
        PROVE  Served(p)
    <3> DEFINE left == (op[p].left \ {seen}) \cup IF row.state = "quarantined" THEN {<<seen[1], row>>} ELSE {}
    <3>1. Set(p, [op[p] EXCEPT !.left = left]) BY <2>3 DEF Leave
    <3>2. \A other \in left : checkout'[other[1]] = other[2] BY <2>3, <2>o
    <3> HIDE DEF left
    <3> QED BY <1>v, <2>3, <2>v, <3>1, <3>2
  <2>4. CASE Keep /\ Leave(p, seen, checkout[seen[1]]) BY <1>f, <1>k, <2>3, <2>4
  <2>5. CASE Quarantine(seen[2].session, seen[2].owner, seen[2].lease, seen[1]) /\ Leave(p, seen, checkout'[seen[1]])
    <3>1. Gentle(s) BY <1>f, <2>1, <2>5, <2>o, PoolGentle
    <3>2. \A c \in Checkouts \ {seen[1]} : checkout'[c] = checkout[c]
      BY <1>f, <2>5, <2>o DEF Quarantine, SetCheckout, TypeOK
    <3> QED BY <2>3, <2>5, <3>1, <3>2
  <2>6. CASE Keep /\ NotAcquired(p) BY <1>f, <2>6
  <2> QED BY <2>1, <2>2, <2>4, <2>5, <2>6
<1>3. CASE VisitQuarantined(p)
  <2>v. op[p].pc = "visit" BY <1>3 DEF VisitQuarantined
  <2>1. PICK seen \in op[p].left :
          /\ Set(p, [op[p] EXCEPT !.left = op[p].left \ {seen}])
          /\ RecoverQuarantined(seen[1]) \/ RemoveQuarantined(seen[1]) \/ Keep
    BY <1>3, Zenon DEF VisitQuarantined
  <2>o. /\ seen[1] \in Checkouts
        /\ \A other \in op[p].left \ {seen} :
             other[1] \in Checkouts \ {seen[1]} /\ checkout[other[1]] = other[2]
    BY <1>o, <2>v
  <2>2. \A c \in Checkouts \ {seen[1]} : checkout'[c] = checkout[c]
    BY <1>f, <1>k, <2>1, <2>o DEF RecoverQuarantined, RemoveQuarantined, SetCheckout, TypeOK
  <2>3. Gentle(s) BY <1>f, <2>1, <2>o, PoolGentle
  <2> QED BY <1>v, <2>1, <2>2, <2>3, <2>o, <2>v
<1>4. CASE TakeCheckout(p)
  <2>1. ASSUME NEW c \in Checkouts, ClaimFree(s, op[p].i, c) \/ Reserve(s, op[p].i, c),
               \/ Set(p, [op[p] EXCEPT !.pc = "create", !.c = c])
               \/ Set(p, [op[p] EXCEPT !.pc = "create", !.c = c, !.note = "new"])
        PROVE  Served(p)
    <3>1. Gentle(s) BY <1>f, <2>1, PoolGentle
    <3>2. \/ op'[p] = [op[p] EXCEPT !.pc = "create", !.c = c]
          \/ op'[p] = [op[p] EXCEPT !.pc = "create", !.c = c, !.note = "new"]
      BY <1>f, <2>1 DEF Set
    <3>3. op'[p].pc = "create" /\ op'[p].s = s BY <1>f, <1>s, <3>2 DEF OpRec
    <3> QED BY <1>f, <3>1, <3>3, RelyThere DEF WayThere, Bound, Housed, SpawnClaims
  <2>2. CASE Keep /\ NotAcquired(p) BY <1>f, <2>2
  <2> DEFINE free == {c \in Checkouts : checkout[c].state = "free"}
  <2>3. \/ \E c \in free : ClaimFree(s, op[p].i, c) /\ Set(p, [op[p] EXCEPT !.pc = "create", !.c = c])
        \/ \E c \in Checkouts : Reserve(s, op[p].i, c) /\ Set(p, [op[p] EXCEPT !.pc = "create", !.c = c, !.note = "new"])
        \/ Keep /\ NotAcquired(p)
    BY <1>s, <1>4, Zenon DEF TakeCheckout
  <2> QED BY <2>1, <2>2, <2>3, Zenon
<1>5. CASE Create(p)
  <2>c. op[p].c \in Checkouts BY <1>5, <1>f DEF Create, Fits
  <2>1. CASE FinalizeCheckout(s, op[p].i, op[p].i, op[p].c) /\ Acquired(p)
    <3>1. Gentle(s) BY <1>f, <2>1, <2>c, PoolGentle
    <3>2. LeasedAfter(s, op[p].c)
      BY <1>f, <2>1, <2>c DEF FinalizeCheckout, CanFinalizeCheckout, Owns, SetCheckout, TypeOK, CheckoutRow, LeasedAfter
    <3>3. Go(p, "workspace") \/ Go(p, "rehome") BY <2>1 DEF Acquired
    <3>4. op'[p].pc \in {"workspace", "rehome"} /\ op'[p].s = s /\ op'[p].c = op[p].c
      BY <1>f, <1>s, <3>3, GoGoes DEF Goes, Same
    <3> QED BY <1>f, <3>1, <3>2, <3>4, RelyThere DEF WayThere, Bound, Housed, SpawnClaims
  <2>2. CASE NotAcquired(p) /\ (Keep \/ Quarantine(s, op[p].i, op[p].i, op[p].c) \/ RemoveFailed(s, op[p].i, op[p].i, op[p].c))
    <3>1. Gentle(s) BY <1>f, <2>2, <2>c, PoolGentle
    <3> QED BY <1>f, <2>2, <3>1
  <2> QED BY <1>s, <1>5, <2>1, <2>2 DEF Create
<1> QED BY <1>1, <1>2, <1>3, <1>4, <1>5

\* What keeps a live agent its incarnation and its checkout.
Steady(s) ==
  /\ Gentle(s)
  /\ run[s].live => worker'[s].id = worker[s].id /\ worker'[s].state \notin {"none", "allocating", "released"}
  /\ \A c \in Checkouts : LeasedTo(s, c) => LeasedAfter(s, c)

LEMMA SteadyServes ==
  ASSUME NEW s \in Sessions, Steady(s), UNCHANGED run, \A r \in Sessions : Serves(r)
  PROVE  \A r \in Sessions : Serves(r)'
<1>1. OwnsCheckout(s)' BY DEF Steady, Serves, OwnsCheckout, InPool, LeasedTo, LeasedAfter
<1>2. Serves(s)' BY <1>1 DEF Steady, Gentle, Serves, Exists, HasWorker, Is
<1> QED BY <1>2, OthersServe DEF Steady, Gentle, RunsAlone

LEMMA LaunchServes ==
  ASSUME OpsInv, LaunchInv, Serving, "relaunch" \notin Kinds, NEW p \in Commands,
         Launch(p) \/ CompleteLaunch(p) \/ LaunchedRow(p) \/ KillOld(p)
  PROVE  Served(p)
<1>0. op[p].pc \in {"launch", "complete", "row", "kill_old"}
  <2> USE DEF At
  <2>1. CASE Launch(p) BY <2>1 DEF Launch
  <2>2. CASE CompleteLaunch(p) BY <2>2 DEF CompleteLaunch
  <2>3. CASE LaunchedRow(p) BY <2>3 DEF LaunchedRow
  <2>4. CASE KillOld(p) BY <2>4 DEF KillOld
  <2> QED BY <2>1, <2>2, <2>3, <2>4
<1>s. PICK s \in Sessions : s = op[p].s
  <2>1. ~Away(op[p]) BY <1>0 DEF Away
  <2> QED BY <2>1, StepFacts
<1>f. /\ TypeOK /\ op[p] \in OpRec /\ op \in [Commands -> OpRec] /\ run \in [Sessions -> RunRow]
      /\ (\A r \in Sessions : Serves(r)) /\ (End(p) => Relies(p)') /\ Relies(p) /\ KindFits(p)
  BY StepFacts DEF LaunchInv
<1>k. Keep => Gentle(s) BY <1>f, RowGentle DEF Keep, db
<1>b. CanBeRun(s, op[p].i) BY <1>0, <1>f, <1>s DEF Relies, Bound
<1>u. \A i : UNCHANGED worker /\ CanBeRun(s, i) => RunnableAfter(s, i) BY DEF CanBeRun, Is, RunnableAfter
<1> USE DEF Served, At
\* After the launch only the incarnation matters.
<1>a. ASSUME op'[p].pc \in {"row", "complete"}, op'[p].s = s, op'[p].i = op[p].i, RunnableAfter(s, op[p].i)
      PROVE  Relies(p)'
  <2>1. CanBeRun(op[p].s, op[p].i)' BY <1>a DEF RunnableAfter, CanBeRun, Is, HasWorker, Launchable
  <2> QED BY <1>a, <2>1 DEF Relies, Underway, SpawnClaims, HasRow, Bound, Housed, MayGiveBack, WayThere, WayBack
<1>1. CASE Launch(p)
  <2>k. Keep /\ UNCHANGED <<session, worker, checkout>> BY <1>1 DEF Launch, Keep, db
  <2>1. CASE /\ run' = [run EXCEPT ![s] = [live |-> TRUE, ran |-> TRUE, inc |-> op[p].i, ws |-> op[p].row.ws]]
             /\ Go(p, "complete") \/ Go(p, "row")
    <3>1. /\ run'[s].live /\ run'[s].inc = op[p].i /\ run'[s].ws = op[p].row.ws
          /\ RunsAlone(s)
      BY <1>f, <2>1 DEF RunsAlone
    <3>2. Exists(s) /\ (op[p].row.ws \in Checkouts => LeasedTo(s, op[p].row.ws))
      BY <1>1, <1>f, <1>s DEF Launch, Relies, HasRow, Underway, WayThere, Housed
    <3>3. OwnsCheckout(s)' BY <2>k, <3>1, <3>2 DEF OwnsCheckout, InPool, LeasedTo
    <3>4. Serves(s)'
      BY <1>b, <1>f, <2>k, <3>1, <3>2, <3>3 DEF Serves, Exists, Is, HasWorker, CanBeRun, Launchable
    <3>5. \A r \in Sessions : Serves(r)' BY <1>f, <1>k, <2>k, <3>1, <3>4, OthersServe DEF Gentle
    <3>6. op'[p].pc \in {"row", "complete"} /\ op'[p].s = s /\ op'[p].i = op[p].i
      BY <1>f, <1>s, <2>1, GoSame DEF Same
    <3> QED BY <1>a, <1>b, <1>u, <2>k, <3>5, <3>6
  <2>2. CASE UNCHANGED run /\ (GoNote(p, "unclaim", "status") \/ Go(p, "failed"))
    <3>1. ~run[s].live BY <1>1, <1>f, <1>s DEF Launch, Relies, Underway, WayThere
    <3> QED BY <1>k, <1>s, <2>2, <2>k, <3>1, StepFacts DEF WayBack
  <2> QED BY <1>s, <1>1, <2>1, <2>2 DEF Launch
<1>2. CASE CompleteLaunch(p)
  <2>1. PICK i, k : CompleteStart(s, i, k) BY <1>s, <1>2 DEF CompleteLaunch
  <2>2. Gentle(s) BY <1>f, <2>1, IncarnationGentle
  <2>3. worker'[s].id = worker[s].id /\ worker'[s].state = "active" /\ UNCHANGED checkout
    BY <1>f, <2>1 DEF CompleteStart, Move, TypeOK, WorkerRow
  <2>4. Steady(s) BY <2>2, <2>3 DEF Steady, LeasedTo, LeasedAfter
  <2> QED BY <1>2, <1>f, <2>4, SteadyServes DEF CompleteLaunch
<1>3. CASE LaunchedRow(p)
  <2> DEFINE row == [op[p].row EXCEPT !.status = "working", !.pid = run[op[p].s].live, !.talk = TRUE]
  <2>1. UpsertSession(s, row) /\ UNCHANGED run /\ (Go(p, "complete") \/ End(p)) BY <1>s, <1>3 DEF LaunchedRow
  <2>2. row.status = "working" BY <1>f DEF OpRec, SessionRow
  <2> HIDE DEF row
  <2>3. session'[s].status = "working" /\ \A r \in Sessions \ {s} : session'[r] = session[r]
    BY <1>f, <2>1, <2>2 DEF UpsertSession, TypeOK
  <2>4. UNCHANGED <<worker, checkout>> BY <2>1 DEF UpsertSession
  <2>5. OwnsCheckout(s) => OwnsCheckout(s)' BY <2>1, <2>4 DEF OwnsCheckout, InPool
  <2>6. Serves(s)' BY <1>b, <1>f, <2>1, <2>3, <2>4, <2>5 DEF Serves, Exists, Is, HasWorker, CanBeRun
  <2>7. Confined(s) /\ RunsAlone(s) BY <2>1, <2>3, <2>4 DEF Confined, LeasedTo, RunsAlone
  <2>8. \A r \in Sessions : Serves(r)' BY <1>f, <2>6, <2>7, OthersServe
  <2>9. CASE Go(p, "complete")
    <3>1. Same(p, "complete") BY <1>f, <2>9, GoSame
    <3> QED BY <1>a, <1>b, <1>s, <1>u, <2>4, <2>8, <3>1 DEF Same
  <2> QED BY <1>f, <2>1, <2>8, <2>9
<1>4. CASE KillOld(p)
  <2>1. op[p].cmd = "resume" BY <1>4, <1>f DEF KillOld, KindFits, Reaches, OpRec
  <2>2. Keep /\ Kill(s) /\ Go(p, "ensure") BY <1>4, <1>s, <2>1 DEF KillOld
  <2>3. ~run'[s].live /\ RunsAlone(s) BY <1>f, <2>2 DEF Kill, Ended, RunRow, RunsAlone
  <2>4. \A r \in Sessions : Serves(r)' BY <1>f, <1>k, <2>2, <2>3, GentleServes
  <2>5. Exists(s) BY <1>4, <1>f, <1>s DEF KillOld, Relies, HasRow
  <2>6. RowAfter(s) /\ RunnableAfter(s, op[p].i)
    BY <1>b, <1>u, <2>2, <2>5 DEF Keep, db, RowAfter, Exists
  <2>7. op'[p].pc = "ensure" /\ op'[p].s = s /\ op'[p].i = op[p].i BY <1>f, <1>s, <2>2, GoSame DEF Same
  <2> QED BY <2>3, <2>4, <2>6, <2>7, RelyThere DEF WayThere, Housed, SpawnClaims
<1> QED BY <1>1, <1>2, <1>3, <1>4

\* A stop that succeeds leaves no agent.
LEMMA Stopped ==
  ASSUME OpsInv, Serving, Backend = "tmux", NEW s \in Sessions, NEW i, NEW named, Stop(s, i, named)
  PROVE  ~run'[s].live /\ RunsAlone(s)
<1>t. run \in [Sessions -> RunRow] /\ TypeOK BY DEF OpsInv, OpsTypeOK
<1>1. run[s].live => run[s].inc # 0
  BY <1>t DEF Serving, Serves, Is, OpsInv, HandedOut, SessionOut, HasWorker, Out, TypeOK, WorkerRow
<1>2. IF run[s].live THEN Kill(s) ELSE UNCHANGED run BY <1>1 DEF Stop, Visible
<1> QED BY <1>t, <1>2 DEF Kill, Ended, RunRow, RunsAlone

LEMMA StopServes ==
  ASSUME OpsInv, Serving, Backend = "tmux", NEW p \in Commands,
         RefileStop(p) \/ FinalizeStop(p) \/ ReleaseStop(p) \/ RemoveStop(p)
  PROVE  Served(p)
<1>0. op[p].pc = "stop" /\ Keep
  BY DEF At, RefileStop, FinalizeStop, ReleaseStop, RemoveStop
<1>s. PICK s \in Sessions : s = op[p].s
  <2>1. ~Away(op[p]) BY <1>0 DEF Away
  <2> QED BY <2>1, StepFacts
<1>f. /\ TypeOK /\ op \in [Commands -> OpRec] /\ (\A r \in Sessions : Serves(r)) /\ (End(p) => Relies(p)')
      /\ Relies(p)
  BY StepFacts
<1>k. Gentle(s) /\ UNCHANGED <<session, worker, checkout>> BY <1>0, <1>f, RowGentle DEF Keep, db
<1>t. Steady(s)
  BY <1>f, <1>k DEF Steady, Serves, Is, HasWorker, LeasedTo, LeasedAfter
<1> USE DEF Served
\* The agent is stopped.
<1>a. ASSUME NEW i, NEW named, Stop(s, i, named), NEW pc \in WayBack, Go(p, pc) PROVE Served(p)
  <2>1. ~run'[s].live /\ RunsAlone(s) BY <1>a, Stopped
  <2>2. Same(p, pc) BY <1>a, <1>f, GoSame
  <2> QED BY <1>f, <1>k, <1>s, <2>1, <2>2, GentleServes, RelyLittle DEF Same
\* It is not.
<1>b. ASSUME UNCHANGED run, End(p) \/ Go(p, "unrelease") PROVE Served(p)
  <2>1. Go(p, "unrelease") => Relies(p)' BY <1>f, GoSame, RelyLittle DEF Same
  <2> QED BY <1>b, <1>f, <1>t, <2>1, SteadyServes
<1>1. CASE RefileStop(p)
  <2>1. ASSUME ~run'[s].live, RunsAlone(s), Go(p, "prepare") PROVE Served(p)
    <3>1. Exists(s) BY <1>0, <1>1, <1>f, <1>s DEF RefileStop, Relies, HasRow
    <3>2. RowAfter(s) BY <1>k, <3>1 DEF RowAfter, Exists
    <3>3. op'[p].pc = "prepare" /\ op'[p].s = s BY <1>f, <1>s, <2>1, GoSame DEF Same
    <3> QED BY <1>f, <1>k, <2>1, <3>2, <3>3, GentleServes, RelyThere DEF WayThere, Bound, Housed, SpawnClaims
  <2>2. CASE \E i, named : Stop(s, i, named) /\ Go(p, "prepare") BY <2>1, <2>2, Stopped
  <2>3. CASE UNCHANGED run /\ ~run[s].live /\ Go(p, "prepare") BY <2>1, <2>3 DEF RunsAlone
  <2>4. CASE UNCHANGED run /\ End(p) BY <1>b, <2>4
  <2> QED BY <1>1, <1>s, <2>2, <2>3, <2>4 DEF RefileStop, StopOr
<1>2. CASE FinalizeStop(p)
  <2>1. \/ \E i, named : Stop(s, i, named) /\ Go(p, "finish")
        \/ UNCHANGED run /\ End(p)
    BY <1>2, <1>s DEF FinalizeStop, StopOr
  <2> QED BY <1>a, <1>b, <2>1 DEF WayBack
<1>3. CASE ReleaseStop(p)
  <2>1. \/ \E i, named : Stop(s, i, named) /\ Go(p, "free")
        \/ UNCHANGED run /\ Go(p, "unrelease")
    BY <1>3, <1>s DEF ReleaseStop, StopOr
  <2> QED BY <1>a, <1>b, <2>1 DEF WayBack
<1>4. CASE RemoveStop(p)
  <2>1. \/ \E i, named : Stop(s, i, named) /\ Go(p, "detach")
        \/ UNCHANGED run /\ Go(p, "unremove")
    BY <1>4, <1>s DEF RemoveStop, StopOr
  <2>2. CASE UNCHANGED run /\ Go(p, "unremove")
    <3>1. MayGiveBack(p) BY <1>4, <1>0 DEF RemoveStop, MayGiveBack
    <3>2. Goes(p, "unremove") BY <1>f, <2>2, GoGoes
    <3>3. Relies(p)'
      BY <1>f, <1>k, <2>2, <3>1, <3>2
      DEF Goes, Same, Relies, Underway, SpawnClaims, HasRow, Bound, Housed, MayGiveBack, WayThere, WayBack
    <3> QED BY <1>f, <1>t, <2>2, <3>3, SteadyServes
  <2> QED BY <1>a, <2>1, <2>2 DEF WayBack
<1> QED BY <1>1, <1>2, <1>3, <1>4

LEMMA SettleServes ==
  ASSUME OpsInv, Serving, NEW p \in Commands, RemoveClaim(p) \/ RemoveAbort(p) \/ ReleaseSettle(p)
  PROVE  Served(p)
<1>0. /\ op[p].pc \in {"claim", "unremove", "released", "unrelease"} /\ UNCHANGED run
      /\ ReleaseSettle(p) => op[p].pc \in {"released", "unrelease"}
  BY DEF At, RemoveClaim, RemoveAbort, ReleaseSettle
<1>s. PICK s \in Sessions : s = op[p].s
  <2>1. ~Away(op[p]) BY <1>0 DEF Away
  <2> QED BY <2>1, StepFacts
<1>f. /\ TypeOK /\ op \in [Commands -> OpRec] /\ op[p] \in OpRec /\ Fits(op[p], next)
      /\ (\A r \in Sessions : Serves(r)) /\ (End(p) => Relies(p)') /\ Relies(p)
  BY StepFacts
<1>k. Keep => Steady(s)
  <2>1. Keep => Gentle(s) /\ UNCHANGED <<worker, checkout>> BY <1>f, RowGentle DEF Keep, db
  <2> QED BY <1>f, <2>1 DEF Steady, Serves, Is, HasWorker, LeasedTo, LeasedAfter
<1>t. ASSUME Steady(s), End(p) PROVE Served(p) BY <1>0, <1>f, <1>t, SteadyServes DEF Served
<1> USE DEF Served, At
<1>1. CASE RemoveClaim(p)
  <2>1. CASE /\ ClaimSnapshot(s, op[p].row.started)
             /\ Set(p, [op[p] EXCEPT !.pc = "stop", !.i = worker'[s].id, !.l = worker'[s].lease, !.note = worker[s].state])
    <3>1. Gentle(s) BY <1>f, <2>1, SessionGentle
    <3>2. /\ HasWorker(s) => worker[s].state \in Live /\ worker'[s] = [worker[s] EXCEPT !.state = "cleanup_claimed"]
          /\ UNCHANGED <<session, checkout>>
      BY <1>f, <2>1 DEF ClaimSnapshot, CanClaimSnapshot, CanAdopt, TypeOK
    <3>3. HasWorker(s) => worker'[s].id = worker[s].id /\ worker'[s].state = "cleanup_claimed"
      BY <1>f, <3>2 DEF TypeOK, WorkerRow
    <3>4. Steady(s) BY <1>f, <3>1, <3>2, <3>3 DEF Steady, Serves, Is, LeasedTo, LeasedAfter
    <3>5. op'[p].pc = "stop" /\ op'[p].s = s /\ op'[p].cmd = op[p].cmd /\ op'[p].note = worker[s].state
      BY <1>f, <1>s, <2>1 DEF Set, OpRec
    <3>6. /\ run'[s].live => worker[s].state \in Launchable
          /\ session'[s].status = "working" => worker[s].state # "none"
      BY <1>0, <1>f, <3>2 DEF Serves, Is, HasWorker, Live, Launchable
    <3>7. Relies(p)'
      BY <1>1, <3>5, <3>6 DEF RemoveClaim, Relies, Underway, SpawnClaims, HasRow, Bound, Housed, MayGiveBack, WayThere, WayBack
    <3> QED BY <1>0, <1>f, <3>4, <3>7, SteadyServes
  <2>2. CASE worker[s].state = "released" /\ DeleteSession(s) /\ End(p)
    <3>1. ~run[s].live BY <1>f, <2>2 DEF Serves
    <3>2. \A r \in Sessions \ {s} : worker'[r] = worker[r] BY <1>f, <2>2 DEF DeleteSession, TypeOK
    <3> QED BY <1>0, <1>f, <2>2, <3>1, <3>2, RowDeleted DEF DeleteSession
  <2>3. CASE Keep /\ End(p) BY <1>k, <1>t, <2>3
  <2> QED BY <1>1, <1>s, <2>1, <2>2, <2>3 DEF RemoveClaim
<1>2. CASE RemoveAbort(p)
  <2>1. CASE AbortSnapshot(s, op[p].i, op[p].row.started, op[p].note) /\ End(p)
    <3>1. /\ run[s].live => op[p].note \in Launchable
          /\ session[s].status = "working" => op[p].note # "none"
      BY <1>2, <1>f, <1>s DEF RemoveAbort, Relies, MayGiveBack
    <3>2. /\ op[p].note # "none" => worker'[s].id = worker[s].id /\ worker'[s].state = op[p].note
          /\ UNCHANGED <<session, checkout>> /\ \A r \in Sessions \ {s} : worker'[r] = worker[r]
      BY <1>f, <2>1 DEF AbortSnapshot, TypeOK, WorkerRow
    <3>3. Serves(s)'
      BY <1>0, <1>f, <3>1, <3>2 DEF Serves, Exists, Is, HasWorker, OwnsCheckout, InPool, Launchable
    <3>4. Confined(s) /\ RunsAlone(s) BY <1>0, <3>2 DEF Confined, RunsAlone, LeasedTo
    <3> QED BY <1>f, <2>1, <3>3, <3>4, OthersServe
  <2>2. CASE Keep /\ End(p) BY <1>k, <1>t, <2>2
  <2> QED BY <1>2, <1>s, <2>1, <2>2 DEF RemoveAbort
<1>3. CASE ReleaseSettle(p)
  <2>e. End(p) BY <1>3 DEF ReleaseSettle
  <2>1. CASE op[p].pc = "released" /\ CompleteClaim(s, op[p].i, "release_claimed")
    <3>1. Gentle(s) BY <1>f, <2>1, IncarnationGentle
    <3>2. ~run[s].live BY <1>f, <1>s, <2>1 DEF Relies, WayBack
    <3> QED BY <1>0, <1>f, <2>e, <3>1, <3>2, StepFacts
  <2>2. CASE AbortClaim(s, op[p].i, "release_claimed")
    <3>1. Gentle(s) BY <1>f, <2>2, IncarnationGentle
    <3>2. worker'[s].id = worker[s].id /\ worker'[s].state = "retained" /\ UNCHANGED checkout
      BY <1>f, <2>2 DEF AbortClaim, Move, TypeOK, WorkerRow
    <3> QED BY <1>t, <2>e, <3>1, <3>2 DEF Steady, LeasedTo, LeasedAfter
  <2>3. CASE Keep BY <1>k, <1>t, <2>e, <2>3
  <2> QED BY <1>3, <1>s, <2>1, <2>2, <2>3 DEF ReleaseSettle
<1> QED BY <1>1, <1>2, <1>3

\* Who leaves the tables alone leaves everybody served.
LEMMA TablesServe ==
  ASSUME UNCHANGED <<session, worker, checkout, run>>, NEW s \in Sessions, Serves(s) PROVE Serves(s)'
  BY DEF Serves, Exists, Is, HasWorker, OwnsCheckout, InPool

LEMMA OpenServes ==
  ASSUME OpsInv, Serving, NEW p \in Commands, StepOfOpen(p) PROVE Served(p)
<1>f. /\ TypeOK /\ op \in [Commands -> OpRec] /\ op[p] \in OpRec /\ Fits(op[p], next)
      /\ (\A r \in Sessions : Serves(r)) /\ (End(p) => Relies(p)') /\ Relies(p)
  BY StepFacts
<1>k. UNCHANGED <<session, worker, checkout, run>> => \A r \in Sessions : Serves(r)' BY <1>f, TablesServe
<1>d. Keep => UNCHANGED <<session, worker, checkout>> BY DEF Keep, db
\* The allocations are pending.
<1>a. ASSUME op'[p].pc = "try_allocations",
             \A row \in op'[p].left \cup op'[p].dead : worker'[row[1]].state = "allocating"
      PROVE  Relies(p)'
  BY <1>a DEF Relies, Underway, SpawnClaims, HasRow, Bound, Housed, MayGiveBack, WayThere, WayBack
<1> USE DEF Served, At
<1>1. CASE OpenScan(p)
  <2>1. Keep /\ UNCHANGED run BY <1>1 DEF OpenScan
  <2>2. CASE op[p].pc = "allocations"
    <3> DEFINE rows == {<<x, worker[x].id>> : x \in {r \in Sessions : worker[r].state = "allocating" /\ worker[r].token}}
    <3>1. Set(p, [op[p] EXCEPT !.pc = "try_allocations", !.dead = {}, !.left = rows])
      BY <1>1, <2>2 DEF OpenScan
    <3>2. \A row \in rows : worker[row[1]].state = "allocating" OBVIOUS
    <3> HIDE DEF rows
    <3>3. op'[p].pc = "try_allocations" /\ op'[p].left = rows /\ op'[p].dead = {}
      BY <1>f, <3>1 DEF Set, OpRec
    <3> QED BY <1>a, <1>d, <1>k, <2>1, <3>2, <3>3
  <2>3. CASE op[p].pc = "claims"
    <3>1. PICK left : Set(p, [op[p] EXCEPT !.pc = "try_claims", !.dead = {}, !.left = left])
      BY <1>1, <2>3, Zenon DEF OpenScan
    <3>2. op'[p].pc = "try_claims" BY <1>f, <3>1 DEF Set, OpRec
    <3> QED BY <1>d, <1>k, <2>1, <3>2, RelyLittle
  <2> QED BY <1>1, <2>2, <2>3 DEF OpenScan
<1>2. CASE OpenTryLock(p)
  <2>1. Keep /\ UNCHANGED run BY <1>2 DEF OpenTryLock
  <2>2. PICK row \in op[p].left :
          Set(p, [op[p] EXCEPT !.left = op[p].left \ {row},
                               !.dead = IF Locked(row[2]) THEN op[p].dead ELSE op[p].dead \cup {row}])
    BY <1>2, Zenon DEF OpenTryLock
  <2>3. op'[p].pc = op[p].pc /\ op'[p].left \cup op'[p].dead \subseteq op[p].left \cup op[p].dead
    BY <1>f, <2>2 DEF Set, OpRec
  <2>4. CASE op[p].pc = "try_allocations" BY <1>a, <1>d, <1>f, <1>k, <2>1, <2>3, <2>4 DEF Relies
  <2>5. CASE op[p].pc = "try_claims" BY <1>d, <1>k, <2>1, <2>3, <2>5, RelyLittle
  <2> QED BY <1>2, <2>4, <2>5 DEF OpenTryLock
<1>3. CASE OpenReclaimAllocations(p)
  <2>1. op[p].pc = "try_allocations" /\ ReclaimAllocations(op[p].dead) /\ Go(p, "claims") /\ UNCHANGED run
    BY <1>3 DEF OpenReclaimAllocations
  <2>2. Relies(p)' BY <1>f, <2>1, GoSame, RelyLittle DEF Same
  <2>3. ASSUME NEW s \in Sessions PROVE Serves(s)'
    <3>1. run[s].live => \A n : <<s, n>> \notin op[p].dead BY <1>f, <2>1 DEF Relies, Serves
    <3>2. run[s].live => worker'[s] = worker[s] BY <2>1, <3>1 DEF ReclaimAllocations
    <3>3. OwnsCheckout(s) /\ run[s].live => OwnsCheckout(s)'
      BY <2>1, <3>1 DEF ReclaimAllocations, OwnsCheckout, InPool
    <3>4. HasWorker(s) => HasWorker(s)'
      <4>1. Settled(s, "released").state = "released" BY <1>f DEF Settled, TypeOK, WorkerRow
      <4> QED BY <2>1, <4>1 DEF ReclaimAllocations, HasWorker
    <3>5. /\ session'[s].status = "working" => session[s].status = "working"
          /\ session'[s].talk = session[s].talk /\ (Exists(s) => Exists(s)')
      BY <1>f, <2>1 DEF ReclaimAllocations, Exists, TypeOK, SessionRow
    <3> QED BY <1>f, <2>1, <3>2, <3>3, <3>4, <3>5 DEF Serves, Is, HasWorker
  <2> QED BY <2>2, <2>3
<1>4. CASE OpenReclaimClaim(p)
  <2>1. PICK row \in op[p].dead : ReclaimClaim(row[1], row[2]) /\ Set(p, [op[p] EXCEPT !.dead = op[p].dead \ {row}])
    BY <1>4, Zenon DEF OpenReclaimClaim
  <2>2. op[p].pc = "try_claims" /\ UNCHANGED run BY <1>4 DEF OpenReclaimClaim
  <2>3. op'[p].pc = "try_claims" BY <1>f, <2>1, <2>2 DEF Set, OpRec
  <2> QED BY <1>k, <2>1, <2>2, <2>3, RelyLittle DEF ReclaimClaim
<1>5. CASE OpenOrphans(p)
  <2>1. RemoveOrphans /\ End(p) /\ UNCHANGED run BY <1>5 DEF OpenOrphans
  <2>2. ASSUME NEW s \in Sessions PROVE Serves(s)'
    <3>1. UNCHANGED <<worker, checkout>> BY <2>1 DEF RemoveOrphans
    <3>2. OwnsCheckout(s) => OwnsCheckout(s)' BY <2>1, <3>1 DEF OwnsCheckout, InPool
    <3>3. /\ session'[s].status = "working" => session[s].status = "working"
          /\ session'[s].talk => Exists(s)' /\ session[s].talk
          /\ Exists(s) /\ worker[s].state \notin {"none", "released"} => Exists(s)'
      BY <1>f, <2>1 DEF RemoveOrphans, Serves, Exists, TypeOK, SessionRow, NoRow
    <3> QED BY <1>f, <2>1, <3>1, <3>2, <3>3 DEF Serves, Is, HasWorker
  <2> QED BY <1>f, <2>1, <2>2
<1>6. CASE Exit(p)
  <2>1. op'[p].pc = "done" BY <1>6, <1>f, GoSame DEF Exit, Same
  <2> QED BY <1>6, <1>k, <2>1, RelyLittle DEF Exit, DropLocks
<1> QED BY <1>1, <1>2, <1>3, <1>4, <1>5, <1>6 DEF StepOfOpen

LEMMA StartServes ==
  ASSUME OpsInv, Serving, "relaunch" \notin Kinds, NEW p \in Commands, Start(p) PROVE Served(p)
<1>f. /\ TypeOK /\ op \in [Commands -> OpRec] /\ (\A r \in Sessions : Serves(r))
  BY StepFacts
<1>k. UNCHANGED <<session, worker, checkout, run>> => \A r \in Sessions : Serves(r)' BY <1>f, TablesServe
<1>d. Keep => UNCHANGED <<session, worker, checkout>> BY DEF Keep, db
\* Where nothing is relied on yet, and where the row is.
<1>a. ASSUME \/ op'[p].pc = "stop" /\ op'[p].cmd \in {"finalize", "release"}
             \/ op'[p].pc = "claim" /\ op'[p].cmd \in {"remove", "cleanup"}
      PROVE  Relies(p)'
  BY <1>a DEF Relies, Underway, SpawnClaims, HasRow, Bound, Housed, MayGiveBack, WayThere, WayBack
<1>b. ASSUME op'[p].pc = "stop", op'[p].cmd = "refile", RowAfter(op'[p].s) PROVE Relies(p)'
  <2>1. Exists(op[p].s)' BY <1>b DEF RowAfter, Exists
  <2> QED BY <1>b, <2>1 DEF Relies, Underway, SpawnClaims, HasRow, Bound, Housed, MayGiveBack, WayThere, WayBack
<1>c. ASSUME op'[p].pc = "kill_old", RowAfter(op'[p].s), RunnableAfter(op'[p].s, op'[p].i) PROVE Relies(p)'
  <2>1. Exists(op[p].s)' /\ CanBeRun(op[p].s, op[p].i)'
    BY <1>c DEF RowAfter, RunnableAfter, CanBeRun, Is, HasWorker, Launchable, Exists
  <2> QED BY <1>c, <2>1 DEF Relies, Underway, SpawnClaims, HasRow, Bound, Housed, MayGiveBack, WayThere, WayBack
<1> USE DEF Served, Set, Begin, Idle
<1>1. CASE OpenAdopt(p)
  <2>1. AdoptLeases /\ UNCHANGED run BY <1>1 DEF OpenAdopt
  <2>2. op'[p].pc = "allocations" BY <1>1, <1>f DEF OpenAdopt
  <2>3. ASSUME NEW s \in Sessions PROVE Serves(s)'
    <3>1. HasWorker(s) => worker'[s] = worker[s] BY <2>1 DEF AdoptLeases
    <3>2. UNCHANGED <<session, checkout>> BY <2>1 DEF AdoptLeases
    <3>3. OwnsCheckout(s) => OwnsCheckout(s)' BY <2>1, <3>2 DEF OwnsCheckout, InPool
    <3> QED BY <1>f, <2>1, <3>1, <3>2, <3>3 DEF Serves, Exists, Is, HasWorker
  <2> QED BY <2>2, <2>3, RelyLittle
<1>2. ASSUME NEW s \in Sessions, SpawnInsert(p, s) PROVE Served(p)
  <2>1. InsertSpawning(s) /\ UNCHANGED run BY <1>2 DEF SpawnInsert
  <2>2. ~run[s].live BY <1>f, <2>1 DEF InsertSpawning, Serves
  <2>3. session'[s].status = "spawning" /\ ~session'[s].talk /\ \A r \in Sessions \ {s} : session'[r] = session[r]
    BY <1>f, <2>1 DEF InsertSpawning, NoRow, TypeOK
  <2>4. UNCHANGED <<worker, checkout>> BY <2>1 DEF InsertSpawning
  <2>5. Serves(s)' BY <2>1, <2>2, <2>3 DEF Serves
  <2>6. Confined(s) /\ RunsAlone(s) BY <2>1, <2>3, <2>4 DEF Confined, RunsAlone, LeasedTo
  <2>7. op'[p].pc = "prepare" /\ op'[p].s = s BY <1>2, <1>f DEF SpawnInsert
  <2>8. Relies(p)'
    BY <2>1, <2>2, <2>3, <2>7, RelyThere DEF RowAfter, WayThere, Bound, Housed, SpawnClaims
  <2> QED BY <1>f, <2>5, <2>6, <2>8, OthersServe
<1>3. ASSUME NEW s \in Sessions, RefileStart(p, s) PROVE Served(p)
  <2>1. Keep /\ UNCHANGED run /\ Exists(s) BY <1>3 DEF RefileStart
  <2>2. op'[p].pc = "stop" /\ op'[p].cmd = "refile" /\ op'[p].s = s BY <1>3, <1>f DEF RefileStart
  <2> QED BY <1>b, <1>d, <1>k, <2>1, <2>2 DEF RowAfter, Exists
<1>4. ASSUME NEW s \in Sessions, ResumeStart(p, s) PROVE Served(p)
  <2>1. ClaimStart(App, s, worker[s].id) /\ UNCHANGED run /\ Exists(s) BY <1>4, <1>f DEF ResumeStart, Serves
  <2>2. op'[p].pc = "kill_old" /\ op'[p].s = s /\ op'[p].i = worker[s].id BY <1>4, <1>f DEF ResumeStart
  <2>3. UNCHANGED <<session, worker, checkout>> /\ worker[s].state \in Launchable
    BY <2>1 DEF ClaimStart, CanClaimStart
  <2> QED BY <1>c, <1>k, <2>1, <2>2, <2>3 DEF RowAfter, RunnableAfter, Exists
<1>5. ASSUME NEW s \in Sessions, FinalizeStart(p, s) PROVE Served(p)
  <2>1. BeginFinalization(s) /\ UNCHANGED run BY <1>5 DEF FinalizeStart
  <2>2. Gentle(s) BY <1>f, <2>1, SessionGentle
  <2>3. (HasWorker(s) => worker'[s] = worker[s]) /\ UNCHANGED checkout
    BY <1>f, <2>1 DEF BeginFinalization, ToFinalize, TypeOK
  <2>4. Steady(s) BY <1>f, <2>2, <2>3 DEF Steady, Serves, Is, HasWorker, LeasedTo, LeasedAfter
  <2>5. \/ op'[p] = [cmd |-> "finalize", pc |-> "exit", s |-> s, i |-> worker'[s].id, k |-> 0, l |-> 0,
                     c |-> NoCheckout, row |-> NoRow, left |-> {}, dead |-> {}, note |-> "none"]
        \/ op'[p] = [cmd |-> "finalize", pc |-> "stop", s |-> s, i |-> worker'[s].id, k |-> 0, l |-> 0,
                     c |-> NoCheckout, row |-> NoRow, left |-> {}, dead |-> {}, note |-> "none"]
    BY <1>5, <1>f DEF FinalizeStart
  <2>6. Relies(p)' BY <1>a, <2>5, RelyLittle
  <2> QED BY <1>f, <2>1, <2>4, <2>6, SteadyServes
<1>6. ASSUME NEW s \in Sessions, ReleaseStart(p, s) PROVE Served(p)
  <2>1. UNCHANGED run /\ (ClaimRelease(s, worker[s].id) \/ Keep) BY <1>6 DEF ReleaseStart
  <2>2. Relies(p)'
    <3>1. op'[p].pc = "stop" /\ op'[p].cmd = "release" BY <1>6, <1>f DEF ReleaseStart
    <3> QED BY <1>a, <3>1
  <2>3. CASE ClaimRelease(s, worker[s].id)
    <3>1. Gentle(s) BY <1>f, <2>3, IncarnationGentle
    <3>2. worker'[s].id = worker[s].id /\ worker'[s].state = "release_claimed" /\ UNCHANGED checkout
      BY <1>f, <2>3 DEF ClaimRelease, ClaimState, Move, TypeOK, WorkerRow
    <3>3. Steady(s) BY <3>1, <3>2 DEF Steady, LeasedTo, LeasedAfter
    <3> QED BY <1>f, <2>1, <2>2, <3>3, SteadyServes
  <2>4. CASE Keep BY <1>d, <1>k, <2>1, <2>2, <2>4
  <2> QED BY <2>1, <2>3, <2>4
<1>7. ASSUME NEW s \in Sessions, NEW kind, RemoveStart(p, kind, s) PROVE Served(p)
  <2>1. Keep /\ UNCHANGED run /\ kind \in {"remove", "cleanup"} BY <1>7 DEF RemoveStart
  <2>2. op'[p].pc = "claim" /\ op'[p].cmd = kind BY <1>7, <1>f DEF RemoveStart
  <2> QED BY <1>a, <1>d, <1>k, <2>1, <2>2
<1>8. ASSUME NEW s \in Sessions, RelaunchStart(p, s) PROVE FALSE BY <1>8 DEF RelaunchStart, Ready
<1> QED BY <1>1, <1>2, <1>3, <1>4, <1>5, <1>6, <1>7, <1>8, StartReady

\* An agent that exits or reports, a poller that notices.
LEMMA EventServes ==
  ASSUME OpsInv, Serving, NEW s \in Sessions, AgentExits(s) \/ PollPid(s) \/ AgentReports(s) \/ Merged(s)
  PROVE  op' = op /\ (\A r \in Sessions : Serves(r)') /\ \A p \in Commands : Relies(p)'
<1>f. /\ TypeOK /\ op \in [Commands -> OpRec] /\ run \in [Sessions -> RunRow]
      /\ (\A r \in Sessions : Serves(r)) /\ \A p \in Commands : Relies(p)
  BY DEF OpsInv, OpsTypeOK, Serving
<1>1. op' = op /\ UNCHANGED checkout
  BY DEF AgentExits, Keep, db, PollPid, UpsertSession, AgentReports, CompleteIncarnation, Merged, Retain
<1>2. /\ Gentle(s) /\ (\A r \in Sessions : Exists(r) => Exists(r)')
      /\ worker'[s].id = worker[s].id
      /\ worker' = worker \/ (worker[s].state \in Launchable /\ worker'[s].state = "retained")
      /\ session'[s].status = "working" => session[s].status = "working"
  <2>1. CASE AgentExits(s) BY <1>f, <2>1, RowGentle DEF AgentExits, Keep, db, Exists
  <2>2. CASE PollPid(s)
    <3>1. Exists(s) BY <2>2 DEF PollPid, Exists
    <3>2. Gentle(s) BY <1>f, <2>2, <3>1, SessionGentle DEF PollPid
    <3>3. UNCHANGED worker BY <2>2 DEF PollPid, UpsertSession
    <3> QED BY <3>2, <3>3 DEF Gentle, Confined, Exists
  <2>3. CASE AgentReports(s)
    <3>1. /\ worker' = [worker EXCEPT ![s] = Settled(s, "retained")] /\ worker[s].state \in Launchable
          /\ UNCHANGED <<session, checkout>>
      BY <2>3 DEF AgentReports, CompleteIncarnation, CanCompleteIncarnation
    <3>2. Settled(s, "retained").state = "retained" /\ Settled(s, "retained").id = worker[s].id
      BY <1>f DEF Settled, TypeOK, WorkerRow
    <3>3. Gentle(s) BY <1>f, <3>1, <3>2, RowGentle
    <3> QED BY <1>f, <3>1, <3>2, <3>3 DEF TypeOK, Exists
  <2>4. CASE Merged(s)
    <3>1. /\ worker' = [worker EXCEPT ![s].state = "retained"] /\ worker[s].state \in Launchable
          /\ session' = [session EXCEPT ![s].status = "done"] /\ Exists(s)
      BY <2>4 DEF Merged, Retain, CanRetain, Move
    <3>2. worker'[s].state = "retained" /\ worker'[s].id = worker[s].id
      BY <1>f, <3>1 DEF TypeOK, WorkerRow
    <3>3. session'[s].status = "done" /\ session'[s].talk = session[s].talk BY <1>f, <3>1 DEF TypeOK, SessionRow
    <3>4. \A r \in Sessions \ {s} : session'[r] = session[r] /\ worker'[r] = worker[r]
      BY <1>f, <3>1 DEF TypeOK
    <3> QED BY <1>1, <3>1, <3>2, <3>3, <3>4 DEF Gentle, Confined, LeasedTo, Exists, HasWorker
  <2> QED BY <2>1, <2>2, <2>3, <2>4
<1>3. run' = run \/ (AgentExits(s) /\ RunsAlone(s) /\ ~run'[s].live)
  BY <1>f, ZenonT(40) DEF AgentExits, Kill, Ended, RunRow, RunsAlone, PollPid, AgentReports, Merged
<1>4. \A r \in Sessions : Serves(r)'
  <2>1. CASE run' = run
    <3>1. Steady(s) BY <1>1, <1>2, <1>f DEF Steady, Serves, Is, HasWorker, LeasedTo, LeasedAfter
    <3> QED BY <1>f, <2>1, <3>1, SteadyServes
  <2>2. CASE RunsAlone(s) /\ ~run'[s].live BY <1>2, <1>f, <2>2, GentleServes
  <2> QED BY <1>3, <2>1, <2>2
<1>5. ASSUME NEW r \in Sessions
      PROVE  /\ run'[r].live => run[r].live
             /\ Exists(r) => RowAfter(r)
             /\ \A i : CanBeRun(r, i) => RunnableAfter(r, i)
             /\ worker[r].state = "allocating" => worker'[r].state = "allocating"
             /\ session'[r].status = "working" => session[r].status = "working"
  <2>1. run'[r].live => run[r].live BY <1>3 DEF RunsAlone
  <2>2. Exists(r) => RowAfter(r) BY <1>2 DEF RowAfter, Exists
  <2>3. CASE r = s BY <1>2, <2>1, <2>2, <2>3 DEF CanBeRun, Is, RunnableAfter, Launchable
  <2>4. CASE r # s BY <1>2, <2>1, <2>2, <2>4 DEF Gentle, Confined, CanBeRun, Is, RunnableAfter
  <2> QED BY <2>3, <2>4
<1>6. ASSUME NEW p \in Commands PROVE Relies(p)'
  <2>f. Fits(op[p], next) /\ Relies(p) BY <1>f DEF OpsInv
  <2>1. CASE Away(op[p])
    <3>1. op[p].pc = "try_allocations" => \A row \in op[p].left \cup op[p].dead : row[1] \in Sessions
      BY <2>f DEF Fits
    <3>2. op'[p].pc = "try_allocations" =>
            \A row \in op'[p].left \cup op'[p].dead : worker'[row[1]].state = "allocating"
      BY <1>1, <1>5, <2>f, <3>1 DEF Relies
    <3> QED
      BY <1>1, <2>1, <3>2
      DEF Away, Relies, Underway, SpawnClaims, HasRow, Bound, Housed, MayGiveBack, WayThere, WayBack
  <2>2. CASE ~Away(op[p])
    <3> PICK z \in Sessions : z = op[p].s BY <2>2, <2>f DEF Fits
    <3>1. \A c : LeasedTo(z, c) => LeasedAfter(z, c) BY <1>1 DEF LeasedTo, LeasedAfter
    <3>2. RowAfter(z) => Exists(op[p].s)' BY <1>1 DEF RowAfter, Exists
    <3>3. RunnableAfter(z, op[p].i) => CanBeRun(op[p].s, op[p].i)'
      BY <1>1 DEF RunnableAfter, CanBeRun, Is, HasWorker, Launchable
    <3>4. /\ LeasedAfter(z, op[p].row.ws) => LeasedTo(op[p].s, op[p].row.ws)'
          /\ LeasedAfter(z, op[p].c) => LeasedTo(op[p].s, op[p].c)'
      BY <1>1 DEF LeasedAfter, LeasedTo
    <3>5. /\ Underway(p)' = Underway(p) /\ HasRow(p)' = HasRow(p) /\ Bound(p)' = Bound(p)
          /\ Housed(p)' = Housed(p) /\ MayGiveBack(p)' = MayGiveBack(p)
      BY <1>1 DEF Underway, SpawnClaims, HasRow, Bound, Housed, MayGiveBack
    <3>6. op[p].pc # "try_allocations" BY <2>2 DEF Away
    <3> QED BY <1>1, <1>5, <2>f, <3>1, <3>2, <3>3, <3>4, <3>5, <3>6 DEF Relies
  <2> QED BY <2>1, <2>2
<1> QED BY <1>1, <1>4, <1>6

LEMMA InitServing == Init => Serving
<1> SUFFICES ASSUME Init PROVE Serving OBVIOUS
<1>1. ASSUME NEW s \in Sessions PROVE Serves(s) BY DEF Init, StoreInit, NoRun, NoRow, Serves
<1>2. ASSUME NEW p \in Commands PROVE Relies(p)
  BY DEF Init, Idle, Relies, Underway, SpawnClaims, HasRow, Bound, Housed, MayGiveBack, WayThere, WayBack
<1> QED BY <1>1, <1>2 DEF Serving

LEMMA NextServing ==
  ASSUME Width = 1, Backend = "tmux", "relaunch" \notin Kinds,
         OpsInv, LaunchInv, OneRuns, Serving, [Next]_vars
  PROVE  Serving'
<1>t. op \in [Commands -> OpRec] BY DEF OpsInv, OpsTypeOK
<1>d. \A p \in Commands : op'[p] = Dead(p) \/ (op'[p] = op[p] /\ ~Running(p)) => Relies(p)'
  <2>1. \A p \in Commands : Dead(p).pc = "done" BY DEF Dead, Idle
  <2> QED BY <2>1, RelyLittle DEF Running
<1>k. UNCHANGED <<session, worker, checkout, run>> => \A s \in Sessions : Serves(s)'
  BY TablesServe DEF Serving
<1>1. ASSUME NEW p \in Commands, Start(p) \/ Step(p) PROVE Serving'
  <2>1. Served(p)
    <3>1. CASE Start(p) BY <3>1, StartServes
    <3>2. CASE Step(p)
      BY <3>2, BackServes, ThereServes, AcquireServes, LaunchServes, StopServes, SettleServes, OpenServes
      DEF Step, StepOfOpen
    <3> QED BY <1>1, <3>1, <3>2
  <2>2. \A q \in Commands \ {p} : op'[q] = op[q] BY <1>1, <1>t, CommandFrame
  <2>3. \A q \in Commands \ {p} : ~Running(q)
    <3>1. CASE Start(p) BY <3>1, StartReady, StartsAlone
    <3>2. CASE Step(p)
      <4>1. Running(p) BY <3>2, StepAt DEF Running, Elsewhere, Opening
      <4> QED BY <4>1 DEF OneRuns
    <3> QED BY <1>1, <3>1, <3>2
  <2> QED BY <1>d, <2>1, <2>2, <2>3 DEF Served, Serving
<1>2. ASSUME NEW p \in Commands, Crash(p) PROVE Serving'
  <2>1. UNCHANGED <<session, worker, checkout, run>> BY <1>2 DEF Crash, DropLocks
  <2>2. Running(p) /\ op'[p] = Dead(p) /\ \A q \in Commands \ {p} : op'[q] = op[q]
    BY <1>2, <1>t DEF Crash, Set
  <2>3. \A q \in Commands \ {p} : ~Running(q) BY <2>2 DEF OneRuns
  <2> QED BY <1>d, <1>k, <2>1, <2>2, <2>3 DEF Serving
<1>3. CASE CrashApp
  <2>1. UNCHANGED <<session, worker, checkout, run>> BY <1>3 DEF CrashApp, DropLocks
  <2>2. PICK q \in Commands : Running(q) /\ IsApp(q) BY <1>3 DEF CrashApp
  <2>3. \A p \in Commands : op'[p] = Dead(p) \/ (op'[p] = op[p] /\ ~Running(p))
    BY <1>3, <2>2 DEF CrashApp, OneRuns
  <2> QED BY <1>d, <1>k, <2>1, <2>3 DEF Serving
<1>4. ASSUME NEW s \in Sessions, AgentExits(s) \/ PollPid(s) \/ AgentReports(s) \/ Merged(s) PROVE Serving'
  BY <1>4, EventServes DEF Serving
<1>5. CASE UNCHANGED vars
  <2>1. UNCHANGED <<session, worker, checkout, run, op>> BY <1>5 DEF vars
  <2>2. \A p \in Commands : Relies(p)'
    BY <2>1 DEF Serving, Relies, Underway, SpawnClaims, HasRow, Bound, Housed, MayGiveBack, Exists, CanBeRun,
       Is, HasWorker, LeasedTo
  <2> QED BY <1>k, <2>1, <2>2 DEF Serving
<1> QED BY <1>1, <1>2, <1>3, <1>4, <1>5 DEF Next

LEMMA AlwaysServing ==
  ASSUME Width = 1, Backend = "tmux", "relaunch" \notin Kinds PROVE Spec => []Serving
<1> DEFINE Inv == OpsInv /\ LaunchInv /\ OneRuns /\ Serving
<1>1. Init => Inv BY InitOpsInv, InitLaunchInv, InitRecovering, InitServing
<1>2. Inv /\ [Next]_vars => Inv'
  <2> SUFFICES ASSUME Inv, [Next]_vars PROVE Inv' OBVIOUS
  <2>1. OpsInv' BY NextOpsInv
  <2> QED BY <2>1, NextLaunchInv, NextOneRuns, NextServing
<1>3. Inv => Serving OBVIOUS
<1> HIDE DEF Inv
<1> QED BY <1>1, <1>2, <1>3, PTL DEF Spec

(* Where tmux creates the sessions and nothing relaunches an agent behind the    *)
(* tables, commands that run one after the other keep every agent in a checkout  *)
(* that is leased to its session, whatever fails or crashes in them and whatever *)
(* the agents and the poller do meanwhile (workers.rs, events.rs, store.rs).     *)
THEOREM SerialKeepsCheckout ==
  ASSUME Width = 1, Backend = "tmux", "relaunch" \notin Kinds PROVE Spec => []RuntimeOwnsCheckout
<1>1. Serving => RuntimeOwnsCheckout BY DEF Serving, Serves, RuntimeOwnsCheckout, OwnsCheckout, InPool
<1> QED BY <1>1, AlwaysServing, PTL

(* Under the same conditions an agent that runs when no command does is the one  *)
(* of its session's row and incarnation, and a Working row has an incarnation.   *)
THEOREM SerialKeepsRows ==
  ASSUME Width = 1, Backend = "tmux", "relaunch" \notin Kinds PROVE Spec => []RowsMatchAgents
<1>1. Serving => RowsMatchAgents BY DEF Serving, Serves, RowsMatchAgents, LiveAgentKnown, WorkingHasWorker
<1> QED BY <1>1, AlwaysServing, PTL
=============================================================================
