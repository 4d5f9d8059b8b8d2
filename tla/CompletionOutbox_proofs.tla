---------------------- MODULE CompletionOutbox_proofs ----------------------
(* Theorems about CompletionOutbox, for every set of workers, orchestrators and  *)
(* pollers and every value of the bounds.                                       *)
EXTENDS CompletionOutbox, TLAPS

USE TimeAssumption, CountAssumption, OwnerAssumption, NothingAssumption, ApartAssumption

LEMMA InitTypeOK == Init => TypeOK
  BY DEF Init, TypeOK, Completions, NoWorker, WorkerRow, NoRow, OutboxRow, RowState, Idle,
         PollerState, NoRemoval

(* A row of a table with a field replaced is a row of the table.                 *)
LEMMA WorkerUpdate ==
  ASSUME NEW r \in WorkerRow, NEW s \in {"active", "retained"}, NEW b \in BOOLEAN,
         NEW o \in Orchs \cup {Nobody}
  PROVE  /\ [r EXCEPT !.state = s] \in WorkerRow
         /\ [r EXCEPT !.busy = b] \in WorkerRow
         /\ [r EXCEPT !.owner = o] \in WorkerRow
  BY DEF WorkerRow

LEMMA RowUpdate ==
  ASSUME NEW r \in OutboxRow, NEW s \in RowState, NEW t \in -MaxOverdue..Retry
  PROVE  /\ [r EXCEPT !.wait = t] \in OutboxRow
         /\ [r EXCEPT !.state = s, !.wait = t] \in OutboxRow
  BY DEF OutboxRow, RowState

LEMMA ZeroWait == 0 \in -MaxOverdue..Retry
  OBVIOUS

LEMMA NoWorkerType == NoWorker \in WorkerRow
  BY DEF NoWorker, WorkerRow

(* What every deletion of a session does to the tables.                         *)
LEMMA DeleteTypeOK ==
  ASSUME TypeOK, NEW w \in Workers, DeleteSession(w)
  PROVE  row' \in [Completions -> OutboxRow] /\ worker' \in [Workers -> WorkerRow]
<1>1. ASSUME NEW c \in Completions
      PROVE  [row[c] EXCEPT !.state = "deleted", !.wait = 0] \in OutboxRow
  <2>1. row[c] \in OutboxRow /\ "deleted" \in RowState BY DEF TypeOK, RowState
  <2> QED BY <2>1, RowUpdate, ZeroWait
<1>2. DeletedRows(w) \in [Completions -> OutboxRow] BY <1>1 DEF TypeOK, DeletedRows
<1> QED BY <1>2, NoWorkerType DEF TypeOK, DeleteSession

LEMMA NextTypeOK == TypeOK /\ [Next]_vars => TypeOK'
<1> SUFFICES ASSUME TypeOK, [Next]_vars PROVE TypeOK'
  OBVIOUS
<1> USE DEF TypeOK
<1>1. ASSUME NEW w \in Workers,
             \/ Prepare(w) \/ \E m \in Summaries : Complete(w, m)
             \/ ClaimWorker(w) \/ UnclaimWorker(w) \/ Resume(w)
      PROVE  TypeOK'
  <2>w. worker[w] \in WorkerRow OBVIOUS
  <2>1. CASE Prepare(w) BY <2>w, <2>1 DEF Prepare, WorkerRow
  <2>2. ASSUME NEW m \in Summaries, Complete(w, m) PROVE TypeOK'
    <3>1. [worker[w] EXCEPT !.state = "retained"] \in WorkerRow BY <2>w, WorkerUpdate
    <3>2. worker[w].owner \in orchs BY <2>2 DEF Complete
    <3>3. [state |-> "pending", from |-> w, to |-> worker[w].owner, text |-> m, wait |-> 0]
            \in OutboxRow
      BY <3>2, ZeroWait DEF OutboxRow, RowState
    <3> QED BY <2>2, <3>1, <3>3 DEF Complete
  <2>3. CASE ClaimWorker(w)
    <3>1. [worker[w] EXCEPT !.busy = TRUE] \in WorkerRow BY <2>w, WorkerUpdate
    <3> QED BY <2>3, <3>1 DEF ClaimWorker
  <2>4. CASE UnclaimWorker(w)
    <3>1. [worker[w] EXCEPT !.busy = FALSE] \in WorkerRow BY <2>w, WorkerUpdate
    <3> QED BY <2>4, <3>1 DEF UnclaimWorker
  <2>5. CASE Resume(w)
    <3>1. [worker[w] EXCEPT !.state = "active"] \in WorkerRow BY <2>w, WorkerUpdate
    <3> QED BY <2>5, <3>1 DEF Resume
  <2> QED BY <1>1, <2>1, <2>2, <2>3, <2>4, <2>5
<1>2. ASSUME NEW w \in Workers, RemoveSession(w) \/ Sweep(w) PROVE TypeOK'
  <2>1. DeleteSession(w) BY <1>2 DEF RemoveSession, Sweep
  <2> QED BY <1>2, <2>1, DeleteTypeOK DEF RemoveSession, Sweep
<1>3. ASSUME NEW o \in Orchs,
             BeginRemoval(o) \/ BeginKeeping(o) \/ AbandonRemoval(o) \/ EndRemoval(o)
      PROVE  TypeOK'
  <2>1. CASE BeginRemoval(o)
    <3>1. \A w \in Workers : [worker[w] EXCEPT !.busy = TRUE] \in WorkerRow BY WorkerUpdate
    <3>2. worker' \in [Workers -> WorkerRow] BY <2>1, <3>1 DEF BeginRemoval
    <3> QED BY <2>1, <3>2 DEF BeginRemoval, WorkersOf
  <2>2. CASE BeginKeeping(o) BY <2>2 DEF BeginKeeping, WorkersOf
  <2>3. CASE EndRemoval(o) BY <2>3, NoWorkerType DEF EndRemoval, NoRemoval
  <2>4. CASE AbandonRemoval(o)
    <3>1. \A w \in Workers : [worker[w] EXCEPT !.busy = FALSE] \in WorkerRow BY WorkerUpdate
    <3>2. worker' \in [Workers -> WorkerRow] BY <2>4, <3>1 DEF AbandonRemoval
    <3> QED BY <2>4, <3>2 DEF AbandonRemoval, NoRemoval
  <2> QED BY <1>3, <2>1, <2>2, <2>3, <2>4
<1>4. ASSUME NEW o \in Orchs, NEW w \in Workers,
             RemovalDeletes(o, w) \/ KeepingDeletes(o, w) \/ KeepingDetaches(o, w)
      PROVE  TypeOK'
  <2>1. removal[o].left \ {w} \in SUBSET Workers OBVIOUS
  <2>2. CASE RemovalDeletes(o, w)
    <3>1. DeleteSession(w) BY <2>2 DEF RemovalDeletes
    <3>2. removal' \in [Orchs -> [at : {"none", "delete", "keep"}, left : SUBSET Workers]]
      BY <2>1, <2>2 DEF RemovalDeletes
    <3> QED BY <2>2, <3>1, <3>2, DeleteTypeOK DEF RemovalDeletes
  <2>3. CASE KeepingDeletes(o, w)
    <3>1. DeleteSession(w) BY <2>3 DEF KeepingDeletes
    <3>2. removal' \in [Orchs -> [at : {"none", "delete", "keep"}, left : SUBSET Workers]]
      BY <2>1, <2>3 DEF KeepingDeletes
    <3> QED BY <2>3, <3>1, <3>2, DeleteTypeOK DEF KeepingDeletes
  <2>4. CASE KeepingDetaches(o, w)
    <3>1. removal' \in [Orchs -> [at : {"none", "delete", "keep"}, left : SUBSET Workers]]
      BY <2>1, <2>4 DEF KeepingDetaches
    <3>2. worker[w] \in WorkerRow /\ worker[w].owner \in Orchs \cup {Nobody} BY DEF WorkerRow
    <3>3. [worker[w] EXCEPT !.owner = IF Exists(w) THEN Nobody ELSE @] \in WorkerRow
      BY <3>2, WorkerUpdate
    <3>4. worker' = [worker EXCEPT ![w] =
             [worker[w] EXCEPT !.owner = IF Exists(w) THEN Nobody ELSE @]]
      BY <2>4 DEF KeepingDetaches
    <3>5. worker' \in [Workers -> WorkerRow] BY <3>3, <3>4
    <3> QED BY <2>4, <3>1, <3>5 DEF KeepingDetaches
  <2> QED BY <1>4, <2>2, <2>3, <2>4
<1>5. ASSUME NEW p \in Pollers, PollerStep(p) \/ PollerDies(p) PROVE TypeOK'
  <2>p. poller[p] \in PollerState OBVIOUS
  <2> USE DEF PollerState, Idle
  <2>1. CASE Poll(p) BY <2>1 DEF Poll
  <2>2. CASE ClaimNothing(p) BY <2>2 DEF ClaimNothing
  <2>3. CASE PollerStarts(p)
    <3>1. [poller[p] EXCEPT !.at = "idle"] \in PollerState BY <2>p, <2>3 DEF PollerStarts
    <3> QED BY <2>3, <3>1 DEF PollerStarts
  <2>4. ASSUME NEW c \in Completions, ClaimDelivery(p, c) PROVE TypeOK'
    <3>1. poller[p].age \in 0..MaxLag BY <2>4 DEF ClaimDelivery
    <3>2. NextAttempt(p) \in -MaxOverdue..Retry BY <3>1 DEF NextAttempt
    <3>3. [row[c] EXCEPT !.wait = NextAttempt(p)] \in OutboxRow BY <3>2, RowUpdate DEF RowState
    <3>4. [poller[p] EXCEPT !.at = "send", !.age = 0, !.job = c] \in PollerState
      <4>1. poller[p] \in [at : {"claim"}, age : 0..MaxLag, job : {0}, polled : BOOLEAN]
        BY <2>p, <2>4 DEF ClaimDelivery
      <4>2. 0 \in 0..MaxSend OBVIOUS
      <4>3. [poller[p] EXCEPT !.at = "send", !.age = 0, !.job = c]
              \in [at : {"send"}, age : 0..MaxSend, job : Completions, polled : BOOLEAN]
        BY <4>1, <4>2 DEF Completions
      <4> QED BY <4>3
    <3>5. poller' \in [Pollers -> PollerState] BY <2>4, <3>4 DEF ClaimDelivery
    <3>6. row' \in [Completions -> OutboxRow] BY <2>4, <3>3 DEF ClaimDelivery
    <3> QED BY <2>4, <3>5, <3>6 DEF ClaimDelivery
  <2>5. ASSUME NEW c \in Completions, Send(p, c) PROVE TypeOK' BY <2>5 DEF Send, Sent
  <2>6. ASSUME NEW c \in Completions, SendFails(p, c) PROVE TypeOK' BY <2>6 DEF SendFails, Sent
  <2>7. CASE PollerDies(p) BY <2>7 DEF PollerDies
  <2> QED BY <1>5, <2>1, <2>2, <2>3, <2>4, <2>5, <2>6, <2>7 DEF PollerStep
<1>6. ASSUME NEW c \in Completions,
             \/ LoseNudge(c) \/ Acknowledge(c) \/ AcknowledgeNothing(c)
             \/ PrintSummary(c) \/ ReceiverDies(c)
      PROVE  TypeOK'
  <2>1. CASE LoseNudge(c) BY <2>1 DEF LoseNudge
  <2>2. CASE Acknowledge(c)
    <3>1. row[c] \in OutboxRow /\ "acked" \in RowState BY DEF RowState
    <3>2. [row[c] EXCEPT !.state = "acked", !.wait = 0] \in OutboxRow
      BY <3>1, RowUpdate, ZeroWait
    <3>3. row' \in [Completions -> OutboxRow] BY <2>2, <3>2 DEF Acknowledge
    <3>4. row[c].text \in Summaries \cup {Nothing} BY <3>1 DEF OutboxRow
    <3> QED BY <2>2, <3>3, <3>4 DEF Acknowledge
  <2>3. CASE AcknowledgeNothing(c) BY <2>3 DEF AcknowledgeNothing
  <2>4. CASE PrintSummary(c) BY <2>4 DEF PrintSummary
  <2>5. CASE ReceiverDies(c) BY <2>5 DEF ReceiverDies
  <2> QED BY <1>6, <2>1, <2>2, <2>3, <2>4, <2>5
<1>7. ASSUME Tick PROVE TypeOK'
  <2>1. ASSUME NEW c \in Completions
        PROVE  [row[c] EXCEPT !.wait = Later(@)] \in OutboxRow
    <3>1. row[c] \in OutboxRow OBVIOUS
    <3>2. Later(row[c].wait) \in -MaxOverdue..Retry BY <3>1 DEF Later, OutboxRow
    <3> QED BY <3>1, <3>2, RowUpdate DEF RowState
  <2>2. row' \in [Completions -> OutboxRow] BY <1>7, <2>1 DEF Tick
  <2>3. ASSUME NEW p \in Pollers
        PROVE  [poller[p] EXCEPT !.polled = FALSE,
                  !.age = IF poller[p].at \in {"claim", "send"} THEN @ + 1 ELSE @] \in PollerState
    <3>1. poller[p] \in PollerState /\ MayPass(p) BY <1>7 DEF Tick
    <3>2. CASE poller[p].at = "claim"
      <4>1. poller[p] \in [at : {"claim"}, age : 0..MaxLag, job : {0}, polled : BOOLEAN]
        BY <3>1, <3>2 DEF PollerState
      <4>2. poller[p].age + 1 \in 0..MaxLag BY <4>1, <3>1, <3>2 DEF MayPass
      <4>3. [poller[p] EXCEPT !.polled = FALSE, !.age = @ + 1]
              \in [at : {"claim"}, age : 0..MaxLag, job : {0}, polled : BOOLEAN]
        BY <4>1, <4>2
      <4> QED BY <3>2, <4>3 DEF PollerState
    <3>3. CASE poller[p].at = "send"
      <4>1. poller[p] \in [at : {"send"}, age : 0..MaxSend, job : Completions, polled : BOOLEAN]
        BY <3>1, <3>3 DEF PollerState
      <4>2. poller[p].age + 1 \in 0..MaxSend BY <4>1, <3>1, <3>3 DEF MayPass
      <4>3. [poller[p] EXCEPT !.polled = FALSE, !.age = @ + 1]
              \in [at : {"send"}, age : 0..MaxSend, job : Completions, polled : BOOLEAN]
        BY <4>1, <4>2
      <4> QED BY <3>3, <4>3 DEF PollerState
    <3>4. CASE poller[p].at \notin {"claim", "send"} BY <3>1, <3>4 DEF PollerState
    <3> QED BY <3>2, <3>3, <3>4
  <2>4. poller' \in [Pollers -> PollerState] BY <1>7, <2>3 DEF Tick
  <2> QED BY <1>7, <2>2, <2>4 DEF Tick
<1>8. ASSUME UNCHANGED vars PROVE TypeOK'
  BY <1>8 DEF vars
<1> QED BY <1>1, <1>2, <1>3, <1>4, <1>5, <1>6, <1>7, <1>8 DEF Next

(* The tables, the pollers and the receivers always hold values of their kinds.  *)
THEOREM TypeCorrect == Spec => []TypeOK
<1>1. QED BY InitTypeOK, NextTypeOK, PTL DEF Spec

-----------------------------------------------------------------------------
(* Why the outbox implements CompletionHandoff.  What is to be delivered has not  *)
(* been taken; what is taken is not yet read and has a reader; and a completion   *)
(* that has not been deleted, of an orchestrator that has not, has a worker,      *)
(* still the orchestrator's or detached.  So a session that is deleted a second   *)
(* time, by a removal that listed it before, takes no result with it.            *)
NoResult(c) == row[c].state = "none" => receiving[c] = Nothing /\ shown[c] = <<>>
ResultKept(c) ==
  row[c].state # "none" =>
    row[c].from \in Workers /\ row[c].to \in Orchs /\ row[c].text \in Summaries
PendingIsFree(c) == Pending(c) => receiving[c] = Nothing /\ shown[c] = <<>>
TakenHasReader(c) ==
  receiving[c] # Nothing =>
    shown[c] = <<>> /\ receiving[c] = row[c].text /\ row[c].to \in orchs
ResultHasWorker(c) ==
  row[c].state \in {"pending", "acked"} /\ row[c].to \in orchs =>
    Exists(row[c].from) /\ worker[row[c].from].owner \in {row[c].to, Nobody}

HandoffInv ==
  /\ \A c \in Completions :
       /\ NoResult(c) /\ ResultKept(c) /\ PendingIsFree(c) /\ TakenHasReader(c)
       /\ ResultHasWorker(c)
  /\ \A c \in nudged : row[c].to \in orchs
  /\ \A o \in Orchs : removal[o].at # "none" => o \in orchs

LEMMA InitHandoffInv == Init => HandoffInv
  BY DEF Init, HandoffInv, NoRow, NoRemoval, NoResult, ResultKept, Pending, PendingIsFree,
         TakenHasReader, ResultHasWorker

(* Deleting a session leaves its completions without a worker, but deleted.      *)
LEMMA DeleteHandoffInv ==
  ASSUME TypeOK, HandoffInv, NEW w \in Workers, DeleteSession(w),
         UNCHANGED <<orchs, nudged, receiving, shown>>,
         \A o \in Orchs : removal'[o].at = removal[o].at
  PROVE  HandoffInv'
<1> USE DEF HandoffInv
<1>1. ASSUME NEW c \in Completions
      PROVE  (/\ NoResult(c) /\ ResultKept(c) /\ PendingIsFree(c) /\ TakenHasReader(c)
              /\ ResultHasWorker(c))'
  <2>0. row[c] \in OutboxRow BY DEF TypeOK
  <2>1. CASE row[c].from = w /\ row[c].state # "none"
    <3>1. row'[c] = [row[c] EXCEPT !.state = "deleted", !.wait = 0]
      BY <2>1 DEF DeleteSession, DeletedRows
    <3>2. /\ row'[c].state = "deleted" /\ row'[c].from = row[c].from
          /\ row'[c].to = row[c].to /\ row'[c].text = row[c].text
      BY <2>0, <3>1 DEF OutboxRow
    <3> QED BY <2>1, <3>2 DEF NoResult, ResultKept, Pending, PendingIsFree, TakenHasReader,
               ResultHasWorker
  <2>2. CASE ~(row[c].from = w /\ row[c].state # "none")
    <3>1. row'[c] = row[c] BY <2>2 DEF DeleteSession, DeletedRows
    <3>2. \A v \in Workers : v # w => worker'[v] = worker[v] BY DEF DeleteSession, TypeOK
    <3>3. ResultHasWorker(c)' BY <2>2, <3>1, <3>2 DEF ResultHasWorker, ResultKept, Exists
    <3> QED BY <3>1, <3>3 DEF NoResult, ResultKept, Pending, PendingIsFree, TakenHasReader
  <2> QED BY <2>1, <2>2
<1>2. \A c \in nudged' : row'[c].to \in orchs'
  <2> SUFFICES ASSUME NEW c \in nudged PROVE row'[c].to = row[c].to
    OBVIOUS
  <2>1. c \in Completions /\ row[c] \in OutboxRow BY DEF TypeOK
  <2>2. row'[c] = row[c] \/ row'[c] = [row[c] EXCEPT !.state = "deleted", !.wait = 0]
    BY <2>1 DEF DeleteSession, DeletedRows
  <2> QED BY <2>1, <2>2 DEF OutboxRow
<1> QED BY <1>1, <1>2

(* A step that leaves completions, receivers and orchestrators alone, keeps the  *)
(* workers that exist and takes none from its orchestrator but to detach it.     *)
LEMMA SameHandoffInv ==
  ASSUME TypeOK, HandoffInv,
         \A c \in Completions : /\ row'[c].state = row[c].state /\ row'[c].from = row[c].from
                                /\ row'[c].to = row[c].to /\ row'[c].text = row[c].text,
         \A w \in Workers : Exists(w) =>
           Exists(w)' /\ worker'[w].owner \in {worker[w].owner, Nobody},
         UNCHANGED <<orchs, receiving, shown>>,
         \A c \in nudged' : row[c].to \in orchs,
         nudged' \subseteq Completions,
         \A o \in Orchs : removal'[o].at # "none" => o \in orchs
  PROVE  HandoffInv'
<1>1. ASSUME NEW c \in Completions PROVE ResultHasWorker(c)'
  BY DEF HandoffInv, ResultHasWorker, ResultKept
<1> QED BY <1>1 DEF HandoffInv, NoResult, ResultKept, Pending, PendingIsFree, TakenHasReader

LEMMA RemovalKeepsWorkers ==
  ASSUME TypeOK, NEW o \in Orchs, BeginRemoval(o) \/ BeginKeeping(o) \/ AbandonRemoval(o)
  PROVE  \A v \in Workers : worker'[v].inc = worker[v].inc /\ worker'[v].owner = worker[v].owner
<1> SUFFICES ASSUME NEW v \in Workers
             PROVE  worker'[v].inc = worker[v].inc /\ worker'[v].owner = worker[v].owner
  OBVIOUS
<1>1. worker[v] \in WorkerRow BY DEF TypeOK
<1>2. \/ worker'[v] = worker[v]
      \/ worker'[v] = [worker[v] EXCEPT !.busy = TRUE]
      \/ worker'[v] = [worker[v] EXCEPT !.busy = FALSE]
  BY DEF BeginRemoval, BeginKeeping, AbandonRemoval
<1> QED BY <1>1, <1>2 DEF WorkerRow

LEMMA NextHandoffInv == TypeOK /\ HandoffInv /\ [Next]_vars => HandoffInv'
<1> SUFFICES ASSUME TypeOK, HandoffInv, [Next]_vars PROVE HandoffInv'
  OBVIOUS
<1>t. TypeOK' BY NextTypeOK
<1>n. nudged' \subseteq Completions BY <1>t DEF TypeOK
<1>h. /\ \A c \in nudged : row[c].to \in orchs
      /\ \A o \in Orchs : removal[o].at # "none" => o \in orchs
  BY DEF HandoffInv
<1>1. ASSUME NEW w \in Workers,
             Prepare(w) \/ ClaimWorker(w) \/ UnclaimWorker(w) \/ Resume(w)
      PROVE  HandoffInv'
  <2>1. UNCHANGED <<orchs, row, removal, nudged, receiving, shown>>
    BY <1>1 DEF Prepare, ClaimWorker, UnclaimWorker, Resume
  <2>2. ASSUME NEW v \in Workers, Exists(v)
        PROVE  Exists(v)' /\ worker'[v].owner \in {worker[v].owner, Nobody}
    <3>1. worker[v] \in WorkerRow /\ worker[w] \in WorkerRow BY DEF TypeOK
    <3>2. CASE v # w
      <4>1. worker'[v] = worker[v]
        BY <1>1, <3>2 DEF TypeOK, Prepare, ClaimWorker, UnclaimWorker, Resume
      <4> QED BY <2>2, <4>1 DEF Exists
    <3>3. CASE v = w /\ Prepare(w) BY <2>2, <3>1, <3>3 DEF Prepare, Exists, TypeOK
    <3>4. CASE v = w /\ ~Prepare(w)
      BY <1>1, <2>2, <3>1, <3>4
         DEF ClaimWorker, UnclaimWorker, Resume, Exists, TypeOK, WorkerRow
    <3> QED BY <3>2, <3>3, <3>4
  <2> QED BY <1>h, <1>n, <2>1, <2>2, SameHandoffInv
<1>2. ASSUME NEW w \in Workers, NEW m \in Summaries, Complete(w, m) PROVE HandoffInv'
  <2> DEFINE d == worker[w].inc
  <2>1. worker[w] \in WorkerRow /\ worker[w].owner \in orchs /\ d \in Completions
    BY <1>2 DEF TypeOK, Complete, WorkerRow, Exists, Completions
  <2>2. row'[d] = [state |-> "pending", from |-> w, to |-> worker[w].owner, text |-> m, wait |-> 0]
    BY <1>2, <2>1 DEF Complete, TypeOK
  <2>3. \A c \in Completions : c # d => row'[c] = row[c] BY <1>2 DEF Complete, TypeOK
  <2>4. \A v \in Workers : worker'[v].inc = worker[v].inc /\ worker'[v].owner = worker[v].owner
    BY <1>2 DEF Complete, TypeOK, WorkerRow
  <2>5. UNCHANGED <<orchs, removal, nudged, receiving, shown>> BY <1>2 DEF Complete
  <2>6. ASSUME NEW c \in Completions
        PROVE  (/\ NoResult(c) /\ ResultKept(c) /\ PendingIsFree(c) /\ TakenHasReader(c)
                /\ ResultHasWorker(c))'
    <3>1. CASE c = d
      <4>1. receiving[d] = Nothing /\ shown[d] = <<>>
        BY <1>2, <2>1 DEF HandoffInv, NoResult, Complete
      <4>2. Exists(w)' BY <1>2, <2>4 DEF Complete, Exists
      <4>3. worker'[w].owner = worker[w].owner /\ worker[w].owner \in Orchs
        BY <2>1, <2>4 DEF TypeOK
      <4> QED BY <2>2, <2>5, <3>1, <4>1, <4>2, <4>3
              DEF NoResult, ResultKept, PendingIsFree, TakenHasReader, ResultHasWorker
    <3>2. CASE c # d
      <4>1. row'[c] = row[c] BY <2>3, <3>2
      <4>2. \A v \in Workers : Exists(v) => Exists(v)' BY <2>4 DEF Exists
      <4> QED BY <2>4, <2>5, <4>1, <4>2
              DEF HandoffInv, NoResult, ResultKept, Pending, PendingIsFree, TakenHasReader,
                  ResultHasWorker
    <3> QED BY <3>1, <3>2
  <2>7. ASSUME NEW c \in nudged' PROVE row'[c].to \in orchs'
    BY <1>h, <1>n, <2>1, <2>2, <2>3, <2>5
  <2> QED BY <1>h, <2>5, <2>6, <2>7 DEF HandoffInv
<1>3. ASSUME NEW w \in Workers, RemoveSession(w) \/ Sweep(w) PROVE HandoffInv'
  <2>1. DeleteSession(w) /\ UNCHANGED <<orchs, removal, nudged, receiving, shown>>
    BY <1>3 DEF RemoveSession, Sweep
  <2> QED BY <2>1, DeleteHandoffInv
<1>4. ASSUME NEW o \in Orchs, BeginRemoval(o) \/ BeginKeeping(o) \/ AbandonRemoval(o)
      PROVE  HandoffInv'
  <2>1. UNCHANGED <<orchs, row, nudged, receiving, shown>>
    BY <1>4 DEF BeginRemoval, BeginKeeping, AbandonRemoval
  <2>2. \A v \in Workers : worker'[v].inc = worker[v].inc /\ worker'[v].owner = worker[v].owner
    BY <1>4, RemovalKeepsWorkers
  <2>3. \A v \in Workers : Exists(v) => Exists(v)' BY <2>2 DEF Exists
  <2>4. \A q \in Orchs : removal'[q].at # "none" => q \in orchs
    <3>1. o \in orchs BY <1>4, <1>h DEF BeginRemoval, BeginKeeping, AbandonRemoval
    <3>2. \A q \in Orchs : q # o => removal'[q] = removal[q]
      BY <1>4 DEF BeginRemoval, BeginKeeping, AbandonRemoval, TypeOK
    <3> QED BY <1>h, <3>1, <3>2
  <2> QED BY <1>h, <1>n, <2>1, <2>2, <2>3, <2>4, SameHandoffInv
<1>5. ASSUME NEW o \in Orchs, NEW w \in Workers, RemovalDeletes(o, w) \/ KeepingDeletes(o, w)
      PROVE  HandoffInv'
  <2>1. DeleteSession(w) /\ UNCHANGED <<orchs, nudged, receiving, shown>>
    BY <1>5 DEF RemovalDeletes, KeepingDeletes
  <2>2. \A q \in Orchs : removal'[q].at = removal[q].at
    <3> SUFFICES ASSUME NEW q \in Orchs PROVE removal'[q].at = removal[q].at
      OBVIOUS
    <3>1. removal[q] \in [at : {"none", "delete", "keep"}, left : SUBSET Workers]
      BY DEF TypeOK
    <3>2. removal' = [removal EXCEPT ![o].left = @ \ {w}]
      BY <1>5 DEF RemovalDeletes, KeepingDeletes
    <3>3. CASE q # o BY <3>2, <3>3 DEF TypeOK
    <3>4. CASE q = o BY <3>1, <3>2, <3>4 DEF TypeOK
    <3> QED BY <3>3, <3>4
  <2> QED BY <2>1, <2>2, DeleteHandoffInv
<1>6. ASSUME NEW o \in Orchs, NEW w \in Workers, KeepingDetaches(o, w) PROVE HandoffInv'
  <2>1. \A v \in Workers : /\ worker'[v].inc = worker[v].inc
                           /\ worker'[v].owner \in {worker[v].owner, Nobody}
    BY <1>6 DEF KeepingDetaches, TypeOK, WorkerRow
  <2>2. \A v \in Workers : Exists(v) => Exists(v)' BY <2>1 DEF Exists
  <2>3. \A q \in Orchs : removal'[q].at # "none" => q \in orchs
    BY <1>6, <1>h DEF KeepingDetaches, TypeOK
  <2>4. UNCHANGED <<orchs, row, nudged, receiving, shown>> BY <1>6 DEF KeepingDetaches
  <2> QED BY <1>h, <1>n, <2>1, <2>2, <2>3, <2>4, SameHandoffInv
<1>7. ASSUME NEW o \in Orchs, EndRemoval(o) PROVE HandoffInv'
  <2>1. /\ UNCHANGED <<row, shown>>
        /\ orchs' = orchs \ {o}
        /\ nudged' = {c \in nudged : row[c].to # o}
        /\ \A c \in Completions :
             receiving'[c] = IF row[c].to = o THEN Nothing ELSE receiving[c]
    BY <1>7 DEF EndRemoval
  <2>2. ASSUME NEW c \in Completions
        PROVE  (/\ NoResult(c) /\ ResultKept(c) /\ PendingIsFree(c) /\ TakenHasReader(c)
                /\ ResultHasWorker(c))'
    <3>1. ASSUME row[c].state \in {"pending", "acked"}, row[c].to \in orchs \ {o}
          PROVE  Exists(row[c].from)' /\ worker'[row[c].from] = worker[row[c].from]
      <4>1. /\ row[c].from \in Workers /\ Exists(row[c].from)
            /\ worker[row[c].from].owner \in {row[c].to, Nobody}
        BY <3>1 DEF HandoffInv, ResultHasWorker, ResultKept
      <4>2. row[c].from \notin WorkersOf(o) BY <3>1, <4>1 DEF WorkersOf
      <4>3. worker'[row[c].from] = worker[row[c].from] BY <1>7, <4>1, <4>2 DEF EndRemoval
      <4> QED BY <2>1, <4>1, <4>3 DEF Exists
    <3>2. ResultHasWorker(c)' BY <2>1, <3>1 DEF HandoffInv, ResultHasWorker
    <3> QED BY <2>1, <3>2
            DEF HandoffInv, NoResult, ResultKept, Pending, PendingIsFree, TakenHasReader
  <2>3. \A c \in nudged' : row'[c].to \in orchs' BY <1>h, <2>1
  <2>4. \A q \in Orchs : removal'[q].at # "none" => q \in orchs'
    BY <1>7, <1>h, <2>1 DEF EndRemoval, NoRemoval, TypeOK
  <2> QED BY <2>2, <2>3, <2>4 DEF HandoffInv
<1>8. ASSUME NEW p \in Pollers, PollerStep(p) \/ PollerDies(p) PROVE HandoffInv'
  <2>1. UNCHANGED <<worker, orchs, removal, receiving, shown>>
    BY <1>8 DEF PollerStep, Poll, ClaimNothing, PollerStarts, ClaimDelivery, Send, SendFails,
                PollerDies
  <2>2. \A c \in Completions : row'[c].state = row[c].state /\ row'[c].from = row[c].from
                               /\ row'[c].to = row[c].to /\ row'[c].text = row[c].text
    <3> SUFFICES ASSUME NEW c \in Completions
                 PROVE  row'[c].state = row[c].state /\ row'[c].from = row[c].from
                        /\ row'[c].to = row[c].to /\ row'[c].text = row[c].text
      OBVIOUS
    <3>1. row[c] \in OutboxRow BY DEF TypeOK
    <3>2. row' = row \/ \E d \in Completions : row' = [row EXCEPT ![d].wait = NextAttempt(p)]
      BY <1>8 DEF PollerStep, Poll, ClaimNothing, PollerStarts, ClaimDelivery, Send, SendFails,
                  PollerDies
    <3>3. row'[c] = row[c] \/ row'[c] = [row[c] EXCEPT !.wait = NextAttempt(p)]
      BY <3>2 DEF TypeOK
    <3> QED BY <3>1, <3>3 DEF OutboxRow
  <2>3. \A c \in nudged' : row[c].to \in orchs
    BY <1>8, <1>h DEF PollerStep, Poll, ClaimNothing, PollerStarts, ClaimDelivery, Send,
                      SendFails, PollerDies
  <2>4. \A v \in Workers : Exists(v) => Exists(v)' BY <2>1 DEF Exists
  <2> QED BY <1>h, <1>n, <2>1, <2>2, <2>3, <2>4, SameHandoffInv
<1>9. ASSUME NEW c \in Completions, LoseNudge(c) \/ AcknowledgeNothing(c) PROVE HandoffInv'
  <2>1. UNCHANGED <<worker, orchs, row, removal, receiving, shown>> /\ nudged' \subseteq nudged
    BY <1>9 DEF LoseNudge, AcknowledgeNothing
  <2>2. \A v \in Workers : Exists(v) => Exists(v)' BY <2>1 DEF Exists
  <2> QED BY <1>h, <1>n, <2>1, <2>2, SameHandoffInv
<1>10. ASSUME NEW c \in Completions, Acknowledge(c) \/ PrintSummary(c) \/ ReceiverDies(c)
       PROVE  HandoffInv'
  <2>1. UNCHANGED <<worker, orchs, removal>>
    BY <1>10 DEF Acknowledge, PrintSummary, ReceiverDies
  <2>2. ASSUME NEW d \in Completions
        PROVE  row'[d].from = row[d].from /\ row'[d].to = row[d].to /\ row'[d].text = row[d].text
    <3>1. row[d] \in OutboxRow BY DEF TypeOK
    <3>2. row'[d] = row[d] \/ row'[d] = [row[d] EXCEPT !.state = "acked", !.wait = 0]
      BY <1>10 DEF Acknowledge, PrintSummary, ReceiverDies, TypeOK
    <3> QED BY <3>1, <3>2 DEF OutboxRow
  <2>3. Acknowledge(c) => row'[c].state = "acked"
    <3>1. row[c] \in OutboxRow BY DEF TypeOK
    <3>2. Acknowledge(c) => row'[c] = [row[c] EXCEPT !.state = "acked", !.wait = 0]
      BY DEF Acknowledge, TypeOK
    <3> QED BY <3>1, <3>2 DEF OutboxRow
  <2>4. \A d \in Completions : d # c =>
          row'[d] = row[d] /\ receiving'[d] = receiving[d] /\ shown'[d] = shown[d]
    BY <1>10 DEF Acknowledge, PrintSummary, ReceiverDies, TypeOK
  <2>5. nudged' \subseteq nudged BY <1>10 DEF Acknowledge, PrintSummary, ReceiverDies
  <2>6. ASSUME NEW d \in Completions
        PROVE  (/\ NoResult(d) /\ ResultKept(d) /\ PendingIsFree(d) /\ TakenHasReader(d)
                /\ ResultHasWorker(d))'
    <3>1. CASE d # c
      BY <2>1, <2>4, <3>1 DEF HandoffInv, NoResult, ResultKept, Pending, PendingIsFree,
                              TakenHasReader, ResultHasWorker, Exists
    <3>2. CASE d = c
      <4>1. CASE Acknowledge(c)
        <5>1. receiving'[c] = row[c].text /\ shown'[c] = shown[c] /\ row'[c].state = "acked"
              /\ row[c].state = "pending" /\ row[c].to \in orchs
          BY <4>1, <1>h, <2>3 DEF Acknowledge, CanAcknowledge, Pending, TypeOK
        <5> QED BY <2>1, <2>2, <3>2, <5>1
                DEF HandoffInv, NoResult, ResultKept, Pending, PendingIsFree, TakenHasReader,
                    ResultHasWorker, Exists
      <4>2. CASE ~Acknowledge(c)
        <5>1. receiving'[c] = Nothing /\ receiving[c] # Nothing /\ row' = row
          BY <1>10, <4>2 DEF PrintSummary, ReceiverDies, TypeOK
        <5> QED BY <2>1, <3>2, <5>1
                DEF HandoffInv, NoResult, ResultKept, Pending, PendingIsFree, TakenHasReader,
                    ResultHasWorker, Exists
      <4> QED BY <4>1, <4>2
    <3> QED BY <3>1, <3>2
  <2>7. \A d \in nudged' : row'[d].to \in orchs' BY <1>h, <1>n, <2>1, <2>2, <2>5
  <2> QED BY <1>h, <2>1, <2>6, <2>7 DEF HandoffInv
<1>11. ASSUME Tick PROVE HandoffInv'
  <2>1. UNCHANGED <<worker, orchs, removal, nudged, receiving, shown>> BY <1>11 DEF Tick
  <2>2. \A c \in Completions : row'[c].state = row[c].state /\ row'[c].from = row[c].from
                               /\ row'[c].to = row[c].to /\ row'[c].text = row[c].text
    <3> SUFFICES ASSUME NEW c \in Completions
                 PROVE  row'[c].state = row[c].state /\ row'[c].from = row[c].from
                        /\ row'[c].to = row[c].to /\ row'[c].text = row[c].text
      OBVIOUS
    <3>1. row[c] \in OutboxRow BY DEF TypeOK
    <3>2. row'[c] = row[c] \/ row'[c] = [row[c] EXCEPT !.wait = Later(@)]
      BY <1>11 DEF Tick
    <3> QED BY <3>1, <3>2 DEF OutboxRow
  <2>3. \A v \in Workers : Exists(v) => Exists(v)' BY <2>1 DEF Exists
  <2> QED BY <1>h, <1>n, <2>1, <2>2, <2>3, SameHandoffInv
<1>12. ASSUME UNCHANGED vars PROVE HandoffInv'
  <2>1. \A v \in Workers : Exists(v) => Exists(v)' BY <1>12 DEF vars, Exists
  <2> QED BY <1>12, <1>h, <1>n, <2>1, SameHandoffInv DEF vars
<1> QED BY <1>1, <1>2, <1>3, <1>4, <1>5, <1>6, <1>7, <1>8, <1>9, <1>10, <1>11, <1>12 DEF Next

-----------------------------------------------------------------------------
(* Every step of the outbox is a step of CompletionHandoff or changes nothing of  *)
(* what that module speaks of.                                                   *)

LEMMA InitImplements == Init => Abstract!HInit
<1> SUFFICES ASSUME Init PROVE Abstract!HInit
  OBVIOUS
<1>1. Present = Orchs BY DEF Init, Present, Exists, NoWorker
<1>2. ResultOf = [c \in Completions |-> Nothing] BY DEF Init, ResultOf, NoRow
<1>3. Held = {} /\ Withdrawn = {} BY DEF Init, Held, Withdrawn, NoRow
<1> QED BY <1>1, <1>2, <1>3 DEF Init, Abstract!HInit

\* What a completion is recorded as, and that it is not the absence of a result.
LEMMA ResultIsRecord ==
  ASSUME HandoffInv, NEW c \in Completions, row[c].state # "none"
  PROVE  /\ ResultOf[c].from = row[c].from /\ ResultOf[c].to = row[c].to
         /\ ResultOf[c].text = row[c].text
         /\ ResultOf[c] \in [from : Workers, to : Orchs, text : Summaries]
         /\ ResultOf[c] # Nothing
  BY DEF HandoffInv, ResultKept, ResultOf

LEMMA ResultsStay ==
  ASSUME \A c \in Completions : /\ row'[c].from = row[c].from /\ row'[c].to = row[c].to
                                /\ row'[c].text = row[c].text
                                /\ row'[c].state = "none" <=> row[c].state = "none"
  PROVE  ResultOf' = ResultOf
  BY DEF ResultOf

LEMMA SameImplements ==
  ASSUME \A c \in Completions : /\ row'[c].state = row[c].state /\ row'[c].from = row[c].from
                                /\ row'[c].to = row[c].to /\ row'[c].text = row[c].text,
         UNCHANGED <<orchs, receiving, shown>>
  PROVE  UNCHANGED <<ResultOf, Held, shown, Withdrawn>>
<1>1. ResultOf' = ResultOf BY ResultsStay
<1>2. Held' = Held /\ Withdrawn' = Withdrawn BY DEF Held, Withdrawn
<1> QED BY <1>1, <1>2

LEMMA DeleteImplements ==
  ASSUME TypeOK, HandoffInv, NEW w \in Workers, DeleteSession(w),
         UNCHANGED <<orchs, receiving, shown>>
  PROVE  Abstract!Leave({w}) \/ UNCHANGED Abstract!handoff
<1>1. ASSUME NEW c \in Completions
      PROVE  /\ row'[c].from = row[c].from /\ row'[c].to = row[c].to
             /\ row'[c].text = row[c].text
             /\ row'[c].state = IF row[c].from = w /\ row[c].state # "none"
                                THEN "deleted" ELSE row[c].state
  <2>1. row[c] \in OutboxRow BY DEF TypeOK
  <2> QED BY <2>1 DEF DeleteSession, DeletedRows, OutboxRow
<1>2. ResultOf' = ResultOf BY <1>1, ResultsStay
<1>3. Held' = Held BY DEF Held
<1>4. Present' = Present \ {w}
  <2>1. w \notin orchs BY DEF TypeOK
  <2>2. \A v \in Workers : Exists(v)' <=> v # w /\ Exists(v)
    BY DEF DeleteSession, TypeOK, Exists, NoWorker
  <2> QED BY <2>1, <2>2 DEF Present
<1>5. CASE Exists(w)
  <2> DEFINE C == Withdrawn' \ Withdrawn
  <2>1. {w} \subseteq Present BY <1>5 DEF Present
  <2>2. Withdrawn \subseteq Withdrawn' BY <1>1 DEF Withdrawn
  <2>3. ASSUME NEW c \in C
        PROVE  /\ c \in Abstract!Unread /\ {ResultOf[c].from, ResultOf[c].to} \cap {w} # {}
               /\ c \notin Held
    <3>1. c \in Completions /\ row[c].from = w /\ row[c].state # "none" /\ shown[c] = <<>>
          /\ receiving[c] = Nothing /\ c \notin Withdrawn
      BY <1>1 DEF Withdrawn
    <3>2. ResultOf[c] # Nothing /\ ResultOf[c].from = w BY <3>1, ResultIsRecord
    <3> QED BY <3>1, <3>2 DEF Abstract!Unread, Held
  <2>4. Held' = Held \ C /\ Withdrawn' = Withdrawn \cup C BY <1>3, <2>2, <2>3
  <2>5. C \in SUBSET {c \in Abstract!Unread : {ResultOf[c].from, ResultOf[c].to} \cap {w} # {}}
    BY <2>3
  <2> HIDE DEF C
  <2> QED BY <1>2, <1>4, <2>1, <2>4, <2>5 DEF Abstract!Leave
<1>6. CASE ~Exists(w)
  <2>1. Present' = Present
    <3>1. w \notin Present BY <1>6 DEF Present, TypeOK
    <3> QED BY <1>4, <3>1
  <2>2. ASSUME NEW c \in Completions, row[c].from = w, row[c].state # "none"
        PROVE  row[c].state \in {"acked", "deleted"} \/ row[c].to \notin orchs
    <3>1. row[c].state \in {"pending", "acked", "deleted"} BY <2>2 DEF TypeOK, OutboxRow, RowState
    <3> QED BY <1>6, <2>2, <3>1 DEF HandoffInv, ResultHasWorker
  <2>3. Withdrawn' = Withdrawn BY <1>1, <2>2 DEF Withdrawn
  <2> QED BY <1>2, <1>3, <2>1, <2>3 DEF Abstract!handoff
<1> QED BY <1>5, <1>6

LEMMA EndRemovalImplements ==
  ASSUME TypeOK, HandoffInv, NEW o \in Orchs, EndRemoval(o)
  PROVE  Abstract!Leave({o} \cup WorkersOf(o))
<1> DEFINE X == {o} \cup WorkersOf(o)
           C == Withdrawn' \ Withdrawn
<1>1. /\ UNCHANGED <<row, shown>>
      /\ orchs' = orchs \ {o} /\ o \in orchs
      /\ \A c \in Completions :
           receiving'[c] = IF row[c].to = o THEN Nothing ELSE receiving[c]
  BY DEF EndRemoval, HandoffInv
<1>2. ResultOf' = ResultOf BY <1>1, ResultsStay
<1>3. X \subseteq Present BY <1>1 DEF Present, WorkersOf
<1>4. Present' = Present \ X
  <2>1. \A v \in Workers : Exists(v)' <=> v \notin WorkersOf(o) /\ Exists(v)
    BY DEF EndRemoval, TypeOK, Exists, NoWorker
  <2>2. orchs \cap WorkersOf(o) = {} /\ o \notin Workers BY DEF WorkersOf, TypeOK
  <2> QED BY <1>1, <2>1, <2>2 DEF Present
<1>5. Withdrawn \subseteq Withdrawn' BY <1>1 DEF Withdrawn
<1>6. ASSUME NEW c \in C
      PROVE  c \in Abstract!Unread /\ {ResultOf[c].from, ResultOf[c].to} \cap X # {}
  <2>1. c \in Completions /\ row[c].to = o /\ row[c].state # "none" /\ shown[c] = <<>>
        /\ c \notin Withdrawn
    BY <1>1 DEF Withdrawn
  <2>2. ResultOf[c] # Nothing /\ ResultOf[c].to = o BY <2>1, ResultIsRecord
  <2> QED BY <2>1, <2>2 DEF Abstract!Unread
<1>7. Held' = Held \ C
  <2>1. ASSUME NEW c \in Completions PROVE c \in Held' <=> c \in Held \ C
    <3>1. CASE c \in Held /\ row[c].to = o
      <4>1. shown[c] = <<>> /\ row[c].state # "none"
        BY <3>1 DEF Held, HandoffInv, TakenHasReader, NoResult
      <4> QED BY <1>1, <3>1, <4>1 DEF Held, Withdrawn
    <3>2. CASE c \in Held /\ row[c].to # o BY <1>1, <3>2 DEF Held, Withdrawn
    <3>3. CASE c \notin Held BY <1>1, <3>3 DEF Held
    <3> QED BY <3>1, <3>2, <3>3
  <2> QED BY <2>1 DEF Held
<1>8. C \in SUBSET {c \in Abstract!Unread : {ResultOf[c].from, ResultOf[c].to} \cap X # {}}
  BY <1>6
<1>9. Withdrawn' = Withdrawn \cup C BY <1>5
<1> HIDE DEF X, C
<1>10. Abstract!Leave(X) BY <1>1, <1>2, <1>3, <1>4, <1>7, <1>8, <1>9 DEF Abstract!Leave
<1> QED BY <1>10 DEF X

LEMMA NextImplements ==
  TypeOK /\ HandoffInv /\ [Next]_vars => [Abstract!HNext]_(Abstract!handoff)
<1> SUFFICES ASSUME TypeOK, HandoffInv, [Next]_vars
             PROVE  Abstract!HNext \/ UNCHANGED Abstract!handoff
  OBVIOUS
<1>1. ASSUME NEW w \in Workers, Prepare(w) PROVE Abstract!Join(w)
  <2>1. UNCHANGED <<ResultOf, Held, shown, Withdrawn>> BY <1>1, SameImplements DEF Prepare
  <2>2. \A v \in Workers : Exists(v)' <=> v = w \/ Exists(v)
    BY <1>1 DEF Prepare, Exists, TypeOK
  <2>3. Present' = Present \cup {w} BY <1>1, <2>2 DEF Present, Prepare
  <2> QED BY <2>1, <2>3 DEF Abstract!Join
<1>2. ASSUME NEW w \in Workers, NEW m \in Summaries, Complete(w, m)
      PROVE  \E c \in Completions, r \in Abstract!Result : Abstract!Record(c, r)
  <2> DEFINE d == worker[w].inc
             r == [from |-> w, to |-> worker[w].owner, text |-> m]
  <2>1. worker[w] \in WorkerRow /\ worker[w].owner \in orchs /\ d \in Completions
    BY <1>2 DEF TypeOK, Complete, WorkerRow, Exists, Completions
  <2>2. r \in Abstract!Result /\ {r.from, r.to} \subseteq Present
    BY <1>2, <2>1 DEF Abstract!Result, Present, Complete, TypeOK
  <2>3. row' = [row EXCEPT ![d] = [state |-> "pending", from |-> w, to |-> worker[w].owner,
                                   text |-> m, wait |-> 0]]
        /\ row[d].state = "none" /\ UNCHANGED <<orchs, receiving, shown>>
    BY <1>2 DEF Complete
  <2>4. ResultOf[d] = Nothing BY <2>1, <2>3 DEF ResultOf
  <2>5. ResultOf' = [ResultOf EXCEPT ![d] = r]
    <3>1. ASSUME NEW c \in Completions
          PROVE  ResultOf'[c] = IF c = d THEN r ELSE ResultOf[c]
      BY <2>1, <2>3 DEF ResultOf, TypeOK
    <3> QED BY <3>1, ZenonT(30) DEF ResultOf
  <2>6. Held' = Held BY <2>3 DEF Held
  <2>7. Withdrawn' = Withdrawn
    <3>1. d \notin Withdrawn /\ d \notin Withdrawn' BY <2>1, <2>3 DEF Withdrawn, TypeOK
    <3>2. \A c \in Completions \ {d} : c \in Withdrawn' <=> c \in Withdrawn
      BY <2>3 DEF Withdrawn, TypeOK
    <3> QED BY <3>1, <3>2 DEF Withdrawn
  <2>8. Present' = Present
    <3>1. \A v \in Workers : worker'[v].inc = worker[v].inc
      BY <1>2 DEF Complete, TypeOK, WorkerRow
    <3> QED BY <2>3, <3>1 DEF Present, Exists
  <2>9. Abstract!Record(d, r)
    BY <2>2, <2>3, <2>4, <2>5, <2>6, <2>7, <2>8 DEF Abstract!Record
  <2> QED BY <2>1, <2>2, <2>9
<1>3. ASSUME NEW w \in Workers, ClaimWorker(w) \/ UnclaimWorker(w) \/ Resume(w)
      PROVE  UNCHANGED Abstract!handoff
  <2>1. UNCHANGED <<orchs, row, receiving, shown>>
    BY <1>3 DEF ClaimWorker, UnclaimWorker, Resume
  <2>2. \A v \in Workers : worker'[v].inc = worker[v].inc
    BY <1>3, SMTT(30) DEF ClaimWorker, UnclaimWorker, Resume, TypeOK, WorkerRow
  <2>3. Present' = Present BY <2>1, <2>2 DEF Present, Exists
  <2> QED BY <2>1, <2>3, SameImplements DEF Abstract!handoff
<1>4. ASSUME NEW w \in Workers, RemoveSession(w) \/ Sweep(w)
      PROVE  Abstract!Leave({w}) \/ UNCHANGED Abstract!handoff
  <2>1. DeleteSession(w) /\ UNCHANGED <<orchs, receiving, shown>>
    BY <1>4 DEF RemoveSession, Sweep
  <2> QED BY <2>1, DeleteImplements
<1>5. ASSUME NEW o \in Orchs, BeginRemoval(o) \/ BeginKeeping(o) \/ AbandonRemoval(o)
      PROVE  UNCHANGED Abstract!handoff
  <2>1. UNCHANGED <<orchs, row, receiving, shown>> BY <1>5 DEF BeginRemoval, BeginKeeping, AbandonRemoval
  <2>2. \A v \in Workers : worker'[v].inc = worker[v].inc
    BY <1>5, RemovalKeepsWorkers
  <2>3. Present' = Present BY <2>1, <2>2 DEF Present, Exists
  <2> QED BY <2>1, <2>3, SameImplements DEF Abstract!handoff
<1>6. ASSUME NEW o \in Orchs, NEW w \in Workers, RemovalDeletes(o, w) \/ KeepingDeletes(o, w)
      PROVE  Abstract!Leave({w}) \/ UNCHANGED Abstract!handoff
  <2>1. DeleteSession(w) /\ UNCHANGED <<orchs, receiving, shown>>
    BY <1>6 DEF RemovalDeletes, KeepingDeletes
  <2> QED BY <2>1, DeleteImplements
<1>7. ASSUME NEW o \in Orchs, NEW w \in Workers, KeepingDetaches(o, w)
      PROVE  UNCHANGED Abstract!handoff
  <2>1. UNCHANGED <<orchs, row, receiving, shown>> BY <1>7 DEF KeepingDetaches
  <2>2. \A v \in Workers : worker'[v].inc = worker[v].inc
    BY <1>7 DEF KeepingDetaches, TypeOK, WorkerRow
  <2>3. Present' = Present BY <2>1, <2>2 DEF Present, Exists
  <2> QED BY <2>1, <2>3, SameImplements DEF Abstract!handoff
<1>8. ASSUME NEW o \in Orchs, EndRemoval(o)
      PROVE  \E X \in SUBSET (Workers \cup Orchs) : Abstract!Leave(X)
  <2>1. {o} \cup WorkersOf(o) \in SUBSET (Workers \cup Orchs) BY DEF WorkersOf
  <2> QED BY <1>8, <2>1, EndRemovalImplements
<1>9. ASSUME NEW p \in Pollers, PollerStep(p) \/ PollerDies(p)
      PROVE  UNCHANGED Abstract!handoff
  <2>1. UNCHANGED <<worker, orchs, receiving, shown>>
    BY <1>9 DEF PollerStep, Poll, ClaimNothing, PollerStarts, ClaimDelivery, Send, SendFails,
                PollerDies
  <2>2. ASSUME NEW c \in Completions
        PROVE  row'[c].state = row[c].state /\ row'[c].from = row[c].from
               /\ row'[c].to = row[c].to /\ row'[c].text = row[c].text
    <3>1. row[c] \in OutboxRow BY DEF TypeOK
    <3>2. row' = row \/ \E d \in Completions : row' = [row EXCEPT ![d].wait = NextAttempt(p)]
      BY <1>9 DEF PollerStep, Poll, ClaimNothing, PollerStarts, ClaimDelivery, Send, SendFails,
                  PollerDies
    <3>3. row'[c] = row[c] \/ row'[c] = [row[c] EXCEPT !.wait = NextAttempt(p)]
      BY <3>2 DEF TypeOK
    <3> QED BY <3>1, <3>3 DEF OutboxRow
  <2>3. Present' = Present BY <2>1 DEF Present, Exists
  <2> QED BY <2>1, <2>2, <2>3, SameImplements DEF Abstract!handoff
<1>10. ASSUME NEW c \in Completions, LoseNudge(c) \/ AcknowledgeNothing(c)
       PROVE  UNCHANGED Abstract!handoff
  <2>1. UNCHANGED <<worker, orchs, row, receiving, shown>>
    BY <1>10 DEF LoseNudge, AcknowledgeNothing
  <2>2. Present' = Present BY <2>1 DEF Present, Exists
  <2> QED BY <2>1, <2>2, SameImplements DEF Abstract!handoff
<1>11. ASSUME NEW c \in Completions, Acknowledge(c) PROVE Abstract!Take(c)
  <2>1. /\ row[c].state = "pending" /\ row[c].to \in orchs
        /\ receiving' = [receiving EXCEPT ![c] = row[c].text]
        /\ row' = [row EXCEPT ![c].state = "acked", ![c].wait = 0]
        /\ UNCHANGED <<worker, orchs, shown>>
    BY <1>11 DEF Acknowledge, CanAcknowledge, Pending, HandoffInv
  <2>2. receiving[c] = Nothing /\ shown[c] = <<>> /\ row[c].text # Nothing
    BY <2>1 DEF HandoffInv, Pending, PendingIsFree, ResultKept
  <2>3. row'[c] = [row[c] EXCEPT !.state = "acked", !.wait = 0]
        /\ \A d \in Completions : d # c => row'[d] = row[d]
    BY <2>1 DEF TypeOK
  <2>4. /\ row'[c].state = "acked" /\ row'[c].from = row[c].from
        /\ row'[c].to = row[c].to /\ row'[c].text = row[c].text
    <3>1. row[c] \in OutboxRow BY DEF TypeOK
    <3> QED BY <2>3, <3>1 DEF OutboxRow
  <2>5. ResultOf' = ResultOf BY <2>1, <2>3, <2>4, ResultsStay
  <2>6. Held' = Held \cup {c} BY <2>1, <2>2 DEF Held, TypeOK
  <2>7. c \notin Withdrawn /\ c \notin Withdrawn' BY <2>1, <2>2 DEF Withdrawn, TypeOK
  <2>8. Withdrawn' = Withdrawn
    <3>1. \A d \in Completions \ {c} : d \in Withdrawn' <=> d \in Withdrawn
      BY <2>1, <2>3 DEF Withdrawn, TypeOK
    <3> QED BY <2>7, <3>1 DEF Withdrawn
  <2>9. c \in Abstract!Unread \ Held
    BY <2>1, <2>2, <2>7, ResultIsRecord DEF Abstract!Unread, Held
  <2>10. Present' = Present BY <2>1 DEF Present, Exists
  <2> QED BY <2>1, <2>5, <2>6, <2>8, <2>9, <2>10 DEF Abstract!Take
<1>12. ASSUME NEW c \in Completions, PrintSummary(c) \/ ReceiverDies(c)
       PROVE  Abstract!Read(c) \/ Abstract!Drop(c)
  <2>1. /\ receiving[c] # Nothing
        /\ receiving' = [receiving EXCEPT ![c] = Nothing]
        /\ UNCHANGED <<worker, orchs, row>>
    BY <1>12 DEF PrintSummary, ReceiverDies
  <2>2. /\ shown[c] = <<>> /\ receiving[c] = row[c].text /\ row[c].to \in orchs
        /\ row[c].state \in {"acked", "deleted"}
    <3>1. row[c].state \in RowState BY DEF TypeOK, OutboxRow
    <3> QED BY <2>1, <3>1
            DEF HandoffInv, TakenHasReader, NoResult, PendingIsFree, Pending, RowState
  <2>3. ResultOf' = ResultOf BY <2>1, ResultsStay
  <2>4. Held' = Held \ {c} BY <2>1 DEF Held, TypeOK
  <2>5. c \in Abstract!Unread \cap Held
    <3>1. c \notin Withdrawn BY <2>1 DEF Withdrawn
    <3> QED BY <2>1, <2>2, <3>1, ResultIsRecord DEF Abstract!Unread, Held
  <2>6. Present' = Present BY <2>1 DEF Present, Exists
  <2>7. ASSUME \A d \in Completions \ {c} : shown'[d] = shown[d]
        PROVE  \A d \in Completions \ {c} : d \in Withdrawn' <=> d \in Withdrawn
    BY <2>1, <2>7 DEF Withdrawn, TypeOK
  <2>8. CASE PrintSummary(c)
    <3>1. receiving[c] = ResultOf[c].text BY <2>2, ResultIsRecord
    <3>2. shown' = [shown EXCEPT ![c] = <<ResultOf[c].text>>]
      BY <2>2, <2>8, <3>1 DEF PrintSummary
    <3>3. c \notin Withdrawn /\ c \notin Withdrawn' BY <2>1, <3>2 DEF Withdrawn, TypeOK
    <3>4. \A d \in Completions \ {c} : shown'[d] = shown[d] BY <3>2 DEF TypeOK
    <3>5. Withdrawn' = Withdrawn BY <2>7, <3>3, <3>4 DEF Withdrawn
    <3> QED BY <2>3, <2>4, <2>5, <2>6, <3>2, <3>5 DEF Abstract!Read
  <2>9. CASE ReceiverDies(c)
    <3>1. shown' = shown BY <2>9 DEF ReceiverDies
    <3>2. c \in Withdrawn' BY <2>1, <2>2, <3>1 DEF Withdrawn, TypeOK
    <3>3. Withdrawn' = Withdrawn \cup {c} BY <2>7, <3>1, <3>2 DEF Withdrawn
    <3> QED BY <2>3, <2>4, <2>5, <2>6, <3>1, <3>3 DEF Abstract!Drop
  <2> QED BY <1>12, <2>8, <2>9
<1>13. ASSUME Tick PROVE UNCHANGED Abstract!handoff
  <2>1. UNCHANGED <<worker, orchs, receiving, shown>> BY <1>13 DEF Tick
  <2>2. ASSUME NEW c \in Completions
        PROVE  row'[c].state = row[c].state /\ row'[c].from = row[c].from
               /\ row'[c].to = row[c].to /\ row'[c].text = row[c].text
    <3>1. row[c] \in OutboxRow BY DEF TypeOK
    <3>2. row'[c] = row[c] \/ row'[c] = [row[c] EXCEPT !.wait = Later(@)]
      BY <1>13 DEF Tick
    <3> QED BY <3>1, <3>2 DEF OutboxRow
  <2>3. Present' = Present BY <2>1 DEF Present, Exists
  <2> QED BY <2>1, <2>2, <2>3, SameImplements DEF Abstract!handoff
<1>14. ASSUME UNCHANGED vars PROVE UNCHANGED Abstract!handoff
  BY <1>14 DEF vars, Abstract!handoff, Present, Exists, ResultOf, Held, Withdrawn
<1>15. ASSUME NEW w \in Workers, Abstract!Leave({w}) PROVE Abstract!HNext
  BY <1>15 DEF Abstract!HNext
<1> QED
  BY <1>1, <1>2, <1>3, <1>4, <1>5, <1>6, <1>7, <1>8, <1>9, <1>10, <1>11, <1>12, <1>13, <1>14,
     <1>15
     DEF Next, Abstract!HNext

(* However many workers, orchestrators, apps and commands there are, and whatever *)
(* sends, prompts, apps and receiving commands fail: a completion is recorded    *)
(* once, taken once, read at most once and as it was recorded, and goes unread    *)
(* only when its worker or its orchestrator is removed or its reader dies.       *)
THEOREM Implements == Spec => ImplementsHandoff
<1>1. Init => TypeOK /\ HandoffInv BY InitTypeOK, InitHandoffInv
<1>2. TypeOK /\ HandoffInv /\ [Next]_vars => (TypeOK /\ HandoffInv)'
  BY NextTypeOK, NextHandoffInv
<1> QED BY <1>1, <1>2, InitImplements, NextImplements, PTL
        DEF Spec, ImplementsHandoff, Abstract!HSpec

-----------------------------------------------------------------------------
(* A claim is Retry minus the age of its clock reading away from the next one,    *)
(* and what is left of that shrinks no faster than the send grows old.  So while  *)
(* the send lasts the row is not due.                                            *)
SendHasTime ==
  \A p \in Pollers, c \in Completions : Sending(p, c) =>
    /\ row[c].state # "none"
    /\ Pending(c) => row[c].wait + poller[p].age >= Retry - MaxLag

LEMMA NextSendHasTime ==
  ASSUME Retry > MaxLag + MaxSend, TypeOK, SendHasTime, OneNudgeAtATime, [Next]_vars
  PROVE  SendHasTime' /\ OneNudgeAtATime'
<1>1. ASSUME UNCHANGED <<row, poller>> PROVE SendHasTime' /\ OneNudgeAtATime'
  BY <1>1 DEF SendHasTime, OneNudgeAtATime, Sending, Pending
<1>2. ASSUME UNCHANGED poller,
             \A c \in Completions :
               (row'[c].state = "none" => row[c].state = "none")
               /\ (row'[c].state = "pending" => row'[c] = row[c] \/ row[c].state = "none")
      PROVE  SendHasTime' /\ OneNudgeAtATime'
  BY <1>2 DEF SendHasTime, OneNudgeAtATime, Sending, Pending
<1>3. ASSUME NEW w \in Workers, DeleteSession(w), UNCHANGED poller
      PROVE  SendHasTime' /\ OneNudgeAtATime'
  <2>1. ASSUME NEW c \in Completions
        PROVE  (row'[c].state = "none" => row[c].state = "none")
               /\ (row'[c].state = "pending" => row'[c] = row[c])
    <3>1. row[c] \in OutboxRow BY DEF TypeOK
    <3>2. row'[c] = row[c] \/ row'[c] = [row[c] EXCEPT !.state = "deleted", !.wait = 0]
      BY <1>3 DEF DeleteSession, DeletedRows
    <3> QED BY <3>1, <3>2 DEF OutboxRow
  <2> QED BY <1>2, <1>3, <2>1
<1>4. ASSUME NEW w \in Workers, Next, RemoveSession(w) \/ Sweep(w)
      PROVE  SendHasTime' /\ OneNudgeAtATime'
  BY <1>3, <1>4 DEF RemoveSession, Sweep
<1>5. ASSUME NEW o \in Orchs, NEW w \in Workers, RemovalDeletes(o, w) \/ KeepingDeletes(o, w)
      PROVE  SendHasTime' /\ OneNudgeAtATime'
  BY <1>3, <1>5 DEF RemovalDeletes, KeepingDeletes
<1>6. ASSUME NEW w \in Workers, NEW m \in Summaries, Complete(w, m)
      PROVE  SendHasTime' /\ OneNudgeAtATime'
  <2>1. ASSUME NEW c \in Completions
        PROVE  (row'[c].state = "none" => row[c].state = "none")
               /\ (row'[c].state = "pending" => row'[c] = row[c] \/ row[c].state = "none")
    BY <1>6 DEF Complete, TypeOK
  <2> QED BY <1>2, <1>6, <2>1 DEF Complete
<1>7. ASSUME NEW c \in Completions, Acknowledge(c) PROVE SendHasTime' /\ OneNudgeAtATime'
  <2>1. ASSUME NEW d \in Completions
        PROVE  (row'[d].state = "none" => row[d].state = "none")
               /\ (row'[d].state = "pending" => row'[d] = row[d])
    <3>1. row[d] \in OutboxRow BY DEF TypeOK
    <3>2. row'[d] = row[d] \/ row'[d] = [row[d] EXCEPT !.state = "acked", !.wait = 0]
      BY <1>7 DEF Acknowledge, TypeOK
    <3> QED BY <3>1, <3>2 DEF OutboxRow
  <2> QED BY <1>2, <1>7, <2>1 DEF Acknowledge
<1>8. ASSUME NEW p \in Pollers, UNCHANGED row, \A q \in Pollers : q # p => poller'[q] = poller[q],
             poller'[p].at # "send"
      PROVE  SendHasTime' /\ OneNudgeAtATime'
  BY <1>8 DEF SendHasTime, OneNudgeAtATime, Sending, Pending
<1>9. ASSUME NEW p \in Pollers,
             \/ Poll(p) \/ ClaimNothing(p) \/ PollerStarts(p) \/ PollerDies(p)
             \/ \E c \in Completions : Send(p, c) \/ SendFails(p, c)
      PROVE  SendHasTime' /\ OneNudgeAtATime'
  <2>1. UNCHANGED row /\ \A q \in Pollers : q # p => poller'[q] = poller[q]
    BY <1>9 DEF Poll, ClaimNothing, PollerStarts, PollerDies, Send, SendFails, Sent, TypeOK
  <2>2. poller'[p].at # "send"
    <3>1. poller[p] \in PollerState BY DEF TypeOK
    <3>2. CASE PollerStarts(p) BY <3>1, <3>2 DEF PollerStarts, TypeOK, PollerState
    <3>3. CASE ~PollerStarts(p)
      BY <1>9, <3>3 DEF Poll, ClaimNothing, PollerDies, Send, SendFails, Sent, TypeOK, Idle
    <3> QED BY <3>2, <3>3
  <2> QED BY <1>8, <2>1, <2>2
<1>10. ASSUME NEW p \in Pollers, NEW c \in Completions, ClaimDelivery(p, c)
       PROVE  SendHasTime' /\ OneNudgeAtATime'
  <2>1. /\ poller[p].at = "claim" /\ Pending(c) /\ row[c].wait + poller[p].age <= 0
        /\ row' = [row EXCEPT ![c].wait = NextAttempt(p)]
    BY <1>10 DEF ClaimDelivery, Earliest, Due
  <2>2. poller[p] \in PollerState /\ row[c] \in OutboxRow BY DEF TypeOK
  <2>3. poller[p].age \in 0..MaxLag /\ row[c].wait \in Int
    BY <2>1, <2>2 DEF PollerState, OutboxRow
  <2>4. /\ row'[c].state = "pending" /\ row'[c].wait = Retry - poller[p].age
        /\ \A d \in Completions : d # c => row'[d] = row[d]
    BY <2>1, <2>2 DEF TypeOK, OutboxRow, Pending, NextAttempt
  <2>5. /\ poller'[p].at = "send" /\ poller'[p].age = 0 /\ poller'[p].job = c
        /\ \A q \in Pollers : q # p => poller'[q] = poller[q]
    <3>1. poller' = [poller EXCEPT ![p] = [poller[p] EXCEPT !.at = "send", !.age = 0, !.job = c]]
      BY <1>10 DEF ClaimDelivery
    <3>2. poller[p] \in [at : {"claim"}, age : 0..MaxLag, job : {0}, polled : BOOLEAN]
      BY <2>1, <2>2 DEF PollerState
    <3> QED BY <3>1, <3>2 DEF TypeOK
  <2>6. \A q \in Pollers : ~Sending(q, c)
    <3> SUFFICES ASSUME NEW q \in Pollers, Sending(q, c) PROVE FALSE
      OBVIOUS
    <3>1. poller[q].age \in 0..MaxSend BY DEF TypeOK, Sending, PollerState
    <3>2. row[c].wait + poller[q].age >= Retry - MaxLag BY <2>1 DEF SendHasTime
    <3> QED BY <2>1, <2>3, <3>1, <3>2
  <2>7. SendHasTime'
    <3> SUFFICES ASSUME NEW q \in Pollers, NEW d \in Completions, Sending(q, d)'
                 PROVE  (row[d].state # "none" /\
                         (Pending(d) => row[d].wait + poller[q].age >= Retry - MaxLag))'
      BY DEF SendHasTime
    <3>1. CASE q = p BY <2>3, <2>4, <2>5, <3>1 DEF Sending
    <3>2. CASE q # p BY <2>4, <2>5, <2>6, <3>2 DEF Sending, SendHasTime, Pending
    <3> QED BY <3>1, <3>2
  <2>8. OneNudgeAtATime' BY <2>5, <2>6 DEF OneNudgeAtATime, Sending
  <2> QED BY <2>7, <2>8
<1>11. ASSUME Tick PROVE SendHasTime' /\ OneNudgeAtATime'
  <2>1. ASSUME NEW p \in Pollers
        PROVE  /\ poller'[p].at = poller[p].at /\ poller'[p].job = poller[p].job
               /\ poller[p].at = "send" => poller[p].age \in Nat /\ poller'[p].age = poller[p].age + 1
    <3>1. poller[p] \in PollerState BY DEF TypeOK
    <3>2. poller'[p] = [poller[p] EXCEPT !.polled = FALSE,
                  !.age = IF poller[p].at \in {"claim", "send"} THEN @ + 1 ELSE @]
      BY <1>11 DEF Tick
    <3>3. poller[p].at = "send" => poller[p].age \in 0..MaxSend BY <3>1 DEF PollerState
    <3> QED BY <3>1, <3>2, <3>3 DEF PollerState
  <2>2. ASSUME NEW c \in Completions
        PROVE  /\ row'[c].state = row[c].state
               /\ row[c].wait \in Int /\ row'[c].wait \in Int /\ row'[c].wait >= row[c].wait - 1
    <3>1. row[c] \in OutboxRow BY DEF TypeOK
    <3>2. row'[c] = row[c] \/ row'[c] = [row[c] EXCEPT !.wait = Later(@)] BY <1>11 DEF Tick
    <3> QED BY <3>1, <3>2 DEF OutboxRow, Later
  <2>3. \A p \in Pollers, c \in Completions : Sending(p, c)' <=> Sending(p, c)
    BY <2>1 DEF Sending
  <2>4. SendHasTime'
    <3> SUFFICES ASSUME NEW p \in Pollers, NEW c \in Completions, Sending(p, c)
                 PROVE  (row[c].state # "none" /\
                         (Pending(c) => row[c].wait + poller[p].age >= Retry - MaxLag))'
      BY <2>3 DEF SendHasTime
    <3> QED BY <2>1, <2>2 DEF SendHasTime, Sending, Pending
  <2> QED BY <2>3, <2>4 DEF OneNudgeAtATime
<1>12. ASSUME UNCHANGED vars PROVE SendHasTime' /\ OneNudgeAtATime'
  BY <1>1, <1>12 DEF vars
<1>13. ASSUME NEW w \in Workers,
              Prepare(w) \/ ClaimWorker(w) \/ UnclaimWorker(w) \/ Resume(w)
       PROVE  SendHasTime' /\ OneNudgeAtATime'
  BY <1>1, <1>13 DEF Prepare, ClaimWorker, UnclaimWorker, Resume
<1>14. ASSUME NEW o \in Orchs,
              \/ BeginRemoval(o) \/ BeginKeeping(o) \/ AbandonRemoval(o) \/ EndRemoval(o)
              \/ \E w \in Workers : KeepingDetaches(o, w)
       PROVE  SendHasTime' /\ OneNudgeAtATime'
  BY <1>1, <1>14 DEF BeginRemoval, BeginKeeping, AbandonRemoval, EndRemoval, KeepingDetaches
<1>15. ASSUME NEW c \in Completions,
              LoseNudge(c) \/ AcknowledgeNothing(c) \/ PrintSummary(c) \/ ReceiverDies(c)
       PROVE  SendHasTime' /\ OneNudgeAtATime'
  BY <1>1, <1>15 DEF LoseNudge, AcknowledgeNothing, PrintSummary, ReceiverDies
<1> QED
  BY <1>4, <1>5, <1>6, <1>7, <1>9, <1>10, <1>11, <1>12, <1>13, <1>14, <1>15
     DEF Next, PollerStep

(* When the retry is further away than a claim can be late and a send can last,   *)
(* no two apps ever send the same nudge at once, however many poll.              *)
THEOREM SingleNudge == Retry > MaxLag + MaxSend => (Spec => []OneNudgeAtATime)
<1> SUFFICES ASSUME Retry > MaxLag + MaxSend PROVE Spec => []OneNudgeAtATime
  OBVIOUS
<1>1. Init => SendHasTime /\ OneNudgeAtATime
  BY DEF Init, SendHasTime, OneNudgeAtATime, Sending, Idle
<1>2. TypeOK /\ SendHasTime /\ OneNudgeAtATime /\ [Next]_vars
        => (SendHasTime /\ OneNudgeAtATime)'
  BY NextSendHasTime
<1> QED BY <1>1, <1>2, TypeCorrect, PTL DEF Spec

-----------------------------------------------------------------------------
(* A removal knows every worker its orchestrator has, as long as none is spawned  *)
(* meanwhile; so when the orchestrator goes no session goes unheard.             *)
RemovalKnowsAll == \A o \in Orchs : removal[o].at # "none" => WorkersOf(o) \subseteq removal[o].left

LEMMA NextPendingHasSession ==
  ASSUME Isolated, TypeOK, HandoffInv, RemovalKnowsAll, PendingHasSession, [Next]_vars
  PROVE  RemovalKnowsAll' /\ PendingHasSession'
<1>1. ASSUME \A v \in Workers : worker'[v].inc = worker[v].inc /\ worker'[v].owner = worker[v].owner,
             UNCHANGED removal,
             \A c \in Completions : row'[c].state = "pending" =>
               row[c].state = "pending" /\ row'[c].from = row[c].from
      PROVE  RemovalKnowsAll' /\ PendingHasSession'
  <2>1. \A v \in Workers : Exists(v)' <=> Exists(v) BY <1>1 DEF Exists
  <2>2. RemovalKnowsAll' BY <1>1, <2>1 DEF RemovalKnowsAll, WorkersOf
  <2>3. \A c \in Completions : Pending(c) => row[c].from \in Workers
    BY DEF HandoffInv, ResultKept, Pending
  <2> QED BY <1>1, <2>1, <2>2, <2>3 DEF PendingHasSession, Pending
<1>2. ASSUME NEW w \in Workers, Prepare(w) PROVE RemovalKnowsAll' /\ PendingHasSession'
  <2>1. /\ worker' = [worker EXCEPT ![w] = [inc |-> next, state |-> "active", busy |-> FALSE,
                        owner |-> IF Exists(w) THEN @.owner ELSE Owner[w]]]
        /\ removal[Owner[w]].at = "none" /\ UNCHANGED <<row, removal>>
    BY <1>2 DEF Prepare
  <2>2. \A v \in Workers : Exists(v)' <=> v = w \/ Exists(v)
    BY <2>1 DEF Exists, TypeOK
  <2>3. \A v \in Workers : worker'[v].owner =
          IF v = w /\ ~Exists(w) THEN Owner[w] ELSE worker[v].owner
    BY <2>1 DEF TypeOK
  <2>4. RemovalKnowsAll' BY <2>1, <2>2, <2>3 DEF RemovalKnowsAll, WorkersOf
  <2>5. \A c \in Completions : Pending(c) => row[c].from \in Workers
    BY DEF HandoffInv, ResultKept, Pending
  <2> QED BY <2>1, <2>2, <2>4, <2>5 DEF PendingHasSession, Pending
<1>3. ASSUME NEW w \in Workers, NEW m \in Summaries, Complete(w, m)
      PROVE  RemovalKnowsAll' /\ PendingHasSession'
  <2>1. \A v \in Workers : worker'[v].inc = worker[v].inc /\ worker'[v].owner = worker[v].owner
    BY <1>3 DEF Complete, TypeOK, WorkerRow
  <2>2. \A v \in Workers : Exists(v)' <=> Exists(v) BY <2>1 DEF Exists
  <2>3. RemovalKnowsAll' BY <1>3, <2>1, <2>2 DEF RemovalKnowsAll, WorkersOf, Complete
  <2>4. ASSUME NEW c \in Completions, Pending(c)' PROVE Exists(row[c].from)'
    <3>1. CASE c = worker[w].inc
      <4>1. row'[c].from = w BY <1>3, <3>1 DEF Complete, TypeOK
      <4>2. Exists(w) BY <1>3 DEF Complete
      <4> QED BY <2>1, <4>1, <4>2 DEF Exists
    <3>2. CASE c # worker[w].inc
      <4>1. row'[c] = row[c] BY <1>3, <3>2 DEF Complete, TypeOK
      <4>2. Exists(row[c].from) /\ row[c].from \in Workers
        BY <2>4, <4>1 DEF PendingHasSession, Pending, HandoffInv, ResultKept
      <4> QED BY <2>1, <4>1, <4>2 DEF Exists
    <3> QED BY <3>1, <3>2
  <2> QED BY <2>3, <2>4 DEF PendingHasSession
<1>4. ASSUME NEW w \in Workers, DeleteSession(w),
             \A o \in Orchs : /\ removal'[o].at = removal[o].at
                              /\ removal[o].left \ {w} \subseteq removal'[o].left
      PROVE  RemovalKnowsAll' /\ PendingHasSession'
  <2>1. \A v \in Workers : v # w => worker'[v] = worker[v] BY <1>4 DEF DeleteSession, TypeOK
  <2>2. ~Exists(w)' BY <1>4 DEF DeleteSession, TypeOK, Exists, NoWorker
  <2>3. \A o \in Orchs : WorkersOf(o)' \subseteq WorkersOf(o) \ {w}
    BY <2>1, <2>2 DEF WorkersOf, Exists
  <2>4. RemovalKnowsAll' BY <1>4, <2>3 DEF RemovalKnowsAll
  <2>5. ASSUME NEW c \in Completions, Pending(c)' PROVE Exists(row[c].from)'
    <3>1. row[c] \in OutboxRow BY DEF TypeOK
    <3>2. row'[c] = row[c] /\ row[c].from # w
      BY <1>4, <2>5, <3>1 DEF DeleteSession, DeletedRows, Pending, OutboxRow
    <3>3. Exists(row[c].from) /\ row[c].from \in Workers
      BY <2>5, <3>2 DEF PendingHasSession, Pending, HandoffInv, ResultKept
    <3> QED BY <2>1, <3>2, <3>3 DEF Exists
  <2> QED BY <2>4, <2>5 DEF PendingHasSession
<1>5. ASSUME NEW w \in Workers, RemoveSession(w) \/ Sweep(w)
      PROVE  RemovalKnowsAll' /\ PendingHasSession'
  BY <1>4, <1>5 DEF RemoveSession, Sweep
<1>6. ASSUME NEW o \in Orchs, NEW w \in Workers, RemovalDeletes(o, w) \/ KeepingDeletes(o, w)
      PROVE  RemovalKnowsAll' /\ PendingHasSession'
  <2>1. ASSUME NEW q \in Orchs
        PROVE  removal'[q].at = removal[q].at /\ removal[q].left \ {w} \subseteq removal'[q].left
    <3>1. removal[q] \in [at : {"none", "delete", "keep"}, left : SUBSET Workers] BY DEF TypeOK
    <3>2. removal'[q] = removal[q] \/ removal'[q] = [removal[q] EXCEPT !.left = @ \ {w}]
      BY <1>6 DEF RemovalDeletes, KeepingDeletes, TypeOK
    <3> QED BY <3>1, <3>2
  <2> QED BY <1>4, <1>6, <2>1 DEF RemovalDeletes, KeepingDeletes
<1>7. ASSUME NEW o \in Orchs, BeginRemoval(o) \/ BeginKeeping(o) \/ AbandonRemoval(o)
      PROVE  RemovalKnowsAll' /\ PendingHasSession'
  <2>1. \A v \in Workers : worker'[v].inc = worker[v].inc /\ worker'[v].owner = worker[v].owner
    BY <1>7, RemovalKeepsWorkers
  <2>2. \A v \in Workers : Exists(v)' <=> Exists(v) BY <2>1 DEF Exists
  <2>3. \A q \in Orchs : WorkersOf(q)' = WorkersOf(q) BY <2>1, <2>2 DEF WorkersOf
  <2>4. /\ removal'[o].at = "none" \/ removal'[o].left = WorkersOf(o)
        /\ \A q \in Orchs : q # o => removal'[q] = removal[q]
    BY <1>7 DEF BeginRemoval, BeginKeeping, AbandonRemoval, NoRemoval, TypeOK
  <2>5. RemovalKnowsAll' BY <2>3, <2>4 DEF RemovalKnowsAll
  <2>6. \A c \in Completions : Pending(c) => row[c].from \in Workers
    BY DEF HandoffInv, ResultKept, Pending
  <2> QED BY <1>7, <2>2, <2>5, <2>6 DEF PendingHasSession, Pending, BeginRemoval, BeginKeeping,
                                       AbandonRemoval
<1>8. ASSUME NEW o \in Orchs, NEW w \in Workers, KeepingDetaches(o, w)
      PROVE  RemovalKnowsAll' /\ PendingHasSession'
  <2>1. worker[w] \in WorkerRow BY DEF TypeOK
  <2>2. \A v \in Workers : /\ worker'[v].inc = worker[v].inc
                           /\ worker'[v].owner = IF v = w /\ Exists(w) THEN Nobody ELSE worker[v].owner
    BY <1>8, <2>1 DEF KeepingDetaches, TypeOK, WorkerRow
  <2>3. \A v \in Workers : Exists(v)' <=> Exists(v) BY <2>2 DEF Exists
  <2>4. WorkersOf(o)' \subseteq WorkersOf(o) \ {w}
    BY <2>2, <2>3 DEF WorkersOf
  <2>5. \A q \in Orchs : WorkersOf(q)' \subseteq WorkersOf(q) BY <2>2, <2>3 DEF WorkersOf
  <2>6. ASSUME NEW q \in Orchs
        PROVE  removal'[q].at = removal[q].at
               /\ removal'[q].left = IF q = o THEN removal[q].left \ {w} ELSE removal[q].left
    <3>1. removal[q] \in [at : {"none", "delete", "keep"}, left : SUBSET Workers] BY DEF TypeOK
    <3>2. removal'[q] = IF q = o THEN [removal[q] EXCEPT !.left = @ \ {w}] ELSE removal[q]
      BY <1>8 DEF KeepingDetaches, TypeOK
    <3> QED BY <3>1, <3>2
  <2>7. RemovalKnowsAll' BY <2>4, <2>5, <2>6 DEF RemovalKnowsAll
  <2>8. \A c \in Completions : Pending(c) => row[c].from \in Workers
    BY DEF HandoffInv, ResultKept, Pending
  <2> QED BY <1>8, <2>3, <2>7, <2>8 DEF PendingHasSession, Pending, KeepingDetaches
<1>9. ASSUME NEW o \in Orchs, EndRemoval(o) PROVE RemovalKnowsAll' /\ PendingHasSession'
  <2>1. WorkersOf(o) = {} BY <1>9 DEF EndRemoval, RemovalKnowsAll
  <2>2. worker' = worker BY <1>9, <2>1 DEF EndRemoval, TypeOK
  <2>3. \A q \in Orchs : WorkersOf(q)' = WorkersOf(q) BY <2>2 DEF WorkersOf, Exists
  <2>4. removal'[o].at = "none" /\ \A q \in Orchs : q # o => removal'[q] = removal[q]
    BY <1>9 DEF EndRemoval, NoRemoval, TypeOK
  <2>5. RemovalKnowsAll' BY <2>3, <2>4 DEF RemovalKnowsAll
  <2> QED BY <1>9, <2>2, <2>5 DEF PendingHasSession, Pending, EndRemoval, Exists
<1>10. ASSUME NEW w \in Workers, ClaimWorker(w) \/ UnclaimWorker(w) \/ Resume(w)
       PROVE  RemovalKnowsAll' /\ PendingHasSession'
  <2>1. \A v \in Workers : worker'[v].inc = worker[v].inc /\ worker'[v].owner = worker[v].owner
    <3>1. worker[w] \in WorkerRow BY DEF TypeOK
    <3>2. \/ worker' = [worker EXCEPT ![w] = [worker[w] EXCEPT !.busy = TRUE]]
          \/ worker' = [worker EXCEPT ![w] = [worker[w] EXCEPT !.busy = FALSE]]
          \/ worker' = [worker EXCEPT ![w] = [worker[w] EXCEPT !.state = "active"]]
      BY <1>10 DEF ClaimWorker, UnclaimWorker, Resume
    <3>3. \A v \in Workers : v # w => worker'[v] = worker[v] BY <3>2 DEF TypeOK
    <3>4. worker'[w].inc = worker[w].inc /\ worker'[w].owner = worker[w].owner
      BY <3>1, <3>2 DEF TypeOK, WorkerRow
    <3> QED BY <3>3, <3>4
  <2> QED BY <1>1, <1>10, <2>1 DEF ClaimWorker, UnclaimWorker, Resume
<1>11. ASSUME UNCHANGED <<worker, removal>>,
              \A c \in Completions :
                row'[c] = row[c] \/ \E t : row'[c] = [row[c] EXCEPT !.wait = t]
                                   \/ row'[c] = [row[c] EXCEPT !.state = "acked", !.wait = t]
       PROVE  RemovalKnowsAll' /\ PendingHasSession'
  <2>1. \A c \in Completions : row'[c].state = "pending" =>
          row[c].state = "pending" /\ row'[c].from = row[c].from
    <3> SUFFICES ASSUME NEW c \in Completions, row'[c].state = "pending"
                 PROVE  row[c].state = "pending" /\ row'[c].from = row[c].from
      OBVIOUS
    <3>1. row[c] \in OutboxRow BY DEF TypeOK
    <3> QED BY <1>11, <3>1 DEF OutboxRow
  <2> QED BY <1>1, <1>11, <2>1
<1>12. ASSUME NEW p \in Pollers, PollerStep(p) \/ PollerDies(p)
       PROVE  RemovalKnowsAll' /\ PendingHasSession'
  <2>1. UNCHANGED <<worker, removal>>
        /\ (row' = row \/ \E d \in Completions : row' = [row EXCEPT ![d].wait = NextAttempt(p)])
    BY <1>12 DEF PollerStep, Poll, ClaimNothing, PollerStarts, ClaimDelivery, Send, SendFails,
                 PollerDies
  <2>2. \A c \in Completions : row'[c] = row[c] \/ row'[c] = [row[c] EXCEPT !.wait = NextAttempt(p)]
    BY <2>1 DEF TypeOK
  <2> QED BY <1>11, <2>1, <2>2
<1>13. ASSUME NEW c \in Completions,
              \/ LoseNudge(c) \/ Acknowledge(c) \/ AcknowledgeNothing(c)
              \/ PrintSummary(c) \/ ReceiverDies(c)
       PROVE  RemovalKnowsAll' /\ PendingHasSession'
  <2>1. UNCHANGED <<worker, removal>>
        /\ (row' = row \/ row' = [row EXCEPT ![c].state = "acked", ![c].wait = 0])
    BY <1>13 DEF LoseNudge, Acknowledge, AcknowledgeNothing, PrintSummary, ReceiverDies
  <2>2. \A d \in Completions : row'[d] = row[d] \/ row'[d] = [row[d] EXCEPT !.state = "acked", !.wait = 0]
    BY <2>1 DEF TypeOK
  <2> QED BY <1>11, <2>1, <2>2
<1>14. ASSUME Tick PROVE RemovalKnowsAll' /\ PendingHasSession'
  <2>1. UNCHANGED <<worker, removal>>
        /\ \A c \in Completions : row'[c] = row[c] \/ row'[c] = [row[c] EXCEPT !.wait = Later(@)]
    BY <1>14 DEF Tick
  <2> QED BY <1>11, <2>1
<1>15. ASSUME UNCHANGED vars PROVE RemovalKnowsAll' /\ PendingHasSession'
  BY <1>1, <1>15 DEF vars
<1> QED
  BY <1>2, <1>3, <1>5, <1>6, <1>7, <1>8, <1>9, <1>10, <1>12, <1>13, <1>14, <1>15 DEF Next

(* As long as no worker is spawned for an orchestrator that is being removed,     *)
(* nothing of a deleted worker is retried.  Without that it is (see             *)
(* `Isolated' in the README).                                                  *)
THEOREM NoOrphans == Isolated => (Spec => []PendingHasSession)
<1> SUFFICES ASSUME Isolated PROVE Spec => []PendingHasSession
  OBVIOUS
<1>1. Init => TypeOK /\ HandoffInv BY InitTypeOK, InitHandoffInv
<1>2. Init => RemovalKnowsAll /\ PendingHasSession
  BY DEF Init, RemovalKnowsAll, NoRemoval, PendingHasSession, Pending, NoRow
<1>3. TypeOK /\ HandoffInv /\ [Next]_vars => (TypeOK /\ HandoffInv)'
  BY NextTypeOK, NextHandoffInv
<1>4. TypeOK /\ HandoffInv /\ RemovalKnowsAll /\ PendingHasSession /\ [Next]_vars
        => (RemovalKnowsAll /\ PendingHasSession)'
  BY NextPendingHasSession
<1> QED BY <1>1, <1>2, <1>3, <1>4, PTL DEF Spec
=============================================================================
