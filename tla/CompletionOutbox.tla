-------------------------- MODULE CompletionOutbox --------------------------
(* `ninox complete`, the completion outbox in the store, the pollers that nudge  *)
(* the owning orchestrator, and `ninox receive-completion`.                      *)
(*                                                                             *)
(* A completion is named by its incarnation, of which it is the only one, so     *)
(* numbers name both.  Rows of the outbox and of the completions are one record; *)
(* the attempts, which nothing reads back, are left out.  Transactions run under *)
(* BEGIN IMMEDIATE and are one step.  A store is shared by any number of apps,   *)
(* each with its poller.                                                        *)
(*                                                                             *)
(* Time is counted in poll intervals (5 s): `wait` is the time until a row's     *)
(* next attempt, negative when it is overdue.                                   *)
EXTENDS Integers, Sequences

CONSTANTS
  Workers,     \* session names of workers
  Orchs,       \* orchestrators
  Owner,       \* the orchestrator that spawns a worker
  Nobody,      \* no orchestrator: the worker was detached
  Pollers,     \* apps that poll the store
  Summaries,
  Nothing,
  Retry,       \* RETRY_AFTER_MS, in poll intervals
  MaxLag,      \* bound: intervals between a poller's reading the clock and its claim
  MaxSend,     \* bound: intervals a send takes
  MaxOverdue,  \* bound: `wait` stops here
  MaxInc,      \* bound: incarnations in a behaviour
  Faults,      \* what may fail: "send", "poller", "prompt", "receive", "removal"
  Events,      \* what else may happen: "claim", "resume", "remove", "sweep", "removeOrch"
  Isolated,    \* no worker is spawned for an orchestrator while it is being removed
  Reachable    \* orchestrators to which a send succeeds again and again

\* A claim waits at most for the busy timeout (5 s), the retry is 30 s away.
ASSUME TimeAssumption ==
  Retry \in Nat /\ MaxLag \in 0..Retry /\ MaxSend \in Nat /\ MaxOverdue \in Nat
ASSUME CountAssumption == MaxInc \in Nat
ASSUME OwnerAssumption == Owner \in [Workers -> Orchs] /\ Nobody \notin Orchs
ASSUME NothingAssumption ==
  /\ Nothing \notin Summaries \cup Orchs \cup Workers
  /\ Nothing \notin [from : Workers, to : Orchs, text : Summaries]
ASSUME ApartAssumption == Workers \cap Orchs = {}

VARIABLES
  worker,    \* the session and its current incarnation
  orchs,     \* orchestrators there are
  row,       \* completions and their place in the outbox
  next,      \* the first incarnation id not handed out
  poller,
  removal,   \* removals of orchestrators: their steps, and the workers left to delete
  nudged,    \* completions named in the prompt of their orchestrator
  receiving, \* the summary a `receive-completion` has acknowledged and will print
  shown      \* what was printed

vars == <<worker, orchs, row, next, poller, removal, nudged, receiving, shown>>

Completions == 1..MaxInc

WorkerRow == [inc : 0..MaxInc, state : {"active", "retained"}, busy : BOOLEAN,
              owner : Orchs \cup {Nobody}]
RowState == {"none", "pending", "acked", "deleted"}
OutboxRow == [state : RowState, from : Workers \cup {Nothing}, to : Orchs \cup {Nothing},
              text : Summaries \cup {Nothing}, wait : -MaxOverdue..Retry]
PollerState == [at : {"idle", "down"}, age : {0}, job : {0}, polled : BOOLEAN]
          \cup [at : {"claim"}, age : 0..MaxLag, job : {0}, polled : BOOLEAN]
          \cup [at : {"send"}, age : 0..MaxSend, job : Completions, polled : BOOLEAN]

NoWorker == [inc |-> 0, state |-> "active", busy |-> FALSE, owner |-> Nobody]
NoRow == [state |-> "none", from |-> Nothing, to |-> Nothing, text |-> Nothing, wait |-> 0]
Idle(polled) == [at |-> "idle", age |-> 0, job |-> 0, polled |-> polled]
NoRemoval == [at |-> "none", left |-> {}]

Init ==
  /\ worker = [w \in Workers |-> NoWorker]
  /\ orchs = Orchs
  /\ row = [c \in Completions |-> NoRow]
  /\ next = 1
  /\ poller = [p \in Pollers |-> Idle(FALSE)]
  /\ removal = [o \in Orchs |-> NoRemoval]
  /\ nudged = {}
  /\ receiving = [c \in Completions |-> Nothing]
  /\ shown = [c \in Completions |-> <<>>]

Exists(w) == worker[w].inc # 0
Pending(c) == row[c].state = "pending"

-----------------------------------------------------------------------------
(* Workers and what else happens to their rows, as WorkerStore has it in full;  *)
(* `busy` is a claim of any kind or a finalization that has begun.              *)

\* Spawn, and re-file of a session that exists.
Prepare(w) ==
  /\ next <= MaxInc
  /\ ~worker[w].busy
  /\ ~Exists(w) => Owner[w] \in orchs
  /\ Isolated => removal[Owner[w]].at = "none"
  /\ worker' = [worker EXCEPT ![w] =
       [inc |-> next, state |-> "active", busy |-> FALSE,
        owner |-> IF Exists(w) THEN @.owner ELSE Owner[w]]]
  /\ next' = next + 1
  /\ UNCHANGED <<orchs, row, poller, removal, nudged, receiving, shown>>

\* Mutant of Complete: a result that was recorded may be replaced.
CompleteAgain(w, m) ==
  /\ Exists(w) /\ worker[w].owner \in orchs /\ ~worker[w].busy
  /\ row' = [row EXCEPT ![worker[w].inc] =
       [state |-> "pending", from |-> w, to |-> worker[w].owner, text |-> m, wait |-> 0]]
  /\ worker' = [worker EXCEPT ![w].state = "retained"]
  /\ UNCHANGED <<orchs, next, poller, removal, nudged, receiving, shown>>

(* `ninox complete`, called from the worker's current runtime.  Where a result   *)
(* is recorded the call changes nothing: it is a repetition or a conflict.       *)
Complete(w, m) ==
  /\ Exists(w) /\ worker[w].owner \in orchs /\ ~worker[w].busy
  /\ row[worker[w].inc].state = "none"
  /\ row' = [row EXCEPT ![worker[w].inc] =
       [state |-> "pending", from |-> w, to |-> worker[w].owner, text |-> m, wait |-> 0]]
  /\ worker' = [worker EXCEPT ![w].state = "retained"]
  /\ UNCHANGED <<orchs, next, poller, removal, nudged, receiving, shown>>

ClaimWorker(w) ==
  /\ "claim" \in Events
  /\ Exists(w) /\ ~worker[w].busy
  /\ worker' = [worker EXCEPT ![w].busy = TRUE]
  /\ UNCHANGED <<orchs, row, next, poller, removal, nudged, receiving, shown>>
UnclaimWorker(w) ==
  /\ Exists(w) /\ worker[w].busy
  /\ \A o \in Orchs : ~(removal[o].at = "delete" /\ w \in removal[o].left)
  /\ worker' = [worker EXCEPT ![w].busy = FALSE]
  /\ UNCHANGED <<orchs, row, next, poller, removal, nudged, receiving, shown>>

Resume(w) ==
  /\ "resume" \in Events
  /\ Exists(w) /\ ~worker[w].busy /\ worker[w].state = "retained"
  /\ worker' = [worker EXCEPT ![w].state = "active"]
  /\ UNCHANGED <<orchs, row, next, poller, removal, nudged, receiving, shown>>

\* Mutant of DeletedRows: the completions stay.
DeletedRowsKeep(w) == row
\* The outbox loses every completion of the session, received or not.
DeletedRows(w) == [c \in Completions |->
  IF row[c].from = w /\ row[c].state # "none"
    THEN [row[c] EXCEPT !.state = "deleted", !.wait = 0] ELSE row[c]]

DeleteSession(w) ==
  /\ row' = DeletedRows(w)
  /\ worker' = [worker EXCEPT ![w] = NoWorker]

RemoveSession(w) ==
  /\ "remove" \in Events
  /\ Exists(w) /\ ~worker[w].busy
  /\ DeleteSession(w)
  /\ UNCHANGED <<orchs, next, poller, removal, nudged, receiving, shown>>

(* The retention sweep leaves retained workers alone.                           *)
Sweep(w) ==
  /\ "sweep" \in Events
  /\ Exists(w) /\ ~worker[w].busy /\ worker[w].state # "retained"
  /\ DeleteSession(w)
  /\ UNCHANGED <<orchs, next, poller, removal, nudged, receiving, shown>>

-----------------------------------------------------------------------------
(* Removal of an orchestrator: list and claim its workers (the claims come one   *)
(* after the other, which nobody can tell), delete them one by one, then delete  *)
(* the orchestrator and every session that still names it.                      *)

WorkersOf(o) == {w \in Workers : Exists(w) /\ worker[w].owner = o}

BeginRemoval(o) ==
  /\ "removeOrch" \in Events
  /\ o \in orchs /\ removal[o].at = "none"
  /\ \A w \in WorkersOf(o) : ~worker[w].busy
  /\ worker' = [w \in Workers |->
       IF w \in WorkersOf(o) THEN [worker[w] EXCEPT !.busy = TRUE] ELSE worker[w]]
  /\ removal' = [removal EXCEPT ![o] = [at |-> "delete", left |-> WorkersOf(o)]]
  /\ UNCHANGED <<orchs, row, next, poller, nudged, receiving, shown>>

RemovalDeletes(o, w) ==
  /\ removal[o].at = "delete" /\ w \in removal[o].left
  /\ removal' = [removal EXCEPT ![o].left = @ \ {w}]
  /\ DeleteSession(w)
  /\ UNCHANGED <<orchs, next, poller, nudged, receiving, shown>>

(* Keeping live workers takes no claims; each is deleted when it has ended, and  *)
(* detached when not.                                                           *)
BeginKeeping(o) ==
  /\ "removeOrch" \in Events
  /\ o \in orchs /\ removal[o].at = "none"
  /\ removal' = [removal EXCEPT ![o] = [at |-> "keep", left |-> WorkersOf(o)]]
  /\ UNCHANGED <<worker, orchs, row, next, poller, nudged, receiving, shown>>

KeepingDeletes(o, w) ==
  /\ removal[o].at = "keep" /\ w \in removal[o].left
  /\ removal' = [removal EXCEPT ![o].left = @ \ {w}]
  /\ DeleteSession(w)
  /\ UNCHANGED <<orchs, next, poller, nudged, receiving, shown>>

KeepingDetaches(o, w) ==
  /\ removal[o].at = "keep" /\ w \in removal[o].left
  /\ removal' = [removal EXCEPT ![o].left = @ \ {w}]
  /\ worker' = [worker EXCEPT ![w].owner = IF Exists(w) THEN Nobody ELSE @]
  /\ UNCHANGED <<orchs, row, next, poller, nudged, receiving, shown>>

(* A worker cannot be stopped, or the store fails: what is claimed is given back. *)
AbandonRemoval(o) ==
  /\ "removal" \in Faults
  /\ removal[o].at # "none"
  /\ worker' = [w \in Workers |->
       IF removal[o].at = "delete" /\ w \in removal[o].left
         THEN [worker[w] EXCEPT !.busy = FALSE] ELSE worker[w]]
  /\ removal' = [removal EXCEPT ![o] = NoRemoval]
  /\ UNCHANGED <<orchs, row, next, poller, nudged, receiving, shown>>

(* delete_orchestrator; its runtime, with what runs in it, was killed.  Its        *)
(* statements are no transaction, which nobody can tell unless a worker is        *)
(* spawned meanwhile.                                                            *)
EndRemoval(o) ==
  /\ removal[o].at # "none" /\ removal[o].left = {}
  /\ removal' = [removal EXCEPT ![o] = NoRemoval]
  /\ orchs' = orchs \ {o}
  /\ worker' = [w \in Workers |-> IF w \in WorkersOf(o) THEN NoWorker ELSE worker[w]]
  /\ nudged' = {c \in nudged : row[c].to # o}
  /\ receiving' = [c \in Completions |-> IF row[c].to = o THEN Nothing ELSE receiving[c]]
  /\ UNCHANGED <<row, next, poller, shown>>

-----------------------------------------------------------------------------
(* deliver_worker_completions: read the clock, claim a row, send the nudge.      *)

Due(p) == {c \in Completions : Pending(c) /\ row[c].wait + poller[p].age <= 0}

\* Mutant of Earliest: the oldest completion first, whenever it was tried last.
EarliestId(D) == {c \in D : \A d \in D : c <= d}
\* Equally overdue rows are ordered by completion time, then by a random id.
Earliest(D) == {c \in D : \A d \in D : row[c].wait <= row[d].wait}

Poll(p) ==
  /\ poller[p].at = "idle" /\ ~poller[p].polled
  /\ poller' = [poller EXCEPT ![p] = [at |-> "claim", age |-> 0, job |-> 0, polled |-> TRUE]]
  /\ UNCHANGED <<worker, orchs, row, next, removal, nudged, receiving, shown>>

ClaimNothing(p) ==
  /\ poller[p].at = "claim" /\ Due(p) = {}
  /\ poller' = [poller EXCEPT ![p] = Idle(@.polled)]
  /\ UNCHANGED <<worker, orchs, row, next, removal, nudged, receiving, shown>>

\* Mutant of NextAttempt: the row is due again at once.
NextAttemptNow(p) == 0
\* Mutant of NextAttempt: the age of the reading is added.
NextAttemptLate(p) == Retry + poller[p].age
\* now + retry_after_ms, where now was read `age` ago.
NextAttempt(p) == Retry - poller[p].age

\* Mutant of ClaimDelivery: what is claimed counts as delivered.
ClaimDeliveryDone(p, c) ==
  /\ poller[p].at = "claim"
  /\ c \in Earliest(Due(p))
  /\ row' = [row EXCEPT ![c].state = "acked", ![c].wait = 0]
  /\ poller' = [poller EXCEPT ![p] = [@ EXCEPT !.at = "send", !.age = 0, !.job = c]]
  /\ UNCHANGED <<worker, orchs, next, removal, nudged, receiving, shown>>

ClaimDelivery(p, c) ==
  /\ poller[p].at = "claim"
  /\ c \in Earliest(Due(p))
  /\ row' = [row EXCEPT ![c].wait = NextAttempt(p)]
  /\ poller' = [poller EXCEPT ![p] = [@ EXCEPT !.at = "send", !.age = 0, !.job = c]]
  /\ UNCHANGED <<worker, orchs, next, removal, nudged, receiving, shown>>

Sending(p, c) == poller[p].at = "send" /\ poller[p].job = c
Sent(p) == poller' = [poller EXCEPT ![p] = Idle(@.polled)]

Send(p, c) ==
  /\ Sending(p, c)
  /\ row[c].to \in orchs
  /\ nudged' = nudged \cup {c}
  /\ Sent(p)
  /\ UNCHANGED <<worker, orchs, row, next, removal, receiving, shown>>

(* The send fails; what was typed may have arrived all the same.                 *)
SendFails(p, c) ==
  /\ Sending(p, c)
  /\ "send" \in Faults \/ row[c].to \notin orchs
  /\ nudged' \in {nudged} \cup (IF row[c].to \in orchs THEN {nudged \cup {c}} ELSE {})
  /\ Sent(p)
  /\ UNCHANGED <<worker, orchs, row, next, removal, receiving, shown>>

(* An app that ends while its poller is idle just polls later.                   *)
PollerDies(p) ==
  /\ "poller" \in Faults
  /\ poller[p].at \in {"claim", "send"}
  /\ poller' = [poller EXCEPT ![p] = [Idle(@.polled) EXCEPT !.at = "down"]]
  /\ UNCHANGED <<worker, orchs, row, next, removal, nudged, receiving, shown>>
PollerStarts(p) ==
  /\ poller[p].at = "down"
  /\ poller' = [poller EXCEPT ![p].at = "idle"]
  /\ UNCHANGED <<worker, orchs, row, next, removal, nudged, receiving, shown>>

-----------------------------------------------------------------------------
(* The orchestrator, told of a completion, runs `ninox receive-completion`:      *)
(* one transaction acknowledges, then the summary is printed.                    *)

\* A prompt is dropped with the agent that had accepted it.
LoseNudge(c) ==
  /\ "prompt" \in Faults
  /\ c \in nudged
  /\ nudged' = nudged \ {c}
  /\ UNCHANGED <<worker, orchs, row, next, poller, removal, receiving, shown>>

\* Mutant of CanAcknowledge: an acknowledged completion is surfaced again.
CanAcknowledgeAgain(c) == row[c].state \in {"pending", "acked"}
CanAcknowledge(c) == Pending(c)

Acknowledge(c) ==
  /\ c \in nudged /\ CanAcknowledge(c)
  /\ nudged' = nudged \ {c}
  /\ row' = [row EXCEPT ![c].state = "acked", ![c].wait = 0]
  /\ receiving' = [receiving EXCEPT ![c] = row[c].text]
  /\ UNCHANGED <<worker, orchs, next, poller, removal, shown>>

\* Already acknowledged, or deleted with its worker.
AcknowledgeNothing(c) ==
  /\ c \in nudged /\ ~CanAcknowledge(c)
  /\ nudged' = nudged \ {c}
  /\ UNCHANGED <<worker, orchs, row, next, poller, removal, receiving, shown>>

PrintSummary(c) ==
  /\ receiving[c] # Nothing
  /\ shown' = [shown EXCEPT ![c] = Append(@, receiving[c])]
  /\ receiving' = [receiving EXCEPT ![c] = Nothing]
  /\ UNCHANGED <<worker, orchs, row, next, poller, removal, nudged>>

ReceiverDies(c) ==
  /\ "receive" \in Faults
  /\ receiving[c] # Nothing
  /\ receiving' = [receiving EXCEPT ![c] = Nothing]
  /\ UNCHANGED <<worker, orchs, row, next, poller, removal, nudged, shown>>

-----------------------------------------------------------------------------
(* A poll interval passes.  Every idle poller has polled in it; MissedTick        *)
(* bursts, which poll sooner, are left out.                                      *)
MayPass(p) ==
  CASE poller[p].at = "idle" -> poller[p].polled
    [] poller[p].at = "claim" -> poller[p].age < MaxLag
    [] poller[p].at = "send" -> poller[p].age < MaxSend
    [] OTHER -> TRUE

Later(wait) == IF wait > -MaxOverdue THEN wait - 1 ELSE wait

Tick ==
  /\ \A p \in Pollers : MayPass(p)
  /\ row' = [c \in Completions |-> IF Pending(c) THEN [row[c] EXCEPT !.wait = Later(@)] ELSE row[c]]
  /\ poller' = [p \in Pollers |->
       [poller[p] EXCEPT !.polled = FALSE,
                         !.age = IF poller[p].at \in {"claim", "send"} THEN @ + 1 ELSE @]]
  /\ UNCHANGED <<worker, orchs, next, removal, nudged, receiving, shown>>

PollerStep(p) ==
  \/ Poll(p) \/ ClaimNothing(p) \/ PollerStarts(p)
  \/ \E c \in Completions : ClaimDelivery(p, c) \/ Send(p, c) \/ SendFails(p, c)

Next ==
  \/ \E w \in Workers :
       \/ Prepare(w)
       \/ \E m \in Summaries : Complete(w, m)
       \/ ClaimWorker(w) \/ UnclaimWorker(w) \/ Resume(w) \/ RemoveSession(w) \/ Sweep(w)
  \/ \E o \in Orchs :
       \/ BeginRemoval(o) \/ BeginKeeping(o) \/ AbandonRemoval(o) \/ EndRemoval(o)
       \/ \E w \in Workers : RemovalDeletes(o, w) \/ KeepingDeletes(o, w) \/ KeepingDetaches(o, w)
  \/ \E p \in Pollers : PollerStep(p) \/ PollerDies(p)
  \/ \E c \in Completions :
       LoseNudge(c) \/ Acknowledge(c) \/ AcknowledgeNothing(c) \/ PrintSummary(c) \/ ReceiverDies(c)
  \/ Tick

Spec == Init /\ [][Next]_vars

(* Time passes and an app that runs goes on; a reachable orchestrator is reached  *)
(* again and again, and an orchestrator that is told again and again runs the    *)
(* command.                                                                     *)
Fairness ==
  /\ WF_vars(Tick)
  /\ \A p \in Pollers : WF_vars(PollerStep(p))
  /\ SF_vars(\E p \in Pollers, c \in Completions : row[c].to \in Reachable /\ Send(p, c))
  /\ SF_vars(\E c \in Completions : Acknowledge(c))
  /\ WF_vars(\E c \in Completions : PrintSummary(c))

FairSpec == Spec /\ Fairness

-----------------------------------------------------------------------------
(* Properties.                                                                 *)

(* The variables hold values of these kinds.                                    *)
TypeOK ==
  /\ worker \in [Workers -> WorkerRow]
  /\ orchs \subseteq Orchs
  /\ row \in [Completions -> OutboxRow]
  /\ next \in 1..(MaxInc + 1)
  /\ poller \in [Pollers -> PollerState]
  /\ removal \in [Orchs -> [at : {"none", "delete", "keep"}, left : SUBSET Workers]]
  /\ nudged \subseteq Completions
  /\ receiving \in [Completions -> Summaries \cup {Nothing}]
  /\ shown \in [Completions -> Seq(Summaries)]

(* How the tables show the state of CompletionHandoff.                          *)
Present == orchs \cup {w \in Workers : Exists(w)}
ResultOf == [c \in Completions |->
  IF row[c].state = "none" THEN Nothing
  ELSE [from |-> row[c].from, to |-> row[c].to, text |-> row[c].text]]
Held == {c \in Completions : receiving[c] # Nothing}
Withdrawn == {c \in Completions :
  /\ row[c].state \in {"acked", "deleted"} \/ (row[c].state # "none" /\ row[c].to \notin orchs)
  /\ shown[c] = <<>> /\ receiving[c] = Nothing}

Abstract == INSTANCE CompletionHandoff WITH
  present <- Present, result <- ResultOf, held <- Held, told <- shown, withdrawn <- Withdrawn

(* A result is recorded once, taken once and read at most once, as it was         *)
(* recorded, and nothing but the removal of its worker or its orchestrator, or   *)
(* the death of the command that took it, makes it go unread: complete, claims,  *)
(* nudges and receipts of any number of processes implement that promise.        *)
ImplementsHandoff == Abstract!HSpec

(* One nudge of a completion is sent at a time, whoever polls: the retry comes    *)
(* after the claim has had its time, so an orchestrator is not nudged by two     *)
(* apps at once (claim_worker_completion_delivery moves next_attempt_at first).  *)
OneNudgeAtATime ==
  \A p, q \in Pollers, c \in Completions : Sending(p, c) /\ Sending(q, c) => p = q

(* What is to be delivered has a session: nothing of a deleted worker is          *)
(* retried, as the test deleting_completed_session_stops_outbox_retries asks.    *)
PendingHasSession ==
  \A c \in Completions : Pending(c) => Exists(row[c].from)

(* A recorded completion reaches an orchestrator that can be reached and stays,   *)
(* however many others wait for one that cannot, unless its worker is removed.   *)
Recorded(c) == row[c].state # "none" /\ row[c].to \in Reachable
Settled(c) == shown[c] # <<>> \/ row[c].state = "deleted" \/ row[c].to \notin orchs
Delivered == \A c \in Completions : Recorded(c) ~> Settled(c)

(* While an app runs, a completion gets its attempt before it has been overdue    *)
(* for more polls than there are completions, whoever does not answer: a row     *)
(* that was tried goes behind those that were not (ORDER BY next_attempt_at).    *)
Punctual == \A c \in Completions : Pending(c) => -row[c].wait <= MaxInc * (MaxLag + MaxSend)

(* Both: whoever does not answer, the others are served, and in time.             *)
DeliveredOnTime == Delivered /\ []Punctual

(* A completion is only swept away after it was received.  Violated              *)
(* (Events <- Sweeps): a re-file or a resume makes the worker active again.        *)
SweptWasReceived ==
  [][\A w \in Workers : Sweep(w) => \A c \in Completions : row[c].from = w => ~Pending(c)]_vars

(* What the orchestrator acknowledged it has read or is about to.  Violated       *)
(* (CompletionOutbox_lost.cfg): the acknowledgement is committed before the       *)
(* summary is printed.                                                           *)
AcknowledgedIsRead ==
  \A c \in Completions :
    row[c].state = "acked" /\ row[c].to \in orchs => receiving[c] # Nothing \/ shown[c] # <<>>
=============================================================================
