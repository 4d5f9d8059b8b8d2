------------------------- MODULE CompletionHandoff -------------------------
(* What a worker's completion promises.  One result is recorded for an           *)
(* incarnation, by a worker for an orchestrator, and never changes.  It is taken  *)
(* by the orchestrator once, and read at most once, as it was recorded.  It goes   *)
(* unread only when its worker or its orchestrator leaves, or when the reader     *)
(* drops it after taking it.                                                     *)
EXTENDS Sequences

CONSTANTS Completions, Workers, Orchs, Summaries, Nothing

VARIABLES
  present,  \* workers and orchestrators there are
  result,   \* what was recorded for a completion
  held,     \* completions taken and not yet read
  told,     \* the texts its orchestrator has read
  withdrawn \* completions that will not be read any more

handoff == <<present, result, held, told, withdrawn>>

Result == [from : Workers, to : Orchs, text : Summaries]

HInit ==
  /\ present = Orchs
  /\ result = [c \in Completions |-> Nothing]
  /\ held = {}
  /\ told = [c \in Completions |-> <<>>]
  /\ withdrawn = {}

Join(w) ==
  /\ present' = present \cup {w}
  /\ UNCHANGED <<result, held, told, withdrawn>>

Record(c, r) ==
  /\ result[c] = Nothing
  /\ {r.from, r.to} \subseteq present
  /\ result' = [result EXCEPT ![c] = r]
  /\ UNCHANGED <<present, held, told, withdrawn>>

Unread == {c \in Completions : result[c] # Nothing /\ told[c] = <<>> /\ c \notin withdrawn}

Take(c) ==
  /\ c \in Unread \ held
  /\ held' = held \cup {c}
  /\ UNCHANGED <<present, result, told, withdrawn>>

Read(c) ==
  /\ c \in Unread \cap held
  /\ told' = [told EXCEPT ![c] = <<result[c].text>>]
  /\ held' = held \ {c}
  /\ UNCHANGED <<present, result, withdrawn>>

Drop(c) ==
  /\ c \in Unread \cap held
  /\ held' = held \ {c}
  /\ withdrawn' = withdrawn \cup {c}
  /\ UNCHANGED <<present, result, told>>

\* Workers and orchestrators may leave together.  What an orchestrator has taken
\* it may still read when the worker leaves.
Leave(X) ==
  /\ X \subseteq present
  /\ present' = present \ X
  /\ \E C \in SUBSET {c \in Unread : {result[c].from, result[c].to} \cap X # {}} :
       held' = held \ C /\ withdrawn' = withdrawn \cup C
  /\ UNCHANGED <<result, told>>

HNext ==
  \/ \E w \in Workers : Join(w)
  \/ \E c \in Completions, r \in Result : Record(c, r)
  \/ \E c \in Completions : Take(c) \/ Read(c) \/ Drop(c)
  \/ \E X \in SUBSET (Workers \cup Orchs) : Leave(X)

HSpec == HInit /\ [][HNext]_handoff
=============================================================================
