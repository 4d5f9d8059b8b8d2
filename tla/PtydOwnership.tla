--------------------------- MODULE PtydOwnership ---------------------------
(***************************************************************************)
(* What a live upgrade promises about agent panes, with no protocol: every *)
(* running pane has one owner, and an upgrade moves all panes of a host to *)
(* its successor in one step, but for those the successor failed to adopt. *)
(* The promise is the module docs of crates/ninox-ptyd/src/handoff.rs;     *)
(* PtydHandoff implements it.                                              *)
(***************************************************************************)
EXTENDS Naturals

CONSTANTS Hosts, Panes, NoHost

VARIABLES owner,  \* the host that answers for a pane
          used,   \* panes that were ever started
          failed  \* panes a host failed to adopt

avars == <<owner, used, failed>>

AInit == /\ owner = [p \in Panes |-> NoHost]
         /\ used = {}
         /\ failed = [h \in Hosts |-> {}]

Start(h, p) == /\ p \notin used
               /\ used' = used \cup {p}
               /\ owner' = [owner EXCEPT ![p] = h]
               /\ UNCHANGED failed

Owned(h) == {p \in Panes : owner[p] = h}

(* All of h's panes at once, to a host that owns none; h keeps nothing. *)
Transfer(h, g) == /\ g # h /\ Owned(g) = {} /\ Owned(h) # {}
                  /\ owner' = [p \in Panes |-> IF owner[p] # h THEN owner[p]
                                              ELSE IF p \in failed[g] THEN NoHost ELSE g]
                  /\ UNCHANGED <<used, failed>>

(* g fails to adopt S, before they are its own or after; nobody else loses any. *)
Fail(g, S) == /\ failed' = [failed EXCEPT ![g] = @ \cup S]
              /\ owner' = [p \in Panes |-> IF owner[p] = g /\ p \in S THEN NoHost ELSE owner[p]]
              /\ UNCHANGED used

(* Panes that were killed on request, or every pane of a host that ended. *)
Drop(S) == /\ S # {}
           /\ owner' = [p \in Panes |-> IF p \in S THEN NoHost ELSE owner[p]]
           /\ UNCHANGED <<used, failed>>

ANext == \/ \E h \in Hosts, p \in Panes : Start(h, p)
         \/ \E h, g \in Hosts : Transfer(h, g)
         \/ \E g \in Hosts, S \in SUBSET Panes : Fail(g, S)
         \/ \E p \in Panes : Drop({p})
         \/ \E h \in Hosts : Drop(Owned(h))

ASpec == AInit /\ [][ANext]_avars
=============================================================================
