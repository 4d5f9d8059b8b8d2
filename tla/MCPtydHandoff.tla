--------------------------- MODULE MCPtydHandoff ---------------------------
(* Instances of PtydHandoff for TLC: a chain of hosts, faults chosen per run. *)
EXTENDS PtydHandoff, TLC

CONSTANTS h1, h2, h3, p1, p2

TwoHosts == {h1, h2}
ThreeHosts == {h1, h2, h3}
OnePane == {p1}
TwoPanes == {p1, p2}
NoFaults == {}
Retries == {"kill", "fail"}
Exhaustion == {"prepare", "start", "restart"}
Shortages == Retries \cup Exhaustion
Dropping == {"kill", "fail", "prepare", "start"}
AllFaults == {"fail", "rename", "timeout", "term", "crash"} \cup Exhaustion
Preparing == {"prepare"}
(* The hosts that may start later are alike. *)
Later == Permutations({h2, h3})
=============================================================================
