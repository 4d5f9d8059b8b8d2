------------------------------ MODULE MCMailbox ------------------------------
(* Instances of Mailbox for TLC.                                               *)
EXTENDS Mailbox, TLC

CONSTANTS short, long, third

Two == {short, long}
Three == {short, long, third}
\* With a payload of 2 the long one is cut, and nothing goes with it.
Sizes == [m \in Messages |-> IF m = long THEN 3 ELSE 1]

AnyMechanism == {"socket", "inbox", "keystrokes"}
OnlyInbox == {"inbox"}
OnlyKeys == {"keystrokes"}

NoFaults == {}
Marks == {"mark"}
Swallows == {"swallow"}
Screens == {"swallow", "screen", "die"}
AllButMark == {"write", "kill", "swallow", "screen", "store", "die"}
=============================================================================
