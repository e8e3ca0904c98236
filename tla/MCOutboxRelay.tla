--------------------------- MODULE MCOutboxRelay ---------------------------
(* Small instances of OutboxRelay. *)
EXTENDS OutboxRelay

CONSTANTS c1, c2, e1, e2, e3

\* c1 raises two events; c2 raises one in between, and may commit before c1.
TwoCommands == {c1, c2}
ThreeEvents == {e1, e2, e3}
EmitsThree == [c \in TwoCommands |-> IF c = c1 THEN {e1, e3} ELSE {e2}]
AtThree == [e \in ThreeEvents |-> CASE e = e1 -> 0 [] e = e2 -> 1 [] e = e3 -> 2]
=============================================================================
