--------------------------- MODULE MCSessionTurns ---------------------------
(* Small instances of SessionTurns for TLC. *)
EXTENDS SessionTurns, TLC

CONSTANTS p1, p2, v1, v2, t1, t2, t3, hello, again, stop

\* Two different messages, the same message twice, a message and "stop".
TwoTexts == [p \in Posts |-> IF p = p1 THEN hello ELSE again]
SameText == [p \in Posts |-> hello]
ThenStop == [p \in Posts |-> IF p = p1 THEN hello ELSE stop]

\* Two views are alike: no constant tells them apart.
ViewSymmetry == Permutations(Views)
=============================================================================
