----------------------------- MODULE MCLerpToTarget -----------------------------
(* Values for model checking LerpToTarget.                                   *)
EXTENDS LerpToTarget

CONSTANT c1

OneClient == {c1}
\* The client's clock is right or a step ahead.
Ahead == {0, 1}
AtZero == [x \in Axes |-> 0]
================================================================================
