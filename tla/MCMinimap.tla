------------------------------- MODULE MCMinimap -------------------------------
(* Values for model checking Minimap.                                        *)
EXTENDS Minimap, TLC

CONSTANTS c1, c2, m1

TwoCmps == {c1, c2}
OneMap == {m1}
AllOnOne == [c \in Cmps |-> m1]

(* Components of one map differ in nothing else.                             *)
CmpSymmetry == Permutations({c1, c2})
================================================================================
