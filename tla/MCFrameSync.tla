------------------------------ MODULE MCFrameSync ------------------------------
(* Values for model checking FrameSync.                                      *)
EXTENDS FrameSync

CONSTANTS p1, p2, s1

TwoPlayers == {p1, p2}
OneListener == {p1}
OneBattle == [p \in Players |-> s1]
(* One player has an input that is cut and one that is not; the second       *)
(* battle only goes on with what is under way.                               *)
FewWords == <<[p \in Players |-> IF p = p1 THEN 2 ELSE 1],
              [p \in Players |-> 0]>>
OneSid == {s1}
================================================================================
