---------------------------- MODULE MCConfigSync ----------------------------
(* ConfigSync on a node, with three changes, the second one back to the    *)
(* default, or with the first two of them.                                 *)
EXTENDS ConfigSync, TLC
CONSTANTS q1, q2, q3, n1
MCScore == q1 :> 5 @@ q2 :> 0
MCScoreThree == q1 :> 5 @@ q2 :> 0 @@ q3 :> 7
=============================================================================
