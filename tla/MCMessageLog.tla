---------------------------- MODULE MCMessageLog ----------------------------
(* MessageLog on two messages: m1 to two recipients, m2 to one of them; or *)
(* on m1 alone.                                                            *)
EXTENDS MessageLog, TLC
CONSTANTS m1, m2, a, b
MCTo == m1 :> {a, b} @@ m2 :> {a}
MCToOne == m1 :> {a, b}
NoRows == {}
BadRow == {<<m2, a>>}
=============================================================================
