---------------------------- MODULE MCQuarantine ----------------------------
(* Quarantine with requests j1 and j2 about m1; l1 is a link to m1. m2 has *)
(* no request of its own: only the cleaner meets it. Where there is a Late *)
(* message, logged after midnight, it is m2.                               *)
EXTENDS Quarantine, TLC
CONSTANTS m1, m2, j1, j2, l1
MCLinkMsg == l1 :> m1
MCAbout == j1 :> m1 @@ j2 :> m1
MCAsks == {{"release"}, {"release", "learn"}, {"release", "delete"}, {"delete"}}
MCAsksShort == {{"release", "learn"}, {"release", "delete"}}
Requests == Permutations({j1, j2})
=============================================================================
