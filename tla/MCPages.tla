------------------------------- MODULE MCPages -------------------------------
(* Directory has one row of each table, two list items and two signatures of *)
(* each owner; Settings two policies, two rules of the first, two rows of a  *)
(* domain.                                                                   *)
EXTENDS Pages, TLC
CONSTANTS o1, y1, d1, a1, s1, h1, l1, u1, e1, w1, w2, dt, dh, ut, uh, q1, q2,
    p1, p2, n1, n2, k1, k2, k3, g1, g2, t1, t2

MCOf == y1 :> o1 @@ d1 :> o1 @@ a1 :> d1 @@ s1 :> d1 @@ h1 :> d1 @@ l1 :> h1
        @@ e1 :> u1 @@ w1 :> u1 @@ w2 :> u1 @@ dt :> d1 @@ dh :> d1 @@ ut :> u1 @@ uh :> u1
MCPolicyOf == k1 :> p1 @@ k2 :> p1 @@ k3 :> p2
(* Each file of the settings by itself: that they are its files is assumed.  *)
EachSetting ==
    {{f} : f \in ({"rules"} \X {n1, n2})
                 \cup {<<"ruleset">>, <<"dkim">>, <<"mta">>, <<"scores">>, <<"quickpeek">>}}
Requests == Permutations(Request)
=============================================================================
