----------------------------- MODULE MCAuthTxn -----------------------------
(***************************************************************************)
(* Instances of AuthTxn for TLC.                                           *)
(***************************************************************************)
EXTENDS AuthTxn, TLC

CONSTANTS c1, c2, d1, d2, d3, t1, t2, x1, x2, x3, k1, k2, j1, j2, r1, r2,
          p1, p2, q1, q2

\* One citizen with two equally capable phones.
TwinOwner == d1 :> c1 @@ d2 :> c1
TwinLevel == d1 :> 2 @@ d2 :> 2

\* One citizen with one phone.
SingleOwner == d1 :> c1
SingleLevel == d1 :> 2

\* Two citizens: a weak phone beside a strong one, and a stranger's.
MixedOwner == d1 :> c1 @@ d2 :> c1 @@ d3 :> c2
MixedLevel == d1 :> 2 @@ d2 :> 1 @@ d3 :> 2

\* Calls of one kind are interchangeable, and so are unused ids.
Symmetric == Permutations({p1, p2}) \cup Permutations({q1, q2})
             \cup Permutations({x1, x2, x3}) \cup Permutations({k1, k2})
             \cup Permutations({j1, j2})
=============================================================================
