------------------------- MODULE MCBindingLifecycle -------------------------
(***************************************************************************)
(* Instances of BindingLifecycle for TLC.                                  *)
(***************************************************************************)
EXTENDS BindingLifecycle, TLC

CONSTANTS c1, d1, d2, n1, n2, x1, x2, i1, i2

\* One citizen with two phones.
PairOwner == d1 :> c1 @@ d2 :> c1
PairLevel == d1 :> 2 @@ d2 :> 2

\* Requests in flight are interchangeable, and so are unused keys and phones
\* that are not enrolled yet.
Symmetric == Permutations({i1, i2}) \cup Permutations({n1, n2})
             \cup Permutations({x1, x2}) \cup Permutations({d1, d2})
=============================================================================
