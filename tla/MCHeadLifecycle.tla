--------------------------- MODULE MCHeadLifecycle ---------------------------
(* Small instances of HeadLifecycle for TLC. *)
EXTENDS HeadLifecycle, TLC

CONSTANTS h1, h2, n1, n2, n3, r1, r2, p1, p2

OneHeadTwoNodes    == (h1 :> {n1, n2})
TwoHeadsThreeNodes == (h1 :> {n1, n2}) @@ (h2 :> {n3})

\* Requests are interchangeable, and so are the two nodes of one head.
Symmetry2 == Permutations({r1, r2}) \cup Permutations({n1, n2})
=============================================================================
