--------------------------- MODULE MCOgmiosClient ---------------------------
(* Small instances of OgmiosClient for TLC. *)
EXTENDS OgmiosClient, TLC

CONSTANTS own, q1, q2, s1, s2, s3, s4, s5

TwoClients == (own :> {}) @@ (q1 :> {"tip", "test"}) @@ (q2 :> {"query", "health"})
=============================================================================
