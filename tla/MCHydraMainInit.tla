--------------------------- MODULE MCHydraMainInit ---------------------------
(* Small instances of HydraMainInit for TLC. *)
EXTENDS HydraMainInit, TLC

CONSTANTS own, boot, q1, s1, s2, s3

OneClient == (own :> {}) @@ (boot :> {}) @@ (q1 :> {"tip", "query"})
=============================================================================
