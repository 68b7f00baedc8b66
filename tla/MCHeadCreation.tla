--------------------------- MODULE MCHeadCreation ---------------------------
(* Small instances of HeadCreation for TLC. *)
EXTENDS HeadCreation

CONSTANTS r1, r2, r3
=============================================================================
