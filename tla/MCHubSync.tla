------------------------------ MODULE MCHubSync ------------------------------
(* Small instances of HubSync for TLC. *)
EXTENDS HubSync
=============================================================================
