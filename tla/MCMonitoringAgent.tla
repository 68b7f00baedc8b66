-------------------------- MODULE MCMonitoringAgent --------------------------
(* Small instances of MonitoringAgent for TLC. *)
EXTENDS MonitoringAgent, TLC

CONSTANTS c1, c2, c3, c4

ConnSymmetry == Permutations({c1, c2, c3, c4})
=============================================================================
