---------------------------- MODULE ReconnectLoop ----------------------------
(***************************************************************************)
(* What the RabbitMQ client promises while it is up: one loop that waits,  *)
(* tries to connect, and stays connected until the connection is lost.     *)
(* Never two attempts at once, never an attempt beside a live connection,  *)
(* and never the end of the loop.                                          *)
(***************************************************************************)

VARIABLE loop

States == {"waiting", "connecting", "connected"}

Init == loop = "waiting"

Try     == loop = "waiting"    /\ loop' = "connecting"
Succeed == loop = "connecting" /\ loop' = "connected"
Fail    == loop = "connecting" /\ loop' = "waiting"
Lose    == loop = "connected"  /\ loop' = "waiting"

Next == Try \/ Succeed \/ Fail \/ Lose

Spec == Init /\ [][Next]_loop

\* A wait is over some time, and an attempt succeeds or fails.
FairSpec == Spec /\ WF_loop(Try) /\ WF_loop(Succeed \/ Fail)
=============================================================================
