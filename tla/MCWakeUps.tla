----------------------------- MODULE MCWakeUps -----------------------------
(* The relay, the poller's loop and the maintenance tick. *)
EXTENDS WakeUps, TLC
=============================================================================
