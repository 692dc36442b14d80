-------------------------- MODULE MCResearchQueue --------------------------
(* ResearchQueue for TLC; the bounds are in the .cfg file. *)
EXTENDS ResearchQueue, TLC
=============================================================================
