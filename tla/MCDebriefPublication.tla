---------------------- MODULE MCDebriefPublication ----------------------
(* One Debrief Run for TLC; the bounds are in the .cfg files. *)
EXTENDS DebriefPublication
=========================================================================
