--------------------------- MODULE MCBriefIntake ---------------------------
(* BriefIntake for TLC: one occurrence that changes a few times.           *)
EXTENDS BriefIntake
=============================================================================
