-------------------------- MODULE MCBriefDelivery --------------------------
(* BriefDelivery for TLC: one Brief, and owner requests that may overlap.  *)
EXTENDS BriefDelivery
=============================================================================
