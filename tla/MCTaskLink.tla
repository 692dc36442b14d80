----------------------------- MODULE MCTaskLink -----------------------------
(* TaskLink for TLC: one Task, one or two operations in flight at a time.  *)
EXTENDS TaskLink
=============================================================================
