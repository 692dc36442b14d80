---------------------------- MODULE MCRunEngine ----------------------------
(* RunEngine on two Runs, one of which the recovery sweep may find no plan for. *)
EXTENDS RunEngine
=============================================================================
