------------------------- MODULE MCContentProjects -------------------------
(* One Content Project for TLC. *)
EXTENDS ContentProjects, TLC

Symmetry == Permutations(Slots)

\* The last record - the Draft that lands after a second Outline - is looked at
\* in a Project of one revision, and revisions with one record less.
FewRecords == Number = 1 \/ records < MaxRecords
=============================================================================
