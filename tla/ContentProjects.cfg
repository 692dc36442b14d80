SPECIFICATION Spec
CONSTANTS
  Modes = {"null", "none", "fresh"}
  Slots = {s1, s2}
  Targets = {t1}
  Items = {i1}
  Subjects = {a}
  Authors = {o}
  MaxRevisions = 2
  MaxRecords = 4
CONSTRAINT FewRecords
SYMMETRY Symmetry
INVARIANTS Lineage
PROPERTIES RecordsStand
