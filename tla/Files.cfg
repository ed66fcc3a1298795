SPECIFICATION Spec
CONSTANTS
  Procs = {p1, p2}
  Types = {"contract", "script"}
  Templates <- OneContract
  Titles = {a, b}
  MaxFiles = 2
  Faults = {"query", "run"}
SYMMETRY Symmetry
INVARIANTS
  TypeOK
  NewFilesAfterOld
  OrphansFailed
  TouchedBeforeSuccess
  TitleKept
