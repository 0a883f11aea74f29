CONSTANTS
  Files = {f1, f2}
  Absent = absent
  Contents = {absent, v1, v2}
  IoMayFail = TRUE
SYMMETRY Symmetry
SPECIFICATION Spec
INVARIANTS
  AllOrNothing
  EvidenceKept
  ForeignKept
PROPERTY
  FilesAtomic
