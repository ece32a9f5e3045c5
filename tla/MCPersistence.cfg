CONSTANTS
  a = a
  b = b
  Who = {a, b}
  NoText = NoText
  Keep = Keep
  MaxId = 2
  MaxVer = 2
  MaxSeq = 2

SPECIFICATION Spec
SYMMETRY Symmetry

INVARIANTS
  TypeOK
  FileWhole
  ForegroundSaved
  RestoredAsSaved
  ScrubbedForGood

PROPERTIES
  ImplementsDurable
