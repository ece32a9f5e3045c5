CONSTANTS
  c1 = c1
  c2 = c2
  f1 = f1
  f2 = f2
  NoFolder = NoFolder
  Client = {c1, c2}
  Folder = {f1, f2}
  MaxPane = 3
  MaxSpace = 2
  Spawns = {TRUE}

SPECIFICATION Spec
SYMMETRY Symmetry
CONSTRAINTS Homeward Unzoomed Unpainted

PROPERTIES
  LandsInScope
  KeystrokesStay
