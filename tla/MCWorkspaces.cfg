CONSTANTS
  c1 = c1
  c2 = c2
  f1 = f1
  f2 = f2
  NoFolder = NoFolder
  Client = {c1}
  Folder = {f1}
  MaxPane = 3
  MaxSpace = 2
  Spawns = {TRUE, FALSE}

SPECIFICATION Spec
CONSTRAINT Homeward

INVARIANTS
  Wellformed
  FocusVisible
  NoneLost
