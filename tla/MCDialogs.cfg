CONSTANTS
  c1 = c1
  p1 = p1
  Client = {c1}
  Pid = {p1}
  MaxPane = 3
  MaxTab = 2
  MaxSpace = 2

SPECIFICATION Spec

INVARIANTS
  TypeOK
  FocusAlive
  DragOfThisPress

PROPERTIES
  OnlyNamed
