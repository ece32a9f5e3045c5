CONSTANTS
  p1 = p1
  p2 = p2
  p3 = p3
  main = main
  Free = Free
  Pane = {p1, p2, p3}
  LockName = {main}

SPECIFICATION FairLockSpec

INVARIANTS
  Mutex

PROPERTIES
  NoDeadWait
