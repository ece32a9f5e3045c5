CONSTANTS
  w1 = w1
  c3 = c3
  c1 = c1
  c2 = c2
  NoPane = NoPane
  Worker = {w1}
  Client = {c1}
  MaxReports = 2

SPECIFICATION Spec

INVARIANTS
  NoneWasted
