CONSTANTS
  w1 = w1
  c1 = c1
  c2 = c2
  c3 = c3
  NoPane = NoPane
  Worker = {w1}
  Client = {c1, c2, c3}
  MaxReports = 3

SPECIFICATION FairSpec

INVARIANTS
  TypeOK
  Fifo

PROPERTIES
  DoneIsQuiet
  WaiterServed
  StallNoticed
