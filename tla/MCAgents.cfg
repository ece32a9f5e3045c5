CONSTANTS
  p1 = p1
  p2 = p2
  h1 = h1
  f1 = f1
  None = None
  Bare = Bare
  Pane = {p1, p2}
  Hooked = {h1}
  Filed = {f1}
  GonePolls = 2
  MaxProc = 2

SPECIFICATION FairSpec

INVARIANTS
  FiledOnce

PROPERTIES
  Recoverable
  ReleasedInTheEnd
