CONSTANTS
  orch = orch
  worker = worker
  other = other
  m1 = m1
  Handback = Handback
  Left = Left
  Pane = {orch, worker, other}
  Orchestrators = {orch}
  Workers = {worker, other}
  TeamOf <- MCTeamOfTwo
  Text = {}
  MaxMsgs = 0
  MaxTimers = 0
  MaxGrips = 2

SPECIFICATION FairSpec

INVARIANTS
  OneGrip

PROPERTIES
  HandbackTold
  QueueDrains
