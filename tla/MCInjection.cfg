CONSTANTS
  orch = orch
  worker = worker
  other = other
  m1 = m1
  Handback = Handback
  Left = Left
  Pane = {orch, worker}
  Orchestrators = {orch}
  Workers = {worker}
  TeamOf <- MCTeamOf
  Text = {m1}
  MaxMsgs = 2
  MaxTimers = 1
  MaxGrips = 1

SPECIFICATION Spec

INVARIANTS
  TypeOK
  InOrder
  NoGlue

PROPERTIES
  NoPasteOverTypedDraft
