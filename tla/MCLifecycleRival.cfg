CONSTANTS
  s1 = s1
  s2 = s2
  t1 = t1
  t2 = t2
  run = run
  wait = wait
  Nobody = Nobody
  Proc = {s1, s2}
  Terminal = {t1, t2}
  Act = {run}
  Wait = {wait}

SPECIFICATION Spec

PROPERTIES
  NoPaneDies

CHECK_DEADLOCK FALSE
