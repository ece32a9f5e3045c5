CONSTANTS
  f1 = f1
  f2 = f2
  s1 = s1
  NoFolder = NoFolder
  NoSession = NoSession
  MaxPane = 3
  Folder = {f1}
  Session = {s1}
  MaxRecents = 2

SPECIFICATION Spec

PROPERTIES
  UserAssignedKept
