SPECIFICATION Spec
CONSTANTS
  f1 = f1
  f2 = f2
  a = a
  b = b
  m1 = m1
  m2 = m2
  absent = absent
  temp = temp
  inProgress = inProgress
  File <- MCFile
  Data <- MCData
  Absent <- absent
  Module <- MCModule
  Temp <- temp
  InProgress <- inProgress
  MaxStamp = 0
  Second = 1
  MaxIndex = 2
  MaxFaults = 2
  RmtreeMayStop = TRUE
INVARIANT TypeOK
INVARIANT BackupsComplete
PROPERTY StableKept
PROPERTY OriginalsKept
PROPERTY TemporaryIsApart
PROPERTY ModulesGoBack
CONSTRAINT FilesOrModules
SYMMETRY Symmetry
CHECK_DEADLOCK FALSE
