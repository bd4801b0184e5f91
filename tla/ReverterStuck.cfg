SPECIFICATION FairSpec
CONSTANTS
  f1 = f1
  f2 = f2
  a = a
  b = b
  m1 = m1
  m2 = m2
  absent = absent
  temp = temp
  inProgress = inProgress
  File <- OneFile
  Data <- OneDatum
  Absent <- absent
  Module <- NoModule
  Temp <- temp
  InProgress <- inProgress
  MaxStamp = 1
  Second = 1
  MaxIndex = 2
  MaxFaults = 1
  RmtreeMayStop = TRUE
PROPERTY CrashesAreRecovered
CHECK_DEADLOCK FALSE
