CONSTANTS
  LongBits = 5
  Precision = 2
  Digits = 1
  MaxExp = 5
  Stored <- MCStored
  MaxArrays = 2
  MaxLength = 2
SPECIFICATION Spec
INVARIANTS
  VisitedIsPath
  DotsMeanCycle
  NothingIsLost
  CastsKeepTheNumber
  TextSaysNumber
PROPERTY PrintEnds
