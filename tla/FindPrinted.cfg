CONSTANTS
  LongBits = 5
  Precision = 2
  Digits = 2
  MaxExp = 5
  Stored <- MCStored
  MaxArrays = 0
  MaxLength = 0
SPECIFICATION Spec
INVARIANT IntegersPrintThemselves
