CONSTANTS
  TypedLines <- MCTypedLines
  MaxTokens = 5
SPECIFICATION Spec
INVARIANTS
  DepthIsOpenBraces
  WaitsForAReason
  NeverCutsAnIf
PROPERTY
  OnlyClosingLinesSpoil
