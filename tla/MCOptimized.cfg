CONSTANTS
  Name <- MCName
  Node <- MCNode
  Foldable <- Any
  Statements <- Any
  Sources <- MCSources
  Placed <- MCPlaced
SPECIFICATION Spec
INVARIANTS
  ScopesAreEnvironments
  StaticIsDynamic
  SameOutcome
