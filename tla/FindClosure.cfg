CONSTANTS
  Name <- MCName
  Node <- MCNode
  Foldable <- Any
  Statements <- MCStatements
  Height <- HeightOf
  Lines <- NoLines
  Blocks <- NoLines
  Files <- ClosureFiles
  Modes = {"file"}
  MaxArrays = 1
SPECIFICATION Spec
INVARIANT ClosureIsAlive
