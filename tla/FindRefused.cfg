CONSTANTS
  Name <- MCName
  Node <- MCNode
  Foldable <- Any
  Statements <- MCStatements
  Height <- HeightOf
  Lines <- RejectedLines
  Blocks <- NoLines
  Files <- NoFiles
  Modes = {"repl"}
  MaxArrays = 1
SPECIFICATION Spec
INVARIANT RefusedNamesExist
