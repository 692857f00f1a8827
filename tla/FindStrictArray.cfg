CONSTANTS
  Name <- MCName
  Node <- MCNode
  Foldable <- Any
  Statements <- MCStatements
  Height <- HeightOf
  Lines <- NoLines
  Blocks <- ArrayBlocks
  Files <- NoFiles
  Modes = {"repl"}
  MaxArrays = 1
SPECIFICATION Spec
INVARIANT StrictKnowsArray
