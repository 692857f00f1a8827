CONSTANTS
  Name <- MCName
  Node <- MCNode
  Foldable <- Any
  Statements <- MCStatements
  Height <- HeightOf
  Lines = {}
  Blocks = {}
  Files <- DebugFiles
  Modes = {"debug"}
  MaxArrays = 1
  Watchable = {}
  Elements = {}
  SourceLines <- MCLinesOfSource
SPECIFICATION DebugSpec
INVARIANT NextRunsStatement
