CONSTANTS
  Name <- MCName
  Node <- MCNode
  Foldable <- Any
  Statements <- MCStatements
  Height <- HeightOf
  Lines = {}
  Blocks = {}
  Files <- DebugFiles
  Modes = {"debug"}
  MaxArrays = 1
  SourceLines <- MCLinesOfSource
  Watchable = {"a"}
  Elements <- MCElements
SPECIFICATION DebugSpec
INVARIANTS
  ObserverRemoved
  WatchIsWhatIsPrinted
PROPERTIES
  NextStepsOverFrames
  ContinueRunsToEnd
  DebuggerIsTransparent
