CONSTANTS
  Name <- MCName
  Node <- MCNode
  Foldable <- Any
  Statements <- MCStatements
  Height <- HeightOf
  Lines <- MCLines
  Blocks <- MCBlocks
  Files <- AllFiles
  Modes = {"repl", "file"}
  MaxArrays = 1
SPECIFICATION Spec
INVARIANTS
  SessionTypeOK
  CheckerStacksAgree
  IdleIsClean
  ReturnIsCaught
  HeldNamesAreKnown
  GlobalsDefinedOnce
  EnvironmentStack
  StoreInBounds
  CallRunsCheckedDecl
PROPERTIES
  LedgerSpec
  EveryLineEnds
  FileEnds
