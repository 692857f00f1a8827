CONSTANTS
  Alphabets <- MCAlphabets
SPECIFICATION Spec
INVARIANTS
  AcceptsTheGrammar
  ErrorsAreFinal
  TreeIsTheText
  TreeBindsRight
  ReplReadsTheSame
CHECK_DEADLOCK FALSE
