CONSTANTS
  MaxLength = 6
  Alphabets <- MCAlphabets
SPECIFICATION TextSpec
INVARIANTS
  BracesAgree
  LongestMatch
  NothingDropped
  LinesAreRight
  BraceTokensAreCounted
CHECK_DEADLOCK FALSE
