------------------------------ MODULE MCTokens ------------------------------
(* Every text of up to six characters of each of three alphabets: braces   *)
(* and what hides them, words and numbers, operators.                       *)
EXTENDS Tokens
MCAlphabets == {
  {"quote", "backslash", "slash", "{", "}", "newline"},
  {"o", "r", "1", ".", " ", "quote"},
  {"+", "-", "=", "<", "slash", "newline"} }
=============================================================================
