----------------------------- MODULE MCGrammar -----------------------------
(* Texts over alphabets that each exercise some methods of the parser.      *)
EXTENDS Grammar
Texts(set, most) == [words |-> set, most |-> most]
MCAlphabets == {
  Texts({"x", ";", "or", "and", "==", "<", "+", "*"}, 8), \* the levels of operators
  Texts({"x", ";", "-", "!", "*", "=", "(", ")"}, 7),     \* what they apply to
  Texts({"x", "1", ";", "=", "(", ")", "[", "]", ","}, 7), \* targets, calls, elements
  Texts({"x", ";", "for", "var", "(", ")"}, 11),
  Texts({"x", ";", "func", "(", ")", "{", "}", ","}, 11),
  Texts({"x", ";", "func", "return", "(", ")", "{", "}"}, 10),
  Texts({"x", ";", "if", "else", "(", ")"}, 10),
  Texts({"x", "int", "let", ";", "=", "print", "var", "{", "}"}, 6),
  Texts(R!Token, 6) }
=============================================================================
