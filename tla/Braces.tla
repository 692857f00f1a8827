------------------------------- MODULE Braces -------------------------------
(***************************************************************************)
(* Which braces count.  Shell::run counts them line by line with netBraces *)
(* to know when a block is complete; the tokenizer, which reads the whole  *)
(* text afterwards, decides which of them are braces.  The two scanners    *)
(* read the same characters here, side by side.                            *)
(*                                                                         *)
(* Each scanner is "in" code, after a slash in code, in a string, after a  *)
(* backslash in a string, or in a comment; "net" is opening less closing.  *)
(***************************************************************************)
EXTENDS Integers

CONSTANT MaxLength \* bound: no more characters are read than this
ASSUME MaxLengthAssumption == MaxLength \in Nat

VARIABLES
  shell,     \* netBraces: [in, net], "net" being depth of run()
  tokenizer, \* Tokenizer::Scanner: [in, net], "failed" once it has thrown
  length,    \* how many characters were read
  escaped,   \* history: did a string literal hold a backslash?
  broken     \* history: did a line end inside a string literal?

vars == <<shell, tokenizer, length, escaped, broken>>

Char == {"quote", "backslash", "slash", "{", "}", "newline", "other"}
In   == {"code", "slash", "string", "escape", "comment", "failed"}

Net(s, c) == CASE c = "{" -> s.net + 1 [] c = "}" -> s.net - 1 [] OTHER -> s.net
InCode(c) == CASE c = "quote" -> "string" [] c = "slash" -> "slash" [] OTHER -> "code"

\* A character that both scanners look at outside strings and comments.
ReadCode(s, c) ==
  IF s.in = "slash" /\ c = "slash" THEN [s EXCEPT !.in = "comment"]
                                   ELSE [in |-> InCode(c), net |-> Net(s, c)]

\* Mutant of NetBraces: comments are read like code.
NetBracesInComments(s, c) ==
  CASE c = "newline"      -> [s EXCEPT !.in = "code"]
    [] c # "newline" /\ s.in = "string" -> [s EXCEPT !.in = IF c = "quote" THEN "code" ELSE "string"]
    [] OTHER              -> [in |-> InCode(c), net |-> Net(s, c)]

\* netBraces.  It is called anew for every line, and a backslash in a string
\* takes the next character of the line with it.
NetBraces(s, c) ==
  CASE c = "newline"      -> [s EXCEPT !.in = "code"]
    [] c # "newline" /\ s.in = "string" ->
         [s EXCEPT !.in = CASE c = "backslash" -> "escape"
                            [] c = "quote"     -> "code"
                            [] OTHER           -> "string"]
    [] c # "newline" /\ s.in = "escape"  -> [s EXCEPT !.in = "string"]
    [] c # "newline" /\ s.in = "comment" -> s
    [] OTHER              -> ReadCode(s, c)

\* scanToken, scanString and skipLineComment.  A backslash in a string is a
\* character like any other; in code it is none that a token begins with.
ScanToken(s, c) ==
  CASE s.in = "failed"  -> s
    [] s.in = "string"  -> [s EXCEPT !.in = IF c = "quote" THEN "code" ELSE "string"]
    [] s.in = "comment" -> [s EXCEPT !.in = IF c = "newline" THEN "code" ELSE "comment"]
    [] s.in \in {"code", "slash"} /\ c = "backslash" -> [s EXCEPT !.in = "failed"]
    [] OTHER            -> ReadCode(s, c)

Read(c) ==
  /\ length < MaxLength
  /\ shell' = NetBraces(shell, c)
  /\ tokenizer' = ScanToken(tokenizer, c)
  /\ length' = length + 1
  /\ escaped' = (escaped \/ (tokenizer.in = "string" /\ c = "backslash"))
  /\ broken' = (broken \/ (tokenizer.in = "string" /\ c = "newline"))

Start == [in |-> "code", net |-> 0]
Init == /\ shell = Start /\ tokenizer = Start /\ length = 0
        /\ escaped = FALSE /\ broken = FALSE
Next == \E c \in Char : Read(c)
Spec == Init /\ [][Next]_vars

-----------------------------------------------------------------------------
(* Properties.                                                              *)

\* The two scanners.
BracesTypeOK ==
  /\ shell \in [in : In \ {"failed"}, net : Int]
  /\ tokenizer \in [in : In \ {"escape"}, net : Int]
  /\ length \in Nat /\ escaped \in BOOLEAN /\ broken \in BOOLEAN

\* netBraces counts the braces that become tokens, as long as no string literal
\* holds a backslash or a line end: what Repl takes for granted when it counts
\* brace tokens.
BracesAgree ==
  tokenizer.in # "failed" /\ ~escaped /\ ~broken => shell.net = tokenizer.net
=============================================================================
