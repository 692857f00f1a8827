------------------------------- MODULE Tokens -------------------------------
(***************************************************************************)
(* The tokenizer (assembler/Tokenizer.cpp), character by character.  A     *)
(* text is typed, read by the two scanners of Braces on the way; then it   *)
(* is cut into tokens, one call of scanToken per step.                     *)
(***************************************************************************)
EXTENDS Braces, Sequences, FiniteSets

CONSTANT Alphabets \* bound: a text is written with the characters of one of these sets

\* "end" is what peek returns where there is no character, and the name of none.
ASSUME AlphabetsAssumption == \A a \in Alphabets : "end" \notin a

VARIABLES
  alphabet, \* the characters of the text
  text,     \* source_
  phase,    \* "typing", "scanning", "scanned" or "threw"
  at,       \* current_, counted from 1: the next character
  line,     \* line_
  tokens    \* tokens_: type, first and last character, line

tokenVars == <<vars, alphabet, text, phase, at, line, tokens>>

\* Special characters go by the names Braces gives them, all others by themselves.
Class(c)     == IF c \in Char THEN c ELSE "other"
Digit        == {"0", "1"}
Letter       == {"a", "o", "r", "_"}
Blank        == {" ", "newline"}
Single       == {"(", ")", "{", "}", ";", ",", "[", "]", "%"}
Arithmetic   == {"+", "-", "*", "slash"}
Comparison   == {"!", "=", "<", ">"}
Unsupported  == {<<"+", "+">>, <<"+", "=">>, <<"-", "-">>, <<"-", "=">>, <<"*", "=">>,
                 <<"slash", "=">>}
\* KEYWORDS: the others are found in the same way.
Keywords     == {<<"o", "r">>}

-----------------------------------------------------------------------------
(* isAtEnd, peek, and the loops over peek.                                  *)

Peek(i)     == IF i <= Len(text) THEN text[i] ELSE "end"
AtEnd       == at > Len(text)
C           == Peek(at)
Begins(S)   == phase = "scanning" /\ C \in S
\* The first place from i on that holds no character of S, or the end.
Past(i, S)  == CHOOSE j \in i..(Len(text) + 1) : Peek(j) \notin S /\ \A k \in i..(j - 1) : text[k] \in S
NewLines(i, j) == Cardinality({k \in i..j : text[k] = "newline"})

Advance(j)  == at' = j /\ UNCHANGED <<phase, tokens>>
Throw       == phase' = "threw" /\ UNCHANGED <<at, tokens>>
\* addToken: the lexeme ends before j; the line is the present one.
AddToken(type, j) ==
  /\ tokens' = Append(tokens, [type |-> type, from |-> at, to |-> j - 1, line |-> line'])
  /\ at' = j
  /\ UNCHANGED phase

-----------------------------------------------------------------------------
(* scanToken.                                                               *)

ScanOperator ==
  /\ Begins(Single \cup Arithmetic \cup Comparison)
  /\ <<C, Peek(at + 1)>> # <<"slash", "slash">>
  /\ UNCHANGED line
  /\ CASE <<C, Peek(at + 1)>> \in Unsupported        -> Throw
       [] C \in Comparison /\ Peek(at + 1) = "="     -> AddToken("operator", at + 2)
       [] OTHER                                      -> AddToken("operator", at + 1)

\* Mutant of SkipLineComment: the end of the line is skipped too.
SkipLineCommentAndEnd ==
  /\ Begins({"slash"}) /\ Peek(at + 1) = "slash"
  /\ LET j == Past(at + 2, alphabet \ {"newline"}) IN
     Advance(IF j <= Len(text) THEN j + 1 ELSE j)
  /\ UNCHANGED line

\* Mutant of SkipLineComment: the comment runs on to the end of the text.
SkipLineCommentToEnd ==
  /\ Begins({"slash"}) /\ Peek(at + 1) = "slash"
  /\ Advance(Len(text) + 1)
  /\ UNCHANGED line

SkipLineComment ==
  /\ Begins({"slash"}) /\ Peek(at + 1) = "slash"
  /\ Advance(Past(at + 2, alphabet \ {"newline"}))
  /\ UNCHANGED line

SkipBlank ==
  /\ Begins(Blank)
  /\ Advance(at + 1)
  /\ line' = IF C = "newline" THEN line + 1 ELSE line

\* Mutant of ScanString: a backslash takes the next character with it.
ScanStringEscaped ==
  /\ Begins({"quote"})
  /\ LET j == CHOOSE j \in (at + 1)..(Len(text) + 1) :
                /\ Peek(j) \in {"quote", "end"}
                /\ Peek(j) = "quote" => text[j - 1] # "backslash"
                /\ \A k \in (at + 1)..(j - 1) : text[k] = "quote" => text[k - 1] = "backslash"
     IN /\ line' = line + NewLines(at, j - 1)
        /\ IF j > Len(text) THEN Throw ELSE AddToken("string", j + 1)

ScanString ==
  /\ Begins({"quote"})
  /\ LET j == Past(at + 1, alphabet \ {"quote"}) IN
     /\ line' = line + NewLines(at, j - 1)
     /\ IF j > Len(text) THEN Throw ELSE AddToken("string", j + 1)

\* Mutant of ScanNumber: the dot need not be followed by a digit.
ScanNumberDot ==
  /\ Begins(Digit)
  /\ UNCHANGED line
  /\ LET j == Past(at, Digit) IN
     AddToken("number", IF Peek(j) = "." THEN Past(j + 1, Digit) ELSE j)

ScanNumber ==
  /\ Begins(Digit)
  /\ UNCHANGED line
  /\ LET j == Past(at, Digit) IN
     AddToken("number", IF Peek(j) = "." /\ Peek(j + 1) \in Digit THEN Past(j + 1, Digit) ELSE j)

ScanIdentifier ==
  /\ Begins(Letter)
  /\ UNCHANGED line
  /\ LET j == Past(at, Letter \cup Digit) IN
     AddToken(IF SubSeq(text, at, j - 1) \in Keywords THEN "keyword" ELSE "identifier", j)

UnexpectedCharacter ==
  /\ phase = "scanning" /\ ~AtEnd
  /\ C \notin Single \cup Arithmetic \cup Comparison \cup Blank \cup {"quote"} \cup Digit \cup Letter
  /\ Throw
  /\ UNCHANGED line

\* scanAll: the end of the text is a token too.
ScanEnd ==
  /\ phase = "scanning" /\ AtEnd
  /\ phase' = "scanned"
  /\ tokens' = Append(tokens, [type |-> "eof", from |-> at, to |-> at - 1, line |-> line])
  /\ UNCHANGED <<at, line>>

ScanTokens ==
  \/ ScanOperator \/ SkipLineComment \/ SkipBlank \/ ScanString \/ ScanNumber
  \/ ScanIdentifier \/ UnexpectedCharacter \/ ScanEnd

-----------------------------------------------------------------------------
TypeCharacter(c) ==
  /\ phase = "typing"
  /\ Read(Class(c))
  /\ text' = Append(text, c)
  /\ UNCHANGED <<alphabet, phase, at, line, tokens>>

Tokenize ==
  /\ phase = "typing"
  /\ phase' = "scanning"
  /\ UNCHANGED <<vars, alphabet, text, at, line, tokens>>

TextInit ==
  /\ Init
  /\ alphabet \in Alphabets
  /\ text = <<>> /\ phase = "typing" /\ at = 1 /\ line = 1 /\ tokens = <<>>

TextNext ==
  \/ \E c \in alphabet : TypeCharacter(c)
  \/ Tokenize
  \/ ScanTokens /\ UNCHANGED <<vars, alphabet, text>>

TextSpec == TextInit /\ [][TextNext]_tokenVars

-----------------------------------------------------------------------------
(* Properties.                                                              *)

\* What is a token, without a word on how it is found.
All(s, S)      == \A k \in DOMAIN s : s[k] \in S
IsWord(s)      == s # <<>> /\ s[1] \in Letter /\ All(s, Letter \cup Digit)
IsNumber(s)    ==
  s # <<>> /\ \/ All(s, Digit)
              \/ \E k \in 2..(Len(s) - 1) : s[k] = "." /\ \A j \in DOMAIN s : j # k => s[j] \in Digit
IsString(s)    == Len(s) >= 2 /\ {k \in DOMAIN s : s[k] = "quote"} = {1, Len(s)}
IsOperator(s)  == \/ Len(s) = 1 /\ s[1] \in Single \cup Arithmetic \cup Comparison
                  \/ Len(s) = 2 /\ s[1] \in Comparison /\ s[2] = "="
IsA(type, s)   == CASE type = "identifier" -> IsWord(s) /\ s \notin Keywords
                    [] type = "keyword"    -> s \in Keywords
                    [] type = "number"     -> IsNumber(s)
                    [] type = "string"     -> IsString(s)
                    [] OTHER               -> IsOperator(s)
Lexemes == {k \in DOMAIN tokens : tokens[k].type # "eof"}

\* Every token is the longest that begins where it does: "1.5", ">=" and a name are
\* never cut in two, "1." is none, and a string ends at its first quote.
LongestMatch ==
  \A k \in Lexemes :
    LET t == tokens[k] IN
    /\ IsA(t.type, SubSeq(text, t.from, t.to))
    /\ \A j \in (t.to + 1)..Len(text) :
         ~\E type \in {"identifier", "keyword", "number", "string", "operator"} :
            IsA(type, SubSeq(text, t.from, j))

\* What lies between the tokens is blank or a comment: no character is lost or read twice.
InToken(i)   == \E k \in Lexemes : i \in tokens[k].from..tokens[k].to
InComment(i) ==
  \E b \in 1..i :
    /\ b < Len(text) /\ text[b] = "slash" /\ text[b + 1] = "slash"
    /\ ~InToken(b) /\ ~InToken(b + 1)
    /\ \A j \in b..i : text[j] # "newline"
NothingDropped ==
  phase # "typing" =>
    /\ \A i \in 1..(at - 1) : InToken(i) \/ text[i] \in Blank \/ InComment(i)
    /\ \A i \in 1..(at - 1) : InToken(i) => ~InComment(i)
    /\ \A k \in 2..Len(tokens) : tokens[k - 1].to < tokens[k].from

\* A token stands on the line it ends on, also after strings and comments over several
\* lines: the number in every later error message.
LinesAreRight ==
  \A k \in DOMAIN tokens : tokens[k].line = 1 + NewLines(1, tokens[k].to)

\* The brace tokens are the braces that Braces says the tokenizer counts, and a text it
\* says the tokenizer refuses has no tokens.
Opening == Cardinality({k \in Lexemes : text[tokens[k].from] = "{"})
Closing == Cardinality({k \in Lexemes : text[tokens[k].from] = "}"})
BraceTokensAreCounted ==
  phase = "scanned" => Opening - Closing = tokenizer.net
                       /\ tokenizer.in \notin {"failed", "string"}
=============================================================================
