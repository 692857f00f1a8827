---------------------------- MODULE TokensProofs ----------------------------
(***************************************************************************)
(* For texts of every length and over every alphabet: what the tokens are, *)
(* which lines they are on, and which braces are counted.                  *)
(***************************************************************************)
EXTENDS Tokens, Induction

-----------------------------------------------------------------------------
(* netBraces and the tokenizer count the same braces.  BracesAgree compares *)
(* two counters only; it is inductive once the scanners are known to be in  *)
(* the same place.                                                          *)

\* As long as nothing sets the scanners apart they are in the same state.
InStep == tokenizer.in # "failed" /\ ~escaped /\ ~broken => shell = tokenizer

BracesInv == BracesTypeOK /\ InStep

ShellState     == [in : In \ {"failed"}, net : Int]
TokenizerState == [in : In \ {"escape"}, net : Int]

\* A record of a scanner that moves without counting is one of a scanner.
LEMMA MoveType ==
  ASSUME NEW S, NEW i \in S, NEW s \in [in : S, net : Int]
  PROVE  /\ [s EXCEPT !.in = i] \in [in : S, net : Int]
         /\ [s EXCEPT !.in = i].in = i
  OBVIOUS

\* What the two scanners return is again a state of theirs.
LEMMA ReadCodeType ==
  ASSUME NEW c \in Char, NEW S, {"code", "slash", "string", "comment"} \subseteq S,
         NEW s \in [in : S, net : Int]
  PROVE  ReadCode(s, c) \in [in : S, net : Int] /\ ReadCode(s, c).in # "failed"
<1>1. InCode(c) \in S /\ InCode(c) # "failed"
  BY DEF InCode
<1>0. Net(s, c) \in Int
  <2>1. s.net \in Int
    OBVIOUS
  <2>2. s.net + 1 \in Int /\ s.net - 1 \in Int
    BY <2>1
  <2>3. CASE c = "{"
    <3>1. Net(s, c) = s.net + 1
      BY <2>3 DEF Net
    <3> QED BY <2>2, <3>1
  <2>4. CASE c = "}"
    <3>1. Net(s, c) = s.net - 1
      BY <2>4 DEF Net
    <3> QED BY <2>2, <3>1
  <2>5. CASE c \notin {"{", "}"}
    <3>1. Net(s, c) = s.net
      BY <2>5 DEF Net
    <3> QED BY <2>1, <3>1
  <2> QED BY <2>3, <2>4, <2>5
<1>2. CASE s.in = "slash" /\ c = "slash"
  <2>1. ReadCode(s, c) = [s EXCEPT !.in = "comment"]
    BY <1>2 DEF ReadCode
  <2> QED BY <2>1, MoveType
<1>3. CASE ~(s.in = "slash" /\ c = "slash")
  <2>1. ReadCode(s, c) = [in |-> InCode(c), net |-> Net(s, c)]
    BY <1>3 DEF ReadCode
  <2> QED BY <1>0, <1>1, <2>1
<1> QED BY <1>2, <1>3

LEMMA NetBracesType ==
  ASSUME NEW c \in Char, NEW s \in ShellState
  PROVE  NetBraces(s, c) \in ShellState
<1>1. CASE c = "newline"
  <2>1. NetBraces(s, c) = [s EXCEPT !.in = "code"]
    BY <1>1 DEF NetBraces
  <2> QED BY <2>1, MoveType DEF ShellState, In
<1>2. CASE c # "newline" /\ s.in = "string"
  <2> DEFINE i == CASE c = "backslash" -> "escape" [] c = "quote" -> "code" [] OTHER -> "string"
  <2>1. i \in In \ {"failed"}
    BY DEF In
  <2>2. NetBraces(s, c) = [s EXCEPT !.in = i]
    BY <1>2 DEF NetBraces
  <2> HIDE DEF i
  <2> QED BY <2>1, <2>2, MoveType DEF ShellState
<1>3. CASE c # "newline" /\ s.in = "escape"
  <2>1. NetBraces(s, c) = [s EXCEPT !.in = "string"]
    BY <1>3 DEF NetBraces
  <2> QED BY <2>1, MoveType DEF ShellState, In
<1>4. CASE c # "newline" /\ s.in = "comment"
  BY <1>4 DEF NetBraces
<1>5. CASE c # "newline" /\ s.in \notin {"string", "escape", "comment"}
  <2>1. NetBraces(s, c) = ReadCode(s, c)
    BY <1>5 DEF NetBraces
  <2> DEFINE S == In \ {"failed"}
  <2>2. {"code", "slash", "string", "comment"} \subseteq S
    BY DEF In
  <2>3. s \in [in : S, net : Int]
    BY DEF ShellState
  <2> HIDE DEF S
  <2>4. ReadCode(s, c) \in [in : S, net : Int]
    BY <2>2, <2>3, ReadCodeType
  <2> QED BY <2>1, <2>4 DEF ShellState, S
<1> QED BY <1>1, <1>2, <1>3, <1>4, <1>5

LEMMA ScanTokenType ==
  ASSUME NEW c \in Char, NEW s \in TokenizerState
  PROVE  ScanToken(s, c) \in TokenizerState
<1>1. CASE s.in = "failed"
  BY <1>1 DEF ScanToken
<1>2. CASE s.in = "string"
  <2> DEFINE i == IF c = "quote" THEN "code" ELSE "string"
  <2>1. i \in In \ {"escape"}
    BY DEF In
  <2>2. ScanToken(s, c) = [s EXCEPT !.in = i]
    BY <1>2 DEF ScanToken
  <2> HIDE DEF i
  <2> QED BY <2>1, <2>2, MoveType DEF TokenizerState
<1>3. CASE s.in = "comment"
  <2> DEFINE i == IF c = "newline" THEN "code" ELSE "comment"
  <2>1. i \in In \ {"escape"}
    BY DEF In
  <2>2. ScanToken(s, c) = [s EXCEPT !.in = i]
    BY <1>3 DEF ScanToken
  <2> HIDE DEF i
  <2> QED BY <2>1, <2>2, MoveType DEF TokenizerState
<1>4. CASE s.in \in {"code", "slash"} /\ c = "backslash"
  <2>1. ScanToken(s, c) = [s EXCEPT !.in = "failed"]
    BY <1>4 DEF ScanToken
  <2> QED BY <2>1, MoveType DEF TokenizerState, In
<1>5. CASE s.in \in {"code", "slash"} /\ c # "backslash"
  <2>1. ScanToken(s, c) = ReadCode(s, c)
    BY <1>5 DEF ScanToken
  <2> DEFINE S == In \ {"escape"}
  <2>2. {"code", "slash", "string", "comment"} \subseteq S
    BY DEF In
  <2>3. s \in [in : S, net : Int]
    BY DEF TokenizerState
  <2> HIDE DEF S
  <2>4. ReadCode(s, c) \in [in : S, net : Int]
    BY <2>2, <2>3, ReadCodeType
  <2> QED BY <2>1, <2>4 DEF TokenizerState, S
<1> QED BY <1>1, <1>2, <1>3, <1>4, <1>5 DEF TokenizerState, In

\* A tokenizer that has thrown stays there, and only a backslash in code makes it throw.
LEMMA ScanTokenFails ==
  ASSUME NEW c \in Char, NEW s \in TokenizerState
  PROVE  /\ s.in = "failed" => ScanToken(s, c) = s
         /\ s.in \in {"code", "slash"} /\ c = "backslash" => ScanToken(s, c).in = "failed"
<1>1. s.in = "failed" => ScanToken(s, c) = s
  BY DEF ScanToken
<1>2. ASSUME s.in \in {"code", "slash"}, c = "backslash" PROVE ScanToken(s, c).in = "failed"
  <2>1. ScanToken(s, c) = [s EXCEPT !.in = "failed"]
    BY <1>2 DEF ScanToken
  <2> QED BY <2>1, MoveType DEF TokenizerState, In
<1> QED BY <1>1, <1>2

\* From one state the two go on to one state, unless the character is a backslash
\* or a line end in a string, or the tokenizer throws.
LEMMA ScannersAgree ==
  ASSUME NEW c \in Char,
         NEW s \in [in : In \ {"failed", "escape"}, net : Int],
         ~(s.in = "string" /\ c \in {"backslash", "newline"}),
         ~(s.in \in {"code", "slash"} /\ c = "backslash")
  PROVE  NetBraces(s, c) = ScanToken(s, c)
<1>1. CASE s.in = "string"
  <2>1. CASE c = "quote"
    <3>1. NetBraces(s, c) = [s EXCEPT !.in = "code"]
      BY <1>1, <2>1 DEF NetBraces
    <3>2. ScanToken(s, c) = [s EXCEPT !.in = "code"]
      BY <1>1, <2>1 DEF ScanToken
    <3> QED BY <3>1, <3>2
  <2>2. CASE c # "quote"
    <3>1. NetBraces(s, c) = [s EXCEPT !.in = "string"]
      BY <1>1, <2>2 DEF NetBraces
    <3>2. ScanToken(s, c) = [s EXCEPT !.in = "string"]
      BY <1>1, <2>2 DEF ScanToken
    <3> QED BY <3>1, <3>2
  <2> QED BY <2>1, <2>2
<1>2. CASE s.in = "comment"
  <2>1. CASE c = "newline"
    <3>1. NetBraces(s, c) = [s EXCEPT !.in = "code"]
      BY <2>1 DEF NetBraces
    <3>2. ScanToken(s, c) = [s EXCEPT !.in = "code"]
      BY <1>2, <2>1 DEF ScanToken
    <3> QED BY <3>1, <3>2
  <2>2. CASE c # "newline"
    <3>1. NetBraces(s, c) = s
      BY <1>2, <2>2 DEF NetBraces
    <3>2. ScanToken(s, c) = [s EXCEPT !.in = "comment"]
      BY <1>2, <2>2 DEF ScanToken
    <3> QED BY <1>2, <3>1, <3>2
  <2> QED BY <2>1, <2>2
<1>3. CASE s.in \in {"code", "slash"} /\ c = "newline"
  <2>1. NetBraces(s, c) = [s EXCEPT !.in = "code"]
    BY <1>3 DEF NetBraces
  <2>2. ScanToken(s, c) = [in |-> "code", net |-> s.net]
    BY <1>3 DEF ScanToken, ReadCode, InCode, Net
  <2> QED BY <2>1, <2>2
<1>4. CASE s.in \in {"code", "slash"} /\ c # "newline"
  <2>1. NetBraces(s, c) = ReadCode(s, c)
    BY <1>4 DEF NetBraces
  <2>2. ScanToken(s, c) = ReadCode(s, c)
    BY <1>4 DEF ScanToken
  <2> QED BY <2>1, <2>2
<1> QED BY <1>1, <1>2, <1>3, <1>4 DEF In

\* Braces and their counters keep the invariant, whatever is read.
LEMMA BracesInductive ==
  /\ Init => BracesInv
  /\ BracesInv /\ [Next]_vars => BracesInv'
<1>1. Init => BracesInv
  <2>1. Start \in ShellState /\ Start \in TokenizerState
    BY DEF Start, ShellState, TokenizerState, In
  <2>2. ASSUME Init PROVE BracesTypeOK
    BY <2>1, <2>2 DEF Init, BracesTypeOK, ShellState, TokenizerState
  <2>3. ASSUME Init PROVE InStep
    BY <2>3 DEF Init, InStep
  <2> QED BY <2>2, <2>3 DEF BracesInv
<1>2. BracesInv /\ [Next]_vars => BracesInv'
  <2> SUFFICES ASSUME BracesInv, [Next]_vars PROVE BracesInv'
    OBVIOUS
  <2>1. CASE UNCHANGED vars
    BY <2>1 DEF vars, BracesInv, InStep, BracesTypeOK
  <2>2. ASSUME NEW c \in Char, Read(c) PROVE BracesInv'
    <3>1. BracesTypeOK'
      BY <2>2, NetBracesType, ScanTokenType
         DEF Read, BracesInv, BracesTypeOK, ShellState, TokenizerState
    <3>2. InStep'
      <4> SUFFICES ASSUME tokenizer'.in # "failed", ~escaped', ~broken'
                   PROVE  shell' = tokenizer'
        BY DEF InStep
      <4>1. tokenizer \in TokenizerState /\ tokenizer' = ScanToken(tokenizer, c)
        BY <2>2 DEF Read, BracesInv, BracesTypeOK, TokenizerState
      <4>2. /\ tokenizer.in # "failed"
            /\ ~(tokenizer.in \in {"code", "slash"} /\ c = "backslash")
        BY <4>1, ScanTokenFails
      <4>3. shell = tokenizer /\ ~(tokenizer.in = "string" /\ c \in {"backslash", "newline"})
        BY <2>2, <4>2 DEF Read, BracesInv, InStep, BracesTypeOK
      <4>4. tokenizer \in [in : In \ {"failed", "escape"}, net : Int]
        BY <4>1, <4>2 DEF TokenizerState
      <4> QED BY <2>2, <4>2, <4>3, <4>4, ScannersAgree DEF Read
    <3> QED BY <3>1, <3>2 DEF BracesInv
  <2> QED BY <2>1, <2>2 DEF Next
<1> QED BY <1>1, <1>2

\* netBraces counts exactly the braces the tokenizer makes tokens of, for every text
\* without a backslash or a line end in a string literal.
THEOREM BracesAlwaysAgree == Spec => []BracesAgree
<1>1. BracesInv => BracesAgree
  BY DEF BracesInv, InStep, BracesAgree
<1> QED BY <1>1, BracesInductive, PTL DEF Spec

-----------------------------------------------------------------------------
(* Characters.                                                              *)

Operators  == Single \cup Arithmetic \cup Comparison
LexemeType == {"identifier", "keyword", "number", "string", "operator"}

\* No character begins lexemes of two kinds.
LEMMA OperatorsAreNothingElse ==
  \A c \in Operators : c \notin Letter /\ c \notin Digit /\ c \notin Blank /\ c # "quote"
BY ZenonT(60) DEF Operators, Single, Arithmetic, Comparison, Letter, Digit, Blank

LEMMA CharactersDiffer ==
  /\ \A c \in Letter : c \notin Digit /\ c \notin Blank /\ c \notin {"quote", "slash", ".", "newline"}
  /\ \A c \in Digit : c \notin Blank /\ c \notin {"quote", "slash", ".", "newline"}
  /\ \A c \in Comparison : c \in Operators /\ c # "slash"
  /\ "slash" \notin Blank
BY DEF Letter, Digit, Blank, Comparison, Operators

-----------------------------------------------------------------------------
(* The text and the place in it.                                            *)

TokenType == [type : LexemeType \cup {"eof"}, from : Nat \ {0}, to : Nat, line : Nat]

TextTypeOK ==
  /\ phase \in {"typing", "scanning", "scanned", "threw"}
  /\ text \in Seq(alphabet) /\ "end" \notin alphabet
  /\ at \in 1..(Len(text) + 1) /\ line \in Nat
  /\ tokens \in Seq(TokenType)
  /\ phase = "typing" => tokens = <<>> /\ at = 1 /\ line = 1

LEMMA PeekIs ==
  ASSUME TextTypeOK
  PROVE  /\ Len(text) \in Nat
         /\ \A i \in 1..Len(text) : Peek(i) = text[i] /\ text[i] \in alphabet /\ Peek(i) # "end"
         /\ \A i \in Nat \ {0} : Peek(i) # "end" => i \in 1..Len(text)
         /\ at \in Nat \ {0} /\ C = Peek(at)
<1>1. text \in Seq(alphabet) /\ Len(text) \in Nat /\ "end" \notin alphabet
  BY LenProperties DEF TextTypeOK
<1>2. \A i \in 1..Len(text) : text[i] \in alphabet
  BY <1>1, ElementOfSeq
<1> QED BY <1>1, <1>2 DEF Peek, C, TextTypeOK

LEMMA PastIs ==
  ASSUME TextTypeOK, NEW i \in 1..(Len(text) + 1), NEW S, "end" \notin S
  PROVE  /\ Past(i, S) \in i..(Len(text) + 1)
         /\ Peek(Past(i, S)) \notin S
         /\ \A k \in i..(Past(i, S) - 1) : text[k] \in S
<1> DEFINE N == {j \in i..(Len(text) + 1) : Peek(j) \notin S}
<1>1. Len(text) \in Nat
  BY PeekIs
<1>2. N \in SUBSET Nat /\ Len(text) + 1 \in N
  BY <1>1 DEF Peek
<1>3. PICK m \in N : \A j \in N : m <= j
  BY <1>2, LeastNumber
<1>4. \A k \in i..(m - 1) : text[k] \in S
  <2> SUFFICES ASSUME NEW k \in i..(m - 1), text[k] \notin S PROVE FALSE
    OBVIOUS
  <2>1. k \in 1..Len(text) /\ k \in i..(Len(text) + 1) /\ ~(m <= k)
    BY <1>1, <1>3
  <2>2. Peek(k) = text[k]
    BY <2>1, PeekIs
  <2>3. k \in N
    BY <2>1, <2>2
  <2> QED BY <1>3, <2>1, <2>3
<1>5. \E j \in i..(Len(text) + 1) : Peek(j) \notin S /\ \A k \in i..(j - 1) : text[k] \in S
  BY <1>3, <1>4
<1> QED BY <1>5 DEF Past

LEMMA NewLinesNone ==
  ASSUME NEW i, NEW j, \A k \in i..j : text[k] # "newline"
  PROVE  NewLines(i, j) = 0
<1>1. {k \in i..j : text[k] = "newline"} = {}
  OBVIOUS
<1> QED BY <1>1, FS_EmptySet DEF NewLines

LEMMA NewLinesAdd ==
  ASSUME NEW i \in Int, NEW m \in Int, NEW j \in Int, i <= m + 1, m <= j
  PROVE  /\ NewLines(i, j) = NewLines(i, m) + NewLines(m + 1, j)
         /\ NewLines(i, m) \in Nat /\ NewLines(i, j) \in Nat
<1> DEFINE L(a, b) == {k \in a..b : text[k] = "newline"}
<1>1. \A a \in Int, b \in Int : IsFiniteSet(L(a, b))
  <2> SUFFICES ASSUME NEW a \in Int, NEW b \in Int PROVE IsFiniteSet(L(a, b))
    OBVIOUS
  <2>1. IsFiniteSet(a..b) /\ L(a, b) \in SUBSET (a..b)
    BY FS_Interval
  <2> QED BY <2>1, FS_Subset
<1>2. L(i, j) = L(i, m) \cup L(m + 1, j) /\ L(i, m) \cap L(m + 1, j) = {}
  OBVIOUS
<1>3. IsFiniteSet(L(i, m)) /\ IsFiniteSet(L(m + 1, j)) /\ IsFiniteSet(L(i, j))
  BY <1>1
<1> HIDE DEF L
<1>4. Cardinality(L(i, j)) = Cardinality(L(i, m)) + Cardinality(L(m + 1, j)) - Cardinality({})
  BY <1>2, <1>3, FS_Union
<1>5. Cardinality({}) = 0 /\ Cardinality(L(i, m)) \in Nat /\ Cardinality(L(m + 1, j)) \in Nat
  BY <1>3, FS_EmptySet, FS_CardinalityType
<1> QED BY <1>4, <1>5 DEF NewLines, L

-----------------------------------------------------------------------------
(* What scanToken does: a lexeme from "at" to the character before j.       *)

OperatorTo(j) ==
  /\ C \in Operators /\ <<C, Peek(at + 1)>> # <<"slash", "slash">>
  /\ \/ j = at + 2 /\ C \in Comparison /\ Peek(at + 1) = "="
     \/ j = at + 1 /\ ~(C \in Comparison /\ Peek(at + 1) = "=")
StringTo(j) ==
  /\ at + 1 < j /\ text[at] = "quote" /\ text[j - 1] = "quote"
  /\ \A k \in (at + 1)..(j - 2) : text[k] # "quote"
\* The digits before a dot that is followed by one end before d.
NumberTo(j, d) ==
  /\ at < d /\ d <= j
  /\ \A k \in at..(d - 1) : text[k] \in Digit
  /\ Peek(d) \notin Digit /\ Peek(j) \notin Digit
  /\ IF Peek(d) = "." /\ Peek(d + 1) \in Digit
     THEN d + 1 < j /\ \A k \in (d + 1)..(j - 1) : text[k] \in Digit
     ELSE j = d
WordTo(j) ==
  /\ text[at] \in Letter
  /\ \A k \in at..(j - 1) : text[k] \in Letter \cup Digit
  /\ Peek(j) \notin Letter \cup Digit

LexemeTo(type, j) ==
  \/ type = "operator" /\ OperatorTo(j)
  \/ type = "string" /\ StringTo(j)
  \/ type = "number" /\ \E d \in Nat : NumberTo(j, d)
  \/ type = "identifier" /\ WordTo(j) /\ SubSeq(text, at, j - 1) \notin Keywords
  \/ type = "keyword" /\ WordTo(j) /\ SubSeq(text, at, j - 1) \in Keywords
CommentTo(j) ==
  /\ at + 1 < j
  /\ text[at] = "slash" /\ text[at + 1] = "slash"
  /\ \A k \in at..(j - 1) : text[k] # "newline"
  /\ Peek(j) \in {"newline", "end"}
BlankTo(j) == j = at + 1 /\ text[at] \in Blank

LEMMA BeginsIs ==
  ASSUME TextTypeOK, NEW S, Begins(S), "end" \notin S
  PROVE  /\ at \in 1..Len(text) /\ text[at] = C /\ C \in S /\ C # "end"
         /\ Len(text) \in Nat /\ at + 1 \in 1..(Len(text) + 1)
         /\ NewLines(at, at - 1) = 0
         /\ text[at] # "newline" => NewLines(at, at) = 0
<1>1. Len(text) \in Nat /\ C \in S /\ C # "end" /\ C = Peek(at) /\ at \in Nat \ {0}
  BY PeekIs DEF Begins
<1>2. at \in 1..Len(text) /\ text[at] = C
  BY <1>1, PeekIs
<1>3. NewLines(at, at - 1) = 0
  BY <1>2, NewLinesNone
<1>4. text[at] # "newline" => NewLines(at, at) = 0
  BY <1>2, NewLinesNone
<1> QED BY <1>1, <1>2, <1>3, <1>4

Reads(j)     == at' = j /\ j \in (at + 1)..(Len(text) + 1) /\ line' = line + NewLines(at, j - 1)
Finds(type, j) ==
  /\ Reads(j) /\ type \in LexemeType /\ LexemeTo(type, j) /\ phase' = phase
  /\ tokens' = Append(tokens, [type |-> type, from |-> at, to |-> j - 1, line |-> line'])
Skips(j)     == Reads(j) /\ (CommentTo(j) \/ BlankTo(j)) /\ phase' = phase /\ tokens' = tokens
GivesUp      == phase' = "threw" /\ at' = at /\ tokens' = tokens /\ line' \in Nat
Steps        == (\E j, type : Finds(type, j)) \/ (\E j : Skips(j)) \/ GivesUp

LEMMA OperatorFound ==
  ASSUME TextTypeOK, ScanOperator
  PROVE  Steps
<1>1. Begins(Operators) /\ <<C, Peek(at + 1)>> # <<"slash", "slash">> /\ line' = line
  BY DEF ScanOperator, Operators
<1>2. "end" \notin Operators /\ "newline" \notin Operators
  BY Zenon DEF Operators, Single, Arithmetic, Comparison
<1>3. /\ at \in 1..Len(text) /\ text[at] = C /\ C \in Operators /\ Len(text) \in Nat
      /\ NewLines(at, at) = 0 /\ line \in Nat
  BY <1>1, <1>2, BeginsIs DEF TextTypeOK
<1>4. CASE <<C, Peek(at + 1)>> \in Unsupported
  <2>1. ~(C \in Comparison /\ Peek(at + 1) = "=")
    BY <1>4 DEF Unsupported, Comparison
  <2>2. Throw
    BY <1>4, <2>1 DEF ScanOperator
  <2> QED BY <1>1, <1>3, <2>2 DEF Throw, Steps, GivesUp
<1>5. CASE C \in Comparison /\ Peek(at + 1) = "="
  <2>1. <<C, Peek(at + 1)>> \notin Unsupported
    BY <1>5 DEF Unsupported, Comparison
  <2>2. AddToken("operator", at + 2)
    BY <1>5, <2>1 DEF ScanOperator
  <2>3. at + 1 \in 1..Len(text) /\ text[at + 1] = "="
    <3>1. at + 1 \in Nat \ {0} /\ Peek(at + 1) # "end"
      BY <1>3, <1>5
    <3> QED BY <1>5, <3>1, PeekIs
  <2>4. NewLines(at, at + 1) = 0
    <3>1. \A k \in at..(at + 1) : text[k] # "newline"
      BY <1>2, <1>3, <2>3
    <3> QED BY <3>1, NewLinesNone
  <2>5. OperatorTo(at + 2)
    BY <1>1, <1>3, <1>5 DEF OperatorTo
  <2>6. Finds("operator", at + 2)
    BY <1>1, <1>3, <2>2, <2>3, <2>4, <2>5 DEF Finds, Reads, AddToken, LexemeTo, LexemeType
  <2> QED BY <2>6 DEF Steps
<1>6. CASE <<C, Peek(at + 1)>> \notin Unsupported /\ ~(C \in Comparison /\ Peek(at + 1) = "=")
  <2>1. AddToken("operator", at + 1)
    BY <1>6 DEF ScanOperator
  <2>2. OperatorTo(at + 1)
    BY <1>1, <1>3, <1>6 DEF OperatorTo
  <2>3. Finds("operator", at + 1)
    BY <1>1, <1>3, <2>1, <2>2 DEF Finds, Reads, AddToken, LexemeTo, LexemeType
  <2> QED BY <2>3 DEF Steps
<1> QED BY <1>4, <1>5, <1>6

LEMMA CommentSkipped ==
  ASSUME TextTypeOK, SkipLineComment
  PROVE  Steps
<1> DEFINE S == alphabet \ {"newline"}
           j == Past(at + 2, S)
<1>1. Begins({"slash"}) /\ Peek(at + 1) = "slash" /\ Advance(j) /\ line' = line
  BY DEF SkipLineComment
<1>2. at \in 1..Len(text) /\ text[at] = "slash" /\ Len(text) \in Nat
  BY <1>1, BeginsIs
<1>3. at + 1 \in 1..Len(text) /\ text[at + 1] = "slash"
  <2>1. at + 1 \in Nat \ {0} /\ Peek(at + 1) # "end"
    BY <1>1, <1>2
  <2> QED BY <1>1, <2>1, PeekIs
<1>4. at + 2 \in 1..(Len(text) + 1) /\ "end" \notin S
  BY <1>3 DEF TextTypeOK
<1>5. /\ j \in (at + 2)..(Len(text) + 1) /\ Peek(j) \notin S
      /\ \A k \in (at + 2)..(j - 1) : text[k] \in S
  <2> HIDE DEF S
  <2> QED BY <1>4, PastIs
<1>6. Peek(j) \in {"newline", "end"}
  <2>1. CASE j \in 1..Len(text)
    BY <1>5, <2>1, PeekIs
  <2>2. CASE j \notin 1..Len(text)
    <3>1. j = Len(text) + 1
      BY <1>2, <1>5, <2>2
    <3> HIDE DEF j
    <3> QED BY <1>2, <3>1 DEF Peek
  <2> QED BY <2>1, <2>2
<1>7. \A k \in at..(j - 1) : text[k] # "newline"
  <2>1. \A k \in (at + 2)..(j - 1) : text[k] # "newline"
    BY <1>5
  <2> HIDE DEF j
  <2>2. \A k \in at..(j - 1) : k = at \/ k = at + 1 \/ k \in (at + 2)..(j - 1)
    BY <1>2, <1>5
  <2> QED BY <1>2, <1>3, <2>1, <2>2
<1> HIDE DEF j, S
<1>8. NewLines(at, j - 1) = 0 /\ line \in Nat
  BY <1>7, NewLinesNone DEF TextTypeOK
<1>9. CommentTo(j)
  BY <1>2, <1>3, <1>5, <1>6, <1>7 DEF CommentTo
<1>10. Skips(j)
  BY <1>1, <1>2, <1>5, <1>8, <1>9 DEF Skips, Reads, Advance
<1> QED BY <1>10 DEF Steps

LEMMA BlankSkipped ==
  ASSUME TextTypeOK, SkipBlank
  PROVE  Steps
<1>1. Begins(Blank) /\ Advance(at + 1) /\ line' = IF C = "newline" THEN line + 1 ELSE line
  BY DEF SkipBlank
<1>2. "end" \notin Blank
  BY DEF Blank
<1>3. /\ at \in 1..Len(text) /\ text[at] = C /\ C \in Blank /\ Len(text) \in Nat /\ line \in Nat
      /\ text[at] # "newline" => NewLines(at, at) = 0
  BY <1>1, <1>2, BeginsIs DEF TextTypeOK
<1>4. text[at] = "newline" => NewLines(at, at) = 1
  <2> SUFFICES ASSUME text[at] = "newline" PROVE NewLines(at, at) = 1
    OBVIOUS
  <2>1. {k \in at..at : text[k] = "newline"} = {at}
    BY <1>3
  <2> QED BY <2>1, FS_Singleton DEF NewLines
<1>5. Skips(at + 1)
  BY <1>1, <1>3, <1>4 DEF Skips, Reads, Advance, BlankTo
<1> QED BY <1>5 DEF Steps

LEMMA StringFound ==
  ASSUME TextTypeOK, ScanString
  PROVE  Steps
<1> DEFINE S == alphabet \ {"quote"}
           j == Past(at + 1, S)
<1>1. /\ Begins({"quote"}) /\ line' = line + NewLines(at, j - 1)
      /\ IF j > Len(text) THEN Throw ELSE AddToken("string", j + 1)
  BY DEF ScanString
<1>2. at \in 1..Len(text) /\ text[at] = "quote" /\ Len(text) \in Nat
  BY <1>1, BeginsIs
<1>3. at + 1 \in 1..(Len(text) + 1) /\ "end" \notin S
  BY <1>2 DEF TextTypeOK
<1>4. /\ j \in (at + 1)..(Len(text) + 1) /\ Peek(j) \notin S
      /\ \A k \in (at + 1)..(j - 1) : text[k] \in S
  <2> HIDE DEF S
  <2> QED BY <1>3, PastIs
<1>5. \A k \in (at + 1)..(j - 1) : text[k] # "quote"
  BY <1>4
<1>6. j \in 1..Len(text) => text[j] = "quote"
  BY <1>4, PeekIs
<1> HIDE DEF j, S
<1>7. NewLines(at, j - 1) \in Nat /\ NewLines(at, j) = NewLines(at, j - 1) + NewLines(j, j)
  <2>1. NewLines(at, j) = NewLines(at, j - 1) + NewLines((j - 1) + 1, j) /\ NewLines(at, j - 1) \in Nat
    BY <1>2, <1>4, NewLinesAdd
  <2>2. (j - 1) + 1 = j
    BY <1>4
  <2> QED BY <2>1, <2>2
<1>8. CASE j > Len(text)
  BY <1>1, <1>7, <1>8 DEF Throw, Steps, GivesUp, TextTypeOK
<1>9. CASE ~(j > Len(text))
  <2>1. j \in 1..Len(text) /\ text[j] = "quote" /\ AddToken("string", j + 1) /\ (j + 1) - 1 = j
    BY <1>1, <1>2, <1>4, <1>6, <1>9
  <2>2. NewLines(j, j) = 0
    <3>1. \A k \in j..j : text[k] # "newline"
      BY <2>1
    <3> QED BY <3>1, NewLinesNone
  <2>3. StringTo(j + 1)
    BY <1>2, <1>4, <1>5, <2>1 DEF StringTo
  <2>4. Reads(j + 1)
    BY <1>1, <1>2, <1>4, <1>7, <2>1, <2>2 DEF Reads, AddToken
  <2>5. Finds("string", j + 1)
    BY <2>1, <2>3, <2>4 DEF Finds, AddToken, LexemeTo, LexemeType
  <2> QED BY <2>5 DEF Steps
<1> QED BY <1>8, <1>9

LEMMA NumberFound ==
  ASSUME TextTypeOK, ScanNumber
  PROVE  Steps
<1> DEFINE d == Past(at, Digit)
           j == IF Peek(d) = "." /\ Peek(d + 1) \in Digit THEN Past(d + 1, Digit) ELSE d
<1>1. Begins(Digit) /\ line' = line /\ AddToken("number", j)
  BY DEF ScanNumber
<1>2. "end" \notin Digit /\ "newline" \notin Digit
  BY DEF Digit
<1>3. at \in 1..Len(text) /\ text[at] \in Digit /\ Len(text) \in Nat
  BY <1>1, <1>2, BeginsIs
<1>4. d \in at..(Len(text) + 1) /\ Peek(d) \notin Digit /\ \A k \in at..(d - 1) : text[k] \in Digit
  BY <1>2, <1>3, PastIs
<1>5. at < d
  <2>1. Peek(at) \in Digit
    BY <1>3, PeekIs
  <2> QED BY <1>3, <1>4, <2>1
<1> HIDE DEF d
<1>6. CASE Peek(d) = "." /\ Peek(d + 1) \in Digit
  <2> DEFINE e == Past(d + 1, Digit)
  <2>1. j = e
    BY <1>6
  <2>2. d \in 1..Len(text) /\ d + 1 \in 1..Len(text) /\ text[d] = "."
    <3>1. d \in Nat \ {0} /\ d + 1 \in Nat \ {0} /\ Peek(d) # "end" /\ Peek(d + 1) # "end"
      BY <1>2, <1>3, <1>4, <1>6
    <3> QED BY <1>6, <3>1, PeekIs
  <2>3. /\ e \in (d + 1)..(Len(text) + 1) /\ Peek(e) \notin Digit
        /\ \A k \in (d + 1)..(e - 1) : text[k] \in Digit
    BY <1>2, <2>2, PastIs
  <2> HIDE DEF e, j
  <2>4. d + 1 < e
    BY <1>3, <1>6, <2>2, <2>3
  <2>5. \A k \in at..(e - 1) : text[k] # "newline"
    <3>1. \A k \in at..(e - 1) : k \in at..(d - 1) \/ k = d \/ k \in (d + 1)..(e - 1)
      BY <1>3, <1>4, <2>3
    <3> QED BY <1>2, <1>4, <2>2, <2>3, <3>1
  <2>6. NewLines(at, e - 1) = 0 /\ line \in Nat
    BY <2>5, NewLinesNone DEF TextTypeOK
  <2>7. NumberTo(e, d) /\ d \in Nat
    BY <1>3, <1>4, <1>5, <1>6, <2>3, <2>4 DEF NumberTo
  <2>8. Reads(e)
    BY <1>1, <1>3, <1>4, <2>1, <2>3, <2>6 DEF Reads, AddToken
  <2>9. Finds("number", e)
    BY <1>1, <2>1, <2>7, <2>8 DEF Finds, AddToken, LexemeTo, LexemeType
  <2> QED BY <2>9 DEF Steps
<1>7. CASE ~(Peek(d) = "." /\ Peek(d + 1) \in Digit)
  <2>1. j = d
    BY <1>7
  <2> HIDE DEF j
  <2>2. NewLines(at, d - 1) = 0 /\ line \in Nat
    <3>1. \A k \in at..(d - 1) : text[k] # "newline"
      BY <1>2, <1>4
    <3> QED BY <3>1, NewLinesNone DEF TextTypeOK
  <2>3. NumberTo(d, d) /\ d \in Nat
    BY <1>3, <1>4, <1>5, <1>7 DEF NumberTo
  <2>4. Reads(d)
    BY <1>1, <1>3, <1>4, <1>5, <2>1, <2>2 DEF Reads, AddToken
  <2>5. Finds("number", d)
    BY <1>1, <2>1, <2>3, <2>4 DEF Finds, AddToken, LexemeTo, LexemeType
  <2> QED BY <2>5 DEF Steps
<1> QED BY <1>6, <1>7

LEMMA WordFound ==
  ASSUME TextTypeOK, ScanIdentifier
  PROVE  Steps
<1> DEFINE S == Letter \cup Digit
           j == Past(at, S)
           type == IF SubSeq(text, at, j - 1) \in Keywords THEN "keyword" ELSE "identifier"
<1>1. Begins(Letter) /\ line' = line /\ AddToken(type, j)
  BY DEF ScanIdentifier
<1>2. "end" \notin S /\ "newline" \notin S
  BY DEF Letter, Digit
<1>3. at \in 1..Len(text) /\ text[at] \in Letter /\ Len(text) \in Nat
  BY <1>1, <1>2, BeginsIs
<1>4. j \in at..(Len(text) + 1) /\ Peek(j) \notin S /\ \A k \in at..(j - 1) : text[k] \in S
  <2>1. at \in 1..(Len(text) + 1)
    BY <1>3
  <2> HIDE DEF S
  <2> QED BY <1>2, <2>1, PastIs
<1>5. at < j
  <2>1. Peek(at) \in S
    BY <1>3, PeekIs
  <2> QED BY <1>3, <1>4, <2>1
<1> HIDE DEF j
<1>6. NewLines(at, j - 1) = 0 /\ line \in Nat
  <2>1. \A k \in at..(j - 1) : text[k] # "newline"
    BY <1>2, <1>4
  <2> QED BY <2>1, NewLinesNone DEF TextTypeOK
<1>7. WordTo(j)
  BY <1>3, <1>4 DEF WordTo
<1>8. Reads(j)
  BY <1>1, <1>3, <1>4, <1>5, <1>6 DEF Reads, AddToken
<1>9. Finds(type, j)
  BY <1>1, <1>7, <1>8 DEF Finds, AddToken, LexemeTo, LexemeType
<1> QED BY <1>9 DEF Steps

\* Every step that does not end the scan is one of these.
LEMMA ScanIs ==
  ASSUME TextTypeOK, ScanTokens, ~ScanEnd
  PROVE  Steps /\ phase = "scanning"
<1>1. CASE UnexpectedCharacter
  BY <1>1 DEF UnexpectedCharacter, Throw, Steps, GivesUp, TextTypeOK
<1>2. Steps
  BY <1>1, OperatorFound, CommentSkipped, BlankSkipped, StringFound, NumberFound, WordFound
     DEF ScanTokens
<1>3. phase = "scanning"
  BY DEF ScanTokens, ScanOperator, SkipLineComment, SkipBlank, ScanString, ScanNumber,
         ScanIdentifier, UnexpectedCharacter, Begins
<1> QED BY <1>2, <1>3

-----------------------------------------------------------------------------
(* Types, and lines.                                                        *)

LEMMA TextTypesInit == TextInit => TextTypeOK
<1> SUFFICES ASSUME TextInit PROVE TextTypeOK
  OBVIOUS
<1>1. "end" \notin alphabet
  BY AlphabetsAssumption DEF TextInit
<1>2. <<>> \in Seq(alphabet) /\ <<>> \in Seq(TokenType) /\ Len(<<>>) = 0
  OBVIOUS
<1> QED BY <1>1, <1>2 DEF TextInit, TextTypeOK

\* The steps: a character is typed, or the text stays what it is.
LEMMA TextSteps ==
  ASSUME TextTypeOK, [TextNext]_tokenVars
  PROVE  /\ alphabet' = alphabet
         /\ \/ /\ phase = "typing" /\ \E c \in alphabet : Read(Class(c)) /\ text' = Append(text, c)
               /\ UNCHANGED <<phase, at, line, tokens>>
            \/ text' = text /\ UNCHANGED vars /\ phase = "typing" /\ phase' = "scanning"
               /\ UNCHANGED <<at, line, tokens>>
            \/ text' = text /\ UNCHANGED vars /\ phase = "scanning" /\ Steps
            \/ text' = text /\ UNCHANGED vars /\ ScanEnd
            \/ UNCHANGED tokenVars
<1>1. CASE UNCHANGED tokenVars
  BY <1>1 DEF tokenVars
<1>2. CASE \E c \in alphabet : TypeCharacter(c)
  BY <1>2 DEF TypeCharacter
<1>3. CASE Tokenize
  BY <1>3 DEF Tokenize
<1>4. CASE ScanTokens /\ UNCHANGED <<vars, alphabet, text>>
  BY <1>4, ScanIs
<1> QED BY <1>1, <1>2, <1>3, <1>4 DEF TextNext

LEMMA NewToken ==
  ASSUME TextTypeOK, NEW type \in LexemeType \cup {"eof"}, NEW j \in at..(Len(text) + 1), NEW n \in Nat,
         NEW t, t = [type |-> type, from |-> at, to |-> j - 1, line |-> n],
         NEW s, s = Append(tokens, t)
  PROVE  /\ s \in Seq(TokenType) /\ Len(s) = Len(tokens) + 1 /\ Len(tokens) \in Nat
         /\ DOMAIN tokens = 1..Len(tokens) /\ DOMAIN s = 1..(Len(tokens) + 1)
         /\ s[Len(tokens) + 1] = t /\ \A k \in 1..Len(tokens) : s[k] = tokens[k]
         /\ \A k \in 1..Len(tokens) : tokens[k] \in TokenType
<1>1. tokens \in Seq(TokenType) /\ at \in Nat \ {0}
  BY PeekIs DEF TextTypeOK
<1>2. t \in TokenType
  <2>1. j - 1 \in Nat
    BY <1>1, PeekIs
  <2> QED BY <1>1, <2>1 DEF TokenType
<1> HIDE DEF TokenType
<1> QED BY <1>1, <1>2, AppendProperties, LenProperties, ElementOfSeq

LEMMA TextTypesNext ==
  ASSUME TextTypeOK, [TextNext]_tokenVars
  PROVE  TextTypeOK'
<1>0. "end" \notin alphabet' /\ text \in Seq(alphabet') /\ Len(text) \in Nat
  BY TextSteps, PeekIs DEF TextTypeOK
<1>1. ASSUME phase = "typing", NEW c \in alphabet, text' = Append(text, c), UNCHANGED <<phase, at, line, tokens>>
      PROVE  TextTypeOK'
  <2>1. text' \in Seq(alphabet') /\ Len(text') = Len(text) + 1
    BY <1>0, <1>1, TextSteps
  <2> QED BY <1>0, <1>1, <2>1 DEF TextTypeOK
<1>2. ASSUME text' = text, phase = "scanning", NEW j, NEW type, Finds(type, j)
      PROVE  TextTypeOK'
  <2>1. /\ at' = j /\ j \in (at + 1)..(Len(text) + 1) /\ type \in LexemeType
        /\ line' = line + NewLines(at, j - 1) /\ phase' = phase
        /\ tokens' = Append(tokens, [type |-> type, from |-> at, to |-> j - 1, line |-> line'])
    BY <1>2 DEF Finds, Reads
  <2>2. at \in Nat \ {0} /\ line \in Nat /\ j \in at..(Len(text) + 1) /\ j \in 1..(Len(text) + 1)
    BY <1>0, <2>1, PeekIs DEF TextTypeOK
  <2>3. NewLines(at, j - 1) \in Nat
    <3>1. at - 1 \in Int /\ j - 1 \in Int /\ at <= at /\ at <= j - 1
      BY <2>1, <2>2
    <3> QED BY <2>2, <3>1, NewLinesAdd
  <2>4. line' \in Nat
    BY <2>1, <2>2, <2>3
  <2>5. tokens' \in Seq(TokenType)
    BY <2>1, <2>2, <2>4, NewToken
  <2> QED BY <1>0, <1>2, <2>1, <2>2, <2>4, <2>5 DEF TextTypeOK
<1>3. ASSUME text' = text, phase = "scanning", NEW j, Skips(j)
      PROVE  TextTypeOK'
  <2>1. /\ at' = j /\ j \in (at + 1)..(Len(text) + 1)
        /\ line' = line + NewLines(at, j - 1) /\ phase' = phase /\ tokens' = tokens
    BY <1>3 DEF Skips, Reads
  <2>2. at \in Nat \ {0} /\ line \in Nat /\ j \in 1..(Len(text) + 1) /\ tokens \in Seq(TokenType)
    BY <1>0, <2>1, PeekIs DEF TextTypeOK
  <2>3. NewLines(at, j - 1) \in Nat
    <3>1. at - 1 \in Int /\ j - 1 \in Int /\ at <= at /\ at <= j - 1
      BY <2>1, <2>2
    <3> QED BY <2>2, <3>1, NewLinesAdd
  <2> QED BY <1>0, <1>3, <2>1, <2>2, <2>3 DEF TextTypeOK
<1>4. CASE text' = text /\ GivesUp
  BY <1>0, <1>4 DEF GivesUp, TextTypeOK
<1>5. CASE text' = text /\ ScanEnd
  <2>1. /\ phase' = "scanned" /\ at' = at /\ line' = line
        /\ tokens' = Append(tokens, [type |-> "eof", from |-> at, to |-> at - 1, line |-> line])
    BY <1>5 DEF ScanEnd
  <2>2. at \in at..(Len(text) + 1) /\ line \in Nat
    BY <1>0 DEF TextTypeOK
  <2>3. tokens' \in Seq(TokenType)
    BY <2>1, <2>2, NewToken
  <2> QED BY <1>0, <1>5, <2>1, <2>3 DEF TextTypeOK
<1>6. CASE text' = text /\ phase = "typing" /\ phase' = "scanning" /\ UNCHANGED <<at, line, tokens>>
  BY <1>0, <1>6 DEF TextTypeOK
<1>7. CASE UNCHANGED tokenVars
  BY <1>7 DEF tokenVars, TextTypeOK
<1> QED BY <1>1, <1>2, <1>3, <1>4, <1>5, <1>6, <1>7, TextSteps DEF Steps

\* line_ is the line that the next character is on.
LineIsRight == phase # "threw" => line = 1 + NewLines(1, at - 1)

LEMMA LinesGoOn ==
  ASSUME TextTypeOK, LineIsRight, phase = "scanning", NEW j, Reads(j)
  PROVE  line' = 1 + NewLines(1, j - 1) /\ NewLines(1, j - 1) \in Nat
<1>1. at \in Nat \ {0} /\ Len(text) \in Nat
  BY PeekIs
<1>2. j \in (at + 1)..(Len(text) + 1) /\ line' = line + NewLines(at, j - 1)
  BY DEF Reads
<1>3. line = 1 + NewLines(1, at - 1)
  BY DEF LineIsRight
<1>4. NewLines(1, j - 1) = NewLines(1, at - 1) + NewLines(at, j - 1)
      /\ NewLines(1, at - 1) \in Nat /\ NewLines(1, j - 1) \in Nat
  <2>1. at - 1 \in Int /\ j - 1 \in Int /\ 1 <= (at - 1) + 1 /\ at - 1 <= j - 1 /\ (at - 1) + 1 = at
    BY <1>1, <1>2
  <2> QED BY <2>1, NewLinesAdd
<1>5. NewLines(at, j - 1) \in Nat
  <2>1. at \in Int /\ j - 1 \in Int /\ at <= at + 1 /\ at <= j - 1
    BY <1>1, <1>2
  <2> QED BY <2>1, NewLinesAdd
<1> QED BY <1>2, <1>3, <1>4, <1>5

LEMMA LinesNext ==
  ASSUME TextTypeOK, LineIsRight, LinesAreRight, [TextNext]_tokenVars
  PROVE  LineIsRight' /\ LinesAreRight'
<1>1. tokens \in Seq(TokenType) /\ DOMAIN tokens = 1..Len(tokens) /\ Len(tokens) \in Nat
  BY LenProperties DEF TextTypeOK
<1>2. text' = text => \A i, j : NewLines(i, j)' = NewLines(i, j)
  BY DEF NewLines
<1>3. CASE phase = "typing" /\ UNCHANGED <<phase, at, line, tokens>>
  <2>1. at' = 1 /\ line' = 1 /\ tokens' = <<>>
    BY <1>3 DEF TextTypeOK
  <2>2. NewLines(1, 0)' = 0
    <3>1. {k \in 1..0 : text'[k] = "newline"} = {}
      OBVIOUS
    <3> QED BY <3>1, FS_EmptySet DEF NewLines
  <2>3. NewLines(1, at - 1)' = 0
    BY <2>1, <2>2 DEF NewLines
  <2> QED BY <2>1, <2>3 DEF LineIsRight, LinesAreRight
<1>4. ASSUME text' = text, phase = "scanning", NEW j, NEW type, Finds(type, j)
      PROVE  LineIsRight' /\ LinesAreRight'
  <2>1. /\ Reads(j) /\ at' = j /\ j \in (at + 1)..(Len(text) + 1) /\ type \in LexemeType
        /\ tokens' = Append(tokens, [type |-> type, from |-> at, to |-> j - 1, line |-> line'])
    BY <1>4 DEF Finds, Reads
  <2>2. line' = 1 + NewLines(1, j - 1) /\ line' \in Nat
    BY <1>4, <2>1, LinesGoOn
  <2>3. LineIsRight'
    BY <1>2, <1>4, <2>1, <2>2 DEF LineIsRight
  <2>4. /\ DOMAIN tokens' = 1..(Len(tokens) + 1) /\ \A k \in 1..Len(tokens) : tokens'[k] = tokens[k]
        /\ tokens'[Len(tokens) + 1] = [type |-> type, from |-> at, to |-> j - 1, line |-> line']
    <3>1. j \in at..(Len(text) + 1)
      BY <2>1, PeekIs
    <3> QED BY <2>1, <2>2, <3>1, NewToken
  <2>5. \A k \in 1..Len(tokens) : tokens'[k].line = 1 + NewLines(1, tokens'[k].to)
    BY <1>1, <2>4 DEF LinesAreRight
  <2>6. \A k \in 1..(Len(tokens) + 1) : tokens'[k].line = 1 + NewLines(1, tokens'[k].to)
    BY <1>1, <2>2, <2>4, <2>5
  <2>7. LinesAreRight'
    BY <1>2, <1>4, <2>4, <2>6 DEF LinesAreRight
  <2> QED BY <2>3, <2>7
<1>5. ASSUME text' = text, phase = "scanning", NEW j, Skips(j)
      PROVE  LineIsRight' /\ LinesAreRight'
  <2>1. Reads(j) /\ at' = j /\ tokens' = tokens
    BY <1>5 DEF Skips, Reads
  <2>2. line' = 1 + NewLines(1, j - 1)
    BY <1>5, <2>1, LinesGoOn
  <2> QED BY <1>2, <1>5, <2>1, <2>2 DEF LineIsRight, LinesAreRight
<1>6. CASE text' = text /\ GivesUp
  BY <1>2, <1>6 DEF GivesUp, LineIsRight, LinesAreRight
<1>7. CASE text' = text /\ ScanEnd
  <2>1. /\ at' = at /\ line' = line /\ phase = "scanning"
        /\ tokens' = Append(tokens, [type |-> "eof", from |-> at, to |-> at - 1, line |-> line])
    BY <1>7 DEF ScanEnd
  <2>2. line = 1 + NewLines(1, at - 1)
    BY <2>1 DEF LineIsRight
  <2>3. LineIsRight'
    BY <1>2, <1>7, <2>1, <2>2 DEF LineIsRight
  <2>4. /\ DOMAIN tokens' = 1..(Len(tokens) + 1) /\ \A k \in 1..Len(tokens) : tokens'[k] = tokens[k]
        /\ tokens'[Len(tokens) + 1] = [type |-> "eof", from |-> at, to |-> at - 1, line |-> line]
    <3>1. at \in at..(Len(text) + 1) /\ line \in Nat
      BY PeekIs DEF TextTypeOK
    <3> QED BY <2>1, <3>1, NewToken
  <2>5. \A k \in 1..Len(tokens) : tokens'[k].line = 1 + NewLines(1, tokens'[k].to)
    BY <1>1, <2>4 DEF LinesAreRight
  <2>6. \A k \in 1..(Len(tokens) + 1) : tokens'[k].line = 1 + NewLines(1, tokens'[k].to)
    BY <1>1, <2>2, <2>4, <2>5
  <2>7. LinesAreRight'
    BY <1>2, <1>7, <2>4, <2>6 DEF LinesAreRight
  <2> QED BY <2>3, <2>7
<1>8. CASE text' = text /\ phase = "typing" /\ phase' = "scanning" /\ UNCHANGED <<at, line, tokens>>
  BY <1>2, <1>8 DEF LineIsRight, LinesAreRight
<1>9. CASE UNCHANGED tokenVars
  BY <1>2, <1>9 DEF tokenVars, LineIsRight, LinesAreRight
<1> QED BY <1>3, <1>4, <1>5, <1>6, <1>7, <1>8, <1>9, TextSteps DEF Steps

-----------------------------------------------------------------------------
(* What is read is in a token, blank or in a comment.  A comment is hidden  *)
(* when both its slashes were read; one that reaches up to "at" ends there, *)
(* so that no token begins in it.                                           *)

TokensInOrder ==
  /\ \A k \in 1..Len(tokens) :
       tokens[k].to < at /\ (tokens[k].type # "eof" => tokens[k].from <= tokens[k].to)
  /\ \A k \in 2..Len(tokens) : tokens[k - 1].to < tokens[k].from
CommentFrom(b, i) ==
  /\ b < Len(text) /\ text[b] = "slash" /\ text[b + 1] = "slash"
  /\ ~InToken(b) /\ ~InToken(b + 1)
  /\ \A j \in b..i : text[j] # "newline"
AllIsRead ==
  \A i \in 1..(at - 1) :
    InToken(i) \/ text[i] \in Blank \/ \E b \in 1..i : b + 1 < at /\ CommentFrom(b, i)
TokensApart  == \A i \in 1..(at - 1) : InToken(i) => ~InComment(i)
CommentsEnd  == InComment(at - 1) => Peek(at) \in {"newline", "end"}

CoverInv == TokensInOrder /\ AllIsRead /\ TokensApart /\ CommentsEnd

LEMMA InCommentIs == \A i : InComment(i) <=> \E b \in 1..i : CommentFrom(b, i)
BY DEF InComment, CommentFrom

LEMMA CoverEmpty ==
  ASSUME tokens = <<>>, at = 1
  PROVE  CoverInv
<1>1. Len(tokens) = 0 /\ at - 1 = 0
  OBVIOUS
<1>2. ~InComment(0)
  BY InCommentIs
<1> QED BY <1>1, <1>2 DEF CoverInv, TokensInOrder, AllIsRead, TokensApart, CommentsEnd

\* Which places are in tokens depends on the lexemes only.
LEMMA InTokenIs ==
  ASSUME TextTypeOK
  PROVE  \A i : InToken(i) <=> \E k \in 1..Len(tokens) :
                  tokens[k].type # "eof" /\ i \in tokens[k].from..tokens[k].to
BY DEF InToken, Lexemes, TextTypeOK

LEMMA InTokenBefore ==
  ASSUME TextTypeOK, TokensInOrder
  PROVE  \A i : InToken(i) => i \in 1..(at - 1)
<1> SUFFICES ASSUME NEW i, InToken(i) PROVE i \in 1..(at - 1)
  OBVIOUS
<1>1. PICK k \in 1..Len(tokens) : i \in tokens[k].from..tokens[k].to
  BY InTokenIs
<1>2. tokens[k] \in TokenType
  BY <1>1, ElementOfSeq DEF TextTypeOK
<1>3. tokens[k].from \in Nat \ {0} /\ tokens[k].to \in Nat /\ at \in Nat
  BY <1>2, PeekIs DEF TokenType
<1>4. tokens[k].to < at
  BY <1>1 DEF TokensInOrder
<1> QED BY <1>1, <1>3, <1>4

LEMMA CoverToken ==
  ASSUME TextTypeOK, TextTypeOK', text' = text, CoverInv, NEW j, NEW type, Finds(type, j)
  PROVE  CoverInv'
<1>1. /\ at' = j /\ j \in (at + 1)..(Len(text) + 1) /\ type \in LexemeType
      /\ tokens' = Append(tokens, [type |-> type, from |-> at, to |-> j - 1, line |-> line'])
  BY DEF Finds, Reads
<1>2. at \in Nat \ {0} /\ Len(text) \in Nat /\ line' \in Nat /\ type # "eof"
  BY <1>1, PeekIs DEF TextTypeOK, LexemeType
<1> DEFINE n == Len(tokens)
<1>3. /\ Len(tokens') = n + 1 /\ n \in Nat /\ \A k \in 1..n : tokens'[k] = tokens[k]
      /\ tokens'[n + 1] = [type |-> type, from |-> at, to |-> j - 1, line |-> line']
      /\ \A k \in 1..n : tokens[k] \in TokenType
  <2>1. j \in at..(Len(text) + 1)
    BY <1>1, <1>2
  <2> QED BY <1>1, <1>2, <2>1, NewToken
<1> HIDE DEF n
<1>4. TokensInOrder
  BY DEF CoverInv
<1>5. \A i : InToken(i)' <=> InToken(i) \/ i \in at..(j - 1)
  <2> SUFFICES ASSUME NEW i PROVE InToken(i)' <=> InToken(i) \/ i \in at..(j - 1)
    OBVIOUS
  <2>1. InToken(i)' <=> \E k \in 1..(n + 1) :
                          tokens'[k].type # "eof" /\ i \in tokens'[k].from..tokens'[k].to
    <3>1. DOMAIN tokens' = 1..(n + 1)
      BY <1>3, LenProperties DEF TextTypeOK
    <3> QED BY <3>1 DEF InToken, Lexemes
  <2>2. InToken(i) <=> \E k \in 1..n : tokens[k].type # "eof" /\ i \in tokens[k].from..tokens[k].to
    BY InTokenIs DEF n
  <2>3. \A k \in 1..(n + 1) : k \in 1..n \/ k = n + 1
    BY <1>3
  <2>4. n + 1 \in 1..(n + 1) /\ \A k \in 1..n : k \in 1..(n + 1)
    BY <1>3
  <2> QED BY <1>2, <1>3, <2>1, <2>2, <2>3, <2>4
<1>6. TokensInOrder'
  <2>1. \A k \in 1..(n + 1) :
          tokens'[k].to < j /\ (tokens'[k].type # "eof" => tokens'[k].from <= tokens'[k].to)
    <3> SUFFICES ASSUME NEW k \in 1..(n + 1)
                 PROVE  tokens'[k].to < j /\ (tokens'[k].type # "eof" => tokens'[k].from <= tokens'[k].to)
      OBVIOUS
    <3>1. CASE k \in 1..n
      <4>1. tokens[k] \in TokenType /\ tokens'[k] = tokens[k]
        BY <1>3, <3>1
      <4>2. tokens[k].to \in Nat /\ tokens[k].to < at /\ (tokens[k].type # "eof" => tokens[k].from <= tokens[k].to)
        BY <1>4, <3>1, <4>1 DEF TokensInOrder, TokenType, n
      <4>3. tokens[k].to < j
        BY <1>1, <1>2, <4>2
      <4> QED BY <4>1, <4>2, <4>3
    <3>2. CASE k = n + 1
      <4>1. tokens'[k] = [type |-> type, from |-> at, to |-> j - 1, line |-> line']
        BY <1>3, <3>2
      <4>2. tokens'[k].to = j - 1 /\ tokens'[k].from = at
        BY <4>1
      <4>3. j - 1 < j /\ at <= j - 1
        BY <1>1, <1>2
      <4> QED BY <4>2, <4>3
    <3> QED BY <1>3, <3>1, <3>2
  <2>2. \A k \in 2..(n + 1) : tokens'[k - 1].to < tokens'[k].from
    <3> SUFFICES ASSUME NEW k \in 2..(n + 1) PROVE tokens'[k - 1].to < tokens'[k].from
      OBVIOUS
    <3>1. CASE k \in 2..n
      <4>1. k - 1 \in 1..n /\ k \in 1..n
        BY <1>3, <3>1
      <4>2. tokens[k - 1].to < tokens[k].from
        BY <1>4, <3>1 DEF TokensInOrder, n
      <4> QED BY <1>3, <4>1, <4>2
    <3>2. CASE k = n + 1
      <4>1. k - 1 \in 1..n /\ tokens'[k].from = at
        BY <1>3, <3>2
      <4>2. tokens[k - 1].to < at
        BY <1>4, <4>1 DEF TokensInOrder, n
      <4> QED BY <1>3, <4>1, <4>2
    <3> QED BY <1>3, <3>1, <3>2
  <2> QED BY <1>1, <1>3, <2>1, <2>2 DEF TokensInOrder
<1>7. \A b, i : CommentFrom(b, i)' <=> CommentFrom(b, i) /\ b \notin at..(j - 1) /\ b + 1 \notin at..(j - 1)
  BY <1>5 DEF CommentFrom
<1>8. AllIsRead'
  <2> SUFFICES ASSUME NEW i \in 1..(j - 1)
               PROVE  \/ InToken(i)' \/ text[i] \in Blank
                      \/ \E b \in 1..i : b + 1 < j /\ CommentFrom(b, i)'
    BY <1>1 DEF AllIsRead
  <2>1. CASE i \in at..(j - 1)
    BY <1>5, <2>1
  <2>2. CASE i \in 1..(at - 1) /\ ~InToken(i) /\ text[i] \notin Blank
    <3>1. PICK b \in 1..i : b + 1 < at /\ CommentFrom(b, i)
      BY <2>2 DEF CoverInv, AllIsRead
    <3>2. b + 1 < j /\ b \notin at..(j - 1) /\ b + 1 \notin at..(j - 1)
      BY <1>1, <1>2, <3>1
    <3> QED BY <1>7, <3>1, <3>2
  <2>3. i \in at..(j - 1) \/ i \in 1..(at - 1)
    BY <1>1, <1>2
  <2> QED BY <1>5, <2>1, <2>2, <2>3
\* A comment that reaches into the token would reach up to it.
<1>9. \A i \in 1..(j - 1) : InComment(i)' => i \in 1..(at - 1) /\ InComment(i)
  <2> SUFFICES ASSUME NEW i \in 1..(j - 1), InComment(i)' PROVE i \in 1..(at - 1) /\ InComment(i)
    OBVIOUS
  <2>1. PICK b \in 1..i : CommentFrom(b, i)'
    <3>1. \E b \in 1..i : CommentFrom(b, i)'
      BY DEF InComment, CommentFrom
    <3> QED BY <3>1
  <2>2. CommentFrom(b, i) /\ b \notin at..(j - 1)
    BY <1>7, <2>1
  <2>3. InComment(i)
    BY <2>1, <2>2, InCommentIs
  <2>4. CASE i \in at..(j - 1)
    <3>1. b \in 1..(at - 1) /\ at \in b..i /\ at - 1 \in Int
      BY <1>1, <1>2, <2>2, <2>4
    <3>2. CommentFrom(b, at - 1)
      <4>1. \A k \in b..(at - 1) : k \in b..i
        BY <1>2, <2>4
      <4> QED BY <2>2, <4>1 DEF CommentFrom
    <3>3. Peek(at) \in {"newline", "end"}
      BY <3>1, <3>2, InCommentIs DEF CoverInv, CommentsEnd
    <3>4. text[at] # "newline"
      BY <2>2, <3>1 DEF CommentFrom
    <3>5. at \in 1..Len(text)
      BY <1>1, <1>2
    <3> QED BY <3>3, <3>4, <3>5, PeekIs
  <2>5. i \in at..(j - 1) \/ i \in 1..(at - 1)
    BY <1>1, <1>2
  <2> QED BY <2>3, <2>4, <2>5
<1>10. TokensApart'
  <2> SUFFICES ASSUME NEW i \in 1..(j - 1), InToken(i)', InComment(i)' PROVE FALSE
    BY <1>1 DEF TokensApart
  <2>1. i \in 1..(at - 1) /\ InComment(i)
    BY <1>9
  <2>2. InToken(i)
    BY <1>2, <1>5, <2>1
  <2> QED BY <2>1, <2>2 DEF CoverInv, TokensApart
<1>11. CommentsEnd'
  <2>1. j - 1 \in 1..(j - 1) /\ j - 1 \notin 1..(at - 1)
    BY <1>1, <1>2
  <2>2. ~InComment(j - 1)'
    BY <1>9, <2>1
  <2> QED BY <1>1, <2>2 DEF CommentsEnd, InComment
<1> QED BY <1>6, <1>8, <1>10, <1>11 DEF CoverInv

LEMMA CoverSkip ==
  ASSUME TextTypeOK, text' = text, CoverInv, NEW j, Skips(j)
  PROVE  CoverInv'
<1>1. at' = j /\ j \in (at + 1)..(Len(text) + 1) /\ tokens' = tokens /\ (CommentTo(j) \/ BlankTo(j))
  BY DEF Skips, Reads
<1>2. at \in Nat \ {0} /\ Len(text) \in Nat /\ Len(tokens) \in Nat
  BY PeekIs, LenProperties DEF TextTypeOK
<1>3. \A i : InToken(i)' <=> InToken(i)
  BY <1>1 DEF InToken, Lexemes
<1>4. \A b, i : CommentFrom(b, i)' <=> CommentFrom(b, i)
  BY <1>3 DEF CommentFrom
<1>5. \A i : InComment(i)' <=> InComment(i)
  BY <1>3 DEF InComment
<1>6. \A i : InToken(i) => i \in 1..(at - 1)
  BY InTokenBefore DEF CoverInv
<1>7. TokensInOrder'
  <2> SUFFICES ASSUME NEW k \in 1..Len(tokens) PROVE tokens[k].to < j
    BY <1>1 DEF CoverInv, TokensInOrder
  <2>1. tokens[k].to \in Nat
    <3>1. tokens[k] \in TokenType
      BY ElementOfSeq DEF TextTypeOK
    <3> QED BY <3>1 DEF TokenType
  <2>2. tokens[k].to < at
    BY DEF CoverInv, TokensInOrder
  <2> QED BY <1>1, <1>2, <2>1, <2>2
<1>8. AllIsRead'
  <2> SUFFICES ASSUME NEW i \in 1..(j - 1)
               PROVE  \/ InToken(i) \/ text[i] \in Blank
                      \/ \E b \in 1..i : b + 1 < j /\ CommentFrom(b, i)
    BY <1>1, <1>3, <1>4 DEF AllIsRead
  <2>1. CASE i \in 1..(at - 1)
    <3>1. \A b \in 1..i : b + 1 < at => b + 1 < j
      BY <1>1, <1>2
    <3> QED BY <2>1, <3>1 DEF CoverInv, AllIsRead
  <2>2. CASE i \in at..(j - 1) /\ BlankTo(j)
    BY <1>2, <2>2 DEF BlankTo
  <2>3. CASE i \in at..(j - 1) /\ CommentTo(j)
    <3>1. /\ at + 1 < j /\ text[at] = "slash" /\ text[at + 1] = "slash"
          /\ \A k \in at..(j - 1) : text[k] # "newline"
      BY <2>3 DEF CommentTo
    <3>2. at < Len(text) /\ at \in 1..i /\ \A k \in at..i : k \in at..(j - 1)
      BY <1>1, <1>2, <2>3, <3>1
    <3>3. ~InToken(at) /\ ~InToken(at + 1)
      BY <1>2, <1>6
    <3>4. CommentFrom(at, i)
      BY <3>1, <3>2, <3>3 DEF CommentFrom
    <3> QED BY <3>1, <3>2, <3>4
  <2>4. i \in at..(j - 1) \/ i \in 1..(at - 1)
    BY <1>1, <1>2
  <2> QED BY <1>1, <2>1, <2>2, <2>3, <2>4
<1>9. TokensApart'
  <2> SUFFICES ASSUME NEW i \in 1..(j - 1), InToken(i) PROVE ~InComment(i)
    BY <1>1, <1>3, <1>5 DEF TokensApart
  <2>1. i \in 1..(at - 1)
    BY <1>6
  <2> QED BY <2>1 DEF CoverInv, TokensApart
<1>10. CommentsEnd'
  <2> SUFFICES ASSUME InComment(j - 1) PROVE Peek(j) \in {"newline", "end"}
    BY <1>1, <1>5 DEF CommentsEnd, Peek
  <2>1. CASE CommentTo(j)
    BY <2>1 DEF CommentTo
  <2>2. CASE BlankTo(j)
    <3>1. j = at + 1 /\ text[at] \in Blank /\ j - 1 = at
      BY <1>2, <2>2 DEF BlankTo
    <3>2. PICK b \in 1..at : CommentFrom(b, at)
      BY <3>1, InCommentIs
    <3>3. text[b] = "slash" /\ text[at] # "newline"
      BY <1>2, <3>2 DEF CommentFrom
    <3>4. b \in 1..(at - 1)
      <4>1. text[at] # "slash"
        BY <3>1 DEF Blank
      <4>2. b # at
        BY <3>3, <4>1
      <4> QED BY <1>2, <3>2, <4>2
    <3>5. CommentFrom(b, at - 1)
      <4>1. \A k \in b..(at - 1) : k \in b..at
        BY <1>2, <3>4
      <4> QED BY <3>2, <4>1 DEF CommentFrom
    <3>6. Peek(at) \in {"newline", "end"}
      BY <3>4, <3>5, InCommentIs DEF CoverInv, CommentsEnd
    <3>7. at \in 1..Len(text)
      BY <1>1, <1>2
    <3> QED BY <3>3, <3>6, <3>7, PeekIs
  <2> QED BY <1>1, <2>1, <2>2
<1> QED BY <1>7, <1>8, <1>9, <1>10 DEF CoverInv

LEMMA CoverEnd ==
  ASSUME TextTypeOK, text' = text, CoverInv, ScanEnd
  PROVE  CoverInv'
<1>1. /\ at' = at /\ at \in Nat \ {0}
      /\ tokens' = Append(tokens, [type |-> "eof", from |-> at, to |-> at - 1, line |-> line])
  BY PeekIs DEF ScanEnd
<1> DEFINE n == Len(tokens)
<1>2. /\ Len(tokens') = n + 1 /\ n \in Nat /\ \A k \in 1..n : tokens'[k] = tokens[k]
      /\ tokens'[n + 1] = [type |-> "eof", from |-> at, to |-> at - 1, line |-> line]
      /\ DOMAIN tokens' = 1..(n + 1) /\ DOMAIN tokens = 1..n
  <2>1. at \in at..(Len(text) + 1) /\ line \in Nat
    BY PeekIs DEF TextTypeOK
  <2> QED BY <1>1, <2>1, NewToken
<1> HIDE DEF n
<1>3. Lexemes' = Lexemes
  BY <1>2 DEF Lexemes
<1>4. \A i : InToken(i)' <=> InToken(i)
  BY <1>2, <1>3 DEF InToken, Lexemes
<1>5. \A i : InComment(i)' <=> InComment(i)
  BY <1>4 DEF InComment
<1>6. \A b, i : CommentFrom(b, i)' <=> CommentFrom(b, i)
  BY <1>4 DEF CommentFrom
<1>7. TokensInOrder
  BY DEF CoverInv
<1>8. TokensInOrder'
  <2>1. \A k \in 1..(n + 1) :
          tokens'[k].to < at /\ (tokens'[k].type # "eof" => tokens'[k].from <= tokens'[k].to)
    <3>1. \A k \in 1..n : tokens'[k].to < at /\ (tokens'[k].type # "eof" => tokens'[k].from <= tokens'[k].to)
      BY <1>2, <1>7 DEF TokensInOrder, n
    <3>2. tokens'[n + 1].to < at /\ tokens'[n + 1].type = "eof"
      BY <1>1, <1>2
    <3> QED BY <1>2, <3>1, <3>2
  <2>2. \A k \in 2..(n + 1) : tokens'[k - 1].to < tokens'[k].from
    <3> SUFFICES ASSUME NEW k \in 2..(n + 1) PROVE tokens'[k - 1].to < tokens'[k].from
      OBVIOUS
    <3>1. CASE k \in 2..n
      <4>1. k - 1 \in 1..n /\ k \in 1..n
        BY <1>2, <3>1
      <4> QED BY <1>2, <1>7, <3>1, <4>1 DEF TokensInOrder, n
    <3>2. CASE k = n + 1
      <4>1. k - 1 \in 1..n /\ tokens'[k].from = at
        BY <1>2, <3>2
      <4> QED BY <1>2, <1>7, <4>1 DEF TokensInOrder, n
    <3> QED BY <1>2, <3>1, <3>2
  <2> QED BY <1>1, <1>2, <2>1, <2>2 DEF TokensInOrder
<1>9. AllIsRead' /\ TokensApart' /\ CommentsEnd'
  <2>1. AllIsRead /\ TokensApart /\ CommentsEnd
    BY DEF CoverInv
  <2>2. AllIsRead'
    BY <1>1, <1>4, <1>6, <2>1 DEF AllIsRead
  <2>3. TokensApart'
    BY <1>1, <1>4, <1>5, <2>1 DEF TokensApart
  <2>4. CommentsEnd'
    BY <1>1, <1>5, <2>1 DEF CommentsEnd, Peek
  <2> QED BY <2>2, <2>3, <2>4
<1> QED BY <1>8, <1>9 DEF CoverInv

LEMMA CoverNext ==
  ASSUME TextTypeOK, CoverInv, [TextNext]_tokenVars
  PROVE  CoverInv'
<1>1. CASE phase = "typing" /\ UNCHANGED <<phase, at, line, tokens>>
  <2>1. tokens' = <<>> /\ at' = 1
    BY <1>1 DEF TextTypeOK
  <2>2. ~InComment(0)'
    BY DEF InComment
  <2>3. Len(tokens') = 0 /\ at' - 1 = 0
    BY <2>1
  <2> QED BY <2>1, <2>2, <2>3 DEF CoverInv, TokensInOrder, AllIsRead, TokensApart, CommentsEnd
<1>2. CASE text' = text /\ UNCHANGED <<at, tokens>>
  <2>1. \A i : InToken(i)' <=> InToken(i)
    BY <1>2 DEF InToken, Lexemes
  <2>2. \A i : InComment(i)' <=> InComment(i)
    BY <1>2, <2>1 DEF InComment
  <2>3. \A b, i : CommentFrom(b, i)' <=> CommentFrom(b, i)
    BY <1>2, <2>1 DEF CommentFrom
  <2> QED BY <1>2, <2>1, <2>2, <2>3
          DEF CoverInv, TokensInOrder, AllIsRead, TokensApart, CommentsEnd, Peek
<1>3. CASE text' = text /\ Steps
  <2>1. TextTypeOK'
    BY TextTypesNext
  <2>2. CASE GivesUp
    BY <1>2, <1>3, <2>2 DEF GivesUp
  <2> QED BY <1>3, <2>1, <2>2, CoverToken, CoverSkip DEF Steps
<1>4. CASE text' = text /\ ScanEnd
  BY <1>4, CoverEnd
<1>5. CASE UNCHANGED tokenVars
  BY <1>2, <1>5 DEF tokenVars
<1> QED BY <1>1, <1>2, <1>3, <1>4, <1>5, TextSteps

LEMMA CoverIs ==
  ASSUME TextTypeOK, CoverInv
  PROVE  NothingDropped
<1>1. \A i \in 1..(at - 1) : InToken(i) \/ text[i] \in Blank \/ InComment(i)
  BY InCommentIs DEF CoverInv, AllIsRead
<1> QED BY <1>1 DEF CoverInv, TokensInOrder, TokensApart, NothingDropped

-----------------------------------------------------------------------------
(* A lexeme, said of the text: the characters from "at" to m.               *)

WordAt(m)     == text[at] \in Letter /\ \A k \in at..m : text[k] \in Letter \cup Digit
NumberAt(m)   ==
  \/ \A k \in at..m : text[k] \in Digit
  \/ \E d \in (at + 1)..(m - 1) : text[d] = "." /\ \A k \in at..m : k # d => text[k] \in Digit
StringAt(m)   ==
  /\ at < m /\ text[at] = "quote" /\ text[m] = "quote"
  /\ \A k \in (at + 1)..(m - 1) : text[k] # "quote"
OperatorAt(m) ==
  \/ m = at /\ text[at] \in Operators
  \/ m = at + 1 /\ text[at] \in Comparison /\ text[at + 1] = "="
LexemeAt(m)   == WordAt(m) \/ NumberAt(m) \/ StringAt(m) \/ OperatorAt(m)

\* The lexeme that ends with m.
Part(m) == SubSeq(text, at, m)

\* The characters of a part of the text, and where they are in it.
LEMMA CharacterAt ==
  ASSUME TextTypeOK, NEW m \in at..Len(text)
  PROVE  /\ \A k \in at..m : k - at + 1 \in 1..Len(Part(m)) /\ Part(m)[k - at + 1] = text[k]
         /\ \A i \in 1..Len(Part(m)) : i + at - 1 \in at..m /\ Part(m)[i] = text[i + at - 1]
         /\ Part(m) \in Seq(alphabet) /\ Len(Part(m)) = m - at + 1
<1>1. text \in Seq(alphabet) /\ Len(text) \in Nat /\ at \in Nat \ {0}
  BY PeekIs DEF TextTypeOK
<1>2. at \in 1..(Len(text) + 1) /\ m \in (at - 1)..Len(text) /\ m \in Nat
  BY <1>1
<1>3. /\ Part(m) \in Seq(alphabet) /\ Len(Part(m)) = m - at + 1
      /\ \A i \in 1..(m - at + 1) : Part(m)[i] = text[at + i - 1]
  BY <1>1, <1>2, SubSeqProperties DEF Part
<1>4. \A i \in 1..Len(Part(m)) : i + at - 1 \in at..m /\ Part(m)[i] = text[i + at - 1]
  <2> SUFFICES ASSUME NEW i \in 1..Len(Part(m)) PROVE i + at - 1 \in at..m /\ Part(m)[i] = text[i + at - 1]
    OBVIOUS
  <2>1. i + at - 1 \in at..m /\ i + at - 1 = at + i - 1
    BY <1>1, <1>2, <1>3
  <2> QED BY <1>3, <2>1
<1>5. \A k \in at..m : k - at + 1 \in 1..Len(Part(m)) /\ Part(m)[k - at + 1] = text[k]
  <2> SUFFICES ASSUME NEW k \in at..m PROVE k - at + 1 \in 1..Len(Part(m)) /\ Part(m)[k - at + 1] = text[k]
    OBVIOUS
  <2>1. k - at + 1 \in 1..Len(Part(m)) /\ (k - at + 1) + at - 1 = k
    BY <1>1, <1>2, <1>3
  <2> QED BY <1>4, <2>1
<1> QED BY <1>3, <1>4, <1>5

LEMMA Characters ==
  ASSUME TextTypeOK, NEW m \in at..Len(text)
  PROVE  /\ Len(Part(m)) = m - at + 1 /\ DOMAIN Part(m) = 1..Len(Part(m)) /\ Part(m) # <<>> /\ at \in at..m
         /\ at \in Nat \ {0} /\ m \in Nat /\ Len(Part(m)) \in Nat \ {0} /\ Part(m)[1] = text[at]
<1>1. at \in Nat \ {0} /\ m \in Nat /\ at \in at..m
  BY PeekIs
<1>2. Part(m) \in Seq(alphabet) /\ Len(Part(m)) = m - at + 1
  BY CharacterAt
<1>3. Len(Part(m)) \in Nat \ {0} /\ DOMAIN Part(m) = 1..Len(Part(m))
  BY <1>1, <1>2, LenProperties
<1>4. Part(m) # <<>>
  BY <1>3
<1>5. Part(m)[1] = text[at]
  <2>1. 1 \in 1..Len(Part(m)) /\ 1 + at - 1 = at
    BY <1>1, <1>3
  <2>2. \A i \in 1..Len(Part(m)) : Part(m)[i] = text[i + at - 1]
    BY CharacterAt
  <2> QED BY <2>1, <2>2
<1> QED BY <1>1, <1>2, <1>3, <1>4, <1>5

LEMMA AllAre ==
  ASSUME TextTypeOK, NEW m \in at..Len(text), NEW S
  PROVE  All(Part(m), S) <=> \A k \in at..m : text[k] \in S
<1>0. /\ \A k \in at..m : k - at + 1 \in 1..Len(Part(m)) /\ Part(m)[k - at + 1] = text[k]
      /\ \A i \in 1..Len(Part(m)) : i + at - 1 \in at..m /\ Part(m)[i] = text[i + at - 1]
  BY CharacterAt
<1>1. DOMAIN Part(m) = 1..Len(Part(m))
  BY Characters
<1>2. ASSUME All(Part(m), S), NEW k \in at..m PROVE text[k] \in S
  BY <1>0, <1>1, <1>2 DEF All
<1>3. ASSUME \A k \in at..m : text[k] \in S, NEW i \in 1..Len(Part(m)) PROVE Part(m)[i] \in S
  BY <1>0, <1>3
<1> QED BY <1>1, <1>2, <1>3 DEF All

LEMMA WordIs ==
  ASSUME TextTypeOK, NEW m \in at..Len(text)
  PROVE  IsWord(Part(m)) <=> WordAt(m)
BY Characters, AllAre DEF IsWord, WordAt

LEMMA NumberIs ==
  ASSUME TextTypeOK, NEW m \in at..Len(text)
  PROVE  IsNumber(Part(m)) <=> NumberAt(m)
<1> DEFINE Dot(d) == text[d] = "." /\ \A k \in at..m : k # d => text[k] \in Digit
           dot(i) == Part(m)[i] = "." /\ \A j \in DOMAIN Part(m) : j # i => Part(m)[j] \in Digit
<1>0. /\ \A k \in at..m : k - at + 1 \in 1..Len(Part(m)) /\ Part(m)[k - at + 1] = text[k]
      /\ \A i \in 1..Len(Part(m)) : i + at - 1 \in at..m /\ Part(m)[i] = text[i + at - 1]
  BY CharacterAt
<1>1. Len(Part(m)) = m - at + 1 /\ DOMAIN Part(m) = 1..Len(Part(m)) /\ Part(m) # <<>> /\ at \in Nat /\ m \in Nat
  BY Characters
<1>2. ASSUME NEW i \in 1..Len(Part(m)) PROVE dot(i) <=> Dot(i + at - 1)
  <2>1. Part(m)[i] = text[i + at - 1] /\ i \in Int
    BY <1>0, <1>1, <1>2
  <2>2. ASSUME dot(i), NEW k \in at..m, k # i + at - 1 PROVE text[k] \in Digit
    <3>1. k - at + 1 \in 1..Len(Part(m)) /\ k - at + 1 # i /\ Part(m)[k - at + 1] = text[k]
      BY <1>0, <1>1, <2>1, <2>2
    <3> QED BY <1>1, <2>2, <3>1
  <2>3. ASSUME Dot(i + at - 1), NEW j \in DOMAIN Part(m), j # i PROVE Part(m)[j] \in Digit
    <3>1. j + at - 1 \in at..m /\ j + at - 1 # i + at - 1 /\ Part(m)[j] = text[j + at - 1]
      BY <1>0, <1>1, <2>1, <2>3
    <3> QED BY <2>3, <3>1
  <2> QED BY <2>1, <2>2, <2>3
<1> HIDE DEF Dot, dot
<1>3. (\E i \in 2..(Len(Part(m)) - 1) : dot(i)) <=> \E d \in (at + 1)..(m - 1) : Dot(d)
  <2>1. ASSUME NEW i \in 2..(Len(Part(m)) - 1), dot(i) PROVE \E d \in (at + 1)..(m - 1) : Dot(d)
    <3>1. i \in 1..Len(Part(m)) /\ i + at - 1 \in (at + 1)..(m - 1)
      BY <1>1
    <3> QED BY <1>2, <2>1, <3>1
  <2>2. ASSUME NEW d \in (at + 1)..(m - 1), Dot(d) PROVE \E i \in 2..(Len(Part(m)) - 1) : dot(i)
    <3>1. d - at + 1 \in 2..(Len(Part(m)) - 1) /\ d - at + 1 \in 1..Len(Part(m)) /\ (d - at + 1) + at - 1 = d
      BY <1>1
    <3> QED BY <1>2, <2>2, <3>1
  <2> QED BY <2>1, <2>2
<1>4. All(Part(m), Digit) <=> \A k \in at..m : text[k] \in Digit
  BY AllAre
<1> QED BY <1>1, <1>3, <1>4 DEF IsNumber, NumberAt, Dot, dot

LEMMA StringIs ==
  ASSUME TextTypeOK, NEW m \in at..Len(text)
  PROVE  IsString(Part(m)) <=> StringAt(m)
<1>0. /\ \A k \in at..m : Part(m)[k - at + 1] = text[k]
      /\ \A i \in 1..Len(Part(m)) : Part(m)[i] = text[i + at - 1]
  BY CharacterAt
<1>1. /\ Len(Part(m)) = m - at + 1 /\ DOMAIN Part(m) = 1..Len(Part(m)) /\ at \in Nat /\ m \in Nat
      /\ Len(Part(m)) \in Nat \ {0} /\ Part(m)[1] = text[at]
  BY Characters
<1>2. m - at + 1 = Len(Part(m)) /\ Part(m)[Len(Part(m))] = text[m]
  <2>1. m \in at..m
    BY <1>1
  <2> QED BY <1>0, <1>1, <2>1
<1>3. ASSUME IsString(Part(m)) PROVE StringAt(m)
  <2>1. /\ Len(Part(m)) >= 2
        /\ \A i \in 1..Len(Part(m)) : Part(m)[i] = "quote" <=> i = 1 \/ i = Len(Part(m))
    BY <1>1, <1>3 DEF IsString
  <2>2. Part(m)[1] = "quote" /\ Part(m)[Len(Part(m))] = "quote" /\ at < m
    <3>1. 1 \in 1..Len(Part(m)) /\ Len(Part(m)) \in 1..Len(Part(m)) /\ at < m
      BY <1>1, <2>1
    <3> QED BY <2>1, <3>1
  <2>3. ASSUME NEW k \in (at + 1)..(m - 1) PROVE text[k] # "quote"
    <3>1. k \in at..m /\ k - at + 1 \in 1..Len(Part(m)) /\ k - at + 1 # 1 /\ k - at + 1 # Len(Part(m))
      BY <1>1
    <3>2. Part(m)[k - at + 1] = text[k]
      BY <1>0, <3>1
    <3>3. Part(m)[k - at + 1] # "quote"
      BY <2>1, <3>1
    <3> QED BY <3>2, <3>3
  <2> QED BY <1>1, <1>2, <2>2, <2>3 DEF StringAt
<1>4. ASSUME StringAt(m) PROVE IsString(Part(m))
  <2>1. at < m /\ Part(m)[1] = "quote" /\ Part(m)[Len(Part(m))] = "quote"
    BY <1>1, <1>2, <1>4 DEF StringAt
  <2>2. ASSUME NEW i \in 1..Len(Part(m)), i # 1, i # Len(Part(m)) PROVE Part(m)[i] # "quote"
    <3>1. i + at - 1 \in (at + 1)..(m - 1) /\ Part(m)[i] = text[i + at - 1]
      BY <1>0, <1>1, <2>2
    <3> QED BY <1>4, <3>1 DEF StringAt
  <2>3. Len(Part(m)) >= 2 /\ 1 \in 1..Len(Part(m)) /\ Len(Part(m)) \in 1..Len(Part(m))
    BY <1>1, <2>1
  <2>4. {k \in 1..Len(Part(m)) : Part(m)[k] = "quote"} = {1, Len(Part(m))}
    BY <2>1, <2>2, <2>3
  <2> QED BY <1>1, <2>3, <2>4 DEF IsString
<1> QED BY <1>3, <1>4

LEMMA OperatorIs ==
  ASSUME TextTypeOK, NEW m \in at..Len(text)
  PROVE  IsOperator(Part(m)) <=> OperatorAt(m)
<1>0. \A i \in 1..Len(Part(m)) : Part(m)[i] = text[i + at - 1]
  BY CharacterAt
<1>1. Len(Part(m)) = m - at + 1 /\ at \in Nat /\ m \in Nat /\ Part(m)[1] = text[at]
  BY Characters
<1>2. m = at + 1 => Part(m)[2] = text[at + 1]
  <2>1. m = at + 1 => Len(Part(m)) = 2
    BY <1>1
  <2>2. Len(Part(m)) = 2 => 2 \in 1..Len(Part(m))
    OBVIOUS
  <2>3. 2 + at - 1 = at + 1
    BY <1>1
  <2> QED BY <1>0, <2>1, <2>2, <2>3
<1>3. (Len(Part(m)) = 1 <=> m = at) /\ (Len(Part(m)) = 2 <=> m = at + 1)
  BY <1>1
<1> QED BY <1>1, <1>2, <1>3, Zenon DEF IsOperator, OperatorAt, Operators

LEMMA KeywordIs ==
  ASSUME TextTypeOK, NEW m \in at..Len(text), Part(m) \in Keywords
  PROVE  WordAt(m)
<1>1. Part(m) = <<"o", "r">>
  BY DEF Keywords
<1>2. Part(m)[1] \in Letter /\ Part(m)[2] \in Letter /\ DOMAIN Part(m) = {1, 2} /\ Part(m) # <<>>
  BY <1>1 DEF Letter
<1>3. IsWord(Part(m))
  BY <1>2 DEF IsWord, All
<1> QED BY <1>3, WordIs

LEMMA IsAIs ==
  ASSUME NEW s
  PROVE  /\ IsA("identifier", s) <=> IsWord(s) /\ s \notin Keywords
         /\ IsA("keyword", s) <=> s \in Keywords
         /\ IsA("number", s) <=> IsNumber(s)
         /\ IsA("string", s) <=> IsString(s)
         /\ IsA("operator", s) <=> IsOperator(s)
<1>1. IsA("identifier", s) <=> IsWord(s) /\ s \notin Keywords
  BY DEF IsA
<1>2. IsA("keyword", s) <=> s \in Keywords
  BY DEF IsA
<1>3. IsA("number", s) <=> IsNumber(s)
  BY DEF IsA
<1>4. IsA("string", s) <=> IsString(s)
  BY DEF IsA
<1>5. IsA("operator", s) <=> IsOperator(s)
  BY DEF IsA
<1> QED BY <1>1, <1>2, <1>3, <1>4, <1>5

\* Whatever its type, a lexeme in the text is one of the four.
LEMMA LexemeIs ==
  ASSUME TextTypeOK, NEW m \in at..Len(text), NEW type \in LexemeType,
         IsA(type, Part(m))
  PROVE  LexemeAt(m)
BY IsAIs, WordIs, NumberIs, StringIs, OperatorIs, KeywordIs DEF LexemeType, LexemeAt

\* Once found, a lexeme is one of its type, and no longer one begins with it.
LEMMA OperatorLongest ==
  ASSUME TextTypeOK, NEW j \in (at + 1)..(Len(text) + 1), OperatorTo(j), text[at] = C
  PROVE  OperatorAt(j - 1) /\ \A m \in j..Len(text) : ~LexemeAt(m)
<1>1. at \in Nat \ {0} /\ Len(text) \in Nat /\ at + 1 \in Nat \ {0}
  BY PeekIs
<1>2. Peek(at + 1) = "=" => text[at + 1] = "="
  BY <1>1, PeekIs
<1>3. OperatorAt(j - 1)
  BY <1>1, <1>2 DEF OperatorTo, OperatorAt
<1>4. text[at] \notin Letter /\ text[at] \notin Digit /\ text[at] # "quote"
  BY OperatorsAreNothingElse DEF OperatorTo
<1>5. ASSUME NEW m \in j..Len(text) PROVE ~LexemeAt(m)
  <2>1. at \in at..m /\ \A d \in (at + 1)..(m - 1) : at # d
    BY <1>1
  <2>2. ~WordAt(m) /\ ~NumberAt(m) /\ ~StringAt(m)
    BY <1>4, <2>1 DEF WordAt, NumberAt, StringAt
  <2>3. ~OperatorAt(m)
    <3>1. m # at /\ (m = at + 1 => j = at + 1)
      BY <1>1
    <3>2. m = at + 1 => Peek(at + 1) = text[at + 1]
      BY <1>1, PeekIs
    <3>3. j = at + 1 => ~(C \in Comparison /\ Peek(at + 1) = "=")
      BY <1>1 DEF OperatorTo
    <3> QED BY <3>1, <3>2, <3>3 DEF OperatorAt
  <2> QED BY <2>2, <2>3 DEF LexemeAt
<1> QED BY <1>3, <1>5

LEMMA StringLongest ==
  ASSUME TextTypeOK, NEW j \in (at + 1)..(Len(text) + 1), StringTo(j)
  PROVE  StringAt(j - 1) /\ \A m \in j..Len(text) : ~LexemeAt(m)
<1>1. at \in Nat \ {0} /\ Len(text) \in Nat /\ at + 1 < j /\ text[at] = "quote" /\ text[j - 1] = "quote"
  BY PeekIs DEF StringTo
<1>2. StringAt(j - 1)
  <2>1. (j - 1) - 1 = j - 2 /\ at < j - 1
    BY <1>1
  <2> QED BY <1>1, <2>1 DEF StringTo, StringAt
<1>3. text[at] \notin Letter /\ text[at] \notin Digit /\ text[at] \notin Operators
  BY <1>1, CharactersDiffer, OperatorsAreNothingElse
<1>4. ASSUME NEW m \in j..Len(text) PROVE ~LexemeAt(m)
  <2>1. at \in at..m /\ j - 1 \in (at + 1)..(m - 1) /\ \A d \in (at + 1)..(m - 1) : at # d
    BY <1>1
  <2>2. ~WordAt(m) /\ ~NumberAt(m) /\ ~StringAt(m)
    BY <1>1, <1>3, <2>1 DEF WordAt, NumberAt, StringAt
  <2>3. ~OperatorAt(m)
    BY <1>3, CharactersDiffer DEF OperatorAt
  <2> QED BY <2>2, <2>3 DEF LexemeAt
<1> QED BY <1>2, <1>4

LEMMA WordLongest ==
  ASSUME TextTypeOK, NEW j \in (at + 1)..(Len(text) + 1), WordTo(j)
  PROVE  WordAt(j - 1) /\ \A m \in j..Len(text) : ~LexemeAt(m)
<1>1. at \in Nat \ {0} /\ Len(text) \in Nat /\ text[at] \in Letter
  BY PeekIs DEF WordTo
<1>2. WordAt(j - 1)
  BY DEF WordTo, WordAt
<1>3. text[at] \notin Digit /\ text[at] # "quote" /\ text[at] \notin Operators
  BY <1>1, CharactersDiffer, OperatorsAreNothingElse
<1>4. ASSUME NEW m \in j..Len(text) PROVE ~LexemeAt(m)
  <2>1. at \in at..m /\ j \in at..m /\ j \in 1..Len(text) /\ \A d \in (at + 1)..(m - 1) : at # d
    BY <1>1
  <2>2. text[j] \notin Letter \cup Digit
    BY <2>1, PeekIs DEF WordTo
  <2>3. ~WordAt(m) /\ ~NumberAt(m) /\ ~StringAt(m)
    BY <1>3, <2>1, <2>2 DEF WordAt, NumberAt, StringAt
  <2>4. ~OperatorAt(m)
    BY <1>3, CharactersDiffer DEF OperatorAt
  <2> QED BY <2>3, <2>4 DEF LexemeAt
<1> QED BY <1>2, <1>4

LEMMA NumberLongest ==
  ASSUME TextTypeOK, NEW j \in (at + 1)..(Len(text) + 1), NEW d \in Nat, NumberTo(j, d)
  PROVE  NumberAt(j - 1) /\ \A m \in j..Len(text) : ~LexemeAt(m)
<1>1. /\ at \in Nat \ {0} /\ Len(text) \in Nat /\ at < d /\ d <= j
      /\ \A k \in at..(d - 1) : text[k] \in Digit
      /\ Peek(d) \notin Digit /\ Peek(j) \notin Digit
  BY PeekIs DEF NumberTo
<1>2. at \in at..(d - 1)
  BY <1>1
<1>3. /\ text[at] \in Digit /\ text[at] \notin Letter /\ text[at] # "quote"
      /\ text[at] \notin Operators
  BY <1>1, <1>2, CharactersDiffer, OperatorsAreNothingElse
<1>4. NumberAt(j - 1)
  <2>1. CASE Peek(d) = "." /\ Peek(d + 1) \in Digit
    <3>1. d + 1 < j /\ \A k \in (d + 1)..(j - 1) : text[k] \in Digit
      BY <2>1 DEF NumberTo
    <3>2. d \in 1..Len(text) /\ d \in (at + 1)..((j - 1) - 1)
      BY <1>1, <3>1
    <3>3. text[d] = "."
      BY <2>1, <3>2, PeekIs
    <3>4. \A k \in at..(j - 1) : k # d => k \in at..(d - 1) \/ k \in (d + 1)..(j - 1)
      BY <1>1
    <3> QED BY <1>1, <3>1, <3>2, <3>3, <3>4 DEF NumberAt
  <2>2. CASE ~(Peek(d) = "." /\ Peek(d + 1) \in Digit)
    <3>1. j = d
      BY <2>2 DEF NumberTo
    <3> QED BY <1>1, <3>1 DEF NumberAt
  <2> QED BY <2>1, <2>2
<1>5. ASSUME NEW m \in j..Len(text) PROVE ~LexemeAt(m)
  <2>1. at \in at..m /\ d \in at..m /\ j \in at..m /\ d \in 1..Len(text) /\ j \in 1..Len(text) /\ m \in Nat
    BY <1>1
  <2>2. text[d] \notin Digit /\ text[j] \notin Digit /\ text[d] = Peek(d)
    BY <1>1, <2>1, PeekIs
  <2>3. ~WordAt(m) /\ ~StringAt(m) /\ ~OperatorAt(m)
    BY <1>3, CharactersDiffer DEF WordAt, StringAt, OperatorAt
  <2>4. ~NumberAt(m)
    <3>1. SUFFICES ASSUME NEW e \in (at + 1)..(m - 1), text[e] = ".",
                          \A k \in at..m : k # e => text[k] \in Digit
                   PROVE  FALSE
      BY <2>1, <2>2 DEF NumberAt
    <3>2. d = e
      BY <2>1, <2>2, <3>1
    <3>3. d + 1 \in at..m /\ d + 1 # e /\ d + 1 \in 1..Len(text)
      BY <1>1, <3>2
    <3>4. Peek(d) = "." /\ Peek(d + 1) \in Digit
      BY <2>2, <3>1, <3>2, <3>3, PeekIs
    <3>5. d + 1 < j
      BY <3>4 DEF NumberTo
    <3>6. j # e
      BY <1>1, <3>2, <3>5
    <3> QED BY <2>1, <2>2, <3>1, <3>6
  <2> QED BY <2>3, <2>4 DEF LexemeAt
<1> QED BY <1>4, <1>5

LEMMA FoundIsLongest ==
  ASSUME TextTypeOK, NEW j \in (at + 1)..(Len(text) + 1), NEW type, LexemeTo(type, j)
  PROVE  /\ IsA(type, SubSeq(text, at, j - 1))
         /\ \A m \in j..Len(text) :
              ~\E t \in LexemeType : IsA(t, SubSeq(text, at, m))
<1>1. at \in Nat \ {0} /\ Len(text) \in Nat /\ j - 1 \in at..Len(text)
  BY PeekIs
<1> DEFINE s == SubSeq(text, at, j - 1)
<1>2. \A m \in j..Len(text) : m \in at..Len(text)
  BY <1>1
<1> HIDE DEF s
<1>3. /\ IsWord(s) <=> WordAt(j - 1)
      /\ IsNumber(s) <=> NumberAt(j - 1)
      /\ IsString(s) <=> StringAt(j - 1)
      /\ IsOperator(s) <=> OperatorAt(j - 1)
  BY <1>1, WordIs, NumberIs, StringIs, OperatorIs DEF s, Part
<1>4. at \in 1..Len(text) /\ C = text[at]
  BY <1>1, PeekIs
<1>5. IsA(type, s) /\ \A m \in j..Len(text) : ~LexemeAt(m)
  <2>1. CASE type = "operator" /\ OperatorTo(j)
    BY <1>3, <1>4, <2>1, IsAIs, OperatorLongest
  <2>2. CASE type = "string" /\ StringTo(j)
    BY <1>3, <2>2, IsAIs, StringLongest
  <2>3. CASE type = "number" /\ \E d \in Nat : NumberTo(j, d)
    BY <1>3, <2>3, IsAIs, NumberLongest
  <2>4. CASE type = "identifier" /\ WordTo(j) /\ s \notin Keywords
    BY <1>3, <2>4, IsAIs, WordLongest
  <2>5. CASE type = "keyword" /\ WordTo(j) /\ s \in Keywords
    BY <1>3, <2>5, IsAIs, WordLongest
  <2> QED BY <2>1, <2>2, <2>3, <2>4, <2>5 DEF LexemeTo, s
<1>6. ASSUME NEW m \in j..Len(text), NEW t \in LexemeType, IsA(t, SubSeq(text, at, m)) PROVE FALSE
  BY <1>2, <1>5, <1>6, LexemeIs DEF Part
<1> QED BY <1>5, <1>6 DEF s

LEMMA LongestNext ==
  ASSUME TextTypeOK, LongestMatch, [TextNext]_tokenVars
  PROVE  LongestMatch'
<1>1. CASE phase = "typing" /\ UNCHANGED <<phase, at, line, tokens>>
  <2>1. tokens' = <<>>
    BY <1>1 DEF TextTypeOK
  <2> QED BY <2>1 DEF LongestMatch, Lexemes
<1>2. CASE text' = text /\ tokens' = tokens
  BY <1>2 DEF LongestMatch, Lexemes
<1>3. ASSUME text' = text, NEW j, NEW type, Finds(type, j) PROVE LongestMatch'
  <2>1. /\ j \in (at + 1)..(Len(text) + 1) /\ type \in LexemeType /\ LexemeTo(type, j)
        /\ tokens' = Append(tokens, [type |-> type, from |-> at, to |-> j - 1, line |-> line'])
    BY <1>3 DEF Finds, Reads
  <2>2. line' \in Nat /\ at \in Nat /\ j \in at..(Len(text) + 1) /\ (j - 1) + 1 = j
    BY <1>3, <2>1, TextTypesNext, PeekIs DEF TextTypeOK
  <2>3. /\ DOMAIN tokens = 1..Len(tokens) /\ DOMAIN tokens' = 1..(Len(tokens) + 1)
        /\ \A k \in 1..Len(tokens) : tokens'[k] = tokens[k]
        /\ tokens'[Len(tokens) + 1] = [type |-> type, from |-> at, to |-> j - 1, line |-> line']
        /\ Len(tokens) \in Nat
    BY <2>1, <2>2, NewToken
  <2>4. \A k \in Lexemes' : (k \in Lexemes /\ tokens'[k] = tokens[k]) \/ k = Len(tokens) + 1
    BY <2>3 DEF Lexemes
  <2>5. /\ IsA(type, SubSeq(text, at, j - 1))
        /\ \A m \in j..Len(text) : ~\E t \in LexemeType : IsA(t, SubSeq(text, at, m))
    BY <2>1, FoundIsLongest
  <2> DEFINE Longest(t) ==
               /\ IsA(t.type, SubSeq(text, t.from, t.to))
               /\ \A m \in (t.to + 1)..Len(text) :
                    ~\E e \in LexemeType : IsA(e, SubSeq(text, t.from, m))
  <2>6. Longest(tokens'[Len(tokens) + 1])
    BY <2>2, <2>3, <2>5
  <2>7. \A k \in Lexemes : Longest(tokens[k])
    BY DEF LongestMatch, LexemeType
  <2> HIDE DEF Longest
  <2>8. \A k \in Lexemes' : Longest(tokens'[k])
    BY <2>4, <2>6, <2>7
  <2> QED BY <1>3, <2>8 DEF LongestMatch, LexemeType, Longest
<1>4. CASE text' = text /\ ScanEnd
  <2>1. tokens' = Append(tokens, [type |-> "eof", from |-> at, to |-> at - 1, line |-> line])
    BY <1>4 DEF ScanEnd
  <2>2. line \in Nat /\ at \in at..(Len(text) + 1)
    BY PeekIs DEF TextTypeOK
  <2>3. /\ DOMAIN tokens = 1..Len(tokens) /\ DOMAIN tokens' = 1..(Len(tokens) + 1)
        /\ \A k \in 1..Len(tokens) : tokens'[k] = tokens[k]
        /\ tokens'[Len(tokens) + 1].type = "eof" /\ Len(tokens) \in Nat
    BY <2>1, <2>2, NewToken
  <2>4. \A k \in Lexemes' : k \in Lexemes /\ tokens'[k] = tokens[k]
    BY <2>3 DEF Lexemes
  <2> QED BY <1>4, <2>4 DEF LongestMatch
<1>5. CASE UNCHANGED tokenVars
  BY <1>2, <1>5 DEF tokenVars
<1> QED BY <1>1, <1>2, <1>3, <1>4, <1>5, TextSteps DEF Steps, Skips, GivesUp

-----------------------------------------------------------------------------
(* The tokenizer of Braces, which read the text before, and the tokens: the *)
(* states it was in are a history of the text.                              *)

LEMMA IntervalInduction ==
  ASSUME NEW a \in Int, NEW b \in Int, NEW S, a \in S, \A k \in a..(b - 1) : k \in S => k + 1 \in S
  PROVE  \A k \in a..b : k \in S
<1> DEFINE T == {n \in Nat : a + n <= b => a + n \in S}
<1>1. 0 \in T /\ T \in SUBSET Nat
  OBVIOUS
<1>2. ASSUME NEW n \in T PROVE n + 1 \in T
  <2>1. n \in Nat /\ (a + n <= b => a + n \in S) /\ a + (n + 1) = (a + n) + 1
    OBVIOUS
  <2>2. ASSUME a + (n + 1) <= b PROVE a + (n + 1) \in S
    <3>1. a + n \in a..(b - 1) /\ a + n <= b
      BY <2>1, <2>2
    <3> QED BY <2>1, <3>1
  <2> QED BY <2>1, <2>2
<1> HIDE DEF T
<1>3. T = Nat
  BY <1>1, <1>2, SetInduction
<1>4. ASSUME NEW k \in a..b PROVE k \in S
  <2>1. k - a \in Nat /\ a + (k - a) = k /\ k <= b
    OBVIOUS
  <2>2. k - a \in T
    BY <1>3, <2>1
  <2> QED BY <2>1, <2>2 DEF T
<1> QED BY <1>4

RunOf(run) ==
  /\ run \in [0..Len(text) -> TokenizerState]
  /\ run[0] = Start /\ run[Len(text)] = tokenizer
  /\ \A i \in 1..Len(text) : run[i] = ScanToken(run[i - 1], Class(text[i]))

\* The state the tokenizer is in between two tokens.
Between(s) ==
  \/ s.in = "code"
  \/ s.in = "slash" /\ Peek(at) # "slash"
  \/ s.in = "comment" /\ Peek(at) \in {"newline", "end"}

LEMMA ClassIs ==
  /\ \A c : Class(c) \in Char
  /\ \A c : c \in Char => Class(c) = c
  /\ \A c : c \notin Char => Class(c) = "other"
BY Zenon DEF Class, Char

\* The braces, by name.
Open  == "{"
Close == "}"

LEMMA ClassOther ==
  /\ \A c \in Letter \cup Digit \cup Comparison \cup {".", " "} : Class(c) = "other"
  /\ \A c \in Operators : c \in {Open, Close, "slash"} \/ Class(c) = "other"
<1>1. \A c \in Letter \cup Digit \cup Comparison \cup {".", " "} : c \notin Char
  BY ZenonT(60) DEF Letter, Digit, Comparison, Char
<1>2. \A c \in Operators : c \in {Open, Close, "slash"} \/ c \notin Char
  BY ZenonT(60) DEF Operators, Single, Arithmetic, Comparison, Char, Open, Close
<1> QED BY <1>1, <1>2, ClassIs, Zenon

LEMMA ClassBraces == Class(Open) = Open /\ Class(Close) = Close
<1>1. Open \in Char /\ Close \in Char
  BY Zenon DEF Char, Open, Close
<1> QED BY <1>1, ClassIs, Zenon

LEMMA ClassSelf ==
  /\ Class("quote") = "quote" /\ Class("slash") = "slash" /\ Class("newline") = "newline"
<1>1. "quote" \in Char /\ "slash" \in Char /\ "newline" \in Char
  BY Zenon DEF Char
<1> QED BY <1>1, ClassIs, Zenon

At(i, n) == [in |-> i, net |-> n]

LEMMA CodeMoves ==
  ASSUME NEW s, s \in TokenizerState, s.in \in {"code", "slash"}
  PROVE  /\ ScanToken(s, "other") = At("code", s.net)
         /\ ScanToken(s, "newline") = At("code", s.net)
         /\ ScanToken(s, "quote") = At("string", s.net)
         /\ ScanToken(s, "slash") = IF s.in = "slash" THEN At("comment", s.net) ELSE At("slash", s.net)
<1>1. \A c : c # "backslash" => ScanToken(s, c) = ReadCode(s, c)
  BY DEF ScanToken
<1>2. \A c : c # "slash" => ReadCode(s, c) = At(InCode(c), Net(s, c))
  BY DEF ReadCode, At
<1>3. /\ InCode("other") = "code" /\ InCode("newline") = "code" /\ InCode("quote") = "string"
      /\ InCode("slash") = "slash"
  BY DEF InCode
<1>4. /\ Net(s, "other") = s.net /\ Net(s, "newline") = s.net /\ Net(s, "quote") = s.net
      /\ Net(s, "slash") = s.net
  BY DEF Net
<1>7. ReadCode(s, "slash") = IF s.in = "slash" THEN At("comment", s.net) ELSE At("slash", s.net)
  <2>1. CASE s.in = "slash"
    <3>1. ReadCode(s, "slash") = [s EXCEPT !.in = "comment"]
      BY <2>1 DEF ReadCode
    <3>2. [s EXCEPT !.in = "comment"] = At("comment", s.net)
      BY DEF At, TokenizerState
    <3> QED BY <2>1, <3>1, <3>2
  <2>2. CASE s.in # "slash"
    BY <1>3, <1>4, <2>2 DEF ReadCode, At
  <2> QED BY <2>1, <2>2
<1>8. /\ "other" # "backslash" /\ "newline" # "backslash" /\ "quote" # "backslash"
      /\ "slash" # "backslash"
      /\ "other" # "slash" /\ "newline" # "slash" /\ "quote" # "slash"
  OBVIOUS
<1> QED BY <1>1, <1>2, <1>3, <1>4, <1>7, <1>8, Zenon

LEMMA BraceMoves ==
  ASSUME NEW s, s.in \in {"code", "slash"}
  PROVE  /\ ScanToken(s, Open) = At("code", s.net + 1)
         /\ ScanToken(s, Close) = At("code", s.net - 1)
<1>1. \A c : c # "backslash" => ScanToken(s, c) = ReadCode(s, c)
  BY DEF ScanToken
<1>2. \A c : c # "slash" => ReadCode(s, c) = At(InCode(c), Net(s, c))
  BY DEF ReadCode, At
<1>3. InCode(Open) = "code" /\ InCode(Close) = "code"
  BY DEF InCode, Open, Close
<1>4. Net(s, Open) = s.net + 1
  BY DEF Net, Open
<1>5. Net(s, Close) = s.net - 1
  BY DEF Net, Open, Close
<1>6. Open # "backslash" /\ Close # "backslash" /\ Open # "slash" /\ Close # "slash"
  BY DEF Open, Close
<1> QED BY <1>1, <1>2, <1>3, <1>4, <1>5, <1>6, Zenon

LEMMA HiddenMoves ==
  ASSUME NEW n
  PROVE  /\ \A c : c # "quote" => ScanToken(At("string", n), c) = At("string", n)
         /\ ScanToken(At("string", n), "quote") = At("code", n)
         /\ \A c : c # "newline" => ScanToken(At("comment", n), c) = At("comment", n)
         /\ ScanToken(At("comment", n), "newline") = At("code", n)
<1>1. \A i, k : [At(i, n) EXCEPT !.in = k] = At(k, n)
  BY DEF At
<1>2. \A i : At(i, n).in = i
  BY DEF At
<1>3. \A c : ScanToken(At("string", n), c)
               = [At("string", n) EXCEPT !.in = IF c = "quote" THEN "code" ELSE "string"]
  BY <1>2 DEF ScanToken
<1>4. \A c : ScanToken(At("comment", n), c)
               = [At("comment", n) EXCEPT !.in = IF c = "newline" THEN "code" ELSE "comment"]
  BY <1>2 DEF ScanToken
<1> QED BY <1>1, <1>3, <1>4

\* Where no character moves the tokenizer it stays what it is.
LEMMA RunStays ==
  ASSUME TextTypeOK, NEW run, RunOf(run), NEW s,
         NEW a \in Nat, NEW b \in Nat, a <= b, b <= Len(text),
         run[a] = s, \A k \in (a + 1)..b : ScanToken(s, Class(text[k])) = s
  PROVE  run[b] = s
<1> DEFINE S == {k \in Int : run[k] = s}
<1>1. a \in S /\ Len(text) \in Nat
  BY PeekIs
<1>2. ASSUME NEW k \in a..(b - 1), k \in S PROVE k + 1 \in S
  <2>1. k + 1 \in 1..Len(text) /\ k + 1 \in (a + 1)..b /\ (k + 1) - 1 = k
    BY <1>1
  <2>2. run[k + 1] = ScanToken(run[k], Class(text[k + 1]))
    BY <2>1 DEF RunOf
  <2> QED BY <1>2, <2>1, <2>2
<1>3. b \in a..b
  OBVIOUS
<1> HIDE DEF S
<1>4. b \in S
  <2>1. a \in Int /\ b \in Int
    OBVIOUS
  <2>2. \A k \in a..b : k \in S
    BY <1>1, <1>2, <2>1, IntervalInduction
  <2> QED BY <1>3, <2>2
<1> QED BY <1>4 DEF S

\* What one brace, or another character, adds to the count.
Change(c) == IF c = Open THEN 1 ELSE IF c = Close THEN -1 ELSE 0

LEMMA ChangeBraces == Change(Open) = 1 /\ Change(Close) = -1
BY DEF Change, Open, Close

LEMMA ChangeIs ==
  /\ Change("slash") = 0 /\ Change("quote") = 0
  /\ \A c : Class(c) = "other" => Change(c) = 0
<1>1. Change("slash") = 0 /\ Change("quote") = 0
  BY DEF Change, Open, Close
<1>2. ASSUME NEW c, Class(c) = "other" PROVE Change(c) = 0
  <2>1. Open # "other" /\ Close # "other"
    BY DEF Open, Close
  <2>2. c # Open /\ c # Close
    BY <1>2, <2>1, ClassBraces, Zenon
  <2> QED BY <2>2 DEF Change
<1> QED BY <1>1, <1>2

LEMMA RunMoves ==
  ASSUME TextTypeOK, NEW run, RunOf(run), NEW i \in 1..Len(text)
  PROVE  /\ run[i] = ScanToken(run[i - 1], Class(text[i]))
         /\ run[i - 1] \in TokenizerState /\ run[i - 1].net \in Int
<1>1. i - 1 \in 0..Len(text)
  BY PeekIs
<1>2. run[i - 1] \in TokenizerState
  BY <1>1 DEF RunOf
<1> QED BY <1>2 DEF RunOf, TokenizerState

LEMMA TokenReads ==
  ASSUME TextTypeOK, NEW run, RunOf(run), Between(run[at - 1]),
         NEW j \in (at + 1)..(Len(text) + 1), NEW type, LexemeTo(type, j)
  PROVE  /\ run[j - 1].net = run[at - 1].net + Change(text[at])
         /\ \/ run[j - 1].in = "code"
            \/ run[j - 1].in = "slash" /\ Peek(j) # "slash"
<1> DEFINE s == run[at - 1]
           n == s.net
<1>1. /\ at \in 1..Len(text) /\ Len(text) \in Nat /\ C = text[at] /\ Peek(at) = text[at]
      /\ text[at] # "end"
  BY PeekIs
<1>2. run[at] = ScanToken(s, Class(text[at])) /\ s \in TokenizerState /\ n \in Int
  BY <1>1, RunMoves
<1>3. \A i, k : At(i, k).in = i /\ At(i, k).net = k
  BY DEF At
<1>4. text[at] # "newline" => s.in \in {"code", "slash"} /\ (s.in = "slash" => text[at] # "slash")
  BY <1>1 DEF Between
<1>10. j = at + 1 => j - 1 = at
  BY <1>1
<1> HIDE DEF s, n
<1>5. ASSUME text[at] # "newline", \A k \in at..(j - 1) : Class(text[k]) = "other"
      PROVE  run[j - 1] = At("code", n) /\ Change(text[at]) = 0
  <2>1. at \in at..(j - 1) /\ at <= j - 1 /\ j - 1 <= Len(text) /\ j - 1 \in Nat
    BY <1>1
  <2>2. run[at] = At("code", n)
    BY <1>2, <1>4, <1>5, <2>1, CodeMoves DEF n
  <2>3. At("code", n) \in TokenizerState
    BY <1>2 DEF At, TokenizerState, In
  <2>4. ScanToken(At("code", n), "other") = At("code", n)
    <3>1. At("code", n).in \in {"code", "slash"}
      BY <1>3
    <3> QED BY <1>3, <2>3, <3>1, CodeMoves
  <2>5. \A k \in (at + 1)..(j - 1) : ScanToken(At("code", n), Class(text[k])) = At("code", n)
    <3>1. \A k \in (at + 1)..(j - 1) : k \in at..(j - 1)
      BY <1>1
    <3> QED BY <1>5, <2>4, <3>1
  <2>6. run[j - 1] = At("code", n)
    <3>1. at \in Nat
      BY <1>1
    <3> QED BY <2>1, <2>2, <2>5, <3>1, RunStays
  <2> QED BY <1>5, <2>1, <2>6, ChangeIs
<1>6. CASE OperatorTo(j)
  <2>1. text[at] \in Operators /\ text[at] # "newline"
    BY <1>1, <1>6, OperatorsAreNothingElse DEF OperatorTo, Blank
  <2>2. CASE j = at + 2 /\ C \in Comparison /\ Peek(at + 1) = "="
    <3>1. at + 1 \in 1..Len(text) /\ text[at + 1] = "="
      BY <1>1, <2>2, PeekIs
    <3>2. "=" \in Comparison
      BY DEF Comparison
    <3>3. \A k \in at..(j - 1) : k = at \/ k = at + 1
      BY <1>1, <2>2
    <3>4. \A k \in at..(j - 1) : Class(text[k]) = "other"
      BY <1>1, <2>2, <3>1, <3>2, <3>3, ClassOther
    <3> QED BY <1>2, <1>3, <1>5, <2>1, <3>4 DEF n, s
  <2>3. CASE j = at + 1 /\ Class(text[at]) = "other"
    <3>1. \A k \in at..(j - 1) : k = at
      BY <1>1, <2>3
    <3> QED BY <1>2, <1>3, <1>5, <2>1, <2>3, <3>1 DEF n, s
  <2>4. CASE j = at + 1 /\ text[at] \in {Open, Close, "slash"}
    <3>1. j - 1 = at
      BY <1>10, <2>4, Zenon
    <3>2. s.in \in {"code", "slash"} /\ (s.in = "slash" => text[at] # "slash")
      BY <1>4, <2>1
    <3>6. ScanToken(s, Open) = At("code", s.net + 1) /\ ScanToken(s, Close) = At("code", s.net - 1)
      BY <3>2, BraceMoves
    <3>3. CASE text[at] = Open
      <4>1. Class(text[at]) = Open
        BY <3>3, ClassBraces, Zenon
      <4>4. run[at] = At("code", n + 1)
        BY <1>2, <3>6, <4>1 DEF n
      <4>2. Change(text[at]) = 1
        BY <3>3, ChangeBraces, Zenon
      <4> QED BY <1>2, <1>3, <3>1, <4>4, <4>2 DEF n, s
    <3>4. CASE text[at] = Close
      <4>1. Class(text[at]) = Close
        BY <3>4, ClassBraces, Zenon
      <4>4. run[at] = At("code", n - 1)
        BY <1>2, <3>6, <4>1 DEF n
      <4>2. Change(text[at]) = -1
        BY <3>4, ChangeBraces, Zenon
      <4> QED BY <1>2, <1>3, <3>1, <4>4, <4>2 DEF n, s
    <3>5. CASE text[at] = "slash"
      <4>1. Class(text[at]) = "slash" /\ Change(text[at]) = 0
        BY <3>5, ClassSelf, ChangeIs, Zenon
      <4>2. run[at] = At("slash", n)
        BY <1>2, <3>2, <3>5, <4>1, CodeMoves DEF n
      <4>3. Peek(j) # "slash"
        BY <1>1, <1>6, <2>4, <3>5 DEF OperatorTo
      <4> QED BY <1>2, <1>3, <3>1, <4>1, <4>2, <4>3 DEF n, s
    <3> QED BY <2>4, <3>3, <3>4, <3>5, Zenon
  <2> QED BY <1>6, <2>1, <2>2, <2>3, <2>4, ClassOther, Zenon DEF OperatorTo
<1>7. CASE StringTo(j)
  <2>1. /\ at + 1 < j /\ text[at] = "quote" /\ text[j - 1] = "quote"
        /\ \A k \in (at + 1)..(j - 2) : text[k] # "quote"
    BY <1>7 DEF StringTo
  <2>2. /\ j - 1 \in 1..Len(text) /\ (j - 1) - 1 = j - 2 /\ j - 2 \in Nat /\ at \in Nat
        /\ at <= j - 2 /\ j - 2 <= Len(text)
    BY <1>1, <2>1
  <2>3. run[at] = At("string", n)
    BY <1>2, <1>4, <2>1, ClassSelf, CodeMoves DEF n
  <2>4. \A k \in (at + 1)..(j - 2) : ScanToken(At("string", n), Class(text[k])) = At("string", n)
    <3>1. \A c : c # "quote" => Class(c) # "quote"
      <4>1. "other" # "quote"
        OBVIOUS
      <4> QED BY <4>1, ClassIs, Zenon
    <3> QED BY <2>1, <3>1, HiddenMoves
  <2>5. run[j - 2] = At("string", n)
    BY <2>2, <2>3, <2>4, RunStays
  <2>6. run[j - 1] = ScanToken(run[j - 2], Class("quote"))
    BY <2>1, <2>2, RunMoves
  <2>7. run[j - 1] = At("code", n)
    BY <2>5, <2>6, ClassSelf, HiddenMoves
  <2>8. Change(text[at]) = 0
    BY <2>1, ChangeIs
  <2> QED BY <1>2, <1>3, <2>7, <2>8 DEF n, s
<1>8. CASE \E d \in Nat : NumberTo(j, d)
  <2>1. PICK d \in Nat : NumberTo(j, d)
    BY <1>8
  <2>2. NumberAt(j - 1)
    BY <2>1, NumberLongest
  <2>3. at \in at..(j - 1) /\ \A d2 \in (at + 1)..(j - 1) : at # d2
    BY <1>1
  <2>4. \A k \in at..(j - 1) : text[k] \in Digit \/ text[k] = "."
    BY <2>2 DEF NumberAt
  <2>5. text[at] \in Digit
    BY <1>1, <2>1, <2>3 DEF NumberTo
  <2>6. text[at] # "newline"
    BY <2>5, CharactersDiffer
  <2>7. \A k \in at..(j - 1) : Class(text[k]) = "other"
    BY <2>4, ClassOther
  <2> QED BY <1>2, <1>3, <1>5, <2>6, <2>7 DEF n, s
<1>9. CASE WordTo(j)
  <2>1. text[at] \in Letter /\ \A k \in at..(j - 1) : text[k] \in Letter \cup Digit
    BY <1>9 DEF WordTo
  <2>2. text[at] # "newline"
    BY <2>1, CharactersDiffer
  <2>3. \A k \in at..(j - 1) : Class(text[k]) = "other"
    BY <2>1, ClassOther
  <2> QED BY <1>2, <1>3, <1>5, <2>2, <2>3 DEF n, s
<1> QED BY <1>6, <1>7, <1>8, <1>9 DEF LexemeTo

LEMMA SkipReads ==
  ASSUME TextTypeOK, NEW run, RunOf(run), Between(run[at - 1]),
         NEW j \in (at + 1)..(Len(text) + 1), CommentTo(j) \/ BlankTo(j)
  PROVE  /\ run[j - 1].net = run[at - 1].net
         /\ \/ run[j - 1].in = "code"
            \/ run[j - 1].in = "comment" /\ Peek(j) \in {"newline", "end"}
<1> DEFINE s == run[at - 1]
           n == s.net
<1>1. at \in 1..Len(text) /\ Len(text) \in Nat /\ Peek(at) = text[at] /\ text[at] # "end"
  BY PeekIs
<1>2. run[at] = ScanToken(s, Class(text[at])) /\ s \in TokenizerState /\ n \in Int
  BY <1>1, RunMoves
<1>3. \A i, k : At(i, k).in = i /\ At(i, k).net = k
  BY DEF At
<1>4. /\ s.in \in {"code", "slash"} \/ (s.in = "comment" /\ text[at] = "newline")
      /\ s.in = "slash" => text[at] # "slash"
  BY <1>1 DEF Between
<1> HIDE DEF s, n
<1>5. CASE BlankTo(j)
  <2>1. j - 1 = at /\ text[at] \in {" ", "newline"}
    <3>1. j = at + 1 /\ text[at] \in Blank
      BY <1>5 DEF BlankTo
    <3>2. j - 1 = at
      BY <1>1, <3>1
    <3>3. text[at] \in {" ", "newline"}
      BY <3>1 DEF Blank
    <3> QED BY <3>2, <3>3
  <2>2. run[at] = At("code", n)
    <3>1. CASE s.in \in {"code", "slash"}
      BY <1>2, <2>1, <3>1, ClassSelf, ClassOther, CodeMoves DEF n
    <3>2. CASE s.in = "comment" /\ text[at] = "newline"
      <4>1. s = At("comment", n)
        BY <1>2, <3>2 DEF n, At, TokenizerState
      <4> QED BY <1>2, <3>2, <4>1, ClassSelf, HiddenMoves
    <3> QED BY <1>4, <3>1, <3>2
  <2>3. run[j - 1].in = "code" /\ run[j - 1].net = n
    <3>1. run[j - 1] = At("code", n)
      BY <2>1, <2>2
    <3> QED BY <1>3, <3>1
  <2>4. n = run[at - 1].net
    BY DEF n, s
  <2> QED BY <2>3, <2>4
<1>6. CASE CommentTo(j)
  <2>1. /\ at + 1 < j /\ text[at] = "slash" /\ text[at + 1] = "slash"
        /\ \A k \in at..(j - 1) : text[k] # "newline"
        /\ Peek(j) \in {"newline", "end"}
    BY <1>6 DEF CommentTo
  <2>2. s.in = "code"
    BY <1>4, <2>1
  <2>3. run[at] = At("slash", n)
    BY <1>2, <2>1, <2>2, ClassSelf, CodeMoves DEF n
  <2>4. at + 1 \in 1..Len(text) /\ (at + 1) - 1 = at
    BY <1>1, <2>1
  <2>5. run[at + 1] = ScanToken(At("slash", n), "slash")
    BY <2>1, <2>3, <2>4, RunMoves, ClassSelf
  <2>6. At("slash", n) \in TokenizerState
    BY <1>2 DEF At, TokenizerState, In
  <2>7. run[at + 1] = At("comment", n)
    <3>1. At("slash", n).in = "slash" /\ At("slash", n).net = n
      BY <1>3
    <3>2. At("slash", n).in \in {"code", "slash"}
      BY <3>1
    <3> QED BY <2>5, <2>6, <3>1, <3>2, CodeMoves
  <2>8. at + 1 \in Nat /\ j - 1 \in Nat /\ at + 1 <= j - 1 /\ j - 1 <= Len(text)
    BY <1>1, <2>1
  <2>9. \A k \in ((at + 1) + 1)..(j - 1) : ScanToken(At("comment", n), Class(text[k])) = At("comment", n)
    <3>1. \A c : c # "newline" => Class(c) # "newline"
      <4>1. "other" # "newline"
        OBVIOUS
      <4> QED BY <4>1, ClassIs, Zenon
    <3>2. \A k \in ((at + 1) + 1)..(j - 1) : k \in at..(j - 1)
      BY <1>1
    <3> QED BY <2>1, <3>1, <3>2, HiddenMoves
  <2>10. run[j - 1] = At("comment", n)
    BY <2>7, <2>8, <2>9, RunStays
  <2> QED BY <1>3, <2>1, <2>10 DEF n, s
<1> QED BY <1>5, <1>6

-----------------------------------------------------------------------------
(* How many tokens begin with one character.                                *)

Beginning(c) == {k \in Lexemes : text[tokens[k].from] = c}

LEMMA OpeningIs ==
  /\ Opening = Cardinality(Beginning(Open)) /\ Closing = Cardinality(Beginning(Close))
  /\ Opening' = Cardinality(Beginning(Open)') /\ Closing' = Cardinality(Beginning(Close)')
BY Zenon DEF Opening, Closing, Beginning, Open, Close

LEMMA BeginningIs ==
  ASSUME TextTypeOK
  PROVE  \A c : IsFiniteSet(Beginning(c)) /\ Cardinality(Beginning(c)) \in Nat
<1> SUFFICES ASSUME NEW c PROVE IsFiniteSet(Beginning(c))
  BY FS_CardinalityType
<1>1. DOMAIN tokens = 1..Len(tokens) /\ Len(tokens) \in Nat
  BY LenProperties DEF TextTypeOK
<1>2. IsFiniteSet(1..Len(tokens))
  BY <1>1, FS_Interval
<1>3. Beginning(c) \in SUBSET (1..Len(tokens))
  BY <1>1 DEF Beginning, Lexemes
<1> QED BY <1>2, <1>3, FS_Subset

LEMMA OneMore ==
  ASSUME TextTypeOK, TextTypeOK', text' = text, NEW j, NEW type, Finds(type, j), NEW c
  PROVE  Cardinality(Beginning(c)') = Cardinality(Beginning(c)) + (IF text[at] = c THEN 1 ELSE 0)
<1> DEFINE n == Len(tokens)
<1>1. /\ at' = j /\ j \in (at + 1)..(Len(text) + 1) /\ type \in LexemeType
      /\ tokens' = Append(tokens, [type |-> type, from |-> at, to |-> j - 1, line |-> line'])
  BY DEF Finds, Reads
<1>2. at \in Nat /\ Len(text) \in Nat /\ line' \in Nat /\ type # "eof" /\ j \in at..(Len(text) + 1)
  BY <1>1, PeekIs DEF TextTypeOK, LexemeType
<1>3. /\ DOMAIN tokens = 1..n /\ DOMAIN tokens' = 1..(n + 1) /\ n \in Nat
      /\ \A k \in 1..n : tokens'[k] = tokens[k]
      /\ tokens'[n + 1] = [type |-> type, from |-> at, to |-> j - 1, line |-> line']
  BY <1>1, <1>2, NewToken
<1> HIDE DEF n
<1>4. Lexemes' = Lexemes \cup {n + 1} /\ n + 1 \notin Lexemes
  <2>1. \A k \in 1..(n + 1) : k \in 1..n \/ k = n + 1
    BY <1>3
  <2>2. n + 1 \in 1..(n + 1) /\ n + 1 \notin 1..n /\ \A k \in 1..n : k \in 1..(n + 1)
    BY <1>3
  <2>3. tokens'[n + 1].type = type
    BY <1>3
  <2> QED BY <1>2, <1>3, <2>1, <2>2, <2>3 DEF Lexemes
<1>5. /\ \A k \in Lexemes : tokens'[k].from = tokens[k].from
      /\ tokens'[n + 1].from = at
  <2>1. \A k \in Lexemes : k \in 1..n
    BY <1>3 DEF Lexemes
  <2> QED BY <1>3, <2>1
<1>6. n + 1 \notin Beginning(c)
  BY <1>4 DEF Beginning
<1>7. CASE text[at] = c
  <2>1. Beginning(c)' = Beginning(c) \cup {n + 1}
    BY <1>4, <1>5, <1>7 DEF Beginning
  <2>2. Cardinality(Beginning(c) \cup {n + 1}) = Cardinality(Beginning(c)) + 1
    BY <1>6, BeginningIs, FS_AddElement
  <2> QED BY <1>7, <2>1, <2>2
<1>8. CASE text[at] # c
  <2>1. Beginning(c)' = Beginning(c)
    BY <1>4, <1>5, <1>8 DEF Beginning
  <2> QED BY <1>8, <2>1, BeginningIs
<1> QED BY <1>7, <1>8

Reached(run) == run[at - 1].net = Opening - Closing /\ Between(run[at - 1])
CountInv ==
  /\ \E run : RunOf(run) /\ (phase # "threw" => Reached(run))
  /\ phase = "scanned" => at = Len(text) + 1

LEMMA CountToken ==
  ASSUME TextTypeOK, TextTypeOK', text' = text, NEW run, RunOf(run), Reached(run),
         NEW j, NEW type, Finds(type, j)
  PROVE  Reached(run)'
<1>1. /\ at' = j /\ j \in (at + 1)..(Len(text) + 1) /\ LexemeTo(type, j)
  BY DEF Finds, Reads
<1>2. run[at - 1].net = Opening - Closing /\ Between(run[at - 1])
  BY DEF Reached
<1>3. /\ run[j - 1].net = run[at - 1].net + Change(text[at])
      /\ run[j - 1].in = "code" \/ (run[j - 1].in = "slash" /\ Peek(j) # "slash")
  BY <1>1, <1>2, TokenReads
<1>4. Opening' = Opening + (IF text[at] = Open THEN 1 ELSE 0) /\ Opening \in Nat
  BY OpeningIs, BeginningIs, OneMore
<1>5. Closing' = Closing + (IF text[at] = Close THEN 1 ELSE 0) /\ Closing \in Nat
  BY OpeningIs, BeginningIs, OneMore
<1>6. Open # Close
  BY DEF Open, Close
<1>7. Opening' - Closing' = (Opening - Closing) + Change(text[at])
  BY <1>4, <1>5, <1>6 DEF Change
<1>8. Between(run[j - 1])'
  BY <1>1, <1>3 DEF Between, Peek
<1> QED BY <1>1, <1>2, <1>3, <1>7, <1>8 DEF Reached

\* As long as the tokens and the text are the same, so are the counts.
LEMMA CountSame ==
  ASSUME text' = text, Lexemes' = Lexemes, \A k \in Lexemes : tokens'[k].from = tokens[k].from
  PROVE  Opening' = Opening /\ Closing' = Closing
<1>1. \A c : Beginning(c)' = Beginning(c)
  BY DEF Beginning
<1> QED BY <1>1, OpeningIs

LEMMA RunSame ==
  ASSUME text' = text, tokenizer' = tokenizer, NEW run, RunOf(run)
  PROVE  RunOf(run)'
BY DEF RunOf, Class

LEMMA CountInit == TextInit => CountInv
<1> SUFFICES ASSUME TextInit PROVE CountInv
  OBVIOUS
<1>1. TextTypeOK
  BY TextTypesInit
<1>2. Len(text) = 0 /\ at = 1 /\ tokens = <<>> /\ tokenizer = Start /\ phase = "typing"
  BY DEF TextInit, Init
<1> DEFINE run == [i \in 0..0 |-> Start]
<1>3. Start \in TokenizerState /\ Start.in = "code" /\ Start.net = 0
  BY DEF Start, TokenizerState, In
<1>4. RunOf(run)
  BY <1>2, <1>3 DEF RunOf
<1>5. Opening = 0 /\ Closing = 0
  <2>1. \A c : Beginning(c) = {}
    BY <1>2 DEF Beginning, Lexemes
  <2> QED BY <2>1, OpeningIs, FS_EmptySet
<1>6. run[at - 1] = Start
  BY <1>2
<1> HIDE DEF run
<1>7. Reached(run)
  BY <1>3, <1>5, <1>6 DEF Reached, Between
<1> QED BY <1>2, <1>4, <1>7 DEF CountInv

\* A character more is a state more.
LEMMA RunGrows ==
  ASSUME TextTypeOK, NEW c \in alphabet, Read(Class(c)), text' = Append(text, c),
         UNCHANGED <<phase, at, line, tokens>>, phase = "typing",
         NEW run, RunOf(run), Reached(run)
  PROVE  \E longer : RunOf(longer)' /\ Reached(longer)'
<1> DEFINE n == Len(text)
           all == [i \in 0..(n + 1) |-> IF i \in 0..n THEN run[i] ELSE tokenizer']
<1>1. /\ n \in Nat /\ Len(text') = n + 1 /\ text'[n + 1] = c /\ text \in Seq(alphabet)
      /\ \A i \in 1..n : text'[i] = text[i]
  BY PeekIs DEF TextTypeOK
<1>2. /\ \A i \in 0..n : run[i] \in TokenizerState
      /\ run[0] = Start /\ run[n] = tokenizer
      /\ \A i \in 1..n : run[i] = ScanToken(run[i - 1], Class(text[i]))
  BY DEF RunOf
<1>3. tokenizer' = ScanToken(tokenizer, Class(c)) /\ tokenizer' \in TokenizerState
  <2>1. tokenizer' = ScanToken(tokenizer, Class(c))
    BY DEF Read
  <2>2. tokenizer \in TokenizerState /\ Class(c) \in Char
    <3>1. n \in 0..n
      BY <1>1
    <3> QED BY <1>2, <3>1, ClassIs
  <2> QED BY <2>1, <2>2, ScanTokenType
<1> HIDE DEF n
<1>4. PICK longer :
      /\ \A i \in 0..n : longer[i] = run[i]
      /\ longer[n + 1] = tokenizer'
      /\ longer \in [0..(n + 1) -> TokenizerState]
  <2>1. n + 1 \in 0..(n + 1) /\ n + 1 \notin 0..n /\ \A i \in 0..n : i \in 0..(n + 1)
    BY <1>1
  <2>2. /\ \A i \in 0..n : all[i] = run[i]
        /\ all[n + 1] = tokenizer'
        /\ all \in [0..(n + 1) -> TokenizerState]
    BY <1>2, <1>3, <2>1
  <2> QED BY <2>2
<1>5. \A i \in 1..(n + 1) : longer[i] = ScanToken(longer[i - 1], Class(text'[i]))
  <2> SUFFICES ASSUME NEW i \in 1..(n + 1)
               PROVE  longer[i] = ScanToken(longer[i - 1], Class(text'[i]))
    OBVIOUS
  <2>1. i - 1 \in 0..n
    BY <1>1
  <2>2. CASE i \in 1..n
    <3>1. i \in 0..n
      BY <1>1, <2>2
    <3> QED BY <1>1, <1>2, <1>4, <2>1, <2>2, <3>1
  <2>3. CASE i = n + 1
    <3>1. i - 1 = n /\ n \in 0..n
      BY <1>1, <2>3
    <3>2. longer[i] = ScanToken(tokenizer, Class(c)) /\ longer[i - 1] = tokenizer /\ text'[i] = c
      BY <1>1, <1>2, <1>3, <1>4, <2>3, <3>1
    <3> QED BY <3>2
  <2> QED BY <1>1, <2>2, <2>3
<1>6. longer[0] = Start
  <2>1. 0 \in 0..n
    BY <1>1
  <2> QED BY <1>2, <1>4, <2>1
<1>7. RunOf(longer)'
  BY <1>1, <1>4, <1>5, <1>6 DEF RunOf, Class, n
<1>8. Opening' = 0 /\ Closing' = 0
  <2>1. \A u : Beginning(u)' = {}
    BY DEF Beginning, Lexemes, TextTypeOK
  <2> QED BY <2>1, OpeningIs, FS_EmptySet
<1>9. Reached(longer)'
  <2>1. at' = 1 /\ at' - 1 = 0
    BY DEF TextTypeOK
  <2>2. Start.in = "code" /\ Start.net = 0
    BY DEF Start
  <2> QED BY <1>6, <1>8, <2>1, <2>2 DEF Reached, Between
<1> QED BY <1>7, <1>9

LEMMA CountNext ==
  ASSUME TextTypeOK, CountInv, [TextNext]_tokenVars
  PROVE  CountInv'
<1>0. TextTypeOK'
  BY TextTypesNext
<1>1. PICK run : RunOf(run) /\ (phase # "threw" => Reached(run))
  BY DEF CountInv
<1>2. ASSUME text' = text, UNCHANGED vars, phase' \notin {"threw", "scanned"}, Reached(run)' PROVE CountInv'
  BY <1>1, <1>2, RunSame DEF CountInv, vars
<1>3. ASSUME phase = "typing", NEW c \in alphabet, Read(Class(c)), text' = Append(text, c),
             UNCHANGED <<phase, at, line, tokens>>
      PROVE  CountInv'
  BY <1>1, <1>3, RunGrows DEF CountInv
<1>4. ASSUME text' = text, UNCHANGED vars, phase = "typing", phase' = "scanning", UNCHANGED <<at, line, tokens>>
      PROVE  CountInv'
  <2>1. Lexemes' = Lexemes /\ Opening' = Opening /\ Closing' = Closing
    BY <1>4, CountSame DEF Lexemes
  <2>2. Reached(run)'
    BY <1>1, <1>4, <2>1 DEF Reached, Between, Peek
  <2> QED BY <1>2, <1>4, <2>2
<1>5. ASSUME text' = text, UNCHANGED vars, phase = "scanning", NEW j, NEW type, Finds(type, j)
      PROVE  CountInv'
  <2>1. phase' = "scanning"
    BY <1>5 DEF Finds
  <2>2. Reached(run)'
    BY <1>0, <1>1, <1>5, CountToken
  <2> QED BY <1>2, <1>5, <2>1, <2>2
<1>6. ASSUME text' = text, UNCHANGED vars, phase = "scanning", NEW j, Skips(j)
      PROVE  CountInv'
  <2>1. /\ phase' = "scanning" /\ at' = j /\ tokens' = tokens
        /\ j \in (at + 1)..(Len(text) + 1) /\ (CommentTo(j) \/ BlankTo(j))
    BY <1>6 DEF Skips, Reads
  <2>2. Lexemes' = Lexemes /\ Opening' = Opening /\ Closing' = Closing
    BY <1>6, <2>1, CountSame DEF Lexemes
  <2>3. Reached(run)
    BY <1>1, <1>6
  <2>4. /\ run[j - 1].net = run[at - 1].net
        /\ run[j - 1].in = "code" \/ (run[j - 1].in = "comment" /\ Peek(j) \in {"newline", "end"})
    BY <1>1, <2>1, <2>3, SkipReads DEF Reached
  <2>5. Reached(run)'
    BY <1>6, <2>1, <2>2, <2>3, <2>4 DEF Reached, Between, Peek
  <2> QED BY <1>2, <1>6, <2>1, <2>5
<1>7. ASSUME text' = text, UNCHANGED vars, phase = "scanning", GivesUp PROVE CountInv'
  BY <1>1, <1>7, RunSame DEF CountInv, GivesUp, vars
<1>8. ASSUME text' = text, UNCHANGED vars, ScanEnd PROVE CountInv'
  <2>1. /\ at' = at /\ phase = "scanning" /\ phase' = "scanned" /\ at > Len(text)
        /\ tokens' = Append(tokens, [type |-> "eof", from |-> at, to |-> at - 1, line |-> line])
    BY <1>8 DEF ScanEnd, AtEnd
  <2>2. line \in Nat /\ at \in at..(Len(text) + 1) /\ at = Len(text) + 1
    BY <2>1, PeekIs DEF TextTypeOK
  <2>3. /\ DOMAIN tokens = 1..Len(tokens) /\ DOMAIN tokens' = 1..(Len(tokens) + 1)
        /\ \A k \in 1..Len(tokens) : tokens'[k] = tokens[k]
        /\ tokens'[Len(tokens) + 1].type = "eof" /\ Len(tokens) \in Nat
    BY <2>1, <2>2, NewToken
  <2>4. Lexemes' = Lexemes /\ \A k \in Lexemes : tokens'[k].from = tokens[k].from
    <3>1. \A k \in 1..(Len(tokens) + 1) : k \in 1..Len(tokens) \/ k = Len(tokens) + 1
      BY <2>3
    <3>2. \A k \in 1..Len(tokens) : k \in 1..(Len(tokens) + 1)
      BY <2>3
    <3> QED BY <2>3, <3>1, <3>2 DEF Lexemes
  <2>5. Opening' = Opening /\ Closing' = Closing
    BY <1>8, <2>4, CountSame
  <2>6. Reached(run)'
    BY <1>1, <1>8, <2>1, <2>5 DEF Reached, Between, Peek
  <2> QED BY <1>1, <1>8, <2>1, <2>2, <2>6, RunSame DEF CountInv, vars
<1>9. CASE UNCHANGED tokenVars
  <2>1. UNCHANGED <<tokenizer, text, phase, at, tokens>>
    BY <1>9 DEF tokenVars, vars
  <2>2. Lexemes' = Lexemes /\ Opening' = Opening /\ Closing' = Closing
    BY <2>1, CountSame DEF Lexemes
  <2>3. Reached(run) => Reached(run)'
    BY <2>1, <2>2 DEF Reached, Between, Peek
  <2> QED BY <1>1, <2>1, <2>3, RunSame DEF CountInv
<1> QED BY <1>3, <1>4, <1>5, <1>6, <1>7, <1>8, <1>9, TextSteps DEF Steps

LEMMA CountIs ==
  ASSUME TextTypeOK, CountInv
  PROVE  BraceTokensAreCounted
<1> SUFFICES ASSUME phase = "scanned"
             PROVE  Opening - Closing = tokenizer.net /\ tokenizer.in \notin {"failed", "string"}
  BY DEF BraceTokensAreCounted
<1>1. PICK run : RunOf(run) /\ Reached(run)
  BY DEF CountInv
<1>2. at - 1 = Len(text)
  BY PeekIs DEF CountInv
<1>3. run[at - 1] = tokenizer
  BY <1>1, <1>2 DEF RunOf
<1> QED BY <1>1, <1>3 DEF Reached, Between

-----------------------------------------------------------------------------
(* The tokenizer as a whole.                                                *)

TokensInv ==
  /\ TextTypeOK
  /\ CoverInv
  /\ LineIsRight /\ LinesAreRight
  /\ LongestMatch
  /\ CountInv

LEMMA TokensInductive ==
  /\ TextInit => TokensInv
  /\ TokensInv /\ [TextNext]_tokenVars => TokensInv'
<1>1. ASSUME TextInit PROVE TokensInv
  <2>1. tokens = <<>> /\ at = 1 /\ line = 1
    BY <1>1 DEF TextInit
  <2>2. NewLines(1, 0) = 0
    BY NewLinesNone
  <2>3. LineIsRight /\ LinesAreRight /\ LongestMatch
    BY <2>1, <2>2 DEF LineIsRight, LinesAreRight, LongestMatch, Lexemes
  <2> QED BY <1>1, <2>1, <2>3, TextTypesInit, CoverEmpty, CountInit DEF TokensInv
<1>2. ASSUME TokensInv, [TextNext]_tokenVars PROVE TokensInv'
  BY <1>2, TextTypesNext, CoverNext, LinesNext, LongestNext, CountNext DEF TokensInv
<1> QED BY <1>1, <1>2

\* What Braces says of two scanners holds of every text the tokenizer is given.
THEOREM TextsAreRead == TextSpec => Spec
<1>1. TextInit => Init
  BY DEF TextInit
<1>2. [TextNext]_tokenVars => [Next]_vars
  <2>1. ASSUME \E c \in alphabet : TypeCharacter(c) PROVE Next
    BY <2>1, ClassIs DEF TypeCharacter, Next
  <2>2. ASSUME Tokenize \/ (ScanTokens /\ UNCHANGED <<vars, alphabet, text>>) \/ UNCHANGED tokenVars
        PROVE  UNCHANGED vars
    BY <2>2 DEF Tokenize, tokenVars
  <2> QED BY <2>1, <2>2 DEF TextNext
<1> QED BY <1>1, <1>2, PTL DEF TextSpec, Spec

\* Every character that is read is in a token, blank or in a comment, and in one of
\* them only, whatever the text: no character is lost.
THEOREM NothingIsDropped == TextSpec => []NothingDropped
<1>1. TokensInv => NothingDropped
  BY CoverIs DEF TokensInv
<1> QED BY <1>1, TokensInductive, PTL DEF TextSpec

\* The line of every token is the line its last character is on.
THEOREM LinesAreAlwaysRight == TextSpec => []LinesAreRight
<1>1. TokensInv => LinesAreRight
  BY DEF TokensInv
<1> QED BY <1>1, TokensInductive, PTL DEF TextSpec

\* A token is of the type the language gives its characters, and none that begins
\* where it does is longer.
THEOREM TokensAreLongest == TextSpec => []LongestMatch
<1>1. TokensInv => LongestMatch
  BY DEF TokensInv
<1> QED BY <1>1, TokensInductive, PTL DEF TextSpec

\* The brace tokens are those that Braces counts, so that what it says of netBraces
\* is said of the tokens.
THEOREM BracesAreTokens == TextSpec => []BraceTokensAreCounted
<1>1. TokensInv => BraceTokensAreCounted
  BY CountIs DEF TokensInv
<1> QED BY <1>1, TokensInductive, PTL DEF TextSpec
=============================================================================
