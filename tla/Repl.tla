-------------------------------- MODULE Repl --------------------------------
(***************************************************************************)
(* Shell::run: how lines become the statements that processLine is given.  *)
(* Lines are collected until their braces balance and, after an if that    *)
(* may still get an else, for one line more; a line typed inside a block   *)
(* is checked first and skipped when the block so far would be wrong.      *)
(*                                                                         *)
(* A line is a sequence of tokens of the grammar of statements: "if" is    *)
(* the head of an if with its condition, "for" the head of a for, "stmt" a *)
(* whole simple statement, "undef" one that reads a name nobody declared,  *)
(* "bad" something no statement begins with.                               *)
(***************************************************************************)
EXTENDS Integers, Sequences, FiniteSets, SequencesExt

CONSTANTS TypedLines, \* the lines a user may type (sequences of tokens)
          MaxTokens   \* bound: a line is typed only while fewer were collected

Token  == {"{", "}", "if", "else", "for", "stmt", "undef", "bad"}

ASSUME ReplAssumption == TypedLines \subseteq Seq(Token) /\ MaxTokens \in Nat

VARIABLES
  accumulated, \* the tokens collected
  depth,       \* depth
  pendingElse, \* pendingElse
  open,        \* is the loop still reading?
  handed,      \* history: what processLine was given in the last turn, or <<>>
  committed,   \* history: was that because of a blank line or the end of input?
  skipped      \* history: the line the pre-check skipped in the last turn, or <<>>

vars == <<accumulated, depth, pendingElse, open, handed, committed, skipped>>

-----------------------------------------------------------------------------
(* Parser::statement as far as it decides where statements end: a stack of  *)
(* what is open.  "if" waits for its branch, "else?" has it and may take an *)
(* else, "else" and "for" wait for theirs, "{" is an open block.            *)

Error == <<"error">>
TopIs(s, x) == s # <<>> /\ Last(s) = x
\* How much is left of a stack under everything on top that is in xs.
Below(s, xs) ==
  CHOOSE k \in 0..Len(s) :
    (k > 0 => s[k] \notin xs) /\ \A i \in (k + 1)..Len(s) : s[i] \in xs

\* A statement is complete: so are the for and the else it was the body of.
Complete(s) ==
  LET k == Below(s, {"for", "else"})
  IN  IF k > 0 /\ s[k] = "if" THEN [SubSeq(s, 1, k) EXCEPT ![k] = "else?"] ELSE SubSeq(s, 1, k)

\* No else follows: the ifs that could have taken it are complete, and with each what it
\* is a branch or a body of, up to the innermost block.
Settle(s) ==
  IF TopIs(s, "else?") THEN SubSeq(s, 1, Below(s, {"if", "else?", "else", "for"})) ELSE s

Advance(s, token) ==
  IF s = Error THEN Error
  ELSE CASE token \in {"if", "for", "{"}           -> Append(Settle(s), token)
         [] token \in {"stmt", "undef"}            -> Complete(Settle(s))
         [] token = "else" /\ TopIs(s, "else?")    -> [s EXCEPT ![Len(s)] = "else"]
         [] token = "}" /\ TopIs(Settle(s), "{")   -> Complete(Front(Settle(s)))
         [] OTHER                                  -> Error

\* Parser::parse: what is open when the tokens end.
Parse[tokens \in Seq(Token)] ==
  LET after[i \in 0..Len(tokens)] ==
        IF i = 0 THEN <<>> ELSE Advance(after[i - 1], tokens[i])
  IN  after[Len(tokens)]
Parses(tokens) == LET s == Parse[tokens] IN s # Error /\ Settle(s) = <<>>

\* Mutant of HasPendingElse: only the first if of a chain is looked at.
HasNoElse(tokens) == Parses(tokens) /\ Parse[tokens] # <<>> /\ Parse[tokens][1] \in {"if", "else?"}

\* hasPendingElse of the last statement: the chain of else branches ends in an
\* if that has none.
HasPendingElse(tokens) ==
  /\ Parses(tokens)
  /\ LET s == Parse[tokens] IN
     \E i \in DOMAIN s : s[i] \in {"if", "else?"} /\ \A j \in 1..(i - 1) : s[j] = "else"

-----------------------------------------------------------------------------
(* The helpers of run().                                                    *)

Places(x, line)   == {i \in DOMAIN line : line[i] = x}
Occurs(x, line)   == Cardinality(Places(x, line))
NetBraces(line)   == Occurs("{", line) - Occurs("}", line)
Closing(n)        == IF n <= 0 THEN <<>> ELSE [i \in 1..n |-> "}"]

NewDepth(line) == IF depth + NetBraces(line) <= 0 THEN 0 ELSE depth + NetBraces(line)

\* The pre-check: parse what there is with the missing braces, and check it in
\* strict mode.
Candidate(line)  == accumulated \o line \o Closing(depth + NetBraces(line))
\* Mutant of Prechecked: a line that opens a block is let through.
PrecheckedInside(line) == line # <<>> /\ line[1] # "}" /\ depth > 0

Prechecked(line) == line # <<>> /\ line[1] # "}" /\ (depth > 0 \/ NetBraces(line) > 0)
PrecheckFails(line) ==
  ~Parses(Candidate(line)) \/ "undef" \in {Candidate(line)[i] : i \in DOMAIN Candidate(line)}

HandOver(tokens, why) ==
  /\ handed' = tokens /\ committed' = why
  /\ accumulated' = <<>>
NothingHanded == handed' = <<>> /\ committed' = FALSE

Typing == open /\ Len(accumulated) < MaxTokens

-----------------------------------------------------------------------------
(* One turn of the loop.                                                    *)

\* What follows the loop: text that is left over is run.
LeaveLoop(text) ==
  /\ open' = FALSE
  /\ skipped' = <<>>
  /\ IF text # <<>> THEN HandOver(text, TRUE)
                    ELSE accumulated' = <<>> /\ NothingHanded

\* quit or exit: what was typed of a block is discarded, at any depth.
Quit ==
  /\ open
  /\ IF depth > 0 \/ pendingElse
     THEN LeaveLoop(<<>>) /\ depth' = 0 /\ pendingElse' = FALSE
     ELSE LeaveLoop(accumulated) /\ UNCHANGED <<depth, pendingElse>>

\* A blank line settles a pending if.
\* Mutant of BlankSettles: pendingElse is not reset.
BlankStaysPending ==
  /\ open /\ pendingElse
  /\ HandOver(accumulated, TRUE)
  /\ skipped' = <<>>
  /\ UNCHANGED <<depth, open, pendingElse>>

BlankSettles ==
  /\ open /\ pendingElse
  /\ HandOver(accumulated, TRUE)
  /\ pendingElse' = FALSE
  /\ skipped' = <<>>
  /\ UNCHANGED <<depth, open>>

\* The pre-check fails: this line is skipped, the block stays.
\* Mutant of SkipLine: the braces of the skipped line are counted.
SkipLineCounted(line) ==
  /\ Typing /\ ~(pendingElse /\ line = <<>>)
  /\ Prechecked(line) /\ PrecheckFails(line)
  /\ depth' = depth + NetBraces(line)
  /\ skipped' = line /\ NothingHanded
  /\ UNCHANGED <<accumulated, pendingElse, open>>

SkipLine(line) ==
  /\ Typing /\ ~(pendingElse /\ line = <<>>)
  /\ Prechecked(line) /\ PrecheckFails(line)
  /\ skipped' = line /\ NothingHanded
  /\ UNCHANGED <<accumulated, depth, pendingElse, open>>

Collect(line) ==
  /\ Typing /\ ~(pendingElse /\ line = <<>>)
  /\ ~(Prechecked(line) /\ PrecheckFails(line))
  /\ depth' = NewDepth(line)
  /\ LET tokens == accumulated \o line IN
     IF depth' <= 0
     THEN /\ pendingElse' = HasPendingElse(tokens)
          /\ IF HasPendingElse(tokens)
             THEN /\ accumulated' = tokens
                  /\ NothingHanded
             ELSE /\ HandOver(tokens, FALSE)
     ELSE /\ pendingElse' = FALSE
          /\ accumulated' = tokens
          /\ NothingHanded
  /\ skipped' = <<>>
  /\ UNCHANGED open

EndOfInput ==
  /\ open
  /\ LeaveLoop(accumulated)
  /\ UNCHANGED <<depth, pendingElse>>

Closed == ~open /\ UNCHANGED vars

Init ==
  /\ accumulated = <<>> /\ depth = 0 /\ pendingElse = FALSE
  /\ open = TRUE
  /\ handed = <<>> /\ committed = FALSE /\ skipped = <<>>

Next == \/ Quit \/ BlankSettles \/ EndOfInput \/ Closed
        \/ \E line \in TypedLines : SkipLine(line) \/ Collect(line)

Spec == Init /\ [][Next]_vars

-----------------------------------------------------------------------------
(* Properties.                                                              *)

\* depth is the number of braces the collected text still has open, whatever was
\* skipped, clamped at 0 or discarded on the way.
DepthIsOpenBraces == open => depth = NetBraces(accumulated)

\* Text waits to be run for exactly two reasons: an open brace or a possible else.
WaitsForAReason ==
  open => (accumulated # <<>> <=> depth > 0 \/ pendingElse)

\* A chain of ifs is not run while an else on the next line could still belong to
\* it, and nothing else waits (Shell.cpp, "else can come on the next line").  The
\* reference is the grammar: would the text with an else parse?  A for whose body
\* ends in an if is not waited for by the code.
TakesElse(tokens) == Parses(tokens) /\ Parses(tokens \o <<"else", "stmt">>)
NeverCutsAnIf ==
  /\ ~committed /\ Occurs("for", handed) = 0 => ~TakesElse(handed)
  /\ open /\ pendingElse => TakesElse(accumulated)

\* Lines that start with a brace are not pre-checked.  Until one of them spoils the
\* block, it can always be completed by typing the missing braces.
Spoilt == open /\ ~Parses(accumulated \o Closing(depth))
OnlyClosingLinesSpoil ==
  [][~Spoilt /\ Spoilt' =>
       \E line \in TypedLines :
         /\ line # <<>> /\ line[1] = "}"
         /\ accumulated' = accumulated \o line]_vars
=============================================================================
