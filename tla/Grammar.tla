------------------------------ MODULE Grammar ------------------------------
(***************************************************************************)
(* The parser (assembler/Parser.cpp).  A text is typed word by word, and   *)
(* after each word the parser is run on all of it.                         *)
(*                                                                         *)
(* One operator is one method: given what is left of the tokens it returns *)
(* what is left behind it and the tree, or fails and leaves the token that *)
(* the message names in front.  P is the parser itself, for the calls.     *)
(***************************************************************************)
EXTENDS Integers, Sequences, SequencesExt, TLC

CONSTANT Alphabets \* bound: [words, most]: texts of that many of these words
ASSUME AlphabetsAssumption ==
  \A a \in Alphabets : a.words \subseteq STRING /\ a.most \in Nat

VARIABLES
  alphabet, \* the words of the text
  words,    \* what was typed
  result    \* what Parser::parse returns for it

vars == <<alphabet, words, result>>

TypeNames == {"int"}        \* statement(): names of types,
Aliases   == {"let"}        \* and of keywords of other languages
Ident     == {"x"} \cup TypeNames \cup Aliases
Literals  == {"1", "true"}

Tree(kind, tok, kids) == [kind |-> kind, tok |-> tok, kids |-> kids, params |-> <<>>]
None                  == Tree("absent", "", <<>>)

-----------------------------------------------------------------------------
(* peek, check, match, consume, error.                                      *)

Peek(rest)       == IF rest = <<>> THEN "eof" ELSE Head(rest)
Got(rest, tree)  == [ok |-> TRUE, rest |-> rest, tree |-> tree]
Fail(rest)       == [ok |-> FALSE, rest |-> rest, tree |-> None]
Then(r, Go(_, _)) == IF r.ok THEN Go(r.rest, r.tree) ELSE r

\* A call of a method; "left" is what a loop has built so far.
Do(method, rest)         == [do |-> method, rest |-> rest, left |-> None]
Loop(method, rest, left) == [do |-> method, rest |-> rest, left |-> left]

\* consume, once for every set of tokens.
Consume(sets, rest, Go(_)) ==
  LET wrong == SelectInSeq([k \in DOMAIN sets |-> k <= Len(rest) /\ rest[k] \in sets[k]],
                           LAMBDA good : ~good)
  IN  IF wrong = 0 THEN Go(SubSeq(rest, Len(sets) + 1, Len(rest)))
                   ELSE Fail(SubSeq(rest, wrong, Len(rest)))
Consumed(token, rest, tree) == Consume(<<{token}>>, rest, LAMBDA r : Got(r, tree))

\* A part that may be missing: it is there unless the token behind it follows.
Maybe(P, token, method, rest, nothing) ==
  IF Peek(rest) = token THEN Got(rest, nothing) ELSE P[Loop(method, rest, nothing)]

-----------------------------------------------------------------------------
(* Expressions.                                                             *)

\* Mutant of Assignment: a right-hand side that fails is given back.
AssignmentBacktracks(P, rest) ==
  Then(P[Do("or", rest)], LAMBDA r, left :
    IF Peek(r) = "=" /\ left.kind = "variable"
    THEN LET value == P[Do("expression", Tail(r))] IN
         IF value.ok THEN Got(value.rest, Tree("assign", left.tok, <<value.tree>>)) ELSE Got(r, left)
    ELSE Got(r, left))

Assignment(P, rest) ==
  Then(P[Do("or", rest)], LAMBDA r, left :
    IF Peek(r) # "=" THEN Got(r, left)
    ELSE Then(P[Do("expression", Tail(r))], LAMBDA r2, value :
      CASE left.kind = "variable" -> Got(r2, Tree("assign", left.tok, <<value>>))
        [] left.kind = "index"    -> Got(r2, Tree("indexAssign", "", Append(left.kids, value)))
        [] OTHER                  -> Fail(r)))

\* logicalOr to factor: the operators of a level, and the level of their operands.
Level == [or         |-> [ops |-> {"or"},                 of |-> "and"],
          and        |-> [ops |-> {"and"},                of |-> "equality"],
          equality   |-> [ops |-> {"!=", "=="},           of |-> "comparison"],
          comparison |-> [ops |-> {">", ">=", "<", "<="}, of |-> "term"],
          term       |-> [ops |-> {"+", "-"},             of |-> "factor"],
          factor     |-> [ops |-> {"*", "/", "%"},        of |-> "unary"]]

\* Mutant of BinaryLeft: operators of one level group from the right.
BinaryRight(P, level, rest, left) ==
  IF Peek(rest) \notin Level[level].ops THEN Got(rest, left)
  ELSE Then(P[Do(level, Tail(rest))], LAMBDA r, right :
    Got(r, Tree(IF level \in {"or", "and"} THEN "logical" ELSE "binary", Peek(rest), <<left, right>>)))

\* The loop of parseBinaryLeft.
BinaryLeft(P, level, rest, left) ==
  IF Peek(rest) \notin Level[level].ops THEN Got(rest, left)
  ELSE Then(P[Do(Level[level].of, Tail(rest))], LAMBDA r, right :
    P[Loop(level, r, Tree(IF level \in {"or", "and"} THEN "logical" ELSE "binary",
                          Peek(rest), <<left, right>>))])

Binary(P, level, rest, left) ==
  IF left = None THEN Then(P[Do(Level[level].of, rest)], LAMBDA r, first : BinaryLeft(P, level, r, first))
                 ELSE BinaryLeft(P, level, rest, left)

Unary(P, rest) ==
  IF Peek(rest) \notin {"!", "-"} THEN P[Do("call", rest)]
  ELSE Then(P[Do("unary", Tail(rest))], LAMBDA r, operand : Got(r, Tree("unary", Peek(rest), <<operand>>)))

\* The loop of call, and finishCall.
CallSuffixes(P, rest, left) ==
  CASE Peek(rest) = "(" ->
         Then(Maybe(P, ")", "arguments", Tail(rest), <<>>), LAMBDA r, args :
           Consume(<<{")"}>>, r, LAMBDA r2 : P[Loop("suffixes", r2, Tree("call", "", <<left>> \o args))]))
    [] Peek(rest) = "[" ->
         Then(P[Do("expression", Tail(rest))], LAMBDA r, index :
           Consume(<<{"]"}>>, r, LAMBDA r2 : P[Loop("suffixes", r2, Tree("index", "", <<left, index>>))]))
    [] OTHER -> Got(rest, left)

\* The elements of a list, separated by commas.
Arguments(P, rest, args) ==
  Then(P[Do("expression", rest)], LAMBDA r, arg :
    IF Peek(r) = "," THEN P[Loop("arguments", Tail(r), Append(args, arg))] ELSE Got(r, Append(args, arg)))

Primary(P, rest) ==
  CASE Peek(rest) \in Literals -> Got(Tail(rest), Tree("literal", Peek(rest), <<>>))
    [] Peek(rest) \in Ident    -> Got(Tail(rest), Tree("variable", Peek(rest), <<>>))
    [] Peek(rest) = "("        ->
         Then(P[Do("expression", Tail(rest))], LAMBDA r, inner : Consumed(")", r, Tree("grouping", "", <<inner>>)))
    [] OTHER                   -> Fail(rest)

-----------------------------------------------------------------------------
(* Statements: "rest" is what follows the keyword.                          *)

FunctionDeclaration(P, rest) ==
  Consume(<<Ident, {"("}>>, rest, LAMBDA r :
    Then(Maybe(P, ")", "parameters", r, <<>>), LAMBDA r2, params :
      Consume(<<{")"}, {"{"}>>, r2, LAMBDA r3 :
        Then(P[Loop("statements", r3, <<>>)], LAMBDA r4, body :
          Consumed("}", r4, [Tree("func", Peek(rest), body) EXCEPT !.params = params])))))

\* Mutant of Parameters: the last one is lost.
ParametersButLast(P, rest, params) ==
  Consume(<<Ident>>, rest, LAMBDA r :
    IF Peek(r) = "," THEN P[Loop("parameters", Tail(r), Append(params, Peek(rest)))] ELSE Got(r, params))

Parameters(P, rest, params) ==
  Consume(<<Ident>>, rest, LAMBDA r :
    LET all == Append(params, Peek(rest)) IN
    IF Peek(r) = "," THEN P[Loop("parameters", Tail(r), all)] ELSE Got(r, all))

ReturnStatement(P, rest) ==
  Then(Maybe(P, ";", "expression", rest, None), LAMBDA r, value :
    Consumed(";", r, Tree("return", "", IF value = None THEN <<>> ELSE <<value>>)))

VarDeclaration(P, rest) ==
  Consume(<<Ident>>, rest, LAMBDA r :
    IF Peek(r) # "=" THEN Consumed(";", r, Tree("var", Peek(rest), <<>>))
    ELSE Then(P[Do("expression", Tail(r))], LAMBDA r2, value :
           Consumed(";", r2, Tree("var", Peek(rest), <<value>>))))

ExpressionStatement(P, rest) ==
  Then(P[Do("expression", rest)], LAMBDA r, e : Consumed(";", r, Tree("exprStmt", "", <<e>>)))

Initializer(P, rest) ==
  CASE Peek(rest) = ";"   -> Got(Tail(rest), None)
    [] Peek(rest) = "var" -> VarDeclaration(P, Tail(rest))
    [] OTHER              -> ExpressionStatement(P, rest)

ForStatement(P, rest) ==
  Consume(<<{"("}>>, rest, LAMBDA r :
    Then(Initializer(P, r), LAMBDA r2, init :
      Then(Maybe(P, ";", "expression", r2, None), LAMBDA r3, cond :
        Consume(<<{";"}>>, r3, LAMBDA r4 :
          Then(Maybe(P, ")", "expression", r4, None), LAMBDA r5, incr :
            Consume(<<{")"}>>, r5, LAMBDA r6 :
              Then(P[Do("statement", r6)], LAMBDA r7, body :
                Got(r7, Tree("for", "", <<init, cond, incr, body>>)))))))))

IfStatement(P, rest) ==
  Consume(<<{"("}>>, rest, LAMBDA r :
    Then(P[Do("expression", r)], LAMBDA r2, cond :
      Consume(<<{")"}>>, r2, LAMBDA r3 :
        Then(P[Do("statement", r3)], LAMBDA r4, then :
          IF Peek(r4) # "else" THEN Got(r4, Tree("if", "", <<cond, then>>))
          ELSE Then(P[Do("statement", Tail(r4))], LAMBDA r5, else :
                 Got(r5, Tree("if", "", <<cond, then, else>>)))))))

PrintStatement(P, rest) ==
  Then(P[Do("expression", rest)], LAMBDA r, e : Consumed(";", r, Tree("print", "", <<e>>)))

\* The loops of parse, block and functionDeclaration.
Statements(P, rest, list) ==
  IF Peek(rest) \in {"}", "eof"} THEN Got(rest, list)
  ELSE Then(P[Do("statement", rest)], LAMBDA r, s : P[Loop("statements", r, Append(list, s))])

Block(P, rest) ==
  Then(P[Loop("statements", rest, <<>>)], LAMBDA r, list : Consumed("}", r, Tree("block", "", list)))

\* Mutant of Statement: no word is refused.
StatementTrusting(P, rest) ==
  LET first == Peek(rest) IN
  CASE first = "func"   -> FunctionDeclaration(P, Tail(rest))
    [] first = "return" -> ReturnStatement(P, Tail(rest))
    [] first = "for"    -> ForStatement(P, Tail(rest))
    [] first = "if"     -> IfStatement(P, Tail(rest))
    [] first = "print"  -> PrintStatement(P, Tail(rest))
    [] first = "var"    -> VarDeclaration(P, Tail(rest))
    [] first = "{"      -> Block(P, Tail(rest))
    [] OTHER            -> ExpressionStatement(P, rest)

Statement(P, rest) ==
  LET first == Peek(rest) IN
  CASE first = "func"   -> FunctionDeclaration(P, Tail(rest))
    [] first = "return" -> ReturnStatement(P, Tail(rest))
    [] first = "for"    -> ForStatement(P, Tail(rest))
    [] first = "if"     -> IfStatement(P, Tail(rest))
    [] first = "print"  -> PrintStatement(P, Tail(rest))
    [] first = "var"    -> VarDeclaration(P, Tail(rest))
    [] first = "{"      -> Block(P, Tail(rest))
    [] first \in TypeNames /\ Peek(Tail(rest)) \in Ident -> Fail(rest)
    [] first \in Aliases \cup {"}"} -> Fail(rest)
    [] OTHER            -> ExpressionStatement(P, rest)

-----------------------------------------------------------------------------
Parser[c \in Any] ==
  CASE c.do = "statements" -> Statements(Parser, c.rest, c.left)
    [] c.do = "statement"  -> Statement(Parser, c.rest)
    [] c.do = "parameters" -> Parameters(Parser, c.rest, c.left)
    [] c.do = "expression" -> Assignment(Parser, c.rest)
    [] c.do \in DOMAIN Level -> Binary(Parser, c.do, c.rest, c.left)
    [] c.do = "unary"      -> Unary(Parser, c.rest)
    [] c.do = "call"       -> Then(Primary(Parser, c.rest), LAMBDA r, e : CallSuffixes(Parser, r, e))
    [] c.do = "suffixes"   -> CallSuffixes(Parser, c.rest, c.left)
    [] c.do = "arguments"  -> Arguments(Parser, c.rest, c.left)

\* Parser::parse: a closing brace between statements is an error.
ParseAll(tokens) ==
  Then(Parser[Loop("statements", tokens, <<>>)], LAMBDA r, list :
    IF r = <<>> THEN Got(r, list) ELSE Fail(r))

\* hasPendingElse (Shell.cpp).
HasPendingElse[s \in Any] ==
  s.kind = "if" /\ (Len(s.kids) = 2 \/ HasPendingElse[s.kids[3]])

-----------------------------------------------------------------------------
(* A text.  The alphabet of Repl spells whole parts of statements.          *)

R == INSTANCE Repl WITH TypedLines <- {}, MaxTokens <- 0, accumulated <- words, depth <- 0,
       pendingElse <- FALSE, open <- TRUE, handed <- <<>>, committed <- FALSE, skipped <- <<>>

Spelling == [if |-> <<"if", "(", "x", ")">>, for |-> <<"for", "(", ";", ";", ")">>,
             stmt |-> <<"x", ";">>, undef |-> <<"print", "x", ";">>, bad |-> <<")">>]
Spelled(w) == IF alphabet.words = R!Token /\ w \in DOMAIN Spelling THEN Spelling[w] ELSE <<w>>
Tokens     == FlattenSeq([i \in DOMAIN words |-> Spelled(words[i])])

\* Words are typed as long as the text may still become a program.
Type(w) ==
  /\ Len(words) < alphabet.most /\ (result.ok \/ result.rest = <<>>)
  /\ words' = Append(words, w)
  /\ result' = ParseAll(Tokens \o Spelled(w))
  /\ UNCHANGED alphabet

Init == alphabet \in Alphabets /\ words = <<>> /\ result = ParseAll(<<>>)
Next == \E w \in alphabet.words : Type(w)
Spec == Init /\ [][Next]_vars

-----------------------------------------------------------------------------
(* The reference: the grammar as it is written in books, and the sentences  *)
(* of every length that it has.                                             *)

Names   == {<<w>> : w \in Ident}
Infix   == [or |-> 1, and |-> 2] @@ ("==" :> 3 @@ "!=" :> 3 @@ "<" :> 4 @@ "<=" :> 4 @@ ">" :> 4 @@ ">=" :> 4
           @@ "+" :> 5 @@ "-" :> 5 @@ "*" :> 6 @@ "/" :> 6 @@ "%" :> 6)

\* Left to right, such that a rule with one symbol refers to an earlier one.
Rules == <<
  <<"Name",      Names>>,
  <<"Target",    Names \cup {<<"Suffixed", "[", "Expr", "]">>}>>,
  <<"Suffixed",  Names \cup {<<t>> : t \in Literals}
                 \cup {<<"(", "Expr", ")">>, <<"Suffixed", "(", "Args", ")">>, <<"Suffixed", "[", "Expr", "]">>}>>,
  <<"Operand",   {<<"Suffixed">>, <<"!", "Operand">>, <<"-", "Operand">>}
                 \cup {<<"Operand", op, "Operand">> : op \in DOMAIN Infix}>>,
  <<"Expr",      {<<"Operand">>, <<"Target", "=", "Expr">>}>>,
  <<"Option",    {<<>>, <<"Expr">>}>>,
  <<"List",      {<<"Expr">>, <<"Expr", ",", "List">>}>>,
  <<"Args",      {<<>>, <<"List">>}>>,
  <<"NameList",  {<<"Name">>, <<"Name", ",", "NameList">>}>>,
  <<"Params",    {<<>>, <<"NameList">>}>>,
  <<"Var",       {<<"var", "Name", ";">>, <<"var", "Name", "=", "Expr", ";">>}>>,
  <<"First",     {<<";">>, <<"Var">>, <<"Expr", ";">>}>>,
  <<"Statement", {<<"Expr", ";">>, <<"print", "Expr", ";">>, <<"Var">>, <<"return", "Option", ";">>,
                  <<"{", "Program", "}">>, <<"if", "(", "Expr", ")", "Statement">>,
                  <<"if", "(", "Expr", ")", "Statement", "else", "Statement">>,
                  <<"for", "(", "First", "Option", ";", "Option", ")", "Statement">>,
                  <<"func", "Name", "(", "Params", ")", "{", "Program", "}">>}>>,
  <<"Program",   {<<>>, <<"Statement", "Program">>}>> >>
Symbols == {Rules[i][1] : i \in DOMAIN Rules}

\* What a sequence of symbols yields with n tokens of T; "of" has the sentences of every
\* symbol by length.
Yield(T, of, symbols, n) ==
  LET Y[k \in 0..Len(symbols), m \in 0..n] ==
        CASE k = Len(symbols) -> IF m = 0 THEN {<<>>} ELSE {}
          [] k < Len(symbols) /\ symbols[k + 1] \in Symbols ->
               UNION {{a \o b : a \in of[symbols[k + 1]][i], b \in Y[k + 1, m - i]} : i \in 0..m}
          [] OTHER -> IF m = 0 \/ symbols[k + 1] \notin T THEN {} ELSE {<<symbols[k + 1]>> \o b : b \in Y[k + 1, m - 1]}
  IN  Y[0, n]

\* No statement begins with a word of another language.
Allowed(symbol, s) == symbol = "Statement" => s[1] \notin Aliases

\* The sentences of n tokens, symbol by symbol in the order of Rules.
WithLength(T, of, n) ==
  LET Add(known, rule) ==
        [known EXCEPT ![rule[1]][n] =
           {s \in UNION {Yield(T, known, symbols, n) : symbols \in rule[2]} : Allowed(rule[1], s)}]
  IN  FoldLeft(LAMBDA known, rule : CHOOSE next \in {Add(k, rule) : k \in {known}} : TRUE, of, Rules)
Sentences(T, max) ==
  LET empty == [x \in Symbols |-> [n \in 0..max |-> {}]]
  IN  UNION Range(FoldLeft(LAMBDA of, n : CHOOSE next \in {WithLength(T, o, n) : o \in {of}} : TRUE,
                           empty, [i \in 1..(max + 1) |-> i - 1])["Program"])
Language == [a \in Alphabets |-> IF a.words = R!Token THEN {} ELSE Sentences(a.words, a.most)]
Beginnings == [a \in Alphabets |-> UNION {{SubSeq(s, 1, k) : k \in 1..Len(s)} : s \in Language[a]}]

-----------------------------------------------------------------------------
(* Properties.                                                              *)

Plain == alphabet.words # R!Token

\* The parser accepts exactly the programs of the grammar.
AcceptsTheGrammar == Plain => (result.ok <=> Tokens \in Language[alphabet])

\* An error at a token is final: no program begins with the text that was typed up to the
\* moment it is found.  (At the end of the text it may only be unfinished.)
ErrorsAreFinal ==
  Plain /\ ~result.ok /\ result.rest # <<>> => Tokens \notin Beginnings[alphabet]

\* The tokens a tree stands for: nothing is lost, doubled or exchanged.
Joined(seqs) == FoldLeft(LAMBDA a, b : IF a = <<>> THEN b ELSE a \o <<",">> \o b, <<>>, seqs)
Text[t \in Any] ==
  LET K(i)    == Text[t.kids[i]]
      Rest(n) == [i \in 1..(Len(t.kids) - n) |-> K(i + n)]
  IN CASE t.kind = "absent"                  -> <<>>
       [] t.kind \in {"literal", "variable"} -> <<t.tok>>
       [] t.kind = "grouping"                -> <<"(">> \o K(1) \o <<")">>
       [] t.kind = "unary"                   -> <<t.tok>> \o K(1)
       [] t.kind \in {"binary", "logical"}   -> K(1) \o <<t.tok>> \o K(2)
       [] t.kind = "call"                    -> K(1) \o <<"(">> \o Joined(Rest(1)) \o <<")">>
       [] t.kind = "index"                   -> K(1) \o <<"[">> \o K(2) \o <<"]">>
       [] t.kind = "assign"                  -> <<t.tok, "=">> \o K(1)
       [] t.kind = "indexAssign"             -> K(1) \o <<"[">> \o K(2) \o <<"]", "=">> \o K(3)
       [] t.kind = "exprStmt"                -> K(1) \o <<";">>
       [] t.kind = "print"                   -> <<"print">> \o K(1) \o <<";">>
       [] t.kind = "return"                  -> <<"return">> \o FlattenSeq(Rest(0)) \o <<";">>
       [] t.kind = "var" -> <<"var", t.tok>> \o (IF t.kids = <<>> THEN <<>> ELSE <<"=">> \o K(1)) \o <<";">>
       [] t.kind = "block"                   -> <<"{">> \o FlattenSeq(Rest(0)) \o <<"}">>
       [] t.kind = "if" -> <<"if", "(">> \o K(1) \o <<")">> \o K(2)
                           \o (IF Len(t.kids) = 2 THEN <<>> ELSE <<"else">> \o K(3))
       [] t.kind = "for" -> <<"for", "(">> \o (IF t.kids[1] = None THEN <<";">> ELSE K(1))
                            \o K(2) \o <<";">> \o K(3) \o <<")">> \o K(4)
       [] t.kind = "func" -> <<"func", t.tok, "(">> \o Joined([i \in DOMAIN t.params |-> <<t.params[i]>>])
                             \o <<")", "{">> \o FlattenSeq(Rest(0)) \o <<"}">>
TreeIsTheText == result.ok => FlattenSeq([i \in DOMAIN result.tree |-> Text[result.tree[i]]]) = Tokens

\* Of the trees with one text, the parser builds the one that binds as it should:
\* operators by their strength and from the left, an else to the nearest if.
Strength(t) == CASE t.kind \in {"assign", "indexAssign"} -> 0
                 [] t.kind \in {"binary", "logical"}     -> Infix[t.tok]
                 [] t.kind = "unary"                     -> 7
                 [] OTHER                                -> 8
EndsOpen[s \in Any] == \/ s.kind = "if" /\ (Len(s.kids) = 2 \/ EndsOpen[s.kids[3]])
                       \/ s.kind = "for" /\ EndsOpen[s.kids[4]]
Binds(t) ==
  /\ t.kind \in {"binary", "logical"} =>
       /\ t.kind = "logical" <=> t.tok \in {"or", "and"}
       /\ Strength(t.kids[1]) >= Infix[t.tok] /\ Strength(t.kids[2]) > Infix[t.tok]
  /\ t.kind = "unary" => Strength(t.kids[1]) >= 7
  /\ t.kind \in {"call", "index", "indexAssign"} => Strength(t.kids[1]) = 8
  /\ t.kind = "if" /\ Len(t.kids) = 3 => ~EndsOpen[t.kids[2]]
AllBind[t \in Any] == Binds(t) /\ \A i \in DOMAIN t.kids : AllBind[t.kids[i]]
TreeBindsRight == result.ok => \A i \in DOMAIN result.tree : AllBind[result.tree[i]]

\* What Repl takes for the parser: it accepts the same sequences of parts of statements,
\* and sees an if that may still get an else in the same ones.
ReplReadsTheSame ==
  ~Plain => /\ result.ok <=> R!Parses(words)
            /\ R!HasPendingElse(words) <=>
                 result.ok /\ result.tree # <<>> /\ HasPendingElse[Last(result.tree)]
=============================================================================
