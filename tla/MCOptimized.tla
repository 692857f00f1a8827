---------------------------- MODULE MCOptimized -----------------------------
(* Two families of programs: every way to declare one name or not in three  *)
(* nested scopes (each a block, a for, a function that is called at once or *)
(* the block of an if) and then to read it or to assign to it in each of    *)
(* them; and the expressions of two operators over five leaves.               *)
EXTENDS Optimized, Programs

MCName == {"a", "b", "f", "g", "array", "Array"}

Maybe(b, stmt) == IF b THEN <<stmt>> ELSE <<>>
Wrappers == {"block", "for", "forVar", "func", "if"}

\* The scope "w" at line l around a body; f is the function's name.
Wrap(w, f, body, l) ==
  CASE w = "block"  -> <<Block(body, l)>>
    [] w = "for"    -> <<For(NoNode, Logic("and", Use(f, l), Bin("<", Use(f, l), Num(2))),
                             Set(f, Bin("+", Use(f, l), Num(1)), l), Block(body, l), l)>>
    [] w = "forVar" -> <<For(VarIs("a", Num(5), l), Bin("<", Use("a", l), Num(6)),
                             Set("a", Num(6), l), Block(body, l), l)>>
    [] w = "func"   -> <<Func(f, <<>>, body, l), Do(Call(f, <<>>, l), l)>>
    [] OTHER        -> <<If(Num(1), Block(body, l), l)>>

Reach(use, l) == IF use = "read" THEN Prints(Use("a", l), l) ELSE Do(Set("a", Num(9), l), l)

\* var f = 1 and var g = 1 feed the conditions of the plain for loops.
Scoped(d0, d1, d2, w1, w2, use) ==
     <<VarIs("f", Num(1), 1), VarIs("g", Num(1), 1)>>
  \o Maybe(d0, VarIs("a", Num(2), 2))
  \o Wrap(w1, "f",
       Maybe(d1, VarIs("a", Num(3), 4))
         \o Wrap(w2, "g", Maybe(d2, VarIs("a", Num(4), 6)) \o <<Reach(use, 7)>>, 5)
         \o <<Reach(use, 8)>>, 3)
  \o <<Reach(use, 9)>>

ScopedPrograms ==
  {Scoped(d0, d1, d2, w1, w2, use) : <<d0, d1, d2, w1, w2, use>> \in
     BOOLEAN \X BOOLEAN \X BOOLEAN \X Wrappers \X Wrappers \X {"read", "assign"}}

-----------------------------------------------------------------------------
\* Operators tell by their line which of them failed.
OnLine(n, l) == [n EXCEPT !.line = l]
Leaves       == {Num(0), Num(1), Truth, Str(1), Use("a", 1)}

\* An operator or none on one or two leaves.
Inner(op, e1, e2) ==
  OnLine(CASE op = "leaf"        -> e1
           [] op = "group"       -> Group(e1)
           [] op \in {"-", "!"}  -> Un(op, e1)
           [] OTHER              -> Bin(op, e1, e2), 2)
Inners == {Inner(x[1], x[2], x[3]) :
             x \in {"leaf", "group", "-", "!", "+", "*", "%", "==", "!=", "<", ">="} \X Leaves \X Leaves}

\* What the inner expression is part of.
ByZero == OnLine(Bin("/", Num(1), Num(0)), 3)
Outer(part, e) ==
  OnLine(CASE part = "alone"     -> e
           [] part = "assigned"  -> Set("a", e, 1)
           [] part = "grouped"   -> Group(e)
           [] part \in {"-", "!"} -> Un(part, e)
           [] part = "left of +"  -> Bin("+", e, Num(1))
           [] part = "right of +" -> Bin("+", Num(1), e)
           [] part = "beside a"   -> Bin("*", Use("a", 1), e)
           [] part = "compared"   -> Bin("==", Num(1), e)
           [] part = "beside 1/0" -> Bin("!=", ByZero, e)
           [] part = "not reached" -> Logic("or", Use("a", 1), e)
           [] OTHER               -> Logic("and", Un("!", Str(1)), e), 1)
Parts == {"alone", "assigned", "grouped", "-", "!", "left of +", "right of +", "beside a",
          "compared", "beside 1/0", "not reached", "after and"}

\* var a = 2; print e; print a;
ExprPrograms ==
  {<<VarIs("a", Num(2), 9), Prints(Outer(x[1], x[2]), 1), Prints(Use("a", 1), 1)>> :
     x \in Parts \X Inners}

\* Folding in every kind of statement; an unlucky one in a branch or a body not executed.
OneIsTwo == Bin("==", Num(1), Num(2))
StatementPrograms == {
  <<For(VarIs("a", Bin("-", Num(1), Num(1)), 1), Bin("<", Use("a", 1), Bin("+", Num(1), Num(1))),
        Set("a", Bin("+", Use("a", 1), Group(Num(1))), 1),
        IfElse(Group(OneIsTwo), Prints(ByZero, 2), Prints(Un("-", Bin("*", Num(2), Num(2))), 3), 2), 1)>>,
  <<For(NoNode, Un("!", Truth), NoNode, Prints(ByZero, 1), 1), Prints(Bin("+", Str(1), Str(1)), 2)>>,
  <<Func("f", <<"a">>, <<ReturnIs(Bin("+", Num(1), Num(1)), 1)>>, 1),
    Prints(Call("f", <<ByZero>>, 2), 2)>>,
  <<Func("f", <<"a">>, <<Do(Bin("%", Num(1), Num(0)), 1), Return(1)>>, 1),
    Block(<<VarIs("a", Call("array", <<Bin("+", Num(1), Num(0))>>, 3), 3),
            Do(SetElem(Use("a", 4), Bin("-", Num(1), Num(1)), Bin("+", Num(1), Num(1))), 4),
            Prints(Elem(Use("a", 5), Bin("-", Num(1), Num(1))), 5), Var("g", 5),
            Prints(Call("f", <<Bin("+", Num(1), Num(1))>>, 6), 6)>>, 2)>> }

-----------------------------------------------------------------------------
\* A name is declared in a scope that was searched for it before, or not at all.
LateInBlock == <<Block(<<VarIs("a", Num(1), 1),
                   Block(<<Func("f", <<>>, <<Prints(Use("a", 3), 3)>>, 3),
                           VarIs("a", Num(2), 4), Do(Call("f", <<>>, 5), 5)>>, 2)>>, 1)>>
LateGlobally == <<VarIs("a", Num(1), 1),
                  Block(<<Func("f", <<>>, <<Prints(Use("a", 3), 3)>>, 3),
                          VarIs("a", Num(2), 4), Do(Call("f", <<>>, 5), 5)>>, 2)>>
LateInLoop   == <<VarIs("a", Num(1), 1),
                  For(VarIs("f", Num(0), 2), Bin("<", Use("f", 2), Num(2)),
                      Set("f", Bin("+", Use("f", 2), Num(1)), 2),
                      If(Bin("<", Use("a", 3), Num(2)), VarIs("a", Num(2), 4), 3), 2)>>
Skipped(use) == <<VarIs("a", Num(1), 1),
                  Block(<<If(Num(0), VarIs("a", Num(2), 2), 2), Reach(use, 3)>>, 2)>>
\* The same without the outer variable: neither a distance nor a search finds one.
SkippedAlone(use) == <<Block(<<If(Num(0), VarIs("a", Num(2), 2), 2), Reach(use, 3)>>, 2)>>
OnlyAFunction == <<VarIs("a", Num(1), 1),
                   Block(<<Func("a", <<>>, <<>>, 2), Prints(Use("a", 3), 3)>>, 2)>>

\* Functions called from scopes that are not theirs, and from themselves.
CalledFrom(w, n) ==
  <<VarIs("f", Num(1), 1),
    Block(<<VarIs("a", Num(1), 3),
            Func("g", <<"b">>, <<If(Use("b", 4), Do(Call("g", <<Num(0)>>, 5), 5), 4),
                                 Do(Set("a", Bin("+", Use("a", 6), Use("b", 7)), 6), 6),
                                 Prints(Use("a", 8), 8)>>, 4)>>
            \o Wrap(w, "f", <<VarIs("a", Num(7), 10), Do(Call("g", <<Num(n)>>, 11), 11)>>, 9), 2)>>

\* The inner call of f declares g anew, in an environment that ends with it.
ReboundClosure ==
  <<Func("f", <<"a">>,
      <<Func("g", <<>>, <<ReturnIs(Use("a", 3), 3)>>, 2),
        If(Use("a", 4), Block(<<Do(Call("f", <<Num(0)>>, 5), 5)>>, 5), 4),
        ReturnIs(Call("g", <<>>, 6), 6)>>, 1),
    Do(Call("f", <<Num(1)>>, 7), 7)>>

NestingPrograms ==
  {LateInBlock, LateGlobally, LateInLoop, OnlyAFunction, ReboundClosure}
    \cup {Skipped(use) : use \in {"read", "assign"}}
    \cup {SkippedAlone(use) : use \in {"read", "assign"}}
    \cup {CalledFrom(w, n) : w \in {"block", "for", "func", "if"}, n \in 0..2}

AllSources == ScopedPrograms \cup ExprPrograms \cup StatementPrograms \cup NestingPrograms
MCSources  == AllSources

\* (Definitions of their own: TLC computes these once, a constant's again and again.)
AllNodes  == NodesOf(AllSources \cup {Fold(p) : p \in AllSources})
MCNode    == AllNodes
AllPlaced == [p \in AllSources |-> Places(p) \cup Places(Fold(p))]
MCPlaced  == AllPlaced
=============================================================================
