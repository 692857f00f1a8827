---------------------------- MODULE FilePrograms ---------------------------
(* Whole files: some run to their end through every visitor, the others     *)
(* stop in the middle of a pass.                                            *)
EXTENDS Programs

File(stmts)   == [stmts |-> stmts, end |-> "eof"]
Broken(stmts) == [stmts |-> stmts, end |-> "parseError"]

DeclareB == VarIs("b", Num(1), 1)

\* func f(a) { for (;;) { if (a > 1 or !b) return a - 2; a = a + 1; } }
SearchF == Func("f", <<"a">>,
  <<For(NoNode, NoNode, NoNode,
     Block(<<If(Logic("or", Bin(">", Use("a", 3), Num(1)), Un("!", Use("b", 3))),
               ReturnIs(Bin("-", Use("a", 3), Num(2)), 3), 3),
             Do(Set("a", Bin("+", Use("a", 4), Num(1)), 4), 4)>>, 3), 3)>>, 2)
\* { var a = array(2); a[f(b)] = -(1 % 2); print a[0] == a[1]; print "s" + "tt"; }
UseArray == Block(
  <<VarIs("a", Call("array", <<Num(2)>>, 6), 6),
    Do(SetElem(Use("a", 7), Call("f", <<Use("b", 7)>>, 7),
               Un("-", Group(Bin("%", Num(1), Num(2))))), 7),
    Prints(Bin("==", Elem(Use("a", 8), Num(0)), Elem(Use("a", 8), Num(1))), 8),
    Prints(Bin("+", Str(1), Str(2)), 9)>>, 5)
\* var a = array(2);  func g() { a = array(0); return 1; }  a[1] = g();
ShrinkA == <<VarIs("a", Call("array", <<Num(2)>>, 26), 26),
             Func("g", <<>>, <<Do(Set("a", Call("array", <<Num(0)>>, 27), 27), 27),
                               ReturnIs(Num(1), 27)>>, 27),
             Do(SetElem(Use("a", 28), Num(1), Call("g", <<>>, 28)), 28)>>
\* for (var a = 0; a < 2 and b; a = a + 1) { var g; g = a; }
LoopG == For(VarIs("a", Num(0), 10),
             Logic("and", Bin("<", Use("a", 10), Num(2)), Use("b", 10)),
             Set("a", Bin("+", Use("a", 10), Num(1)), 10),
             Block(<<Var("g", 11), Do(Set("g", Use("a", 12), 12), 12)>>, 11), 10)
\* func g() { { for (b = 1; ; ) { b = b / 0; } } }  g();    fails three frames deep
FailsDeep == <<Func("g", <<>>, <<Block(<<For(Do(Set("b", Num(1), 14), 14), NoNode, NoNode,
                 Block(<<Do(Set("b", Bin("/", Use("b", 15), Num(0)), 15), 15)>>, 14), 14)>>, 13)>>, 13),
               Do(Call("g", <<>>, 16), 16)>>
\* func f(a) { return a; }  func g() { func f(a, b) { return b; } return 1; }  f(g());
Redeclared == <<Func("f", <<"a">>, <<ReturnIs(Use("a", 30), 30)>>, 30),
                Func("g", <<>>, <<Func("f", <<"a", "b">>, <<ReturnIs(Use("b", 32), 32)>>, 32),
                                  ReturnIs(Num(1), 33)>>, 31),
                Do(Call("f", <<Call("g", <<>>, 34)>>, 34), 34)>>
\* One statement each, every one with a runtime error of its own.
Failing == {
  Do(Call("a", <<>>, 17), 17),                          \* undefined function
  Do(Call("b", <<>>, 17), 17),                          \* not a function
  Do(Call("f", <<>>, 17), 17),                          \* wrong number of arguments
  Do(CallExpr(Num(1), <<>>, 17), 17),                   \* not a name
  Do(Call("array", <<Un("-", Num(1))>>, 17), 17),       \* negative size
  Prints(Elem(Use("b", 17), Num(0)), 17),                \* not an array
  Do(SetElem(Call("array", <<Num(1)>>, 17), Num(1), Num(0)), 17), \* out of range
  Prints(Un("-", Str(1)), 17),
  Prints(Bin("<", Str(1), Num(1)), 17),
  Do(Set("a", Num(1), 17), 17),                         \* undefined variable
  Block(<<VarIs("g", Num(1), 17), Block(<<Prints(Use("a", 18), 18)>>, 18)>>, 17)}
\* { { return 1; } }   rejected two scopes deep
StrayReturn == Block(<<Block(<<Return(20)>>, 20)>>, 19)
\* func a() { var b = 1; { var b = b; } }
SelfRead == Func("a", <<>>, <<VarIs("b", Num(1), 22), Block(<<VarIs("b", Use("b", 23), 23)>>, 23)>>, 21)

AllFiles ==
  {File(<<DeclareB, SearchF, UseArray, LoopG>>), File(ShrinkA), File(Redeclared), File(<<DeclareB>> \o FailsDeep),
   Broken(<<DeclareB, LoopG>>), File(<<DeclareB, StrayReturn, LoopG>>),
   File(<<SelfRead, DeclareB>>), File(<<DeclareB, Func("b", <<>>, <<>>, 24), DeclareB>>)}
  \cup {File(<<DeclareB, SearchF, s>>) : s \in Failing}

FileStatements == {f.stmts : f \in AllFiles}
=============================================================================
