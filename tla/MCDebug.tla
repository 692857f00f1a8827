------------------------------ MODULE MCDebug ------------------------------
(* Files under the debugger, with every sequence of commands: a recursive   *)
(* function that returns out of a block inside a loop and prints a variable  *)
(* that hides another, an if without braces, an array, scopes of one depth   *)
(* after each other, a name declared after the function that prints it, and  *)
(* the four ways a debug run ends early.                                    *)
EXTENDS DebugSession, Programs

MCName == {"a", "b", "f", "g", "array", "Array"}

\* func f(a) { for (;;) { if (a) { return f(a - 1); } print a; return 0; } }
Recursive == Func("f", <<"a">>,
  <<For(NoNode, NoNode, NoNode,
     Block(<<If(Use("a", 2), Block(<<ReturnIs(
               Call("f", <<Bin("-", Use("a", 3), Num(1))>>, 3), 3)>>, 2), 2),
             Prints(Use("a", 4), 4), ReturnIs(Num(0), 4)>>, 2), 2)>>, 1)
\* var a = 2; a = f(1);
DeclareA == VarIs("a", Num(2), 1)
CallIt == Do(Set("a", Call("f", <<Num(1)>>, 5), 5), 5)
\* for (a = 0; a < 1; a = a + 1) if (a == 0) print a; else a = 5;
LoopIf == For(Do(Set("a", Num(0), 6), 6), Bin("<", Use("a", 6), Num(1)),
              Set("a", Bin("+", Use("a", 6), Num(1)), 6),
              IfElse(Bin("==", Use("a", 7), Num(0)), Prints(Use("a", 8), 8),
                     Do(Set("a", Num(5), 9), 9), 7), 6)
\* var b = array(1); { print b[0]; print b[1]; }
MakeArray == VarIs("b", Call("array", <<Num(1)>>, 12), 12)
PrintElements == Block(<<Prints(Elem(Use("b", 13), Num(0)), 13),
                         Prints(Elem(Use("b", 14), Num(1)), 14)>>, 13)
\* { print 1; } { { print 1; } }
Shallow == Block(<<Prints(Num(1), 22)>>, 22)
Deeper  == Block(<<Block(<<Prints(Num(1), 23)>>, 23)>>, 23)
\* func g() { return 1; } print g() + g();
Called  == Func("g", <<>>, <<ReturnIs(Num(1), 15)>>, 15)
CallTwo == Prints(Bin("+", Call("g", <<>>, 16), Call("g", <<>>, 16)), 16)
\* { var a = 1; { func f() { print a; } f(); var a = 2; f(); } }
LateName ==
  Block(<<VarIs("a", Num(1), 17),
          Block(<<Func("f", <<>>, <<Prints(Use("a", 18), 18)>>, 18), Do(Call("f", <<>>, 19), 19),
                  VarIs("a", Num(2), 20), Do(Call("f", <<>>, 21), 21)>>, 18)>>, 17)
\* { a = a / 0; }
Fails == Block(<<Do(Set("a", Bin("/", Use("a", 10), Num(0)), 10), 10)>>, 10)
\* { var a; var a; }
Rejected == Block(<<Var("a", 11), Var("a", 11)>>, 11)

DebugFiles == {
  [stmts |-> <<DeclareA, Recursive, CallIt, LoopIf>>, end |-> "eof"],
  [stmts |-> <<DeclareA, Recursive, CallIt, Fails>>, end |-> "eof"],
  [stmts |-> <<Recursive, Rejected>>, end |-> "eof"],
  [stmts |-> <<MakeArray, PrintElements>>, end |-> "eof"],
  [stmts |-> <<Shallow, Deeper, Called, CallTwo>>, end |-> "eof"],
  [stmts |-> <<LateName>>, end |-> "eof"],
  [stmts |-> <<LoopIf>>, end |-> "parseError"] }

Parsed   == {f.stmts : f \in DebugFiles}
AllStatements == {n \in NodesOf(Parsed) : n.kind \notin ExprKind}
AllNodes      == NodesOf(Parsed \cup {Fold(p) : p \in Parsed})
MCStatements  == AllStatements
MCNode        == AllNodes
MCLinesOfSource == {3, 8}
MCElements == {[name |-> "b", index |-> i] : i \in {0, 1}}
=============================================================================
