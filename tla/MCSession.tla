----------------------------- MODULE MCSession -----------------------------
(* Lines typed one after another, in every order, with pre-checks between:  *)
(* declarations, a redeclaration, lines that fail in the checker and lines  *)
(* that fail halfway through their execution; and whole files, each run by  *)
(* a shell of its own.                                                      *)
EXTENDS Session, FilePrograms

MCName == {"a", "b", "f", "g", "array", "Array"}

\* var a = 1;
DeclareA == <<VarIs("a", Num(1), 1)>>
\* var b = 1; print 1 / 0;
DeclareThenFail == <<VarIs("b", Num(1), 2), Prints(Bin("/", Num(1), Num(0)), 2)>>
\* var b; var b;
DeclareTwice == <<Var("b", 3), Var("b", 3)>>
\* func f(a) { if (a) { return f(a - 1); } a = 1; }
DeclareF == <<Func("f", <<"a">>,
               <<If(Use("a", 4), Block(<<ReturnIs(
                   Call("f", <<Bin("-", Use("a", 5), Num(1))>>, 5), 5)>>, 5), 4),
                 Do(Set("a", Num(1), 6), 6)>>, 4)>>
\* print f(1);
CallF == <<Prints(Call("f", <<Num(1)>>, 7), 7)>>
\* { var a = b; { func f(a) { return; } b = f(1); } }   f closes over a block
NestedF == <<Block(<<VarIs("a", Use("b", 8), 8),
                     Block(<<Func("f", <<"a">>, <<Return(9)>>, 9),
                             Do(Set("b", Call("f", <<Num(1)>>, 10), 10), 10)>>, 9)>>, 8)>>
\* for (var b = 0; b < 1; b = b + 1) { a = b; }
Loop == <<For(VarIs("b", Num(0), 11), Bin("<", Use("b", 11), Num(1)),
              Set("b", Bin("+", Use("b", 11), Num(1)), 11),
              Block(<<Do(Set("a", Use("b", 12), 12), 12)>>, 12), 11)>>
\* if (a) var b = 2; else return 1;
BareBranch == <<IfElse(Use("a", 13), VarIs("b", Num(2), 13), ReturnIs(Num(1), 13), 13)>>
\* if (a) var b = 2;
MaybeB == <<If(Use("a", 14), VarIs("b", Num(2), 14), 14)>>

\* func g() { func f() {} } print 1 / 0;   leaves a g behind that declares f
LostF == <<Func("g", <<>>, <<Func("f", <<>>, <<>>, 20)>>, 19),
           Prints(Bin("/", Num(1), Num(0)), 21)>>
\* g();
CallG == <<Do(Call("g", <<>>, 22), 22)>>

\* { var b = a; }   { { var a = a; } }   func f(a, a) {}   func f(b) { b = 1; var b; }
BlockReadsA == <<Block(<<VarIs("b", Use("a", 15), 15)>>, 15)>>
BlockSelfRead == <<Block(<<Block(<<VarIs("a", Use("a", 16), 16)>>, 16)>>, 16)>>
FuncDuplicate == <<Func("f", <<"a", "a">>, <<>>, 17)>>
FuncRedeclares == <<Func("f", <<"b">>, <<Do(Set("b", Num(1), 18), 18), Var("b", 18)>>, 18)>>

MCLines  == {DeclareA, DeclareThenFail, DeclareTwice, DeclareF, CallF, Loop,
             BareBranch, MaybeB, NestedF, LostF, CallG}
MCBlocks == {BlockReadsA, BlockSelfRead, FuncDuplicate, FuncRedeclares}
Parsed   == MCLines \cup MCBlocks \cup FileStatements
AllStatements == {n \in NodesOf(Parsed) : n.kind \notin ExprKind}
AllNodes      == NodesOf(Parsed \cup {Fold(p) : p \in Parsed})
MCStatements  == AllStatements
MCNode        == AllNodes
=============================================================================
