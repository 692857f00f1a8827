----------------------------- MODULE MCFindings -----------------------------
(* One small set of inputs for each of the runs that show the program doing  *)
(* something else than its documentation says.                               *)
EXTENDS Session, Programs

MCName == {"a", "b", "f", "g", "array", "Array"}
NoFiles == {}
NoLines == {}

\* func f(a) { func g() { return a; } if (a) { f(0); } return g(); }   f(1);
\* The inner call of f declares g anew, in an environment that ends with it.
ReboundClosure ==
  <<Func("f", <<"a">>,
      <<Func("g", <<>>, <<ReturnIs(Use("a", 3), 3)>>, 2),
        If(Use("a", 4), Block(<<Do(Call("f", <<Num(0)>>, 5), 5)>>, 5), 4),
        ReturnIs(Call("g", <<>>, 6), 6)>>, 1),
    Do(Call("f", <<Num(1)>>, 7), 7)>>

ClosureFiles == {[stmts |-> ReboundClosure, end |-> "eof"]}

\* a block that begins with   { var a = array(1);
BlockMakesArray == <<Block(<<VarIs("a", Call("array", <<Num(1)>>, 2), 2)>>, 2)>>
\* var b = 1; { var a = a; }   is rejected for a, then   var b = 2;
DeclareThenReject == <<VarIs("b", Num(1), 1), Block(<<VarIs("a", Use("a", 1), 1)>>, 1)>>
DeclareB          == <<VarIs("b", Num(2), 2)>>

RejectedLines == {DeclareThenReject, DeclareB}
ArrayBlocks   == {BlockMakesArray}

Parsed   == {ReboundClosure} \cup RejectedLines \cup ArrayBlocks
AllStatements == {n \in NodesOf(Parsed) : n.kind \notin ExprKind}
AllNodes      == NodesOf(Parsed \cup {Fold(p) : p \in Parsed})
MCStatements  == AllStatements
MCNode        == AllNodes
=============================================================================
