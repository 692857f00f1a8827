------------------------------ MODULE Programs ------------------------------
(***************************************************************************)
(* Small programs for TLC.  Each statement is written at a line of its own *)
(* (nodes are told apart by name and line, see Binding!Site).              *)
(***************************************************************************)
EXTENDS Integers, Sequences, TLC

LOCAL Tree(kind, tok, val, line, kids, params) ==
  [kind |-> kind, tok |-> tok, val |-> val, line |-> line, kids |-> kids, params |-> params]
LOCAL NilValue == [type |-> "nil", n |-> 0]

\* Expressions.
NoNode            == Tree("absent", "", NilValue, 0, <<>>, <<>>)
Num(i)            == Tree("literal", "", [type |-> "number", n |-> i], 0, <<>>, <<>>)
Truth             == Tree("literal", "", [type |-> "bool", n |-> 1], 0, <<>>, <<>>)
Str(i)            == Tree("literal", "", [type |-> "string", n |-> i], 0, <<>>, <<>>)
Use(x, l)         == Tree("variable", x, NilValue, l, <<>>, <<>>)
Set(x, e, l)      == Tree("assign", x, NilValue, l, <<e>>, <<>>)
Bin(op, e1, e2)   == Tree("binary", op, NilValue, 0, <<e1, e2>>, <<>>)
Un(op, e)         == Tree("unary", op, NilValue, 0, <<e>>, <<>>)
Logic(op, e1, e2) == Tree("logical", op, NilValue, 0, <<e1, e2>>, <<>>)
Group(e)          == Tree("grouping", "", NilValue, 0, <<e>>, <<>>)
Call(x, args, l)  == Tree("call", "", NilValue, l, <<Use(x, l)>> \o args, <<>>)
CallExpr(e, args, l) == Tree("call", "", NilValue, l, <<e>> \o args, <<>>)
Elem(e1, e2)      == Tree("index", "", NilValue, 0, <<e1, e2>>, <<>>)
SetElem(e1, e2, e3) == Tree("indexAssign", "", NilValue, 0, <<e1, e2, e3>>, <<>>)

\* Statements.
Do(e, l)             == Tree("exprStmt", "", NilValue, l, <<e>>, <<>>)
Prints(e, l)          == Tree("print", "", NilValue, l, <<e>>, <<>>)
Var(x, l)            == Tree("var", x, NilValue, l, <<>>, <<>>)
VarIs(x, e, l)       == Tree("var", x, NilValue, l, <<e>>, <<>>)
Block(stmts, l)      == Tree("block", "", NilValue, l, stmts, <<>>)
If(c, s, l)          == Tree("if", "", NilValue, l, <<c, s>>, <<>>)
IfElse(c, s1, s2, l) == Tree("if", "", NilValue, l, <<c, s1, s2>>, <<>>)
For(i, c, u, s, l)   == Tree("for", "", NilValue, l, <<i, c, u, s>>, <<>>)
Func(x, ps, body, l) == Tree("func", x, NilValue, l, body, ps)
Return(l)            == Tree("return", "return", NilValue, l, <<>>, <<>>)
ReturnIs(e, l)       == Tree("return", "return", NilValue, l, <<e>>, <<>>)

\* The nodes of a set of sequences of statements.
Listed[trees \in Any] ==
  IF trees = <<>> THEN <<>>
  ELSE <<Head(trees)>> \o Listed[Head(trees).kids] \o Listed[Tail(trees)]
\* How high a tree is.
HeightOf[n \in Any] ==
  LET below == {HeightOf[n.kids[i]] : i \in DOMAIN n.kids} IN
  IF below = {} THEN 0 ELSE 1 + CHOOSE h \in below : \A k \in below : k <= h

\* The names a statement declares in the scope it stands in, and the places of a node
\* around which the scopes are given: t = <<node, scopes>>.
Declared[n \in Any] ==
  CASE n.kind = "var" -> {n.tok}
    [] n.kind = "if"  -> UNION {Declared[n.kids[i]] : i \in DOMAIN n.kids}
    [] OTHER          -> {}
PlacesIn[t \in Any] ==
  LET n     == t[1]
      names == {n.params[i] : i \in DOMAIN n.params} \cup UNION {Declared[n.kids[i]] : i \in DOMAIN n.kids}
      inner == IF n.kind \in {"block", "for", "func"} THEN <<names>> \o t[2] ELSE t[2] IN
  {[node |-> n, scopes |-> t[2]]} \cup UNION {PlacesIn[<<n.kids[i], inner>>] : i \in DOMAIN n.kids}
Places(p) == UNION {PlacesIn[<<p[i], <<>>>>] : i \in DOMAIN p}

NodesOf(programs) ==
  LET lists == {Listed[p] : p \in programs} IN
  {IF x[2] \in DOMAIN x[1] THEN x[1][x[2]] ELSE NoNode : x \in lists \X (1..100)}
=============================================================================
