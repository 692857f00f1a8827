------------------------------ MODULE Folding -------------------------------
(***************************************************************************)
(* Constant folding (optimizer/ConstantFoldingOptimizer.cpp): a constant   *)
(* expression is replaced by its value.  The pass evaluates by rules of    *)
(* its own, and an expression it cannot evaluate is left to the executor.  *)
(***************************************************************************)
EXTENDS Values

CONSTANTS Foldable,   \* the expressions the pass may be given
          Statements  \* the statements it may be given

\* isConst: literals under parentheses and operators, but not under "and" and "or".
IsConst[n \in Foldable] ==
  \/ n.kind = "literal"
  \/ /\ n.kind \in {"grouping", "unary", "binary"}
     /\ \A i \in DOMAIN n.kids : IsConst[n.kids[i]]

-----------------------------------------------------------------------------
(* eval.                                                                    *)

\* The std::runtime_error thrown in the place of a value.
Threw == [type |-> "threw", n |-> 0]

\* Only a boolean is negated by "!"; the executor negates the truth of any value.
EvalUnary(op, v) ==
  CASE op = "-" /\ v.type = "number" -> Number(-v.n)
    [] op = "!" /\ v.type = "bool"   -> Bool(v.n = 0)
    [] OTHER                         -> Threw

\* Mutant of EvalBinary: values are compared whatever their types.
EvalBinaryUntyped(op, l, r) ==
  CASE Threw \in {l, r}            -> Threw
    [] op \in {"<", "<=", ">", ">="} -> NumberOp(op, l.n, r.n)
    [] op \in {"/", "%"} /\ r.n = 0 -> Threw
    [] op \in {"==", "!="}         -> Bool((l = r) = (op = "=="))
    [] l.type = "number" /\ r.type = "number" -> NumberOp(op, l.n, r.n)
    [] OTHER                       -> Threw

EvalBinary(op, l, r) ==
  CASE Threw \in {l, r}    -> Threw
    [] op \in {"==", "!="} -> Bool((l = r) = (op = "=="))
    [] op \notin {"==", "!="} /\ l.type = "number" /\ r.type = "number" ->
         IF op \in {"/", "%"} /\ r.n = 0 THEN Threw ELSE NumberOp(op, l.n, r.n)
    [] op = "+" /\ l.type = "string" /\ r.type = "string" -> String(l.n + r.n)
    [] OTHER               -> Threw

Eval[n \in Foldable] ==
  CASE n.kind = "literal"  -> n.val
    [] n.kind = "grouping" -> Eval[n.kids[1]]
    [] n.kind = "unary"    -> EvalUnary(n.tok, Eval[n.kids[1]])
    [] OTHER               -> EvalBinary(n.tok, Eval[n.kids[1]], Eval[n.kids[2]])

-----------------------------------------------------------------------------
(* foldExpr and foldStmt.                                                   *)

\* The children foldExpr goes into: no argument of a call, and no index.
FoldedKids(n) ==
  CASE n.kind \in {"grouping", "unary", "assign", "binary", "logical"} -> DOMAIN n.kids
    [] OTHER -> {}

FoldExpr[n \in Foldable] ==
  IF IsConst[n] /\ Eval[n] # Threw
  THEN MkNode("literal", "", Eval[n], n.line, <<>>, <<>>)
  ELSE [n EXCEPT !.kids = [i \in DOMAIN n.kids |->
          IF i \in FoldedKids(n) THEN FoldExpr[n.kids[i]] ELSE n.kids[i]]]

FoldStmt[n \in Statements] ==
  IF n.kind \notin StmtKind
  THEN n
  ELSE [n EXCEPT !.kids = [i \in DOMAIN n.kids |->
          IF i \in SubStatements(n) THEN FoldStmt[n.kids[i]] ELSE FoldExpr[n.kids[i]]]]

Fold(stmts) == [i \in DOMAIN stmts |-> FoldStmt[stmts[i]]]
=============================================================================
