------------------------------ MODULE Binding ------------------------------
(***************************************************************************)
(* The static binding pass (optimizer/StaticBindingOptimizer.h): Resolver  *)
(* walks the checked tree and writes into every variable read and every    *)
(* assignment how many environments out the executor finds the name.       *)
(*                                                                         *)
(* As in Checker, the C++ call stack is the stack "binding" of the         *)
(* activations that hold a scope, above resolve() itself.  Resolver throws *)
(* nothing, so an activation ends only when its work is done.              *)
(***************************************************************************)
EXTENDS Ast

VARIABLES
  binding,    \* the stack of activations; <<>> when the pass is not running
  bindScopes, \* scopes_: the names of each local scope (their bool is never read)
  distance    \* the distance members of the tree, by site; no entry is -1

bindingVars == <<binding, bindScopes, distance>>

\* A node is known by its name and its place: programs keep two uses of one
\* name that stand in different scopes on different lines.
Site(n)       == <<n.tok, n.line>>
DistanceOf(n) == IF Site(n) \in DOMAIN distance THEN distance[Site(n)] ELSE -1

-----------------------------------------------------------------------------
BindWork == Top(binding).work
BindNext == Head(BindWork)
Binds(op, kinds) ==
  binding # <<>> /\ BindWork # <<>> /\ BindNext.op = op /\ BindNext.node.kind \in kinds

BindExpand(more) ==
  binding' = [binding EXCEPT ![Len(binding)].work = more \o Tail(@)]
BindEnter(work) ==
  binding' = Append([binding EXCEPT ![Len(binding)].work = Tail(@)], [work |-> work])

\* declare and define: the name joins the innermost scope, if there is one.
\* computeDistance asks only whether a scope holds the name, so the two are one.
BindDeclare(scs, x) ==
  IF scs = <<>> THEN scs ELSE [scs EXCEPT ![Len(scs)] = @ \cup {x}]

BindHolders(x) == {i \in DOMAIN bindScopes : x \in bindScopes[i]}
\* Mutant of ComputeDistance: the outermost scope that holds the name.
ComputeDistanceOutermost(x) ==
  IF BindHolders(x) = {}
  THEN -1
  ELSE Len(bindScopes) - (CHOOSE i \in BindHolders(x) : \A j \in BindHolders(x) : j >= i)

ComputeDistance(x) ==
  IF BindHolders(x) = {}
  THEN -1
  ELSE Len(bindScopes) - (CHOOSE i \in BindHolders(x) : \A j \in BindHolders(x) : j <= i)

\* resolveLocal and resolveLocalAssign.
SetDistance(n) ==
  LET d == ComputeDistance(n.tok) IN
  distance' = IF d >= 0
              THEN [s \in DOMAIN distance \cup {Site(n)} |->
                      IF s = Site(n) THEN d ELSE distance[s]]
              ELSE distance

-----------------------------------------------------------------------------
\* A new Resolver for every optimize() call.
BindBegin(stmts) ==
  /\ binding = <<>>
  /\ binding' = <<[work |-> Items("visit", stmts)]>>
  /\ bindScopes' = <<>>
  /\ UNCHANGED distance

BindChildren ==
  /\ Binds("visit", {"exprStmt", "print", "if", "literal", "binary", "unary", "grouping",
                     "logical", "call", "index", "indexAssign", "return", "absent"})
  /\ BindExpand(Items("visit", BindNext.node.kids))
  /\ UNCHANGED <<bindScopes, distance>>

BindVariable ==
  /\ Binds("visit", {"variable"})
  /\ SetDistance(BindNext.node)
  /\ BindExpand(<<>>)
  /\ UNCHANGED bindScopes

\* visitAssignExpr: the value first, then the target.
BindAssign ==
  /\ Binds("visit", {"assign"})
  /\ BindExpand(Append(Items("visit", BindNext.node.kids), Item("target", BindNext.node)))
  /\ UNCHANGED <<bindScopes, distance>>
BindTarget ==
  /\ Binds("target", {"assign"})
  /\ SetDistance(BindNext.node)
  /\ BindExpand(<<>>)
  /\ UNCHANGED bindScopes

\* visitVarDeclareStmt: the name is in scope before its initializer is visited.
BindVarDeclare ==
  /\ Binds("visit", {"var"})
  /\ bindScopes' = BindDeclare(bindScopes, BindNext.node.tok)
  /\ BindExpand(Items("visit", BindNext.node.kids))
  /\ UNCHANGED distance

\* visitBlockStmt and visitForStmt.
BindScope ==
  /\ Binds("visit", {"block", "for"})
  /\ bindScopes' = Append(bindScopes, {})
  /\ BindEnter(Items("visit", BindNext.node.kids))
  /\ UNCHANGED distance

\* visitFunctionStmt: the function's name joins the scope it stands in.
BindFunction ==
  /\ Binds("visit", {"func"})
  /\ LET n == BindNext.node IN
     /\ bindScopes' = Append(BindDeclare(bindScopes, n.tok),
                             {n.params[i] : i \in DOMAIN n.params})
     /\ BindEnter(Items("visit", n.kids))
  /\ UNCHANGED distance

\* endScope, or the end of resolve().
BindLeave ==
  /\ binding # <<>> /\ BindWork = <<>>
  /\ binding' = Pop(binding)
  /\ bindScopes' = IF Len(binding) = 1 THEN bindScopes ELSE Pop(bindScopes)
  /\ UNCHANGED distance

BindStep ==
  \/ BindChildren \/ BindVariable \/ BindAssign \/ BindTarget \/ BindVarDeclare
  \/ BindScope \/ BindFunction \/ BindLeave

BindingInit == binding = <<>> /\ bindScopes = <<>> /\ distance = [s \in {} |-> 0]

BindingTypeOK ==
  /\ binding \in Seq([work : Seq([op : {"visit", "target"}, node : Node])])
  /\ bindScopes \in Seq(SUBSET Name)
  /\ DOMAIN distance \subseteq Name \X Nat
  /\ \A s \in DOMAIN distance : distance[s] \in Nat
=============================================================================
