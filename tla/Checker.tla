------------------------------ MODULE Checker ------------------------------
(***************************************************************************)
(* The static checker (checker/Checker.cpp).                               *)
(*                                                                         *)
(* check() walks the tree by recursive visit functions.  Only three of     *)
(* them open a scope - visitBlockStmt, visitForStmt, visitFunctionStmt -   *)
(* and each does something on its way out, so the C++ call stack is the    *)
(* stack "checking" of the activations of those three above check() itself *)
(* (the bottom one).  An activation keeps the work it has left.  A         *)
(* CheckError leaves the activations one by one through their catch        *)
(* clauses: checkError is the exception in flight.                         *)
(***************************************************************************)
EXTENDS Ast, FiniteSets

VARIABLES
  checking,             \* the stack of activations; <<>> when check() is not running
  scopes,               \* scopes_: per local scope, what each name is
  globalScope,          \* globalScope_: the names declared globally
  globalScopeSnapshot,  \* globalScopeSnapshot_: globalScope_ when check() began
  functionDepth,        \* functionDepth_
  strictGlobalCheck,    \* strictGlobalCheck_
  checkError            \* the CheckError thrown by the last check(), if any

checkerVars == <<checking, scopes, globalScope, globalScopeSnapshot,
                 functionDepth, strictGlobalCheck, checkError>>

\* A map of scopes_ holds a name with false (declared), true (defined) or not at all.
NameState  == {"absent", "declared", "defined"}
EmptyScope == [x \in Name |-> "absent"]

NoError         == [kind |-> "none", tok |-> ""]
CheckError(k,x) == [kind |-> k, tok |-> x]

-----------------------------------------------------------------------------
(* The activation at the top of the stack and its next piece of work.       *)

Activation(kind, work) == [kind |-> kind, work |-> work]
Visit(kids)            == Items("visit", kids)

Work     == Top(checking).work
Running  == checking # <<>> /\ checkError = NoError
Next1    == Head(Work)
Visiting(kinds) == Running /\ Work # <<>> /\ Next1.op = "visit" /\ Next1.node.kind \in kinds

\* Replace the next piece of work by the work in "more".
Expand(more) ==
  checking' = [checking EXCEPT ![Len(checking)].work = more \o Tail(@)]

\* Open an activation above the current one.
Enter(kind, work) ==
  checking' = Append([checking EXCEPT ![Len(checking)].work = Tail(@)],
                     Activation(kind, work))

Throw(kind, tok) ==
  /\ checkError' = CheckError(kind, tok)
  /\ UNCHANGED <<checking, scopes, globalScope, globalScopeSnapshot,
                 functionDepth, strictGlobalCheck>>

-----------------------------------------------------------------------------
(* declare, define and resolveVar.                                          *)

\* Mutant of DeclaredHere: the global scope is not searched.
DeclaredLocally(x) == scopes # <<>> /\ Top(scopes)[x] # "absent"

DeclaredHere(x) == IF scopes = <<>> THEN x \in globalScope
                                    ELSE Top(scopes)[x] # "absent"

Declare(x) ==
  IF scopes = <<>>
  THEN globalScope' = globalScope \cup {x} /\ UNCHANGED scopes
  ELSE scopes' = [scopes EXCEPT ![Len(scopes)][x] = "declared"] /\ UNCHANGED globalScope

Define(x) ==
  IF scopes = <<>>
  THEN UNCHANGED scopes
  ELSE scopes' = [scopes EXCEPT ![Len(scopes)][x] = "defined"]

\* The innermost scope that holds x decides; without one, a strict check asks
\* the global scope and a normal one leaves the name to the executor.
Holders(x) == {i \in DOMAIN scopes : scopes[i][x] # "absent"}
ReadError(x) ==
  IF Holders(x) # {}
  THEN LET i == CHOOSE i \in Holders(x) : \A j \in Holders(x) : j <= i
       IN  IF scopes[i][x] = "declared" THEN "selfRead" ELSE "none"
  ELSE IF strictGlobalCheck /\ x \notin globalScope THEN "undefined" ELSE "none"

-----------------------------------------------------------------------------
(* The entry points of IChecker.                                            *)

\* Mutant of CheckBegin: the snapshot is the one of an earlier check.
CheckBeginStale(stmts) ==
  /\ checking = <<>>
  /\ checking' = <<Activation("check", Visit(stmts))>>
  /\ checkError' = NoError
  /\ UNCHANGED <<scopes, globalScope, globalScopeSnapshot, functionDepth>>

CheckBegin(stmts) ==
  /\ checking = <<>>
  /\ globalScopeSnapshot' = globalScope
  /\ checking' = <<Activation("check", Visit(stmts))>>
  /\ checkError' = NoError
  /\ UNCHANGED <<scopes, globalScope, functionDepth>>

RollbackLastCheck == globalScope' = globalScopeSnapshot

-----------------------------------------------------------------------------
(* The visitors.                                                            *)

\* Every visitor that only visits its children in order.  The name an
\* assignment writes to is not looked at.
VisitChildren ==
  /\ Visiting({"exprStmt", "print", "if", "literal", "assign", "binary", "unary",
               "grouping", "logical", "call", "index", "indexAssign", "absent"})
  /\ Expand(Visit(Next1.node.kids))
  /\ UNCHANGED <<scopes, globalScope, globalScopeSnapshot, functionDepth,
                 strictGlobalCheck, checkError>>

VisitVariable ==
  /\ Visiting({"variable"})
  /\ LET x == Next1.node.tok IN
     IF ReadError(x) = "none"
     THEN /\ Expand(<<>>)
          /\ UNCHANGED <<scopes, globalScope, globalScopeSnapshot, functionDepth,
                         strictGlobalCheck, checkError>>
     ELSE Throw(ReadError(x), x)

VisitVarDeclare ==
  /\ Visiting({"var"})
  /\ LET n == Next1.node IN
     IF DeclaredHere(n.tok)
     THEN Throw("redeclared", n.tok)
     ELSE /\ Declare(n.tok)
          /\ Expand(Append(Visit(n.kids), Item("define", n)))
          /\ UNCHANGED <<globalScopeSnapshot, functionDepth, strictGlobalCheck, checkError>>

\* The last step of visitVarDeclareStmt, once the initializer is checked.
FinishVarDeclare ==
  /\ Running /\ Work # <<>> /\ Next1.op = "define"
  /\ Define(Next1.node.tok)
  /\ Expand(<<>>)
  /\ UNCHANGED <<globalScope, globalScopeSnapshot, functionDepth,
                 strictGlobalCheck, checkError>>

\* visitBlockStmt and visitForStmt: a new scope; a for visits its initializer,
\* condition and increment before its body.
VisitScope ==
  /\ Visiting({"block", "for"})
  /\ scopes' = Append(scopes, EmptyScope)
  /\ Enter("scope", Visit(Next1.node.kids))
  /\ UNCHANGED <<globalScope, globalScopeSnapshot, functionDepth,
                 strictGlobalCheck, checkError>>

\* The name goes to the global scope wherever the function stands, and before
\* its parameters are looked at.
Duplicated(params) ==
  {params[j] : j \in {j \in DOMAIN params : \E i \in 1..(j-1) : params[i] = params[j]}}
ParamScope(params) ==
  [x \in Name |-> IF \E i \in DOMAIN params : params[i] = x THEN "defined" ELSE "absent"]

VisitFunction ==
  /\ Visiting({"func"})
  /\ LET n == Next1.node IN
     /\ globalScope' = globalScope \cup {n.tok}
     /\ IF Duplicated(n.params) # {}
        THEN /\ checkError' = CheckError("duplicateParam", n.tok)
             /\ UNCHANGED <<checking, scopes, functionDepth>>
        ELSE /\ scopes' = Append(scopes, ParamScope(n.params))
             /\ functionDepth' = functionDepth + 1
             /\ Enter("function", Visit(n.kids))
             /\ UNCHANGED checkError
  /\ UNCHANGED <<globalScopeSnapshot, strictGlobalCheck>>

\* Mutant of VisitReturn: functionDepth_ is not looked at.
VisitReturnAnywhere ==
  /\ Visiting({"return"})
  /\ Expand(Visit(Next1.node.kids))
  /\ UNCHANGED <<scopes, globalScope, globalScopeSnapshot, functionDepth,
                 strictGlobalCheck, checkError>>

VisitReturn ==
  /\ Visiting({"return"})
  /\ IF functionDepth = 0
     THEN Throw("return", "")
     ELSE /\ Expand(Visit(Next1.node.kids))
          /\ UNCHANGED <<scopes, globalScope, globalScopeSnapshot, functionDepth,
                         strictGlobalCheck, checkError>>

-----------------------------------------------------------------------------
(* Leaving an activation: its work is done, or a CheckError passes through  *)
(* its catch clause.  check() itself has none.                              *)

\* Mutant of LeavesScope: there are no catch clauses.
LeavesScopeNormally == Top(checking).kind \in {"scope", "function"} /\ checkError = NoError
\* Mutant of LeavesFunction: a block counts as one.
LeavesAnything == Top(checking).kind # "check"

LeavesScope    == Top(checking).kind \in {"scope", "function"}
LeavesFunction == Top(checking).kind = "function"

EndActivation ==
  /\ checking # <<>>
  /\ checkError # NoError \/ Work = <<>>
  /\ checking' = Pop(checking)
  /\ scopes' = IF LeavesScope THEN Pop(scopes) ELSE scopes
  /\ functionDepth' = IF LeavesFunction THEN functionDepth - 1 ELSE functionDepth
  /\ UNCHANGED <<globalScope, globalScopeSnapshot, strictGlobalCheck, checkError>>

CheckerStep ==
  \/ VisitChildren \/ VisitVariable \/ VisitVarDeclare \/ FinishVarDeclare
  \/ VisitScope \/ VisitFunction \/ VisitReturn \/ EndActivation

CheckerInit ==
  /\ checking = <<>>
  /\ scopes = <<>>
  /\ globalScope = {}
  /\ globalScopeSnapshot = {}
  /\ functionDepth = 0
  /\ strictGlobalCheck = FALSE
  /\ checkError = NoError

-----------------------------------------------------------------------------
(* What the checker keeps true.                                             *)

CheckItem == [op : {"visit", "define"}, node : Node]

CheckerTypeOK ==
  /\ checking \in Seq([kind : {"check", "scope", "function"}, work : Seq(CheckItem)])
  /\ scopes \in Seq([Name -> NameState])
  /\ globalScope \in SUBSET Name
  /\ globalScopeSnapshot \in SUBSET Name
  /\ functionDepth \in Nat
  /\ strictGlobalCheck \in BOOLEAN
  /\ checkError \in [kind : {"none", "redeclared", "selfRead", "undefined",
                             "duplicateParam", "return"}, tok : Name \cup {""}]

\* Whatever is thrown wherever, scopes_ holds one scope for every block, for and
\* function being checked, and functionDepth_ counts the functions among them: no
\* way out of a visitor leaves one behind or takes one too many.
FunctionsOpen == {i \in DOMAIN checking : checking[i].kind = "function"}
CheckerStacksAgree ==
  /\ Len(scopes) = IF checking = <<>> THEN 0 ELSE Len(checking) - 1
  /\ functionDepth = Cardinality(FunctionsOpen)
=============================================================================
