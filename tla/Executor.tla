------------------------------ MODULE Executor -----------------------------
(***************************************************************************)
(* The tree-walking executor (executor/Executor.cpp, executor/Executor.h). *)
(*                                                                         *)
(* The C++ call stack is the stack "frames": execute() at the bottom and,  *)
(* above it, one frame for each visitor that holds an Environment and the  *)
(* two guards - visitBlockStmt, visitForStmt, and the user function part   *)
(* of visitCallExpr.  A frame keeps the work it has left; the values of    *)
(* the subexpressions already evaluated are on "vals", newest first.       *)
(* "exc" is the exception in flight: it leaves the frames one by one, and  *)
(* each runs its guards.                                                   *)
(*                                                                         *)
(* Environments live on the C++ stack, so "envs" is a stack too: envs[1]   *)
(* is global_, and leaving a frame destroys the last one.  "chain" is the  *)
(* environment and its successive enclosing ones.  functions_ keeps a raw  *)
(* pointer to an environment; when that is destroyed the pointer becomes   *)
(* Dangling.                                                               *)
(***************************************************************************)
EXTENDS Binding, Values

VARIABLES
  frames,    \* the stack of visitor frames; <<>> when execute() is not running
  vals,      \* values of evaluated subexpressions
  exc,       \* the exception in flight
  envs,      \* the live environments
  env,       \* env_: the current environment
  execDepth, \* execDepth_
  functions, \* functions_
  arrays,    \* the arrays created so far (shared_ptr targets)
  observer,  \* is observer_ set?
  notified   \* the statement observer_->beforeStatement is busy with, or Absent

executorVars == <<frames, vals, exc, envs, env, execDepth, functions, arrays,
                  observer, notified>>
\* What only entering and leaving a frame, or an allocation, changes.
scopeVars    == <<envs, env, execDepth>>
storeVars    == <<envs, env, execDepth, functions, arrays>>
debugVars    == <<observer, notified>>

Unset      == [type |-> "unset", n |-> 0]
NoValues   == [x \in Name |-> Unset]
Dangling   == 0
NoFunction == [decl |-> Absent, closure |-> Dangling]

\* "error" carries "[line N]" in its message, "unlocated" does not; "return" is
\* ReturnException, "quit" DebugQuitRequest; "crash" ends the process.
Exception == {"none", "error", "unlocated", "return", "quit", "crash"}

-----------------------------------------------------------------------------
(* Values.                                                                  *)

IsTruthy(v) == CASE v.type \in {"bool", "number"} -> v.n # 0
                 [] v.type = "nil"                -> FALSE
                 [] OTHER                         -> TRUE

BinaryFails(op, l, r) ==
  \/ /\ op \notin {"==", "!="}
     /\ ~(l.type = "number" /\ r.type = "number")
     /\ ~(op = "+" /\ l.type = "string" /\ r.type = "string")
  \/ op \in {"/", "%"} /\ r.n = 0

ApplyBinary(op, l, r) ==
  CASE op \in {"==", "!="}                -> Bool((l = r) = (op = "=="))
    [] op = "+" /\ l.type = "string"      -> String(l.n + r.n)
    [] OTHER                              -> NumberOp(op, l.n, r.n)

-----------------------------------------------------------------------------
(* The environment chain.                                                   *)

Chain    == envs[env].chain
Has(e,x) == envs[e].values[x] # Unset

\* Environment::get and assign search the chain outwards; 0 when no one has x.
Hits(x)         == {d \in DOMAIN Chain : Has(Chain[d], x)}
DynamicIndex(x) == CHOOSE d \in Hits(x) : \A o \in Hits(x) : d <= o
Dynamic(x)      == IF Hits(x) = {} THEN 0 ELSE Chain[DynamicIndex(x)]

\* getAt and assignAt look at one environment only.
Static(x, d) == IF d < Len(Chain) /\ Has(Chain[d + 1], x) THEN Chain[d + 1] ELSE 0

Holder(n)      == IF DistanceOf(n) >= 0 THEN Static(n.tok, DistanceOf(n)) ELSE Dynamic(n.tok)
NotFound(n)    == IF DistanceOf(n) >= 0 THEN "unlocated" ELSE "error"
Write(e, x, v) == envs' = [envs EXCEPT ![e].values[x] = v]

-----------------------------------------------------------------------------
(* The frame at the top and its next piece of work.                         *)

\* "decl" is used by a pending call only: the declaration its arity was checked against.
Task(op, n)     == [op |-> op, node |-> n, decl |-> n]
Tasks(op, kids) == [i \in DOMAIN kids |-> Task(op, kids[i])]
Frame(kind, work) == [kind |-> kind, work |-> work, prev |-> env]

Todo     == Top(frames).work
Now      == Head(Todo)
N        == Now.node
Executing    == frames # <<>> /\ exc = "none" /\ notified = Absent
At(op)       == Executing /\ Todo # <<>> /\ Now.op = op
Accepting(k) == At("accept") /\ N.kind = k
After(k)     == At("after") /\ N.kind = k

Continue(more) == frames' = [frames EXCEPT ![Len(frames)].work = more \o Tail(@)]
Push(v)        == vals' = <<v>> \o vals
Replace(k, v)  == vals' = <<v>> \o SubSeq(vals, k + 1, Len(vals))
Drop(k)        == vals' = SubSeq(vals, k + 1, Len(vals))

Raise(kind) == exc' = kind /\ UNCHANGED <<frames, vals, storeVars, debugVars>>

\* A frame over a new environment: ScopeGuard and DepthGuard are set up.
EnterFrame(kind, work, values, enclosing) ==
  /\ envs' = Append(envs, [values |-> values,
                           chain  |-> <<Len(envs) + 1>> \o envs[enclosing].chain])
  /\ env' = Len(envs) + 1
  /\ execDepth' = execDepth + 1
  /\ frames' = Append([frames EXCEPT ![Len(frames)].work = Tail(@)], Frame(kind, work))

-----------------------------------------------------------------------------
(* execute() and run().                                                     *)

ExecuteBegin(stmts) ==
  /\ frames = <<>>
  /\ frames' = <<Frame("execute", Tasks("run", stmts))>>
  /\ UNCHANGED <<vals, exc, storeVars, debugVars>>

\* Mutant of Run: the statement the observer has heard of is not visited.
RunSkipsObserved ==
  /\ At("run")
  /\ Continue(IF observer /\ N.kind # "block" THEN <<>> ELSE <<Task("accept", N)>>)
  /\ notified' = IF observer /\ N.kind # "block" THEN N ELSE Absent
  /\ UNCHANGED <<vals, exc, storeVars, observer>>

\* The observer hears of every statement but blocks, and only then it is visited.
Run ==
  /\ At("run")
  /\ Continue(<<Task("accept", N)>>)
  /\ notified' = IF observer /\ N.kind # "block" THEN N ELSE Absent
  /\ UNCHANGED <<vals, exc, storeVars, observer>>

-----------------------------------------------------------------------------
(* Expressions.                                                             *)

VisitLiteralExpr ==
  /\ Accepting("literal")
  /\ Continue(<<>>) /\ Push(N.val)
  /\ UNCHANGED <<exc, storeVars, debugVars>>

VisitVariableExpr ==
  /\ Accepting("variable")
  /\ LET h == Holder(N) IN
     IF h = 0
     THEN Raise(NotFound(N))
     ELSE /\ Continue(<<>>) /\ Push(envs[h].values[N.tok])
          /\ UNCHANGED <<exc, storeVars, debugVars>>

\* These evaluate their first child before they do anything else.
EvaluateFirst ==
  /\ \/ \E k \in {"assign", "unary", "logical", "print", "if"} : Accepting(k)
     \/ \E k \in {"var", "return"} : Accepting(k) /\ N.kids # <<>>
  /\ Continue(<<Task("accept", N.kids[1]), Task("after", N)>>)
  /\ UNCHANGED <<vals, exc, storeVars, debugVars>>

AssignValue ==
  /\ After("assign") /\ Len(vals) >= 1
  /\ LET h == Holder(N) IN
     IF h = 0
     THEN Raise(NotFound(N))
     ELSE /\ Continue(<<>>) /\ Write(h, N.tok, vals[1])
          /\ UNCHANGED <<vals, exc, env, execDepth, functions, arrays, debugVars>>

VisitBinaryExpr ==
  \/ /\ Accepting("binary")
     /\ Continue(Append(Tasks("accept", N.kids), Task("after", N)))
     /\ UNCHANGED <<vals, exc, storeVars, debugVars>>
  \/ /\ After("binary") /\ Len(vals) >= 2
     /\ IF BinaryFails(N.tok, vals[2], vals[1])
        THEN Raise("error")
        ELSE /\ Continue(<<>>) /\ Replace(2, ApplyBinary(N.tok, vals[2], vals[1]))
             /\ UNCHANGED <<exc, storeVars, debugVars>>

UnaryValue ==
  /\ After("unary") /\ Len(vals) >= 1
  /\ IF N.tok = "-" /\ vals[1].type # "number"
     THEN Raise("error")
     ELSE /\ Continue(<<>>)
          /\ Replace(1, IF N.tok = "!" THEN Bool(~IsTruthy(vals[1])) ELSE Number(-vals[1].n))
          /\ UNCHANGED <<exc, storeVars, debugVars>>

\* The left operand is the result, or it is dropped and the right one is.
LogicalValue ==
  /\ After("logical") /\ Len(vals) >= 1
  /\ IF IsTruthy(vals[1]) = (N.tok = "or")
     THEN Continue(<<>>) /\ UNCHANGED vals
     ELSE Continue(<<Task("accept", N.kids[2])>>) /\ Drop(1)
  /\ UNCHANGED <<exc, storeVars, debugVars>>

VisitGroupingExpr ==
  /\ Accepting("grouping")
  /\ Continue(<<Task("accept", N.kids[1])>>)
  /\ UNCHANGED <<vals, exc, storeVars, debugVars>>

-----------------------------------------------------------------------------
(* Arrays.                                                                  *)

\* The object is known to be an array before the index is evaluated, and the
\* index to be in range before the value to store is.
VisitIndexed ==
  /\ \E k \in {"index", "indexAssign"} : Accepting(k)
  /\ Continue(<<Task("accept", N.kids[1]), Task("requireArray", N),
                Task("accept", N.kids[2]), Task("requireIndex", N)>>)
  /\ UNCHANGED <<vals, exc, storeVars, debugVars>>

RequireArray ==
  /\ At("requireArray") /\ Len(vals) >= 1
  /\ IF vals[1].type # "array"
     THEN Raise("error")
     ELSE Continue(<<>>) /\ UNCHANGED <<vals, exc, storeVars, debugVars>>

\* Mutant of InRange: one too far.
InRangeOrPast(v, a) == v.type = "number" /\ v.n \in 0..Len(arrays[a.n])

InRange(v, a) == v.type = "number" /\ v.n \in 0..(Len(arrays[a.n]) - 1)

RequireIndex ==
  /\ At("requireIndex") /\ Len(vals) >= 2 /\ vals[2].type = "array"
  /\ IF ~InRange(vals[1], vals[2])
     THEN Raise("error")
     ELSE /\ IF N.kind = "index"
             THEN Continue(<<>>) /\ Replace(2, arrays[vals[2].n][vals[1].n + 1])
             ELSE /\ Continue(<<Task("accept", N.kids[3]), Task("after", N)>>)
                  /\ UNCHANGED vals
          /\ UNCHANGED <<exc, storeVars, debugVars>>

StoreElement ==
  /\ After("indexAssign") /\ Len(vals) >= 3 /\ vals[3].type = "array"
  /\ Continue(<<>>) /\ Replace(3, vals[1])
  /\ arrays' = [arrays EXCEPT ![vals[3].n][vals[2].n + 1] = vals[1]]
  /\ UNCHANGED <<exc, scopeVars, functions, debugVars>>

-----------------------------------------------------------------------------
(* Statements.                                                              *)

PrintValue ==
  /\ After("print") /\ Len(vals) >= 1
  /\ Continue(<<>>) /\ Drop(1)
  /\ UNCHANGED <<exc, storeVars, debugVars>>

\* An expression statement, or the increment of a for: the value is dropped.
VisitExpressionStmt ==
  \/ /\ Accepting("exprStmt")
     /\ Continue(<<Task("accept", N.kids[1]), Task("drop", N)>>)
     /\ UNCHANGED <<vals, exc, storeVars, debugVars>>
  \/ /\ At("drop") /\ Len(vals) >= 1
     /\ Continue(<<>>) /\ Drop(1)
     /\ UNCHANGED <<exc, storeVars, debugVars>>

\* Environment::define: without an initializer the value is nil.
VisitVarDeclareStmt ==
  \/ /\ Accepting("var") /\ N.kids = <<>>
     /\ Continue(<<>>) /\ Write(env, N.tok, Nil)
     /\ UNCHANGED <<vals, exc, env, execDepth, functions, arrays, debugVars>>
  \/ /\ After("var") /\ Len(vals) >= 1
     /\ Continue(<<>>) /\ Write(env, N.tok, vals[1]) /\ Drop(1)
     /\ UNCHANGED <<exc, env, execDepth, functions, arrays, debugVars>>

VisitBlockStmt ==
  /\ Accepting("block")
  /\ EnterFrame("block", Tasks("run", N.kids), NoValues, env)
  /\ UNCHANGED <<vals, exc, functions, arrays, debugVars>>

ChooseBranch ==
  /\ After("if") /\ Len(vals) >= 1
  /\ Drop(1)
  /\ Continue(CASE IsTruthy(vals[1])  -> <<Task("run", N.kids[2])>>
                [] ~IsTruthy(vals[1]) /\ Len(N.kids) = 3 -> <<Task("run", N.kids[3])>>
                [] OTHER              -> <<>>)
  /\ UNCHANGED <<exc, storeVars, debugVars>>

\* The initializer of a for is visited without a stop; its body is run.
ForInit(n) == n.kids[1]
ForCond(n) == n.kids[2]
ForIncr(n) == n.kids[3]
ForBody(n) == n.kids[4]
Present(op, n, part) == IF part = Absent THEN <<>> ELSE <<Task(op, part)>>

VisitForStmt ==
  /\ Accepting("for")
  /\ EnterFrame("for", Append(Present("accept", N, ForInit(N)), Task("loop", N)), NoValues, env)
  /\ UNCHANGED <<vals, exc, functions, arrays, debugVars>>

ForIteration(n) == <<Task("run", ForBody(n)), Task("increment", n)>>

ForLoop ==
  /\ At("loop")
  /\ Continue(IF ForCond(N) = Absent THEN ForIteration(N)
                                     ELSE <<Task("accept", ForCond(N)), Task("test", N)>>)
  /\ UNCHANGED <<vals, exc, storeVars, debugVars>>

ForTest ==
  /\ At("test") /\ Len(vals) >= 1
  /\ Continue(IF IsTruthy(vals[1]) THEN ForIteration(N) ELSE <<>>)
  /\ Drop(1)
  /\ UNCHANGED <<exc, storeVars, debugVars>>

\* Mutant of ForIncrement: the increment is forgotten.
ForNoIncrement ==
  /\ At("increment")
  /\ Continue(<<Task("loop", N)>>)
  /\ UNCHANGED <<vals, exc, storeVars, debugVars>>

ForIncrement ==
  /\ At("increment")
  /\ Continue(Present("accept", N, ForIncr(N)) \o Present("drop", N, ForIncr(N))
                \o <<Task("loop", N)>>)
  /\ UNCHANGED <<vals, exc, storeVars, debugVars>>

-----------------------------------------------------------------------------
(* Functions.                                                               *)

\* Mutant of VisitFunctionStmt: every function is declared globally.
VisitGlobalFunctionStmt ==
  /\ Accepting("func")
  /\ Continue(<<>>)
  /\ functions' = [functions EXCEPT ![N.tok] = [decl |-> N, closure |-> 1]]
  /\ UNCHANGED <<vals, exc, scopeVars, arrays, debugVars>>

\* The closure is the address of the environment the declaration runs in.
VisitFunctionStmt ==
  /\ Accepting("func")
  /\ Continue(<<>>)
  /\ functions' = [functions EXCEPT ![N.tok] = [decl |-> N, closure |-> env]]
  /\ UNCHANGED <<vals, exc, scopeVars, arrays, debugVars>>

\* The value of a return travels on "vals".
VisitReturnStmt ==
  \/ /\ Accepting("return") /\ N.kids = <<>>
     /\ exc' = "return" /\ Push(Nil)
     /\ UNCHANGED <<frames, storeVars, debugVars>>
  \/ /\ After("return") /\ Len(vals) >= 1
     /\ exc' = "return"
     /\ UNCHANGED <<frames, vals, storeVars, debugVars>>

Callee(n)     == n.kids[1]
Arguments(n)  == Tail(n.kids)
IsFunction(x) == functions[x] # NoFunction

\* Which of the ways visitCallExpr goes on before it evaluates an argument.
CallKind(n) ==
  IF Callee(n).kind # "variable" THEN "error"
  ELSE LET x == Callee(n).tok IN
       IF IsFunction(x)
       THEN IF Len(Arguments(n)) = Len(functions[x].decl.params) THEN "enter" ELSE "error"
       ELSE IF x = "array" /\ Len(Arguments(n)) = 1 THEN "allocate" ELSE "error"

VisitCallExpr ==
  /\ Accepting("call")
  /\ IF CallKind(N) = "error"
     THEN Raise("error")
     ELSE /\ Continue(Append(Tasks("accept", Arguments(N)),
                             [op |-> CallKind(N), node |-> N,
                              decl |-> functions[Callee(N).tok].decl]))
          /\ UNCHANGED <<vals, exc, storeVars, debugVars>>

\* The arguments are evaluated.  "params" still refers to the declaration found
\* before; the entry itself is read again, so a declaration run by an argument
\* supplies the body and the closure.
ArgValues(params) ==
  LET k == Len(params) IN
  [x \in Name |->
     IF \E i \in 1..k : params[i] = x
     THEN vals[k + 1 - (CHOOSE i \in 1..k : params[i] = x)]
     ELSE Unset]

EnterCall(closure) ==
  LET params == Now.decl.params
      fn     == functions[Callee(N).tok] IN
  /\ EnterFrame("call", Tasks("run", fn.decl.kids), ArgValues(params), closure)
  /\ Drop(Len(params))
  /\ UNCHANGED <<exc, functions, arrays, debugVars>>

\* Mutant of CallFunction: the environment of the caller is the enclosing one.
CallFunctionInCaller ==
  /\ At("enter") /\ Len(vals) >= Len(Now.decl.params)
  /\ functions[Callee(N).tok].closure # Dangling
  /\ EnterCall(env)

CallFunction ==
  /\ At("enter") /\ Len(vals) >= Len(Now.decl.params)
  /\ LET c == functions[Callee(N).tok].closure IN
     c # Dangling /\ EnterCall(c)

\* Undefined behaviour: the stack slot of a destroyed environment.  A live
\* environment may have been built there since, or the process ends.
CallDangling ==
  /\ At("enter") /\ Len(vals) >= Len(Now.decl.params)
  /\ functions[Callee(N).tok].closure = Dangling
  /\ \/ \E e \in DOMAIN envs : EnterCall(e)
     \/ /\ exc' = "crash" /\ frames' = <<>>
        /\ UNCHANGED <<vals, storeVars, debugVars>>

AllocateArray ==
  /\ At("allocate") /\ Len(vals) >= 1
  /\ IF vals[1].type # "number" \/ vals[1].n < 0
     THEN Raise("error")
     ELSE /\ arrays' = Append(arrays, [i \in 1..vals[1].n |-> Nil])
          /\ Replace(1, [type |-> "array", n |-> Len(arrays) + 1])
          /\ Continue(<<>>)
          /\ UNCHANGED <<exc, scopeVars, functions, debugVars>>

-----------------------------------------------------------------------------
(* Leaving a frame: DepthGuard, ScopeGuard and the Environment are destroyed *)
(* on both ways out.                                                        *)

Destroy(e) ==
  functions' = [x \in Name |-> IF functions[x].closure = e
                               THEN [functions[x] EXCEPT !.closure = Dangling]
                               ELSE functions[x]]

\* Mutant of LeaveScope: an exception skips --execDepth_.
LeaveScopeNormally ==
  /\ envs' = Pop(envs)
  /\ env' = Top(frames).prev
  /\ execDepth' = IF exc = "none" THEN execDepth - 1 ELSE execDepth
  /\ Destroy(Len(envs))

LeaveScope ==
  /\ envs' = Pop(envs)
  /\ env' = Top(frames).prev
  /\ execDepth' = execDepth - 1
  /\ Destroy(Len(envs))

\* The frame has done its work; a function that did not return yields nil.
EndFrame ==
  /\ Executing /\ Todo = <<>>
  /\ frames' = Pop(frames)
  /\ IF Len(frames) = 1
     THEN UNCHANGED <<envs, env, execDepth, functions, vals>>
     ELSE /\ LeaveScope
          /\ IF Top(frames).kind = "call" THEN Push(Nil) ELSE UNCHANGED vals
  /\ UNCHANGED <<exc, arrays, debugVars>>

\* An exception leaves the frame; only a call catches, and only a return.
\* What execute() lets out is the business of the shell.
Unwind ==
  /\ frames # <<>> /\ exc # "none" /\ notified = Absent
  /\ frames' = Pop(frames)
  /\ IF Len(frames) = 1
     THEN /\ vals' = <<>>
          /\ UNCHANGED <<exc, envs, env, execDepth, functions>>
     ELSE /\ LeaveScope
          /\ exc' = IF exc = "return" /\ Top(frames).kind = "call" THEN "none" ELSE exc
          /\ UNCHANGED vals
  /\ UNCHANGED <<arrays, debugVars>>

ExecutorStep ==
  \/ Run
  \/ VisitLiteralExpr \/ VisitVariableExpr \/ EvaluateFirst \/ AssignValue
  \/ VisitBinaryExpr \/ UnaryValue \/ LogicalValue \/ VisitGroupingExpr
  \/ VisitIndexed \/ RequireArray \/ RequireIndex \/ StoreElement
  \/ PrintValue \/ VisitExpressionStmt \/ VisitVarDeclareStmt \/ VisitBlockStmt
  \/ ChooseBranch \/ VisitForStmt \/ ForLoop \/ ForTest \/ ForIncrement
  \/ VisitFunctionStmt \/ VisitReturnStmt
  \/ VisitCallExpr \/ CallFunction \/ CallDangling \/ AllocateArray
  \/ EndFrame \/ Unwind

ExecutorInit ==
  /\ frames = <<>> /\ vals = <<>> /\ exc = "none"
  /\ envs = <<[values |-> NoValues, chain |-> <<1>>]>>
  /\ env = 1 /\ execDepth = 0
  /\ functions = [x \in Name |-> NoFunction]
  /\ arrays = <<>>
  /\ observer = FALSE /\ notified = Absent
=============================================================================
