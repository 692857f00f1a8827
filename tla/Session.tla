------------------------------ MODULE Session ------------------------------
(***************************************************************************)
(* One process of the interpreter: the shell (shell/Shell.cpp) drives      *)
(* checker, optimizers and executor, whose state outlives every line.       *)
(*                                                                         *)
(* A line, a block being typed and a file come in as parsed statements;    *)
(* how run() collects lines into them is the subject of Repl.  What cannot *)
(* be parsed reaches neither checker nor executor and changes nothing but, *)
(* in a file, ends the run.                                                *)
(***************************************************************************)
EXTENDS Checker, Executor, Folding

CONSTANTS
  Lines,      \* sequences of statements that processLine may be given
  Blocks,     \* sequences of statements that the pre-check of run() may be given
  Files,      \* [stmts, end] records: a file's statements and how it ends
  Height,     \* the height of every parsed statement: trees are finite
  Modes,      \* of main(): a subset of {"repl", "file", "debug"}
  MaxArrays   \* bound: no input is taken once this many arrays exist

ASSUME SessionAssumption ==
  /\ Lines \subseteq Seq(Statements) /\ Blocks \subseteq Seq(Statements)
  /\ Files \subseteq [stmts : Seq(Statements), end : {"eof", "parseError"}]
  /\ Modes \subseteq {"repl", "file", "debug"}
  /\ MaxArrays \in Nat

\* The parser returns statements, never null: only members of a for's header may be.
ASSUME ProgramAssumption ==
  Lines \cup Blocks \cup {f.stmts : f \in Files}
    \subseteq Seq({n \in Statements : n.kind \in StmtKind})

\* What is parsed is a finite tree, and Node holds what folding makes of it.
ASSUME FoldAssumption ==
  /\ Statements \subseteq Node
  /\ \A n \in Statements :
       /\ FoldStmt[n] \in Node
       /\ Height[n] \in Nat
       /\ \A i \in DOMAIN n.kids \cap SubStatements(n) :
            n.kids[i] \in Statements /\ Height[n.kids[i]] < Height[n]

VARIABLES
  mode,     \* how main() started the shell
  phase,    \* where the pipeline is
  current,  \* the statements going through it
  file,     \* the statements of the file that are still to come
  orphans   \* history: names a rollback took from the checker after a run failed

sessionVars == <<mode, phase, current, file, orphans>>
vars == <<checkerVars, bindingVars, executorVars, sessionVars>>

Phase   == {"idle", "precheck", "check", "bind", "execute", "next", "ok", "failed", "dead"}
Working == {"precheck", "check", "bind", "execute"}

InputAllowed == phase = "idle" /\ Len(arrays) <= MaxArrays

-----------------------------------------------------------------------------
(* What arrives.                                                            *)

\* processLine: tokenized, parsed, handed to check().
ProcessLine(stmts) ==
  /\ mode = "repl" /\ InputAllowed
  /\ CheckBegin(stmts)
  /\ current' = stmts /\ phase' = "check"
  /\ UNCHANGED <<strictGlobalCheck, bindingVars, executorVars, mode, file, orphans>>

\* run(): what was typed of a block so far, closed by dummy braces, is checked
\* in strict mode and never run.
Precheck(stmts) ==
  /\ mode = "repl" /\ InputAllowed
  /\ CheckBegin(stmts)
  /\ strictGlobalCheck' = TRUE
  /\ current' = stmts /\ phase' = "precheck"
  /\ UNCHANGED <<bindingVars, executorVars, mode, file, orphans>>

\* runFile and runDebug: the file is read and tokenized; debug mode installs
\* the observer.
LoadFile(f) ==
  /\ mode \in {"file", "debug"} /\ InputAllowed
  /\ file' = f
  /\ observer' = (mode = "debug")
  /\ phase' = "next"
  /\ UNCHANGED <<checkerVars, bindingVars, frames, vals, exc, storeVars, notified,
                 mode, current, orphans>>

\* It cannot be opened or tokenized.
LoadFails ==
  /\ mode \in {"file", "debug"} /\ InputAllowed
  /\ phase' = "failed"
  /\ UNCHANGED <<checkerVars, bindingVars, executorVars, mode, current, file, orphans>>

-----------------------------------------------------------------------------
(* The loop of runFile and runDebug.                                        *)

\* parseOne yields the next statement.
NextStatement ==
  /\ phase = "next" /\ file.stmts # <<>>
  /\ CheckBegin(<<Head(file.stmts)>>)
  /\ current' = <<Head(file.stmts)>>
  /\ file' = [file EXCEPT !.stmts = Tail(@)]
  /\ phase' = "check"
  /\ UNCHANGED <<strictGlobalCheck, bindingVars, executorVars, mode, orphans>>

\* It finds the end, or throws: the observer is removed either way.
EndOfFile ==
  /\ phase = "next" /\ file.stmts = <<>>
  /\ observer' = FALSE
  /\ phase' = IF file.end = "eof" THEN "ok" ELSE "failed"
  /\ UNCHANGED <<checkerVars, bindingVars, frames, vals, exc, storeVars, notified,
                 mode, current, file, orphans>>

\* Where the shell goes when the statements in the pipeline are done with.
AfterSuccess == IF mode = "repl" THEN "idle" ELSE "next"
AfterFailure == IF mode = "repl" THEN "idle" ELSE "failed"

-----------------------------------------------------------------------------
(* Checking.                                                                *)

Checking ==
  /\ phase \in {"precheck", "check"}
  /\ CheckerStep
  /\ UNCHANGED <<bindingVars, executorVars, sessionVars>>

\* The verdict of a pre-check is printed; what it declared is taken back.
\* Mutant of PrecheckDone: what the pre-check declared stays.
PrecheckKept ==
  /\ phase = "precheck" /\ checking = <<>>
  /\ strictGlobalCheck' = FALSE
  /\ phase' = "idle"
  /\ UNCHANGED <<checking, scopes, globalScope, globalScopeSnapshot, functionDepth,
                 checkError, bindingVars, executorVars, mode, current, file, orphans>>
\* Mutant of PrecheckDone: an error leaves the checker strict.
PrecheckStaysStrict ==
  /\ phase = "precheck" /\ checking = <<>>
  /\ strictGlobalCheck' = (checkError # NoError)
  /\ RollbackLastCheck
  /\ phase' = "idle"
  /\ UNCHANGED <<checking, scopes, globalScopeSnapshot, functionDepth, checkError,
                 bindingVars, executorVars, mode, current, file, orphans>>

PrecheckDone ==
  /\ phase = "precheck" /\ checking = <<>>
  /\ strictGlobalCheck' = FALSE
  /\ RollbackLastCheck
  /\ phase' = "idle"
  /\ UNCHANGED <<checking, scopes, globalScopeSnapshot, functionDepth, checkError,
                 bindingVars, executorVars, mode, current, file, orphans>>

\* processLine prints the CheckError and is done; runFile and runDebug roll back.
CheckRejects ==
  /\ phase = "check" /\ checking = <<>> /\ checkError # NoError
  /\ IF mode = "repl" THEN UNCHANGED globalScope ELSE RollbackLastCheck
  /\ observer' = FALSE
  /\ phase' = AfterFailure
  /\ UNCHANGED <<checking, scopes, globalScopeSnapshot, functionDepth, strictGlobalCheck,
                 checkError, bindingVars, frames, vals, exc, storeVars, notified,
                 mode, current, file, orphans>>

CheckAccepts ==
  /\ phase = "check" /\ checking = <<>> /\ checkError = NoError
  /\ BindBegin(current)
  /\ phase' = "bind"
  /\ UNCHANGED <<checkerVars, executorVars, mode, current, file, orphans>>

-----------------------------------------------------------------------------
(* Optimizing and executing.  main() installs static binding, then constant *)
(* folding, which takes no step of its own here.                            *)

Optimizing ==
  /\ phase = "bind"
  /\ BindStep
  /\ UNCHANGED <<checkerVars, executorVars, sessionVars>>

OptimizeDone ==
  /\ phase = "bind" /\ binding = <<>>
  /\ current' = Fold(current)
  /\ ExecuteBegin(Fold(current))
  /\ phase' = "execute"
  /\ UNCHANGED <<checkerVars, bindingVars, mode, file, orphans>>

Interpreting ==
  /\ phase = "execute"
  /\ ExecutorStep
  /\ UNCHANGED <<checkerVars, bindingVars, sessionVars>>

ExecuteReturns ==
  /\ phase = "execute" /\ frames = <<>> /\ exc = "none"
  /\ phase' = AfterSuccess
  /\ UNCHANGED <<checkerVars, bindingVars, executorVars, mode, current, file, orphans>>

\* A std::exception came out of execute(): what the last check() declared is
\* taken back, what the executor did stays.
ExecuteThrows ==
  /\ phase = "execute" /\ frames = <<>> /\ exc \in {"error", "unlocated"}
  /\ RollbackLastCheck
  /\ orphans' = orphans \cup (globalScope \ globalScopeSnapshot)
  /\ exc' = "none"
  /\ observer' = FALSE
  /\ phase' = AfterFailure
  /\ UNCHANGED <<checking, scopes, globalScopeSnapshot, functionDepth, strictGlobalCheck,
                 checkError, bindingVars, frames, vals, storeVars, notified,
                 mode, current, file>>

\* A ReturnException is no std::exception: catch (...) of processLine and runDebug
\* rolls back and throws it again, runFile has none, and main catches nothing.
ProcessDies ==
  /\ phase = "execute" /\ frames = <<>> /\ exc \in {"return", "crash"}
  /\ phase' = "dead"
  /\ IF exc = "return" /\ mode # "file" THEN RollbackLastCheck ELSE UNCHANGED globalScope
  /\ observer' = (observer /\ exc = "crash")
  /\ UNCHANGED <<checking, scopes, globalScopeSnapshot, functionDepth, strictGlobalCheck,
                 checkError, bindingVars, frames, vals, exc, storeVars, notified,
                 mode, current, file, orphans>>

Stopped == phase \in {"ok", "failed", "dead"} /\ UNCHANGED vars

-----------------------------------------------------------------------------
(* The specification.                                                       *)

Init ==
  /\ CheckerInit /\ BindingInit /\ ExecutorInit
  /\ mode \in Modes
  /\ phase = "idle"
  /\ current = <<>>
  /\ file = [stmts |-> <<>>, end |-> "eof"]
  /\ orphans = {}

Input ==
  \/ \E l \in Lines : ProcessLine(l)
  \/ \E b \in Blocks : Precheck(b)
  \/ \E f \in Files : LoadFile(f)
  \/ LoadFails

Pipeline ==
  \/ NextStatement \/ EndOfFile
  \/ Checking \/ PrecheckDone \/ CheckRejects \/ CheckAccepts
  \/ Optimizing \/ OptimizeDone
  \/ Interpreting \/ ExecuteReturns \/ ExecuteThrows \/ ProcessDies

Next == Input \/ Pipeline \/ Stopped

\* One thread: whatever has begun goes on.  Nothing makes a user type.
Spec == Init /\ [][Next]_vars /\ WF_vars(Pipeline)

-----------------------------------------------------------------------------
(* Properties.                                                              *)

\* The types of the shell's own state and of what the executor keeps.
SessionTypeOK ==
  /\ CheckerTypeOK /\ BindingTypeOK
  /\ exc \in Exception /\ vals \in Seq(Value) /\ arrays \in Seq(Seq(Value))
  /\ execDepth \in Nat /\ env \in Nat
  /\ \A x \in Name : functions[x].closure \in 0..Len(envs)
  /\ mode \in Modes /\ phase \in Phase
  /\ orphans \subseteq Name

\* Between two inputs nothing is left of the last one, whichever way it ended:
\* no scope in the checker, no frame, environment, value or exception in the
\* executor, no strict mode.  (ScopeGuard, DepthGuard, the catch clauses of
\* Checker.cpp, setStrictGlobalCheck(false) in Shell::run.)
IdleIsClean ==
  phase \in {"idle", "next"} =>
    /\ checking = <<>> /\ scopes = <<>> /\ functionDepth = 0 /\ ~strictGlobalCheck
    /\ binding = <<>>
    /\ frames = <<>> /\ vals = <<>> /\ exc = "none"
    /\ Len(envs) = 1 /\ env = 1 /\ execDepth = 0

\* env_ is the newest environment, execDepth_ counts the local ones, every frame has
\* its own, and a chain leads from each down the stack to global_: ScopeGuard and
\* DepthGuard undo what the visitors did whichever exception passes.
EnvironmentStack ==
  exc # "crash" =>
    /\ env = Len(envs) /\ execDepth = Len(envs) - 1
    /\ Len(envs) = IF frames = <<>> THEN 1 ELSE Len(frames)
    /\ \A e \in DOMAIN envs :
         LET c == envs[e].chain IN
         /\ c[1] = e /\ c[Len(c)] = 1
         /\ \A d \in 2..Len(c) : c[d] < c[d - 1]

\* A ReturnException always has a call above it to catch it, so it never
\* leaves execute(): visitReturnStmt relies on functionDepth_ of the checker.
ReturnIsCaught ==
  exc = "return" => \E i \in DOMAIN frames : frames[i].kind = "call"

\* What the executor holds globally the checker knows as declared, so that a
\* second declaration is refused - unless a rollback made the checker forget it.
Held == {x \in Name : Has(1, x) \/ IsFunction(x)}
HeldNamesAreKnown == Held \subseteq globalScope \cup orphans

\* A global variable is created once: a declaration about to write to global_
\* finds the name free - unless a rollback made the checker forget it.
AboutToDefine == (Accepting("var") /\ N.kids = <<>>) \/ After("var")
GlobalsDefinedOnce ==
  AboutToDefine => (env = 1 /\ Has(1, N.tok) => N.tok \in orphans)

\* The shell keeps the promise of Ledger: a name declared by one line is not
\* forgotten because of a later one, a pre-check leaves no trace, and what the
\* executor creates the checker has admitted first - although a rollback may have made
\* it forget the name since, and a function of that line creates it afterwards.
Provisional == IF phase \in Working THEN globalScope \ globalScopeSnapshot ELSE {}
Ledger == INSTANCE Ledger WITH
  known <- globalScope \ Provisional, fresh <- Provisional, held <- Held,
  lost <- orphans, trial <- phase = "precheck"
LedgerSpec == Ledger!Spec

\* visitIndexAssignExpr checks the index before it evaluates the value, which may run
\* any function: the element is still there when it is written.
StoreInBounds ==
  After("indexAssign") => vals[2].n \in 0..(Len(arrays[vals[3].n]) - 1)

\* The function a call enters is the one its arguments were counted for, although an
\* argument may declare the name anew - unless that declaration ended with its scope.
CallRunsCheckedDecl ==
  At("enter") /\ functions[Callee(N).tok].closure # Dangling =>
    functions[Callee(N).tok].decl = Now.decl

\* Every line ends with the prompt, whether it was run, refused or failed (for programs
\* that terminate) - unless it calls into an environment that is gone.
EveryLineEnds == mode = "repl" /\ phase \in Working ~> phase = "idle" \/ exc = "crash"

\* A file runs to its end or to an error that is reported: no exception that runFile
\* does not catch gets out of it (for programs that terminate), unless it calls into an
\* environment that is gone.
FileEnds == phase = "next" ~> phase \in {"ok", "failed"} \/ exc = "crash"

-----------------------------------------------------------------------------
(* What the documentation says of the program and the program does not do.  *)

\* Executor.h on FunctionEntry: the raw pointers are valid during execute().  A call
\* finds the environment its function was declared in alive.
ClosureIsAlive == At("enter") => functions[Callee(N).tok].closure # Dangling

\* The manual on the pre-check: a line is skipped that uses a variable never declared.
\* array(n), which it gives as the way to create an array, is none.
StrictKnowsArray == phase = "precheck" => checkError # CheckError("undefined", "array")

\* The manual on "already declared in global scope": the cause is a second var of the
\* name, so there is a variable of that name, from an earlier line or from this one.
RefusedNamesExist ==
  checkError.kind = "redeclared" /\ Len(checking) = 1 =>
    checkError.tok \in Held \cup (globalScope \ globalScopeSnapshot)
=============================================================================
