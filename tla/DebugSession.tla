---------------------------- MODULE DebugSession ----------------------------
(***************************************************************************)
(* Shell::runDebug with its Debugger: the session of Session.tla in debug  *)
(* mode, in which the executor waits for the debugger before statements.   *)
(***************************************************************************)
EXTENDS Session, Debugger

VARIABLE
  fewestEnvs \* history: the fewest environments there have been since the last "next"

debugSessionVars == <<vars, debuggerVars, fewestEnvs>>

\* Environments come and go like a stack: those up to the fewest are the ones that were
\* there at "next", the others are younger.
RememberFewest ==
  fewestEnvs' = IF CmdNext \/ Len(envs') < fewestEnvs THEN Len(envs') ELSE fewestEnvs

DebugInit == Init /\ DebuggerInit /\ fewestEnvs = 1

Debugging == DebuggerStep /\ UNCHANGED <<checkerVars, bindingVars, sessionVars>>

\* DebugQuitRequest came out of execute(): no rollback, and runDebug returns 0.
\* Mutant of ExecuteQuits: the observer is left installed.
ExecuteQuitsObserved ==
  /\ phase = "execute" /\ frames = <<>> /\ exc = "quit"
  /\ exc' = "none"
  /\ phase' = "ok"
  /\ UNCHANGED <<checkerVars, bindingVars, frames, vals, storeVars, debugVars,
                 mode, current, file, orphans, debuggerVars>>

ExecuteQuits ==
  /\ phase = "execute" /\ frames = <<>> /\ exc = "quit"
  /\ exc' = "none"
  /\ observer' = FALSE
  /\ phase' = "ok"
  /\ UNCHANGED <<checkerVars, bindingVars, frames, vals, storeVars, notified,
                 mode, current, file, orphans, debuggerVars>>

DebugNext ==
  /\ \/ Next /\ UNCHANGED debuggerVars
     \/ ExecuteQuits
     \/ Debugging
  /\ RememberFewest

\* The user need not type; the interpreter and beforeStatement go on by themselves.
DebugSpec ==
  /\ DebugInit /\ [][DebugNext]_debugSessionVars
  /\ WF_debugSessionVars(((Pipeline /\ UNCHANGED debuggerVars) \/ ExecuteQuits) /\ RememberFewest)
  /\ WF_debugSessionVars(BeforeStatement /\ Debugging /\ RememberFewest)

-----------------------------------------------------------------------------
(* Properties.                                                              *)

\* The Debugger is a local variable of runDebug: when runDebug has returned, by
\* whichever of its five exits, the executor no longer points to it.
ObserverRemoved == phase \in {"ok", "failed"} => ~observer

\* After "next" the program stops, without a breakpoint, only as follows.  While the scope
\* in which "next" was given is open, at the next statement of that very scope and at none
\* of a block, loop or function entered from it.  Once that scope is left, by whatever
\* exception or return, at the next statement of a scope around it - or of one entered
\* since, if it is no deeper, such as the next iteration's block or a function that is
\* called next: nextDepth_ is a depth and no scope.
NextScopeIsOpen == fewestEnvs = nextEnvs
NextStepsOverFrames ==
  [][ (notified # Absent /\ ~inLoop /\ stepMode = "next" /\ ~IsBreakpoint
       /\ (inLoop' \/ notified' = Absent))
      => (inLoop' <=> IF NextScopeIsOpen THEN Len(envs) = nextEnvs
                                         ELSE Len(envs) <= nextEnvs) ]_debugSessionVars

\* "continue" without breakpoints runs the program to its end.
ContinueRunsToEnd ==
  (~inLoop /\ stepMode = "run" /\ breakpoints = {}) ~> phase \in {"ok", "failed"}

\* A program does not notice the debugger: apart from "quit", every step of a debug run
\* is a step of the same file in file mode, or none, whatever commands are given and
\* whichever statements they are given at.
Plain == INSTANCE Session WITH
  Modes <- {"file"}, mode <- "file", observer <- FALSE, notified <- Absent
DebuggerIsTransparent ==
  [][exc # "quit" /\ exc' # "quit" => Plain!Next \/ UNCHANGED Plain!vars]_debugSessionVars

\* What a watch shows at a stop is what the statement then prints: debugLookup walks the
\* chain at the stop, the program reads at a distance computed beforehand, after the stop,
\* and both come to the same variable and the same element of an array.  Not so where a
\* distance leads elsewhere than a search: the name was declared after the statement was
\* bound, in a scope around it, and the watch shows the younger variable.
LeadsWhereSearched(v) == Holder(v) = Dynamic(v.tok)
VariableOf(e)         == IF e.kind = "index" THEN e.kids[1] ELSE e
WatchIsWhatIsPrinted ==
  After("print") /\ shown.node = N /\ LeadsWhereSearched(VariableOf(N.kids[1])) =>
    vals[1] = shown.value

\* The manual says of "next" that it runs the current statement, without entering
\* blocks or functions: the next stop is not inside that statement.
NextRunsStatement ==
  inLoop /\ stepMode = "next" /\ ~IsBreakpoint =>
    \A i \in DOMAIN nextAt.kids : nextAt.kids[i] # notified
=============================================================================
