------------------------------ MODULE Debugger ------------------------------
(***************************************************************************)
(* The stepping driver of debug mode (shell/Debugger.cpp).  run() of the   *)
(* executor calls beforeStatement and waits for it; while "notified" holds *)
(* a statement the executor is inside that call.                           *)
(***************************************************************************)
EXTENDS Executor, SequencesExt

CONSTANTS
  SourceLines, \* bounds: the line numbers a breakpoint may be set on,
  Watchable,   \* the names
  Elements     \* and the [name, index] records that may be watched
ASSUME DebuggerAssumption ==
  SourceLines \subseteq Int /\ Watchable \subseteq Name /\ Elements \subseteq [name : Name, index : Int]

VARIABLES
  stepMode,    \* mode_
  nextDepth,   \* nextDepth_
  breakpoints, \* breakpoints_
  inLoop,      \* is commandLoop reading commands?
  watches,     \* watches_
  indexedWatches, \* indexedWatches_
  shown,       \* history: what the last stop showed of the value a print is about to print
  nextEnvs,    \* history: how many environments there were at the last "next"
  nextAt       \* history: the statement the last "next" was given at, or Absent

watchVars    == <<watches, indexedWatches, shown>>
debuggerVars == <<stepMode, nextDepth, breakpoints, inLoop, watchVars, nextEnvs, nextAt>>

-----------------------------------------------------------------------------
(* What is shown at a stop.                                                 *)

Unknown(why) == [type |-> why, n |-> 0]

\* Mutant of DebugLookup: the outermost variable of the name.
DebugLookupOutermost(x) ==
  IF Hits(x) = {} THEN Unknown("undefined")
                  ELSE envs[Chain[CHOOSE d \in Hits(x) : \A o \in Hits(x) : o <= d]].values[x]

\* debugLookup of the executor: the nearest variable of the name.
DebugLookup(x) == IF Hits(x) = {} THEN Unknown("undefined") ELSE envs[Dynamic(x)].values[x]

ResolveIndexedWatch(w) ==
  LET v == DebugLookup(w.name) IN
  CASE v.type = "undefined"                 -> v
    [] v.type \notin {"undefined", "array"} -> Unknown("not an array")
    [] OTHER -> IF w.index \in 0..(Len(arrays[v.n]) - 1) THEN arrays[v.n][w.index + 1]
                                                         ELSE Unknown("index out of range")

\* reportWatches prints every watch; the one that counts is the expression that the
\* statement prints.
Nothing      == [node |-> Absent, value |-> Nil]
ElementOf(e) == [name |-> e.kids[1].tok, index |-> e.kids[2].val.n]
ReportWatches(n) ==
  LET e == n.kids[1] IN
  CASE n.kind # "print" -> Nothing
    [] n.kind = "print" /\ e.kind = "variable" /\ Contains(watches, e.tok) ->
         [node |-> n, value |-> DebugLookup(e.tok)]
    [] n.kind = "print" /\ e.kind = "index" /\ e.kids[1].kind = "variable"
       /\ e.kids[2].kind = "literal" /\ Contains(indexedWatches, ElementOf(e)) ->
         [node |-> n, value |-> ResolveIndexedWatch(ElementOf(e))]
    [] OTHER            -> Nothing

-----------------------------------------------------------------------------
IsBreakpoint == notified.line \in breakpoints

\* Mutant of ShouldPause: "run" is taken for "next".
ShouldPauseInRun == stepMode = "step" \/ execDepth <= nextDepth \/ IsBreakpoint

ShouldPause ==
  CASE stepMode = "step" -> TRUE
    [] stepMode = "next" -> execDepth <= nextDepth \/ IsBreakpoint
    [] OTHER             -> IsBreakpoint

\* beforeStatement: back to the executor at once, or on to the command loop.
BeforeStatement ==
  /\ notified # Absent /\ ~inLoop
  /\ IF ShouldPause THEN inLoop' = TRUE /\ shown' = ReportWatches(notified) /\ UNCHANGED notified
                    ELSE notified' = Absent /\ shown' = Nothing /\ UNCHANGED inLoop
  /\ UNCHANGED <<stepMode, nextDepth, breakpoints, watches, indexedWatches, nextEnvs, nextAt, exc>>

-----------------------------------------------------------------------------
(* The commands.                                                            *)

\* The command ends the loop, and the executor goes on with the statement.
Resume == inLoop /\ inLoop' = FALSE /\ notified' = Absent

CmdStep ==
  /\ Resume
  /\ stepMode' = "step"
  /\ UNCHANGED <<nextDepth, breakpoints, watchVars, nextEnvs, nextAt, exc>>

CmdNext ==
  /\ Resume
  /\ stepMode' = "next" /\ nextDepth' = execDepth
  /\ nextEnvs' = Len(envs) /\ nextAt' = notified
  /\ UNCHANGED <<breakpoints, watchVars, exc>>

\* "continue", and the end of the command stream.
CmdContinue ==
  /\ Resume
  /\ stepMode' = "run"
  /\ UNCHANGED <<nextDepth, breakpoints, watchVars, nextEnvs, nextAt, exc>>

\* DebugQuitRequest is thrown out of beforeStatement.
CmdQuit ==
  /\ Resume
  /\ exc' = "quit"
  /\ UNCHANGED <<stepMode, nextDepth, breakpoints, watchVars, nextEnvs, nextAt>>

CmdBreak(l) ==
  /\ inLoop
  /\ breakpoints' = breakpoints \cup {l}
  /\ UNCHANGED <<stepMode, nextDepth, inLoop, watchVars, nextEnvs, nextAt, notified, exc>>

CmdRemove(l) ==
  /\ inLoop
  /\ breakpoints' = breakpoints \ {l}
  /\ UNCHANGED <<stepMode, nextDepth, inLoop, watchVars, nextEnvs, nextAt, notified, exc>>

\* A watch is added once, and the list keeps the order.
Watched(list, w) == IF Contains(list, w) THEN list ELSE Append(list, w)

CmdWatch ==
  /\ inLoop
  /\ \/ \E x \in Watchable : watches' = Watched(watches, x) /\ UNCHANGED indexedWatches
     \/ \E e \in Elements : indexedWatches' = Watched(indexedWatches, e) /\ UNCHANGED watches
  /\ UNCHANGED <<stepMode, nextDepth, breakpoints, inLoop, shown, nextEnvs, nextAt, notified, exc>>

CmdUnwatch ==
  /\ inLoop
  /\ \/ \E x \in Watchable : watches' = Remove(watches, x) /\ UNCHANGED indexedWatches
     \/ \E e \in Elements : indexedWatches' = Remove(indexedWatches, e) /\ UNCHANGED watches
  /\ UNCHANGED <<stepMode, nextDepth, breakpoints, inLoop, shown, nextEnvs, nextAt, notified, exc>>

\* breakpoints, watches and inspect change nothing.
DebuggerStep ==
  /\ \/ BeforeStatement \/ CmdStep \/ CmdNext \/ CmdContinue \/ CmdQuit \/ CmdWatch \/ CmdUnwatch
     \/ \E l \in SourceLines : CmdBreak(l) \/ CmdRemove(l)
  /\ UNCHANGED <<frames, vals, storeVars, observer>>

DebuggerInit ==
  /\ stepMode = "step" /\ nextDepth = 0 /\ breakpoints = {} /\ inLoop = FALSE
  /\ watches = <<>> /\ indexedWatches = <<>> /\ shown = Nothing
  /\ nextEnvs = 0 /\ nextAt = Absent
=============================================================================
