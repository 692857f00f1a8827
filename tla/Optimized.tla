------------------------------ MODULE Optimized -----------------------------
(***************************************************************************)
(* What the two optimizers promise: the program does what it did.  A       *)
(* program is run twice, as parsed by one executor and, after binding and  *)
(* folding (the order of main.cpp), by another; what can be seen of the    *)
(* first run is kept to be compared with the second.                       *)
(***************************************************************************)
EXTENDS Executor, Folding, SequencesExt

CONSTANTS
  Sources, \* the programs: sequences of statements the checker accepts
  Placed   \* Placed[p]: where each node of a program stands in its text
ASSUME SourcesAssumption == Sources \subseteq Seq(Node)

(***************************************************************************)
(* Lexical scopes, as the text shows them.  A place is a node and the      *)
(* names of the variables and parameters that the scopes around it declare *)
(* directly, anywhere in them; the innermost scope comes first and what    *)
(* stands outside of every block, for and function stands in <<>>.         *)
(***************************************************************************)
Place(n, scopes) == [node |-> n, scopes |-> scopes]

\* What the children of the node of a place may have around them.
Inside(s) ==
  IF s.node.kind \in {"block", "for", "func"}
  THEN {<<names>> \o s.scopes :
          names \in {ns \in SUBSET Name : \A i \in DOMAIN s.node.params : s.node.params[i] \in ns}}
  ELSE {s.scopes}

ASSUME PlacedAssumption ==
  \A p \in Sources :
    /\ Placed[p] \subseteq [node : Node, scopes : Seq(SUBSET Name)]
    /\ \A tree \in {p, Fold(p)} :
         tree \in Seq(Node) /\ \A i \in DOMAIN tree : Place(tree[i], <<>>) \in Placed[p]
    /\ \A s \in Placed[p] :
         /\ s.node.kind = "var" /\ s.scopes # <<>> => s.node.tok \in s.scopes[1]
         /\ \E scopes \in Inside(s) :
              \A i \in DOMAIN s.node.kids : Place(s.node.kids[i], scopes) \in Placed[p]

\* Two uses of a name that Site does not tell apart stand in the same scopes.
ASSUME SiteAssumption ==
  \A p \in Sources : \A s, t \in {u \in Placed[p] : u.node.kind \in {"variable", "assign"}} :
    Site(s.node) = Site(t.node) => s.scopes = t.scopes

VARIABLES
  stage,    \* "parsed", "plain", "bind", "optimized" or "done"
  program,  \* the statements
  printed,  \* history: the values printed by the present run
  failedAt, \* history: operator or name, and line, of the node that threw
  plain,    \* history: what could be seen of the first run
  timely,   \* history: the sites that were bound when all they could mean was declared
  dangled,  \* history: was a function called after its closure was destroyed?
  astray    \* history: did a distance lead elsewhere than a search does?

runVars == <<stage, program, printed, failedAt, plain, timely, dangled, astray>>
vars    == <<bindingVars, executorVars, runVars>>

Nowhere == <<"", 0>>

\* What a user can tell apart: what was printed, how it ended, what exists now.
Outcome == [printed |-> printed, exc |-> exc, failedAt |-> failedAt,
            variables |-> envs[1].values, functions |-> {x \in Name : IsFunction(x)},
            arrays |-> arrays]

\* The executor is about to read or to assign a variable.
Bound == \/ At("accept") /\ N.kind = "variable"
         \/ After("assign")

\* Resolver looks a name up for node n: none of the scopes it passes without finding the
\* name declares it further on.
Passed(x) ==
  Len(bindScopes) -
    (IF BindHolders(x) = {} THEN 0
     ELSE CHOOSE i \in BindHolders(x) : \A j \in BindHolders(x) : j <= i)
IsTimely(n) ==
  \A s \in Placed[program] : s.node = n =>
    \A i \in 1..Passed(n.tok) : n.tok \notin s.scopes[i]

-----------------------------------------------------------------------------
Start ==
  /\ stage = "parsed"
  /\ ExecuteBegin(program)
  /\ stage' = "plain"
  /\ UNCHANGED <<bindingVars, program, printed, failedAt, plain, timely, dangled, astray>>

Interpreting ==
  /\ stage \in {"plain", "optimized"}
  /\ ExecutorStep
  /\ printed' = IF After("print") THEN Append(printed, vals[1]) ELSE printed
  /\ failedAt' = IF exc = "none" /\ exc' \in {"error", "unlocated"}
                 THEN <<N.tok, N.line>> ELSE failedAt
  /\ dangled' = (dangled \/ (At("enter") /\ functions[Callee(N).tok].closure = Dangling))
  /\ astray' = (astray \/ (stage = "optimized" /\ Bound /\ Holder(N) # Dynamic(N.tok)))
  /\ UNCHANGED <<bindingVars, stage, program, plain, timely>>

\* A new executor, and the first optimizer.
PlainEnds ==
  /\ stage = "plain" /\ frames = <<>>
  /\ plain' = Outcome
  /\ vals' = <<>> /\ exc' = "none" /\ arrays' = <<>>
  /\ envs' = <<[values |-> NoValues, chain |-> <<1>>]>> /\ env' = 1 /\ execDepth' = 0
  /\ functions' = [x \in Name |-> NoFunction]
  /\ UNCHANGED <<frames, debugVars>>
  /\ printed' = <<>> /\ failedAt' = Nowhere
  /\ BindBegin(program)
  /\ stage' = "bind"
  /\ UNCHANGED <<program, timely, dangled, astray>>

Optimizing ==
  /\ stage = "bind"
  /\ BindStep
  /\ timely' = IF BindVariable \/ BindTarget
               THEN LET n == BindNext.node IN
                    IF IsTimely(n) THEN timely \cup {Site(n)} ELSE timely \ {Site(n)}
               ELSE timely
  /\ UNCHANGED <<executorVars, stage, program, printed, failedAt, plain, dangled, astray>>

\* The second optimizer.
OptimizeDone ==
  /\ stage = "bind" /\ binding = <<>>
  /\ ExecuteBegin(Fold(program))
  /\ stage' = "optimized"
  /\ UNCHANGED <<bindingVars, program, printed, failedAt, plain, timely, dangled, astray>>

OptimizedEnds ==
  /\ stage = "optimized" /\ frames = <<>>
  /\ stage' = "done"
  /\ UNCHANGED <<bindingVars, executorVars, program, printed, failedAt, plain, timely, dangled, astray>>

Done == stage = "done" /\ UNCHANGED vars

Init ==
  /\ BindingInit /\ ExecutorInit
  /\ stage = "parsed" /\ program \in Sources
  /\ printed = <<>> /\ failedAt = Nowhere /\ plain = <<>>
  /\ timely = {} /\ dangled = FALSE /\ astray = FALSE

Next == \/ Start \/ Interpreting \/ PlainEnds \/ Optimizing \/ OptimizeDone
        \/ OptimizedEnds \/ Done

Spec == Init /\ [][Next]_vars

-----------------------------------------------------------------------------
(* Properties.                                                              *)

\* The environments at run time are the scopes of the text, though they come and go with
\* calls, loops and branches: where a variable is used the chain has an environment for
\* every scope around the use and global_, and none of them holds a name its scope does
\* not declare.  Not so after a call through a closure that is destroyed, which may build
\* its environment upon any.
ScopesAreEnvironments ==
  Bound /\ ~dangled =>
    \E s \in Placed[program] :
      /\ s.node = N
      /\ Len(Chain) = Len(s.scopes) + 1
      /\ \A i \in DOMAIN s.scopes : \A x \in Name : Has(Chain[i], x) => x \in s.scopes[i]

\* The distance computed before the run never leads as far as global_, let alone off the
\* chain.  Of a name that was bound when all it could mean was declared, it leads to the
\* variable that a search of the chain would find, or to none that exists yet, and if
\* there is no distance the variable is global.
StaticIsDynamic ==
  stage = "optimized" /\ Bound /\ ~dangled =>
    /\ DistanceOf(N) < Len(Chain) - 1
    /\ Site(N) \in timely =>
         IF DistanceOf(N) >= 0
         THEN Static(N.tok, DistanceOf(N)) \in {0, Dynamic(N.tok)}
         ELSE Dynamic(N.tok) \in {0, 1}

\* The optimized program prints the same values in the same order, leaves the same
\* variables, functions and arrays, and fails where the parsed one fails, if its distances
\* do not lead elsewhere than a search: an expression whose evaluation throws is neither
\* folded away nor evaluated early.  The message is the same too, but for a variable that
\* is not there at its distance: getAt and assignAt do not know the line.
SameMessage ==
  \/ exc = plain.exc
  \/ exc = "unlocated" /\ plain.exc = "error" /\ failedAt[1] \in Name
SameOutcome ==
  stage = "done" /\ ~dangled /\ ~astray =>
    SameMessage /\ [Outcome EXCEPT !.exc = plain.exc] = plain
=============================================================================
