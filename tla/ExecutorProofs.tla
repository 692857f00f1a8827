--------------------------- MODULE ExecutorProofs ---------------------------
(***************************************************************************)
(* What the executor keeps true of env_, execDepth_ and the environments,  *)
(* for all programs.  EnvironmentStack of Session.tla is not inductive: an *)
(* env_ that ScopeGuard restores is right only if the frame saved the one  *)
(* below it, and a chain that a call starts is right only if the closure   *)
(* of its function is alive - which needs the callee to be a name, so what *)
(* is known of the work that is left belongs to the invariant too.  It     *)
(* relies on the binding pass, whose own invariant comes first: what it    *)
(* has written into the tree is a distance.                                *)
(***************************************************************************)
EXTENDS Executor, Stacks

Indexed   == {"index", "indexAssign"}
PlainOp   == {"run", "accept", "after", "drop"}
ForOp     == {"loop", "test", "increment"}
IndexOp   == {"requireArray", "requireIndex"}
CallOp    == {"enter", "allocate"}
TaskType  ==
  {t \in [op : PlainOp \cup ForOp \cup IndexOp \cup CallOp, node : Node, decl : Node] :
     /\ t.op \in ForOp => t.node.kind = "for"
     /\ t.op \in IndexOp => t.node.kind \in Indexed
     /\ t.op \in CallOp => t.node.kind = "call" /\ Callee(t.node).kind = "variable"}
FrameType == [kind : {"execute", "block", "for", "call"}, work : Seq(TaskType), prev : Nat]

\* A chain leads from its environment down the stack to global_.
ChainFrom(c, e) ==
  /\ c \in Seq(1..e) /\ Len(c) >= 1
  /\ c[1] = e /\ c[Len(c)] = 1
  /\ \A d \in 2..Len(c) : c[d] < c[d - 1]

\* A value that is an array stands for one that was created.
HeapValue == {v \in Value : v.type = "array" => v.n \in 1..Len(arrays)}
Held1     == HeapValue \cup {Unset}
EnvType   == [values : [Name -> Held1], chain : Seq(Nat)]

FramesTyped == frames \in Seq(FrameType)
StoreTyped  == vals \in Seq(HeapValue) /\ arrays \in Seq(Seq(HeapValue))
EnvsTyped   == envs \in Seq(EnvType)
ClosuresAlive == functions \in [Name -> [decl : Node, closure : 0..Len(envs)]]
MemoryTyped == StoreTyped /\ EnvsTyped /\ ClosuresAlive
Aligned     ==
  /\ env = Len(envs) /\ execDepth = Len(envs) - 1
  /\ Len(envs) = IF frames = <<>> THEN 1 ELSE Len(frames)
  /\ \A i \in 2..Len(frames) : frames[i].prev = i - 1
ChainsLeadOut == \A e \in 1..Len(envs) : ChainFrom(envs[e].chain, e)

FramesInv == FramesTyped /\ MemoryTyped /\ Aligned /\ ChainsLeadOut
\* Of a process that has crashed only the types are left.
ExecutorInv ==
  IF exc = "crash"
  THEN frames = <<>> /\ MemoryTyped /\ env \in Nat /\ execDepth \in Nat
  ELSE FramesInv

\* What the binding pass has written into the tree.
DistancesTyped == \A s \in DOMAIN distance : distance[s] \in Nat

-----------------------------------------------------------------------------
(* The binding pass.  Resolver opens and closes scopes_ with its visitors,  *)
(* so that what it writes into the tree is a number of scopes.              *)

BindItem   == [op : {"visit", "target"}, node : Node]
BindScoped == Len(bindScopes) = IF binding = <<>> THEN 0 ELSE Len(binding) - 1
BindingInv == BindingTypeOK /\ BindScoped

\* The innermost of the scopes that hold a name.
LEMMA InnermostHolder ==
  ASSUME BindingTypeOK, NEW x, BindHolders(x) # {}
  PROVE  /\ Len(bindScopes) \in Nat
         /\ (CHOOSE i \in BindHolders(x) : \A j \in BindHolders(x) : j <= i) \in 1..Len(bindScopes)
<1> DEFINE H == BindHolders(x)
           n == Len(bindScopes)
           T == {n - i : i \in H}
           c == CHOOSE k \in H : \A j \in H : j <= k
<1>1. n \in Nat /\ H \in SUBSET (1..n)
  BY LenProperties DEF BindingTypeOK, BindHolders
<1>2. T \in SUBSET Nat /\ T # {}
  BY <1>1
<1>3. PICK m \in T : \A k \in T : m <= k
  <2> HIDE DEF T
  <2> QED BY <1>2, LeastNumber
<1>4. PICK i \in H : m = n - i
  OBVIOUS
<1>5. \A j \in H : n - j \in T
  OBVIOUS
<1>6. \A j \in H : j <= i
  <2> HIDE DEF T, H
  <2> QED BY <1>1, <1>3, <1>4, <1>5
<1>7. c \in H
  <2> HIDE DEF H
  <2> QED BY <1>6
<1> QED BY <1>1, <1>7

LEMMA DistanceType ==
  ASSUME BindingTypeOK, NEW x, ComputeDistance(x) >= 0
  PROVE  ComputeDistance(x) \in Nat
<1> DEFINE c == CHOOSE i \in BindHolders(x) : \A j \in BindHolders(x) : j <= i
<1>1. CASE BindHolders(x) = {}
  BY <1>1 DEF ComputeDistance
<1>2. CASE BindHolders(x) # {}
  <2>1. ComputeDistance(x) = Len(bindScopes) - c
    BY <1>2 DEF ComputeDistance
  <2>2. Len(bindScopes) \in Nat /\ c \in 1..Len(bindScopes)
    BY <1>2, InnermostHolder
  <2> HIDE DEF c
  <2> QED BY <2>1, <2>2
<1> QED BY <1>1, <1>2

LEMMA SetDistanceType ==
  ASSUME BindingTypeOK, NEW n \in Node, n.kind \in {"variable", "assign"}, SetDistance(n)
  PROVE  /\ DOMAIN distance' \subseteq Name \X Nat
         /\ \A s \in DOMAIN distance' : distance'[s] \in Nat
<1> DEFINE d == ComputeDistance(n.tok)
<1>1. Site(n) \in Name \X Nat
  BY NodeAssumption DEF Site
<1>2. CASE d >= 0
  <2>1. d \in Nat
    BY <1>2, DistanceType
  <2>2. distance' = [s \in DOMAIN distance \cup {Site(n)} |->
                       IF s = Site(n) THEN d ELSE distance[s]]
    BY <1>2 DEF SetDistance
  <2> HIDE DEF d
  <2> QED BY <1>1, <2>1, <2>2 DEF BindingTypeOK
<1>3. CASE ~(d >= 0)
  BY <1>3 DEF SetDistance, BindingTypeOK
<1> QED BY <1>2, <1>3

\* What a visitor of Resolver does to the activations.
LEMMA BindStack ==
  ASSUME BindingTypeOK, binding # <<>>
  PROVE  /\ Len(binding) \in Nat \ {0}
         /\ Pop(binding) \in Seq([work : Seq(BindItem)]) /\ Len(Pop(binding)) = Len(binding) - 1
         /\ BindWork \in Seq(BindItem)
         /\ \A more \in Seq(BindItem) :
              BindWork # <<>> /\ BindExpand(more) =>
                /\ binding' \in Seq([work : Seq(BindItem)])
                /\ Len(binding') = Len(binding) /\ binding' # <<>>
         /\ \A more \in Seq(BindItem) :
              BindWork # <<>> /\ BindEnter(more) =>
                /\ binding' \in Seq([work : Seq(BindItem)])
                /\ Len(binding') = Len(binding) + 1 /\ binding' # <<>>
<1> DEFINE S    == [work : Seq(BindItem)]
           R(w) == [binding EXCEPT ![Len(binding)].work = w]
<1>1. binding \in Seq(S)
  BY DEF BindingTypeOK, BindItem
<1>2. /\ Len(binding) \in Nat \ {0} /\ Top(binding) \in S
      /\ Pop(binding) \in Seq(S) /\ Len(Pop(binding)) = Len(binding) - 1
  BY <1>1, TopPop
<1>3. BindWork \in Seq(BindItem)
  BY <1>2 DEF BindWork
<1>4. ASSUME NEW w \in Seq(BindItem)
      PROVE  R(w) \in Seq(S) /\ Len(R(w)) = Len(binding) /\ R(w) # <<>>
  <2> DEFINE a == [Top(binding) EXCEPT !.work = w]
             t == [binding EXCEPT ![Len(binding)] = a]
  <2>1. a \in S
    BY <1>2
  <2>2. R(w) = t
    BY DEF Top
  <2> HIDE DEF a, S, R
  <2>3. t \in Seq(S) /\ Len(t) = Len(binding)
    BY <1>1, <2>1, ReplaceTop
  <2> QED BY <1>2, <2>2, <2>3
<1>5. ASSUME NEW more \in Seq(BindItem), BindWork # <<>>, BindExpand(more)
      PROVE  binding' \in Seq(S) /\ Len(binding') = Len(binding) /\ binding' # <<>>
  <2>1. more \o Tail(BindWork) \in Seq(BindItem)
    BY <1>3, <1>5, ConsumeWork
  <2>2. binding' = R(more \o Tail(BindWork))
    BY <1>5 DEF BindExpand, BindWork, Top
  <2> HIDE DEF R
  <2> QED BY <1>4, <2>1, <2>2
<1>6. ASSUME NEW more \in Seq(BindItem), BindWork # <<>>, BindEnter(more)
      PROVE  binding' \in Seq(S) /\ Len(binding') = Len(binding) + 1 /\ binding' # <<>>
  <2> DEFINE t == R(Tail(BindWork))
  <2>1. Tail(BindWork) \in Seq(BindItem)
    BY <1>3, <1>6, HeadTailProperties
  <2>2. t \in Seq(S) /\ Len(t) = Len(binding)
    <3> HIDE DEF R
    <3> QED BY <1>4, <2>1
  <2>3. binding' = Append(t, [work |-> more])
    BY <1>6 DEF BindEnter, BindWork, Top
  <2>4. [work |-> more] \in S
    OBVIOUS
  <2> HIDE DEF t, S
  <2> QED BY <2>2, <2>3, <2>4, AppendProperties
<1> QED BY <1>2, <1>3, <1>5, <1>6

LEMMA BindStepInv ==
  ASSUME BindingInv, BindStep
  PROVE  BindingInv'
<1> USE DEF BindingInv
<1> DEFINE n == BindNext.node
<1>1. /\ bindScopes \in Seq(SUBSET Name) /\ Len(bindScopes) \in Nat
      /\ DOMAIN distance \subseteq Name \X Nat /\ \A s \in DOMAIN distance : distance[s] \in Nat
  BY LenProperties DEF BindingTypeOK
<1>2. ASSUME binding # <<>>, BindWork # <<>>
      PROVE  /\ n \in Node /\ BindNext \in BindItem
             /\ Items("visit", n.kids) \in Seq(BindItem)
             /\ <<>> \in Seq(BindItem)
             /\ Append(Items("visit", n.kids), Item("target", n)) \in Seq(BindItem)
  <2>1. BindNext \in BindItem
    BY <1>2, BindStack, HeadTailProperties DEF BindNext
  <2>2. n \in Node /\ n.kids \in Seq(Node)
    BY <2>1, NodeAssumption DEF BindItem
  <2>3. Items("visit", n.kids) \in Seq([op : {"visit"}, node : Node])
    BY <2>2, ItemsType
  <2>4. [op : {"visit"}, node : Node] \subseteq BindItem /\ Item("target", n) \in BindItem
    BY <2>2 DEF BindItem, Item
  <2> HIDE DEF n
  <2>5. Items("visit", n.kids) \in Seq(BindItem)
    BY <2>3, <2>4, SeqMonotonic
  <2> QED BY <2>1, <2>2, <2>4, <2>5, AppendProperties, EmptySeq
<1>3. \A x \in Name : /\ BindDeclare(bindScopes, x) \in Seq(SUBSET Name)
                      /\ Len(BindDeclare(bindScopes, x)) = Len(bindScopes)
  <2> TAKE x \in Name
  <2>1. CASE bindScopes = <<>>
    BY <1>1, <2>1 DEF BindDeclare
  <2>2. CASE bindScopes # <<>>
    <3> DEFINE e == Top(bindScopes) \cup {x}
    <3>1. e \in SUBSET Name
      BY <1>1, <2>2, TopPop
    <3>2. BindDeclare(bindScopes, x) = [bindScopes EXCEPT ![Len(bindScopes)] = e]
      BY <2>2 DEF BindDeclare, Top
    <3> HIDE DEF e
    <3> QED BY <1>1, <2>2, <3>1, <3>2, ReplaceTop
  <2> QED BY <2>1, <2>2
<1>4. ASSUME BindChildren \/ BindVariable \/ BindAssign \/ BindTarget \/ BindVarDeclare
      PROVE  BindingInv'
  <2>1. binding # <<>> /\ BindWork # <<>> /\ n \in Node
    BY <1>2, <1>4 DEF BindChildren, BindVariable, BindAssign, BindTarget, BindVarDeclare, Binds
  <2>2. /\ binding' \in Seq([work : Seq(BindItem)])
        /\ Len(binding') = Len(binding) /\ binding' # <<>>
    <3>1. \E more \in Seq(BindItem) : BindExpand(more)
      BY <1>2, <1>4, <2>1
         DEF BindChildren, BindVariable, BindAssign, BindTarget, BindVarDeclare
    <3> QED BY <2>1, <3>1, BindStack
  <2>3. bindScopes' \in Seq(SUBSET Name) /\ Len(bindScopes') = Len(bindScopes)
    <3>1. CASE BindVarDeclare
      <4>1. n.tok \in Name
        BY <2>1, <3>1, NodeAssumption DEF BindVarDeclare, Binds
      <4> QED BY <1>3, <3>1, <4>1 DEF BindVarDeclare
    <3>2. CASE UNCHANGED bindScopes
      BY <1>1, <3>2
    <3> QED BY <1>4, <3>1, <3>2 DEF BindChildren, BindVariable, BindAssign, BindTarget
  <2>4. /\ DOMAIN distance' \subseteq Name \X Nat
        /\ \A s \in DOMAIN distance' : distance'[s] \in Nat
    <3>1. CASE UNCHANGED distance
      BY <1>1, <3>1
    <3>2. CASE SetDistance(n) /\ n.kind \in {"variable", "assign"}
      BY <2>1, <3>2, SetDistanceType
    <3> QED BY <1>4, <3>1, <3>2
            DEF BindChildren, BindVariable, BindAssign, BindTarget, BindVarDeclare, Binds
  <2> QED BY <2>1, <2>2, <2>3, <2>4 DEF BindingTypeOK, BindScoped, BindItem
<1>5. ASSUME BindScope \/ BindFunction
      PROVE  BindingInv'
  <2>1. binding # <<>> /\ BindWork # <<>> /\ n \in Node
    BY <1>2, <1>5 DEF BindScope, BindFunction, Binds
  <2>2. /\ binding' \in Seq([work : Seq(BindItem)])
        /\ Len(binding') = Len(binding) + 1 /\ binding' # <<>>
    <3>1. BindEnter(Items("visit", n.kids))
      BY <1>5 DEF BindScope, BindFunction
    <3> QED BY <1>2, <2>1, <3>1, BindStack
  <2>3. bindScopes' \in Seq(SUBSET Name) /\ Len(bindScopes') = Len(bindScopes) + 1
    <3>1. CASE BindScope
      BY <1>1, <3>1, AppendProperties DEF BindScope
    <3>2. CASE BindFunction
      <4>1. n.tok \in Name /\ n.params \in Seq(Name)
        BY <2>1, <3>2, NodeAssumption DEF BindFunction, Binds
      <4>2. {n.params[i] : i \in DOMAIN n.params} \in SUBSET Name
        BY <4>1, LenProperties, ElementOfSeq
      <4>3. bindScopes' = Append(BindDeclare(bindScopes, n.tok), {n.params[i] : i \in DOMAIN n.params})
        BY <3>2 DEF BindFunction
      <4> HIDE DEF n
      <4> QED BY <1>3, <4>1, <4>2, <4>3, AppendProperties
    <3> QED BY <1>5, <3>1, <3>2
  <2>4. UNCHANGED distance
    BY <1>5 DEF BindScope, BindFunction
  <2>5. Len(binding) \in Nat \ {0}
    BY <2>1, BindStack
  <2> QED BY <1>1, <2>1, <2>2, <2>3, <2>4, <2>5 DEF BindingTypeOK, BindScoped, BindItem
<1>6. ASSUME BindLeave
      PROVE  BindingInv'
  <2>1. /\ Len(binding) \in Nat \ {0} /\ binding # <<>> /\ UNCHANGED distance
        /\ binding' \in Seq([work : Seq(BindItem)]) /\ Len(binding') = Len(binding) - 1
    BY <1>6, BindStack DEF BindLeave
  <2>2. binding' = <<>> <=> Len(binding) = 1
    <3>1. Len(binding') = 0 <=> Len(binding) = 1
      BY <2>1
    <3>2. binding' = <<>> <=> Len(binding') = 0
      BY <2>1, EmptySeq
    <3> QED BY <3>1, <3>2
  <2>3. CASE Len(binding) = 1
    BY <1>1, <1>6, <2>1, <2>2, <2>3 DEF BindLeave, BindingTypeOK, BindScoped, BindItem
  <2>4. CASE Len(binding) # 1
    <3>1. bindScopes # <<>> /\ bindScopes' = Pop(bindScopes)
      BY <1>6, <2>1, <2>4 DEF BindLeave, BindScoped
    <3>2. bindScopes' \in Seq(SUBSET Name) /\ Len(bindScopes') = Len(bindScopes) - 1
      BY <1>1, <3>1, TopPop
    <3> QED BY <1>1, <2>1, <2>2, <2>4, <3>2 DEF BindingTypeOK, BindScoped, BindItem
  <2> QED BY <2>3, <2>4
<1> QED BY <1>4, <1>5, <1>6 DEF BindStep

LEMMA BindBeginInv ==
  ASSUME BindingInv, NEW stmts \in Seq(Node), BindBegin(stmts)
  PROVE  BindingInv'
<1> DEFINE w == Items("visit", stmts)
<1>1. w \in Seq(BindItem)
  <2>1. w \in Seq([op : {"visit"}, node : Node]) /\ [op : {"visit"}, node : Node] \subseteq BindItem
    BY ItemsType DEF BindItem
  <2> HIDE DEF w
  <2> QED BY <2>1, SeqMonotonic
<1>2. binding' = <<[work |-> w]>> /\ bindScopes' = <<>> /\ distance' = distance
  BY DEF BindBegin
<1> HIDE DEF w
<1>3. binding' \in Seq([work : Seq(BindItem)]) /\ Len(binding') = 1 /\ binding' # <<>>
  BY <1>1, <1>2, EmptySeq
<1> QED BY <1>2, <1>3, EmptySeq DEF BindingInv, BindingTypeOK, BindScoped, BindItem

LEMMA BindingInitInv == BindingInit => BindingInv
BY EmptySeq DEF BindingInit, BindingInv, BindingTypeOK, BindScoped

LEMMA BindingKept == ASSUME BindingInv, UNCHANGED bindingVars PROVE BindingInv'
BY DEF bindingVars, BindingInv, BindingTypeOK, BindScoped

-----------------------------------------------------------------------------
(* Nodes and tasks.                                                         *)

LEMMA KidType ==
  ASSUME NEW n \in Node, NEW i \in 1..Len(n.kids)
  PROVE  n.kids[i] \in Node
<1>1. n.kids \in Seq(Node)
  BY NodeAssumption
<1> QED BY <1>1, ElementOfSeq

LEMMA TaskIsTyped ==
  ASSUME NEW op, NEW n \in Node,
         \/ op \in PlainOp
         \/ op \in ForOp /\ n.kind = "for"
         \/ op \in IndexOp /\ n.kind \in Indexed
  PROVE  Task(op, n) \in TaskType
BY DEF Task, TaskType, PlainOp, ForOp, IndexOp, CallOp

LEMMA TasksAreTyped ==
  ASSUME NEW op \in PlainOp, NEW kids \in Seq(Node)
  PROVE  Tasks(op, kids) \in Seq(TaskType)
<1>1. Len(kids) \in Nat /\ DOMAIN kids = 1..Len(kids) /\ \A i \in 1..Len(kids) : kids[i] \in Node
  BY LenProperties, ElementOfSeq
<1>2. \A i \in 1..Len(kids) : Task(op, kids[i]) \in TaskType
  BY <1>1, TaskIsTyped
<1> QED BY <1>1, <1>2 DEF Tasks

\* The work at hand.
LEMMA WorkAtHand ==
  ASSUME FramesTyped, frames # <<>>
  PROVE  /\ Len(frames) \in Nat \ {0}
         /\ Top(frames) \in FrameType
         /\ Todo \in Seq(TaskType)
         /\ Todo # <<>> => Now \in TaskType /\ N \in Node /\ Tail(Todo) \in Seq(TaskType)
<1>1. Len(frames) \in Nat \ {0} /\ Top(frames) \in FrameType
  BY TopPop DEF FramesTyped
<1>2. Todo \in Seq(TaskType)
  BY <1>1 DEF Todo, FrameType
<1>3. Todo # <<>> => Now \in TaskType /\ Tail(Todo) \in Seq(TaskType)
  BY <1>2, HeadTailProperties DEF Now
<1> QED BY <1>1, <1>2, <1>3 DEF N, TaskType

-----------------------------------------------------------------------------
(* What a step may do to the frames.                                        *)

\* The work of the frame at the top is replaced.
Reworked(w) == [frames EXCEPT ![Len(frames)].work = w]

LEMMA NewTasks ==
  ASSUME FramesTyped, frames # <<>>, NEW w \in Seq(TaskType),
         NEW stack, stack = Reworked(w)
  PROVE  /\ stack \in Seq(FrameType)
         /\ Len(stack) = Len(frames)
         /\ \A i \in 1..Len(frames) : stack[i].prev = frames[i].prev /\ stack[i].kind = frames[i].kind
         /\ \A i \in 1..Len(frames) : i # Len(frames) => stack[i] = frames[i]
         /\ stack[Len(frames)].work = w
<1> DEFINE a == [Top(frames) EXCEPT !.work = w]
<1>1. a \in FrameType /\ a.prev = Top(frames).prev /\ a.kind = Top(frames).kind /\ a.work = w
  BY WorkAtHand DEF FrameType
<1>2. stack = [frames EXCEPT ![Len(frames)] = a]
  BY DEF Top, Reworked
<1> HIDE DEF a
<1>3. frames \in Seq(FrameType)
  BY DEF FramesTyped
<1>4. \A b \in FrameType :
        LET t == [frames EXCEPT ![Len(frames)] = b] IN
        /\ t \in Seq(FrameType)
        /\ Len(t) = Len(frames)
        /\ \A i \in 1..Len(frames) : t[i] = IF i = Len(frames) THEN b ELSE frames[i]
  BY <1>3, ReplaceTop
<1>5. Len(frames) \in 1..Len(frames)
  BY WorkAtHand
<1> QED BY <1>1, <1>2, <1>4, <1>5 DEF Top

\* The task belongs to the visit of a print: the visit itself, or the output at its end.
Visits(t) == t.op \in {"accept", "after"} /\ t.node.kind = "print"

\* What a visitor of N may leave to be done: more of N itself, or a part of it.  A block
\* and a for go on in a frame of their own, the body of a function waits for a call, and
\* a print is visited by run() only.
Onward ==
  {t \in TaskType :
     /\ \/ t.node = N /\ (t.op \in ForOp <=> Now.op \in ForOp)
        \/ /\ t.node \in Kids(N) /\ N.kind \notin {"block", "func"} /\ t.op \notin ForOp
           /\ N.kind = "for" => Now.op \in ForOp
     /\ t.op = "enter" => t.node = N /\ t.decl = functions[Callee(N).tok].decl
     /\ Visits(t) => t.node = N /\ Now.op = IF t.op = "accept" THEN "run" ELSE "accept"}
\* Outside a for one of the tasks at most is about a statement, and what stands before
\* the entry into a function is the evaluation of its arguments.
Steady(more) ==
  /\ N.kind # "for" =>
       \A i, j \in DOMAIN more :
         more[i].node.kind \notin ExprKind /\ more[j].node.kind \notin ExprKind => i = j
  /\ \A i \in DOMAIN more : more[i].op = "enter" => i = Len(more) /\ N.kind = "call"
Resumes(more) == more \in Seq(Onward) /\ Steady(more) /\ Continue(more)

\* A write to a variable that exists, or the declaration of one.
Assigns == \E e \in 1..Len(envs), v \in HeapValue :
  /\ N.tok \in Name /\ (Has(e, N.tok) \/ (e = env /\ N.kind = "var"))
  /\ Write(e, N.tok, v)
Declares == N.kind = "func" /\ functions' = [functions EXCEPT ![N.tok] = [decl |-> N, closure |-> env]]

StoreGrows == StoreTyped' /\ Len(arrays) <= Len(arrays')

\* A visitor that goes on in its frame, perhaps to write a variable or to declare a
\* function, or that throws.
Proceeds ==
  /\ frames # <<>> /\ Todo # <<>> /\ exc = "none"
  /\ \/ frames' = frames /\ exc' # "none" /\ UNCHANGED <<envs, functions>>
     \/ (\E more : Resumes(more)) /\ UNCHANGED <<envs, functions>>
     \/ Continue(<<>>) /\ Assigns /\ UNCHANGED functions
     \/ Continue(<<>>) /\ Declares /\ UNCHANGED envs
  /\ UNCHANGED <<env, execDepth>>
  /\ StoreGrows
  /\ exc' \in {"none", "error", "unlocated"} \/ (exc' = "return" /\ N.kind = "return")

\* The values that stand for arrays stay values.
LEMMA HeapGrows ==
  ASSUME arrays \in Seq(Seq(HeapValue)), arrays' \in Seq(Seq(HeapValue')), Len(arrays) <= Len(arrays')
  PROVE  HeapValue \subseteq HeapValue'
<1>1. Len(arrays) \in Nat /\ Len(arrays') \in Nat
  BY LenProperties
<1> QED BY <1>1 DEF HeapValue

LEMMA EnvsStayTyped ==
  ASSUME EnvsTyped, HeapValue \subseteq HeapValue', envs' = envs
  PROVE  EnvsTyped'
<1>1. EnvType \subseteq EnvType'
  <2>1. Held1 \subseteq Held1'
    BY DEF Held1
  <2> QED BY <2>1 DEF EnvType
<1> QED BY <1>1, SeqMonotonic DEF EnvsTyped

LEMMA WriteKeepsChains ==
  ASSUME EnvsTyped, ChainsLeadOut, HeapValue \subseteq HeapValue',
         NEW e \in 1..Len(envs), NEW x \in Name, NEW v \in HeapValue, Write(e, x, v)
  PROVE  EnvsTyped' /\ ChainsLeadOut' /\ Len(envs') = Len(envs)
<1> DEFINE new == [envs[e].values EXCEPT ![x] = v]
           r   == [envs[e] EXCEPT !.values = new]
<1>1. envs' = [envs EXCEPT ![e] = r]
  BY DEF Write
<1>2. /\ DOMAIN envs = 1..Len(envs) /\ Len(envs) \in Nat
      /\ \A i \in 1..Len(envs) : envs[i] \in EnvType
  BY LenProperties, ElementOfSeq DEF EnvsTyped
<1>3. r \in EnvType /\ r.chain = envs[e].chain
  <2>1. new \in [Name -> Held1]
    BY <1>2 DEF EnvType, Held1
  <2> HIDE DEF new
  <2> QED BY <1>2, <2>1 DEF EnvType
<1> HIDE DEF r
<1>4. /\ envs' \in Seq(EnvType) /\ Len(envs') = Len(envs)
      /\ \A i \in 1..Len(envs) : envs'[i] = IF i = e THEN r ELSE envs[i]
  BY <1>1, <1>2, <1>3, ExceptSeq DEF EnvsTyped
<1>5. EnvType \subseteq EnvType'
  <2>1. Held1 \subseteq Held1'
    BY DEF Held1
  <2> QED BY <2>1 DEF EnvType
<1>6. EnvsTyped'
  BY <1>4, <1>5, SeqMonotonic DEF EnvsTyped
<1>7. ChainsLeadOut'
  BY <1>3, <1>4 DEF ChainsLeadOut
<1> QED BY <1>4, <1>6, <1>7

\* The work that a visitor leaves: what it adds, then what there was.
LEMMA Resumed ==
  ASSUME FramesTyped, frames # <<>>, Todo # <<>>, NEW more \in Seq(TaskType), Continue(more)
  PROVE  /\ frames' \in Seq(FrameType) /\ Len(frames') = Len(frames) /\ frames' # <<>>
         /\ \A i \in 1..Len(frames) : frames'[i].prev = frames[i].prev /\ frames'[i].kind = frames[i].kind
         /\ \A i \in 1..Len(frames) : i # Len(frames) => frames'[i] = frames[i]
         /\ frames'[Len(frames)].work = more \o Tail(Todo)
<1> DEFINE w == more \o Tail(Todo)
<1>1. w \in Seq(TaskType)
  BY WorkAtHand, ConsumeWork
<1>2. frames' = Reworked(w)
  BY DEF Continue, Todo, Top, Reworked
<1> HIDE DEF w
<1>3. /\ frames' \in Seq(FrameType) /\ Len(frames') = Len(frames)
      /\ \A i \in 1..Len(frames) : frames'[i].prev = frames[i].prev /\ frames'[i].kind = frames[i].kind
      /\ \A i \in 1..Len(frames) : i # Len(frames) => frames'[i] = frames[i]
      /\ frames'[Len(frames)].work = w
  BY <1>1, <1>2, NewTasks
<1>4. frames' # <<>>
  BY <1>3, WorkAtHand
<1> QED BY <1>3, <1>4 DEF w

LEMMA ProceedsInv ==
  ASSUME FramesInv, Proceeds
  PROVE  FramesInv'
<1> USE DEF FramesInv, MemoryTyped
<1>1. /\ FramesTyped' /\ Len(frames') = Len(frames) /\ frames' # <<>>
      /\ \A i \in 1..Len(frames) : frames'[i].prev = frames[i].prev
  <2>1. CASE frames' = frames
    BY <2>1 DEF Proceeds, FramesTyped
  <2>2. ASSUME NEW more \in Seq(TaskType), Continue(more)
        PROVE  /\ FramesTyped' /\ Len(frames') = Len(frames) /\ frames' # <<>>
               /\ \A i \in 1..Len(frames) : frames'[i].prev = frames[i].prev
    BY <2>2, Resumed DEF Proceeds, FramesTyped
  <2>3. \A more : Resumes(more) => more \in Seq(TaskType) /\ Continue(more)
    <3>1. Onward \subseteq TaskType
      BY DEF Onward
    <3> QED BY <3>1, SeqMonotonic DEF Resumes
  <2>4. <<>> \in Seq(TaskType)
    BY EmptySeq
  <2> QED BY <2>1, <2>2, <2>3, <2>4 DEF Proceeds
<1>2. HeapValue \subseteq HeapValue' /\ StoreTyped'
  BY HeapGrows DEF Proceeds, StoreGrows, StoreTyped
<1>3. EnvsTyped' /\ ChainsLeadOut' /\ Len(envs') = Len(envs)
  <2>1. CASE envs' = envs
    BY <2>1, <1>2, EnvsStayTyped DEF ChainsLeadOut
  <2>2. CASE Assigns
    BY <2>2, <1>2, WriteKeepsChains DEF Assigns
  <2> QED BY <2>1, <2>2 DEF Proceeds
<1>4. Aligned'
  BY <1>1, <1>3 DEF Aligned, Proceeds
<1>5. ClosuresAlive'
  <2>1. N \in Node
    BY WorkAtHand DEF Proceeds
  <2>2. env \in 0..Len(envs)
    BY WorkAtHand DEF Aligned, Proceeds
  <2> QED BY <1>3, <2>1, <2>2 DEF ClosuresAlive, Proceeds, Declares
<1> QED BY <1>1, <1>2, <1>3, <1>4, <1>5

-----------------------------------------------------------------------------
(* What entering and leaving a frame does.                                  *)

\* A chain that begins in a new environment.
LEMMA LongerChain ==
  ASSUME NEW n \in Nat, NEW e \in 1..n, NEW c, ChainFrom(c, e)
  PROVE  ChainFrom(<<n + 1>> \o c, n + 1)
<1> DEFINE s == <<n + 1>> \o c
<1>1. c \in Seq(1..(n + 1)) /\ Len(c) \in Nat \ {0} /\ c[1] = e /\ c[Len(c)] = 1
  <2>1. c \in Seq(1..e) /\ 1..e \subseteq 1..(n + 1)
    BY DEF ChainFrom
  <2>2. c \in Seq(1..(n + 1))
    BY <2>1, SeqMonotonic
  <2> QED BY <2>2 DEF ChainFrom
<1>2. <<n + 1>> \in Seq(1..(n + 1)) /\ Len(<<n + 1>>) = 1 /\ <<n + 1>>[1] = n + 1
  OBVIOUS
<1>3. /\ s \in Seq(1..(n + 1)) /\ Len(s) = 1 + Len(c)
      /\ s[1] = n + 1
      /\ \A d \in 1..Len(c) : s[d + 1] = c[d]
  BY <1>1, <1>2, ConcatProperties
<1> HIDE DEF s
<1>4. s[Len(s)] = 1
  BY SMTT(60), <1>1, <1>3
<1>5. \A d \in 2..Len(s) : s[d] < s[d - 1]
  <2>1. \A d \in 2..Len(s) : s[d] = c[d - 1]
    BY <1>1, <1>3
  <2>2. s[2] < s[1]
    BY <1>1, <1>3, <2>1
  <2>3. \A d \in 3..Len(s) : s[d - 1] = c[d - 2] /\ c[d - 1] < c[d - 2]
    <3>1. \A k \in 2..Len(c) : c[k] < c[k - 1]
      BY DEF ChainFrom
    <3>2. \A d \in 3..Len(s) : d - 1 \in 2..Len(c) /\ (d - 1) - 1 = d - 2
      BY <1>1, <1>3
    <3>3. \A d \in 3..Len(s) : d - 1 \in 2..Len(s)
      BY <1>1, <1>3
    <3>4. \A d \in 3..Len(s) : s[d - 1] = c[(d - 1) - 1]
      BY <2>1, <3>3
    <3>5. \A d \in 3..Len(s) : c[d - 1] < c[(d - 1) - 1]
      BY <3>1, <3>2
    <3> QED BY <3>2, <3>4, <3>5
  <2>4. \A d \in 2..Len(s) : d = 2 \/ d \in 3..Len(s)
    BY <1>1, <1>3
  <2> QED BY <2>1, <2>2, <2>3, <2>4
<1>6. ChainFrom(s, n + 1)
  BY <1>1, <1>3, <1>4, <1>5 DEF ChainFrom
<1> QED BY <1>6 DEF s

\* A frame over the ones there are, the top one of which has begun its next piece of work.
LEMMA OneFrameMore ==
  ASSUME FramesTyped, frames # <<>>, Todo # <<>>, env \in Nat,
         NEW kind \in {"block", "for", "call"}, NEW work \in Seq(TaskType),
         NEW values, NEW enclosing, EnterFrame(kind, work, values, enclosing)
  PROVE  /\ FramesTyped' /\ Len(frames') = Len(frames) + 1
         /\ \A i \in 1..Len(frames) :
              frames'[i].prev = frames[i].prev /\ frames'[i].kind = frames[i].kind
         /\ \A i \in 1..Len(frames) : i # Len(frames) => frames'[i] = frames[i]
         /\ frames'[Len(frames)].work = Tail(Todo)
         /\ frames'[Len(frames) + 1] = Frame(kind, work)
         /\ frames'[Len(frames) + 1].prev = env
<1> DEFINE w     == Tail(Todo)
           below == Reworked(w)
           f     == Frame(kind, work)
<1>1. frames' = Append(below, f)
  BY DEF EnterFrame, Todo, Top, Reworked
<1>2. f \in FrameType /\ f.prev = env
  BY DEF Frame, FrameType
<1>3. w \in Seq(TaskType) /\ Len(frames) \in 1..Len(frames)
  BY WorkAtHand
<1>4. below = Reworked(w)
  OBVIOUS
<1> HIDE DEF below, w
<1>5. /\ below \in Seq(FrameType) /\ Len(below) = Len(frames)
      /\ \A i \in 1..Len(frames) : below[i].prev = frames[i].prev /\ below[i].kind = frames[i].kind
      /\ \A i \in 1..Len(frames) : i # Len(frames) => below[i] = frames[i]
      /\ below[Len(frames)].work = w
  BY <1>3, <1>4, NewTasks
<1> HIDE DEF f
<1>6. /\ Append(below, f) \in Seq(FrameType) /\ Len(Append(below, f)) = Len(below) + 1
      /\ \A i \in 1..Len(below) : Append(below, f)[i] = below[i]
      /\ Append(below, f)[Len(below) + 1] = f
  BY <1>2, <1>5, AppendProperties
<1>7. /\ FramesTyped' /\ Len(frames') = Len(frames) + 1
      /\ \A i \in 1..Len(frames) : frames'[i] = below[i]
      /\ frames'[Len(frames) + 1] = f
  BY <1>1, <1>5, <1>6 DEF FramesTyped
<1> QED BY <1>2, <1>3, <1>5, <1>7 DEF f, w

\* visitBlockStmt, visitForStmt and a call set up a frame over an environment that is alive.
LEMMA EnterFrameInv ==
  ASSUME FramesInv, frames # <<>>, Todo # <<>>,
         NEW kind \in {"block", "for", "call"}, NEW work \in Seq(TaskType),
         NEW values \in [Name -> Held1], NEW enclosing \in 1..Len(envs),
         EnterFrame(kind, work, values, enclosing), UNCHANGED <<functions, arrays>>,
         vals' \in Seq(HeapValue)
  PROVE  FramesInv'
<1> USE DEF FramesInv, MemoryTyped
<1> DEFINE n     == Len(envs)
           new   == [values |-> values, chain |-> <<n + 1>> \o envs[enclosing].chain]
<1>1. n \in Nat \ {0} /\ env = n /\ n = Len(frames) /\ execDepth = n - 1
  BY WorkAtHand DEF Aligned
<1>2. FramesTyped' /\ Len(frames') = n + 1 /\ \A i \in 2..(n + 1) : frames'[i].prev = i - 1
  <2>1. /\ FramesTyped' /\ Len(frames') = n + 1
        /\ \A i \in 1..n : frames'[i].prev = frames[i].prev
        /\ frames'[n + 1].prev = n
    BY <1>1, OneFrameMore
  <2>2. \A i \in 2..n : i \in 1..n /\ frames[i].prev = i - 1
    BY <1>1 DEF Aligned
  <2>3. \A i \in 2..(n + 1) : i \in 2..n \/ i = n + 1
    BY <1>1
  <2> QED BY <1>1, <2>1, <2>2, <2>3
<1>3. EnvsTyped' /\ ChainsLeadOut' /\ Len(envs') = n + 1
  <2>1. ChainFrom(new.chain, n + 1)
    BY <1>1, LongerChain DEF ChainsLeadOut
  <2>2. new.chain \in Seq(Nat)
    <3>1. new.chain \in Seq(1..(n + 1)) /\ 1..(n + 1) \subseteq Nat
      BY <1>1, <2>1 DEF ChainFrom
    <3> HIDE DEF new
    <3> QED BY <3>1, SeqMonotonic
  <2>3. new \in EnvType
    BY <2>2 DEF EnvType
  <2>4. envs' = Append(envs, new)
    BY DEF EnterFrame
  <2> HIDE DEF new
  <2>5. /\ envs' \in Seq(EnvType) /\ Len(envs') = n + 1
        /\ \A i \in 1..n : envs'[i] = envs[i]
        /\ envs'[n + 1] = new
    BY <2>3, <2>4, AppendProperties DEF EnvsTyped
  <2>6. ChainsLeadOut'
    <3>1. \A i \in 1..n : ChainFrom(envs'[i].chain, i)
      BY <2>5 DEF ChainsLeadOut
    <3>2. \A i \in 1..(n + 1) : i \in 1..n \/ i = n + 1
      BY <1>1
    <3> QED BY <2>1, <2>5, <3>1, <3>2 DEF ChainsLeadOut
  <2>7. EnvType' = EnvType
    BY DEF EnvType, Held1, HeapValue
  <2> QED BY <2>5, <2>6, <2>7 DEF EnvsTyped
<1>4. env' = n + 1 /\ execDepth' = n
  BY <1>1 DEF EnterFrame
<1>5. Aligned'
  BY <1>1, <1>2, <1>3, <1>4, EmptySeq DEF Aligned, FramesTyped
<1>6. ClosuresAlive'
  BY <1>1, <1>3 DEF ClosuresAlive
<1>7. StoreTyped'
  BY DEF StoreTyped, HeapValue
<1> QED BY <1>2, <1>3, <1>5, <1>6, <1>7

\* ~ScopeGuard and ~DepthGuard: the frame below finds what it left.
LEMMA LeaveScopeInv ==
  ASSUME FramesInv, frames # <<>>, Len(frames) # 1, frames' = Pop(frames), LeaveScope,
         vals' \in Seq(HeapValue), UNCHANGED arrays
  PROVE  FramesInv'
<1> USE DEF FramesInv, MemoryTyped
<1> DEFINE n == Len(envs)
<1>1. n \in Nat \ {0, 1} /\ env = n /\ n = Len(frames) /\ execDepth = n - 1
  BY WorkAtHand DEF Aligned
<1>2. FramesTyped' /\ Len(frames') = n - 1 /\ \A i \in 1..(n - 1) : frames'[i] = frames[i]
  BY <1>1, TopPop DEF FramesTyped
<1>3. EnvsTyped' /\ Len(envs') = n - 1 /\ \A i \in 1..(n - 1) : envs'[i] = envs[i]
  <2>1. envs # <<>> /\ envs' = Pop(envs)
    BY <1>1 DEF LeaveScope
  <2>2. /\ envs' \in Seq(EnvType) /\ Len(envs') = n - 1
        /\ \A i \in 1..(n - 1) : envs'[i] = envs[i]
    BY <2>1, TopPop DEF EnvsTyped
  <2>3. EnvType' = EnvType
    BY DEF EnvType, Held1, HeapValue
  <2> QED BY <2>2, <2>3 DEF EnvsTyped
<1>4. env' = n - 1 /\ execDepth' = n - 2
  BY <1>1 DEF LeaveScope, Aligned, Top
<1>5. Aligned'
  BY <1>1, <1>2, <1>3, <1>4 DEF Aligned
<1>6. ChainsLeadOut'
  BY SMTT(60), <1>1, <1>3 DEF ChainsLeadOut
<1>7. ClosuresAlive'
  BY <1>1, <1>3 DEF ClosuresAlive, LeaveScope, Destroy, Dangling
<1>8. StoreTyped'
  BY DEF StoreTyped, HeapValue
<1> QED BY <1>2, <1>3, <1>5, <1>6, <1>7, <1>8

-----------------------------------------------------------------------------
(* The values of subexpressions.                                            *)

LEMMA AllTheSame ==
  ASSUME NEW S, NEW x \in S, NEW n \in Nat
  PROVE  [i \in 1..n |-> x] \in Seq(S)
OBVIOUS

LEMMA NewValues ==
  /\ \A i \in Int : Number(i) \in HeapValue /\ String(i) \in HeapValue
  /\ \A b \in BOOLEAN : Bool(b) \in HeapValue
  /\ Nil \in HeapValue
BY DEF Number, String, Bool, Nil, HeapValue, Value, ValueType

LEMMA ValueAt ==
  ASSUME FramesInv
  PROVE  /\ vals \in Seq(HeapValue) /\ Len(vals) \in Nat
         /\ \A i \in 1..Len(vals) : vals[i] \in HeapValue /\ vals[i] \in Value
<1>1. vals \in Seq(HeapValue)
  BY DEF FramesInv, MemoryTyped, StoreTyped
<1>2. Len(vals) \in Nat /\ \A i \in 1..Len(vals) : vals[i] \in HeapValue
  BY <1>1, LenProperties, ElementOfSeq
<1>3. HeapValue \subseteq Value
  BY DEF HeapValue
<1> QED BY <1>1, <1>2, <1>3

LEMMA StoreKept ==
  ASSUME FramesInv, UNCHANGED arrays, vals' \in Seq(HeapValue)
  PROVE  StoreGrows
<1>1. HeapValue' = HeapValue
  BY DEF HeapValue
<1>2. arrays \in Seq(Seq(HeapValue))
  BY DEF FramesInv, MemoryTyped, StoreTyped
<1> QED BY <1>1, <1>2, LenProperties DEF StoreGrows, StoreTyped

LEMMA SameValues ==
  ASSUME FramesInv, UNCHANGED <<vals, arrays>>
  PROVE  StoreGrows
BY ValueAt, StoreKept

LEMMA Pushed ==
  ASSUME FramesInv, UNCHANGED arrays, NEW v \in HeapValue, Push(v)
  PROVE  StoreGrows
<1>1. vals' \in Seq(HeapValue)
  BY ValueAt, ConcatProperties DEF Push
<1> QED BY <1>1, StoreKept

\* What is left when the newest values are taken away.
LEMMA Rest ==
  ASSUME FramesInv, NEW k \in Nat, k <= Len(vals)
  PROVE  SubSeq(vals, k + 1, Len(vals)) \in Seq(HeapValue)
<1>1. \A i \in (k + 1)..Len(vals) : vals[i] \in HeapValue
  BY ValueAt
<1>2. Len(vals) \in Nat /\ k + 1 \in Nat /\ k + 1 <= Len(vals) + 1
  BY ValueAt
<1> QED BY <1>1, <1>2, SubSeqProperties, ValueAt

LEMMA Dropped ==
  ASSUME FramesInv, UNCHANGED arrays, NEW k \in Nat, k <= Len(vals), Drop(k)
  PROVE  StoreGrows
BY Rest, StoreKept DEF Drop

LEMMA Replaced ==
  ASSUME FramesInv, UNCHANGED arrays, NEW k \in Nat, k <= Len(vals),
         NEW v \in HeapValue, Replace(k, v)
  PROVE  StoreGrows
<1>1. <<v>> \in Seq(HeapValue) /\ SubSeq(vals, k + 1, Len(vals)) \in Seq(HeapValue)
  BY Rest
<1>2. vals' \in Seq(HeapValue)
  BY <1>1, ConcatProperties DEF Replace
<1> QED BY <1>2, StoreKept

LEMMA NumberOpType ==
  ASSUME NEW op, NEW l \in Int, NEW r \in Int, op \in {"/", "%"} => r # 0
  PROVE  NumberOp(op, l, r) \in HeapValue
<1>1. l * r \in Int /\ l + r \in Int /\ l - r \in Int
  OBVIOUS
<1>2. r # 0 => Quotient(l, r) \in Int
  <2>1. ASSUME r # 0 PROVE Abs(l) \div Abs(r) \in Int
    BY <2>1 DEF Abs
  <2>2. Abs(l) \div Abs(r) \in Int => -(Abs(l) \div Abs(r)) \in Int
    OBVIOUS
  <2> QED BY <2>1, <2>2 DEF Quotient
<1>3. r # 0 => Remainder(l, r) \in Int
  <2> DEFINE q == Quotient(l, r)
  <2>1. q \in Int => r * q \in Int
    OBVIOUS
  <2>2. r * q \in Int => l - r * q \in Int
    OBVIOUS
  <2> QED BY <1>2, <2>1, <2>2 DEF Remainder
<1>4. CASE op \in {"+", "-", "*"}
  BY <1>1, <1>4, NewValues DEF NumberOp
<1>5. CASE op = "/"
  BY <1>2, <1>5, NewValues DEF NumberOp
<1>6. CASE op = "%"
  BY <1>3, <1>6, NewValues DEF NumberOp
<1>7. CASE op \notin {"+", "-", "*", "/", "%"}
  <2>1. NumberOp(op, l, r) \in {Bool(TRUE), Bool(FALSE)}
    BY <1>7 DEF NumberOp, Bool
  <2> QED BY <2>1, NewValues
<1> QED BY <1>4, <1>5, <1>6, <1>7

LEMMA BinaryType ==
  ASSUME NEW op, NEW l \in Value, NEW r \in Value, ~BinaryFails(op, l, r)
  PROVE  ApplyBinary(op, l, r) \in HeapValue
<1>1. l.n \in Int /\ r.n \in Int
  BY DEF Value
<1>2. op \in {"/", "%"} => r.n # 0
  BY DEF BinaryFails
<1>3. l.n + r.n \in Int
  BY <1>1
<1>4. NumberOp(op, l.n, r.n) \in HeapValue
  BY <1>1, <1>2, NumberOpType
<1> QED BY <1>3, <1>4, NewValues DEF ApplyBinary

\* The environment that holds a name, if the search finds one.
LEMMA HolderHas ==
  ASSUME FramesInv, DistancesTyped, frames # <<>>, NEW n \in Node,
         n.kind \in {"variable", "assign"}, Holder(n) # 0
  PROVE  /\ n.tok \in Name
         /\ Holder(n) \in 1..Len(envs) /\ Has(Holder(n), n.tok)
         /\ envs[Holder(n)].values[n.tok] \in HeapValue
<1>1. n.tok \in Name
  BY NodeAssumption
<1>2. env \in 1..Len(envs) /\ Len(envs) \in Nat
  BY WorkAtHand DEF FramesInv, Aligned
<1>3. /\ Chain \in Seq(1..Len(envs)) /\ Len(Chain) \in Nat
      /\ DOMAIN Chain = 1..Len(Chain) /\ \A d \in 1..Len(Chain) : Chain[d] \in 1..Len(envs)
  <2>1. Chain \in Seq(1..env) /\ 1..env \subseteq 1..Len(envs)
    BY <1>2 DEF FramesInv, ChainsLeadOut, ChainFrom, Chain
  <2>2. Chain \in Seq(1..Len(envs))
    BY <2>1, SeqMonotonic
  <2> QED BY <2>2, LenProperties, ElementOfSeq
<1>4. Holder(n) \in 1..Len(envs) /\ Has(Holder(n), n.tok)
  <2>1. CASE DistanceOf(n) >= 0
    <3>1. DistanceOf(n) \in Nat
      BY <2>1 DEF DistanceOf, DistancesTyped
    <3>2. Holder(n) = Static(n.tok, DistanceOf(n))
      BY <2>1 DEF Holder
    <3>3. DistanceOf(n) < Len(Chain) /\ Has(Chain[DistanceOf(n) + 1], n.tok)
          /\ Holder(n) = Chain[DistanceOf(n) + 1]
      BY <3>2 DEF Static
    <3>4. DistanceOf(n) + 1 \in 1..Len(Chain)
      BY <1>3, <3>1, <3>3
    <3> QED BY <1>3, <3>3, <3>4
  <2>2. CASE ~(DistanceOf(n) >= 0)
    <3>1. Holder(n) = Dynamic(n.tok)
      BY <2>2 DEF Holder
    <3>2. Hits(n.tok) # {} /\ Holder(n) = Chain[DynamicIndex(n.tok)]
      BY <3>1 DEF Dynamic
    <3>3. Hits(n.tok) \in SUBSET Nat
      BY <1>3 DEF Hits
    <3>4. \E m \in Hits(n.tok) : \A k \in Hits(n.tok) : m <= k
      BY <3>2, <3>3, LeastNumber
    <3>5. DynamicIndex(n.tok) \in Hits(n.tok)
      BY <3>4 DEF DynamicIndex
    <3> QED BY <1>3, <3>2, <3>5 DEF Hits
  <2> QED BY <2>1, <2>2
<1>5. envs[Holder(n)] \in EnvType
  BY <1>4, ElementOfSeq DEF FramesInv, MemoryTyped, EnvsTyped
<1> QED BY <1>1, <1>4, <1>5 DEF EnvType, Held1, Has

-----------------------------------------------------------------------------
(* The visitors, one step each.                                             *)

\* What is known of the work at hand when a visitor runs.
LEMMA AtWork ==
  ASSUME FramesInv, Executing, Todo # <<>>
  PROVE  /\ frames # <<>> /\ exc = "none"
         /\ Now \in TaskType /\ N \in Node /\ N.kind \in Kind
         /\ N.kids \in Seq(Node)
         /\ \A i \in 1..Len(N.kids) : N.kids[i] \in Node
         /\ N.kids # <<>> => Len(N.kids) >= 1
<1>1. frames # <<>> /\ exc = "none" /\ Now \in TaskType /\ N \in Node
  BY WorkAtHand DEF FramesInv, Executing
<1>2. N.kids \in Seq(Node) /\ N.kind \in Kind
  BY <1>1, NodeAssumption
<1> QED BY <1>1, <1>2, ElementOfSeq, EmptySeq, LenProperties

\* The rest of the work is one or two tasks more.
LEMMA ShortWork ==
  ASSUME NEW S
  PROVE  /\ <<>> \in Seq(S)
         /\ \A t \in S : <<t>> \in Seq(S)
         /\ \A t, u \in S : <<t, u>> \in Seq(S)
BY EmptySeq

\* A task about the node at hand.
LEMMA OwnTask ==
  ASSUME FramesInv, Executing, Todo # <<>>, NEW op,
         \/ op \in PlainOp /\ (N.kind = "for" => Now.op \notin ForOp)
         \/ op \in ForOp /\ N.kind = "for" /\ Now.op \in ForOp
         \/ op \in IndexOp /\ N.kind \in Indexed,
         N.kind = "print" /\ op \in {"accept", "after"} =>
           Now.op = IF op = "accept" THEN "run" ELSE "accept"
  PROVE  Task(op, N) \in Onward
<1>1. Task(op, N) \in TaskType
  BY AtWork, TaskIsTyped
<1>2. Now.op \in ForOp => N.kind = "for"
  BY AtWork DEF TaskType, N
<1> QED BY <1>1, <1>2 DEF Onward, Visits, Task, PlainOp, ForOp, IndexOp, Indexed

\* A task about a part of it.
LEMMA PartTask ==
  ASSUME FramesInv, Executing, Todo # <<>>, NEW op \in PlainOp, NEW i \in 1..Len(N.kids),
         N.kind \notin {"block", "func"}, N.kind = "for" => Now.op \in ForOp,
         op \in {"accept", "after"} => N.kids[i].kind # "print"
  PROVE  /\ Task(op, N.kids[i]) \in Onward
         /\ Task(op, N.kids[i]).op = op /\ Task(op, N.kids[i]).node = N.kids[i]
<1>1. N.kids[i] \in Node /\ N.kids[i] \in Kids(N)
  BY AtWork, LenProperties DEF Kids
<1>2. Task(op, N.kids[i]) \in TaskType
  BY <1>1, TaskIsTyped
<1> QED BY <1>1, <1>2 DEF Onward, Visits, Task, PlainOp, ForOp

\* The part of a statement or an expression that is evaluated.
LEMMA PartKind ==
  ASSUME NEW n \in Node, NEW i \in 1..Len(n.kids)
  PROVE  /\ n.kind \notin {"block", "func", "if", "for"} => n.kids[i].kind \in ExprKind
         /\ n.kind = "if" /\ i = 1 => n.kids[i].kind \in ExprKind
<1>1. DOMAIN n.kids = 1..Len(n.kids) /\ n.kids[i] \in Node
  BY KidType, NodeAssumption, LenProperties
<1>2. n.kids[i].kind \in Kind
  BY <1>1, NodeAssumption
<1>3. /\ n.kids[i].kind \in StmtKind => i \in SubStatements(n)
      /\ n.kids[i].kind = "absent" => n.kind = "for"
  BY <1>1, KidsAssumption
<1> QED BY <1>2, <1>3 DEF SubStatements, Kind

LEMMA ResumesShort ==
  ASSUME FramesInv, Executing, Todo # <<>>
  PROVE  /\ Continue(<<>>) => Resumes(<<>>)
         /\ \A t \in Onward : t.op # "enter" /\ Continue(<<t>>) => Resumes(<<t>>)
         /\ \A t, u \in Onward :
              /\ t.op # "enter" /\ u.op # "enter"
              /\ N.kind = "for" \/ t.node.kind \in ExprKind \/ u.node.kind \in ExprKind
              /\ Continue(<<t, u>>)
              => Resumes(<<t, u>>)
<1>1. Continue(<<>>) => Resumes(<<>>)
  BY ShortWork DEF Resumes, Steady
<1>2. ASSUME NEW t \in Onward, t.op # "enter", Continue(<<t>>) PROVE Resumes(<<t>>)
  <2>1. <<t>> \in Seq(Onward) /\ DOMAIN <<t>> = {1} /\ <<t>>[1] = t
    BY ShortWork
  <2> DEFINE w == <<t>>
  <2> HIDE DEF w
  <2> QED BY <1>2, <2>1 DEF Resumes, Steady, w
<1>3. ASSUME NEW t \in Onward, NEW u \in Onward, t.op # "enter", u.op # "enter",
             N.kind = "for" \/ t.node.kind \in ExprKind \/ u.node.kind \in ExprKind,
             Continue(<<t, u>>)
      PROVE  Resumes(<<t, u>>)
  <2> DEFINE w == <<t, u>>
  <2>1. w \in Seq(Onward) /\ DOMAIN w = {1, 2} /\ w[1] = t /\ w[2] = u
    BY ShortWork
  <2> HIDE DEF w
  <2> QED BY <1>3, <2>1 DEF Resumes, Steady, w
<1> QED BY <1>1, <1>2, <1>3

\* The parts of an expression one after another, then one task more.
LEMMA ResumesAll ==
  ASSUME FramesInv, Executing, Todo # <<>>, NEW kids \in Seq(Node), NEW t \in Onward,
         N.kind \notin {"block", "func", "for"},
         \A i \in 1..Len(kids) : kids[i] \in Kids(N) /\ kids[i].kind \in ExprKind,
         t.op = "enter" => N.kind = "call",
         Continue(Append(Tasks("accept", kids), t))
  PROVE  Resumes(Append(Tasks("accept", kids), t))
<1> DEFINE s == Tasks("accept", kids)
           w == Append(s, t)
<1>1. s \in Seq(TaskType)
  BY TasksAreTyped DEF PlainOp
<1>2. Len(kids) \in Nat /\ DOMAIN kids = 1..Len(kids) /\ \A i \in 1..Len(kids) : kids[i] \in Node
  BY LenProperties, ElementOfSeq
<1>3. /\ Len(s) = Len(kids)
      /\ \A i \in 1..Len(kids) : s[i] = Task("accept", kids[i])
  BY <1>2 DEF Tasks
<1>4. \A i \in 1..Len(kids) : s[i] \in Onward /\ s[i].op = "accept" /\ s[i].node = kids[i]
  <2>1. \A i \in 1..Len(kids) : Task("accept", kids[i]) \in TaskType
    BY <1>2, TaskIsTyped DEF PlainOp
  <2>2. \A i \in 1..Len(kids) :
          Task("accept", kids[i]).op = "accept" /\ Task("accept", kids[i]).node = kids[i]
    BY DEF Task
  <2>3. \A u \in TaskType : u.op = "accept" /\ u.node \in Kids(N) /\ u.node.kind \in ExprKind => u \in Onward
    BY DEF Onward, Visits, ForOp, ExprKind
  <2> HIDE DEF s
  <2> QED BY <1>3, <2>1, <2>2, <2>3
<1> HIDE DEF s
<1>5. s \in Seq(Onward)
  <2>1. s = [i \in 1..Len(kids) |-> s[i]]
    BY <1>1, <1>3
  <2> QED BY <1>2, <1>4, <2>1
<1>6. /\ w \in Seq(Onward) /\ Len(w) = Len(kids) + 1 /\ DOMAIN w = 1..(Len(kids) + 1)
      /\ \A i \in 1..Len(kids) : w[i] = s[i]
      /\ w[Len(kids) + 1] = t
  BY <1>2, <1>3, <1>5, AppendProperties, LenProperties
<1> HIDE DEF w
<1>7. Steady(w)
  <2>1. \A i \in DOMAIN w : i # Len(w) => w[i].node.kind \in ExprKind /\ w[i].op = "accept"
    <3>1. \A i \in DOMAIN w : i # Len(w) => i \in 1..Len(kids)
      BY <1>2, <1>6
    <3> QED BY <1>4, <1>6, <3>1
  <2>2. \A i \in DOMAIN w : w[i].op = "enter" => i = Len(w) /\ N.kind = "call"
    BY <1>2, <1>6, <2>1
  <2> QED BY <2>1, <2>2 DEF Steady
<1> QED BY <1>6, <1>7 DEF Resumes, w, s

\* A visitor that throws.
LEMMA Raises ==
  ASSUME FramesInv, Executing, Todo # <<>>, NEW kind \in {"error", "unlocated"}, Raise(kind)
  PROVE  Proceeds
<1>1. StoreGrows
  BY SameValues DEF Raise, storeVars
<1> QED BY <1>1, AtWork DEF Raise, storeVars, Proceeds

\* A visitor that goes on with its work and leaves the environments alone.
LEMMA GoesOn ==
  ASSUME FramesInv, Executing, Todo # <<>>, NEW more, Resumes(more), StoreGrows,
         UNCHANGED <<exc, envs, env, execDepth, functions>>
  PROVE  Proceeds
BY AtWork DEF Proceeds

LEMMA Expressions ==
  ASSUME FramesInv, DistancesTyped,
         \/ Run \/ VisitLiteralExpr \/ VisitVariableExpr \/ EvaluateFirst \/ AssignValue
         \/ VisitBinaryExpr \/ UnaryValue \/ LogicalValue \/ VisitGroupingExpr
  PROVE  Proceeds
<1> USE DEF At, Accepting, After, NotFound, storeVars, debugVars
<1>1. CASE Run
  <2>1. Task("accept", N) \in Onward /\ Task("accept", N).op # "enter"
    BY <1>1, OwnTask DEF Run, PlainOp, ForOp, Task, Now
  <2> QED BY <1>1, <2>1, ResumesShort, SameValues, GoesOn DEF Run
<1>2. CASE VisitLiteralExpr
  <2>1. N.val \in HeapValue
    BY <1>2, AtWork, NodeAssumption DEF VisitLiteralExpr, HeapValue
  <2> QED BY <1>2, <2>1, ResumesShort, Pushed, GoesOn DEF VisitLiteralExpr
<1>3. CASE VisitVariableExpr
  <2>1. Executing /\ Todo # <<>> /\ N \in Node /\ N.kind = "variable" /\ frames # <<>>
    BY <1>3, AtWork DEF VisitVariableExpr
  <2>2. CASE Holder(N) = 0
    BY <1>3, <2>1, <2>2, Raises DEF VisitVariableExpr
  <2>3. CASE Holder(N) # 0
    <3>1. envs[Holder(N)].values[N.tok] \in HeapValue
      BY <2>1, <2>3, HolderHas
    <3> QED BY <1>3, <2>1, <2>3, <3>1, ResumesShort, Pushed, GoesOn DEF VisitVariableExpr
  <2> QED BY <2>2, <2>3
<1>4. CASE EvaluateFirst
  <2>1. /\ N \in Node /\ 1 \in 1..Len(N.kids) /\ Executing /\ Todo # <<>>
        /\ N.kind \in {"assign", "unary", "logical", "print", "if", "var", "return"}
        /\ Now.op = "accept"
    BY <1>4, AtWork, ArityAssumption, LenProperties DEF EvaluateFirst
  <2>2. /\ Task("accept", N.kids[1]) \in Onward /\ Task("after", N) \in Onward
        /\ Task("accept", N.kids[1]).op # "enter" /\ Task("after", N).op # "enter"
        /\ Task("accept", N.kids[1]).node.kind \in ExprKind
    BY <2>1, OwnTask, PartTask, PartKind DEF PlainOp, Task, ExprKind
  <2>3. Resumes(<<Task("accept", N.kids[1]), Task("after", N)>>)
    BY <1>4, <2>1, <2>2, ResumesShort DEF EvaluateFirst
  <2> QED BY <1>4, <2>1, <2>3, SameValues, GoesOn DEF EvaluateFirst
<1>5. CASE AssignValue
  <2>1. /\ Executing /\ Todo # <<>> /\ N \in Node /\ N.kind = "assign" /\ frames # <<>>
        /\ exc = "none" /\ vals[1] \in HeapValue
    BY <1>5, AtWork, ValueAt DEF AssignValue
  <2>2. CASE Holder(N) = 0
    BY <1>5, <2>1, <2>2, Raises DEF AssignValue
  <2>3. CASE Holder(N) # 0
    <3>1. N.tok \in Name /\ Holder(N) \in 1..Len(envs) /\ Has(Holder(N), N.tok)
      BY <2>1, <2>3, HolderHas
    <3>2. Continue(<<>>) /\ Write(Holder(N), N.tok, vals[1])
          /\ UNCHANGED <<vals, exc, env, execDepth, functions, arrays>>
      BY <1>5, <2>3 DEF AssignValue
    <3>3. Assigns
      BY <2>1, <3>1, <3>2 DEF Assigns
    <3> QED BY <2>1, <3>2, <3>3, SameValues DEF Proceeds
  <2> QED BY <2>2, <2>3
<1>6. CASE VisitBinaryExpr
  <2>1. CASE Accepting("binary")
    <3>1. /\ Executing /\ Todo # <<>> /\ N \in Node /\ N.kind = "binary" /\ N.kids \in Seq(Node)
          /\ \A i \in 1..Len(N.kids) : N.kids[i] \in Kids(N) /\ N.kids[i].kind \in ExprKind
      BY <2>1, AtWork, PartKind, LenProperties DEF Kids
    <3>2. Task("after", N) \in Onward /\ Task("after", N).op # "enter"
      BY <3>1, OwnTask DEF PlainOp, Task
    <3>3. /\ Continue(Append(Tasks("accept", N.kids), Task("after", N)))
          /\ UNCHANGED <<vals, exc, envs, env, execDepth, functions, arrays>>
      BY <1>6, <2>1 DEF VisitBinaryExpr
    <3>4. Resumes(Append(Tasks("accept", N.kids), Task("after", N)))
      BY <3>1, <3>2, <3>3, ResumesAll
    <3> QED BY <3>1, <3>3, <3>4, SameValues, GoesOn
  <2>2. CASE After("binary")
    <3>1. /\ Executing /\ Todo # <<>> /\ Len(vals) >= 2
          /\ 2 \in Nat /\ vals[1] \in Value /\ vals[2] \in Value
      BY <1>6, <2>2, ValueAt DEF VisitBinaryExpr
    <3>2. CASE BinaryFails(N.tok, vals[2], vals[1])
      BY <1>6, <2>2, <3>1, <3>2, Raises DEF VisitBinaryExpr
    <3>3. CASE ~BinaryFails(N.tok, vals[2], vals[1])
      <4>1. ApplyBinary(N.tok, vals[2], vals[1]) \in HeapValue
        BY <3>1, <3>3, BinaryType
      <4>2. /\ Continue(<<>>) /\ Replace(2, ApplyBinary(N.tok, vals[2], vals[1]))
            /\ UNCHANGED <<exc, envs, env, execDepth, functions, arrays>>
        BY <1>6, <2>2, <3>3 DEF VisitBinaryExpr
      <4>3. StoreGrows
        BY <3>1, <4>1, <4>2, Replaced
      <4> QED BY <3>1, <4>2, <4>3, ResumesShort, GoesOn
    <3> QED BY <3>2, <3>3
  <2> QED BY <1>6, <2>1, <2>2 DEF VisitBinaryExpr
<1>7. CASE UnaryValue
  <2>1. Executing /\ Todo # <<>> /\ Len(vals) >= 1 /\ 1 \in Nat /\ vals[1] \in Value
    BY <1>7, ValueAt DEF UnaryValue
  <2>2. CASE N.tok = "-" /\ vals[1].type # "number"
    BY <1>7, <2>1, <2>2, Raises DEF UnaryValue
  <2>3. CASE ~(N.tok = "-" /\ vals[1].type # "number")
    <3> DEFINE v == IF N.tok = "!" THEN Bool(~IsTruthy(vals[1])) ELSE Number(-vals[1].n)
    <3>1. v \in HeapValue
      <4>1. -vals[1].n \in Int
        BY <2>1 DEF Value
      <4> QED BY <4>1, NewValues
    <3>2. /\ Continue(<<>>) /\ Replace(1, v)
          /\ UNCHANGED <<exc, envs, env, execDepth, functions, arrays>>
      BY <1>7, <2>3 DEF UnaryValue
    <3> HIDE DEF v
    <3>3. StoreGrows
      BY <2>1, <3>1, <3>2, Replaced
    <3> QED BY <2>1, <3>2, <3>3, ResumesShort, GoesOn
  <2> QED BY <2>2, <2>3
<1>8. CASE LogicalValue
  <2>1. /\ Executing /\ Todo # <<>> /\ Len(vals) >= 1 /\ 1 \in Nat
        /\ N \in Node /\ N.kind = "logical" /\ 2 \in 1..Len(N.kids)
        /\ UNCHANGED <<exc, envs, env, execDepth, functions, arrays>>
    BY <1>8, AtWork, ArityAssumption DEF LogicalValue
  <2>2. CASE IsTruthy(vals[1]) = (N.tok = "or")
    BY <1>8, <2>1, <2>2, ResumesShort, SameValues, GoesOn DEF LogicalValue
  <2>3. CASE IsTruthy(vals[1]) # (N.tok = "or")
    <3>1. Task("accept", N.kids[2]) \in Onward /\ Task("accept", N.kids[2]).op # "enter"
      BY <2>1, PartTask, PartKind DEF PlainOp, ExprKind
    <3>2. Continue(<<Task("accept", N.kids[2])>>) /\ Drop(1)
      BY <1>8, <2>3 DEF LogicalValue
    <3>3. StoreGrows
      BY <2>1, <3>2, Dropped
    <3> QED BY <2>1, <3>1, <3>2, <3>3, ResumesShort, GoesOn
  <2> QED BY <2>2, <2>3
<1>9. CASE VisitGroupingExpr
  <2>1. /\ Executing /\ Todo # <<>> /\ N \in Node /\ N.kind = "grouping" /\ 1 \in 1..Len(N.kids)
    BY <1>9, AtWork, ArityAssumption DEF VisitGroupingExpr
  <2>2. Task("accept", N.kids[1]) \in Onward /\ Task("accept", N.kids[1]).op # "enter"
    BY <2>1, PartTask, PartKind DEF PlainOp, ExprKind
  <2> QED BY <1>9, <2>1, <2>2, ResumesShort, SameValues, GoesOn DEF VisitGroupingExpr
<1> QED BY <1>1, <1>2, <1>3, <1>4, <1>5, <1>6, <1>7, <1>8, <1>9

LEMMA ArraysAndOutput ==
  ASSUME FramesInv,
         \/ VisitIndexed \/ RequireArray \/ RequireIndex \/ StoreElement \/ AllocateArray
         \/ PrintValue \/ VisitExpressionStmt \/ VisitVarDeclareStmt
  PROVE  Proceeds
<1> USE DEF At, Accepting, After, storeVars, scopeVars, debugVars
<1>0. /\ arrays \in Seq(Seq(HeapValue)) /\ Len(arrays) \in Nat /\ DOMAIN arrays = 1..Len(arrays)
      /\ \A i \in 1..Len(arrays) : arrays[i] \in Seq(HeapValue)
  BY LenProperties, ElementOfSeq DEF FramesInv, MemoryTyped, StoreTyped
<1>1. CASE VisitIndexed
  <2>1. /\ Executing /\ Todo # <<>> /\ N \in Node /\ N.kind \in Indexed
        /\ 1 \in 1..Len(N.kids) /\ 2 \in 1..Len(N.kids)
    BY <1>1, AtWork, ArityAssumption DEF VisitIndexed, Indexed
  <2> DEFINE t1 == Task("accept", N.kids[1])
             t2 == Task("requireArray", N)
             t3 == Task("accept", N.kids[2])
             t4 == Task("requireIndex", N)
             w  == <<t1, t2, t3, t4>>
  <2>2. /\ {t1, t2, t3, t4} \subseteq Onward
        /\ t1.op = "accept" /\ t2.op = "requireArray" /\ t3.op = "accept" /\ t4.op = "requireIndex"
        /\ t2.node = N /\ t4.node = N /\ N.kind \in ExprKind
        /\ t1.node.kind \in ExprKind /\ t3.node.kind \in ExprKind
    <3>1. t1 \in Onward /\ t3 \in Onward
      BY <2>1, PartTask, PartKind DEF PlainOp, Indexed, ExprKind
    <3>2. t2 \in Onward /\ t4 \in Onward
      BY <2>1, OwnTask DEF IndexOp
    <3>3. N.kids[1].kind \in ExprKind /\ N.kids[2].kind \in ExprKind
      BY <2>1, PartKind DEF Indexed
    <3> QED BY <2>1, <3>1, <3>2, <3>3 DEF Task, Indexed, ExprKind
  <2> HIDE DEF t1, t2, t3, t4
  <2>3. w \in Seq(Onward) /\ DOMAIN w = 1..4 /\ w[1] = t1 /\ w[2] = t2 /\ w[3] = t3 /\ w[4] = t4
    BY <2>2
  <2>4. Continue(w) /\ UNCHANGED <<vals, exc, envs, env, execDepth, functions, arrays>>
    BY <1>1 DEF VisitIndexed, t1, t2, t3, t4
  <2> HIDE DEF w
  <2>5. Steady(w)
    <3>1. \A i \in DOMAIN w : w[i].node.kind \in ExprKind /\ w[i].op # "enter"
      BY <2>2, <2>3
    <3> QED BY <3>1 DEF Steady
  <2> QED BY <2>1, <2>3, <2>4, <2>5, SameValues, GoesOn DEF Resumes
<1>2. CASE RequireArray
  <2>1. Executing /\ Todo # <<>>
    BY <1>2 DEF RequireArray
  <2>2. CASE vals[1].type # "array"
    BY <1>2, <2>1, <2>2, Raises DEF RequireArray
  <2>3. CASE vals[1].type = "array"
    BY <1>2, <2>1, <2>3, ResumesShort, SameValues, GoesOn DEF RequireArray
  <2> QED BY <2>2, <2>3
<1>3. CASE RequireIndex
  <2>1. /\ Executing /\ Todo # <<>> /\ Len(vals) >= 2 /\ 2 \in Nat
        /\ vals[1] \in Value /\ vals[2] \in HeapValue /\ vals[2].type = "array"
    BY <1>3, ValueAt DEF RequireIndex
  <2>2. N \in Node /\ N.kind \in Indexed
    BY <1>3, AtWork DEF RequireIndex, TaskType, N, IndexOp
  <2>3. CASE ~InRange(vals[1], vals[2])
    BY <1>3, <2>1, <2>3, Raises DEF RequireIndex
  <2>4. CASE InRange(vals[1], vals[2]) /\ N.kind = "index"
    <3> DEFINE v == arrays[vals[2].n][vals[1].n + 1]
    <3>1. v \in HeapValue
      <4> DEFINE a == arrays[vals[2].n]
      <4>1. a \in Seq(HeapValue)
        BY <1>0, <2>1 DEF HeapValue
      <4>2. Len(a) \in Nat /\ vals[1].n \in 0..(Len(a) - 1)
        BY <4>1, <2>4, LenProperties DEF InRange
      <4> HIDE DEF a
      <4>3. vals[1].n + 1 \in 1..Len(a)
        BY <4>2
      <4>4. a[vals[1].n + 1] \in HeapValue
        BY <4>1, <4>3, ElementOfSeq
      <4> QED BY <4>4 DEF a
    <3>2. /\ Continue(<<>>) /\ Replace(2, v)
          /\ UNCHANGED <<exc, envs, env, execDepth, functions, arrays>>
      BY <1>3, <2>4 DEF RequireIndex
    <3> HIDE DEF v
    <3>3. StoreGrows
      BY <2>1, <3>1, <3>2, Replaced
    <3> QED BY <2>1, <3>2, <3>3, ResumesShort, GoesOn
  <2>5. CASE InRange(vals[1], vals[2]) /\ N.kind # "index"
    <3>1. 3 \in 1..Len(N.kids) /\ N.kind = "indexAssign"
      <4>1. N.kind = "indexAssign"
        BY <2>2, <2>5 DEF Indexed
      <4>2. Len(N.kids) = 3
        BY <2>2, <4>1, ArityAssumption
      <4> QED BY <4>1, <4>2
    <3>2. /\ Task("accept", N.kids[3]) \in Onward /\ Task("after", N) \in Onward
          /\ Task("accept", N.kids[3]).op # "enter" /\ Task("after", N).op # "enter"
          /\ Task("accept", N.kids[3]).node.kind \in ExprKind
      BY <2>1, <2>2, <3>1, OwnTask, PartTask, PartKind DEF PlainOp, Task, ExprKind
    <3>3. /\ Continue(<<Task("accept", N.kids[3]), Task("after", N)>>)
          /\ UNCHANGED <<vals, exc, envs, env, execDepth, functions, arrays>>
      BY <1>3, <2>5 DEF RequireIndex
    <3>4. Resumes(<<Task("accept", N.kids[3]), Task("after", N)>>)
      BY <2>1, <3>2, <3>3, ResumesShort
    <3> QED BY <2>1, <3>3, <3>4, SameValues, GoesOn
  <2> QED BY <2>3, <2>4, <2>5
<1>4. CASE StoreElement
  <2>1. /\ Executing /\ Todo # <<>> /\ Len(vals) >= 3 /\ 3 \in Nat
        /\ vals[1] \in HeapValue /\ vals[3] \in HeapValue /\ vals[3].type = "array"
        /\ UNCHANGED <<exc, envs, env, execDepth, functions>>
    BY <1>4, ValueAt DEF StoreElement
  <2>2. vals[3].n \in 1..Len(arrays)
    BY <2>1 DEF HeapValue
  <2> DEFINE a == arrays[vals[3].n]
             b == [a EXCEPT ![vals[2].n + 1] = vals[1]]
  <2>3. b \in Seq(HeapValue)
    <3>1. a \in Seq(HeapValue)
      BY <1>0, <2>2
    <3> HIDE DEF a
    <3>2. CASE vals[2].n + 1 \in 1..Len(a)
      BY <2>1, <3>1, <3>2, ExceptSeq
    <3>3. CASE vals[2].n + 1 \notin 1..Len(a)
      <4>1. DOMAIN a = 1..Len(a)
        BY <3>1, LenProperties
      <4>2. b = a
        BY <3>1, <3>3, <4>1
      <4> QED BY <3>1, <4>2
    <3> QED BY <3>2, <3>3
  <2>4. arrays' = [arrays EXCEPT ![vals[3].n] = b]
    BY <1>4 DEF StoreElement
  <2> HIDE DEF b
  <2>5. arrays' \in Seq(Seq(HeapValue)) /\ Len(arrays') = Len(arrays)
    BY <1>0, <2>2, <2>3, <2>4, ExceptSeq
  <2>6. vals' \in Seq(HeapValue)
    <3>1. <<vals[1]>> \in Seq(HeapValue) /\ SubSeq(vals, 4, Len(vals)) \in Seq(HeapValue)
      BY <2>1, Rest
    <3> QED BY <1>4, <3>1, ConcatProperties DEF StoreElement, Replace
  <2>7. HeapValue' = HeapValue
    BY <2>5 DEF HeapValue
  <2>8. StoreGrows
    BY <1>0, <2>5, <2>6, <2>7 DEF StoreGrows, StoreTyped
  <2>9. Continue(<<>>)
    BY <1>4 DEF StoreElement
  <2> QED BY <2>1, <2>8, <2>9, ResumesShort, GoesOn
<1>5. CASE AllocateArray
  <2>1. Executing /\ Todo # <<>> /\ Len(vals) >= 1 /\ 1 \in Nat /\ vals[1] \in Value
    BY <1>5, ValueAt DEF AllocateArray
  <2>2. CASE vals[1].type # "number" \/ vals[1].n < 0
    BY <1>5, <2>1, <2>2, Raises DEF AllocateArray
  <2>3. CASE ~(vals[1].type # "number" \/ vals[1].n < 0)
    <3> DEFINE n == vals[1].n
               a == [i \in 1..n |-> Nil]
               v == [type |-> "array", n |-> Len(arrays) + 1]
    <3>1. n \in Nat
      BY <2>1, <2>3 DEF Value
    <3>2. a \in Seq(HeapValue)
      <4>1. Nil \in HeapValue
        BY NewValues
      <4> QED BY <3>1, <4>1, AllTheSame
    <3>3. /\ arrays' = Append(arrays, a) /\ Replace(1, v) /\ Continue(<<>>)
          /\ UNCHANGED <<exc, envs, env, execDepth, functions>>
      BY <1>5, <2>3 DEF AllocateArray
    <3> HIDE DEF n, a
    <3>4. arrays' \in Seq(Seq(HeapValue)) /\ Len(arrays') = Len(arrays) + 1
      BY <1>0, <3>2, <3>3, AppendProperties
    <3>5. HeapValue \subseteq HeapValue'
      BY <1>0, <3>4 DEF HeapValue
    <3>6. v \in HeapValue'
      BY <1>0, <3>4 DEF HeapValue, Value, ValueType
    <3>7. arrays' \in Seq(Seq(HeapValue'))
      BY <3>4, <3>5, SeqMonotonic
    <3>8. vals' \in Seq(HeapValue')
      <4>1. SubSeq(vals, 2, Len(vals)) \in Seq(HeapValue)
        BY <2>1, Rest
      <4>2. SubSeq(vals, 2, Len(vals)) \in Seq(HeapValue') /\ <<v>> \in Seq(HeapValue')
        BY <3>5, <3>6, <4>1, SeqMonotonic
      <4> QED BY <3>3, <4>2, ConcatProperties DEF Replace
    <3>9. StoreGrows
      BY <1>0, <3>4, <3>7, <3>8 DEF StoreGrows, StoreTyped
    <3> QED BY <2>1, <3>3, <3>9, ResumesShort, GoesOn
  <2> QED BY <2>2, <2>3
<1>6. CASE PrintValue
  <2>1. Executing /\ Todo # <<>> /\ Len(vals) >= 1 /\ 1 \in Nat
    BY <1>6 DEF PrintValue
  <2>2. StoreGrows
    BY <1>6, <2>1, Dropped DEF PrintValue
  <2> QED BY <1>6, <2>1, <2>2, ResumesShort, GoesOn DEF PrintValue
<1>7. CASE VisitExpressionStmt
  <2>1. CASE Accepting("exprStmt")
    <3>1. /\ Executing /\ Todo # <<>> /\ N \in Node /\ N.kind = "exprStmt" /\ 1 \in 1..Len(N.kids)
      <4>1. Executing /\ Todo # <<>> /\ N \in Node /\ N.kind = "exprStmt"
        BY <2>1, AtWork
      <4>2. Len(N.kids) = 1
        BY <4>1, ArityAssumption
      <4> QED BY <4>1, <4>2
    <3>2. /\ Task("accept", N.kids[1]) \in Onward /\ Task("drop", N) \in Onward
          /\ Task("accept", N.kids[1]).op # "enter" /\ Task("drop", N).op # "enter"
          /\ Task("accept", N.kids[1]).node.kind \in ExprKind
      BY <3>1, OwnTask, PartTask, PartKind DEF PlainOp, Task, ExprKind
    <3>3. /\ Continue(<<Task("accept", N.kids[1]), Task("drop", N)>>)
          /\ UNCHANGED <<vals, exc, envs, env, execDepth, functions, arrays>>
      BY <1>7, <2>1 DEF VisitExpressionStmt
    <3>4. Resumes(<<Task("accept", N.kids[1]), Task("drop", N)>>)
      BY <3>1, <3>2, <3>3, ResumesShort
    <3> QED BY <3>1, <3>3, <3>4, SameValues, GoesOn
  <2>2. CASE At("drop")
    <3>1. Executing /\ Todo # <<>> /\ Len(vals) >= 1 /\ 1 \in Nat
      BY <1>7, <2>2 DEF VisitExpressionStmt
    <3>2. Continue(<<>>) /\ Drop(1) /\ UNCHANGED <<exc, envs, env, execDepth, functions, arrays>>
      BY <1>7, <2>2 DEF VisitExpressionStmt
    <3>3. StoreGrows
      BY <3>1, <3>2, Dropped
    <3> QED BY <3>1, <3>2, <3>3, ResumesShort, GoesOn
  <2> QED BY <1>7, <2>1, <2>2 DEF VisitExpressionStmt
<1>8. CASE VisitVarDeclareStmt
  <2>1. /\ Executing /\ Todo # <<>> /\ N.kind = "var" /\ N.tok \in Name
        /\ frames # <<>> /\ exc = "none" /\ env \in 1..Len(envs)
    <3>1. Executing /\ Todo # <<>> /\ N.kind = "var"
      BY <1>8 DEF VisitVarDeclareStmt
    <3> QED BY <3>1, AtWork, NodeAssumption, WorkAtHand DEF FramesInv, Aligned
  <2>2. CASE Accepting("var")
    <3>1. /\ Continue(<<>>) /\ Write(env, N.tok, Nil)
          /\ UNCHANGED <<vals, exc, env, execDepth, functions, arrays>>
      BY <1>8, <2>2 DEF VisitVarDeclareStmt
    <3>2. Assigns
      BY <2>1, <3>1, NewValues DEF Assigns
    <3> QED BY <2>1, <3>1, <3>2, SameValues DEF Proceeds
  <2>3. CASE After("var")
    <3>1. /\ Continue(<<>>) /\ Write(env, N.tok, vals[1]) /\ Drop(1) /\ Len(vals) >= 1
          /\ UNCHANGED <<exc, env, execDepth, functions, arrays>>
      BY <1>8, <2>3 DEF VisitVarDeclareStmt
    <3>2. vals[1] \in HeapValue /\ 1 \in Nat
      BY <3>1, ValueAt
    <3>3. Assigns
      BY <2>1, <3>1, <3>2 DEF Assigns
    <3>4. StoreGrows
      BY <3>1, <3>2, Dropped
    <3> QED BY <2>1, <3>1, <3>3, <3>4 DEF Proceeds
  <2> QED BY <1>8, <2>2, <2>3 DEF VisitVarDeclareStmt
<1> QED BY <1>1, <1>2, <1>3, <1>4, <1>5, <1>6, <1>7, <1>8

\* The parts of a for; its initializer, condition and increment may be missing.
LEMMA ForParts ==
  ASSUME FramesInv, Executing, Todo # <<>>, N.kind = "for"
  PROVE  /\ N \in Node /\ {1, 2, 3, 4} \subseteq 1..Len(N.kids)
         /\ {ForInit(N), ForCond(N), ForIncr(N), ForBody(N)} \subseteq Node \cap Kids(N)
         /\ \A op \in ForOp : Task(op, N) \in TaskType
        /\ "print" \notin {ForInit(N).kind, ForCond(N).kind, ForIncr(N).kind}
<1>1. N \in Node /\ {1, 2, 3, 4} \subseteq 1..Len(N.kids) /\ DOMAIN N.kids = 1..Len(N.kids)
  <2>1. N \in Node /\ N.kids \in Seq(Node)
    BY AtWork
  <2>2. Len(N.kids) = 4
    BY <2>1, ArityAssumption
  <2> QED BY <2>1, <2>2, LenProperties
<1>2. {ForInit(N), ForCond(N), ForIncr(N), ForBody(N)} \subseteq Node \cap Kids(N)
  BY <1>1, AtWork DEF ForInit, ForCond, ForIncr, ForBody, Kids
<1>3. \A op \in ForOp : Task(op, N) \in TaskType
  BY <1>1, TaskIsTyped
<1>4. "print" \notin {ForInit(N).kind, ForCond(N).kind, ForIncr(N).kind}
  <2>1. N.kids[1].kind \in {"var", "exprStmt", "absent"}
    BY <1>1, KidsAssumption
  <2>2. N.kids[2].kind \notin StmtKind /\ N.kids[3].kind \notin StmtKind
    BY <1>1, KidsAssumption DEF SubStatements
  <2> QED BY <2>1, <2>2 DEF StmtKind, ForInit, ForCond, ForIncr
<1> QED BY <1>1, <1>2, <1>3, <1>4

LEMMA PresentIn ==
  ASSUME NEW op, NEW n, NEW part, NEW S, Task(op, part) \in S
  PROVE  Present(op, n, part) \in Seq(S)
BY ShortWork DEF Present

\* A for goes on in its frame.
LEMMA ForSteps ==
  ASSUME FramesInv, ForLoop \/ ForTest \/ ForIncrement
  PROVE  Proceeds
<1> USE DEF At, storeVars, debugVars
<1>1. /\ Executing /\ Todo # <<>> /\ N.kind = "for" /\ Now.op \in ForOp
      /\ UNCHANGED <<exc, envs, env, execDepth, functions, arrays>>
  BY AtWork DEF ForLoop, ForTest, ForIncrement, TaskType, N, ForOp
<1>2. /\ \A op \in ForOp : Task(op, N) \in Onward /\ Task(op, N).op # "enter"
      /\ \A op \in PlainOp : \A i \in {1, 2, 3, 4} :
           op = "run" \/ i \in {2, 3} =>
             Task(op, N.kids[i]) \in Onward /\ Task(op, N.kids[i]).op # "enter"
  BY <1>1, OwnTask, PartTask, ForParts DEF Task, PlainOp, ForOp, ForCond, ForIncr
<1>3. Continue(ForIteration(N)) => Resumes(ForIteration(N))
  BY <1>1, <1>2, ResumesShort DEF ForIteration, ForBody, PlainOp, ForOp
<1>4. CASE ForLoop
  <2>1. StoreGrows
    BY <1>4, SameValues DEF ForLoop
  <2>2. CASE ForCond(N) = Absent
    BY <1>1, <1>3, <1>4, <2>1, <2>2, GoesOn DEF ForLoop
  <2>3. CASE ForCond(N) # Absent
    <3>1. Continue(<<Task("accept", ForCond(N)), Task("test", N)>>)
      BY <1>4, <2>3 DEF ForLoop
    <3>2. Resumes(<<Task("accept", ForCond(N)), Task("test", N)>>)
      BY <1>1, <1>2, <3>1, ResumesShort DEF ForCond, PlainOp, ForOp
    <3> QED BY <1>1, <2>1, <3>2, GoesOn
  <2> QED BY <2>2, <2>3
<1>5. CASE ForTest
  <2>1. Len(vals) >= 1 /\ 1 \in Nat
    BY <1>5 DEF ForTest
  <2>2. StoreGrows
    BY <1>1, <1>5, <2>1, Dropped DEF ForTest
  <2> QED BY <1>1, <1>3, <1>5, <2>2, ResumesShort, GoesOn DEF ForTest
<1>6. CASE ForIncrement
  <2>1. StoreGrows
    BY <1>6, SameValues DEF ForIncrement
  <2> DEFINE p == Present("accept", N, ForIncr(N))
             q == Present("drop", N, ForIncr(N))
             r == <<Task("loop", N)>>
             w == p \o q \o r
             S == {t \in Onward : t.op # "enter"}
  <2>2. p \in Seq(S) /\ q \in Seq(S) /\ r \in Seq(S)
    BY <1>2, PresentIn DEF ForIncr, PlainOp, ForOp
  <2> HIDE DEF p, q, r, S
  <2>3. w \in Seq(S)
    BY <2>2, ConcatProperties
  <2>4. Continue(w)
    BY <1>6 DEF ForIncrement, p, q, r
  <2> HIDE DEF w
  <2>5. \A i \in DOMAIN w : w[i] \in S
    BY <2>3, ElementOfSeq, LenProperties
  <2>6. Steady(w)
    BY <1>1, <2>5 DEF Steady, S
  <2>7. w \in Seq(Onward)
    <3>1. S \subseteq Onward
      BY DEF S
    <3> QED BY <2>3, <3>1, SeqMonotonic
  <2> QED BY <1>1, <2>1, <2>4, <2>6, <2>7, GoesOn DEF Resumes
<1> QED BY <1>4, <1>5, <1>6

LEMMA StatementSteps ==
  ASSUME FramesInv, ChooseBranch \/ VisitFunctionStmt \/ VisitReturnStmt \/ VisitCallExpr
  PROVE  Proceeds
<1> USE DEF At, Accepting, After, storeVars, scopeVars, debugVars
<1>1. CASE ChooseBranch
  <2>1. /\ Executing /\ Todo # <<>> /\ N \in Node /\ N.kind = "if" /\ 2 \in 1..Len(N.kids)
        /\ Len(N.kids) = 3 => 3 \in 1..Len(N.kids)
        /\ Len(vals) >= 1 /\ 1 \in Nat
        /\ UNCHANGED <<exc, envs, env, execDepth, functions, arrays>>
    BY <1>1, AtWork, ArityAssumption DEF ChooseBranch
  <2>2. StoreGrows
    BY <1>1, <2>1, Dropped DEF ChooseBranch
  <2>3. /\ Task("run", N.kids[2]) \in Onward /\ Task("run", N.kids[2]).op # "enter"
        /\ Len(N.kids) = 3 => Task("run", N.kids[3]) \in Onward /\ Task("run", N.kids[3]).op # "enter"
    BY <2>1, PartTask DEF PlainOp, Task
  <2>4. \/ Continue(<<Task("run", N.kids[2])>>)
        \/ Len(N.kids) = 3 /\ Continue(<<Task("run", N.kids[3])>>)
        \/ Continue(<<>>)
    BY <1>1 DEF ChooseBranch
  <2>5. \E more : Resumes(more)
    BY <2>1, <2>3, <2>4, ResumesShort
  <2> QED BY <2>1, <2>2, <2>5, GoesOn
<1>2. CASE VisitFunctionStmt
  <2>1. /\ Executing /\ Todo # <<>> /\ Continue(<<>>) /\ Declares
        /\ UNCHANGED <<vals, exc, envs, env, execDepth, arrays>>
    BY <1>2 DEF VisitFunctionStmt, Declares
  <2> QED BY <2>1, AtWork, SameValues DEF Proceeds
<1>3. CASE VisitReturnStmt
  <2>1. /\ Executing /\ Todo # <<>> /\ N.kind = "return" /\ exc' = "return"
        /\ UNCHANGED <<frames, envs, env, execDepth, functions, arrays>>
    BY <1>3 DEF VisitReturnStmt
  <2>2. StoreGrows
    BY <1>3, <2>1, NewValues, Pushed, SameValues DEF VisitReturnStmt
  <2> QED BY <2>1, <2>2, AtWork DEF Proceeds
<1>4. CASE VisitCallExpr
  <2>1. Executing /\ Todo # <<>>
    BY <1>4 DEF VisitCallExpr
  <2>2. CASE CallKind(N) = "error"
    BY <1>4, <2>1, <2>2, Raises DEF VisitCallExpr
  <2>3. CASE CallKind(N) # "error"
    <3> DEFINE t == [op |-> CallKind(N), node |-> N, decl |-> functions[Callee(N).tok].decl]
    <3>1. /\ N \in Node /\ N.kind = "call" /\ N.kids \in Seq(Node) /\ Len(N.kids) >= 1
          /\ N.kids # <<>> /\ Callee(N) \in Node
      BY <1>4, AtWork, ArityAssumption, EmptySeq DEF VisitCallExpr, Callee
    <3>2. CallKind(N) \in CallOp /\ Callee(N).kind = "variable"
      BY <2>3 DEF CallKind, CallOp
    <3>3. Callee(N).tok \in Name
      BY <3>1, <3>2, NodeAssumption
    <3>4. t \in TaskType
      BY <3>1, <3>2, <3>3
         DEF TaskType, FramesInv, MemoryTyped, ClosuresAlive, PlainOp, ForOp, IndexOp, CallOp
    <3>5. t \in Onward
      BY <1>4, <3>2, <3>4 DEF VisitCallExpr, Onward, Visits, CallOp, ForOp
    <3>6. /\ Arguments(N) \in Seq(Node)
          /\ \A i \in 1..Len(Arguments(N)) :
               Arguments(N)[i] \in Kids(N) /\ Arguments(N)[i].kind \in ExprKind
      <4>1. /\ Arguments(N) \in Seq(Node) /\ Len(Arguments(N)) = Len(N.kids) - 1
            /\ \A i \in 1..Len(Arguments(N)) : Arguments(N)[i] = N.kids[i + 1]
        BY <3>1, HeadTailProperties DEF Arguments
      <4>2. Len(N.kids) \in Nat /\ DOMAIN N.kids = 1..Len(N.kids)
        BY <3>1, LenProperties
      <4>3. \A i \in 1..Len(Arguments(N)) : i + 1 \in 1..Len(N.kids)
        BY <4>1, <4>2
      <4>4. \A j \in 1..Len(N.kids) : N.kids[j] \in Kids(N) /\ N.kids[j].kind \in ExprKind
        BY <3>1, <4>2, PartKind DEF Kids
      <4> QED BY <4>1, <4>3, <4>4
    <3>7. /\ Continue(Append(Tasks("accept", Arguments(N)), t))
          /\ UNCHANGED <<vals, exc, envs, env, execDepth, functions, arrays>>
      BY <1>4, <2>3 DEF VisitCallExpr
    <3> HIDE DEF t
    <3>8. Resumes(Append(Tasks("accept", Arguments(N)), t))
      BY <2>1, <3>1, <3>5, <3>6, <3>7, ResumesAll
    <3> QED BY <2>1, <3>7, <3>8, SameValues, GoesOn
  <2> QED BY <2>2, <2>3
<1> QED BY <1>1, <1>2, <1>3, <1>4

-----------------------------------------------------------------------------
(* The visitors that set up a frame, and the ways out of one.               *)

\* What a new frame has to do: the statements of a block or of the body of a function, or
\* the parts of a for.
Opens(kind, work) ==
  \A i \in DOMAIN work :
    /\ work[i].op # "enter" /\ ~Visits(work[i])
    /\ work[i].op \in ForOp => kind = "for" /\ N.kind = kind /\ work[i].node = N
    /\ work[i].op \notin ForOp =>
         \/ kind \in {"block", "for"} /\ N.kind = kind /\ work[i].node \in Kids(N)
         \/ /\ kind = "call" /\ Callee(N).tok \in Name
            /\ work[i].node \in Kids(functions[Callee(N).tok].decl)

\* What the new environment holds and what it stands in: nothing, in the current one, or
\* the parameters, in the closure of the function - if that is alive.
Surrounds(kind, values, enclosing) ==
  IF kind = "call"
  THEN /\ At("enter")
       /\ functions[Callee(N).tok].closure \in {Dangling, enclosing}
       /\ \A x \in Name : values[x] # Unset =>
            \E i \in 1..Len(Now.decl.params) : Now.decl.params[i] = x
  ELSE Accepting(kind) /\ values = NoValues /\ enclosing = env

Enters ==
  /\ frames # <<>> /\ Todo # <<>> /\ exc = "none"
  /\ \E kind \in {"block", "for", "call"}, work \in Seq(TaskType),
        values \in [Name -> Held1], enclosing \in 1..Len(envs) :
       /\ EnterFrame(kind, work, values, enclosing) /\ Opens(kind, work)
       /\ Surrounds(kind, values, enclosing)
  /\ vals' \in Seq(HeapValue)
  /\ UNCHANGED <<exc, functions, arrays>>

Leaves ==
  /\ frames # <<>> /\ frames' = Pop(frames) /\ exc # "crash"
  /\ IF Len(frames) = 1
     THEN UNCHANGED <<exc, envs, env, execDepth, functions>>
     ELSE LeaveScope /\ exc' = IF exc = "return" /\ Top(frames).kind = "call" THEN "none" ELSE exc
  /\ vals' \in Seq(HeapValue)
  /\ UNCHANGED arrays

Crashes ==
  /\ exc' = "crash" /\ frames' = <<>> /\ exc = "none"
  /\ UNCHANGED <<vals, envs, env, execDepth, functions, arrays>>

LEMMA EntersInv == ASSUME FramesInv, Enters PROVE FramesInv'
BY EnterFrameInv DEF Enters

LEMMA LeavesInv ==
  ASSUME FramesInv, Leaves
  PROVE  FramesInv' /\ exc' # "crash"
<1>1. frames # <<>> /\ frames' = Pop(frames) /\ exc' # "crash"
  BY DEF Leaves
<1>2. CASE Len(frames) = 1
  <2>1. UNCHANGED <<envs, env, execDepth, functions, arrays>> /\ vals' \in Seq(HeapValue)
    BY <1>2 DEF Leaves
  <2>2. frames' \in Seq(FrameType) /\ Len(frames') = 0
    BY <1>1, <1>2, TopPop DEF FramesInv, FramesTyped
  <2>3. frames' = <<>>
    BY <2>2, EmptySeq
  <2>4. FramesTyped' /\ ChainsLeadOut' /\ MemoryTyped'
    BY <2>1, <2>2 DEF FramesInv, FramesTyped, EnvsTyped, ChainsLeadOut, ClosuresAlive,
                      MemoryTyped, StoreTyped, EnvType, Held1, HeapValue
  <2>5. Aligned'
    BY <1>1, <1>2, <2>1, <2>2, <2>3 DEF FramesInv, Aligned
  <2> QED BY <1>1, <2>4, <2>5 DEF FramesInv
<1>3. CASE Len(frames) # 1
  BY <1>1, <1>3, LeaveScopeInv DEF Leaves
<1> QED BY <1>2, <1>3

LEMMA CrashesInv == ASSUME FramesInv, Crashes PROVE ExecutorInv'
<1>1. MemoryTyped'
  BY DEF Crashes, FramesInv, MemoryTyped, StoreTyped, EnvsTyped, ClosuresAlive, EnvType, Held1,
         HeapValue
<1>2. Len(envs) \in Nat \ {0}
  BY LenProperties, WorkAtHand DEF FramesInv, MemoryTyped, EnvsTyped, Aligned
<1>3. env \in Nat /\ execDepth \in Nat
  BY <1>2 DEF FramesInv, Aligned
<1> QED BY <1>1, <1>3 DEF Crashes, ExecutorInv

LEMMA Frames ==
  ASSUME FramesInv, VisitBlockStmt \/ VisitForStmt
  PROVE  Enters
<1> USE DEF At, Accepting
<1>1. /\ env \in 1..Len(envs) /\ frames # <<>> /\ Todo # <<>> /\ exc = "none" /\ Executing
      /\ N \in Node /\ N.kids \in Seq(Node) /\ DOMAIN N.kids = 1..Len(N.kids) /\ Len(N.kids) \in Nat
  BY WorkAtHand, AtWork, LenProperties DEF FramesInv, Aligned, VisitBlockStmt, VisitForStmt
<1>2. NoValues \in [Name -> Held1] /\ vals \in Seq(HeapValue)
  BY ValueAt DEF NoValues, Held1
<1>3. CASE VisitBlockStmt
  <2> DEFINE w == Tasks("run", N.kids)
  <2>1. w \in Seq(TaskType)
    BY <1>1, TasksAreTyped DEF PlainOp
  <2>2. Opens("block", w)
    BY <1>1, <1>3 DEF VisitBlockStmt, Opens, Visits, Tasks, Task, Kids, ForOp
  <2>3. /\ EnterFrame("block", w, NoValues, env) /\ UNCHANGED <<vals, exc, functions, arrays>>
        /\ Surrounds("block", NoValues, env)
    BY <1>3 DEF VisitBlockStmt, Surrounds
  <2> HIDE DEF w
  <2> QED BY <1>1, <1>2, <2>1, <2>2, <2>3 DEF Enters
<1>4. CASE VisitForStmt
  <2> DEFINE p == Present("accept", N, ForInit(N))
             t == Task("loop", N)
             w == Append(p, t)
             S == {u \in TaskType : /\ u.op # "enter" /\ ~Visits(u)
                                    /\ \/ u.node = N /\ u.op \in ForOp
                                       \/ u.node \in Kids(N) /\ u.op \notin ForOp}
  <2>1. N.kind = "for" /\ ForInit(N) \in Node \cap Kids(N) /\ t \in TaskType
    BY <1>1, <1>4, ForParts DEF VisitForStmt, ForOp
  <2>2. Task("accept", ForInit(N)) \in S /\ t \in S
    BY <1>1, <2>1, TaskIsTyped, ForParts DEF PlainOp, ForOp, Task, Visits
  <2>3. p \in Seq(S)
    BY <2>2, PresentIn
  <2> HIDE DEF p, t, S
  <2>4. w \in Seq(S)
    BY <2>2, <2>3, AppendProperties
  <2>5. w \in Seq(TaskType)
    <3>1. S \subseteq TaskType
      BY DEF S
    <3> QED BY <2>4, <3>1, SeqMonotonic
  <2>6. /\ EnterFrame("for", w, NoValues, env) /\ UNCHANGED <<vals, exc, functions, arrays>>
        /\ Surrounds("for", NoValues, env)
    BY <1>4 DEF VisitForStmt, Surrounds, p, t
  <2> HIDE DEF w
  <2>7. \A i \in DOMAIN w : w[i] \in S
    BY <2>4, ElementOfSeq, LenProperties
  <2>8. Opens("for", w)
    BY <2>1, <2>7 DEF Opens, S
  <2> QED BY <1>1, <1>2, <2>5, <2>6, <2>8 DEF Enters
<1> QED BY <1>3, <1>4

LEMMA Calls ==
  ASSUME FramesInv, CallFunction \/ CallDangling
  PROVE  Enters \/ Crashes
<1> USE DEF At
<1> DEFINE fn == functions[Callee(N).tok]
           ps == Now.decl.params
<1>1. /\ frames # <<>> /\ Todo # <<>> /\ exc = "none" /\ Executing /\ Now.op = "enter"
      /\ Len(vals) >= Len(ps)
  BY DEF CallFunction, CallDangling, Executing
<1>2. /\ Callee(N) \in Node /\ Callee(N).kind = "variable"
      /\ ps \in Seq(Name) /\ Len(ps) \in Nat
  <2>1. N \in Node /\ N.kind = "call" /\ Callee(N).kind = "variable" /\ Now.decl \in Node
    BY <1>1, AtWork DEF TaskType, N, CallOp
  <2>2. ps \in Seq(Name)
    BY <2>1, NodeAssumption
  <2> QED BY <1>1, <2>1, <2>2, AtWork, ArityAssumption, LenProperties DEF Callee
<1>3. Callee(N).tok \in Name
  BY <1>2, NodeAssumption
<1>4. fn.decl \in Node /\ fn.closure \in 0..Len(envs)
  BY <1>3 DEF FramesInv, MemoryTyped, ClosuresAlive
<1>5. fn.decl.kids \in Seq(Node) /\ DOMAIN fn.decl.kids = 1..Len(fn.decl.kids)
  BY <1>4, NodeAssumption, LenProperties
<1> DEFINE w == Tasks("run", fn.decl.kids)
<1>6. w \in Seq(TaskType)
  BY SMTT(60), <1>5, TasksAreTyped DEF PlainOp
<1>7. Opens("call", w)
  BY <1>3, <1>5 DEF Opens, Visits, Tasks, Task, Kids, ForOp
<1>8. ArgValues(ps) \in [Name -> Held1]
  <2> DEFINE k == Len(ps)
  <2>1. ASSUME NEW x \in Name, \E i \in 1..k : ps[i] = x
        PROVE  vals[k + 1 - (CHOOSE i \in 1..k : ps[i] = x)] \in HeapValue
    <3> DEFINE c == CHOOSE i \in 1..k : ps[i] = x
    <3>1. c \in 1..k
      BY <2>1
    <3> HIDE DEF c
    <3>2. k + 1 - c \in 1..Len(vals)
      BY <1>1, <1>2, <3>1, ValueAt
    <3>3. vals[k + 1 - c] \in HeapValue
      BY <3>2, ValueAt
    <3> QED BY <3>3 DEF c
  <2> QED BY <2>1 DEF ArgValues, Held1
<1>9. ASSUME NEW c \in 1..Len(envs), EnterCall(c), fn.closure \in {Dangling, c} PROVE Enters
  <2>1. /\ EnterFrame("call", w, ArgValues(ps), c)
        /\ UNCHANGED <<exc, functions, arrays>> /\ Drop(Len(ps))
    BY <1>9 DEF EnterCall
  <2>2. vals' \in Seq(HeapValue)
    BY <1>1, <1>2, <2>1, Rest DEF Drop
  <2>3. Surrounds("call", ArgValues(ps), c)
    BY <1>1, <1>9 DEF Surrounds, ArgValues
  <2> HIDE DEF w, ps
  <2> QED BY <1>1, <1>6, <1>7, <1>8, <2>1, <2>2, <2>3 DEF Enters
<1>10. Len(envs) \in Nat /\ DOMAIN envs = 1..Len(envs)
  BY LenProperties DEF FramesInv, MemoryTyped, EnvsTyped
<1>11. CASE CallFunction
  <2>1. fn.closure \in 1..Len(envs) /\ EnterCall(fn.closure)
    BY <1>4, <1>10, <1>11 DEF CallFunction, Dangling
  <2> QED BY <1>9, <2>1
<1>12. CASE CallDangling
  BY <1>1, <1>9, <1>10, <1>12 DEF CallDangling, Crashes, storeVars
<1> QED BY <1>11, <1>12

\* The two ways out of a frame.
LEMMA Leaving ==
  ASSUME FramesInv, exc # "crash", EndFrame \/ Unwind
  PROVE  Leaves
<1>1. frames # <<>> /\ frames' = Pop(frames) /\ UNCHANGED arrays
  BY DEF EndFrame, Unwind, Executing
<1>2. CASE EndFrame
  <2>1. exc = "none" /\ UNCHANGED exc
    BY <1>2 DEF EndFrame, Executing
  <2>2. vals' \in Seq(HeapValue)
    <3>1. <<Nil>> \o vals \in Seq(HeapValue)
      BY ValueAt, NewValues, ConcatProperties
    <3> QED BY <1>2, <3>1, ValueAt DEF EndFrame, Push
  <2> QED BY <1>1, <1>2, <2>1, <2>2 DEF EndFrame, Leaves
<1>3. CASE Unwind
  <2>1. vals' \in Seq(HeapValue)
    BY <1>3, ValueAt, EmptySeq DEF Unwind
  <2> QED BY <1>1, <1>3, <2>1 DEF Unwind, Leaves
<1> QED BY <1>2, <1>3

-----------------------------------------------------------------------------
(* Every step of the executor goes on in its frame, opens one, leaves one,  *)
(* or ends the process.                                                     *)

LEMMA StepKinds ==
  ASSUME ExecutorInv, DistancesTyped, ExecutorStep
  PROVE  /\ FramesInv /\ exc # "crash"
         /\ Proceeds \/ Enters \/ Leaves \/ Crashes
<1>1. exc # "crash" /\ FramesInv
  BY DEF ExecutorInv, ExecutorStep, Run, VisitLiteralExpr, VisitVariableExpr, EvaluateFirst,
         AssignValue, VisitBinaryExpr, UnaryValue, LogicalValue, VisitGroupingExpr,
         VisitIndexed, RequireArray, RequireIndex, StoreElement, PrintValue,
         VisitExpressionStmt, VisitVarDeclareStmt, VisitBlockStmt, ChooseBranch,
         VisitForStmt, ForLoop, ForTest, ForIncrement, VisitFunctionStmt, VisitReturnStmt,
         VisitCallExpr, CallFunction, CallDangling, AllocateArray, EndFrame, Unwind,
         At, Accepting, After, Executing
<1> QED BY <1>1, Expressions, ArraysAndOutput, ForSteps, StatementSteps, Frames, Calls, Leaving
        DEF ExecutorStep

LEMMA ExecutorStepInv ==
  ASSUME ExecutorInv, DistancesTyped, ExecutorStep
  PROVE  ExecutorInv'
<1>1. Proceeds => FramesInv' /\ exc' # "crash"
  BY StepKinds, ProceedsInv DEF Proceeds
<1>2. Enters => FramesInv' /\ exc' # "crash"
  BY StepKinds, EntersInv DEF Enters
<1>3. Leaves => FramesInv' /\ exc' # "crash"
  BY StepKinds, LeavesInv
<1> QED BY <1>1, <1>2, <1>3, StepKinds, CrashesInv DEF ExecutorInv

\* execute() begins.
LEMMA ExecuteBeginInv ==
  ASSUME FramesInv, exc # "crash", NEW stmts \in Seq(Node), ExecuteBegin(stmts)
  PROVE  /\ FramesInv' /\ exc' # "crash"
         /\ Len(frames') = 1 /\ frames'[1] = Frame("execute", Tasks("run", stmts))
<1> DEFINE f == Frame("execute", Tasks("run", stmts))
<1>1. /\ frames' = <<f>> /\ frames = <<>>
      /\ UNCHANGED <<exc, vals, arrays, envs, env, execDepth, functions>>
  BY DEF ExecuteBegin, storeVars
<1>2. Tasks("run", stmts) \in Seq(TaskType)
  BY TasksAreTyped DEF PlainOp
<1>3. f \in FrameType
  BY <1>1, <1>2 DEF Frame, FrameType, FramesInv, Aligned
<1> HIDE DEF f
<1>4. frames' \in Seq(FrameType) /\ Len(frames') = 1 /\ frames'[1] = f /\ frames' # <<>>
  BY <1>1, <1>3, EmptySeq
<1>5. FramesTyped' /\ ChainsLeadOut' /\ MemoryTyped'
  BY <1>1, <1>4 DEF FramesInv, FramesTyped, ChainsLeadOut, MemoryTyped, StoreTyped, EnvsTyped,
                    ClosuresAlive, EnvType, Held1, HeapValue
<1>6. Aligned'
  BY <1>1, <1>4 DEF FramesInv, Aligned
<1> QED BY <1>1, <1>4, <1>5, <1>6 DEF FramesInv, f

LEMMA FreshFrames ==
  ASSUME frames = <<>>, vals = <<>>, exc = "none", arrays = <<>>,
         envs = <<[values |-> NoValues, chain |-> << 1 >>]>>, env = 1, execDepth = 0,
         functions = [x \in Name |-> NoFunction]
  PROVE  FramesInv /\ exc # "crash"
<1> DEFINE global == [values |-> NoValues, chain |-> <<1>>]
<1>1. /\ frames = <<>> /\ envs = <<global>> /\ env = 1 /\ execDepth = 0 /\ exc = "none"
      /\ functions = [x \in Name |-> NoFunction] /\ vals = <<>> /\ arrays = <<>>
  OBVIOUS
<1>2. <<1>> \in Seq(1..1) /\ <<1>> \in Seq(Nat) /\ Len(<<1>>) = 1 /\ <<1>>[1] = 1
  OBVIOUS
<1>3. global \in EnvType /\ ChainFrom(global.chain, 1)
  BY <1>2 DEF ChainFrom, EnvType, Held1, NoValues
<1> HIDE DEF global
<1>4. envs \in Seq(EnvType) /\ Len(envs) = 1 /\ envs[1] = global
  BY <1>1, <1>3
<1>5. FramesTyped /\ EnvsTyped /\ StoreTyped
  BY <1>1, <1>4, EmptySeq DEF FramesTyped, EnvsTyped, StoreTyped
<1>6. Aligned
  BY <1>1, <1>4, EmptySeq DEF Aligned
<1>7. ChainsLeadOut
  BY <1>3, <1>4 DEF ChainsLeadOut
<1>8. ClosuresAlive
  BY <1>1, <1>4, NodeAssumption DEF ClosuresAlive, NoFunction, Dangling
<1> QED BY <1>1, <1>5, <1>6, <1>7, <1>8 DEF FramesInv, MemoryTyped

LEMMA ExecutorInitInv == ExecutorInit => FramesInv /\ exc # "crash"
BY FreshFrames DEF ExecutorInit

\* No step of the executor.
LEMMA ExecutorKept ==
  ASSUME ExecutorInv, UNCHANGED <<frames, vals, storeVars>>,
         exc' = exc \/ (exc # "crash" /\ exc' # "crash")
  PROVE  ExecutorInv'
<1>1. MemoryTyped => MemoryTyped'
  BY DEF storeVars, MemoryTyped, StoreTyped, EnvsTyped, ClosuresAlive, EnvType, Held1, HeapValue
<1>2. FramesInv => FramesInv'
  BY <1>1 DEF storeVars, FramesInv, FramesTyped, Aligned, ChainsLeadOut
<1> QED BY <1>1, <1>2 DEF ExecutorInv, storeVars

-----------------------------------------------------------------------------
(* The values.  A task takes values from "vals" and leaves one, or none if  *)
(* it is about a statement; so the work that is left determines how many    *)
(* values there are at each of its tasks: these are the levels of the work. *)
(* A frame has its own levels, which start where the task that entered it   *)
(* left off.                                                                *)

-----------------------------------------------------------------------------
(* The levels of a frame's work.                                            *)

StatementTask(t) ==
  \/ t.op \in {"run", "drop", "test", "loop", "increment"}
  \/ t.op \in {"accept", "after"} /\ t.node.kind \in StmtKind

\* How many values a task takes, and how many it leaves.
Needs(t) ==
  CASE t.op \in {"drop", "test", "requireArray", "allocate"} -> 1
    [] t.op = "requireIndex" -> 2
    [] t.op = "enter"        -> Len(t.decl.params)
    [] t.op = "after"        -> (CASE t.node.kind = "binary"      -> 2
                                   [] t.node.kind = "indexAssign" -> 3
                                   [] OTHER                       -> 1)
    [] OTHER                 -> 0
Gives(t) == IF StatementTask(t) THEN 0 ELSE 1

\* p[k] is the number of values before the k-th task; no task touches the lowest "low",
\* and a statement finds only these.
Leveled(work, low, end, p) ==
  /\ p \in [1..(Len(work) + 1) -> Nat]
  /\ p[Len(work) + 1] = end
  /\ \A k \in 1..Len(work) :
       /\ p[k + 1] = p[k] - Needs(work[k]) + Gives(work[k])
       /\ p[k] - Needs(work[k]) >= low
       /\ StatementTask(work[k]) => p[k] - Needs(work[k]) = low
       /\ work[k].op = "run" => work[k].node.kind \in StmtKind

\* An assignment to an element finds below the value an array and an index that were
\* checked, at a place of E, and what is to be done before leaves them alone.
Stores(t) == t.op = "after" /\ t.node.kind = "indexAssign"
Shelved(work, p, E) ==
  \A k \in 1..Len(work) : Stores(work[k]) =>
    /\ p[k] - 1 \in E
    /\ \A j \in 1..(k - 1) : p[k] - 1 <= p[j] - Needs(work[j])

LEMMA NeedsType ==
  ASSUME NEW t \in TaskType
  PROVE  Needs(t) \in Nat /\ Gives(t) \in {0, 1}
<1>1. t.decl.params \in Seq(Name)
  BY NodeAssumption DEF TaskType
<1>2. Len(t.decl.params) \in Nat
  BY <1>1, LenProperties
<1> QED BY <1>2 DEF Needs, Gives

\* What may be put in the place of the first task w of the work, which finds "low" values
\* besides its own.
Replaces(more, w, low, m, E) ==
  \E q :
    /\ Leveled(more, low, low + Gives(w), q) /\ Shelved(more, q, E)
    /\ q[1] = m
    /\ (\E k \in 1..Len(more) : StatementTask(more[k])) => StatementTask(w)

\* The levels of the work that is left then.
Joined(new, b, low, m, F, more) ==
  \E r : /\ Leveled(new, b, b, r) /\ Shelved(new, r, F)
         /\ r[1] = m
         /\ more = <<>> => \A k \in 1..Len(new) : Stores(new[k]) => r[k] - 1 <= low

LEMMA LevelsJoin ==
  ASSUME NEW work \in Seq(TaskType), work # <<>>, NEW more \in Seq(TaskType),
         NEW b \in Nat, NEW p, NEW E, NEW m, NEW F, NEW low,
         Leveled(work, b, b, p), Shelved(work, p, E), low = p[1] - Needs(Head(work)),
         Replaces(more, Head(work), low, m, F), \A h \in E : h <= low => h \in F
  PROVE  low \in Nat /\ low >= b /\ Joined(more \o Tail(work), b, low, m, F, more)
<1> DEFINE new == more \o Tail(work)
           w   == Head(work)
<1>1. /\ new \in Seq(TaskType)
      /\ Len(work) \in Nat \ {0} /\ Len(more) \in Nat /\ w = work[1] /\ w \in TaskType
      /\ Len(new) = Len(more) + Len(work) - 1
      /\ \A k \in 1..Len(more) : new[k] = more[k]
      /\ \A k \in (Len(more) + 1)..Len(new) : new[k] = work[k - Len(more) + 1]
  <2>0. Tail(work) \in Seq(TaskType) /\ Len(Tail(work)) = Len(work) - 1
        /\ \A i \in 1..Len(Tail(work)) : Tail(work)[i] = work[i + 1]
    BY HeadTailProperties
  <2>1. Len(work) \in Nat /\ Len(more) \in Nat /\ Len(work) # 0
    BY EmptySeq, LenProperties
  <2>2. w = work[1] /\ w \in TaskType
    BY HeadTailProperties
  <2>3. /\ new \in Seq(TaskType) /\ Len(new) = Len(more) + Len(Tail(work))
        /\ \A i \in 1..Len(new) :
             new[i] = IF i <= Len(more) THEN more[i] ELSE Tail(work)[i - Len(more)]
    BY <2>0, ConcatProperties
  <2> HIDE DEF new, w
  <2>4. ASSUME NEW k \in (Len(more) + 1)..Len(new) PROVE new[k] = work[k - Len(more) + 1]
    <3>1. k \in 1..Len(new) /\ k > Len(more) /\ k - Len(more) \in 1..Len(Tail(work))
      BY <2>0, <2>1, <2>3
    <3> QED BY <2>0, <2>3, <3>1
  <2>5. \A k \in 1..Len(more) : k \in 1..Len(new)
    BY <2>0, <2>1, <2>3
  <2>6. Len(work) \in Nat \ {0} /\ Len(new) = Len(more) + Len(work) - 1
    BY <2>0, <2>1, <2>3
  <2>7. ASSUME NEW k \in 1..Len(more) PROVE new[k] = more[k]
    <3>1. k \in 1..Len(new)
      BY <2>5
    <3>2. k <= Len(more)
      BY <2>1
    <3> QED BY <2>3, <3>1, <3>2
  <2> QED BY <2>1, <2>2, <2>3, <2>4, <2>6, <2>7
<1> HIDE DEF new, w
<1>2. PICK q : /\ Leveled(more, low, low + Gives(w), q) /\ Shelved(more, q, F)
               /\ q[1] = m
               /\ (\E k \in 1..Len(more) : StatementTask(more[k])) => StatementTask(w)
  BY DEF Replaces, w
<1>3. Needs(w) \in Nat /\ Gives(w) \in {0, 1}
  BY <1>1, NeedsType
<1>4. /\ low = p[1] - Needs(w) /\ low \in Nat /\ low >= b
      /\ p[2] = low + Gives(w)
      /\ StatementTask(w) => low = b
  <2>0. 1 \in 1..Len(work) /\ 1 \in 1..(Len(work) + 1) /\ 1 + 1 = 2
    BY <1>1
  <2>1. p[1] \in Nat /\ p[1] - Needs(w) >= b
        /\ p[2] = p[1] - Needs(w) + Gives(w) /\ (StatementTask(w) => p[1] - Needs(w) = b)
    <3>1. /\ p[1 + 1] = p[1] - Needs(work[1]) + Gives(work[1])
          /\ p[1] - Needs(work[1]) >= b
          /\ StatementTask(work[1]) => p[1] - Needs(work[1]) = b
      BY <2>0 DEF Leveled
    <3>2. p[1] \in Nat
      BY <2>0 DEF Leveled
    <3> QED BY <1>1, <2>0, <3>1, <3>2
  <2> QED BY <1>3, <2>1 DEF w
<1> DEFINE r == [k \in 1..(Len(new) + 1) |-> IF k <= Len(more) THEN q[k] ELSE p[k - Len(more) + 1]]
<1>5. /\ \A k \in 1..Len(more) : r[k] = q[k] /\ r[k + 1] = q[k + 1]
      /\ \A k \in (Len(more) + 1)..(Len(new) + 1) : r[k] = p[k - Len(more) + 1]
      /\ r \in [1..(Len(new) + 1) -> Nat]
  <2>1. q[Len(more) + 1] = p[2]
    BY <1>2, <1>4 DEF Leveled
  <2>2. \A k \in 1..Len(more) : r[k] = q[k]
    BY <1>1
  <2>3. \A k \in (Len(more) + 1)..(Len(new) + 1) : r[k] = p[k - Len(more) + 1]
    BY <1>1
  <2>4. ASSUME NEW k \in 1..Len(more) PROVE r[k + 1] = q[k + 1]
    <3>1. CASE k < Len(more)
      BY <1>1, <2>2, <3>1
    <3>2. CASE k = Len(more)
      <4>1. k + 1 \in (Len(more) + 1)..(Len(new) + 1) /\ k + 1 - Len(more) + 1 = 2
        BY <1>1, <3>2
      <4> QED BY <2>1, <2>3, <3>2, <4>1
    <3> QED BY <1>1, <3>1, <3>2
  <2>5. ASSUME NEW k \in 1..(Len(new) + 1) PROVE r[k] \in Nat
    <3>1. CASE k <= Len(more)
      <4>1. k \in 1..(Len(more) + 1)
        BY <1>1, <3>1
      <4> QED BY <1>2, <3>1, <4>1 DEF Leveled
    <3>2. CASE k > Len(more)
      <4>1. k - Len(more) + 1 \in 1..(Len(work) + 1)
        BY <1>1, <3>2
      <4>2. r[k] = p[k - Len(more) + 1]
        BY <1>1, <2>3, <3>2
      <4> HIDE DEF r
      <4> QED BY <4>1, <4>2 DEF Leveled
    <3> QED BY <1>1, <3>1, <3>2
  <2> QED BY <2>2, <2>3, <2>4, <2>5
<1>6. r[1] = m
  <2>1. CASE Len(more) = 0
    <3>1. 1 \in (Len(more) + 1)..(Len(new) + 1) /\ 1 - Len(more) + 1 = 2
      BY <1>1, <2>1
    <3>2. q[1] = low + Gives(w)
      BY <1>2, <2>1 DEF Leveled
    <3> QED BY <1>2, <1>4, <1>5, <3>1, <3>2
  <2>2. CASE Len(more) # 0
    <3>1. 1 \in 1..Len(more)
      BY <1>1, <2>2
    <3> QED BY <1>2, <1>5, <3>1
  <2> QED BY <2>1, <2>2
<1> HIDE DEF r
\* What the rest of the work finds.
<1>7. ASSUME NEW k \in (Len(more) + 1)..Len(new)
      PROVE  LET i == k - Len(more) + 1 IN
             /\ i \in 2..Len(work) /\ new[k] = work[i] /\ r[k] = p[i] /\ r[k + 1] = p[i + 1]
  <2>1. k \in (Len(more) + 1)..(Len(new) + 1) /\ k + 1 \in (Len(more) + 1)..(Len(new) + 1)
        /\ k + 1 - Len(more) + 1 = k - Len(more) + 1 + 1
        /\ k - Len(more) + 1 \in 2..Len(work)
    BY <1>1
  <2> QED BY <1>1, <1>5, <2>1
<1>8. Leveled(new, b, b, r)
  <2>1. r[Len(new) + 1] = b
    <3>1. Len(new) + 1 \in (Len(more) + 1)..(Len(new) + 1) /\ Len(new) + 1 - Len(more) + 1 = Len(work) + 1
      BY <1>1
    <3>2. p[Len(work) + 1] = b
      BY DEF Leveled
    <3>3. r[Len(new) + 1] = p[Len(new) + 1 - Len(more) + 1]
      BY <1>5, <3>1
    <3> QED BY <3>1, <3>2, <3>3
  <2>2. ASSUME NEW k \in 1..Len(new)
        PROVE  /\ r[k + 1] = r[k] - Needs(new[k]) + Gives(new[k])
               /\ r[k] - Needs(new[k]) >= b
               /\ StatementTask(new[k]) => r[k] - Needs(new[k]) = b
               /\ new[k].op = "run" => new[k].node.kind \in StmtKind
    <3>1. CASE k <= Len(more)
      <4>1. k \in 1..Len(more) /\ new[k] = more[k] /\ r[k] = q[k] /\ r[k + 1] = q[k + 1]
        BY <1>1, <1>5, <3>1
      <4>2. /\ q[k + 1] = q[k] - Needs(more[k]) + Gives(more[k])
            /\ q[k] - Needs(more[k]) >= low
            /\ StatementTask(more[k]) => q[k] - Needs(more[k]) = low
            /\ more[k].op = "run" => more[k].node.kind \in StmtKind
        BY <1>2, <4>1 DEF Leveled
      <4>5. q[k] \in Nat
        <5>1. k \in 1..(Len(more) + 1)
          BY <1>1, <4>1
        <5> QED BY <1>2, <5>1 DEF Leveled
      <4>3. more[k] \in TaskType
        BY <4>1, ElementOfSeq
      <4>4. Needs(more[k]) \in Nat
        BY <4>3, NeedsType
      <4> QED BY <1>2, <1>4, <4>1, <4>2, <4>4, <4>5
    <3>2. CASE k > Len(more)
      <4>1. k \in (Len(more) + 1)..Len(new)
        BY <1>1, <3>2
      <4> DEFINE i == k - Len(more) + 1
      <4>2. i \in 1..Len(work) /\ new[k] = work[i] /\ r[k] = p[i] /\ r[k + 1] = p[i + 1]
        BY <1>1, <1>7, <4>1
      <4> HIDE DEF i
      <4> QED BY <4>2 DEF Leveled
    <3> QED BY <1>1, <3>1, <3>2
  <2> QED BY <1>5, <2>1, <2>2 DEF Leveled
\* An assignment to an element that is still to come leaves "low" values and its own.
<1>9. ASSUME NEW k \in (Len(more) + 1)..Len(new), Stores(new[k])
      PROVE  r[k] - 1 \in F /\ r[k] - 1 <= low
  <2> DEFINE i == k - Len(more) + 1
  <2>1. i \in 2..Len(work) /\ new[k] = work[i] /\ r[k] = p[i]
    BY <1>7
  <2> HIDE DEF i
  <2>2. 1 \in 1..(i - 1) /\ i \in 1..Len(work)
    BY <1>1, <2>1
  <2>3. p[i] - 1 \in E /\ p[i] - 1 <= p[1] - Needs(work[1])
    BY <1>9, <2>1, <2>2 DEF Shelved
  <2> QED BY <1>1, <1>4, <2>1, <2>3
<1>10. Shelved(new, r, F)
  <2>1. ASSUME NEW k \in 1..Len(new), Stores(new[k]), NEW j \in 1..(k - 1)
        PROVE  r[k] - 1 <= r[j] - Needs(new[j])
    <3>0. k \in Nat /\ j \in Nat /\ 1 <= j /\ j < k /\ k <= Len(new) /\ Len(new) \in Nat
      BY <1>1, LenProperties
    <3>1. CASE k <= Len(more)
      <4>1. k \in 1..Len(more) /\ j \in 1..Len(more) /\ new[k] = more[k] /\ new[j] = more[j]
            /\ r[k] = q[k] /\ r[j] = q[j]
        <5>1. k \in 1..Len(more) /\ j \in 1..Len(more)
          BY <1>1, <3>0, <3>1
        <5> QED BY <1>1, <1>5, <5>1
      <4> QED BY <1>2, <2>1, <4>1 DEF Shelved
    <3>2. CASE k > Len(more) /\ j <= Len(more)
      <4>1. k \in (Len(more) + 1)..Len(new) /\ j \in 1..Len(more) /\ r[j] = q[j] /\ new[j] = more[j]
        <5>1. k \in (Len(more) + 1)..Len(new) /\ j \in 1..Len(more)
          BY <1>1, <3>0, <3>2
        <5> QED BY <1>1, <1>5, <5>1
      <4>2. r[k] - 1 <= low
        BY <1>9, <2>1, <4>1
      <4>3. q[j] - Needs(more[j]) >= low /\ q[j] \in Nat
        <5>1. j \in 1..(Len(more) + 1)
          BY <1>1, <4>1
        <5> QED BY <1>2, <4>1, <5>1 DEF Leveled
      <4>4. more[j] \in TaskType
        BY <4>1, ElementOfSeq
      <4>5. Needs(more[j]) \in Nat
        BY <4>4, NeedsType
      <4>6. r[k] \in Nat
        <5>1. k \in 1..(Len(new) + 1)
          BY <3>0
        <5> QED BY <1>5, <5>1
      <4> QED BY SMTT(60), <1>4, <4>1, <4>2, <4>3, <4>5, <4>6
    <3>3. CASE k > Len(more) /\ j > Len(more)
      <4> DEFINE i == k - Len(more) + 1
                 l == j - Len(more) + 1
      <4>1. k \in (Len(more) + 1)..Len(new) /\ j \in (Len(more) + 1)..Len(new)
        BY <1>1, <3>3
      <4>2. i \in 1..Len(work) /\ l \in 1..(i - 1) /\ new[k] = work[i] /\ new[j] = work[l]
            /\ r[k] = p[i] /\ r[j] = p[l]
        BY SMTT(60), <1>1, <1>7, <4>1
      <4> HIDE DEF i, l
      <4> QED BY <2>1, <4>2 DEF Shelved
    <3> QED BY <1>1, <3>1, <3>2, <3>3
  <2>2. ASSUME NEW k \in 1..Len(new), Stores(new[k]) PROVE r[k] - 1 \in F
    <3>1. CASE k <= Len(more)
      <4>1. k \in 1..Len(more) /\ new[k] = more[k] /\ r[k] = q[k]
        BY <1>1, <1>5, <3>1
      <4> QED BY <1>2, <2>2, <4>1 DEF Shelved
    <3>2. CASE k > Len(more)
      <4>1. k \in (Len(more) + 1)..Len(new)
        BY <1>1, <3>2
      <4> QED BY <1>9, <2>2, <4>1
    <3> QED BY <1>1, <3>1, <3>2
  <2> QED BY <2>1, <2>2 DEF Shelved
<1>11. more = <<>> => \A k \in 1..Len(new) : Stores(new[k]) => r[k] - 1 <= low
  <2>1. more = <<>> => Len(more) = 0
    BY EmptySeq
  <2> QED BY <1>9, <2>1
<1>12. Joined(new, b, low, m, F, more)
  BY <1>6, <1>8, <1>10, <1>11 DEF Joined
<1> QED BY <1>4, <1>12 DEF new
-----------------------------------------------------------------------------
(* What a visitor may leave to be done.                                     *)

\* The task t finds n values while w is replaced.
Takes(t, n, low, w) ==
  /\ n - Needs(t) >= low
  /\ StatementTask(t) => StatementTask(w) /\ n - Needs(t) = low
  /\ t.op = "run" => t.node.kind \in StmtKind

LEMMA ReplacesAll ==
  ASSUME NEW more \in Seq(TaskType), NEW w, NEW low, NEW m, NEW E,
         NEW q \in [1..(Len(more) + 1) -> Nat],
         q[1] = m, q[Len(more) + 1] = low + Gives(w),
         \A k \in 1..Len(more) :
           /\ q[k + 1] = q[k] - Needs(more[k]) + Gives(more[k])
           /\ Takes(more[k], q[k], low, w)
           /\ Stores(more[k]) => /\ q[k] - 1 \in E
                                 /\ \A j \in 1..(k - 1) : q[k] - 1 <= q[j] - Needs(more[j])
  PROVE  Replaces(more, w, low, m, E)
<1>1. Leveled(more, low, low + Gives(w), q)
  BY DEF Leveled, Takes
<1>2. Shelved(more, q, E)
  BY DEF Shelved
<1> QED BY <1>1, <1>2 DEF Replaces, Takes

\* Statements one after another, each finding the same values.
LEMMA LevelStatements ==
  ASSUME NEW work \in Seq(TaskType), NEW b \in Nat,
         \A k \in 1..Len(work) :
           /\ StatementTask(work[k]) /\ Needs(work[k]) = 0
           /\ work[k].op = "run" => work[k].node.kind \in StmtKind
  PROVE  LET p == [k \in 1..(Len(work) + 1) |-> b] IN
         /\ p[1] = b /\ Leveled(work, b, b, p)
         /\ \A k \in 1..Len(work) : ~Stores(work[k])
<1> DEFINE p == [k \in 1..(Len(work) + 1) |-> b]
<1>1. Len(work) \in Nat
  BY LenProperties
<1>2. p \in [1..(Len(work) + 1) -> Nat] /\ \A k \in 1..(Len(work) + 1) : p[k] = b
  OBVIOUS
<1> HIDE DEF p
<1>3. ASSUME NEW k \in 1..Len(work)
      PROVE  /\ p[k + 1] = p[k] - Needs(work[k]) + Gives(work[k])
             /\ p[k] - Needs(work[k]) = b
  <2>1. k \in 1..(Len(work) + 1) /\ k + 1 \in 1..(Len(work) + 1)
    BY <1>1
  <2>2. Gives(work[k]) = 0
    BY DEF Gives
  <2> QED BY <1>2, <2>1, <2>2
<1>4. p[1] = b /\ p[Len(work) + 1] = b
  <2>1. 1 \in 1..(Len(work) + 1) /\ Len(work) + 1 \in 1..(Len(work) + 1)
    BY <1>1
  <2> QED BY <1>2, <2>1
<1>5. \A k \in 1..Len(work) : ~Stores(work[k])
  <2>1. \A t : Stores(t) => Needs(t) = 3
    BY DEF Stores, Needs
  <2> QED BY <2>1
<1>6. Leveled(work, b, b, p)
  BY <1>2, <1>3, <1>4 DEF Leveled
<1> QED BY <1>4, <1>5, <1>6 DEF p

LEMMA ReplacesStatements ==
  ASSUME NEW more \in Seq(TaskType), NEW w, StatementTask(w), NEW low \in Nat, NEW E,
         \A k \in 1..Len(more) :
           /\ StatementTask(more[k]) /\ Needs(more[k]) = 0
           /\ more[k].op = "run" => more[k].node.kind \in StmtKind
  PROVE  Replaces(more, w, low, low, E)
<1>1. PICK p : p = [k \in 1..(Len(more) + 1) |-> low]
  OBVIOUS
<1>2. /\ p[1] = low /\ Leveled(more, low, low, p)
      /\ \A k \in 1..Len(more) : ~Stores(more[k])
  BY <1>1, LevelStatements
<1>3. low + Gives(w) = low
  BY DEF Gives
<1>4. Leveled(more, low, low + Gives(w), p)
  BY <1>2, <1>3
<1>5. Shelved(more, p, E)
  BY <1>2 DEF Shelved
<1> QED BY <1>2, <1>4, <1>5 DEF Replaces

\* Nothing.
LEMMA ReplacesNone ==
  ASSUME NEW w \in TaskType, NEW low \in Nat, NEW E
  PROVE  Replaces(<<>>, w, low, low + Gives(w), E)
<1>1. Gives(w) \in {0, 1}
  BY NeedsType
<1> DEFINE q == [k \in 1..1 |-> low + Gives(w)]
<1>2. q \in [1..1 -> Nat] /\ q[1] = low + Gives(w)
  BY <1>1
<1> HIDE DEF q
<1>3. PICK more : more = <<>>
  OBVIOUS
<1>4. more \in Seq(TaskType) /\ Len(more) = 0
  BY <1>3, EmptySeq
<1>5. Replaces(more, w, low, low + Gives(w), E)
  <2>1. q \in [1..(Len(more) + 1) -> Nat] /\ q[Len(more) + 1] = low + Gives(w)
    BY <1>2, <1>4
  <2>2. 1..Len(more) = {}
    BY <1>4
  <2> QED BY <1>2, <1>4, <2>1, <2>2, ReplacesAll
<1> QED BY <1>3, <1>5

\* One task, two, three or four; "m" is what the first one finds.
Left(t, n) == n - Needs(t) + Gives(t)

LEMMA LeftType ==
  ASSUME NEW t \in TaskType, NEW n \in Nat, NEW low \in Nat, NEW w, Takes(t, n, low, w)
  PROVE  Left(t, n) \in Nat
BY NeedsType DEF Left, Takes

LEMMA ReplacesOne ==
  ASSUME NEW t \in TaskType, NEW w, NEW low \in Nat, NEW m \in Nat, NEW E,
         Takes(t, m, low, w), Left(t, m) = low + Gives(w), ~Stores(t)
  PROVE  Replaces(<<t>>, w, low, m, E)
<1> DEFINE q == [k \in 1..2 |-> IF k = 1 THEN m ELSE Left(t, m)]
<1>1. q \in [1..2 -> Nat] /\ q[1] = m /\ q[2] = Left(t, m)
  BY LeftType
<1> HIDE DEF q
<1>2. PICK more : more = <<t>>
  OBVIOUS
<1>3. more \in Seq(TaskType) /\ Len(more) = 1 /\ more[1] = t
  BY <1>2
<1>4. 1..Len(more) = {1} /\ Len(more) + 1 = 2 /\ 1 + 1 = 2
  BY <1>3
<1>5. Replaces(more, w, low, m, E)
  BY <1>1, <1>3, <1>4, ReplacesAll DEF Left
<1> QED BY <1>2, <1>5

LEMMA ReplacesTwo ==
  ASSUME NEW t \in TaskType, NEW u \in TaskType, NEW w, NEW low \in Nat, NEW m \in Nat, NEW E,
         Takes(t, m, low, w), NEW n, n = Left(t, m), Takes(u, n, low, w),
         Left(u, n) = low + Gives(w),
         ~Stores(t), Stores(u) => n - 1 \in E /\ n - 1 <= m - Needs(t)
  PROVE  Replaces(<<t, u>>, w, low, m, E)
<1>0. n \in Nat
  BY LeftType
<1> DEFINE q == [k \in 1..3 |-> CASE k = 1 -> m [] k = 2 -> n [] k = 3 -> Left(u, n)]
<1>1. q \in [1..3 -> Nat] /\ q[1] = m /\ q[2] = n /\ q[3] = Left(u, n)
  BY <1>0, LeftType
<1> HIDE DEF q
<1>2. PICK more : more = <<t, u>>
  OBVIOUS
<1>3. more \in Seq(TaskType) /\ Len(more) = 2 /\ more[1] = t /\ more[2] = u
  BY <1>2
<1>4. /\ 1..Len(more) = {1, 2} /\ Len(more) + 1 = 3 /\ 1 + 1 = 2 /\ 2 + 1 = 3
      /\ \A j \in 1..(2 - 1) : j = 1
  BY <1>3
<1>5. Replaces(more, w, low, m, E)
  <2>1. ASSUME NEW k \in 1..Len(more)
        PROVE  /\ q[k + 1] = q[k] - Needs(more[k]) + Gives(more[k])
               /\ Takes(more[k], q[k], low, w)
               /\ Stores(more[k]) => /\ q[k] - 1 \in E
                                     /\ \A j \in 1..(k - 1) : q[k] - 1 <= q[j] - Needs(more[j])
    BY <1>1, <1>3, <1>4 DEF Left
  <2> QED BY <1>1, <1>3, <1>4, <2>1, ReplacesAll
<1> QED BY <1>2, <1>5

LEMMA ReplacesThree ==
  ASSUME NEW t \in TaskType, NEW u \in TaskType, NEW v \in TaskType,
         NEW w, NEW low \in Nat, NEW m \in Nat, NEW E,
         Takes(t, m, low, w), NEW n, n = Left(t, m), Takes(u, n, low, w),
         NEW o, o = Left(u, n), Takes(v, o, low, w), Left(v, o) = low + Gives(w),
         ~Stores(t), ~Stores(u), ~Stores(v)
  PROVE  Replaces(<<t, u, v>>, w, low, m, E)
<1>0. n \in Nat /\ o \in Nat
  BY LeftType
<1> DEFINE q == [k \in 1..4 |-> CASE k = 1 -> m [] k = 2 -> n [] k = 3 -> o [] k = 4 -> Left(v, o)]
<1>1. q \in [1..4 -> Nat] /\ q[1] = m /\ q[2] = n /\ q[3] = o /\ q[4] = Left(v, o)
  BY <1>0, LeftType
<1> HIDE DEF q
<1>2. PICK more : more = <<t, u, v>>
  OBVIOUS
<1>3. more \in Seq(TaskType) /\ Len(more) = 3 /\ more[1] = t /\ more[2] = u /\ more[3] = v
  BY <1>2
<1>4. 1..Len(more) = {1, 2, 3} /\ Len(more) + 1 = 4 /\ 1 + 1 = 2 /\ 2 + 1 = 3 /\ 3 + 1 = 4
  BY <1>3
<1>5. Replaces(more, w, low, m, E)
  <2>1. ASSUME NEW k \in 1..Len(more)
        PROVE  /\ q[k + 1] = q[k] - Needs(more[k]) + Gives(more[k])
               /\ Takes(more[k], q[k], low, w)
               /\ ~Stores(more[k])
    BY <1>1, <1>3, <1>4 DEF Left
  <2> QED BY <1>1, <1>3, <1>4, <2>1, ReplacesAll
<1> QED BY <1>2, <1>5

LEMMA ReplacesFour ==
  ASSUME NEW s \in TaskType, NEW t \in TaskType, NEW u \in TaskType, NEW v \in TaskType,
         NEW w, NEW low \in Nat, NEW m \in Nat, NEW E,
         Takes(s, m, low, w), NEW l, l = Left(s, m), Takes(t, l, low, w),
         NEW n, n = Left(t, l), Takes(u, n, low, w),
         NEW o, o = Left(u, n), Takes(v, o, low, w), Left(v, o) = low + Gives(w),
         ~Stores(s), ~Stores(t), ~Stores(u), ~Stores(v)
  PROVE  Replaces(<<s, t, u, v>>, w, low, m, E)
<1>0. l \in Nat /\ n \in Nat /\ o \in Nat
  <2>1. l \in Nat
    BY LeftType
  <2>2. n \in Nat
    BY <2>1, LeftType
  <2> QED BY <2>1, <2>2, LeftType
<1> DEFINE q == [k \in 1..5 |-> CASE k = 1 -> m [] k = 2 -> l [] k = 3 -> n [] k = 4 -> o
                                  [] k = 5 -> Left(v, o)]
<1>1. q \in [1..5 -> Nat] /\ q[1] = m /\ q[2] = l /\ q[3] = n /\ q[4] = o /\ q[5] = Left(v, o)
  BY <1>0, LeftType
<1> HIDE DEF q
<1>2. PICK more : more = <<s, t, u, v>>
  OBVIOUS
<1>3. /\ more \in Seq(TaskType) /\ Len(more) = 4
      /\ more[1] = s /\ more[2] = t /\ more[3] = u /\ more[4] = v
  BY <1>2
<1>4. /\ 1..Len(more) = {1, 2, 3, 4} /\ Len(more) + 1 = 5
      /\ 1 + 1 = 2 /\ 2 + 1 = 3 /\ 3 + 1 = 4 /\ 4 + 1 = 5
  BY <1>3
<1>5. Replaces(more, w, low, m, E)
  <2>1. ASSUME NEW k \in 1..Len(more)
        PROVE  /\ q[k + 1] = q[k] - Needs(more[k]) + Gives(more[k])
               /\ Takes(more[k], q[k], low, w)
               /\ ~Stores(more[k])
    BY <1>1, <1>3, <1>4 DEF Left
  <2> QED BY <1>1, <1>3, <1>4, <2>1, ReplacesAll
<1> QED BY <1>2, <1>5

\* Expressions one after another, then a task that takes all their values.
LEMMA ReplacesArguments ==
  ASSUME NEW kids \in Seq(Node), NEW t \in TaskType, NEW w, NEW low \in Nat, NEW E,
         \A i \in 1..Len(kids) : kids[i].kind \in ExprKind,
         ~StatementTask(t), t.op # "run", ~Stores(t), Needs(t) = Len(kids), Gives(w) = 1
  PROVE  Replaces(Append(Tasks("accept", kids), t), w, low, low, E)
<1> DEFINE s == Tasks("accept", kids)
           more == Append(s, t)
           q == [k \in 1..(Len(kids) + 2) |-> IF k = Len(kids) + 2 THEN low + 1 ELSE low + k - 1]
<1>1. Len(kids) \in Nat /\ DOMAIN kids = 1..Len(kids)
  BY LenProperties
<1>2. s \in Seq(TaskType) /\ Len(s) = Len(kids) /\ \A i \in 1..Len(kids) : s[i] = Task("accept", kids[i])
  <2>1. s \in Seq(TaskType)
    BY TasksAreTyped DEF PlainOp
  <2> QED BY <1>1, <2>1 DEF Tasks
<1> HIDE DEF s
<1>3. \A i \in 1..Len(kids) : s[i].op = "accept" /\ s[i].node.kind \in ExprKind
  <2>1. \A n : Task("accept", n).op = "accept" /\ Task("accept", n).node = n
    BY DEF Task
  <2> QED BY <1>2, <2>1
<1>4. /\ more \in Seq(TaskType) /\ Len(more) = Len(kids) + 1
      /\ \A i \in 1..Len(kids) : more[i] = s[i]
      /\ more[Len(kids) + 1] = t
  BY <1>1, <1>2, AppendProperties, LenProperties
<1> HIDE DEF more
<1>5. /\ q \in [1..(Len(more) + 1) -> Nat]
      /\ \A k \in 1..(Len(kids) + 1) : q[k] = low + k - 1
      /\ q[Len(kids) + 2] = low + 1
  BY <1>1, <1>4
<1> HIDE DEF q
<1>6. \A u : u.op = "accept" /\ u.node.kind \in ExprKind =>
        Needs(u) = 0 /\ ~StatementTask(u) /\ ~Stores(u) /\ Gives(u) = 1 /\ u.op # "run"
  BY DEF Needs, StatementTask, Stores, Gives, ExprKind, StmtKind
<1>7. Gives(t) = 1
  BY DEF Gives
<1>8. ASSUME NEW k \in 1..Len(more)
      PROVE  /\ q[k + 1] = q[k] - Needs(more[k]) + Gives(more[k])
             /\ Takes(more[k], q[k], low, w)
             /\ ~Stores(more[k])
  <2>1. CASE k = Len(kids) + 1
    <3>1. q[k] = low + Len(kids) /\ q[k + 1] = low + 1 /\ more[k] = t
      <4>1. k + 1 = Len(kids) + 2 /\ k \in 1..(Len(kids) + 1)
        BY <1>1, <2>1
      <4>2. q[k] = low + k - 1 /\ q[k + 1] = low + 1
        BY <1>5, <4>1
      <4> QED BY <1>1, <1>4, <2>1, <4>2
    <3> QED BY <1>1, <1>7, <3>1 DEF Takes
  <2>2. CASE k # Len(kids) + 1
    <3>1. k \in 1..Len(kids) /\ k \in 1..(Len(kids) + 1) /\ k + 1 \in 1..(Len(kids) + 1)
      BY <1>1, <1>4, <2>2
    <3>2. q[k] = low + k - 1 /\ q[k + 1] = low + k + 1 - 1
      BY <1>5, <3>1
    <3>3. more[k].op = "accept" /\ more[k].node.kind \in ExprKind
      BY <1>3, <1>4, <3>1
    <3>4. Needs(more[k]) = 0 /\ ~StatementTask(more[k]) /\ ~Stores(more[k]) /\ Gives(more[k]) = 1
          /\ more[k].op # "run"
      BY <1>6, <3>3
    <3> QED BY <1>1, <3>1, <3>2, <3>4 DEF Takes
  <2> QED BY <2>1, <2>2
<1>9. q[1] = low /\ q[Len(more) + 1] = low + Gives(w)
  <2>1. 1 \in 1..(Len(kids) + 1) /\ Len(more) + 1 = Len(kids) + 2
    BY <1>1, <1>4
  <2> QED BY <1>5, <2>1
<1>10. Replaces(more, w, low, low, E)
  BY <1>4, <1>5, <1>8, <1>9, ReplacesAll
<1> QED BY <1>10 DEF more, s
-----------------------------------------------------------------------------
(* The levels of all frames.                                                *)

\* A call leaves a value to the frame that made it.
Result(kind) == IF kind = "call" THEN 1 ELSE 0

\* b[i] is what the i-th frame found when it was set up, p[i] are the levels of its work;
\* n is the number of values there are, under way with the exception x.
BalancedBy(stack, n, E, x, b, p) ==
  /\ b \in [1..Len(stack) -> Nat] /\ b[1] = 0
  /\ \A i \in 1..Len(stack) :
       Leveled(stack[i].work, b[i], b[i], p[i]) /\ Shelved(stack[i].work, p[i], E)
  /\ \A i \in 2..Len(stack) :
       /\ p[i - 1][1] = b[i] + Result(stack[i].kind)
       /\ stack[i].kind # "call" => b[i] = b[i - 1]
  /\ \A i \in 1..Len(stack) : \A j \in (i + 1)..Len(stack) : \A k \in 1..Len(stack[i].work) :
       Stores(stack[i].work[k]) => p[i][k] - 1 <= b[j]
  /\ n = IF x = "return" THEN b[Len(stack)] + 1 ELSE p[Len(stack)][1]
Balanced(stack, n, E, x) == \E b, p : BalancedBy(stack, n, E, x, b, p)

LEMMA FrameWork ==
  ASSUME NEW stack \in Seq(FrameType), stack # <<>>
  PROVE  /\ Len(stack) \in Nat \ {0} /\ Len(stack) \in 1..Len(stack)
         /\ Top(stack).work = stack[Len(stack)].work /\ Top(stack).kind = stack[Len(stack)].kind
         /\ Top(stack).work \in Seq(TaskType)
         /\ \A i \in 1..Len(stack) : stack[i].work \in Seq(TaskType)
<1>1. Len(stack) \in Nat \ {0} /\ Top(stack) \in FrameType
  BY TopPop
<1>2. \A i \in 1..Len(stack) : stack[i] \in FrameType
  BY ElementOfSeq
<1>3. \A f \in FrameType : f.work \in Seq(TaskType)
  BY DEF FrameType
<1> QED BY <1>1, <1>2, <1>3 DEF Top

\* The first task finds the values it takes, and the element it stores to.
LEMMA BalancedNow ==
  ASSUME NEW stack \in Seq(FrameType), stack # <<>>, NEW n, NEW E,
         Balanced(stack, n, E, "none"), Top(stack).work # <<>>
  PROVE  LET t == Head(Top(stack).work) IN
         /\ n \in Nat /\ n - Needs(t) \in Nat
         /\ Stores(t) => n - 1 \in E
         /\ t.op = "run" => t.node.kind \in StmtKind
<1> DEFINE L == Len(stack)
           work == Top(stack).work
           t == Head(work)
<1>1. L \in 1..L /\ work = stack[L].work /\ work \in Seq(TaskType)
  BY FrameWork
<1>2. t = work[1] /\ t \in TaskType /\ 1 \in 1..Len(work) /\ 1 \in 1..(Len(work) + 1)
  BY <1>1, HeadTailProperties, EmptySeq, LenProperties
<1>3. Needs(t) \in Nat
  BY <1>2, NeedsType
<1>4. PICK b, p : BalancedBy(stack, n, E, "none", b, p)
  BY DEF Balanced
<1>5. b[L] \in Nat /\ Leveled(work, b[L], b[L], p[L]) /\ Shelved(work, p[L], E) /\ n = p[L][1]
  BY <1>1, <1>4 DEF BalancedBy
<1> HIDE DEF L, work, t
<1>6. n \in Nat /\ n - Needs(t) >= b[L] /\ (t.op = "run" => t.node.kind \in StmtKind)
  BY <1>2, <1>5 DEF Leveled
<1>7. Stores(t) => n - 1 \in E
  BY <1>2, <1>5 DEF Shelved
<1> QED BY <1>3, <1>5, <1>6, <1>7 DEF t, work

\* The frame at the top goes on: its first task is replaced.
LEMMA BalancedGoesOn ==
  ASSUME NEW stack \in Seq(FrameType), stack # <<>>, NEW n, NEW E,
         Balanced(stack, n, E, "none"), Top(stack).work # <<>>,
         NEW more \in Seq(TaskType), NEW low, low = n - Needs(Head(Top(stack).work)),
         NEW m, NEW F, Replaces(more, Head(Top(stack).work), low, m, F),
         \A h \in E : h <= low => h \in F,
         NEW next, Len(next) = Len(stack),
         \A i \in 1..Len(stack) : next[i].kind = stack[i].kind,
         \A i \in 1..Len(stack) : i # Len(stack) => next[i] = stack[i],
         next[Len(stack)].work = more \o Tail(Top(stack).work)
  PROVE  Balanced(next, m, F, "none")
<1> DEFINE L == Len(stack)
           work == Top(stack).work
<1>1. L \in Nat \ {0} /\ L \in 1..L /\ work = stack[L].work /\ work \in Seq(TaskType)
  BY FrameWork
<1>2. PICK b, p : BalancedBy(stack, n, E, "none", b, p)
  BY DEF Balanced
<1>3. b[L] \in Nat /\ Leveled(work, b[L], b[L], p[L]) /\ Shelved(work, p[L], E) /\ n = p[L][1]
  BY <1>1, <1>2 DEF BalancedBy
<1> HIDE DEF L, work
<1>4. PICK new : new = more \o Tail(work)
  OBVIOUS
<1>5. /\ low \in Nat /\ low >= b[L]
      /\ \E r : Leveled(new, b[L], b[L], r) /\ Shelved(new, r, F) /\ r[1] = m
  <2>1. low = p[L][1] - Needs(Head(work)) /\ Replaces(more, Head(work), low, m, F) /\ work # <<>>
    BY <1>3 DEF work
  <2>2. PICK pl : pl = p[L]
    OBVIOUS
  <2>3. PICK bl : bl = b[L]
    OBVIOUS
  <2>4. bl \in Nat /\ Leveled(work, bl, bl, pl) /\ Shelved(work, pl, E) /\ low = pl[1] - Needs(Head(work))
    BY <1>3, <2>1, <2>2, <2>3
  <2>5. /\ low \in Nat /\ low >= bl
        /\ Joined(more \o Tail(work), bl, low, m, F, more)
    BY <1>1, <2>1, <2>4, LevelsJoin
  <2> QED BY <1>4, <2>3, <2>5 DEF Joined
<1>6. PICK r : Leveled(new, b[L], b[L], r) /\ Shelved(new, r, F) /\ r[1] = m
  BY <1>5
<1> DEFINE pp == [i \in 1..L |-> IF i = L THEN r ELSE p[i]]
<1>7. pp[L] = r /\ \A i \in 1..L : i # L => pp[i] = p[i]
  BY <1>1
<1> HIDE DEF pp
<1>8. /\ Len(next) = L /\ next[L].work = new
      /\ \A i \in 1..L : next[i].kind = stack[i].kind
      /\ \A i \in 1..L : i # L => next[i] = stack[i]
  BY <1>4 DEF L, work
<1>9. \A i \in 1..(L - 1) : i \in 1..L /\ i # L /\ L \in (i + 1)..L
  BY <1>1
<1>10. ASSUME NEW i \in 1..L
       PROVE  Leveled(next[i].work, b[i], b[i], pp[i]) /\ Shelved(next[i].work, pp[i], F)
  <2>1. CASE i = L
    BY <1>6, <1>7, <1>8, <2>1
  <2>2. CASE i # L
    <3>1. /\ Leveled(stack[i].work, b[i], b[i], p[i]) /\ Shelved(stack[i].work, p[i], E)
          /\ next[i] = stack[i] /\ pp[i] = p[i]
      BY <1>2, <1>7, <1>8, <2>2 DEF BalancedBy, L
    <3>2. L \in (i + 1)..L
      BY <1>1, <2>2
    <3>3. ASSUME NEW k \in 1..Len(stack[i].work), Stores(stack[i].work[k])
          PROVE  p[i][k] - 1 \in F
      <4>1. p[i][k] - 1 \in E
        BY <3>1, <3>3 DEF Shelved
      <4>2. p[i][k] - 1 <= b[L]
        BY <1>2, <3>2, <3>3 DEF BalancedBy, L
      <4>3. p[i][k] \in Nat
        <5>1. stack[i].work \in Seq(TaskType)
          BY FrameWork DEF L
        <5>2. k \in 1..(Len(stack[i].work) + 1)
          BY <5>1, LenProperties
        <5> QED BY <3>1, <5>2 DEF Leveled
      <4> QED BY <1>3, <1>5, <4>1, <4>2, <4>3
    <3> QED BY <3>1, <3>3 DEF Shelved
  <2> QED BY <2>1, <2>2
<1>11. ASSUME NEW i \in 2..L
       PROVE  /\ pp[i - 1][1] = b[i] + Result(next[i].kind)
              /\ next[i].kind # "call" => b[i] = b[i - 1]
  <2>1. i \in 1..L /\ i - 1 \in 1..(L - 1)
    BY <1>1
  <2>2. /\ p[i - 1][1] = b[i] + Result(stack[i].kind)
        /\ stack[i].kind # "call" => b[i] = b[i - 1]
    BY <1>2 DEF BalancedBy, L
  <2> QED BY <1>7, <1>8, <1>9, <2>1, <2>2
<1>12. ASSUME NEW i \in 1..L, NEW j \in (i + 1)..L, NEW k \in 1..Len(next[i].work),
              Stores(next[i].work[k])
       PROVE  pp[i][k] - 1 <= b[j]
  <2>1. i # L
    BY <1>1
  <2>2. next[i] = stack[i] /\ pp[i] = p[i]
    BY <1>7, <1>8, <2>1
  <2> QED BY <1>2, <1>12, <2>2 DEF BalancedBy, L
<1>13. b \in [1..L -> Nat] /\ b[1] = 0
  BY <1>2 DEF BalancedBy, L
<1>14. BalancedBy(next, m, F, "none", b, pp)
  BY <1>6, <1>7, <1>8, <1>10, <1>11, <1>12, <1>13 DEF BalancedBy
<1> QED BY <1>14 DEF Balanced
\* The first task of the frame at the top is done and there is a frame above.
Above(stack, next, c) ==
  /\ c = Len(stack) + 1 /\ Len(next) = c
  /\ \A i \in 1..Len(stack) : next[i].kind = stack[i].kind
  /\ \A i \in 1..Len(stack) : i # Len(stack) => next[i] = stack[i]
  /\ next[Len(stack)].work = Tail(Top(stack).work)

\* Its work finds what the task has left.
FreshWork(work, low) ==
  \E q : /\ Leveled(work, low, low, q) /\ q[1] = low
         /\ \A k \in 1..Len(work) : ~Stores(work[k])

LEMMA BalancedEnters ==
  ASSUME NEW stack \in Seq(FrameType), stack # <<>>, NEW n, NEW E,
         Balanced(stack, n, E, "none"), Top(stack).work # <<>>,
         NEW w, w = Head(Top(stack).work), NEW low, low = n - Needs(w),
         NEW F, \A h \in E : h <= low => h \in F,
         NEW next, NEW c, Above(stack, next, c), FreshWork(next[c].work, low),
         Gives(w) = Result(next[c].kind), next[c].kind # "call" => StatementTask(w)
  PROVE  Balanced(next, low, F, "none")
<1>0. /\ c = Len(stack) + 1 /\ Len(next) = c
      /\ \A i \in 1..Len(stack) : next[i].kind = stack[i].kind
      /\ \A i \in 1..Len(stack) : i # Len(stack) => next[i] = stack[i]
      /\ next[Len(stack)].work = Tail(Top(stack).work)
  BY DEF Above
<1>a. PICK q : /\ Leveled(next[c].work, low, low, q) /\ q[1] = low
               /\ \A k \in 1..Len(next[c].work) : ~Stores(next[c].work[k])
  BY DEF FreshWork
<1> USE <1>0, <1>a
<1> DEFINE L == Len(stack)
           work == Top(stack).work
<1>1. /\ L \in Nat \ {0} /\ L \in 1..L /\ work = stack[L].work /\ work \in Seq(TaskType)
      /\ work # <<>> /\ w \in TaskType /\ w = work[1]
  BY FrameWork, HeadTailProperties
<1>2. PICK b, p : BalancedBy(stack, n, E, "none", b, p)
  BY DEF Balanced
<1>3. PICK bl : bl = b[L]
  OBVIOUS
<1>4. PICK pl : pl = p[L]
  OBVIOUS
<1>5. bl \in Nat /\ Leveled(work, bl, bl, pl) /\ Shelved(work, pl, E) /\ n = pl[1]
  BY <1>1, <1>2, <1>3, <1>4 DEF BalancedBy
<1> HIDE DEF L, work
<1>6. PICK more : more = <<>>
  OBVIOUS
<1>7. more \in Seq(TaskType) /\ more \o Tail(work) = Tail(work)
  <2>1. Tail(work) \in Seq(TaskType)
    BY <1>1, HeadTailProperties
  <2>2. <<>> \o Tail(work) = Tail(work)
    BY <2>1
  <2> QED BY <1>6, <2>2, EmptySeq
<1>8. low \in Nat /\ low >= bl /\ Joined(Tail(work), bl, low, low + Gives(w), F, more)
  <2>1. low = pl[1] - Needs(w) /\ w = Head(work)
    BY <1>5 DEF work
  <2>2. low \in Nat
    <3>1. n - Needs(w) \in Nat
      BY BalancedNow
    <3> QED BY <3>1
  <2>3. Replaces(more, w, low, low + Gives(w), F)
    BY <1>1, <1>6, <2>2, ReplacesNone
  <2>4. low >= bl /\ Joined(more \o Tail(work), bl, low, low + Gives(w), F, more)
    <3>1. PICK m : m = low + Gives(w)
      OBVIOUS
    <3>2. low = pl[1] - Needs(Head(work)) /\ Replaces(more, Head(work), low, m, F)
      BY <2>1, <2>3, <3>1
    <3>3. low >= bl /\ Joined(more \o Tail(work), bl, low, m, F, more)
      BY <1>1, <1>5, <1>7, <3>2, LevelsJoin
    <3> QED BY <3>1, <3>3
  <2> QED BY <1>7, <2>2, <2>4
<1>9. PICK r : /\ Leveled(Tail(work), bl, bl, r) /\ Shelved(Tail(work), r, F)
               /\ r[1] = low + Gives(w)
               /\ \A k \in 1..Len(Tail(work)) : Stores(Tail(work)[k]) => r[k] - 1 <= low
  BY <1>6, <1>8 DEF Joined
<1> DEFINE pp == [i \in 1..(L + 1) |-> CASE i = L -> r [] i = L + 1 -> q [] OTHER -> p[i]]
           bb == [i \in 1..(L + 1) |-> IF i = L + 1 THEN low ELSE b[i]]
<1>10. /\ pp[L] = r /\ pp[L + 1] = q /\ \A i \in 1..L : i # L => pp[i] = p[i]
       /\ bb[L + 1] = low /\ \A i \in 1..L : bb[i] = b[i]
  BY <1>1
<1>11. bb \in [1..(L + 1) -> Nat] /\ bb[1] = 0
  <2>1. b \in [1..L -> Nat] /\ b[1] = 0
    BY <1>2 DEF BalancedBy, L
  <2>2. 1 \in 1..L
    BY <1>1
  <2> QED BY <1>1, <1>8, <1>10, <2>1, <2>2
<1> HIDE DEF pp, bb
<1>12. /\ Len(next) = L + 1 /\ next[L].work = Tail(work)
       /\ \A i \in 1..L : next[i].kind = stack[i].kind
       /\ \A i \in 1..L : i # L => next[i] = stack[i]
       /\ Leveled(next[L + 1].work, low, low, q)
       /\ \A k \in 1..Len(next[L + 1].work) : ~Stores(next[L + 1].work[k])
       /\ Gives(w) = Result(next[L + 1].kind)
       /\ next[L + 1].kind # "call" => StatementTask(w)
  BY DEF L, work
\* Below the frame at the top the assignments to come store lower than it began.
<1>13. ASSUME NEW i \in 1..L, i # L, NEW k \in 1..Len(stack[i].work), Stores(stack[i].work[k])
       PROVE  p[i][k] - 1 \in F /\ p[i][k] - 1 <= bl
  <2>1. L \in (i + 1)..L
    BY <1>1, <1>13
  <2>2. p[i][k] - 1 <= bl
    BY <1>2, <1>3, <1>13, <2>1 DEF BalancedBy, L
  <2>3. Leveled(stack[i].work, b[i], b[i], p[i]) /\ Shelved(stack[i].work, p[i], E)
    BY <1>2 DEF BalancedBy, L
  <2>4. p[i][k] - 1 \in E
    BY <1>13, <2>3 DEF Shelved
  <2>5. p[i][k] \in Nat
    <3>1. stack[i].work \in Seq(TaskType)
      BY FrameWork DEF L
    <3>2. k \in 1..(Len(stack[i].work) + 1)
      BY <3>1, LenProperties
    <3> QED BY <2>3, <3>2 DEF Leveled
  <2> QED BY <1>5, <1>8, <2>2, <2>4, <2>5
<1>14. ASSUME NEW i \in 1..(L + 1)
       PROVE  Leveled(next[i].work, bb[i], bb[i], pp[i]) /\ Shelved(next[i].work, pp[i], F)
  <2>1. CASE i = L
    BY <1>1, <1>3, <1>9, <1>10, <1>12, <2>1
  <2>2. CASE i = L + 1
    <3>1. Shelved(next[L + 1].work, q, F)
      BY <1>12 DEF Shelved
    <3> QED BY <1>10, <1>12, <2>2, <3>1
  <2>3. CASE i # L /\ i # L + 1
    <3>1. i \in 1..L /\ i # L
      BY <1>1, <2>3
    <3>2. /\ Leveled(stack[i].work, b[i], b[i], p[i]) /\ Shelved(stack[i].work, p[i], E)
          /\ next[i] = stack[i] /\ pp[i] = p[i] /\ bb[i] = b[i]
      BY <1>2, <1>10, <1>12, <3>1 DEF BalancedBy, L
    <3>3. Shelved(stack[i].work, p[i], F)
      BY <1>13, <3>1, <3>2 DEF Shelved
    <3> QED BY <3>2, <3>3
  <2> QED BY <2>1, <2>2, <2>3
<1>15. ASSUME NEW i \in 2..(L + 1)
       PROVE  /\ pp[i - 1][1] = bb[i] + Result(next[i].kind)
              /\ next[i].kind # "call" => bb[i] = bb[i - 1]
  <2>1. CASE i = L + 1
    <3>1. i - 1 = L
      BY <1>1, <2>1
    <3>2. StatementTask(w) => low = bl
      <4>1. 1 \in 1..Len(work)
        BY <1>1, EmptySeq, LenProperties
      <4> QED BY <1>1, <1>5, <4>1 DEF Leveled
    <3> QED BY <1>1, <1>3, <1>9, <1>10, <1>12, <2>1, <3>1, <3>2
  <2>2. CASE i # L + 1
    <3>1. i \in 1..L /\ i \in 2..L /\ i - 1 \in 1..L /\ i - 1 # L
      BY <1>1, <2>2
    <3>2. /\ p[i - 1][1] = b[i] + Result(stack[i].kind)
          /\ stack[i].kind # "call" => b[i] = b[i - 1]
      BY <1>2, <3>1 DEF BalancedBy, L
    <3> QED BY <1>10, <1>12, <3>1, <3>2
  <2> QED BY <2>1, <2>2
<1>16. ASSUME NEW i \in 1..(L + 1), NEW j \in (i + 1)..(L + 1), NEW k \in 1..Len(next[i].work),
              Stores(next[i].work[k])
       PROVE  pp[i][k] - 1 <= bb[j]
  <2>1. CASE i = L
    <3>1. j = L + 1
      BY <1>1, <2>1
    <3> QED BY <1>9, <1>10, <1>12, <1>16, <2>1, <3>1
  <2>2. CASE i # L
    <3>1. i \in 1..L
      BY <1>1
    <3>2. next[i] = stack[i] /\ pp[i] = p[i]
      BY <1>10, <1>12, <2>2, <3>1
    <3>3. CASE j = L + 1
      <4>1. p[i][k] - 1 <= bl
        BY <1>13, <1>16, <2>2, <3>1, <3>2
      <4>2. p[i][k] \in Nat
        <5>1. stack[i].work \in Seq(TaskType)
          BY <3>1, FrameWork DEF L
        <5>2. k \in 1..(Len(stack[i].work) + 1)
          BY <3>2, <5>1, LenProperties
        <5>3. Leveled(stack[i].work, b[i], b[i], p[i])
          BY <1>2, <3>1 DEF BalancedBy, L
        <5> QED BY <5>2, <5>3 DEF Leveled
      <4> QED BY <1>5, <1>8, <1>10, <3>2, <3>3, <4>1, <4>2
    <3>4. CASE j # L + 1
      <4>1. j \in (i + 1)..L /\ j \in 1..L
        BY <1>1, <3>1, <3>4
      <4>2. p[i][k] - 1 <= b[j]
        BY <1>2, <1>16, <3>1, <3>2, <4>1 DEF BalancedBy, L
      <4> QED BY <1>10, <3>2, <4>1, <4>2
    <3> QED BY <3>3, <3>4
  <2> QED BY <2>1, <2>2
<1>17. low = pp[L + 1][1]
  BY <1>10
<1>18. BalancedBy(next, low, F, "none", bb, pp)
  BY <1>11, <1>12, <1>14, <1>15, <1>16, <1>17 DEF BalancedBy
<1> QED BY <1>18 DEF Balanced

\* A return: its value is all that the frame has left.
LEMMA BalancedReturns ==
  ASSUME NEW stack \in Seq(FrameType), stack # <<>>, NEW n, NEW E,
         Balanced(stack, n, E, "none"), Top(stack).work # <<>>,
         StatementTask(Head(Top(stack).work)),
         NEW m, m = n - Needs(Head(Top(stack).work)) + 1, NEW F, E \subseteq F
  PROVE  Balanced(stack, m, F, "return")
<1> DEFINE L == Len(stack)
           work == Top(stack).work
<1>1. L \in Nat \ {0} /\ L \in 1..L /\ work = stack[L].work /\ Head(work) = work[1] /\ 1 \in 1..Len(work)
  BY FrameWork, HeadTailProperties, EmptySeq, LenProperties
<1>2. PICK b, p : BalancedBy(stack, n, E, "none", b, p)
  BY DEF Balanced
<1>3. Leveled(work, b[L], b[L], p[L]) /\ n = p[L][1]
  BY <1>1, <1>2 DEF BalancedBy
<1> HIDE DEF L, work
<1>4. n - Needs(Head(work)) = b[L]
  BY <1>1, <1>3 DEF Leveled, work
<1>5. m = b[L] + 1
  BY <1>4 DEF work
<1>6. \A i \in 1..L : Shelved(stack[i].work, p[i], F)
  BY <1>2 DEF BalancedBy, L, Shelved
<1>7. BalancedBy(stack, m, F, "return", b, p)
  BY <1>2, <1>5, <1>6 DEF BalancedBy, L
<1> QED BY <1>7 DEF Balanced

\* The frame at the top is left, and another is there to go on: the work is done, or a
\* return is on its way.
LEMMA BalancedLeaves ==
  ASSUME NEW stack \in Seq(FrameType), Len(stack) > 1, NEW n, NEW E, NEW x \in {"none", "return"},
         Balanced(stack, n, E, x), x = "none" => Top(stack).work = <<>>,
         NEW y, y = IF x = "return" /\ Top(stack).kind # "call" THEN "return" ELSE "none",
         NEW m, m = IF x = "none" THEN n + Result(Top(stack).kind) ELSE n,
         NEW F, E \subseteq F
  PROVE  Balanced(Pop(stack), m, F, y)
<1> DEFINE L == Len(stack)
           next == Pop(stack)
<1>0. stack # <<>>
  BY EmptySeq
<1>1. /\ L \in Nat /\ L > 1 /\ L \in 1..L /\ L - 1 \in 1..L
      /\ Top(stack).work = stack[L].work /\ Top(stack).kind = stack[L].kind
  BY <1>0, FrameWork
<1>2. Len(next) = L - 1 /\ \A i \in 1..(L - 1) : next[i] = stack[i]
  BY <1>0, TopPop
<1> HIDE DEF L, next
<1>3. PICK b, p : BalancedBy(stack, n, E, x, b, p)
  BY DEF Balanced
<1>4. /\ p[L - 1][1] = b[L] + Result(stack[L].kind)
      /\ stack[L].kind # "call" => b[L] = b[L - 1]
  <2>1. L \in 2..L
    BY <1>1
  <2> QED BY <1>3, <2>1 DEF BalancedBy, L
<1>5. b \in [1..L -> Nat] /\ b[1] = 0 /\ b[L] \in Nat
  BY <1>1, <1>3 DEF BalancedBy, L
<1>6. x = "none" => n = b[L]
  <2>1. ASSUME x = "none" PROVE n = b[L]
    <3>1. Leveled(stack[L].work, b[L], b[L], p[L]) /\ n = p[L][1]
      BY <1>1, <1>3, <2>1 DEF BalancedBy, L
    <3>2. Len(stack[L].work) = 0
      BY <1>1, <2>1, EmptySeq
    <3> QED BY <3>1, <3>2 DEF Leveled
  <2> QED BY <2>1
<1>7. x = "return" => n = b[L] + 1
  BY <1>3 DEF BalancedBy, L
<1>8. m = IF y = "return" THEN b[L - 1] + 1 ELSE p[L - 1][1]
  BY <1>1, <1>4, <1>5, <1>6, <1>7 DEF Result
<1> DEFINE c == [i \in 1..(L - 1) |-> b[i]]
<1>9. c \in [1..(L - 1) -> Nat] /\ c[1] = 0 /\ \A i \in 1..(L - 1) : c[i] = b[i] /\ i \in 1..L
  BY <1>1, <1>5
<1> HIDE DEF c
<1>10. ASSUME NEW i \in 1..(L - 1)
       PROVE  Leveled(next[i].work, c[i], c[i], p[i]) /\ Shelved(next[i].work, p[i], F)
  <2>1. /\ Leveled(stack[i].work, b[i], b[i], p[i]) /\ Shelved(stack[i].work, p[i], E)
        /\ next[i] = stack[i] /\ c[i] = b[i]
    BY <1>2, <1>3, <1>9 DEF BalancedBy, L
  <2> QED BY <2>1 DEF Shelved
<1>11. ASSUME NEW i \in 2..(L - 1)
       PROVE  /\ p[i - 1][1] = c[i] + Result(next[i].kind)
              /\ next[i].kind # "call" => c[i] = c[i - 1]
  <2>1. i \in 1..(L - 1) /\ i \in 2..L /\ i - 1 \in 1..(L - 1)
    BY <1>1
  <2>2. /\ p[i - 1][1] = b[i] + Result(stack[i].kind)
        /\ stack[i].kind # "call" => b[i] = b[i - 1]
    BY <1>3, <2>1 DEF BalancedBy, L
  <2> QED BY <1>2, <1>9, <2>1, <2>2
<1>12. ASSUME NEW i \in 1..(L - 1), NEW j \in (i + 1)..(L - 1), NEW k \in 1..Len(next[i].work),
              Stores(next[i].work[k])
       PROVE  p[i][k] - 1 <= c[j]
  <2>1. i \in 1..L /\ j \in (i + 1)..L /\ j \in 1..(L - 1)
    BY <1>1
  <2>2. p[i][k] - 1 <= b[j]
    BY <1>2, <1>3, <1>12, <2>1 DEF BalancedBy, L
  <2> QED BY <1>9, <2>1, <2>2
<1>13. m = IF y = "return" THEN c[L - 1] + 1 ELSE p[L - 1][1]
  BY <1>1, <1>8, <1>9
<1>14. BalancedBy(next, m, F, y, c, p)
  BY <1>2, <1>9, <1>10, <1>11, <1>12, <1>13 DEF BalancedBy
<1> QED BY <1>14 DEF Balanced, next

\* What is left when the work of the only frame is done.
LEMMA BalancedEnds ==
  ASSUME NEW stack \in Seq(FrameType), Len(stack) = 1, NEW n, NEW E,
         Balanced(stack, n, E, "none"), Top(stack).work = <<>>
  PROVE  n = 0
<1>1. PICK b, p : BalancedBy(stack, n, E, "none", b, p)
  BY DEF Balanced
<1>2. stack # <<>>
  <2>1. stack = <<>> => Len(stack) = 0
    OBVIOUS
  <2> QED BY <2>1
<1>3. stack[1].work = <<>>
  BY <1>2, FrameWork
<1>4. Leveled(stack[1].work, b[1], b[1], p[1]) /\ n = p[1][1] /\ b[1] = 0
  BY <1>1 DEF BalancedBy
<1>5. Len(stack[1].work) = 0
  BY <1>3, EmptySeq
<1> QED BY <1>4, <1>5 DEF Leveled

\* Statements are executed from an empty stack of values.
LEMMA BalancedStarts ==
  ASSUME NEW stack \in Seq(FrameType), Len(stack) = 1, NEW E,
         \A k \in 1..Len(stack[1].work) :
           /\ StatementTask(stack[1].work[k]) /\ Needs(stack[1].work[k]) = 0
           /\ stack[1].work[k].op = "run" => stack[1].work[k].node.kind \in StmtKind
  PROVE  Balanced(stack, 0, E, "none")
<1>1. PICK work : work = stack[1].work
  OBVIOUS
<1>2. work \in Seq(TaskType)
  <2>1. stack = <<>> => Len(stack) = 0
    OBVIOUS
  <2> QED BY <1>1, <2>1, FrameWork
<1>3. PICK q : q = [k \in 1..(Len(work) + 1) |-> 0]
  OBVIOUS
<1>4. q[1] = 0 /\ Leveled(work, 0, 0, q) /\ \A k \in 1..Len(work) : ~Stores(work[k])
  BY ZenonT(60), <1>1, <1>2, <1>3, LevelStatements
<1>5. Shelved(work, q, E)
  BY <1>4 DEF Shelved
<1> DEFINE b == [i \in 1..1 |-> 0]
           p == [i \in 1..1 |-> q]
<1>6. b \in [1..1 -> Nat] /\ b[1] = 0 /\ p[1] = q
  OBVIOUS
<1> HIDE DEF b, p
<1>7. 1..1 = {1} /\ 2..1 = {} /\ (1 + 1)..1 = {}
  OBVIOUS
<1>8. BalancedBy(stack, 0, E, "none", b, p)
  BY <1>1, <1>4, <1>5, <1>6, <1>7 DEF BalancedBy
<1> QED BY <1>8 DEF Balanced
-----------------------------------------------------------------------------
(* The values there are.                                                    *)

\* The h-th value from the bottom, and the places where an index that is in range lies
\* upon its array.
FromBottom(h) == vals[Len(vals) + 1 - h]
CheckedElements ==
  {h \in 2..Len(vals) :
     FromBottom(h - 1).type = "array" /\ InRange(FromBottom(h), FromBottom(h - 1))}

DeclsAreFunctions == \A x \in Name : functions[x].decl = Absent \/ functions[x].decl.kind = "func"

\* The values there are are those the work that is left will take, and there are none
\* when nothing is executed.
ValuesInv ==
  /\ frames = <<>> /\ exc # "crash" => vals = <<>>
  /\ frames # <<>> /\ exc \in {"none", "return"} => Balanced(frames, Len(vals), CheckedElements, exc)
  /\ DeclsAreFunctions

\* A step leaves the lowest values and the lengths of the arrays as they are.
LowKept(low) ==
  /\ low \in Nat /\ Len(vals') \in Nat /\ low <= Len(vals) /\ low <= Len(vals')
  /\ \A h \in 1..low : vals'[Len(vals') + 1 - h] = vals[Len(vals) + 1 - h]
LengthsKept == \A a \in 1..Len(arrays) : Len(arrays'[a]) = Len(arrays[a])

LEMMA ElementsKept ==
  ASSUME FramesInv, NEW low, LowKept(low), LengthsKept
  PROVE  \A h \in CheckedElements : h <= low => h \in CheckedElements'
<1> SUFFICES ASSUME NEW h \in CheckedElements, h <= low PROVE h \in CheckedElements'
  OBVIOUS
<1>1. /\ h \in 2..Len(vals) /\ FromBottom(h - 1).type = "array"
      /\ InRange(FromBottom(h), FromBottom(h - 1))
  BY DEF CheckedElements
<1>2. /\ Len(vals) \in Nat /\ Len(vals') \in Nat /\ low \in Nat /\ low <= Len(vals) /\ low <= Len(vals')
      /\ h \in 1..low /\ h - 1 \in 1..low /\ h \in 2..Len(vals')
      /\ Len(vals) + 1 - (h - 1) \in 1..Len(vals)
  BY <1>1, ValueAt DEF LowKept
<1>3. FromBottom(h)' = FromBottom(h) /\ FromBottom(h - 1)' = FromBottom(h - 1)
  BY <1>2 DEF FromBottom, LowKept
<1>4. FromBottom(h - 1) \in HeapValue
  BY <1>2, ValueAt DEF FromBottom
<1>5. FromBottom(h - 1).n \in 1..Len(arrays)
  BY <1>1, <1>4 DEF HeapValue
<1>6. Len(arrays'[FromBottom(h - 1).n]) = Len(arrays[FromBottom(h - 1).n])
  BY <1>5 DEF LengthsKept
<1>7. InRange(FromBottom(h), FromBottom(h - 1))'
  BY <1>1, <1>3, <1>6 DEF InRange
<1> QED BY <1>1, <1>2, <1>3, <1>7 DEF CheckedElements

LEMMA LowSame ==
  ASSUME FramesInv, UNCHANGED vals, NEW low \in Nat, low <= Len(vals)
  PROVE  Len(vals') = Len(vals) /\ LowKept(low)
BY ValueAt DEF LowKept

LEMMA LowPushed ==
  ASSUME FramesInv, NEW v \in HeapValue, Push(v)
  PROVE  Len(vals') = Len(vals) + 1 /\ LowKept(Len(vals))
<1>1. vals \in Seq(HeapValue) /\ Len(vals) \in Nat
  BY ValueAt
<1>2. <<v>> \in Seq(HeapValue) /\ Len(<<v>>) = 1
  OBVIOUS
<1>3. PICK s : s = <<v>>
  OBVIOUS
<1>4. s \in Seq(HeapValue) /\ Len(s) = 1 /\ vals' = s \o vals
  BY <1>2, <1>3 DEF Push
<1>5. /\ Len(vals') = Len(vals) + 1
      /\ \A i \in 1..(Len(vals) + 1) : vals'[i] = IF i <= 1 THEN s[i] ELSE vals[i - 1]
  BY <1>1, <1>4, ConcatProperties
<1>6. ASSUME NEW h \in 1..Len(vals)
      PROVE  vals'[Len(vals') + 1 - h] = vals[Len(vals) + 1 - h]
  <2>1. Len(vals') + 1 - h \in 1..(Len(vals) + 1) /\ ~(Len(vals') + 1 - h <= 1)
        /\ Len(vals') + 1 - h - 1 = Len(vals) + 1 - h
    BY <1>1, <1>5
  <2> QED BY <1>5, <2>1
<1> QED BY <1>1, <1>5, <1>6 DEF LowKept

LEMMA LowDropped ==
  ASSUME FramesInv, NEW k \in Nat, k <= Len(vals), Drop(k)
  PROVE  Len(vals') = Len(vals) - k /\ LowKept(Len(vals) - k)
<1>1. vals \in Seq(HeapValue) /\ Len(vals) \in Nat
  BY ValueAt
<1>2. /\ Len(vals') = Len(vals) - k
      /\ \A i \in 1..(Len(vals) - k) : vals'[i] = vals[k + i]
  BY <1>1, SubSeqProperties DEF Drop
<1>3. ASSUME NEW h \in 1..(Len(vals) - k)
      PROVE  vals'[Len(vals') + 1 - h] = vals[Len(vals) + 1 - h]
  <2>1. Len(vals') + 1 - h \in 1..(Len(vals) - k) /\ k + (Len(vals') + 1 - h) = Len(vals) + 1 - h
    BY <1>1, <1>2
  <2> QED BY <1>2, <2>1
<1> QED BY <1>1, <1>2, <1>3 DEF LowKept

LEMMA LowReplaced ==
  ASSUME FramesInv, NEW k \in Nat, k <= Len(vals), NEW v, Replace(k, v)
  PROVE  Len(vals') = Len(vals) - k + 1 /\ LowKept(Len(vals) - k)
<1>0. PICK S : S = HeapValue \cup {v}
  OBVIOUS
<1>1. vals \in Seq(HeapValue) /\ Len(vals) \in Nat
  BY ValueAt
<1>2. PICK r : r = SubSeq(vals, k + 1, Len(vals))
  OBVIOUS
<1>3. /\ r \in Seq(S) /\ Len(r) = Len(vals) - k
      /\ \A i \in 1..(Len(vals) - k) : r[i] = vals[k + i]
  <2>1. r \in Seq(HeapValue) /\ HeapValue \subseteq S
    BY <1>0, <1>2, Rest
  <2>2. r \in Seq(S)
    BY <2>1, SeqMonotonic
  <2> QED BY <1>1, <1>2, <2>2, SubSeqProperties
<1>4. PICK s : s = <<v>>
  OBVIOUS
<1>5. s \in Seq(S) /\ Len(s) = 1 /\ vals' = s \o r
  BY <1>0, <1>2, <1>4 DEF Replace
<1>6. /\ Len(vals') = Len(vals) - k + 1
      /\ \A i \in 1..(Len(vals) - k + 1) : vals'[i] = IF i <= 1 THEN s[i] ELSE r[i - 1]
  <2>1. /\ Len(vals') = Len(s) + Len(r)
        /\ \A i \in 1..(Len(s) + Len(r)) : vals'[i] = IF i <= Len(s) THEN s[i] ELSE r[i - Len(s)]
    BY <1>3, <1>5, ConcatProperties
  <2>2. Len(s) + Len(r) = Len(vals) - k + 1
    BY <1>1, <1>3, <1>5
  <2> QED BY <1>5, <2>1, <2>2
<1>7. ASSUME NEW h \in 1..(Len(vals) - k)
      PROVE  vals'[Len(vals') + 1 - h] = vals[Len(vals) + 1 - h]
  <2> DEFINE i == Len(vals') + 1 - h
  <2>1. i \in 1..(Len(vals) - k + 1) /\ ~(i <= 1) /\ i - 1 \in 1..(Len(vals) - k)
        /\ k + (i - 1) = Len(vals) + 1 - h
    BY <1>1, <1>6
  <2> HIDE DEF i
  <2>2. vals'[i] = vals[Len(vals) + 1 - h]
    BY <1>3, <1>6, <2>1
  <2> QED BY <2>2 DEF i
<1> QED BY <1>1, <1>6, <1>7 DEF LowKept

-----------------------------------------------------------------------------
(* The steps of the executor and the values.                                *)

\* What the task at hand finds.
LEMMA AtLevel ==
  ASSUME FramesInv, ValuesInv, Executing, Todo # <<>>
  PROVE  /\ Balanced(frames, Len(vals), CheckedElements, "none")
         /\ frames \in Seq(FrameType) /\ frames # <<>> /\ Now \in TaskType
         /\ Len(vals) \in Nat /\ Len(vals) - Needs(Now) \in Nat
         /\ Stores(Now) => Len(vals) - 1 \in CheckedElements
         /\ Now.op = "run" => N.kind \in StmtKind
         /\ Needs(Now) \in Nat /\ Gives(Now) \in {0, 1}
<1>1. frames # <<>> /\ exc = "none" /\ Now \in TaskType
  BY AtWork
<1>2. Balanced(frames, Len(vals), CheckedElements, "none") /\ frames \in Seq(FrameType)
  BY <1>1 DEF ValuesInv, FramesInv, FramesTyped
<1>3. Top(frames).work # <<>> /\ Now = Head(Top(frames).work)
  BY DEF Todo, Now
<1>4. /\ Len(vals) \in Nat /\ Len(vals) - Needs(Now) \in Nat
      /\ Stores(Now) => Len(vals) - 1 \in CheckedElements
      /\ Now.op = "run" => Now.node.kind \in StmtKind
  BY <1>1, <1>2, <1>3, BalancedNow
<1> QED BY <1>1, <1>2, <1>4, NeedsType DEF N

\* A visitor goes on in its frame.
LEMMA ValuesGoOn ==
  ASSUME FramesInv, ValuesInv, Executing, Todo # <<>>,
         NEW more \in Seq(TaskType), Continue(more), exc' = exc,
         NEW low, low = Len(vals) - Needs(Now), LowKept(low), LengthsKept,
         Replaces(more, Now, low, Len(vals'), CheckedElements'),
         DeclsAreFunctions'
  PROVE  ValuesInv'
<1>1. /\ Balanced(frames, Len(vals), CheckedElements, "none")
      /\ frames \in Seq(FrameType) /\ frames # <<>>
  BY AtLevel
<1>2. Top(frames).work # <<>> /\ Now = Head(Top(frames).work) /\ Todo = Top(frames).work
  BY DEF Todo, Now
<1>3. /\ Len(frames') = Len(frames) /\ frames' # <<>>
      /\ \A i \in 1..Len(frames) : frames'[i].kind = frames[i].kind
      /\ \A i \in 1..Len(frames) : i # Len(frames) => frames'[i] = frames[i]
      /\ frames'[Len(frames)].work = more \o Tail(Top(frames).work)
  BY <1>1, <1>2, Resumed DEF FramesInv
<1>4. PICK F : F = CheckedElements'
  OBVIOUS
<1>5. PICK next : next = frames'
  OBVIOUS
<1>6. PICK m : m = Len(vals')
  OBVIOUS
<1>7. \A h \in CheckedElements : h <= low => h \in F
  BY <1>4, ElementsKept
<1>8. Replaces(more, Head(Top(frames).work), low, m, F) /\ low = Len(vals) - Needs(Head(Top(frames).work))
  BY <1>2, <1>4, <1>6
<1>9. /\ Len(next) = Len(frames)
      /\ \A i \in 1..Len(frames) : next[i].kind = frames[i].kind
      /\ \A i \in 1..Len(frames) : i # Len(frames) => next[i] = frames[i]
      /\ next[Len(frames)].work = more \o Tail(Top(frames).work)
  BY <1>3, <1>5
<1>10. Balanced(next, m, F, "none")
  BY <1>1, <1>2, <1>7, <1>8, <1>9, BalancedGoesOn
<1>11. exc' = "none"
  BY AtWork
<1> QED BY <1>3, <1>4, <1>5, <1>6, <1>10, <1>11 DEF ValuesInv

\* A visitor is done, and leaves its value or none.
LEMMA ValuesDone ==
  ASSUME FramesInv, ValuesInv, Executing, Todo # <<>>, Continue(<<>>), exc' = exc,
         NEW low, low = Len(vals) - Needs(Now), LowKept(low), LengthsKept,
         Len(vals') = low + Gives(Now), DeclsAreFunctions'
  PROVE  ValuesInv'
<1>1. Now \in TaskType /\ low \in Nat
  BY AtLevel DEF LowKept
<1>2. PICK F : F = CheckedElements'
  OBVIOUS
<1>3. Replaces(<<>>, Now, low, low + Gives(Now), F)
  BY <1>1, ReplacesNone
<1>4. <<>> \in Seq(TaskType)
  BY EmptySeq
<1> QED BY <1>2, <1>3, <1>4, ValuesGoOn

\* It throws, and what values there are does not matter any more.
LEMMA ValuesThrown ==
  ASSUME ValuesInv, frames # <<>>, frames' = frames \/ exc' = "crash",
         exc' \notin {"none", "return"}, functions' = functions
  PROVE  ValuesInv'
BY DEF ValuesInv, DeclsAreFunctions

\* What the tasks of a visitor take and leave.
LEMMA TaskCosts ==
  /\ \A op, n : Task(op, n).op = op /\ Task(op, n).node = n
  /\ \A n : /\ Needs(Task("run", n)) = 0 /\ StatementTask(Task("run", n))
            /\ Needs(Task("loop", n)) = 0 /\ StatementTask(Task("loop", n))
            /\ Needs(Task("increment", n)) = 0 /\ StatementTask(Task("increment", n))
            /\ Needs(Task("drop", n)) = 1 /\ StatementTask(Task("drop", n))
            /\ Needs(Task("test", n)) = 1 /\ StatementTask(Task("test", n))
            /\ Needs(Task("requireArray", n)) = 1 /\ ~StatementTask(Task("requireArray", n))
            /\ Needs(Task("requireIndex", n)) = 2 /\ ~StatementTask(Task("requireIndex", n))
            /\ Needs(Task("accept", n)) = 0
            /\ StatementTask(Task("accept", n)) <=> n.kind \in StmtKind
            /\ StatementTask(Task("after", n)) <=> n.kind \in StmtKind
            /\ n.kind = "binary" => Needs(Task("after", n)) = 2
            /\ n.kind = "indexAssign" => Needs(Task("after", n)) = 3
            /\ n.kind \notin {"binary", "indexAssign"} => Needs(Task("after", n)) = 1
  /\ \A op, n : Stores(Task(op, n)) <=> op = "after" /\ n.kind = "indexAssign"
<1>1. \A op, n : Task(op, n).op = op /\ Task(op, n).node = n
  BY DEF Task
<1> QED BY <1>1 DEF Needs, StatementTask, Stores
\* A visitor is done with a node and leaves what there is, puts a value on top, takes some
\* away, or puts a value in their place.
LEMMA ValuesDoneBy ==
  ASSUME FramesInv, ValuesInv, Executing, Todo # <<>>, Continue(<<>>), exc' = exc,
         LengthsKept, DeclsAreFunctions',
         \/ Needs(Now) = Gives(Now) /\ UNCHANGED vals
         \/ Needs(Now) = 0 /\ Gives(Now) = 1 /\ \E v \in HeapValue : Push(v)
         \/ Gives(Now) = 0 /\ Drop(Needs(Now))
         \/ Gives(Now) = 1 /\ \E v : Replace(Needs(Now), v)
  PROVE  ValuesInv'
<1> DEFINE low == Len(vals) - Needs(Now)
<1>1. low \in Nat /\ Len(vals) \in Nat /\ Needs(Now) \in Nat /\ Needs(Now) <= Len(vals)
  BY AtLevel
<1>2. LowKept(low) /\ Len(vals') = low + Gives(Now)
  <2>1. CASE Needs(Now) = Gives(Now) /\ UNCHANGED vals
    BY <1>1, <2>1, LowSame
  <2>2. CASE Needs(Now) = 0 /\ Gives(Now) = 1 /\ \E v \in HeapValue : Push(v)
    BY <1>1, <2>2, LowPushed
  <2>3. CASE Gives(Now) = 0 /\ Drop(Needs(Now))
    BY <1>1, <2>3, LowDropped
  <2>4. CASE Gives(Now) = 1 /\ \E v : Replace(Needs(Now), v)
    BY <1>1, <2>4, LowReplaced
  <2> QED BY <2>1, <2>2, <2>3, <2>4
<1> HIDE DEF low
<1>3. low = Len(vals) - Needs(Now)
  BY DEF low
<1> QED BY <1>2, <1>3, ValuesDone

\* It leaves more to be done and takes no value.
LEMMA ValuesGoOnSame ==
  ASSUME FramesInv, ValuesInv, Executing, Todo # <<>>,
         NEW more \in Seq(TaskType), Continue(more), UNCHANGED <<vals, exc>>,
         LengthsKept, DeclsAreFunctions',
         NEW low, low = Len(vals) - Needs(Now), NEW m, m = Len(vals),
         \A E : E = CheckedElements' => Replaces(more, Now, low, m, E)
  PROVE  ValuesInv'
<1>1. LowKept(low)
  BY AtLevel, LowSame
<1>2. m = Len(vals')
  OBVIOUS
<1>3. Replaces(more, Now, low, Len(vals'), CheckedElements')
  BY <1>2
<1> QED BY <1>1, <1>3, ValuesGoOn

LEMMA FunctionsKept ==
  ASSUME ValuesInv, functions' = functions
  PROVE  DeclsAreFunctions'
BY DEF ValuesInv, DeclsAreFunctions

LEMMA ArraysKept ==
  ASSUME arrays' = arrays
  PROVE  LengthsKept
BY DEF LengthsKept

\* What a task about an expression or a statement takes and leaves.
LEMMA CostsNow ==
  ASSUME FramesInv, Executing, Todo # <<>>
  PROVE  /\ Gives(Now) = IF StatementTask(Now) THEN 0 ELSE 1
         /\ Now.op = "run" => Needs(Now) = 0 /\ StatementTask(Now)
         /\ Now.op = "accept" => Needs(Now) = 0 /\ (StatementTask(Now) <=> N.kind \in StmtKind)
         /\ Now.op = "after" =>
              /\ StatementTask(Now) <=> N.kind \in StmtKind
              /\ Needs(Now) = IF N.kind = "binary" THEN 2 ELSE IF N.kind = "indexAssign" THEN 3 ELSE 1
         /\ Now.op \in {"drop", "test"} => Needs(Now) = 1 /\ StatementTask(Now)
         /\ Now.op \in {"loop", "increment"} => Needs(Now) = 0 /\ StatementTask(Now)
         /\ Now.op \in {"requireArray", "allocate"} => Needs(Now) = 1 /\ ~StatementTask(Now)
         /\ Now.op = "requireIndex" => Needs(Now) = 2 /\ ~StatementTask(Now)
         /\ Now.op = "enter" => Needs(Now) = Len(Now.decl.params) /\ ~StatementTask(Now)
BY DEF Gives, Needs, StatementTask, N

\* An expression is evaluated, then something is done with its value.
LEMMA ReplacesEvaluated ==
  ASSUME NEW n, NEW e, n.kind # "indexAssign", Task("accept", e) \in TaskType, e.kind \in ExprKind,
         NEW op, Task(op, n) \in TaskType, Needs(Task(op, n)) = 1, op # "run",
         NEW w, StatementTask(Task(op, n)) <=> StatementTask(w), NEW low \in Nat, NEW E
  PROVE  Replaces(<<Task("accept", e), Task(op, n)>>, w, low, low, E)
<1>1. PICK t : t = Task("accept", e)
  OBVIOUS
<1>2. PICK u : u = Task(op, n)
  OBVIOUS
<1>3. e.kind \notin StmtKind
  BY DEF ExprKind, StmtKind
<1>4. /\ Needs(t) = 0 /\ ~StatementTask(t) /\ t.op = "accept" /\ ~Stores(t)
      /\ Needs(u) = 1 /\ u.op # "run" /\ ~Stores(u)
  BY ZenonT(60), <1>1, <1>2, <1>3, TaskCosts
<1>5. Gives(t) = 1 /\ Gives(u) = Gives(w)
  BY <1>2, <1>4 DEF Gives
<1>6. Left(t, low) = low + 1 /\ Takes(t, low, low, w)
  BY <1>4, <1>5 DEF Left, Takes
<1>7. Left(u, low + 1) = low + Gives(w) /\ Takes(u, low + 1, low, w)
  <2>1. Gives(w) \in {0, 1}
    BY DEF Gives
  <2> QED BY <1>2, <1>4, <1>5, <2>1 DEF Left, Takes
<1>8. t \in TaskType /\ u \in TaskType
  BY <1>1, <1>2
<1>9. PICK k : k = low + 1
  OBVIOUS
<1>10. k = Left(t, low) /\ Takes(u, k, low, w) /\ Left(u, k) = low + Gives(w)
  BY <1>6, <1>7, <1>9
<1>11. Replaces(<<t, u>>, w, low, low, E)
  BY <1>4, <1>6, <1>8, <1>10, ReplacesTwo
<1> QED BY <1>1, <1>2, <1>11

LEMMA ValuesOfExpressions ==
  ASSUME FramesInv, DistancesTyped, ValuesInv,
         \/ Run \/ VisitLiteralExpr \/ VisitVariableExpr \/ EvaluateFirst \/ AssignValue
         \/ VisitBinaryExpr \/ UnaryValue \/ LogicalValue \/ VisitGroupingExpr
  PROVE  ValuesInv'
<1> USE DEF At, Accepting, After, NotFound, storeVars, debugVars
<1>0. Executing /\ Todo # <<>> /\ functions' = functions /\ arrays' = arrays
  BY DEF Run, VisitLiteralExpr, VisitVariableExpr, EvaluateFirst, AssignValue,
         VisitBinaryExpr, UnaryValue, LogicalValue, VisitGroupingExpr, Raise
<1>a. DeclsAreFunctions' /\ LengthsKept
  BY <1>0, FunctionsKept, ArraysKept
<1>b. /\ N \in Node /\ frames # <<>> /\ exc = "none" /\ Now \in TaskType
      /\ Len(vals) \in Nat /\ Len(vals) - Needs(Now) \in Nat
  BY <1>0, AtWork, AtLevel
<1>c. Gives(Now) = IF StatementTask(Now) THEN 0 ELSE 1
  BY DEF Gives
<1>d. ASSUME NEW kind \in {"error", "unlocated"}, Raise(kind) PROVE ValuesInv'
  BY <1>b, <1>d, ValuesThrown DEF Raise
<1>1. CASE Run
  <2>1. PICK more : more = <<Task("accept", N)>>
    OBVIOUS
  <2>2. N.kind \in StmtKind /\ StatementTask(Now) /\ Needs(Now) = 0 /\ Continue(more)
        /\ UNCHANGED <<vals, exc>>
    BY <1>0, <1>1, <2>1, AtLevel, CostsNow DEF Run
  <2>3. Task("accept", N) \in TaskType
    BY <1>b, TaskIsTyped DEF PlainOp
  <2>4. more \in Seq(TaskType) /\ Len(more) = 1 /\ more[1] = Task("accept", N)
    BY <2>1, <2>3
  <2>5. \A k \in 1..Len(more) :
          /\ StatementTask(more[k]) /\ Needs(more[k]) = 0
          /\ more[k].op = "run" => more[k].node.kind \in StmtKind
    <3>1. /\ StatementTask(Task("accept", N)) /\ Needs(Task("accept", N)) = 0
          /\ Task("accept", N).op = "accept"
      BY <2>2, TaskCosts
    <3>2. \A k \in 1..Len(more) : more[k] = Task("accept", N)
      BY <2>4
    <3> QED BY <3>1, <3>2
  <2>6. \A E : Replaces(more, Now, Len(vals), Len(vals), E)
    BY <1>b, <2>2, <2>4, <2>5, ReplacesStatements
  <2>7. Len(vals) = Len(vals) - Needs(Now)
    BY <1>b, <2>2
  <2> QED BY <1>0, <1>a, <2>2, <2>4, <2>6, <2>7, ValuesGoOnSame
<1>2. CASE VisitLiteralExpr
  <2>1. N.val \in HeapValue
    BY <1>2, <1>b, NodeAssumption DEF VisitLiteralExpr, HeapValue
  <2>2. Needs(Now) = 0 /\ Gives(Now) = 1
    BY <1>0, <1>2, CostsNow DEF VisitLiteralExpr, StmtKind
  <2>3. Continue(<<>>) /\ Push(N.val) /\ exc' = exc
    BY <1>2 DEF VisitLiteralExpr
  <2> QED BY <1>0, <1>a, <2>1, <2>2, <2>3, ValuesDoneBy
<1>3. CASE VisitVariableExpr
  <2>1. N.kind = "variable"
    BY <1>3 DEF VisitVariableExpr
  <2>2. CASE Holder(N) = 0
    BY <1>3, <1>d, <2>2 DEF VisitVariableExpr
  <2>3. CASE Holder(N) # 0
    <3>1. envs[Holder(N)].values[N.tok] \in HeapValue
      BY <1>b, <2>1, <2>3, HolderHas
    <3>2. Needs(Now) = 0 /\ Gives(Now) = 1
      BY <1>0, <1>3, CostsNow DEF VisitVariableExpr, StmtKind
    <3>3. Continue(<<>>) /\ Push(envs[Holder(N)].values[N.tok]) /\ exc' = exc
      BY <1>3, <2>3 DEF VisitVariableExpr
    <3> QED BY <1>0, <1>a, <3>1, <3>2, <3>3, ValuesDoneBy
  <2> QED BY <2>2, <2>3
<1>4. CASE EvaluateFirst
  <2>1. /\ N \in Node /\ 1 \in 1..Len(N.kids)
        /\ N.kind \in {"assign", "unary", "logical", "print", "if", "var", "return"}
        /\ Now.op = "accept"
        /\ Continue(<<Task("accept", N.kids[1]), Task("after", N)>>) /\ UNCHANGED <<vals, exc>>
    BY <1>0, <1>4, AtWork, ArityAssumption, LenProperties DEF EvaluateFirst
  <2>2. /\ Task("accept", N.kids[1]) \in TaskType /\ Task("after", N) \in TaskType
        /\ N.kids[1].kind \in ExprKind
    BY <2>1, KidType, TaskIsTyped, PartKind DEF PlainOp
  <2>3. /\ Needs(Now) = 0 /\ (StatementTask(Now) <=> N.kind \in StmtKind)
        /\ Needs(Task("after", N)) = 1 /\ (StatementTask(Task("after", N)) <=> N.kind \in StmtKind)
    BY <1>0, <2>1, CostsNow, TaskCosts
  <2>4. \A E : Replaces(<<Task("accept", N.kids[1]), Task("after", N)>>, Now, Len(vals), Len(vals), E)
    BY <1>b, <2>1, <2>2, <2>3, ReplacesEvaluated
  <2>5. <<Task("accept", N.kids[1]), Task("after", N)>> \in Seq(TaskType)
    BY <2>2, ShortWork
  <2>6. Len(vals) = Len(vals) - Needs(Now)
    BY <1>b, <2>3
  <2> QED BY <1>0, <1>a, <2>1, <2>4, <2>5, <2>6, ValuesGoOnSame
<1>5. CASE AssignValue
  <2>1. CASE Holder(N) = 0
    BY <1>5, <1>d, <2>1 DEF AssignValue
  <2>2. CASE Holder(N) # 0
    <3>1. Needs(Now) = 1 /\ Gives(Now) = 1
      BY <1>0, <1>5, CostsNow DEF AssignValue, StmtKind
    <3>2. Continue(<<>>) /\ UNCHANGED <<vals, exc>>
      BY <1>5, <2>2 DEF AssignValue
    <3> QED BY <1>0, <1>a, <3>1, <3>2, ValuesDoneBy
  <2> QED BY <2>1, <2>2
<1>6. CASE VisitBinaryExpr
  <2>1. CASE Accepting("binary")
    <3>1. /\ N.kind = "binary" /\ N.kids \in Seq(Node) /\ Len(N.kids) = 2
          /\ \A i \in 1..Len(N.kids) : N.kids[i].kind \in ExprKind
          /\ Now.op = "accept"
      BY <1>0, <1>b, <2>1, AtWork, PartKind, ArityAssumption
    <3>2. Task("after", N) \in TaskType
      BY <1>b, TaskIsTyped DEF PlainOp
    <3>3. PICK t : t = Task("after", N)
      OBVIOUS
    <3>4. /\ t \in TaskType /\ ~StatementTask(t) /\ t.op # "run" /\ ~Stores(t) /\ Needs(t) = Len(N.kids)
          /\ Needs(Now) = 0 /\ Gives(Now) = 1
      <4>1. "binary" \notin StmtKind
        BY DEF StmtKind
      <4>2. Needs(Now) = 0 /\ Gives(Now) = 1
        BY <1>0, <3>1, <4>1, CostsNow
      <4>3. t.op = "after" /\ ~StatementTask(t) /\ ~Stores(t) /\ Needs(t) = 2
        BY <3>1, <3>3, <4>1, TaskCosts
      <4> QED BY <3>1, <3>2, <3>3, <4>2, <4>3
    <3>5. /\ Continue(Append(Tasks("accept", N.kids), t)) /\ UNCHANGED <<vals, exc>>
      BY <1>6, <2>1, <3>3 DEF VisitBinaryExpr
    <3>6. \A E : Replaces(Append(Tasks("accept", N.kids), t), Now, Len(vals), Len(vals), E)
      BY <1>b, <3>1, <3>4, ReplacesArguments
    <3>7. Append(Tasks("accept", N.kids), t) \in Seq(TaskType)
      <4>1. Tasks("accept", N.kids) \in Seq(TaskType)
        BY <3>1, TasksAreTyped DEF PlainOp
      <4> QED BY <3>4, <4>1, AppendProperties
    <3>8. Len(vals) = Len(vals) - Needs(Now)
      BY <1>b, <3>4
    <3> QED BY <1>0, <1>a, <3>5, <3>6, <3>7, <3>8, ValuesGoOnSame
  <2>2. CASE After("binary")
    <3>1. Len(vals) >= 2 /\ vals[1] \in Value /\ vals[2] \in Value
      BY <1>6, <2>2, ValueAt DEF VisitBinaryExpr
    <3>2. CASE BinaryFails(N.tok, vals[2], vals[1])
      BY <1>6, <1>d, <2>2, <3>2 DEF VisitBinaryExpr
    <3>3. CASE ~BinaryFails(N.tok, vals[2], vals[1])
      <4>1. ApplyBinary(N.tok, vals[2], vals[1]) \in HeapValue
        BY <3>1, <3>3, BinaryType
      <4>2. Continue(<<>>) /\ Replace(2, ApplyBinary(N.tok, vals[2], vals[1])) /\ exc' = exc
        BY <1>6, <2>2, <3>3 DEF VisitBinaryExpr
      <4>3. Needs(Now) = 2 /\ Gives(Now) = 1
        BY <1>0, <2>2, CostsNow DEF StmtKind
      <4> QED BY <1>0, <1>a, <4>1, <4>2, <4>3, ValuesDoneBy
    <3> QED BY <3>2, <3>3
  <2> QED BY <1>6, <2>1, <2>2 DEF VisitBinaryExpr
<1>7. CASE UnaryValue
  <2>1. Len(vals) >= 1 /\ vals[1] \in Value
    BY <1>7, ValueAt DEF UnaryValue
  <2>2. CASE N.tok = "-" /\ vals[1].type # "number"
    BY <1>7, <1>d, <2>2 DEF UnaryValue
  <2>3. CASE ~(N.tok = "-" /\ vals[1].type # "number")
    <3> DEFINE v == IF N.tok = "!" THEN Bool(~IsTruthy(vals[1])) ELSE Number(-vals[1].n)
    <3>1. v \in HeapValue
      <4>1. -vals[1].n \in Int
        BY <2>1 DEF Value
      <4> QED BY <4>1, NewValues
    <3>2. Continue(<<>>) /\ Replace(1, v) /\ exc' = exc
      BY <1>7, <2>3 DEF UnaryValue
    <3> HIDE DEF v
    <3>3. Needs(Now) = 1 /\ Gives(Now) = 1
      BY <1>0, <1>7, CostsNow DEF UnaryValue, StmtKind
    <3> QED BY <1>0, <1>a, <3>1, <3>2, <3>3, ValuesDoneBy
  <2> QED BY <2>2, <2>3
<1>8. CASE LogicalValue
  <2>1. /\ N.kind = "logical" /\ 2 \in 1..Len(N.kids) /\ exc' = exc
        /\ Needs(Now) = 1 /\ Gives(Now) = 1
    BY <1>0, <1>b, <1>8, ArityAssumption, CostsNow DEF LogicalValue, StmtKind
  <2>2. CASE IsTruthy(vals[1]) = (N.tok = "or")
    <3>1. Continue(<<>>) /\ UNCHANGED vals
      BY <1>8, <2>2 DEF LogicalValue
    <3> QED BY <1>0, <1>a, <2>1, <3>1, ValuesDoneBy
  <2>3. CASE IsTruthy(vals[1]) # (N.tok = "or")
    <3>1. Continue(<<Task("accept", N.kids[2])>>) /\ Drop(1)
      BY <1>8, <2>3 DEF LogicalValue
    <3>2. PICK t : t = Task("accept", N.kids[2])
      OBVIOUS
    <3>3. t \in TaskType /\ N.kids[2].kind \in ExprKind
      BY <1>b, <2>1, <3>2, KidType, TaskIsTyped, PartKind DEF PlainOp
    <3>4. t.op = "accept" /\ Needs(t) = 0 /\ ~StatementTask(t) /\ ~Stores(t)
      BY ZenonT(60), <3>2, <3>3, TaskCosts DEF ExprKind, StmtKind
    <3>5. PICK low : low = Len(vals) - Needs(Now)
      OBVIOUS
    <3>6. low \in Nat /\ low = Len(vals) - 1 /\ Len(vals') = low /\ LowKept(low)
      BY <1>b, <2>1, <3>1, <3>5, LowDropped
    <3>7. Takes(t, low, low, Now) /\ Left(t, low) = low + Gives(Now)
      BY <2>1, <3>4, <3>6 DEF Takes, Left, Gives
    <3>8. \A E : Replaces(<<t>>, Now, low, low, E)
      BY <3>3, <3>4, <3>6, <3>7, ReplacesOne
    <3>9. <<t>> \in Seq(TaskType)
      BY <3>3
    <3> QED BY <1>0, <1>a, <2>1, <3>1, <3>2, <3>5, <3>6, <3>8, <3>9, ValuesGoOn
  <2> QED BY <2>2, <2>3
<1>9. CASE VisitGroupingExpr
  <2>1. /\ N.kind = "grouping" /\ 1 \in 1..Len(N.kids) /\ UNCHANGED <<vals, exc>>
        /\ Needs(Now) = 0 /\ Gives(Now) = 1 /\ Continue(<<Task("accept", N.kids[1])>>)
    BY <1>0, <1>b, <1>9, ArityAssumption, CostsNow DEF VisitGroupingExpr, StmtKind
  <2>2. PICK t : t = Task("accept", N.kids[1])
    OBVIOUS
  <2>3. t \in TaskType /\ N.kids[1].kind \in ExprKind
    BY <1>b, <2>1, <2>2, KidType, TaskIsTyped, PartKind DEF PlainOp
  <2>4. t.op = "accept" /\ Needs(t) = 0 /\ ~StatementTask(t) /\ ~Stores(t)
    BY ZenonT(60), <2>2, <2>3, TaskCosts DEF ExprKind, StmtKind
  <2>5. PICK low : low = Len(vals)
    OBVIOUS
  <2>6. low \in Nat /\ low = Len(vals) - Needs(Now)
    BY <1>b, <2>1, <2>5
  <2>7. Takes(t, low, low, Now) /\ Left(t, low) = low + Gives(Now)
    BY <2>1, <2>4, <2>6 DEF Takes, Left, Gives
  <2>8. \A E : Replaces(<<t>>, Now, low, low, E)
    BY <2>3, <2>4, <2>6, <2>7, ReplacesOne
  <2>9. <<t>> \in Seq(TaskType) /\ Continue(<<t>>)
    BY <2>1, <2>2, <2>3
  <2> QED BY <1>0, <1>a, <2>1, <2>5, <2>6, <2>8, <2>9, ValuesGoOnSame
<1> QED BY <1>1, <1>2, <1>3, <1>4, <1>5, <1>6, <1>7, <1>8, <1>9

\* An index in range upon an array.
LEMMA ElementAtTop ==
  ASSUME FramesInv, Len(vals) >= 2, vals[2].type = "array", InRange(vals[1], vals[2]),
         UNCHANGED <<vals, arrays>>
  PROVE  Len(vals) \in CheckedElements'
<1>1. Len(vals) \in Nat
  BY ValueAt
<1>2. Len(vals) + 1 - Len(vals) = 1 /\ Len(vals) + 1 - (Len(vals) - 1) = 2 /\ Len(vals) \in 2..Len(vals)
  BY <1>1
<1>3. FromBottom(Len(vals)) = vals[1] /\ FromBottom(Len(vals) - 1) = vals[2]
  BY <1>2 DEF FromBottom
<1>4. Len(vals) \in CheckedElements
  BY <1>2, <1>3 DEF CheckedElements
<1>5. CheckedElements' = CheckedElements
  BY DEF CheckedElements, FromBottom, InRange
<1> QED BY <1>4, <1>5

LEMMA ValuesOfArrays ==
  ASSUME FramesInv, ValuesInv,
         VisitIndexed \/ RequireArray \/ RequireIndex \/ StoreElement \/ AllocateArray
  PROVE  ValuesInv'
<1> USE DEF At, Accepting, After, storeVars, scopeVars, debugVars
<1>0. Executing /\ Todo # <<>> /\ functions' = functions
  BY DEF VisitIndexed, RequireArray, RequireIndex, StoreElement, AllocateArray, Raise
<1>a. DeclsAreFunctions'
  BY <1>0, FunctionsKept
<1>b. /\ N \in Node /\ frames # <<>> /\ exc = "none" /\ Now \in TaskType
      /\ Len(vals) \in Nat /\ Len(vals) - Needs(Now) \in Nat
  BY <1>0, AtWork, AtLevel
<1>c. /\ arrays \in Seq(Seq(HeapValue)) /\ Len(arrays) \in Nat /\ DOMAIN arrays = 1..Len(arrays)
      /\ \A i \in 1..Len(arrays) : arrays[i] \in Seq(HeapValue)
  BY LenProperties, ElementOfSeq DEF FramesInv, MemoryTyped, StoreTyped
<1>d. ASSUME Raise("error") PROVE ValuesInv'
  BY <1>b, <1>d, ValuesThrown DEF Raise
<1>1. CASE VisitIndexed
  <2>1. /\ N.kind \in Indexed /\ N.kind \notin StmtKind
        /\ 1 \in 1..Len(N.kids) /\ 2 \in 1..Len(N.kids) /\ Now.op = "accept"
        /\ UNCHANGED <<vals, exc, arrays>>
        /\ Continue(<<Task("accept", N.kids[1]), Task("requireArray", N),
                      Task("accept", N.kids[2]), Task("requireIndex", N)>>)
    BY <1>b, <1>1, ArityAssumption DEF VisitIndexed, Indexed, StmtKind
  <2>2. Needs(Now) = 0 /\ ~StatementTask(Now) /\ Gives(Now) = 1
    BY <1>0, <2>1, CostsNow
  <2>3. PICK s : s = Task("accept", N.kids[1])
    OBVIOUS
  <2>4. PICK t : t = Task("requireArray", N)
    OBVIOUS
  <2>5. PICK u : u = Task("accept", N.kids[2])
    OBVIOUS
  <2>6. PICK v : v = Task("requireIndex", N)
    OBVIOUS
  <2>7. PICK n : n = Len(vals)
    OBVIOUS
  <2>8. s \in TaskType /\ u \in TaskType /\ t \in TaskType /\ v \in TaskType
    BY <1>b, <2>1, <2>3, <2>4, <2>5, <2>6, KidType, TaskIsTyped DEF PlainOp, IndexOp
  <2>9. N.kids[1].kind \notin StmtKind /\ N.kids[2].kind \notin StmtKind
    <3>1. N.kids[1].kind \in ExprKind /\ N.kids[2].kind \in ExprKind
      BY <1>b, <2>1, PartKind DEF Indexed
    <3> QED BY <3>1 DEF ExprKind, StmtKind
  <2>10. /\ s.op = "accept" /\ Needs(s) = 0 /\ ~StatementTask(s) /\ ~Stores(s)
         /\ t.op = "requireArray" /\ Needs(t) = 1 /\ ~StatementTask(t) /\ ~Stores(t)
         /\ u.op = "accept" /\ Needs(u) = 0 /\ ~StatementTask(u) /\ ~Stores(u)
         /\ v.op = "requireIndex" /\ Needs(v) = 2 /\ ~StatementTask(v) /\ ~Stores(v)
    <3>1. s.op = "accept" /\ Needs(s) = 0 /\ ~StatementTask(s) /\ ~Stores(s)
      BY <2>3, <2>9, TaskCosts
    <3>2. t.op = "requireArray" /\ Needs(t) = 1 /\ ~StatementTask(t) /\ ~Stores(t)
      BY <2>4, TaskCosts
    <3>3. u.op = "accept" /\ Needs(u) = 0 /\ ~StatementTask(u) /\ ~Stores(u)
      BY <2>5, <2>9, TaskCosts
    <3>4. v.op = "requireIndex" /\ Needs(v) = 2 /\ ~StatementTask(v) /\ ~Stores(v)
      BY <2>6, TaskCosts
    <3> QED BY <3>1, <3>2, <3>3, <3>4
  <2>11. /\ n \in Nat
         /\ Takes(s, n, n, Now) /\ Left(s, n) = n + 1
         /\ Takes(t, n + 1, n, Now) /\ Left(t, n + 1) = n + 1
         /\ Takes(u, n + 1, n, Now) /\ Left(u, n + 1) = n + 2
         /\ Takes(v, n + 2, n, Now) /\ Left(v, n + 2) = n + Gives(Now)
    BY <1>b, <2>2, <2>7, <2>10 DEF Takes, Left, Gives
  <2>12. PICK k : k = n + 1
    OBVIOUS
  <2>13. PICK o : o = n + 2
    OBVIOUS
  <2>14. /\ k = Left(s, n) /\ Takes(t, k, n, Now) /\ k = Left(t, k) /\ Takes(u, k, n, Now)
         /\ o = Left(u, k) /\ Takes(v, o, n, Now) /\ Left(v, o) = n + Gives(Now)
    BY <2>11, <2>12, <2>13
  <2>15. \A E : Replaces(<<s, t, u, v>>, Now, n, n, E)
    BY <2>8, <2>10, <2>11, <2>14, ReplacesFour
  <2>16. <<s, t, u, v>> \in Seq(TaskType)
    BY <2>8
  <2>17. Continue(<<s, t, u, v>>) /\ n = Len(vals) - Needs(Now)
    BY <2>1, <2>2, <2>3, <2>4, <2>5, <2>6, <2>7, <2>11
  <2> QED BY <1>0, <1>a, <2>1, <2>7, <2>15, <2>16, <2>17, ArraysKept, ValuesGoOnSame
<1>2. CASE RequireArray
  <2>1. CASE vals[1].type # "array"
    BY <1>2, <1>d, <2>1 DEF RequireArray
  <2>2. CASE vals[1].type = "array"
    <3>1. Continue(<<>>) /\ UNCHANGED <<vals, exc, arrays>>
      BY <1>2, <2>2 DEF RequireArray
    <3>2. Needs(Now) = 1 /\ Gives(Now) = 1
      BY <1>0, <1>2, CostsNow DEF RequireArray
    <3> QED BY <1>0, <1>a, <3>1, <3>2, ArraysKept, ValuesDoneBy
  <2> QED BY <2>1, <2>2
<1>3. CASE RequireIndex
  <2>1. /\ Len(vals) >= 2 /\ vals[2].type = "array" /\ N.kind \in Indexed
        /\ Needs(Now) = 2 /\ Gives(Now) = 1 /\ ~StatementTask(Now)
    BY <1>0, <1>3, <1>b, CostsNow DEF RequireIndex, TaskType, N, IndexOp
  <2>2. CASE ~InRange(vals[1], vals[2])
    BY <1>3, <1>d, <2>2 DEF RequireIndex
  <2>3. CASE InRange(vals[1], vals[2]) /\ N.kind = "index"
    <3>1. /\ Continue(<<>>) /\ Replace(2, arrays[vals[2].n][vals[1].n + 1])
          /\ UNCHANGED <<exc, arrays>>
      BY <1>3, <2>3 DEF RequireIndex
    <3> QED BY <1>0, <1>a, <2>1, <3>1, ArraysKept, ValuesDoneBy
  <2>4. CASE InRange(vals[1], vals[2]) /\ N.kind # "index"
    <3>1. N.kind = "indexAssign"
      BY <2>1, <2>4 DEF Indexed
    <3>2. 3 \in 1..Len(N.kids)
      <4>1. Len(N.kids) = 3
        BY <1>b, <3>1, ArityAssumption
      <4> QED BY <4>1
    <3>3. PICK t : t = Task("accept", N.kids[3])
      OBVIOUS
    <3>4. PICK u : u = Task("after", N)
      OBVIOUS
    <3>5. Continue(<<t, u>>) /\ UNCHANGED <<vals, exc, arrays>>
      BY <1>3, <2>4, <3>3, <3>4 DEF RequireIndex
    <3>6. t \in TaskType /\ u \in TaskType /\ N.kids[3].kind \in ExprKind
      BY <1>b, <3>1, <3>2, <3>3, <3>4, KidType, TaskIsTyped, PartKind DEF PlainOp
    <3>7. t.op = "accept" /\ Needs(t) = 0 /\ ~StatementTask(t) /\ ~Stores(t)
      <4>1. N.kids[3].kind \notin StmtKind
        BY <3>6 DEF ExprKind, StmtKind
      <4> QED BY <3>3, <4>1, TaskCosts
    <3>8. u.op = "after" /\ Needs(u) = 3 /\ ~StatementTask(u)
      <4>1. "indexAssign" \notin StmtKind
        BY DEF StmtKind
      <4> QED BY <3>1, <3>4, <4>1, TaskCosts
    <3>9. PICK n : n = Len(vals)
      OBVIOUS
    <3>10. PICK low : low = Len(vals) - Needs(Now)
      OBVIOUS
    <3>11. n \in Nat /\ low \in Nat /\ low = n - 2
      BY <1>b, <2>1, <3>9, <3>10
    <3>12. /\ Takes(t, n, low, Now) /\ Left(t, n) = n + 1
           /\ Takes(u, n + 1, low, Now) /\ Left(u, n + 1) = low + Gives(Now)
           /\ n <= n - Needs(t) /\ n + 1 - 1 = n
      BY <2>1, <3>7, <3>8, <3>11 DEF Takes, Left, Gives
    <3>13. n \in CheckedElements'
      BY <2>1, <2>4, <3>5, <3>9, ElementAtTop
    <3>14. PICK k : k = n + 1
      OBVIOUS
    <3>15. /\ k = Left(t, n) /\ Takes(u, k, low, Now) /\ Left(u, k) = low + Gives(Now)
           /\ k - 1 = n
      <4>1. k - 1 = n
        BY <3>11, <3>14
      <4> QED BY <3>12, <3>14, <4>1
    <3>16. \A E : E = CheckedElements' => Replaces(<<t, u>>, Now, low, n, E)
      BY <3>6, <3>7, <3>11, <3>12, <3>13, <3>15, ReplacesTwo
    <3>17. <<t, u>> \in Seq(TaskType)
      BY <3>6
    <3> QED BY <1>0, <1>a, <3>5, <3>9, <3>10, <3>16, <3>17, ArraysKept, ValuesGoOnSame
  <2> QED BY <2>2, <2>3, <2>4
<1>4. CASE StoreElement
  <2>1. /\ Len(vals) >= 3 /\ vals[3] \in HeapValue /\ vals[3].type = "array"
        /\ Continue(<<>>) /\ Replace(3, vals[1]) /\ exc' = exc
        /\ Needs(Now) = 3 /\ Gives(Now) = 1
    BY <1>0, <1>4, CostsNow, ValueAt DEF StoreElement, StmtKind
  <2>2. LengthsKept
    <3> DEFINE a == arrays[vals[3].n]
               b == [a EXCEPT ![vals[2].n + 1] = vals[1]]
    <3>1. vals[3].n \in 1..Len(arrays)
      BY <2>1 DEF HeapValue
    <3>2. a \in Seq(HeapValue)
      BY <1>c, <3>1
    <3> HIDE DEF a
    <3>3. Len(b) = Len(a)
      <4>1. CASE vals[2].n + 1 \in 1..Len(a)
        BY <2>1, <3>2, <4>1, ExceptSeq, ValueAt
      <4>2. CASE vals[2].n + 1 \notin 1..Len(a)
        <5>1. DOMAIN a = 1..Len(a)
          BY <3>2, LenProperties
        <5>2. b = a
          BY <3>2, <4>2, <5>1
        <5> QED BY <5>2
      <4> QED BY <4>1, <4>2
    <3>4. arrays' = [arrays EXCEPT ![vals[3].n] = b]
      BY <1>4 DEF StoreElement, a
    <3> HIDE DEF b
    <3>5. \A i \in 1..Len(arrays) : arrays'[i] = IF i = vals[3].n THEN b ELSE arrays[i]
      BY <1>c, <3>4
    <3> QED BY <3>3, <3>5 DEF LengthsKept, a
  <2> QED BY <1>0, <1>a, <2>1, <2>2, ValuesDoneBy
<1>5. CASE AllocateArray
  <2>1. CASE vals[1].type # "number" \/ vals[1].n < 0
    BY <1>5, <1>d, <2>1 DEF AllocateArray
  <2>2. CASE ~(vals[1].type # "number" \/ vals[1].n < 0)
    <3>1. /\ Continue(<<>>) /\ Replace(1, [type |-> "array", n |-> Len(arrays) + 1]) /\ exc' = exc
          /\ arrays' = Append(arrays, [i \in 1..vals[1].n |-> Nil])
          /\ Len(vals) >= 1
      BY <1>5, <2>2 DEF AllocateArray
    <3>2. LengthsKept
      <4> DEFINE a == [i \in 1..vals[1].n |-> Nil]
      <4>1. a \in Seq(HeapValue)
        BY SMTT(60), <2>2, <3>1, ValueAt, NewValues DEF Value
      <4> HIDE DEF a
      <4>2. \A i \in 1..Len(arrays) : Append(arrays, a)[i] = arrays[i]
        BY <1>c, <4>1, AppendProperties
      <4> QED BY <3>1, <4>2 DEF LengthsKept, a
    <3>3. Needs(Now) = 1 /\ Gives(Now) = 1
      BY <1>0, <1>5, CostsNow DEF AllocateArray
    <3> QED BY <1>0, <1>a, <3>1, <3>2, <3>3, ValuesDoneBy
  <2> QED BY <2>1, <2>2
<1> QED BY <1>1, <1>2, <1>3, <1>4, <1>5

LEMMA ValuesOfOutput ==
  ASSUME FramesInv, ValuesInv, PrintValue \/ VisitExpressionStmt \/ VisitVarDeclareStmt
  PROVE  ValuesInv'
<1> USE DEF At, Accepting, After, storeVars, scopeVars, debugVars
<1>0. Executing /\ Todo # <<>> /\ functions' = functions /\ arrays' = arrays /\ exc' = exc
  BY DEF PrintValue, VisitExpressionStmt, VisitVarDeclareStmt
<1>a. DeclsAreFunctions' /\ LengthsKept
  BY <1>0, FunctionsKept, ArraysKept
<1>b. N \in Node /\ Now \in TaskType /\ Len(vals) \in Nat
  BY <1>0, AtWork, AtLevel
<1>1. CASE PrintValue
  <2>1. Needs(Now) = 1 /\ Gives(Now) = 0
    BY <1>0, <1>1, CostsNow DEF PrintValue, StmtKind
  <2> QED BY <1>0, <1>1, <1>a, <2>1, ValuesDoneBy DEF PrintValue
<1>2. CASE VisitExpressionStmt
  <2>1. CASE Accepting("exprStmt")
    <3>1. /\ 1 \in 1..Len(N.kids) /\ Now.op = "accept" /\ N.kind = "exprStmt" /\ N.kind \in StmtKind
          /\ Continue(<<Task("accept", N.kids[1]), Task("drop", N)>>) /\ UNCHANGED <<vals, exc>>
      BY <1>2, <1>b, <2>1, ArityAssumption DEF VisitExpressionStmt, StmtKind
    <3>2. /\ Task("accept", N.kids[1]) \in TaskType /\ Task("drop", N) \in TaskType
          /\ N.kids[1].kind \in ExprKind
      BY <1>b, <3>1, KidType, TaskIsTyped, PartKind DEF PlainOp
    <3>3. Needs(Now) = 0 /\ StatementTask(Now)
          /\ Needs(Task("drop", N)) = 1 /\ StatementTask(Task("drop", N))
      BY <1>0, <3>1, CostsNow, TaskCosts
    <3>4. \A E : Replaces(<<Task("accept", N.kids[1]), Task("drop", N)>>, Now, Len(vals), Len(vals), E)
      BY <1>b, <3>1, <3>2, <3>3, ReplacesEvaluated
    <3>5. <<Task("accept", N.kids[1]), Task("drop", N)>> \in Seq(TaskType)
      BY <3>2, ShortWork
    <3>6. Len(vals) = Len(vals) - Needs(Now)
      BY <1>b, <3>3
    <3> QED BY <1>0, <1>a, <3>1, <3>4, <3>5, <3>6, ValuesGoOnSame
  <2>2. CASE At("drop")
    <3>1. Continue(<<>>) /\ Drop(1)
      BY <1>2, <2>2 DEF VisitExpressionStmt
    <3>2. Needs(Now) = 1 /\ Gives(Now) = 0
      BY <1>0, <2>2, CostsNow
    <3> QED BY <1>0, <1>a, <3>1, <3>2, ValuesDoneBy
  <2> QED BY <1>2, <2>1, <2>2 DEF VisitExpressionStmt
<1>3. CASE VisitVarDeclareStmt
  <2>1. N.kind \in StmtKind /\ N.kind = "var"
    BY <1>3 DEF VisitVarDeclareStmt, StmtKind
  <2>2. CASE Accepting("var")
    <3>1. Needs(Now) = 0 /\ Gives(Now) = 0
      BY <1>0, <2>1, <2>2, CostsNow
    <3>2. Continue(<<>>) /\ UNCHANGED vals
      BY <1>3, <2>2 DEF VisitVarDeclareStmt
    <3> QED BY <1>0, <1>a, <3>1, <3>2, ValuesDoneBy
  <2>3. CASE After("var")
    <3>1. Needs(Now) = 1 /\ Gives(Now) = 0
      BY <1>0, <2>1, <2>3, CostsNow
    <3>2. Continue(<<>>) /\ Drop(1)
      BY <1>3, <2>3 DEF VisitVarDeclareStmt
    <3> QED BY <1>0, <1>a, <3>1, <3>2, ValuesDoneBy
  <2> QED BY <1>3, <2>2, <2>3 DEF VisitVarDeclareStmt
<1> QED BY <1>1, <1>2, <1>3

\* Which members are statements, and which expressions.
LEMMA StatementParts ==
  ASSUME NEW n \in Node, NEW i \in 1..Len(n.kids)
  PROVE  /\ n.kind \in {"block", "func"} => n.kids[i].kind \in StmtKind
         /\ n.kind = "if" /\ i \in {2, 3} => n.kids[i].kind \in StmtKind
         /\ n.kind = "for" /\ i = 4 => n.kids[i].kind \in StmtKind
         /\ n.kind = "for" /\ i = 1 /\ n.kids[i] # Absent => n.kids[i].kind \in StmtKind
         /\ n.kind = "for" /\ i \in {2, 3} /\ n.kids[i] # Absent => n.kids[i].kind \in ExprKind
<1>1. DOMAIN n.kids = 1..Len(n.kids) /\ n.kids[i] \in Node
  BY KidType, NodeAssumption, LenProperties
<1>2. n.kids[i].kind \in Kind
  BY <1>1, NodeAssumption
<1>3. /\ n.kids[i].kind \in StmtKind => i \in SubStatements(n)
      /\ n.kids[i].kind \in ExprKind => i \notin SubStatements(n)
      /\ n.kids[i].kind = "absent" => n.kids[i] = Absent /\ n.kind = "for" /\ i # 4
  BY <1>1, KidsAssumption
<1>4. /\ n.kind \in {"block", "func"} => i \in SubStatements(n)
      /\ n.kind = "if" /\ i \in {2, 3} => i \in SubStatements(n)
      /\ n.kind = "for" /\ i \in {1, 4} => i \in SubStatements(n)
      /\ n.kind = "for" /\ i \in {2, 3} => i \notin SubStatements(n)
  BY <1>1 DEF SubStatements
<1> QED BY <1>2, <1>3, <1>4 DEF Kind

\* Statements are left to be done in the place of a statement, which took its values.
LEMMA ValuesGoOnStatements ==
  ASSUME FramesInv, ValuesInv, Executing, Todo # <<>>,
         NEW more \in Seq(TaskType), Continue(more), exc' = exc, functions' = functions,
         arrays' = arrays, StatementTask(Now),
         Drop(Needs(Now)) \/ (Needs(Now) = 0 /\ UNCHANGED vals),
         \A k \in 1..Len(more) :
           /\ StatementTask(more[k]) /\ Needs(more[k]) = 0
           /\ more[k].op = "run" => more[k].node.kind \in StmtKind
  PROVE  ValuesInv'
<1>1. PICK low : low = Len(vals) - Needs(Now)
  OBVIOUS
<1>2. low \in Nat /\ Needs(Now) \in Nat /\ Needs(Now) <= Len(vals) /\ low <= Len(vals)
  BY <1>1, AtLevel
<1>3. LowKept(low) /\ Len(vals') = low
  <2>1. CASE Drop(Needs(Now))
    BY <1>1, <1>2, <2>1, LowDropped
  <2>2. CASE Needs(Now) = 0 /\ UNCHANGED vals
    <3>1. low = Len(vals)
      BY <1>1, <2>2, ValueAt
    <3> QED BY <1>2, <2>2, <3>1, LowSame
  <2> QED BY <2>1, <2>2
<1>4. \A E : Replaces(more, Now, low, low, E)
  BY <1>2, ReplacesStatements
<1>5. Replaces(more, Now, low, Len(vals'), CheckedElements')
  BY <1>3, <1>4
<1> QED BY <1>1, <1>3, <1>5, ArraysKept, FunctionsKept, ValuesGoOn

\* One or two tasks about statements.
LEMMA ShortStatements ==
  ASSUME NEW t, NEW u,
         \A v \in {t, u} : /\ v \in TaskType /\ StatementTask(v) /\ Needs(v) = 0
                           /\ v.op = "run" => v.node.kind \in StmtKind
  PROVE  \A more \in {<<>>, <<t>>, <<t, u>>} :
           /\ more \in Seq(TaskType)
           /\ \A k \in 1..Len(more) :
                /\ StatementTask(more[k]) /\ Needs(more[k]) = 0
                /\ more[k].op = "run" => more[k].node.kind \in StmtKind
<1> SUFFICES ASSUME NEW more \in {<<>>, <<t>>, <<t, u>>}
             PROVE  /\ more \in Seq(TaskType)
                    /\ \A k \in 1..Len(more) : more[k] \in {t, u}
  OBVIOUS
<1>1. t \in TaskType /\ u \in TaskType
  OBVIOUS
<1>2. more \in Seq(TaskType)
  BY <1>1, ShortWork
<1>3. CASE more = <<>>
  BY <1>2, <1>3, EmptySeq
<1>4. CASE more = <<t>>
  BY <1>1, <1>2, <1>4
<1>5. CASE more = <<t, u>>
  BY <1>1, <1>2, <1>5
<1> QED BY <1>3, <1>4, <1>5

LEMMA OneAndOne ==
  ASSUME NEW S, NEW t \in S, NEW u \in S
  PROVE  Append(<<t>>, u) = <<t, u>>
<1>1. PICK s : s = <<t>>
  OBVIOUS
<1>2. PICK w : w = <<t, u>>
  OBVIOUS
<1>3. /\ s \in Seq(S) /\ Len(s) = 1 /\ s[1] = t
      /\ w \in Seq(S) /\ Len(w) = 2 /\ w[1] = t /\ w[2] = u
  BY <1>1, <1>2
<1>4. PICK a : a = Append(s, u)
  OBVIOUS
<1>5. s \in Seq(S)
  BY <1>3
<1>6. a \in Seq(S) /\ Len(a) = 2 /\ a[1] = t /\ a[1 + 1] = u
  <2>1. a \in Seq(S) /\ Len(a) = Len(s) + 1
    BY <1>4, <1>5, AppendProperties
  <2>2. \A i \in 1..Len(s) : a[i] = s[i]
    BY <1>4, <1>5, AppendProperties
  <2>3. a[Len(s) + 1] = u
    BY <1>4, <1>5, AppendProperties
  <2> QED BY <1>3, <2>1, <2>2, <2>3
<1>7. a = w
  BY <1>3, <1>6, SeqEqual
<1> QED BY <1>1, <1>2, <1>4, <1>7

LEMMA InTurn ==
  ASSUME NEW S, NEW t \in S, NEW u \in S, NEW v \in S
  PROVE  <<t>> \o <<u>> \o <<v>> = <<t, u, v>>
<1>1. PICK r : r = <<t, u>>
  OBVIOUS
<1>2. PICK w : w = <<t, u, v>>
  OBVIOUS
<1>3. /\ r \in Seq(S) /\ Len(r) = 2 /\ r[1] = t /\ r[2] = u
      /\ w \in Seq(S) /\ Len(w) = 3 /\ w[1] = t /\ w[2] = u /\ w[3] = v
  BY <1>1, <1>2
<1>4. r \in Seq(S) /\ Append(r, v) = r \o <<v>>
  BY <1>3, AppendIsConcat
<1>5. PICK b : b = Append(r, v)
  OBVIOUS
<1>6. b \in Seq(S) /\ Len(b) = 3 /\ b[1] = t /\ b[2] = u /\ b[2 + 1] = v
  <2>1. b \in Seq(S) /\ Len(b) = Len(r) + 1
    BY <1>4, <1>5, AppendProperties
  <2>2. \A i \in 1..Len(r) : b[i] = r[i]
    BY <1>4, <1>5, AppendProperties
  <2>3. b[Len(r) + 1] = v
    BY <1>4, <1>5, AppendProperties
  <2> QED BY <1>3, <2>1, <2>2, <2>3
<1>7. b = w
  BY <1>3, <1>6, SeqEqual
<1>8. <<t>> \in Seq(S)
  OBVIOUS
<1>9. <<t>> \o <<u>> = r
  BY <1>1, <1>8, OneAndOne, AppendIsConcat
<1> QED BY <1>2, <1>4, <1>5, <1>7, <1>9

\* A for in its frame.
LEMMA ForNow ==
  ASSUME FramesInv, Executing, Todo # <<>>, Now.op \in ForOp
  PROVE  /\ N \in Node /\ N.kind = "for" /\ Len(N.kids) = 4
         /\ ForBody(N).kind \in StmtKind
         /\ ForCond(N) # Absent => ForCond(N).kind \in ExprKind
         /\ ForIncr(N) # Absent => ForIncr(N).kind \in ExprKind
         /\ Task("loop", N) \in TaskType /\ Task("test", N) \in TaskType
         /\ Task("increment", N) \in TaskType /\ Task("run", ForBody(N)) \in TaskType
         /\ Task("accept", ForCond(N)) \in TaskType
         /\ Task("accept", ForIncr(N)) \in TaskType /\ Task("drop", ForIncr(N)) \in TaskType
<1>1. N \in Node /\ N.kind = "for"
  BY AtWork DEF TaskType, N, ForOp, PlainOp, IndexOp, CallOp
<1>2. Len(N.kids) = 4
  BY <1>1, ArityAssumption
<1>3. 2 \in 1..Len(N.kids) /\ 3 \in 1..Len(N.kids) /\ 4 \in 1..Len(N.kids)
  BY <1>2
<1>4. ForBody(N) \in Node /\ ForCond(N) \in Node /\ ForIncr(N) \in Node
  BY <1>1, <1>3, KidType DEF ForBody, ForCond, ForIncr
<1>5. /\ ForBody(N).kind \in StmtKind
      /\ ForCond(N) # Absent => ForCond(N).kind \in ExprKind
      /\ ForIncr(N) # Absent => ForIncr(N).kind \in ExprKind
  BY <1>1, <1>3, StatementParts DEF ForBody, ForCond, ForIncr
<1>6. /\ Task("loop", N) \in TaskType /\ Task("test", N) \in TaskType
      /\ Task("increment", N) \in TaskType
  BY <1>1, TaskIsTyped DEF ForOp
<1>7. /\ Task("run", ForBody(N)) \in TaskType /\ Task("accept", ForCond(N)) \in TaskType
      /\ Task("accept", ForIncr(N)) \in TaskType /\ Task("drop", ForIncr(N)) \in TaskType
  BY <1>4, TaskIsTyped DEF PlainOp
<1> QED BY <1>1, <1>2, <1>5, <1>6, <1>7

LEMMA ValuesOfFor ==
  ASSUME FramesInv, ValuesInv, ForLoop \/ ForTest \/ ForIncrement
  PROVE  ValuesInv'
<1> USE DEF At, storeVars, debugVars
<1>0. /\ Executing /\ Todo # <<>> /\ functions' = functions /\ arrays' = arrays /\ exc' = exc
      /\ Now.op \in {"loop", "test", "increment"}
  BY DEF ForLoop, ForTest, ForIncrement
<1>a. Now.op \in ForOp
  BY <1>0 DEF ForOp
<1>b. Len(vals) \in Nat /\ StatementTask(Now)
  BY <1>0, AtLevel, CostsNow
<1>c. \A more \in {<<>>, ForIteration(N)} :
        /\ more \in Seq(TaskType)
        /\ \A k \in 1..Len(more) :
             /\ StatementTask(more[k]) /\ Needs(more[k]) = 0
             /\ more[k].op = "run" => more[k].node.kind \in StmtKind
  <2>1. PICK t : t = Task("run", ForBody(N))
    OBVIOUS
  <2>2. PICK u : u = Task("increment", N)
    OBVIOUS
  <2>3. /\ t \in TaskType /\ StatementTask(t) /\ Needs(t) = 0 /\ t.node.kind \in StmtKind
        /\ u \in TaskType /\ StatementTask(u) /\ Needs(u) = 0 /\ u.op # "run"
    <3>1. t \in TaskType /\ u \in TaskType /\ ForBody(N).kind \in StmtKind
      BY <1>0, <1>a, <2>1, <2>2, ForNow
    <3>2. t.node = ForBody(N) /\ u.op = "increment"
      BY <2>1, <2>2 DEF Task
    <3> QED BY <2>1, <2>2, <3>1, <3>2, TaskCosts
  <2>4. ForIteration(N) = <<t, u>>
    BY <2>1, <2>2 DEF ForIteration
  <2> QED BY <2>3, <2>4, ShortStatements
<1>1. CASE ForLoop
  <2>1. Needs(Now) = 0 /\ UNCHANGED vals
    BY <1>0, <1>1, CostsNow DEF ForLoop
  <2>2. CASE ForCond(N) = Absent
    <3>1. Continue(ForIteration(N))
      BY <1>1, <2>2 DEF ForLoop
    <3> QED BY <1>0, <1>b, <1>c, <2>1, <3>1, ValuesGoOnStatements
  <2>3. CASE ForCond(N) # Absent
    <3>1. Continue(<<Task("accept", ForCond(N)), Task("test", N)>>)
      BY <1>1, <2>3 DEF ForLoop
    <3>2. /\ Task("accept", ForCond(N)) \in TaskType /\ Task("test", N) \in TaskType
          /\ ForCond(N).kind \in ExprKind /\ N.kind = "for"
      BY <1>0, <1>a, <2>3, ForNow
    <3>3. Needs(Task("test", N)) = 1 /\ StatementTask(Task("test", N))
      BY TaskCosts
    <3>4. \A E : Replaces(<<Task("accept", ForCond(N)), Task("test", N)>>, Now, Len(vals), Len(vals), E)
      BY <1>b, <3>2, <3>3, ReplacesEvaluated
    <3>5. <<Task("accept", ForCond(N)), Task("test", N)>> \in Seq(TaskType)
      BY <3>2, ShortWork
    <3>6. Len(vals) = Len(vals) - Needs(Now)
      BY <1>b, <2>1
    <3> QED BY <1>0, <2>1, <3>1, <3>4, <3>5, <3>6, ArraysKept, FunctionsKept, ValuesGoOnSame
  <2> QED BY <2>2, <2>3
<1>2. CASE ForTest
  <2>1. Needs(Now) = 1 /\ Drop(1)
    BY <1>0, <1>2, CostsNow DEF ForTest
  <2>2. \E more \in {<<>>, ForIteration(N)} : Continue(more)
    BY <1>2 DEF ForTest
  <2> QED BY <1>0, <1>b, <1>c, <2>1, <2>2, ValuesGoOnStatements
<1>3. CASE ForIncrement
  <2>1. Needs(Now) = 0 /\ UNCHANGED vals
    BY <1>0, <1>3, CostsNow DEF ForIncrement
  <2>2. PICK v : v = Task("loop", N)
    OBVIOUS
  <2>3. v \in TaskType /\ v.op = "loop" /\ StatementTask(v) /\ Needs(v) = 0 /\ ~Stores(v)
    BY <1>0, <1>a, <2>2, ForNow, TaskCosts
  <2>4. CASE ForIncr(N) = Absent
    <3>1. <<>> \o <<>> \o <<v>> = <<v>>
      OBVIOUS
    <3>2. Continue(<<v>>)
      BY <1>3, <2>2, <2>4, <3>1 DEF ForIncrement, Present
    <3>3. PICK more : more = <<v>>
      OBVIOUS
    <3>4. /\ more \in Seq(TaskType)
          /\ \A k \in 1..Len(more) :
               /\ StatementTask(more[k]) /\ Needs(more[k]) = 0
               /\ more[k].op = "run" => more[k].node.kind \in StmtKind
      BY <2>3, <3>3, ShortStatements
    <3>5. Continue(more)
      BY <3>2, <3>3
    <3> QED BY <1>0, <1>b, <2>1, <3>4, <3>5, ValuesGoOnStatements
  <2>5. CASE ForIncr(N) # Absent
    <3>1. PICK t : t = Task("accept", ForIncr(N))
      OBVIOUS
    <3>2. PICK u : u = Task("drop", ForIncr(N))
      OBVIOUS
    <3>3. <<t>> \o <<u>> \o <<v>> = <<t, u, v>>
      <4>1. t \in TaskType /\ u \in TaskType
        BY <1>0, <1>a, <2>5, <3>1, <3>2, ForNow
      <4> QED BY <2>3, <4>1, InTurn
    <3>4. Continue(<<t, u, v>>)
      BY <1>3, <2>2, <2>5, <3>1, <3>2, <3>3 DEF ForIncrement, Present
    <3>5. t \in TaskType /\ u \in TaskType /\ ForIncr(N).kind \in ExprKind
      BY <1>0, <1>a, <2>5, <3>1, <3>2, ForNow
    <3>6. /\ t.op = "accept" /\ ~StatementTask(t) /\ Needs(t) = 0 /\ ~Stores(t)
          /\ u.op = "drop" /\ StatementTask(u) /\ Needs(u) = 1 /\ ~Stores(u)
      <4>1. ForIncr(N).kind \notin StmtKind
        BY <3>5 DEF ExprKind, StmtKind
      <4>2. t.op = "accept" /\ ~StatementTask(t) /\ Needs(t) = 0 /\ ~Stores(t)
        BY <3>1, <4>1, TaskCosts
      <4>3. u.op = "drop" /\ StatementTask(u) /\ Needs(u) = 1 /\ ~Stores(u)
        BY <3>2, TaskCosts
      <4> QED BY <4>2, <4>3
    <3>7. PICK n : n = Len(vals)
      OBVIOUS
    <3>8. n \in Nat /\ n = Len(vals) - Needs(Now)
      BY <1>b, <2>1, <3>7
    <3>9. /\ Takes(t, n, n, Now) /\ Left(t, n) = n + 1
          /\ Takes(u, n + 1, n, Now) /\ Left(u, n + 1) = n
          /\ Takes(v, n, n, Now) /\ Left(v, n) = n + Gives(Now)
      BY <1>b, <2>3, <3>6, <3>8 DEF Takes, Left, Gives
    <3>10. PICK k : k = n + 1
      OBVIOUS
    <3>11. k = Left(t, n) /\ Takes(u, k, n, Now) /\ n = Left(u, k)
      BY <3>9, <3>10
    <3>12. \A E : Replaces(<<t, u, v>>, Now, n, n, E)
      BY <2>3, <3>5, <3>6, <3>8, <3>9, <3>11, ReplacesThree
    <3>13. <<t, u, v>> \in Seq(TaskType)
      BY <2>3, <3>5
    <3> QED BY <1>0, <2>1, <3>4, <3>7, <3>8, <3>12, <3>13, ArraysKept, FunctionsKept, ValuesGoOnSame
  <2> QED BY <2>4, <2>5
<1> QED BY <1>1, <1>2, <1>3

LEMMA ValuesOfStatements ==
  ASSUME FramesInv, ValuesInv,
         ChooseBranch \/ VisitFunctionStmt \/ VisitReturnStmt \/ VisitCallExpr
  PROVE  ValuesInv'
<1> USE DEF At, Accepting, After, storeVars, scopeVars, debugVars
<1>0. Executing /\ Todo # <<>> /\ arrays' = arrays
  BY DEF ChooseBranch, VisitFunctionStmt, VisitReturnStmt, VisitCallExpr, Raise
<1>b. /\ N \in Node /\ frames # <<>> /\ exc = "none" /\ Now \in TaskType
      /\ Len(vals) \in Nat /\ Len(vals) - Needs(Now) \in Nat
  BY <1>0, AtWork, AtLevel
<1>1. CASE ChooseBranch
  <2>1. N.kind = "if" /\ "if" \in StmtKind /\ Len(N.kids) \in {2, 3} /\ Now.op = "after"
    BY <1>b, <1>1, ArityAssumption DEF ChooseBranch, StmtKind
  <2>a. PICK k : k = Len(N.kids)
    OBVIOUS
  <2>b. 2 \in 1..k /\ (k = 3 => 3 \in 1..k)
    <3>1. k = 2 \/ k = 3
      BY <2>1, <2>a
    <3>2. 2 \in 1..2 /\ 2 \in 1..3 /\ 3 \in 1..3
      OBVIOUS
    <3> QED BY <3>1, <3>2
  <2>2. Needs(Now) = 1 /\ StatementTask(Now) /\ Drop(1) /\ exc' = exc /\ functions' = functions
    BY <1>0, <1>1, <2>1, CostsNow DEF ChooseBranch
  <2>3. \/ Continue(<<Task("run", N.kids[2])>>)
        \/ k = 3 /\ Continue(<<Task("run", N.kids[3])>>)
        \/ Continue(<<>>)
    BY <1>1, <2>a DEF ChooseBranch
  <2>4. ASSUME NEW i \in {2, 3}, i \in 1..k
        PROVE  /\ Task("run", N.kids[i]) \in TaskType
               /\ StatementTask(Task("run", N.kids[i])) /\ Needs(Task("run", N.kids[i])) = 0
               /\ Task("run", N.kids[i]).node.kind \in StmtKind
    <3>1. i \in 1..Len(N.kids)
      BY <2>a, <2>4
    <3>2. N.kids[i] \in Node /\ N.kids[i].kind \in StmtKind
      BY <1>b, <2>1, <3>1, KidType, StatementParts
    <3>3. Task("run", N.kids[i]) \in TaskType /\ Task("run", N.kids[i]).node = N.kids[i]
      BY <3>2, TaskIsTyped DEF PlainOp, Task
    <3> QED BY <3>2, <3>3, TaskCosts
  <2>5. \E more : /\ Continue(more) /\ more \in Seq(TaskType)
                  /\ \A i \in 1..Len(more) :
                       /\ StatementTask(more[i]) /\ Needs(more[i]) = 0
                       /\ more[i].op = "run" => more[i].node.kind \in StmtKind
    <3>1. PICK t : t = Task("run", N.kids[2])
      OBVIOUS
    <3>2. PICK u : u = Task("run", N.kids[3])
      OBVIOUS
    <3>4. t \in TaskType /\ StatementTask(t) /\ Needs(t) = 0 /\ t.node.kind \in StmtKind
      BY <2>4, <2>b, <3>1
    <3>5. k = 3 => u \in TaskType /\ StatementTask(u) /\ Needs(u) = 0 /\ u.node.kind \in StmtKind
      BY <2>4, <2>b, <3>2
    <3>6. CASE Continue(<<t>>) \/ Continue(<<>>)
      <4>1. \E more \in {<<>>, <<t>>, <<t, t>>} : Continue(more)
        BY <3>6
      <4> QED BY ZenonT(60), <3>4, <4>1, ShortStatements
    <3>7. CASE k = 3 /\ Continue(<<u>>)
      <4>1. \E more \in {<<>>, <<u>>, <<u, u>>} : Continue(more)
        BY <3>7
      <4> QED BY ZenonT(60), <3>5, <3>7, <4>1, ShortStatements
    <3> QED BY <2>3, <3>1, <3>2, <3>6, <3>7
  <2> QED BY <1>0, <2>2, <2>5, ValuesGoOnStatements
<1>2. CASE VisitFunctionStmt
  <2>1. /\ N.kind = "func" /\ "func" \in StmtKind /\ Now.op = "accept" /\ Continue(<<>>)
        /\ UNCHANGED <<vals, exc>>
        /\ functions' = [functions EXCEPT ![N.tok] = [decl |-> N, closure |-> env]]
    BY <1>2 DEF VisitFunctionStmt, StmtKind
  <2>2. Needs(Now) = 0 /\ Gives(Now) = 0
    BY <1>0, <2>1, CostsNow
  <2>3. DeclsAreFunctions'
    <3>1. \A x \in Name : functions'[x].decl = functions[x].decl \/ functions'[x].decl = N
      BY <2>1 DEF FramesInv, MemoryTyped, ClosuresAlive
    <3> QED BY <2>1, <3>1 DEF ValuesInv, DeclsAreFunctions
  <2> QED BY <1>0, <2>1, <2>2, <2>3, ArraysKept, ValuesDoneBy
<1>3. CASE VisitReturnStmt
  <2>1. N.kind = "return" /\ "return" \in StmtKind /\ exc' = "return" /\ frames' = frames
        /\ functions' = functions
    BY <1>3 DEF VisitReturnStmt, StmtKind
  <2>2. /\ StatementTask(Now) /\ Len(vals') = Len(vals) - Needs(Now) + 1
        /\ LowKept(Len(vals))
    <3>1. CASE Accepting("return")
      <4>1. Needs(Now) = 0 /\ StatementTask(Now)
        BY <1>0, <2>1, <3>1, CostsNow
      <4>3. Push(Nil)
        BY <1>3, <3>1 DEF VisitReturnStmt
      <4>4. Len(vals') = Len(vals) + 1 /\ LowKept(Len(vals))
        BY <4>3, NewValues, LowPushed
      <4> QED BY <1>b, <4>1, <4>4
    <3>2. CASE After("return")
      <4>1. Needs(Now) = 1 /\ StatementTask(Now)
        BY <1>0, <2>1, <3>2, CostsNow
      <4>2. UNCHANGED vals
        BY <1>3, <3>2 DEF VisitReturnStmt
      <4> QED BY <1>b, <4>1, <4>2, LowSame
    <3> QED BY <1>3, <3>1, <3>2 DEF VisitReturnStmt
  <2>3. PICK F : F = CheckedElements'
    OBVIOUS
  <2>4. PICK m : m = Len(vals')
    OBVIOUS
  <2>5. CheckedElements \subseteq F
    <3>1. \A h \in CheckedElements : h <= Len(vals)
      BY <1>b DEF CheckedElements
    <3> QED BY <1>0, <2>2, <2>3, <3>1, ArraysKept, ElementsKept
  <2>6. /\ Balanced(frames, Len(vals), CheckedElements, "none") /\ frames \in Seq(FrameType)
        /\ Top(frames).work # <<>> /\ Now = Head(Top(frames).work)
    BY <1>0, AtLevel DEF Todo, Now
  <2>7. Balanced(frames, m, F, "return")
    BY <1>b, <2>2, <2>4, <2>5, <2>6, BalancedReturns
  <2> QED BY <1>b, <2>1, <2>3, <2>4, <2>7, FunctionsKept DEF ValuesInv
<1>4. CASE VisitCallExpr
  <2>1. CASE CallKind(N) = "error"
    <3>1. Raise("error")
      BY <1>4, <2>1 DEF VisitCallExpr
    <3> QED BY <1>b, <3>1, ValuesThrown DEF Raise
  <2>2. CASE CallKind(N) # "error"
    <3>1. PICK t : t = [op |-> CallKind(N), node |-> N, decl |-> functions[Callee(N).tok].decl]
      OBVIOUS
    <3>2. /\ Continue(Append(Tasks("accept", Arguments(N)), t))
          /\ UNCHANGED <<vals, exc, functions>> /\ Now.op = "accept" /\ N.kind = "call"
          /\ "call" \notin StmtKind
      BY <1>4, <2>2, <3>1 DEF VisitCallExpr, StmtKind
    <3>3. /\ N.kids \in Seq(Node) /\ Len(N.kids) >= 1 /\ N.kids # <<>> /\ Callee(N) \in Node
      BY <1>0, <3>2, AtWork, ArityAssumption, EmptySeq DEF Callee
    <3>4. CallKind(N) \in CallOp /\ Callee(N).kind = "variable"
      BY <2>2 DEF CallKind, CallOp
    <3>5. Callee(N).tok \in Name
      BY <3>3, <3>4, NodeAssumption
    <3>6. t \in TaskType
      BY <1>b, <3>1, <3>2, <3>4, <3>5
         DEF TaskType, FramesInv, MemoryTyped, ClosuresAlive, PlainOp, ForOp, IndexOp, CallOp
    <3>7. /\ Arguments(N) \in Seq(Node)
          /\ \A i \in 1..Len(Arguments(N)) : Arguments(N)[i].kind \in ExprKind
      <4>1. /\ Arguments(N) \in Seq(Node) /\ Len(Arguments(N)) = Len(N.kids) - 1
            /\ \A i \in 1..Len(Arguments(N)) : Arguments(N)[i] = N.kids[i + 1]
        BY <3>3, HeadTailProperties DEF Arguments
      <4>2. \A i \in 1..Len(Arguments(N)) : i + 1 \in 1..Len(N.kids)
        BY <4>1, <3>3, LenProperties
      <4>3. \A j \in 1..Len(N.kids) : N.kids[j].kind \in ExprKind
        BY <1>b, <3>2, PartKind
      <4> QED BY <4>1, <4>2, <4>3
    <3>8. /\ t.op = CallKind(N) /\ t.op # "run" /\ ~StatementTask(t) /\ ~Stores(t)
          /\ Needs(t) = Len(Arguments(N))
      <4>1. t.op = CallKind(N) /\ t.op \in {"enter", "allocate"} /\ t.decl = functions[Callee(N).tok].decl
        BY <3>1, <3>4 DEF CallOp
      <4>2. ~StatementTask(t) /\ ~Stores(t)
        BY <4>1 DEF StatementTask, Stores
      <4>3. t.op = "enter" => Len(Arguments(N)) = Len(t.decl.params)
        BY <3>4, <4>1 DEF CallKind
      <4>4. t.op = "allocate" => Len(Arguments(N)) = 1
        BY <3>4, <4>1 DEF CallKind
      <4>5. Needs(t) = Len(Arguments(N))
        BY <4>1, <4>3, <4>4 DEF Needs
      <4> QED BY <4>1, <4>2, <4>5
    <3>9. Needs(Now) = 0 /\ Gives(Now) = 1
      BY <1>0, <3>2, CostsNow
    <3>10. PICK args : args = Arguments(N)
      OBVIOUS
    <3>11. \A E : Replaces(Append(Tasks("accept", args), t), Now, Len(vals), Len(vals), E)
      BY <1>b, <3>6, <3>7, <3>8, <3>9, <3>10, ReplacesArguments
    <3>12. PICK more : more = Append(Tasks("accept", args), t)
      OBVIOUS
    <3>13. more \in Seq(TaskType)
      <4>1. Tasks("accept", args) \in Seq(TaskType)
        BY <3>7, <3>10, TasksAreTyped DEF PlainOp
      <4> QED BY <3>6, <3>12, <4>1, AppendProperties
    <3>14. Len(vals) = Len(vals) - Needs(Now)
      BY <1>b, <3>9
    <3>15. Continue(more) /\ \A E : Replaces(more, Now, Len(vals), Len(vals), E)
      BY <3>2, <3>10, <3>11, <3>12
    <3> QED BY <1>0, <3>2, <3>13, <3>14, <3>15, ArraysKept, FunctionsKept, ValuesGoOnSame
  <2> QED BY <2>1, <2>2
<1> QED BY <1>1, <1>2, <1>3, <1>4

-----------------------------------------------------------------------------
(* The frames that come and go.                                             *)

\* A visitor sets up a frame for statements, which find what it has left.
LEMMA ValuesEnter ==
  ASSUME FramesInv, ValuesInv, Executing, Todo # <<>>,
         NEW kind \in {"block", "for", "call"}, NEW work \in Seq(TaskType),
         NEW values, NEW enclosing, EnterFrame(kind, work, values, enclosing),
         UNCHANGED <<exc, functions, arrays>>,
         NEW low, low = Len(vals) - Needs(Now), LowKept(low), Len(vals') = low,
         Gives(Now) = Result(kind), kind # "call" => StatementTask(Now),
         \A k \in 1..Len(work) :
           /\ StatementTask(work[k]) /\ Needs(work[k]) = 0
           /\ work[k].op = "run" => work[k].node.kind \in StmtKind
  PROVE  ValuesInv'
<1>1. /\ Balanced(frames, Len(vals), CheckedElements, "none") /\ frames \in Seq(FrameType) /\ frames # <<>>
      /\ Top(frames).work # <<>> /\ Now = Head(Top(frames).work) /\ low \in Nat /\ exc = "none"
  BY AtLevel, AtWork DEF Todo, Now, LowKept
<1>2. PICK next : next = frames'
  OBVIOUS
<1>3. PICK F : F = CheckedElements'
  OBVIOUS
<1>4. PICK w : w = Now
  OBVIOUS
<1>5. PICK c : c = Len(frames) + 1
  OBVIOUS
<1>6. /\ Len(next) = Len(frames) + 1
      /\ \A i \in 1..Len(frames) : next[i].kind = frames[i].kind
      /\ \A i \in 1..Len(frames) : i # Len(frames) => next[i] = frames[i]
      /\ next[Len(frames)].work = Tail(Top(frames).work)
      /\ next[c] = Frame(kind, work)
  <2>1. FramesTyped /\ env \in Nat
    <3>1. FramesTyped /\ env = Len(envs) /\ envs \in Seq(EnvType)
      BY <1>1 DEF FramesInv, Aligned, MemoryTyped, EnvsTyped
    <3> QED BY <3>1, LenProperties
  <2> QED BY <1>1, <1>2, <1>5, <2>1, OneFrameMore DEF Todo
<1>7. next[c].kind = kind /\ next[c].work = work
  BY <1>6 DEF Frame
<1>8. PICK q : q = [k \in 1..(Len(work) + 1) |-> low]
  OBVIOUS
<1>9. q[1] = low /\ Leveled(work, low, low, q) /\ \A k \in 1..Len(work) : ~Stores(work[k])
  BY <1>1, <1>8, LevelStatements
<1>10. \A h \in CheckedElements : h <= low => h \in F
  BY <1>3, ArraysKept, ElementsKept
<1>11. Balanced(next, low, F, "none")
  <2>1. /\ w = Head(Top(frames).work) /\ low = Len(vals) - Needs(w)
        /\ Gives(w) = Result(next[c].kind) /\ (next[c].kind # "call" => StatementTask(w))
    BY <1>1, <1>4, <1>7
  <2>2. FreshWork(next[c].work, low)
    BY <1>7, <1>9 DEF FreshWork
  <2>4. w = Head(Top(frames).work) /\ low = Len(vals) - Needs(w)
    BY <2>1
  <2>5. Above(frames, next, c)
    BY <1>5, <1>6 DEF Above
  <2>6. PICK n : n = Len(vals)
    OBVIOUS
  <2>7. PICK E : E = CheckedElements
    OBVIOUS
  <2>8. Balanced(frames, n, E, "none") /\ low = n - Needs(w) /\ \A h \in E : h <= low => h \in F
    BY <1>1, <1>10, <2>4, <2>6, <2>7
  <2>9. frames \in Seq(FrameType) /\ frames # <<>> /\ Top(frames).work # <<>>
    BY <1>1
  <2> QED BY <2>1, <2>2, <2>4, <2>5, <2>8, <2>9, BalancedEnters
<1>12. exc' = "none" /\ frames' # <<>>
  <2>1. Len(frames') # 0
    BY <1>1, <1>2, <1>6, LenProperties
  <2> QED BY <1>1, <2>1, EmptySeq
<1> QED BY <1>2, <1>3, <1>11, <1>12, FunctionsKept DEF ValuesInv

\* The statements of a block or of the body of a function.
LEMMA RunsStatements ==
  ASSUME NEW kids \in Seq(Node), \A i \in 1..Len(kids) : kids[i].kind \in StmtKind
  PROVE  /\ Tasks("run", kids) \in Seq(TaskType)
         /\ \A k \in 1..Len(Tasks("run", kids)) :
              /\ StatementTask(Tasks("run", kids)[k]) /\ Needs(Tasks("run", kids)[k]) = 0
              /\ Tasks("run", kids)[k].op = "run" => Tasks("run", kids)[k].node.kind \in StmtKind
<1>1. PICK work : work = Tasks("run", kids)
  OBVIOUS
<1>2. work \in Seq(TaskType)
  BY <1>1, TasksAreTyped DEF PlainOp
<1>3. DOMAIN kids = 1..Len(kids) /\ Len(kids) \in Nat
  BY LenProperties
<1>4. Len(work) = Len(kids) /\ \A k \in 1..Len(kids) : work[k] = Task("run", kids[k])
  BY <1>1, <1>3 DEF Tasks
<1>5. \A n : Task("run", n).node = n
  BY DEF Task
<1>6. ASSUME NEW k \in 1..Len(work)
      PROVE  /\ StatementTask(work[k]) /\ Needs(work[k]) = 0
             /\ work[k].op = "run" => work[k].node.kind \in StmtKind
  <2>1. work[k] = Task("run", kids[k]) /\ kids[k].kind \in StmtKind
    BY <1>4
  <2>2. \A n : StatementTask(Task("run", n)) /\ Needs(Task("run", n)) = 0
    BY TaskCosts
  <2> QED BY <1>5, <2>1, <2>2
<1> QED BY <1>1, <1>2, <1>6

LEMMA ValuesOfFrames ==
  ASSUME FramesInv, ValuesInv, VisitBlockStmt \/ VisitForStmt
  PROVE  ValuesInv'
<1> USE DEF At, Accepting
<1>1. /\ Executing /\ Todo # <<>> /\ N.kind \in {"block", "for"} /\ Now.op = "accept"
      /\ UNCHANGED <<vals, exc, functions, arrays>>
  BY DEF VisitBlockStmt, VisitForStmt
<1>2. N.kind \in StmtKind
  BY <1>1 DEF StmtKind
<1>3. Needs(Now) = 0 /\ Gives(Now) = 0 /\ StatementTask(Now)
  BY <1>1, <1>2, CostsNow
<1>4. PICK low : low = Len(vals)
  OBVIOUS
<1>5. low \in Nat /\ low = Len(vals) - Needs(Now) /\ LowKept(low) /\ Len(vals') = low
  <2>1. low \in Nat
    BY <1>4, ValueAt
  <2> QED BY <1>1, <1>3, <1>4, <2>1, LowSame
<1>6. N \in Node /\ N.kids \in Seq(Node) /\ Len(N.kids) \in Nat
  BY <1>1, AtWork, LenProperties
<1>7. CASE VisitBlockStmt
  <2>1. N.kind = "block" /\ EnterFrame("block", Tasks("run", N.kids), NoValues, env)
    BY <1>7 DEF VisitBlockStmt
  <2>2. \A i \in 1..Len(N.kids) : N.kids[i].kind \in StmtKind
    BY <1>6, <2>1, StatementParts
  <2>3. PICK work : work = Tasks("run", N.kids)
    OBVIOUS
  <2>4. /\ work \in Seq(TaskType)
        /\ \A k \in 1..Len(work) :
             /\ StatementTask(work[k]) /\ Needs(work[k]) = 0
             /\ work[k].op = "run" => work[k].node.kind \in StmtKind
    BY <1>6, <2>2, <2>3, RunsStatements
  <2>5. EnterFrame("block", work, NoValues, env)
    BY <2>1, <2>3
  <2>6. Gives(Now) = Result("block")
    BY <1>3 DEF Result
  <2> QED BY <1>1, <1>3, <1>5, <2>4, <2>5, <2>6, ValuesEnter
<1>8. CASE VisitForStmt
  <2>1. /\ N.kind = "for"
        /\ EnterFrame("for", Append(Present("accept", N, ForInit(N)), Task("loop", N)), NoValues, env)
    BY <1>8 DEF VisitForStmt
  <2>2. PICK u : u = Task("loop", N)
    OBVIOUS
  <2>3. PICK t : t = Task("accept", ForInit(N))
    OBVIOUS
  <2>4. u \in TaskType /\ u.op # "run" /\ StatementTask(u) /\ Needs(u) = 0
    <3>1. u \in TaskType
      BY <1>6, <2>1, <2>2, TaskIsTyped DEF ForOp
    <3>2. u.op = "loop"
      BY <2>2 DEF Task
    <3> QED BY <2>2, <3>1, <3>2, TaskCosts
  <2>5. ForInit(N) # Absent => t \in TaskType /\ t.op # "run" /\ StatementTask(t) /\ Needs(t) = 0
    <3> SUFFICES ASSUME ForInit(N) # Absent
                 PROVE  t \in TaskType /\ t.op # "run" /\ StatementTask(t) /\ Needs(t) = 0
      OBVIOUS
    <3>1. Len(N.kids) = 4
      BY <1>6, <2>1, ArityAssumption
    <3>2. 1 \in 1..Len(N.kids)
      BY <3>1
    <3>3. ForInit(N) \in Node /\ ForInit(N).kind \in StmtKind
      BY <1>6, <2>1, <3>2, KidType, StatementParts DEF ForInit
    <3>4. t \in TaskType /\ t.op = "accept"
      BY <2>3, <3>3, TaskIsTyped DEF PlainOp, Task
    <3> QED BY <2>3, <3>3, <3>4, TaskCosts
  <2>6. PICK work : work = Append(Present("accept", N, ForInit(N)), u)
    OBVIOUS
  <2>7. (ForInit(N) = Absent /\ work = <<u>>) \/ (ForInit(N) # Absent /\ work = <<t, u>>)
    <3>1. CASE ForInit(N) = Absent
      <4>1. work = Append(<<>>, u)
        BY <2>6, <3>1 DEF Present
      <4>2. Append(<<>>, u) = <<u>>
        OBVIOUS
      <4> QED BY <3>1, <4>1, <4>2
    <3>2. CASE ForInit(N) # Absent
      <4>1. work = Append(<<t>>, u)
        BY <2>3, <2>6, <3>2 DEF Present
      <4>2. Append(<<t>>, u) = <<t, u>>
        BY <2>4, <2>5, <3>2, OneAndOne
      <4> QED BY <3>2, <4>1, <4>2
    <3> QED BY <3>1, <3>2
  <2>8. /\ work \in Seq(TaskType)
        /\ \A k \in 1..Len(work) :
             /\ StatementTask(work[k]) /\ Needs(work[k]) = 0
             /\ work[k].op = "run" => work[k].node.kind \in StmtKind
    <3>1. CASE work = <<u>>
      BY <2>4, <3>1, ShortStatements
    <3>2. CASE ForInit(N) # Absent /\ work = <<t, u>>
      BY <2>4, <2>5, <3>2, ShortStatements
    <3> QED BY <2>7, <3>1, <3>2
  <2>9. EnterFrame("for", work, NoValues, env)
    BY <2>1, <2>2, <2>6
  <2>10. Gives(Now) = Result("for")
    BY <1>3 DEF Result
  <2> QED BY <1>1, <1>3, <1>5, <2>8, <2>9, <2>10, ValuesEnter
<1> QED BY <1>7, <1>8

LEMMA ValuesOfCalls ==
  ASSUME FramesInv, ValuesInv, CallFunction \/ CallDangling
  PROVE  ValuesInv'
<1> USE DEF At
<1> DEFINE fn == functions[Callee(N).tok]
           ps == Now.decl.params
<1>1. /\ frames # <<>> /\ Todo # <<>> /\ exc = "none" /\ Executing /\ Now.op = "enter"
      /\ Len(vals) >= Len(ps)
  BY DEF CallFunction, CallDangling, Executing
<1>2. Callee(N) \in Node /\ Callee(N).kind = "variable"
  <2>1. N \in Node /\ N.kind = "call" /\ Callee(N).kind = "variable"
    BY <1>1, AtWork DEF TaskType, N, CallOp
  <2> QED BY <1>1, <2>1, AtWork, ArityAssumption DEF Callee
<1>3. Callee(N).tok \in Name
  BY <1>2, NodeAssumption
<1>4. fn.decl \in Node /\ (fn.decl = Absent \/ fn.decl.kind = "func")
  BY <1>3 DEF FramesInv, MemoryTyped, ClosuresAlive, ValuesInv, DeclsAreFunctions
<1>5. fn.decl.kids \in Seq(Node) /\ \A i \in 1..Len(fn.decl.kids) : fn.decl.kids[i].kind \in StmtKind
  <2>1. fn.decl.kids \in Seq(Node)
    BY <1>4, NodeAssumption
  <2>2. CASE fn.decl = Absent
    <3> HIDE DEF fn
    <3>1. Absent.kids = <<>>
      BY DEF Absent, MkNode
    <3>2. PICK kids : kids = fn.decl.kids
      OBVIOUS
    <3>3. kids = <<>>
      BY <2>2, <3>1, <3>2
    <3>4. Len(kids) = 0
      BY <3>3, EmptySeq
    <3> QED BY <2>1, <3>2, <3>4
  <2>3. CASE fn.decl.kind = "func"
    BY <1>4, <2>1, <2>3, StatementParts
  <2> QED BY <1>4, <2>2, <2>3
<1>6. PICK work : work = Tasks("run", fn.decl.kids)
  OBVIOUS
<1>7. /\ work \in Seq(TaskType)
      /\ \A k \in 1..Len(work) :
           /\ StatementTask(work[k]) /\ Needs(work[k]) = 0
           /\ work[k].op = "run" => work[k].node.kind \in StmtKind
  BY <1>5, <1>6, RunsStatements
<1>8. Needs(Now) = Len(ps) /\ Gives(Now) = 1
  BY <1>1, CostsNow
<1>9. PICK low : low = Len(vals) - Needs(Now)
  OBVIOUS
<1>10. ASSUME NEW c, EnterCall(c) PROVE ValuesInv'
  <2>1. /\ EnterFrame("call", work, ArgValues(ps), c)
        /\ UNCHANGED <<exc, functions, arrays>> /\ Drop(Needs(Now))
    BY <1>6, <1>8, <1>10 DEF EnterCall
  <2>2. Needs(Now) \in Nat /\ Needs(Now) <= Len(vals)
    BY <1>1, AtLevel
  <2>3. LowKept(low) /\ Len(vals') = low
    BY <1>9, <2>1, <2>2, LowDropped
  <2>4. Gives(Now) = Result("call")
    BY <1>8 DEF Result
  <2>5. PICK values : values = ArgValues(ps)
    OBVIOUS
  <2>6. EnterFrame("call", work, values, c)
    BY <2>1, <2>5
  <2> QED BY <1>1, <1>7, <1>9, <2>1, <2>3, <2>4, <2>6, ValuesEnter
<1>11. CASE CallFunction
  BY <1>10, <1>11 DEF CallFunction
<1>12. CASE CallDangling
  <2>1. ASSUME exc' = "crash", UNCHANGED functions PROVE ValuesInv'
    BY <1>1, <2>1, ValuesThrown
  <2> QED BY <1>10, <1>12, <2>1 DEF CallDangling, storeVars
<1> QED BY <1>11, <1>12

LEMMA ValuesOfLeaving ==
  ASSUME FramesInv, ValuesInv, EndFrame \/ Unwind
  PROVE  ValuesInv'
<1>0. frames \in Seq(FrameType) /\ frames # <<>> /\ Len(frames) \in Nat \ {0} /\ frames' = Pop(frames)
      /\ Len(frames') = Len(frames) - 1 /\ arrays' = arrays /\ frames' \in Seq(FrameType)
  BY TopPop DEF FramesInv, FramesTyped, EndFrame, Unwind, Executing
<1>1. DeclsAreFunctions'
  <2>1. UNCHANGED functions \/ LeaveScope
    BY DEF EndFrame, Unwind
  <2>2. CASE UNCHANGED functions
    BY <2>2, FunctionsKept
  <2>3. CASE LeaveScope
    <3>1. ASSUME NEW x \in Name PROVE functions'[x].decl = functions[x].decl
      <4>1. functions'[x] = IF functions[x].closure = Len(envs)
                            THEN [functions[x] EXCEPT !.closure = Dangling]
                            ELSE functions[x]
        BY <2>3 DEF LeaveScope, Destroy
      <4>2. DOMAIN functions[x] = {"decl", "closure"}
        BY DEF FramesInv, MemoryTyped, ClosuresAlive
      <4> QED BY <4>1, <4>2
    <3> QED BY <3>1 DEF ValuesInv, DeclsAreFunctions
  <2> QED BY <2>1, <2>2, <2>3
<1>2. Len(vals) \in Nat /\ \A h \in CheckedElements : h <= Len(vals)
  BY ValueAt DEF CheckedElements
<1>3. PICK F : F = CheckedElements'
  OBVIOUS
<1>4. LowKept(Len(vals)) => CheckedElements \subseteq F
  BY <1>0, <1>2, <1>3, ArraysKept, ElementsKept
<1>5. CASE Len(frames) = 1
  <2>1. frames' = <<>>
    BY <1>0, <1>5, EmptySeq
  <2>2. vals' = <<>>
    <3>1. CASE EndFrame
      <4>1. UNCHANGED vals /\ exc = "none" /\ Top(frames).work = <<>>
        BY <1>5, <3>1 DEF EndFrame, Executing, Todo
      <4>2. Len(vals) = 0
        BY <1>0, <1>5, <4>1, BalancedEnds DEF ValuesInv
      <4>3. vals \in Seq(HeapValue)
        BY ValueAt
      <4> QED BY <4>1, <4>2, <4>3, EmptySeq
    <3>2. CASE Unwind
      BY <1>5, <3>2 DEF Unwind
    <3> QED BY <3>1, <3>2
  <2> QED BY <1>1, <2>1, <2>2 DEF ValuesInv
<1>6. CASE Len(frames) # 1
  <2>1. Len(frames) > 1 /\ frames' # <<>>
    <3>1. Len(frames') # 0
      BY <1>0, <1>6
    <3>2. Len(frames) > 1
      BY <1>0, <1>6
    <3> QED BY <3>1, <3>2, EmptySeq
  <2>2. PICK m : m = Len(vals')
    OBVIOUS
  <2>3. CASE EndFrame
    <3>1. exc = "none" /\ exc' = exc /\ Top(frames).work = <<>>
      BY <2>3 DEF EndFrame, Executing, Todo
    <3>2. m = Len(vals) + Result(Top(frames).kind) /\ LowKept(Len(vals))
      <4>1. CASE Top(frames).kind = "call"
        <5>1. Push(Nil)
          BY <1>6, <2>3, <4>1 DEF EndFrame
        <5> QED BY <2>2, <4>1, <5>1, NewValues, LowPushed DEF Result
      <4>2. CASE Top(frames).kind # "call"
        <5>1. UNCHANGED vals
          BY <1>6, <2>3, <4>2 DEF EndFrame
        <5> QED BY <1>2, <2>2, <4>2, <5>1, LowSame DEF Result
      <4> QED BY <4>1, <4>2
    <3>3. Balanced(frames, Len(vals), CheckedElements, "none")
      BY <1>0, <3>1 DEF ValuesInv
    <3>4. Balanced(Pop(frames), m, F, "none")
      BY <1>0, <1>4, <2>1, <3>1, <3>2, <3>3, BalancedLeaves
    <3> QED BY <1>0, <1>1, <1>3, <2>1, <2>2, <3>1, <3>4 DEF ValuesInv
  <2>4. CASE Unwind
    <3>1. /\ exc # "none" /\ UNCHANGED vals
          /\ exc' = IF exc = "return" /\ Top(frames).kind = "call" THEN "none" ELSE exc
      BY <1>6, <2>4 DEF Unwind
    <3>2. CASE exc = "return"
      <4>1. m = Len(vals) /\ LowKept(Len(vals))
        BY <1>2, <2>2, <3>1, LowSame
      <4>2. Balanced(frames, Len(vals), CheckedElements, "return")
        BY <1>0, <3>2 DEF ValuesInv
      <4>3. PICK y : y = IF Top(frames).kind # "call" THEN "return" ELSE "none"
        OBVIOUS
      <4>4. Balanced(Pop(frames), m, F, y)
        BY <1>0, <1>4, <2>1, <4>1, <4>2, <4>3, BalancedLeaves
      <4>5. exc' = y
        BY <3>1, <3>2, <4>3
      <4> QED BY <1>0, <1>1, <1>3, <2>1, <2>2, <4>4, <4>5 DEF ValuesInv
    <3>3. CASE exc # "return"
      BY <1>1, <2>1, <3>1, <3>3 DEF ValuesInv
    <3> QED BY <3>2, <3>3
  <2> QED BY <2>3, <2>4
<1> QED BY <1>5, <1>6

\* Every step of the executor.
LEMMA ExecutorStepValues ==
  ASSUME ExecutorInv, DistancesTyped, ValuesInv, ExecutorStep
  PROVE  ValuesInv'
<1>1. FramesInv
  BY StepKinds
<1> QED BY <1>1, ValuesOfExpressions, ValuesOfArrays, ValuesOfOutput, ValuesOfFor,
           ValuesOfStatements, ValuesOfFrames, ValuesOfCalls, ValuesOfLeaving DEF ExecutorStep

\* execute() begins with nothing on the stack of values.
LEMMA ExecuteBeginValues ==
  ASSUME FramesInv, exc = "none", ValuesInv, NEW stmts \in Seq(Node), ExecuteBegin(stmts),
         \A i \in 1..Len(stmts) : stmts[i].kind \in StmtKind
  PROVE  ValuesInv'
<1>1. /\ frames = <<>> /\ UNCHANGED <<vals, exc, functions>>
      /\ Len(frames') = 1 /\ frames'[1] = Frame("execute", Tasks("run", stmts))
      /\ FramesInv'
  BY ExecuteBeginInv DEF ExecuteBegin, storeVars
<1>2. PICK next : next = frames'
  OBVIOUS
<1>3. next \in Seq(FrameType) /\ Len(next) = 1
  BY <1>1, <1>2 DEF FramesInv, FramesTyped, FrameType, TaskType
<1>4. PICK work : work = Tasks("run", stmts)
  OBVIOUS
<1>5. next[1].work = work
  BY <1>1, <1>2, <1>4 DEF Frame
<1>6. \A k \in 1..Len(next[1].work) :
        /\ StatementTask(next[1].work[k]) /\ Needs(next[1].work[k]) = 0
        /\ next[1].work[k].op = "run" => next[1].work[k].node.kind \in StmtKind
  BY <1>4, <1>5, RunsStatements
<1>7. \A E : Balanced(next, 0, E, "none")
  BY <1>3, <1>6, BalancedStarts
<1>8. Len(vals') = 0
  <2>1. vals = <<>>
    BY <1>1 DEF ValuesInv
  <2> QED BY <1>1, <2>1, EmptySeq
<1>9. frames' # <<>>
  <2>1. frames' = <<>> => Len(frames') = 0
    OBVIOUS
  <2> QED BY <1>1, <2>1
<1>10. exc' = "none"
  BY <1>1
<1> QED BY <1>1, <1>2, <1>7, <1>8, <1>9, <1>10, FunctionsKept DEF ValuesInv

LEMMA ExecutorInitValues == ExecutorInit => ValuesInv
BY DEF ExecutorInit, ValuesInv, DeclsAreFunctions, NoFunction

-----------------------------------------------------------------------------
(* What a step does to the work that is left and to functions_.             *)

\* In its frame: more of the same statement in the place of its first piece of work.
LEMMA ProceedsFrames ==
  ASSUME FramesInv, Proceeds
  PROVE  /\ Len(frames) \in Nat \ {0} /\ Len(frames') = Len(frames)
         /\ \A i \in 1..Len(frames) : frames'[i].kind = frames[i].kind
         /\ \A i \in 1..Len(frames) : i # Len(frames) => frames'[i] = frames[i]
         /\ \/ frames'[Len(frames)].work = Todo
            \/ \E more \in Seq(Onward) : Steady(more) /\ frames'[Len(frames)].work = more \o Tail(Todo)
<1>1. FramesTyped /\ frames # <<>> /\ Todo # <<>>
  BY DEF FramesInv, Proceeds
<1>2. Len(frames) \in Nat \ {0}
  BY <1>1, WorkAtHand
<1>3. CASE frames' = frames
  BY <1>2, <1>3 DEF Todo, Top
<1>4. ASSUME NEW more, Resumes(more)
      PROVE  /\ Len(frames') = Len(frames)
             /\ \A i \in 1..Len(frames) : frames'[i].kind = frames[i].kind
             /\ \A i \in 1..Len(frames) : i # Len(frames) => frames'[i] = frames[i]
             /\ more \in Seq(Onward) /\ Steady(more)
             /\ frames'[Len(frames)].work = more \o Tail(Todo)
  <2>1. more \in Seq(Onward) /\ Steady(more) /\ Continue(more)
    BY <1>4 DEF Resumes
  <2>2. more \in Seq(TaskType)
    <3>1. Onward \subseteq TaskType
      BY DEF Onward
    <3> QED BY <2>1, <3>1, SeqMonotonic
  <2> QED BY <1>1, <2>1, <2>2, Resumed
<1>5. CASE Continue(<<>>)
  <2>1. <<>> \in Seq(Onward) /\ Steady(<<>>)
    BY EmptySeq DEF Steady
  <2> QED BY <1>2, <1>4, <1>5, <2>1 DEF Resumes
<1> QED BY <1>2, <1>3, <1>4, <1>5 DEF Proceeds

\* With a new frame on top.
LEMMA EntersFrames ==
  ASSUME FramesInv, Enters
  PROVE  /\ Len(frames) \in Nat \ {0} /\ Len(frames') = Len(frames) + 1
         /\ \A i \in 1..Len(frames) : frames'[i].kind = frames[i].kind
         /\ \A i \in 1..Len(frames) : i # Len(frames) => frames'[i] = frames[i]
         /\ frames'[Len(frames)].work = Tail(Todo)
         /\ frames'[Len(frames) + 1].kind \in {"block", "for", "call"}
         /\ frames'[Len(frames) + 1].work \in Seq(TaskType)
         /\ Opens(frames'[Len(frames) + 1].kind, frames'[Len(frames) + 1].work)
<1>1. FramesTyped /\ frames # <<>> /\ Todo # <<>> /\ env \in Nat
  BY WorkAtHand DEF FramesInv, Enters, Aligned
<1>2. PICK kind \in {"block", "for", "call"}, work \in Seq(TaskType),
           values \in [Name -> Held1], enclosing \in 1..Len(envs) :
             EnterFrame(kind, work, values, enclosing) /\ Opens(kind, work)
  BY DEF Enters
<1>3. /\ Len(frames') = Len(frames) + 1
      /\ \A i \in 1..Len(frames) : frames'[i].kind = frames[i].kind
      /\ \A i \in 1..Len(frames) : i # Len(frames) => frames'[i] = frames[i]
      /\ frames'[Len(frames)].work = Tail(Todo)
      /\ frames'[Len(frames) + 1] = Frame(kind, work)
  BY <1>1, <1>2, OneFrameMore
<1>4. Len(frames) \in Nat \ {0}
  BY <1>1, WorkAtHand
<1> QED BY <1>2, <1>3, <1>4 DEF Frame

\* Out of a frame.
LEMMA LeavesFrames ==
  ASSUME FramesInv, Leaves
  PROVE  /\ Len(frames) \in Nat \ {0} /\ Len(frames') = Len(frames) - 1
         /\ \A i \in 1..(Len(frames) - 1) : frames'[i] = frames[i]
<1>1. frames \in Seq(FrameType) /\ frames # <<>> /\ frames' = Pop(frames)
  BY DEF FramesInv, FramesTyped, Leaves
<1> QED BY <1>1, TopPop

\* The work at hand is in the frame at the top.
LEMMA WorkOnTop ==
  ASSUME FramesInv, frames # <<>>, Todo # <<>>
  PROVE  /\ Len(frames) \in Nat \ {0} /\ Todo = frames[Len(frames)].work
         /\ Todo \in Seq(TaskType) /\ Len(Todo) \in Nat \ {0} /\ DOMAIN Todo = 1..Len(Todo)
         /\ Now = Todo[1] /\ N = Todo[1].node /\ 1 \in DOMAIN Todo /\ N \in Node /\ Now \in TaskType
<1>1. FramesTyped
  BY DEF FramesInv
<1>2. Todo \in Seq(TaskType) /\ Len(frames) \in Nat \ {0} /\ N \in Node /\ Now \in TaskType
  BY <1>1, WorkAtHand
<1>3. Len(Todo) \in Nat /\ DOMAIN Todo = 1..Len(Todo) /\ Len(Todo) # 0 /\ Now = Todo[1]
  BY <1>2, LenProperties, EmptySeq, HeadTailProperties DEF Now
<1>4. 1 \in 1..Len(Todo)
  BY <1>3
<1> QED BY <1>2, <1>3, <1>4 DEF Todo, Top, N

\* "Ok" says for every frame which tasks it may have left.  A step keeps that if what it
\* goes on with, or what a new frame starts with, is right.
FramesIn(stack, Ok) ==
  \A i \in 1..Len(stack) : \A k \in DOMAIN stack[i].work : stack[i].work[k] \in Ok[i]

LEMMA StepTasks ==
  ASSUME ExecutorInv, DistancesTyped, ExecutorStep, NEW Ok, FramesIn(frames, Ok),
         Proceeds => Onward \subseteq Ok[Len(frames)],
         Enters => \A k \in DOMAIN frames'[Len(frames) + 1].work :
                     frames'[Len(frames) + 1].work[k] \in Ok[Len(frames) + 1]
  PROVE  FramesIn(frames', Ok)
<1> DEFINE L == Len(frames)
<1>1. FramesInv
  BY StepKinds
<1>2. ASSUME frames # <<>>, Todo # <<>>, NEW more \in Seq(TaskType), NEW k \in DOMAIN (more \o Tail(Todo)),
             \A i \in DOMAIN more : more[i] \in Ok[L]
      PROVE  (more \o Tail(Todo))[k] \in Ok[L]
  <2> DEFINE new == more \o Tail(Todo)
  <2>1. /\ Todo = frames[L].work /\ Todo \in Seq(TaskType) /\ DOMAIN Todo = 1..Len(Todo)
        /\ L \in Nat \ {0} /\ Len(Todo) \in Nat
    BY <1>1, <1>2, WorkOnTop
  <2>2. \A m \in DOMAIN Todo : Todo[m] \in Ok[L]
    <3>1. L \in 1..L
      BY <2>1
    <3> QED BY <2>1, <3>1 DEF FramesIn
  <2>3. /\ DOMAIN more = 1..Len(more)
        /\ \A i \in 1..Len(more) : new[i] = more[i]
        /\ \A i \in DOMAIN new : i \notin 1..Len(more) =>
             i - Len(more) + 1 \in 2..Len(Todo) /\ new[i] = Todo[i - Len(more) + 1]
    BY SMTT(60), <1>2, <2>1, WorkAfter
  <2> HIDE DEF new
  <2>4. CASE k \in 1..Len(more)
    BY <1>2, <2>3, <2>4 DEF new
  <2>5. CASE k \notin 1..Len(more)
    <3>1. k - Len(more) + 1 \in 2..Len(Todo) /\ new[k] = Todo[k - Len(more) + 1]
      BY <1>2, <2>3, <2>5 DEF new
    <3>2. 2..Len(Todo) \subseteq DOMAIN Todo
      BY <2>1
    <3> QED BY <2>2, <3>1, <3>2 DEF new
  <2> QED BY <2>4, <2>5
<1>3. CASE Proceeds
  <2> SUFFICES ASSUME NEW i \in 1..Len(frames'), NEW k \in DOMAIN frames'[i].work
               PROVE  frames'[i].work[k] \in Ok[i]
    BY DEF FramesIn
  <2>1. /\ L \in Nat \ {0} /\ Len(frames') = L
        /\ \A j \in 1..L : j # L => frames'[j] = frames[j]
        /\ \/ frames'[L].work = Todo
           \/ \E more \in Seq(Onward) : Steady(more) /\ frames'[L].work = more \o Tail(Todo)
        /\ frames # <<>> /\ Todo # <<>>
    BY <1>1, <1>3, ProceedsFrames DEF Proceeds
  <2>2. CASE i # L
    BY <2>1, <2>2 DEF FramesIn
  <2>3. CASE i = L /\ frames'[L].work = Todo
    BY <1>1, <2>1, <2>3, WorkOnTop DEF FramesIn
  <2>4. CASE i = L /\ \E more \in Seq(Onward) : Steady(more) /\ frames'[L].work = more \o Tail(Todo)
    <3>1. PICK more \in Seq(Onward) : frames'[L].work = more \o Tail(Todo)
      BY <2>4
    <3>2. more \in Seq(TaskType) /\ \A j \in DOMAIN more : more[j] \in Ok[L]
      <4>1. Onward \subseteq TaskType /\ Onward \subseteq Ok[L]
        BY <1>3 DEF Onward
      <4>2. more \in Seq(TaskType) /\ \A j \in DOMAIN more : more[j] \in Onward
        BY <3>1, <4>1, SeqMonotonic, LenProperties, ElementOfSeq
      <4> QED BY <4>1, <4>2
    <3>3. k \in DOMAIN (more \o Tail(Todo)) /\ frames'[i].work[k] = (more \o Tail(Todo))[k]
      BY <2>4, <3>1
    <3>4. (more \o Tail(Todo))[k] \in Ok[L]
      BY <1>2, <2>1, <3>2, <3>3
    <3> QED BY <2>4, <3>3, <3>4
  <2> QED BY <2>1, <2>2, <2>3, <2>4
<1>4. CASE Enters
  <2> SUFFICES ASSUME NEW i \in 1..Len(frames'), NEW k \in DOMAIN frames'[i].work
               PROVE  frames'[i].work[k] \in Ok[i]
    BY DEF FramesIn
  <2>1. /\ L \in Nat \ {0} /\ Len(frames') = L + 1
        /\ \A j \in 1..L : j # L => frames'[j] = frames[j]
        /\ frames'[L].work = Tail(Todo)
        /\ frames # <<>> /\ Todo # <<>>
    BY <1>1, <1>4, EntersFrames DEF Enters
  <2>2. i \in 1..L \/ i = L + 1
    BY <2>1
  <2>3. CASE i \in 1..L /\ i # L
    BY <2>1, <2>3 DEF FramesIn
  <2>4. CASE i = L
    <3>1. Todo \in Seq(TaskType)
      BY <1>1, <2>1, WorkOnTop
    <3>2. Tail(Todo) \in Seq(TaskType) /\ <<>> \in Seq(TaskType)
      BY <2>1, <3>1, HeadTailProperties, EmptySeq
    <3>3. <<>> \o Tail(Todo) = Tail(Todo)
      BY <3>2, ConcatEmptySeq
    <3>4. k \in DOMAIN (<<>> \o Tail(Todo)) /\ frames'[i].work[k] = (<<>> \o Tail(Todo))[k]
      BY <2>1, <2>4, <3>3
    <3>5. (<<>> \o Tail(Todo))[k] \in Ok[L]
      <4>1. \A j \in DOMAIN << >> : <<>>[j] \in Ok[L]
        OBVIOUS
      <4> QED BY <1>2, <2>1, <3>2, <3>4, <4>1
    <3> QED BY <2>4, <3>4, <3>5
  <2>5. CASE i = L + 1
    BY <1>4, <2>5
  <2> QED BY <2>2, <2>3, <2>4, <2>5
<1>5. CASE Leaves
  <2>1. /\ L \in Nat \ {0} /\ Len(frames') = L - 1
        /\ \A j \in 1..(L - 1) : frames'[j] = frames[j]
    BY <1>1, <1>5, LeavesFrames
  <2>2. \A i \in 1..(L - 1) : i \in 1..L
    BY <2>1
  <2> QED BY <2>1, <2>2 DEF FramesIn
<1>6. CASE Crashes
  <2>1. Len(frames') = 0
    BY <1>6, EmptySeq DEF Crashes
  <2> QED BY <2>1 DEF FramesIn
<1> QED BY <1>3, <1>4, <1>5, <1>6, StepKinds

\* A function is declared anew, loses its closure, or stays what it is.
LEMMA FunctionsAfter ==
  ASSUME ExecutorInv, DistancesTyped, ExecutorStep, NEW x \in Name
  PROVE  \/ functions'[x] = functions[x]
         \/ /\ Leaves /\ functions[x].closure = Len(envs) /\ Len(envs) # 0
            /\ functions'[x] = [decl |-> functions[x].decl, closure |-> Dangling]
         \/ /\ Proceeds /\ Continue(<<>>) /\ N.kind = "func" /\ N.tok = x
            /\ functions'[x] = [decl |-> N, closure |-> env]
<1>1. FramesInv /\ functions \in [Name -> [decl : Node, closure : 0..Len(envs)]]
  BY StepKinds DEF FramesInv, MemoryTyped, ClosuresAlive
<1>2. CASE Proceeds
  <2>1. CASE Continue(<<>>) /\ Declares
    BY <1>1, <1>2, <2>1 DEF Declares
  <2> QED BY <1>2, <2>1 DEF Proceeds
<1>3. CASE Leaves
  <2>1. CASE Len(frames) # 1
    <3>1. functions'[x] = IF functions[x].closure = Len(envs)
                          THEN [functions[x] EXCEPT !.closure = Dangling] ELSE functions[x]
      BY <1>3, <2>1 DEF Leaves, LeaveScope, Destroy
    <3>2. [functions[x] EXCEPT !.closure = Dangling] = [decl |-> functions[x].decl, closure |-> Dangling]
      BY <1>1
    <3>3. Len(envs) # 0
      BY <1>1, <1>3, WorkAtHand DEF Leaves, FramesInv, Aligned
    <3> QED BY <1>3, <3>1, <3>2, <3>3
  <2> QED BY <1>3, <2>1 DEF Leaves
<1>4. CASE Enters \/ Crashes
  BY <1>4 DEF Enters, Crashes
<1> QED BY <1>2, <1>3, <1>4, StepKinds

-----------------------------------------------------------------------------
(* A call enters the function its arguments were counted for.               *)

\* Before the entry into a function its frame has expressions to evaluate only.
CallsLast(work) ==
  \A k \in DOMAIN work : work[k].op = "enter" => \A j \in 1..(k - 1) : work[j].node \in ExprNodes

LEMMA LastNext ==
  ASSUME NEW work \in Seq(TaskType), work # <<>>, NEW more \in Seq(TaskType),
         NEW new, new = more \o Tail(work), CallsLast(work), CallsLast(more),
         work[1].node \in ExprNodes => \A i \in DOMAIN more : more[i].node \in ExprNodes
  PROVE  CallsLast(new)
<1> DEFINE m == Len(more)
<1>1. /\ Len(work) \in Nat \ {0} /\ DOMAIN work = 1..Len(work)
      /\ m \in Nat /\ DOMAIN more = 1..m
      /\ DOMAIN new = 1..(m + Len(work) - 1)
      /\ \A k \in 1..m : new[k] = more[k]
      /\ \A k \in DOMAIN new : k \notin 1..m => k - m + 1 \in 2..Len(work) /\ new[k] = work[k - m + 1]
  BY WorkAfter
<1> SUFFICES ASSUME NEW k \in DOMAIN new, new[k].op = "enter", NEW j \in 1..(k - 1)
             PROVE  new[j].node \in ExprNodes
  BY DEF CallsLast
<1>2. k \in Int /\ j \in Int /\ j \in DOMAIN new
  BY <1>1
<1>3. CASE k \in 1..m
  <2>1. j \in 1..m
    BY <1>1, <1>2, <1>3
  <2> QED BY <1>1, <1>3, <2>1 DEF CallsLast
<1>4. CASE k \notin 1..m
  <2>1. k - m + 1 \in DOMAIN work /\ work[k - m + 1].op = "enter" /\ k - m + 1 \in 2..Len(work)
    BY <1>1, <1>4
  <2>2. \A i \in 1..(k - m) : work[i].node \in ExprNodes
    BY <1>1, <1>2, <2>1 DEF CallsLast
  <2>3. CASE j \in 1..m
    <3>1. 1 \in 1..(k - m)
      BY <1>1, <1>2, <2>1
    <3> QED BY <1>1, <2>2, <2>3, <3>1
  <2>4. CASE j \notin 1..m
    <3>1. j - m + 1 \in 1..(k - m) /\ new[j] = work[j - m + 1]
      BY <1>1, <1>2, <2>1, <2>4
    <3> QED BY <2>2, <3>1
  <2> QED BY <2>3, <2>4
<1> QED BY <1>3, <1>4

\* A call that is pending is of a function with a name.
LEMMA CalleeIsNamed ==
  ASSUME NEW t \in TaskType, t.op \in CallOp
  PROVE  Callee(t.node).tok \in Name
<1>1. t.node \in Node /\ t.node.kind = "call" /\ Callee(t.node).kind = "variable"
  BY DEF TaskType
<1>2. Len(t.node.kids) >= 1 /\ t.node.kids \in Seq(Node)
  BY <1>1, ArityAssumption, NodeAssumption
<1>3. 1 \in 1..Len(t.node.kids)
  BY <1>2, LenProperties
<1>4. Callee(t.node) \in Node
  BY <1>2, <1>3, ElementOfSeq DEF Callee
<1> QED BY <1>1, <1>4, NodeAssumption

Ordered == \A i \in 1..Len(frames) : CallsLast(frames[i].work)

LEMMA OrderedStep ==
  ASSUME ExecutorInv, DistancesTyped, ExecutorStep, Ordered
  PROVE  Ordered'
<1> DEFINE L == Len(frames)
<1>1. FramesInv /\ L \in Nat
  BY StepKinds, LenProperties DEF FramesInv, FramesTyped
<1>2. ASSUME frames # <<>>, Todo # <<>>
      PROVE  /\ L \in 1..L /\ Todo = frames[L].work /\ Todo \in Seq(TaskType) /\ N = Todo[1].node
             /\ CallsLast(Todo) /\ N \in Node
    BY <1>1, <1>2, WorkOnTop DEF Ordered
<1>3. N \in ExprNodes => Kids(N) \subseteq ExprNodes
  BY KidsOfExpressions DEF ExprNodes
<1>4. CallsLast(<<>>)
  BY DEF CallsLast
<1>5. CASE Proceeds
  <2>1. /\ L \in Nat \ {0} /\ Len(frames') = L
        /\ \A j \in 1..L : j # L => frames'[j] = frames[j]
        /\ frames # <<>> /\ Todo # <<>>
        /\ \/ frames'[L].work = Todo
           \/ \E more \in Seq(Onward) : Steady(more) /\ frames'[L].work = more \o Tail(Todo)
    BY <1>1, <1>5, ProceedsFrames DEF Proceeds
  <2>2. ASSUME NEW more \in Seq(Onward), Steady(more)
        PROVE  CallsLast(more \o Tail(Todo))
    <3>1. Onward \subseteq TaskType
      BY DEF Onward
    <3>2. more \in Seq(TaskType) /\ DOMAIN more = 1..Len(more) /\ Len(more) \in Nat
          /\ \A i \in DOMAIN more : more[i] \in Onward
      BY <2>2, <3>1, SeqMonotonic, LenProperties, ElementOfSeq
    <3>3. N \in ExprNodes => \A i \in DOMAIN more : more[i].node \in ExprNodes
      BY <1>3, <3>2 DEF Onward
    <3>4. CallsLast(more)
      <4> SUFFICES ASSUME NEW k \in DOMAIN more, more[k].op = "enter", NEW j \in 1..(k - 1)
                   PROVE  more[j].node \in ExprNodes
        BY DEF CallsLast
      <4>1. N.kind = "call"
        BY <2>2 DEF Steady
      <4>2. N \in ExprNodes
        BY <1>2, <2>1, <4>1 DEF ExprNodes, ExprKind
      <4>3. j \in DOMAIN more
        BY <3>2
      <4> QED BY <3>3, <4>2, <4>3
    <3> QED BY <1>2, <2>1, <3>2, <3>3, <3>4, LastNext
  <2>3. CallsLast(frames'[L].work)
    BY <1>2, <2>1, <2>2
  <2> QED BY <2>1, <2>3 DEF Ordered
<1>6. CASE Enters
  <2>1. /\ L \in Nat \ {0} /\ Len(frames') = L + 1
        /\ \A j \in 1..L : j # L => frames'[j] = frames[j]
        /\ frames'[L].work = Tail(Todo)
        /\ frames # <<>> /\ Todo # <<>>
        /\ Opens(frames'[L + 1].kind, frames'[L + 1].work)
    BY <1>1, <1>6, EntersFrames DEF Enters
  <2>2. CallsLast(frames'[L].work)
    <3>1. <<>> \in Seq(TaskType) /\ Tail(Todo) \in Seq(TaskType)
      BY <1>2, <2>1, EmptySeq, HeadTailProperties
    <3>2. frames'[L].work = <<>> \o Tail(Todo)
      BY <2>1, <3>1, ConcatEmptySeq
    <3>3. \A i \in DOMAIN << >> : <<>>[i].node \in ExprNodes
      OBVIOUS
    <3> QED BY <1>2, <1>4, <2>1, <3>1, <3>2, <3>3, LastNext
  <2>3. CallsLast(frames'[L + 1].work)
    BY <2>1 DEF Opens, CallsLast
  <2>4. \A i \in 1..(L + 1) : i = L + 1 \/ i = L \/ (i \in 1..L /\ i # L)
    BY <2>1
  <2> QED BY <2>1, <2>2, <2>3, <2>4 DEF Ordered
<1>7. CASE Leaves
  <2>1. Len(frames') = L - 1 /\ \A j \in 1..(L - 1) : frames'[j] = frames[j] /\ j \in 1..L
    BY <1>1, <1>7, LeavesFrames
  <2> QED BY <2>1 DEF Ordered
<1>8. CASE Crashes
  BY SMTT(60), <1>8, EmptySeq DEF Crashes, Ordered
<1> QED BY <1>5, <1>6, <1>7, <1>8, StepKinds

\* The declaration a pending call has counted arguments for is that of its function -
\* unless an inner frame has declared it anew.
Counted(t, i) ==
  t.op = "enter" =>
    \/ functions[Callee(t.node).tok].decl = t.decl
    \/ functions[Callee(t.node).tok].closure = Dangling
    \/ functions[Callee(t.node).tok].closure > i
CallsCounted ==
  /\ Ordered
  /\ \A i \in 1..Len(frames) : \A k \in DOMAIN frames[i].work : Counted(frames[i].work[k], i)

LEMMA CountedStep ==
  ASSUME ExecutorInv, DistancesTyped, ExecutorStep, CallsCounted
  PROVE  CallsCounted'
<1> DEFINE L == Len(frames)
           ok(i) == {t \in TaskType : Counted(t, i)}
           Ok == [i \in 1..(L + 1) |-> ok(i)]
<1>1. FramesInv /\ L \in Nat
  BY StepKinds, LenProperties DEF FramesInv, FramesTyped
<1>2. \A i \in 1..(L + 1) : Ok[i] = ok(i)
  OBVIOUS
<1>3. (\A i \in 1..L : i \in 1..(L + 1)) /\ L + 1 \in 1..(L + 1)
  BY <1>1
<1> HIDE DEF Ok
<1>4. FramesIn(frames, Ok)
  <2> SUFFICES ASSUME NEW i \in 1..L, NEW k \in DOMAIN frames[i].work PROVE frames[i].work[k] \in Ok[i]
    BY DEF FramesIn
  <2>1. frames[i] \in FrameType
    BY <1>1, ElementOfSeq DEF FramesInv, FramesTyped
  <2>2. frames[i].work \in Seq(TaskType)
    BY <2>1 DEF FrameType
  <2>3. frames[i].work[k] \in TaskType
    BY <2>2, LenProperties, ElementOfSeq
  <2> QED BY <1>2, <1>3, <2>3 DEF CallsCounted
<1>5. Proceeds => Onward \subseteq Ok[L]
  <2> SUFFICES ASSUME Proceeds, NEW t \in Onward PROVE t \in Ok[L]
    OBVIOUS
  <2>1. L \in 1..L
    BY <1>1, WorkOnTop DEF Proceeds
  <2>2. Counted(t, L)
    BY DEF Onward, Counted
  <2> QED BY <1>2, <1>3, <2>1, <2>2 DEF Onward
<1>6. Enters => \A k \in DOMAIN frames'[L + 1].work : frames'[L + 1].work[k] \in Ok[L + 1]
  <2> SUFFICES ASSUME Enters, NEW k \in DOMAIN frames'[L + 1].work
               PROVE  frames'[L + 1].work[k] \in Ok[L + 1]
    OBVIOUS
  <2>1. frames'[L + 1].work \in Seq(TaskType) /\ Opens(frames'[L + 1].kind, frames'[L + 1].work)
    BY <1>1, EntersFrames
  <2>2. frames'[L + 1].work[k] \in TaskType
    BY <2>1, LenProperties, ElementOfSeq
  <2>3. Counted(frames'[L + 1].work[k], L + 1)
    BY <2>1 DEF Opens, Counted
  <2> QED BY <1>2, <1>3, <2>2, <2>3
<1>7. FramesIn(frames', Ok)
  BY <1>4, <1>5, <1>6, StepTasks
<1>8. \A i \in 1..Len(frames') : i \in 1..(L + 1)
  <2>1. CASE Proceeds
    BY <1>1, <2>1, ProceedsFrames
  <2>2. CASE Enters
    BY <1>1, <2>2, EntersFrames
  <2>3. CASE Leaves
    BY <1>1, <2>3, LeavesFrames
  <2>4. CASE Crashes
    BY SMTT(60), <2>4, EmptySeq DEF Crashes
  <2> QED BY <2>1, <2>2, <2>3, <2>4, StepKinds
<1>9. ASSUME NEW i \in 1..Len(frames'), NEW k \in DOMAIN frames'[i].work, frames'[i].work[k].op = "enter"
      PROVE  \/ functions'[Callee(frames'[i].work[k].node).tok].decl = frames'[i].work[k].decl
             \/ functions'[Callee(frames'[i].work[k].node).tok].closure = Dangling
             \/ functions'[Callee(frames'[i].work[k].node).tok].closure > i
  <2> DEFINE t == frames'[i].work[k]
             x == Callee(t.node).tok
  <2>1. t \in TaskType /\ Counted(t, i)
    BY <1>2, <1>7, <1>8 DEF FramesIn
  <2>2. x \in Name
    BY SMTT(60), <1>9, <2>1, CalleeIsNamed DEF CallOp
  <2>3. CASE functions'[x] = functions[x]
    BY <1>9, <2>1, <2>3 DEF Counted
  <2>4. CASE /\ functions[x].closure = Len(envs)
             /\ functions'[x] = [decl |-> functions[x].decl, closure |-> Dangling]
    BY SMTT(60), <2>4
  <2>5. CASE Proceeds /\ Continue(<<>>) /\ N.kind = "func" /\ functions'[x] = [decl |-> N, closure |-> env]
    <3>1. /\ L \in Nat \ {0} /\ Len(frames') = L /\ frames # <<>> /\ Todo # <<>> /\ env = L
      BY <1>1, <2>5, ProceedsFrames DEF Proceeds, FramesInv, Aligned
    <3>2. CASE i # L
      <4>1. L > i
        BY <3>1, <3>2
      <4> QED BY <2>5, <3>1, <4>1
    <3>3. CASE i = L
      <4>1. Todo \in Seq(TaskType) /\ Todo = frames[L].work /\ N = Todo[1].node /\ N \in Node
            /\ FramesTyped /\ <<>> \in Seq(TaskType)
        BY <1>1, <3>1, WorkOnTop, EmptySeq DEF FramesInv
      <4>2. frames'[L].work = <<>> \o Tail(Todo)
        BY <2>5, <3>1, <4>1, Resumed
      <4>3. k - Len(<<>>) + 1 \in 2..Len(Todo) /\ t = Todo[k - Len(<<>>) + 1]
            /\ DOMAIN Todo = 1..Len(Todo) /\ Len(Todo) \in Nat
        <5>1. k \notin 1..Len(<<>>)
          BY EmptySeq
        <5> QED BY <3>1, <3>3, <4>1, <4>2, <5>1, WorkAfter
      <4>4. \E m \in 2..Len(Todo) : m \in DOMAIN Todo /\ Todo[m].op = "enter" /\ 1 \in 1..(m - 1)
        BY <1>9, <4>3
      <4>5. CallsLast(Todo)
        <5>1. L \in 1..L
          BY <3>1
        <5> QED BY <4>1, <5>1 DEF CallsCounted, Ordered
      <4>6. N \in ExprNodes
        BY <4>1, <4>4, <4>5 DEF CallsLast
      <4>7. N.kind # "func"
        <5>1. Absent.kind = "absent" /\ "func" \notin ExprKind
          BY DEF Absent, MkNode, ExprKind
        <5> QED BY <4>6, <5>1 DEF ExprNodes
      <4> QED BY <2>5, <4>7
    <3> QED BY <3>2, <3>3
  <2>6. \/ functions'[x] = functions[x]
        \/ /\ functions[x].closure = Len(envs)
           /\ functions'[x] = [decl |-> functions[x].decl, closure |-> Dangling]
        \/ Proceeds /\ Continue(<<>>) /\ N.kind = "func" /\ functions'[x] = [decl |-> N, closure |-> env]
    <3> HIDE DEF x
    <3> QED BY <2>2, FunctionsAfter
  <2> QED BY ZenonT(60), <2>3, <2>4, <2>5, <2>6
<1>10. Ordered'
  BY OrderedStep DEF CallsCounted
<1> QED BY <1>9, <1>10 DEF CallsCounted, Counted
=============================================================================
