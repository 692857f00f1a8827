-------------------------- MODULE OptimizedProofs ---------------------------
(***************************************************************************)
(* The distances of the binding pass, for all programs.  Resolver counts   *)
(* scopes while it walks the text, the executor counts environments while  *)
(* the program runs; that the two numbers are about the same thing is what *)
(* is proved here.  Two invariants meet in the text: whatever is left of   *)
(* the pass, or of a run, stands somewhere in it, in as many scopes as     *)
(* there are on scopes_ and in the scopes that the environments are for.   *)
(***************************************************************************)
EXTENDS Optimized, ExecutorProofs

PlacedAt(n, scopes) == Place(n, scopes) \in Placed[program]

\* What may stand around the parts of a node that opens a scope.
NewScope(n, names) ==
  names \in SUBSET Name /\ \A i \in DOMAIN n.params : n.params[i] \in names

LEMMA PlacedType ==
  ASSUME program \in Sources, NEW n, NEW scopes, PlacedAt(n, scopes)
  PROVE  n \in Node /\ scopes \in Seq(SUBSET Name)
<1>1. Place(n, scopes) \in [node : Node, scopes : Seq(SUBSET Name)]
  BY PlacedAssumption DEF PlacedAt
<1> QED BY <1>1 DEF Place

\* A part of a node stands in the scopes of the node, and in one more if that opens one.
LEMMA PlainKids ==
  ASSUME program \in Sources, NEW n, NEW scopes, PlacedAt(n, scopes),
         n.kind \notin {"block", "for", "func"}
  PROVE  \A m \in Kids(n) : PlacedAt(m, scopes)
<1> DEFINE s == Place(n, scopes)
<1>1. s \in Placed[program] /\ s.node = n /\ s.scopes = scopes
  BY DEF PlacedAt, Place
<1> HIDE DEF s
<1>2. PICK inner \in Inside(s) : \A i \in DOMAIN s.node.kids : Place(s.node.kids[i], inner) \in Placed[program]
  BY <1>1, PlacedAssumption
<1>3. inner = scopes
  BY <1>1 DEF Inside
<1> QED BY <1>1, <1>2, <1>3 DEF PlacedAt, Kids

LEMMA ScopeKids ==
  ASSUME program \in Sources, NEW n, NEW scopes, PlacedAt(n, scopes),
         n.kind \in {"block", "for", "func"}
  PROVE  \E names : NewScope(n, names) /\ \A m \in Kids(n) : PlacedAt(m, <<names>> \o scopes)
<1> DEFINE s == Place(n, scopes)
<1>1. s \in Placed[program] /\ s.node = n /\ s.scopes = scopes
  BY DEF PlacedAt, Place
<1> HIDE DEF s
<1>2. PICK inner \in Inside(s) : \A i \in DOMAIN s.node.kids : Place(s.node.kids[i], inner) \in Placed[program]
  BY <1>1, PlacedAssumption
<1>3. PICK names : NewScope(n, names) /\ inner = <<names>> \o scopes
  BY <1>1 DEF Inside, NewScope
<1> QED BY <1>1, <1>2, <1>3 DEF PlacedAt, Kids

\* A declaration stands in a scope that has its name, or in none.
LEMMA DeclaredThere ==
  ASSUME program \in Sources, NEW n, NEW scopes, PlacedAt(n, scopes), n.kind = "var", scopes # <<>>
  PROVE  n.tok \in scopes[1]
<1>1. Place(n, scopes).node = n /\ Place(n, scopes).scopes = scopes
  BY DEF Place
<1> QED BY <1>1, PlacedAssumption DEF PlacedAt

\* A program and what the folding pass makes of it stand in no scope.
LEMMA ProgramPlaced ==
  ASSUME program \in Sources, NEW tree, tree \in {program, Fold(program)}
  PROVE  tree \in Seq(Node) /\ \A i \in DOMAIN tree : PlacedAt(tree[i], <<>>)
BY PlacedAssumption DEF PlacedAt

-----------------------------------------------------------------------------
(* The binding pass.                                                        *)

\* What is left to be visited stands in as many scopes as are open.
BindPlaced ==
  \A i \in 1..Len(binding) : \A k \in DOMAIN binding[i].work :
    \E scopes : PlacedAt(binding[i].work[k].node, scopes) /\ Len(scopes) = i - 1

\* The distance of a use is less than the number of scopes around it; that of a name
\* bound in time passes no scope that declares the name.
Resolved ==
  \A n, scopes : PlacedAt(n, scopes) /\ n.kind \in {"variable", "assign"} =>
    /\ DistanceOf(n) < Len(scopes) /\ DistanceOf(n) \in Nat \cup {-1}
    /\ Site(n) \in timely =>
         \A i \in 1..Len(scopes) : DistanceOf(n) = -1 \/ i <= DistanceOf(n) => n.tok \notin scopes[i]

\* computeDistance counts the scopes it has passed.
LEMMA DistancePassed ==
  ASSUME BindingTypeOK, NEW x
  PROVE  /\ ComputeDistance(x) = -1 \/ ComputeDistance(x) \in Nat
         /\ ComputeDistance(x) = -1 => Passed(x) = Len(bindScopes)
         /\ ComputeDistance(x) # -1 => Passed(x) = ComputeDistance(x) /\ Passed(x) < Len(bindScopes)
<1> DEFINE c == CHOOSE i \in BindHolders(x) : \A j \in BindHolders(x) : j <= i
<1>1. Len(bindScopes) \in Nat
  BY LenProperties DEF BindingTypeOK
<1>2. CASE BindHolders(x) = {}
  BY <1>1, <1>2 DEF ComputeDistance, Passed
<1>3. CASE BindHolders(x) # {}
  <2>1. ComputeDistance(x) = Len(bindScopes) - c /\ Passed(x) = Len(bindScopes) - c
    BY <1>3 DEF ComputeDistance, Passed
  <2>2. c \in 1..Len(bindScopes)
    BY <1>3, InnermostHolder
  <2> HIDE DEF c
  <2> QED BY <1>1, <2>1, <2>2
<1> QED BY <1>2, <1>3

\* What is left to be visited, before and after an activation goes on or starts another.
LEMMA BindExpands ==
  ASSUME BindingTypeOK, binding # <<>>, BindWork # <<>>, NEW more \in Seq(BindItem),
         BindExpand(more), NEW Ok, FramesIn(binding, Ok),
         \A k \in DOMAIN more : more[k] \in Ok[Len(binding)]
  PROVE  FramesIn(binding', Ok)
<1> DEFINE S == [work : Seq(BindItem)]
           L == Len(binding)
           w == more \o Tail(BindWork)
           a == [Top(binding) EXCEPT !.work = w]
<1>1. binding \in Seq(S) /\ L \in 1..L
  BY TopPop DEF BindingTypeOK, BindItem
<1>2. BindWork \in Seq(BindItem) /\ w \in Seq(BindItem)
  BY BindStack, ConsumeWork
<1>3. binding' = [binding EXCEPT ![L] = a] /\ a.work = w /\ a \in S
  <2>1. Top(binding) \in S
    BY <1>1, TopPop
  <2> QED BY <1>2, <2>1 DEF BindExpand, BindWork, Top
<1> HIDE DEF a, S
<1>4. Len(binding') = L /\ \A i \in 1..L : binding'[i] = IF i = L THEN a ELSE binding[i]
  BY <1>1, <1>3, ReplaceTop
<1>5. BindWork = binding[L].work
  BY DEF BindWork, Top
<1>6. ASSUME NEW k \in DOMAIN w PROVE w[k] \in Ok[L]
  <2>1. /\ DOMAIN BindWork = 1..Len(BindWork) /\ DOMAIN more = 1..Len(more) /\ Len(BindWork) \in Nat
        /\ \A m \in 1..Len(more) : w[m] = more[m]
        /\ k \notin 1..Len(more) =>
             k - Len(more) + 1 \in 2..Len(BindWork) /\ w[k] = BindWork[k - Len(more) + 1]
    BY SMTT(60), <1>2, WorkAfter
  <2>2. CASE k \in 1..Len(more)
    BY <2>1, <2>2
  <2>3. CASE k \notin 1..Len(more)
    <3> DEFINE m == k - Len(more) + 1
    <3>1. m \in DOMAIN BindWork /\ w[k] = BindWork[m]
      BY <2>1, <2>3
    <3> HIDE DEF m, w
    <3> QED BY <1>1, <1>5, <3>1 DEF FramesIn
  <2> QED BY <2>2, <2>3
<1> HIDE DEF w
<1> QED BY <1>1, <1>3, <1>4, <1>6 DEF FramesIn

LEMMA BindEnters ==
  ASSUME BindingTypeOK, binding # <<>>, BindWork # <<>>, NEW work \in Seq(BindItem),
         BindEnter(work), NEW Ok, FramesIn(binding, Ok),
         \A k \in DOMAIN work : work[k] \in Ok[Len(binding) + 1]
  PROVE  FramesIn(binding', Ok)
<1> DEFINE S == [work : Seq(BindItem)]
           L == Len(binding)
           w == Tail(BindWork)
           a == [Top(binding) EXCEPT !.work = w]
           t == [binding EXCEPT ![L] = a]
           b == [work |-> work]
<1>1. binding \in Seq(S) /\ L \in 1..L
  BY TopPop DEF BindingTypeOK, BindItem
<1>2. BindWork \in Seq(BindItem) /\ w \in Seq(BindItem)
  BY BindStack, HeadTailProperties
<1>3. binding' = Append(t, b) /\ a.work = w /\ a \in S /\ b \in S /\ b.work = work
  <2>1. Top(binding) \in S
    BY <1>1, TopPop
  <2> QED BY <1>2, <2>1 DEF BindEnter, BindWork, Top
<1> HIDE DEF a, b, S
<1>4. t \in Seq(S) /\ Len(t) = L /\ \A i \in 1..L : t[i] = IF i = L THEN a ELSE binding[i]
  BY <1>1, <1>3, ReplaceTop
<1> HIDE DEF t
<1>5. Len(binding') = L + 1 /\ binding'[L + 1] = b /\ \A i \in 1..L : binding'[i] = t[i]
  BY <1>3, <1>4, AppendProperties
<1>6. BindWork = binding[L].work
  BY DEF BindWork, Top
<1>7. ASSUME NEW k \in DOMAIN w PROVE w[k] \in Ok[L]
  <2>1. /\ DOMAIN BindWork = 1..Len(BindWork) /\ Len(BindWork) \in Nat
        /\ DOMAIN w = 1..(Len(BindWork) - 1) /\ w[k] = BindWork[k + 1]
    BY <1>2, HeadTailProperties, LenProperties
  <2> DEFINE m == k + 1
  <2>2. m \in DOMAIN BindWork /\ w[k] = BindWork[m]
    BY <2>1
  <2> HIDE DEF m, w
  <2> QED BY <1>1, <1>6, <2>2 DEF FramesIn
<1> HIDE DEF w
<1>8. ASSUME NEW i \in 1..(L + 1), NEW k \in DOMAIN binding'[i].work
      PROVE  binding'[i].work[k] \in Ok[i]
  <2>1. i = L + 1 \/ i = L \/ (i \in 1..L /\ i # L)
    BY <1>1
  <2> QED BY <1>1, <1>3, <1>4, <1>5, <1>7, <1>8, <2>1 DEF FramesIn
<1> QED BY <1>5, <1>8 DEF FramesIn

\* Every visitor of Resolver visits the parts of what it visits, in one scope more if it
\* opens one.
LEMMA BindPlacedStep ==
  ASSUME program \in Sources, BindingInv, BindPlaced, BindStep, UNCHANGED program
  PROVE  BindPlaced'
<1> DEFINE n == BindNext.node
           L == Len(binding)
           ok(i) == {t \in BindItem : \E scopes : PlacedAt(t.node, scopes) /\ Len(scopes) = i - 1}
           Ok == [i \in Nat |-> ok(i)]
<1>1. BindingTypeOK /\ binding \in Seq([work : Seq(BindItem)]) /\ L \in Nat
      /\ \A i \in 1..L : i \in Nat /\ binding[i].work \in Seq(BindItem)
  <2>1. BindingTypeOK /\ binding \in Seq([work : Seq(BindItem)])
    BY DEF BindingInv, BindingTypeOK, BindItem
  <2>2. L \in Nat /\ \A i \in 1..L : binding[i] \in [work : Seq(BindItem)]
    BY <2>1, LenProperties, ElementOfSeq
  <2> QED BY <2>1, <2>2
<1>2. \A i \in Nat : Ok[i] = ok(i)
  OBVIOUS
<1> HIDE DEF Ok
<1>3. FramesIn(binding, Ok)
  <2> SUFFICES ASSUME NEW i \in 1..L, NEW k \in DOMAIN binding[i].work
               PROVE  binding[i].work[k] \in Ok[i]
    BY DEF FramesIn
  <2>1. binding[i].work[k] \in BindItem
    BY <1>1, LenProperties, ElementOfSeq
  <2> QED BY <1>1, <1>2, <2>1 DEF BindPlaced
<1>4. ASSUME binding # <<>>, BindWork # <<>>
      PROVE  /\ n \in Node /\ n.kids \in Seq(Node) /\ L + 1 \in Nat
             /\ BindWork \in Seq(BindItem) /\ <<>> \in Seq(BindItem)
             /\ Items("visit", n.kids) \in Seq(BindItem) /\ DOMAIN Items("visit", n.kids) = DOMAIN n.kids
             /\ Item("target", n) \in BindItem
             /\ Append(Items("visit", n.kids), Item("target", n)) \in Seq(BindItem)
             /\ \E scopes : PlacedAt(n, scopes) /\ Len(scopes) = L - 1
  <2>1. BindWork \in Seq(BindItem) /\ BindNext \in BindItem /\ BindNext = BindWork[1] /\ 1 \in DOMAIN BindWork
    BY <1>1, <1>4, BindStack, HeadTailProperties, LenProperties, EmptySeq DEF BindNext
  <2>2. n \in Node /\ n.kids \in Seq(Node)
    BY <2>1, NodeAssumption DEF BindItem
  <2>3. Items("visit", n.kids) \in Seq([op : {"visit"}, node : Node])
    BY <2>2, ItemsType
  <2>4. [op : {"visit"}, node : Node] \subseteq BindItem /\ Item("target", n) \in BindItem
    BY <2>2 DEF BindItem, Item
  <2>5. L \in 1..L /\ BindWork = binding[L].work
    BY <1>1, <1>4, TopPop DEF BindWork, Top
  <2>6. \E scopes : PlacedAt(n, scopes) /\ Len(scopes) = L - 1
    BY <2>1, <2>5 DEF BindPlaced
  <2> HIDE DEF n
  <2>7. Items("visit", n.kids) \in Seq(BindItem) /\ DOMAIN Items("visit", n.kids) = DOMAIN n.kids
    BY <2>3, <2>4, SeqMonotonic DEF Items
  <2> QED BY <1>1, <2>1, <2>2, <2>4, <2>6, <2>7, AppendProperties, EmptySeq
<1>5. FramesIn(binding', Ok)
  <2>1. CASE BindLeave
    <3>1. binding # <<>> /\ binding' = Pop(binding)
      BY <2>1 DEF BindLeave
    <3>2. Len(binding') = L - 1 /\ \A i \in 1..(L - 1) : binding'[i] = binding[i]
      BY <1>1, <3>1, TopPop
    <3>3. \A i \in 1..(L - 1) : i \in 1..L
      BY <1>1
    <3> QED BY <1>3, <3>2, <3>3 DEF FramesIn
  <2>2. ASSUME BindChildren \/ BindVariable \/ BindAssign \/ BindTarget \/ BindVarDeclare
        PROVE  FramesIn(binding', Ok)
    <3>1. /\ binding # <<>> /\ BindWork # <<>>
          /\ n.kind \notin {"block", "for", "func"}
      BY <2>2 DEF BindChildren, BindVariable, BindAssign, BindTarget, BindVarDeclare, Binds
    <3>2. PICK scopes : PlacedAt(n, scopes) /\ Len(scopes) = L - 1
      BY <1>4, <3>1
    <3>3. \A m \in Kids(n) : PlacedAt(m, scopes)
      BY <3>1, <3>2, PlainKids
    <3> DEFINE kids == Items("visit", n.kids)
               all == Append(kids, Item("target", n))
    <3>4. \A k \in DOMAIN kids : kids[k] \in Ok[L]
      <4> SUFFICES ASSUME NEW k \in DOMAIN kids PROVE kids[k] \in Ok[L]
        OBVIOUS
      <4>1. kids[k].node \in Kids(n) /\ kids[k] \in BindItem
        BY <1>4, <3>1, LenProperties, ElementOfSeq DEF Kids, Items, Item, BindItem
      <4> HIDE DEF kids
      <4> QED BY <1>1, <1>2, <3>2, <3>3, <4>1
    <3>5. \A k \in DOMAIN all : all[k] \in Ok[L]
      <4>1. Item("target", n) \in Ok[L]
        BY <1>1, <1>2, <1>4, <3>1, <3>2 DEF Item
      <4>2. kids \in Seq(BindItem) /\ DOMAIN kids = 1..Len(kids) /\ Len(kids) \in Nat
        BY <1>4, <3>1, LenProperties
      <4>3. DOMAIN all = 1..(Len(kids) + 1) /\ all[Len(kids) + 1] = Item("target", n)
            /\ \A k \in 1..Len(kids) : all[k] = kids[k]
        BY <1>4, <3>1, <4>2, AppendProperties, LenProperties
      <4> HIDE DEF kids, all
      <4> QED BY <3>4, <4>1, <4>2, <4>3
    <3>6. \A k \in DOMAIN << >> : <<>>[k] \in Ok[L]
      OBVIOUS
    <3>7. BindExpand(kids) \/ BindExpand(all) \/ BindExpand(<<>>)
      BY <2>2 DEF BindChildren, BindVariable, BindAssign, BindTarget, BindVarDeclare
    <3> HIDE DEF kids, all
    <3>8. kids \in Seq(BindItem) /\ all \in Seq(BindItem) /\ <<>> \in Seq(BindItem)
      BY <1>4, <3>1 DEF kids, all
    <3> QED BY <1>1, <1>3, <3>1, <3>4, <3>5, <3>6, <3>7, <3>8, BindExpands
  <2>3. ASSUME BindScope \/ BindFunction
        PROVE  FramesIn(binding', Ok)
    <3> DEFINE kids == Items("visit", n.kids)
    <3>1. /\ binding # <<>> /\ BindWork # <<>> /\ BindEnter(kids)
          /\ n.kind \in {"block", "for", "func"}
      BY <2>3 DEF BindScope, BindFunction, Binds
    <3>2. PICK scopes : PlacedAt(n, scopes) /\ Len(scopes) = L - 1
      BY <1>4, <3>1
    <3>3. PICK names : NewScope(n, names) /\ \A m \in Kids(n) : PlacedAt(m, <<names>> \o scopes)
      BY <3>1, <3>2, ScopeKids
    <3>4. Len(<<names>> \o scopes) = L
      BY <1>1, <3>2, <3>3, PlacedType, ConcatProperties DEF NewScope
    <3>5. \A k \in DOMAIN kids : kids[k] \in Ok[L + 1]
      <4> SUFFICES ASSUME NEW k \in DOMAIN kids PROVE kids[k] \in Ok[L + 1]
        OBVIOUS
      <4>1. kids[k].node \in Kids(n) /\ kids[k] \in BindItem
        BY <1>4, <3>1, LenProperties, ElementOfSeq DEF Kids, Items, Item, BindItem
      <4> HIDE DEF kids
      <4>2. (L + 1) - 1 = L /\ L + 1 \in Nat
        BY <1>1
      <4> QED BY <1>2, <3>3, <3>4, <4>1, <4>2
    <3>6. kids \in Seq(BindItem)
      BY <1>4, <3>1
    <3> HIDE DEF kids
    <3> QED BY <1>1, <1>3, <3>1, <3>5, <3>6, BindEnters
  <2> QED BY <2>1, <2>2, <2>3 DEF BindStep
<1>6. \A i \in 1..Len(binding') : i \in Nat
  OBVIOUS
<1> QED BY <1>2, <1>5, <1>6 DEF FramesIn, BindPlaced, PlacedAt

\* resolve() begins.
LEMMA BindPlacedBegin ==
  ASSUME program \in Sources, BindBegin(program), UNCHANGED program
  PROVE  BindPlaced'
<1> DEFINE w == Items("visit", program)
<1>1. program \in Seq(Node) /\ \A i \in DOMAIN program : PlacedAt(program[i], <<>>)
  BY ProgramPlaced
<1>2. binding' = <<[work |-> w]>> /\ Len(binding') = 1 /\ binding'[1].work = w
  BY DEF BindBegin
<1>3. \A k \in DOMAIN w : PlacedAt(w[k].node, <<>>)
  BY <1>1 DEF Items, Item
<1>4. Len(<<>>) = 1 - 1
  BY EmptySeq
<1> HIDE DEF w
<1>5. ASSUME NEW i \in 1..Len(binding'), NEW k \in DOMAIN binding'[i].work
      PROVE  \E scopes : PlacedAt(binding'[i].work[k].node, scopes) /\ Len(scopes) = i - 1
  <2>1. i = 1
    BY <1>2
  <2> QED BY <1>2, <1>3, <1>4, <2>1
<1> QED BY <1>5 DEF BindPlaced, PlacedAt

\* Uses that have the same site have the same name and stand in the same scopes.
LEMMA SameSite ==
  ASSUME program \in Sources, NEW n, NEW m, NEW inner, NEW scopes,
         PlacedAt(n, scopes), PlacedAt(m, inner), Site(n) = Site(m),
         n.kind \in {"variable", "assign"}, m.kind \in {"variable", "assign"}
  PROVE  n.tok = m.tok /\ inner = scopes
<1>1. /\ Place(n, scopes).node = n /\ Place(n, scopes).scopes = scopes
      /\ Place(m, inner).node = m /\ Place(m, inner).scopes = inner
  BY DEF Place
<1>2. n.tok = m.tok
  BY DEF Site
<1>3. Place(n, scopes).scopes = Place(m, inner).scopes
  <2>1. Place(n, scopes) \in {u \in Placed[program] : u.node.kind \in {"variable", "assign"}}
    BY <1>1 DEF PlacedAt
  <2>2. Place(m, inner) \in {u \in Placed[program] : u.node.kind \in {"variable", "assign"}}
    BY <1>1 DEF PlacedAt
  <2> QED BY <1>1, <2>1, <2>2, SiteAssumption
<1> QED BY <1>1, <1>2, <1>3

\* A use is bound.
LEMMA ResolvedAt ==
  ASSUME NEW n, NEW scopes, program \in Sources, BindingInv, Resolved, UNCHANGED program,
         n.kind \in {"variable", "assign"}, SetDistance(n), PlacedAt(n, scopes),
         Len(scopes) = Len(bindScopes),
         timely' = IF IsTimely(n) THEN timely \cup {Site(n)} ELSE timely \ {Site(n)}
  PROVE  Resolved'
<1> DEFINE d == ComputeDistance(n.tok)
<1>1. /\ d = -1 \/ d \in Nat
      /\ d = -1 => Passed(n.tok) = Len(bindScopes)
      /\ d # -1 => Passed(n.tok) = d /\ d < Len(bindScopes)
  BY DistancePassed DEF BindingInv
<1>2. scopes \in Seq(SUBSET Name) /\ Len(scopes) \in Nat
  BY PlacedType, LenProperties
<1>3. distance' = IF d >= 0
                  THEN [s \in DOMAIN distance \cup {Site(n)} |-> IF s = Site(n) THEN d ELSE distance[s]]
                  ELSE distance
  BY DEF SetDistance
<1>4. Site(n) \in timely' => \A i \in 1..Passed(n.tok) : n.tok \notin scopes[i]
  <2>1. Place(n, scopes) \in Placed[program] /\ Place(n, scopes).node = n /\ Place(n, scopes).scopes = scopes
    BY DEF PlacedAt, Place
  <2>2. IsTimely(n) => \A i \in 1..Passed(n.tok) : n.tok \notin scopes[i]
    BY <2>1 DEF IsTimely
  <2> QED BY <2>2
<1> HIDE DEF d
<1> SUFFICES ASSUME NEW m, NEW inner, PlacedAt(m, inner), m.kind \in {"variable", "assign"}
             PROVE  /\ DistanceOf(m)' < Len(inner) /\ DistanceOf(m)' \in Nat \cup {-1}
                    /\ Site(m) \in timely' =>
                         \A i \in 1..Len(inner) :
                           DistanceOf(m)' = -1 \/ i <= DistanceOf(m)' => m.tok \notin inner[i]
  BY DEF Resolved, PlacedAt
<1>5. /\ DistanceOf(m) < Len(inner) /\ DistanceOf(m) \in Nat \cup {-1}
      /\ Site(m) \in timely =>
           \A i \in 1..Len(inner) : DistanceOf(m) = -1 \/ i <= DistanceOf(m) => m.tok \notin inner[i]
  BY DEF Resolved
<1>6. CASE Site(m) # Site(n)
  <2>1. DistanceOf(m)' = DistanceOf(m)
    BY <1>3, <1>6 DEF DistanceOf, Site
  <2>2. Site(m) \in timely' <=> Site(m) \in timely
    BY <1>6
  <2> QED BY <1>5, <2>1, <2>2
<1>7. CASE Site(m) = Site(n)
  <2>1. m.tok = n.tok /\ inner = scopes
    BY <1>7, SameSite
  <2>2. CASE d = -1
    <3>1. DistanceOf(m)' = DistanceOf(m)
      BY <1>3, <2>2 DEF DistanceOf, Site
    <3>2. Site(m) \in timely' => \A i \in 1..Len(inner) : m.tok \notin inner[i]
      BY <1>1, <1>4, <1>7, <2>1, <2>2
    <3> QED BY <1>5, <3>1, <3>2
  <2>3. CASE d # -1
    <3>1. d \in Nat /\ d >= 0
      BY <1>1, <2>3
    <3>2. DistanceOf(m)' = d
      BY <1>3, <1>7, <3>1 DEF DistanceOf, Site
    <3>3. Site(m) \in timely' => \A i \in 1..d : m.tok \notin inner[i]
      BY <1>1, <1>4, <1>7, <2>1, <2>3
    <3> HIDE DEF DistanceOf
    <3> QED BY <1>1, <1>2, <2>1, <2>3, <3>1, <3>2, <3>3
  <2> QED BY <2>2, <2>3
<1> QED BY <1>6, <1>7

LEMMA ResolvedStep ==
  ASSUME program \in Sources, BindingInv, BindPlaced, Resolved, BindStep, UNCHANGED program,
         timely' = IF BindVariable \/ BindTarget
                   THEN LET n == BindNext.node IN
                        IF IsTimely(n) THEN timely \cup {Site(n)} ELSE timely \ {Site(n)}
                   ELSE timely
  PROVE  Resolved'
<1> DEFINE n == BindNext.node
           L == Len(binding)
<1>1. CASE BindVariable \/ BindTarget
  <2>1. /\ binding # <<>> /\ BindWork # <<>> /\ n.kind \in {"variable", "assign"} /\ SetDistance(n)
        /\ timely' = IF IsTimely(n) THEN timely \cup {Site(n)} ELSE timely \ {Site(n)}
    BY <1>1 DEF BindVariable, BindTarget, Binds
  <2>2. L \in 1..L /\ BindWork = binding[L].work /\ Len(bindScopes) = L - 1
    BY <2>1, BindStack DEF BindWork, Top, BindingInv, BindScoped
  <2>3. BindWork \in Seq(BindItem) /\ BindNext = BindWork[1] /\ 1 \in DOMAIN BindWork
    BY <2>1, BindStack, HeadTailProperties, LenProperties, EmptySeq DEF BindNext, BindingInv
  <2>4. PICK scopes : PlacedAt(n, scopes) /\ Len(scopes) = L - 1
    BY <2>2, <2>3 DEF BindPlaced
  <2>5. PICK m : m = n
    OBVIOUS
  <2>6. /\ m.kind \in {"variable", "assign"} /\ SetDistance(m) /\ PlacedAt(m, scopes)
        /\ Len(scopes) = Len(bindScopes)
        /\ timely' = IF IsTimely(m) THEN timely \cup {Site(m)} ELSE timely \ {Site(m)}
    BY <2>1, <2>2, <2>4, <2>5
  <2> HIDE DEF n, L
  <2> QED BY ZenonT(60), <2>6, ResolvedAt
<1>2. CASE ~(BindVariable \/ BindTarget)
  <2>1. UNCHANGED <<distance, timely>>
    BY <1>2 DEF BindStep, BindChildren, BindAssign, BindVarDeclare, BindScope, BindFunction, BindLeave
  <2> QED BY <2>1 DEF Resolved, PlacedAt, DistanceOf
<1> QED BY <1>1, <1>2

-----------------------------------------------------------------------------
(* The run.                                                                 *)

\* "ctx" says which scope an environment is for, by the names that the scope declares:
\* what a chain stands for are the scopes of its environments but the last, which is global_.
Around(chain, ctx) == [j \in 1..(Len(chain) - 1) |-> ctx[chain[j]]]

\* What is left of a statement stands there, and so do the parts of a for that has begun.
TaskStands(t, scopes) ==
  IF t.op \in ForOp THEN \A m \in Kids(t.node) : PlacedAt(m, scopes)
                    ELSE PlacedAt(t.node, scopes)

\* Every environment holds names of its scope only, the work of the frame above it stands
\* in the scopes of its chain, and a function stands in those of its closure.
HoldsDeclared(ctx) == \A e \in 2..Len(envs), x \in Name : Has(e, x) => x \in ctx[e]
WorkStands(ctx) ==
  \A i \in 1..Len(frames) : \A k \in DOMAIN frames[i].work :
    TaskStands(frames[i].work[k], Around(envs[i].chain, ctx))
FunctionStands(x, ctx) ==
  functions[x].closure # Dangling =>
    /\ functions[x].decl.kind = "func"
    /\ PlacedAt(functions[x].decl, Around(envs[functions[x].closure].chain, ctx))
Stands(ctx) ==
  /\ ctx \in [1..Len(envs) -> SUBSET Name]
  /\ HoldsDeclared(ctx) /\ WorkStands(ctx) /\ \A x \in Name : FunctionStands(x, ctx)

\* Once a destroyed closure has been called nothing is known of the environments.
RunPlaced == frames # <<>> /\ ~dangled => \E ctx : Stands(ctx)

LEMMA ChainIn ==
  ASSUME FramesInv, NEW e \in 1..Len(envs)
  PROVE  /\ Len(envs) \in Nat /\ e \in Nat
         /\ ChainFrom(envs[e].chain, e)
         /\ Len(envs[e].chain) \in Nat \ {0}
         /\ \A j \in 1..Len(envs[e].chain) : envs[e].chain[j] \in 1..e
<1>1. ChainFrom(envs[e].chain, e) /\ Len(envs) \in Nat
  BY LenProperties DEF FramesInv, ChainsLeadOut, MemoryTyped, EnvsTyped
<1>2. envs[e].chain \in Seq(1..e) /\ Len(envs[e].chain) >= 1
  BY <1>1 DEF ChainFrom
<1>3. Len(envs[e].chain) \in Nat /\ \A j \in 1..Len(envs[e].chain) : envs[e].chain[j] \in 1..e
  BY <1>2, LenProperties, ElementOfSeq
<1> QED BY <1>1, <1>2, <1>3

\* The scopes of a chain depend on what is said of its environments only.
LEMMA AroundSame ==
  ASSUME NEW chain, NEW ctx, NEW ctx2, Len(chain) \in Nat,
         \A j \in 1..Len(chain) : ctx2[chain[j]] = ctx[chain[j]]
  PROVE  Around(chain, ctx2) = Around(chain, ctx)
BY DEF Around

LEMMA AroundLonger ==
  ASSUME NEW chain \in Seq(Nat), Len(chain) >= 1, NEW m, NEW ctx
  PROVE  Around(Cons(m, chain), ctx) = Cons(ctx[m], Around(chain, ctx))
<1> DEFINE l == Len(chain)
           c == Cons(m, chain)
           a == Around(chain, ctx)
           b == Cons(ctx[m], a)
           S == {ctx[i] : i \in Nat \cup {m}}
<1>1. l \in Nat \ {0} /\ \A j \in 1..l : chain[j] \in Nat
  BY LenProperties, ElementOfSeq
<1>2. Len(c) = l + 1 /\ c[1] = m /\ \A j \in 2..(l + 1) : c[j] = chain[j - 1]
  BY <1>1 DEF Cons
<1>3. a \in Seq(S) /\ Len(a) = l - 1 /\ \A j \in 1..(l - 1) : a[j] = ctx[chain[j]]
  BY <1>1 DEF Around
<1>4. <<ctx[m]>> \in Seq(S) /\ Len(<<ctx[m]>>) = 1 /\ <<ctx[m]>>[1] = ctx[m]
  OBVIOUS
<1> HIDE DEF a, S
<1>5. b \in Seq(S) /\ Len(b) = l /\ b[1] = ctx[m] /\ \A j \in 2..l : b[j] = a[j - 1]
  BY <1>1, <1>3, <1>4, ConcatProperties DEF Cons
<1> HIDE DEF b, c
<1>6. Around(c, ctx) = [j \in 1..l |-> ctx[c[j]]]
  BY <1>1, <1>2 DEF Around
<1>7. \A j \in 1..l : ctx[c[j]] = b[j]
  <2> SUFFICES ASSUME NEW j \in 1..l PROVE ctx[c[j]] = b[j]
    OBVIOUS
  <2>1. CASE j = 1
    BY <1>2, <1>5, <2>1
  <2>2. CASE j # 1
    <3>1. j \in 2..l /\ j \in 2..(l + 1) /\ j - 1 \in 1..(l - 1)
      BY <1>1, <2>2
    <3> QED BY <1>2, <1>3, <1>5, <3>1
  <2> QED BY <2>1, <2>2
<1>8. b = [j \in 1..l |-> b[j]]
  BY <1>5
<1> QED BY <1>6, <1>7, <1>8 DEF a, b, c

\* What a visitor leaves to be done stands where its node does.
LEMMA OnwardStands ==
  ASSUME program \in Sources, NEW scopes, Now \in TaskType, TaskStands(Now, scopes), NEW t \in Onward
  PROVE  TaskStands(t, scopes)
<1>1. Now.op \in ForOp => N.kind = "for"
  BY DEF TaskType, N
<1>2. /\ Now.op \in ForOp => \A m \in Kids(N) : PlacedAt(m, scopes)
      /\ Now.op \notin ForOp => PlacedAt(N, scopes)
  BY DEF TaskStands, N
<1>3. CASE t.node = N /\ (t.op \in ForOp <=> Now.op \in ForOp)
  BY <1>2, <1>3 DEF TaskStands
<1>4. CASE /\ t.node \in Kids(N) /\ N.kind \notin {"block", "func"} /\ t.op \notin ForOp
           /\ N.kind = "for" => Now.op \in ForOp
  <2>1. PlacedAt(t.node, scopes)
    BY <1>1, <1>2, <1>4, PlainKids
  <2> QED BY <1>4, <2>1 DEF TaskStands
<1> QED BY <1>3, <1>4 DEF Onward

\* The tasks that may be left in a frame, if this is what its environment stands for.
OkIn(scopes) == {t \in TaskType : TaskStands(t, scopes)}

LEMMA WorkIsOk ==
  ASSUME FramesInv, NEW ctx, WorkStands(ctx), NEW Ok,
         \A i \in 1..Len(frames) : Ok[i] = OkIn(Around(envs[i].chain, ctx))
  PROVE  FramesIn(frames, Ok)
<1> SUFFICES ASSUME NEW i \in 1..Len(frames), NEW k \in DOMAIN frames[i].work
             PROVE  frames[i].work[k] \in Ok[i]
  BY DEF FramesIn
<1>1. frames[i] \in FrameType
  BY ElementOfSeq DEF FramesInv, FramesTyped
<1>2. frames[i].work \in Seq(TaskType)
  BY <1>1 DEF FrameType
<1>3. frames[i].work[k] \in TaskType
  BY <1>2, LenProperties, ElementOfSeq
<1> QED BY <1>3 DEF WorkStands, OkIn

\* Where the work at hand stands.
LEMMA NowStands ==
  ASSUME FramesInv, frames # <<>>, Todo # <<>>, NEW ctx, WorkStands(ctx)
  PROVE  /\ Len(frames) \in Nat \ {0} /\ env = Len(frames) /\ Len(envs) = Len(frames)
         /\ Now \in TaskType /\ N \in Node
         /\ TaskStands(Now, Around(envs[Len(frames)].chain, ctx))
         /\ Now.op \notin ForOp => PlacedAt(N, Around(envs[Len(frames)].chain, ctx))
<1>1. /\ Len(frames) \in Nat \ {0} /\ Todo = frames[Len(frames)].work /\ 1 \in DOMAIN Todo
      /\ Now = Todo[1] /\ N \in Node /\ Now \in TaskType
  BY WorkOnTop
<1>2. env = Len(frames) /\ Len(envs) = Len(frames) /\ Len(frames) \in 1..Len(frames)
  BY <1>1 DEF FramesInv, Aligned
<1>3. TaskStands(Now, Around(envs[Len(frames)].chain, ctx))
  BY <1>1, <1>2 DEF WorkStands
<1>4. Now.op \notin ForOp => PlacedAt(N, Around(envs[Len(frames)].chain, ctx))
  BY <1>3 DEF TaskStands, N
<1> QED BY <1>1, <1>2, <1>3, <1>4

\* What a visitor that goes on does to the environments.
LEMMA ProceedsEnvs ==
  ASSUME FramesInv, Proceeds
  PROVE  /\ Len(envs') = Len(envs)
         /\ \A e \in 1..Len(envs) : envs'[e].chain = envs[e].chain
         /\ \A e \in 1..Len(envs), x \in Name :
              Has(e, x)' => Has(e, x) \/ (e = env /\ N.kind = "var" /\ x = N.tok)
<1>1. envs \in Seq(EnvType) /\ Len(envs) \in Nat /\ \A e \in 1..Len(envs) : envs[e] \in EnvType
  BY LenProperties, ElementOfSeq DEF FramesInv, MemoryTyped, EnvsTyped
<1>2. CASE UNCHANGED envs
  BY <1>2 DEF Has
<1>3. CASE Assigns
  <2>1. PICK e \in 1..Len(envs), v \in HeapValue :
          /\ N.tok \in Name /\ (Has(e, N.tok) \/ (e = env /\ N.kind = "var"))
          /\ Write(e, N.tok, v)
    BY <1>3 DEF Assigns
  <2> DEFINE new == [envs[e].values EXCEPT ![N.tok] = v]
             r   == [envs[e] EXCEPT !.values = new]
  <2>2. envs' = [envs EXCEPT ![e] = r]
    BY <2>1 DEF Write
  <2>3. r.chain = envs[e].chain /\ r.values = new
    BY <1>1 DEF EnvType
  <2>4. \A x \in Name : x # N.tok => new[x] = envs[e].values[x]
    BY <1>1 DEF EnvType
  <2>5. r \in EnvType
    BY <1>1, <2>1 DEF EnvType, Held1
  <2> HIDE DEF r, new
  <2>6. Len(envs') = Len(envs) /\ \A i \in 1..Len(envs) : envs'[i] = IF i = e THEN r ELSE envs[i]
    BY <1>1, <2>2, <2>5, ExceptSeq
  <2> QED BY <2>1, <2>3, <2>4, <2>6 DEF Has
<1> QED BY <1>2, <1>3 DEF Proceeds

LEMMA ProceedsStands ==
  ASSUME program \in Sources, ExecutorInv, DistancesTyped, ExecutorStep, Proceeds,
         UNCHANGED program, NEW ctx, Stands(ctx)
  PROVE  Stands(ctx)'
<1> DEFINE L == Len(frames)
           G == Around(envs[L].chain, ctx)
           Ok == [i \in 1..(L + 1) |-> OkIn(Around(envs[i].chain, ctx))]
<1>1. FramesInv /\ frames # <<>> /\ Todo # <<>>
  BY StepKinds DEF Proceeds
<1>2. /\ L \in Nat \ {0} /\ Len(envs) = L /\ env = L /\ L \in 1..L /\ L \in 1..(L + 1)
      /\ Now \in TaskType /\ N \in Node
      /\ TaskStands(Now, G) /\ (Now.op \notin ForOp => PlacedAt(N, G))
  BY <1>1, NowStands DEF Stands
<1>3. /\ Len(frames') = L /\ Len(envs') = L
      /\ \A e \in 1..L : envs'[e].chain = envs[e].chain
      /\ \A e \in 1..L, x \in Name :
           Has(e, x)' => Has(e, x) \/ (e = env /\ N.kind = "var" /\ x = N.tok)
  BY <1>1, <1>2, ProceedsFrames, ProceedsEnvs
<1>4. N.kind \in {"var", "func"} => PlacedAt(N, G)
  BY <1>2 DEF TaskType, N
<1>5. ctx \in [1..Len(envs') -> SUBSET Name]
  BY <1>2, <1>3 DEF Stands
<1>6. HoldsDeclared(ctx)'
  <2> SUFFICES ASSUME NEW e \in 2..L, NEW x \in Name, Has(e, x)' PROVE x \in ctx[e]
    BY <1>3 DEF HoldsDeclared, Has
  <2>1. e \in 1..L
    BY <1>2
  <2>2. CASE Has(e, x)
    BY <1>2, <2>2 DEF Stands, HoldsDeclared
  <2>3. CASE e = L /\ N.kind = "var" /\ x = N.tok
    <3>1. /\ ChainFrom(envs[L].chain, L) /\ Len(envs[L].chain) \in Nat \ {0}
      BY <1>1, <1>2, ChainIn
    <3>2. envs[L].chain[1] = L /\ L # 1 /\ envs[L].chain[Len(envs[L].chain)] = 1
      BY <1>2, <2>3, <3>1 DEF ChainFrom
    <3>3. 1 \in 1..(Len(envs[L].chain) - 1)
      BY <3>1, <3>2
    <3>4. G[1] = ctx[L] /\ G # <<>>
      <4>1. G[1] = ctx[L] /\ DOMAIN G = 1..(Len(envs[L].chain) - 1)
        BY <3>2, <3>3 DEF Around
      <4> QED BY <3>3, <4>1
    <3> HIDE DEF G
    <3> QED BY <1>4, <2>3, <3>4, DeclaredThere
  <2> QED BY <1>2, <1>3, <2>1, <2>2, <2>3
<1>7. WorkStands(ctx)'
  <2>1. \A i \in 1..L : Ok[i] = OkIn(Around(envs[i].chain, ctx)) /\ i \in 1..(L + 1)
    BY <1>2
  <2>2. Ok[L] = OkIn(G)
    BY <1>2
  <2> HIDE DEF Ok, G
  <2>3. FramesIn(frames, Ok)
    BY <1>1, <2>1, WorkIsOk DEF Stands
  <2>4. Onward \subseteq Ok[L]
    <3>1. \A t \in Onward : t \in TaskType /\ TaskStands(t, G)
      BY <1>2, OnwardStands DEF Onward
    <3> QED BY <2>2, <3>1 DEF OkIn
  <2>5. ~Enters
    BY <1>1, <1>2, <1>3, EntersFrames
  <2>6. FramesIn(frames', Ok)
    BY <2>3, <2>4, <2>5, StepTasks
  <2>7. ASSUME NEW i \in 1..Len(frames'), NEW k \in DOMAIN frames'[i].work
        PROVE  TaskStands(frames'[i].work[k], Around(envs'[i].chain, ctx))
    BY <1>3, <2>1, <2>6 DEF FramesIn, OkIn
  <2> QED BY <2>7 DEF WorkStands, TaskStands, PlacedAt
<1>8. ASSUME NEW x \in Name, functions'[x].closure # Dangling
      PROVE  /\ functions'[x].decl.kind = "func"
             /\ PlacedAt(functions'[x].decl, Around(envs'[functions'[x].closure].chain, ctx))
  <2>1. CASE functions'[x] = functions[x]
    <3>1. functions[x].closure \in 0..L /\ functions[x].closure \in 1..L
      BY <1>1, <1>2, <1>8, <2>1 DEF FramesInv, MemoryTyped, ClosuresAlive, Dangling
    <3> QED BY <1>3, <1>8, <2>1, <3>1 DEF Stands, FunctionStands
  <2>2. CASE N.kind = "func" /\ functions'[x] = [decl |-> N, closure |-> env]
    BY <1>2, <1>3, <1>4, <2>2
  <2>3. ~Leaves
    BY <1>1, <1>2, <1>3, LeavesFrames
  <2> QED BY <2>1, <2>2, <2>3, FunctionsAfter
<1>9. \A x \in Name : FunctionStands(x, ctx)'
  BY <1>8 DEF FunctionStands, PlacedAt
<1> QED BY <1>5, <1>6, <1>7, <1>9 DEF Stands

\* The scope a new frame is for: that of the block or the for that begins, or of the
\* function that is called.
LEMMA EnteredScope ==
  ASSUME program \in Sources, FramesInv, CallsCounted, frames # <<>>, Todo # <<>>,
         NEW ctx, Stands(ctx),
         NEW kind \in {"block", "for", "call"}, NEW work \in Seq(TaskType),
         NEW values \in [Name -> Held1], NEW enclosing \in 1..Len(envs),
         Opens(kind, work), Surrounds(kind, values, enclosing),
         ~(At("enter") /\ functions[Callee(N).tok].closure = Dangling)
  PROVE  \E names \in SUBSET Name :
           /\ \A x \in Name : values[x] # Unset => x \in names
           /\ \A k \in DOMAIN work :
                TaskStands(work[k], <<names>> \o Around(envs[enclosing].chain, ctx))
<1> DEFINE L == Len(frames)
           G == Around(envs[enclosing].chain, ctx)
<1>1. /\ L \in Nat \ {0} /\ Len(envs) = L /\ env = L /\ L \in 1..L
      /\ Now \in TaskType /\ N \in Node
      /\ Now.op \notin ForOp => PlacedAt(N, Around(envs[L].chain, ctx))
  BY NowStands DEF Stands
<1>2. CASE kind \in {"block", "for"}
  <2>1. Now.op = "accept" /\ N.kind = kind /\ values = NoValues /\ enclosing = L
    BY <1>1, <1>2 DEF Surrounds, Accepting, At
  <2>2. PlacedAt(N, G)
    BY <1>1, <2>1 DEF ForOp
  <2> HIDE DEF G
  <2>3. PICK names : NewScope(N, names) /\ \A m \in Kids(N) : PlacedAt(m, <<names>> \o G)
    BY <1>2, <2>1, <2>2, ScopeKids
  <2>4. \A k \in DOMAIN work : TaskStands(work[k], <<names>> \o G)
    BY <1>2, <2>3 DEF Opens, TaskStands
  <2>5. \A x \in Name : values[x] = Unset
    BY <2>1 DEF NoValues
  <2> QED BY <2>3, <2>4, <2>5 DEF NewScope, G
<1>3. CASE kind = "call"
  <2> DEFINE x == Callee(N).tok
             fn == functions[x]
  <2>1. At("enter") /\ Now.op = "enter" /\ x \in Name
    BY <1>1, <1>3, CalleeIsNamed DEF Surrounds, At, N, CallOp
  <2>2. fn.closure = enclosing /\ fn.closure # Dangling
    BY <1>3, <2>1 DEF Surrounds
  <2>3. fn.decl = Now.decl
    <3>1. Counted(Now, L)
      <4>1. Todo = frames[L].work /\ 1 \in DOMAIN Todo /\ Now = Todo[1]
        BY WorkOnTop
      <4> QED BY <1>1, <4>1 DEF CallsCounted
    <3>2. ~(fn.closure > L)
      BY <1>1, <2>2
    <3> QED BY <2>1, <2>2, <3>1, <3>2 DEF Counted, N
  <2>4. fn.decl.kind = "func" /\ PlacedAt(fn.decl, G)
    BY <2>1, <2>2 DEF Stands, FunctionStands
  <2> HIDE DEF G, x, fn
  <2>5. PICK names : NewScope(fn.decl, names) /\ \A m \in Kids(fn.decl) : PlacedAt(m, <<names>> \o G)
    BY <2>4, ScopeKids
  <2>6. \A k \in DOMAIN work : TaskStands(work[k], <<names>> \o G)
    BY <1>3, <2>5 DEF Opens, TaskStands, x, fn
  <2>7. \A y \in Name : values[y] # Unset => y \in names
    <3>1. fn.decl.params \in Seq(Name)
      <4>1. fn.decl \in Node
        BY <2>1 DEF FramesInv, MemoryTyped, ClosuresAlive, fn
      <4> QED BY <4>1, NodeAssumption
    <3>2. DOMAIN fn.decl.params = 1..Len(fn.decl.params)
      BY <3>1, LenProperties
    <3>3. \A y \in Name : values[y] # Unset => \E i \in DOMAIN fn.decl.params : fn.decl.params[i] = y
      BY <1>3, <2>3, <3>2 DEF Surrounds
    <3> QED BY <2>5, <3>3 DEF NewScope
  <2> QED BY <2>5, <2>6, <2>7 DEF NewScope, G
<1> QED BY <1>2, <1>3

LEMMA EntersStands ==
  ASSUME program \in Sources, ExecutorInv, DistancesTyped, CallsCounted, ExecutorStep, Enters,
         UNCHANGED program, NEW ctx, Stands(ctx),
         ~(At("enter") /\ functions[Callee(N).tok].closure = Dangling)
  PROVE  \E ctx2 : Stands(ctx2)'
<1> DEFINE L == Len(frames)
<1>1. FramesInv /\ frames # <<>> /\ Todo # <<>> /\ UNCHANGED functions
  BY StepKinds DEF Enters
<1>2. PICK kind \in {"block", "for", "call"}, work \in Seq(TaskType),
           values \in [Name -> Held1], enclosing \in 1..Len(envs) :
             /\ EnterFrame(kind, work, values, enclosing) /\ Opens(kind, work)
             /\ Surrounds(kind, values, enclosing)
  BY DEF Enters
<1>3. /\ L \in Nat \ {0} /\ Len(envs) = L /\ env = L /\ envs \in Seq(EnvType)
      /\ ctx \in [1..L -> SUBSET Name]
  BY <1>1, NowStands DEF Stands, FramesInv, MemoryTyped, EnvsTyped
<1>4. PICK names \in SUBSET Name :
        /\ \A x \in Name : values[x] # Unset => x \in names
        /\ \A k \in DOMAIN work :
             TaskStands(work[k], <<names>> \o Around(envs[enclosing].chain, ctx))
  BY <1>1, <1>2, EnteredScope
<1>l. L \in Nat /\ \A i \in 1..(L + 1) : i = L + 1 \/ i \in 1..L
  <2>1. L \in Nat
    BY <1>3
  <2> HIDE DEF L
  <2> QED BY <2>1
<1>c. PICK ctx2 \in [1..(L + 1) -> SUBSET Name] :
        ctx2[L + 1] = names /\ \A i \in 1..L : ctx2[i] = ctx[i] /\ ctx[i] \in SUBSET Name
  <2> DEFINE c == [i \in 1..(L + 1) |-> IF i = L + 1 THEN names ELSE ctx[i]]
  <2> HIDE DEF L
  <2>1. c \in [1..(L + 1) -> SUBSET Name] /\ L + 1 \in 1..(L + 1)
    BY <1>3, <1>l
  <2>2. \A i \in 1..L : i \in 1..(L + 1) /\ i # L + 1
    BY <1>l
  <2> QED BY <1>3, <2>1, <2>2
<1> DEFINE new == [values |-> values, chain |-> <<L + 1>> \o envs[enclosing].chain]
           G == <<names>> \o Around(envs[enclosing].chain, ctx)
           Ok == [i \in 1..(L + 1) |-> OkIn(IF i = L + 1 THEN G ELSE Around(envs[i].chain, ctx))]
<1>5. /\ Len(frames') = L + 1 /\ frames'[L + 1] = Frame(kind, work)
  BY <1>1, <1>2, <1>3, OneFrameMore DEF FramesInv
<1>6. /\ Len(envs') = L + 1 /\ envs'[L + 1] = new
      /\ \A e \in 1..L : envs'[e] = envs[e]
  <2>1. envs' = Append(envs, new)
    BY <1>2, <1>3 DEF EnterFrame
  <2> HIDE DEF new
  <2> QED BY <1>3, <2>1, AppendProperties
<1>7. \A e \in 1..L : Around(envs[e].chain, ctx2) = Around(envs[e].chain, ctx)
  <2> SUFFICES ASSUME NEW e \in 1..L PROVE Around(envs[e].chain, ctx2) = Around(envs[e].chain, ctx)
    OBVIOUS
  <2>1. /\ Len(envs[e].chain) \in Nat /\ e \in Nat
        /\ \A j \in 1..Len(envs[e].chain) : envs[e].chain[j] \in 1..e
    BY <1>1, <1>3, ChainIn
  <2>2. \A i \in 1..e : ctx2[i] = ctx[i]
    BY <1>3, <1>c, <2>1
  <2> QED BY <2>1, <2>2, AroundSame
<1>8. Around(new.chain, ctx2) = G
  <2> DEFINE chain == envs[enclosing].chain
  <2>1. chain \in Seq(Nat) /\ Len(chain) >= 1
    <3>1. ChainFrom(chain, enclosing)
      BY <1>1, <1>2, ChainIn
    <3>2. chain \in Seq(1..enclosing) /\ 1..enclosing \subseteq Nat
      BY <3>1 DEF ChainFrom
    <3> QED BY <3>1, <3>2, SeqMonotonic DEF ChainFrom
  <2>2. new.chain = Cons(L + 1, chain) /\ Around(chain, ctx2) = Around(chain, ctx) /\ ctx2[L + 1] = names
    BY <1>3, <1>7, <1>c DEF Cons
  <2>3. G = Cons(names, Around(chain, ctx))
    BY DEF Cons
  <2> HIDE DEF chain, new, G
  <2>4. Around(Cons(L + 1, chain), ctx2) = Cons(ctx2[L + 1], Around(chain, ctx2))
    BY <2>1, AroundLonger
  <2> QED BY <2>2, <2>3, <2>4
<1>9. ctx2 \in [1..Len(envs') -> SUBSET Name]
  BY <1>6, <1>c
<1>10. HoldsDeclared(ctx2)'
  <2> SUFFICES ASSUME NEW e \in 2..(L + 1), NEW x \in Name, envs'[e].values[x] # Unset
               PROVE  x \in ctx2[e]
    BY <1>6 DEF HoldsDeclared, Has
  <2>1. CASE e = L + 1
    BY <1>3, <1>4, <1>6, <1>c, <2>1
  <2>2. CASE e # L + 1
    <3>0. e \in 2..L /\ e \in 1..L /\ e \in 1..(L + 1)
      BY <1>3, <2>2
    <3>1. e \in 2..L /\ e \in 1..L /\ ctx2[e] = ctx[e]
      BY <1>c, <2>2, <3>0
    <3>2. Has(e, x)
      BY <1>6, <3>1 DEF Has
    <3> QED BY <1>3, <3>1, <3>2 DEF Stands, HoldsDeclared
  <2> QED BY <2>1, <2>2
<1>11. WorkStands(ctx2)'
  <2>1. \A i \in 1..L : Ok[i] = OkIn(Around(envs[i].chain, ctx)) /\ i \in 1..(L + 1)
    BY <1>3
  <2>2. Ok[L + 1] = OkIn(G) /\ L + 1 \in 1..(L + 1)
    BY <1>3
  <2>3. \A k \in DOMAIN work : TaskStands(work[k], G) /\ work[k] \in TaskType
    BY <1>4, LenProperties, ElementOfSeq
  <2> HIDE DEF Ok, G, new
  <2>4. FramesIn(frames, Ok)
    BY <1>1, <2>1, WorkIsOk DEF Stands
  <2>5. \A k \in DOMAIN frames'[L + 1].work : frames'[L + 1].work[k] \in Ok[L + 1]
    BY <1>5, <2>2, <2>3 DEF Frame, OkIn
  <2>6. ~Proceeds
    BY <1>1, <1>3, <1>5, ProceedsFrames
  <2>7. FramesIn(frames', Ok)
    BY <2>4, <2>5, <2>6, StepTasks
  <2>8. ASSUME NEW i \in 1..Len(frames'), NEW k \in DOMAIN frames'[i].work
        PROVE  TaskStands(frames'[i].work[k], Around(envs'[i].chain, ctx2))
    <3>0. i \in 1..L \/ i = L + 1
      BY <1>5, <1>l
    <3>1. frames'[i].work[k] \in Ok[i] /\ (i \in 1..L \/ i = L + 1)
      BY <2>7, <3>0 DEF FramesIn
    <3>2. CASE i \in 1..L
      BY <1>6, <1>7, <2>1, <3>1, <3>2 DEF OkIn
    <3>3. CASE i = L + 1
      BY <1>6, <1>8, <2>2, <3>1, <3>3 DEF OkIn
    <3> QED BY <3>1, <3>2, <3>3
  <2> QED BY <2>8 DEF WorkStands, TaskStands, PlacedAt
<1>12. ASSUME NEW x \in Name, functions[x].closure # Dangling
       PROVE  /\ functions[x].decl.kind = "func"
              /\ PlacedAt(functions[x].decl, Around(envs'[functions[x].closure].chain, ctx2))
  <2>1. functions[x].closure \in 1..L
    BY <1>1, <1>3, <1>12 DEF FramesInv, MemoryTyped, ClosuresAlive, Dangling
  <2> QED BY <1>6, <1>7, <1>12, <2>1 DEF Stands, FunctionStands
<1>13. \A x \in Name : FunctionStands(x, ctx2)'
  BY <1>1, <1>12 DEF FunctionStands, PlacedAt
<1> QED BY <1>9, <1>10, <1>11, <1>13 DEF Stands

LEMMA LeavesStands ==
  ASSUME ExecutorInv, DistancesTyped, ExecutorStep, Leaves, frames' # <<>>,
         UNCHANGED program, NEW ctx, Stands(ctx)
  PROVE  \E ctx2 : Stands(ctx2)'
<1> DEFINE L == Len(frames)
           Ok == [i \in 1..(L + 1) |-> OkIn(Around(envs[i].chain, ctx))]
<1>1. FramesInv /\ frames # <<>> /\ frames' = Pop(frames) /\ FramesInv'
  BY StepKinds, LeavesInv DEF Leaves
<1>2. /\ L \in Nat \ {0} /\ Len(frames') = L - 1 /\ Len(envs) = L
      /\ \A i \in 1..(L - 1) : frames'[i] = frames[i]
  BY <1>1, LeavesFrames DEF FramesInv, Aligned
<1>3. L # 1 /\ LeaveScope
  <2>1. Len(frames') # 0
    BY <1>1, EmptySeq DEF FramesInv, FramesTyped
  <2> QED BY <1>2, <2>1 DEF Leaves
<1>4. Len(envs') = L - 1 /\ \A e \in 1..(L - 1) : envs'[e] = envs[e]
  <2>1. envs \in Seq(EnvType) /\ envs # <<>> /\ envs' = Pop(envs)
    BY <1>1, <1>2, <1>3, EmptySeq DEF LeaveScope, FramesInv, MemoryTyped, EnvsTyped
  <2> QED BY <1>2, <2>1, TopPop
<1>5. \A i \in 1..(L - 1) : i \in 1..L /\ i # L
  BY <1>2
<1>c. PICK ctx2 \in [1..(L - 1) -> SUBSET Name] : \A i \in 1..(L - 1) : ctx2[i] = ctx[i]
  <2>1. [i \in 1..(L - 1) |-> ctx[i]] \in [1..(L - 1) -> SUBSET Name]
    BY <1>2, <1>5 DEF Stands
  <2> QED BY <2>1
<1>6. \A e \in 1..(L - 1) : Around(envs[e].chain, ctx2) = Around(envs[e].chain, ctx)
  <2> SUFFICES ASSUME NEW e \in 1..(L - 1)
               PROVE  Around(envs[e].chain, ctx2) = Around(envs[e].chain, ctx)
    OBVIOUS
  <2>1. /\ Len(envs[e].chain) \in Nat
        /\ \A j \in 1..Len(envs[e].chain) : envs[e].chain[j] \in 1..e
    BY <1>1, <1>2, <1>5, ChainIn
  <2>2. 1..e \subseteq 1..(L - 1)
    BY <1>2
  <2> HIDE DEF L
  <2> QED BY <1>c, <2>1, <2>2, AroundSame
<1>7. ctx2 \in [1..Len(envs') -> SUBSET Name]
  BY <1>4, <1>c
<1>8. HoldsDeclared(ctx2)'
  <2> SUFFICES ASSUME NEW e \in 2..(L - 1), NEW x \in Name, envs'[e].values[x] # Unset
               PROVE  x \in ctx2[e]
    BY <1>4 DEF HoldsDeclared, Has
  <2>1. e \in 2..L /\ e \in 1..(L - 1)
    BY <1>2
  <2>2. Has(e, x)
    BY <1>4, <2>1 DEF Has
  <2> QED BY <1>2, <1>c, <2>1, <2>2 DEF Stands, HoldsDeclared
<1>9. WorkStands(ctx2)'
  <2>1. ASSUME NEW i \in 1..Len(frames'), NEW k \in DOMAIN frames'[i].work
        PROVE  TaskStands(frames'[i].work[k], Around(envs'[i].chain, ctx2))
    <3>1. i \in 1..(L - 1) /\ i \in 1..L
      BY <1>2, <1>5
    <3>2. TaskStands(frames[i].work[k], Around(envs[i].chain, ctx))
      BY <1>2, <3>1 DEF Stands, WorkStands
    <3> QED BY <1>2, <1>4, <1>6, <3>1, <3>2
  <2> QED BY <2>1 DEF WorkStands, TaskStands, PlacedAt
<1>10. ASSUME NEW x \in Name, functions'[x].closure # Dangling
       PROVE  /\ functions'[x].decl.kind = "func"
              /\ PlacedAt(functions'[x].decl, Around(envs'[functions'[x].closure].chain, ctx2))
  <2>1. functions'[x] = functions[x] /\ functions[x].closure # L
    BY <1>2, <1>3, <1>10 DEF LeaveScope, Destroy, Dangling
  <2>2. functions[x].closure \in 1..L
    BY <1>1, <1>2, <1>10, <2>1 DEF FramesInv, MemoryTyped, ClosuresAlive, Dangling
  <2>3. functions[x].closure \in 1..(L - 1)
    BY <1>2, <2>1, <2>2
  <2>4. /\ functions[x].decl.kind = "func"
        /\ PlacedAt(functions[x].decl, Around(envs[functions[x].closure].chain, ctx))
    BY <1>10, <2>1 DEF Stands, FunctionStands
  <2> QED BY <1>4, <1>6, <2>1, <2>3, <2>4
<1>11. \A x \in Name : FunctionStands(x, ctx2)'
  BY <1>10 DEF FunctionStands, PlacedAt
<1> QED BY <1>7, <1>8, <1>9, <1>11 DEF Stands

\* The run goes on, until it calls a destroyed closure.
LEMMA RunPlacedStep ==
  ASSUME program \in Sources, ExecutorInv, DistancesTyped, CallsCounted, ExecutorStep, RunPlaced,
         UNCHANGED program,
         dangled' = (dangled \/ (At("enter") /\ functions[Callee(N).tok].closure = Dangling))
  PROVE  RunPlaced'
<1> SUFFICES ASSUME frames' # <<>>, ~dangled' PROVE \E ctx : Stands(ctx)'
  BY DEF RunPlaced
<1>1. ~dangled /\ ~(At("enter") /\ functions[Callee(N).tok].closure = Dangling)
  OBVIOUS
<1>2. frames # <<>> /\ ~Crashes
  BY StepKinds DEF Proceeds, Enters, Leaves, Crashes
<1>3. PICK ctx : Stands(ctx)
  BY <1>1, <1>2 DEF RunPlaced
<1>4. CASE Proceeds
  BY <1>3, <1>4, ProceedsStands
<1>5. CASE Enters
  BY <1>1, <1>3, <1>5, EntersStands
<1>6. CASE Leaves
  BY <1>3, <1>6, LeavesStands
<1> QED BY <1>2, <1>4, <1>5, <1>6, StepKinds

\* execute() begins: nothing is declared yet, and the program stands in no scope.
LEMMA RunPlacedBegin ==
  ASSUME program \in Sources, FramesInv, exc # "crash", NEW tree \in {program, Fold(program)},
         ExecuteBegin(tree), UNCHANGED program, \A x \in Name : functions[x].closure = Dangling
  PROVE  RunPlaced'
<1>1. tree \in Seq(Node) /\ \A i \in DOMAIN tree : PlacedAt(tree[i], <<>>)
  BY ProgramPlaced
<1>2. /\ Len(frames') = 1 /\ frames'[1] = Frame("execute", Tasks("run", tree))
      /\ UNCHANGED <<envs, functions>> /\ frames = <<>>
  BY <1>1, ExecuteBeginInv DEF ExecuteBegin, storeVars
<1>3. Len(envs) = 1
  BY <1>2 DEF FramesInv, Aligned
<1>4. Len(envs[1].chain) = 1
  <2>1. ChainFrom(envs[1].chain, 1) /\ Len(envs[1].chain) \in Nat \ {0}
        /\ \A j \in 1..Len(envs[1].chain) : envs[1].chain[j] \in 1..1
    BY <1>3, ChainIn
  <2>2. ASSUME Len(envs[1].chain) # 1 PROVE FALSE
    <3>1. 2 \in 2..Len(envs[1].chain) /\ 1 \in 1..Len(envs[1].chain) /\ 2 \in 1..Len(envs[1].chain)
      <4> DEFINE l == Len(envs[1].chain)
      <4>1. l \in Nat \ {0} /\ l # 1
        BY <2>1, <2>2
      <4> HIDE DEF l
      <4>2. 2 \in 2..l /\ 1 \in 1..l /\ 2 \in 1..l
        BY <4>1
      <4> QED BY <4>2 DEF l
    <3>2. envs[1].chain[2] < envs[1].chain[2 - 1]
      BY <2>1, <3>1 DEF ChainFrom
    <3> QED BY <2>1, <3>1, <3>2
  <2> QED BY <2>2
<1>5. PICK ctx : ctx = [i \in 1..1 |-> {}]
  OBVIOUS
<1>6. Around(envs[1].chain, ctx) = <<>>
  BY <1>4 DEF Around
<1>7. ctx \in [1..Len(envs') -> SUBSET Name]
  BY <1>2, <1>3, <1>5
<1>8. HoldsDeclared(ctx)'
  BY <1>2, <1>3 DEF HoldsDeclared
<1>9. WorkStands(ctx)'
  <2>1. ASSUME NEW i \in 1..Len(frames'), NEW k \in DOMAIN frames'[i].work
        PROVE  TaskStands(frames'[i].work[k], Around(envs'[i].chain, ctx))
    <3>1. i = 1 /\ frames'[i].work = Tasks("run", tree)
      BY <1>2 DEF Frame
    <3>2. frames'[i].work[k] = Task("run", tree[k]) /\ k \in DOMAIN tree
      BY <3>1 DEF Tasks
    <3> QED BY <1>1, <1>2, <1>6, <3>1, <3>2 DEF TaskStands, Task, ForOp
  <2> QED BY <2>1 DEF WorkStands, TaskStands, PlacedAt
<1>10. \A x \in Name : FunctionStands(x, ctx)'
  BY <1>2 DEF FunctionStands
<1>11. Stands(ctx)'
  BY <1>7, <1>8, <1>9, <1>10 DEF Stands
<1> QED BY <1>11 DEF RunPlaced

LEMMA CallsCountedBegin ==
  ASSUME NEW tree \in Seq(Node), ExecuteBegin(tree)
  PROVE  CallsCounted'
<1>1. Len(frames') = 1 /\ frames'[1].work = Tasks("run", tree)
  BY DEF ExecuteBegin, Frame
<1>2. \A k \in DOMAIN Tasks("run", tree) : Tasks("run", tree)[k].op # "enter"
  BY DEF Tasks, Task
<1>3. \A i \in 1..Len(frames') : frames'[i].work = Tasks("run", tree)
  BY <1>1
<1>4. Ordered'
  BY <1>2, <1>3 DEF Ordered, CallsLast
<1> QED BY <1>2, <1>3, <1>4 DEF CallsCounted, Counted

-----------------------------------------------------------------------------
(* The invariant of both.                                                   *)

\* Between the runs nothing is left of one.
Settled ==
  stage \in {"parsed", "bind"} =>
    frames = <<>> /\ exc # "crash" /\ \A x \in Name : functions[x].closure = Dangling

OptimizedInv ==
  /\ program \in Sources /\ Settled
  /\ BindingInv /\ BindPlaced /\ Resolved
  /\ ExecutorInv /\ CallsCounted /\ RunPlaced

\* A new executor.
Fresh ==
  /\ frames = <<>> /\ vals = <<>> /\ exc = "none" /\ arrays = <<>>
  /\ envs = <<[values |-> NoValues, chain |-> <<1>>]>> /\ env = 1 /\ execDepth = 0
  /\ functions = [x \in Name |-> NoFunction]

LEMMA FreshInv ==
  Fresh => /\ ExecutorInv /\ CallsCounted /\ RunPlaced
           /\ frames = <<>> /\ exc # "crash" /\ \A x \in Name : functions[x].closure = Dangling
<1> SUFFICES ASSUME Fresh
             PROVE  /\ ExecutorInv /\ CallsCounted /\ RunPlaced
                    /\ frames = <<>> /\ exc # "crash" /\ \A x \in Name : functions[x].closure = Dangling
  OBVIOUS
<1>1. FramesInv
  BY FreshFrames DEF Fresh
<1>2. Len(frames) = 0
  BY EmptySeq DEF Fresh
<1>3. CallsCounted
  BY <1>2 DEF CallsCounted, Ordered
<1>4. \A x \in Name : functions[x].closure = Dangling
  BY DEF Fresh, NoFunction
<1> QED BY <1>1, <1>3, <1>4 DEF Fresh, ExecutorInv, RunPlaced

LEMMA OptimizedInit == Init => OptimizedInv
<1> SUFFICES ASSUME Init PROVE OptimizedInv
  OBVIOUS
<1>1. BindingInv /\ program \in Sources
  BY BindingInitInv DEF Init
<1>2. BindPlaced
  <2>1. Len(binding) = 0
    BY EmptySeq DEF Init, BindingInit
  <2> QED BY <2>1 DEF BindPlaced
<1>3. Resolved
  <2> SUFFICES ASSUME NEW n, NEW scopes, PlacedAt(n, scopes)
               PROVE  DistanceOf(n) < Len(scopes) /\ DistanceOf(n) \in Nat \cup {-1}
                      /\ Site(n) \notin timely
    BY DEF Resolved
  <2>1. DistanceOf(n) = -1 /\ timely = {}
    BY DEF Init, BindingInit, DistanceOf
  <2>2. Len(scopes) \in Nat
    BY <1>1, PlacedType, LenProperties
  <2> QED BY <2>1, <2>2
<1>4. Fresh
  BY DEF Init, ExecutorInit, Fresh
<1> QED BY <1>1, <1>2, <1>3, <1>4, FreshInv DEF OptimizedInv, Settled

\* What no step of the pass, and none of a run, changes.
LEMMA BindingStays ==
  ASSUME BindingInv, BindPlaced, Resolved, UNCHANGED <<bindingVars, program, timely>>
  PROVE  BindingInv' /\ BindPlaced' /\ Resolved'
<1>1. UNCHANGED <<binding, bindScopes, distance, program, timely>>
  BY DEF bindingVars
<1>2. BindPlaced'
  BY <1>1 DEF BindPlaced, PlacedAt
<1>3. Resolved'
  BY <1>1 DEF Resolved, PlacedAt, DistanceOf, Site
<1> QED BY <1>2, <1>3, BindingKept

LEMMA RunStays ==
  ASSUME ExecutorInv, CallsCounted, RunPlaced, UNCHANGED <<executorVars, program, dangled>>
  PROVE  ExecutorInv' /\ CallsCounted' /\ RunPlaced'
<1>1. UNCHANGED <<frames, vals, exc, storeVars, envs, functions, program, dangled>>
  BY DEF executorVars, storeVars
<1>2. ExecutorInv'
  BY <1>1, ExecutorKept
<1>3. CallsCounted'
  BY <1>1 DEF CallsCounted, Ordered, CallsLast, Counted
<1>4. \A ctx : Stands(ctx) => Stands(ctx)'
  BY <1>1 DEF Stands, HoldsDeclared, Has, WorkStands, TaskStands, FunctionStands, PlacedAt
<1> QED BY <1>1, <1>2, <1>3, <1>4 DEF RunPlaced

LEMMA RunBegins ==
  ASSUME OptimizedInv, stage \in {"parsed", "bind"}, NEW tree \in {program, Fold(program)},
         ExecuteBegin(tree), UNCHANGED program
  PROVE  ExecutorInv' /\ CallsCounted' /\ RunPlaced'
<1>1. /\ FramesInv /\ exc # "crash" /\ program \in Sources
      /\ \A x \in Name : functions[x].closure = Dangling
  BY DEF OptimizedInv, Settled, ExecutorInv
<1>2. tree \in Seq(Node)
  BY <1>1, ProgramPlaced
<1>3. FramesInv' /\ exc' # "crash"
  BY <1>1, <1>2, ExecuteBeginInv
<1> QED BY <1>1, <1>2, <1>3, CallsCountedBegin, RunPlacedBegin DEF ExecutorInv

LEMMA OptimizedStep == OptimizedInv /\ [Next]_vars => OptimizedInv'
<1> SUFFICES ASSUME OptimizedInv, [Next]_vars PROVE OptimizedInv'
  OBVIOUS
<1> USE DEF OptimizedInv
<1>1. DistancesTyped
  BY DEF BindingInv, BindingTypeOK, DistancesTyped
<1>2. CASE Start
  <2>1. /\ stage = "parsed" /\ stage' = "plain" /\ ExecuteBegin(program)
        /\ UNCHANGED <<bindingVars, program, timely>>
    BY <1>2 DEF Start
  <2>2. ExecutorInv' /\ CallsCounted' /\ RunPlaced'
    BY <2>1, RunBegins
  <2>3. BindingInv' /\ BindPlaced' /\ Resolved'
    BY <2>1, BindingStays
  <2> QED BY <2>1, <2>2, <2>3 DEF Settled
<1>3. CASE Interpreting
  <2>1. /\ stage \in {"plain", "optimized"} /\ ExecutorStep
        /\ dangled' = (dangled \/ (At("enter") /\ functions[Callee(N).tok].closure = Dangling))
        /\ UNCHANGED <<bindingVars, stage, program, timely>>
    BY <1>3 DEF Interpreting
  <2>2. ExecutorInv' /\ CallsCounted' /\ RunPlaced'
    BY <1>1, <2>1, ExecutorStepInv, CountedStep, RunPlacedStep
  <2>3. BindingInv' /\ BindPlaced' /\ Resolved'
    BY <2>1, BindingStays
  <2> QED BY <2>1, <2>2, <2>3 DEF Settled
<1>4. CASE PlainEnds
  <2>1. /\ Fresh' /\ BindBegin(program) /\ UNCHANGED <<program, timely>>
    BY <1>4 DEF PlainEnds, Fresh
  <2>2. /\ ExecutorInv' /\ CallsCounted' /\ RunPlaced' /\ Settled'
    <3>1. Fresh' => /\ ExecutorInv' /\ CallsCounted' /\ RunPlaced'
                    /\ (frames = <<>> /\ exc # "crash" /\ \A x \in Name : functions[x].closure = Dangling)'
      BY FreshInv, PTL
    <3> QED BY <2>1, <3>1 DEF Settled
  <2>3. BindingInv'
    BY <2>1, ProgramPlaced, BindBeginInv
  <2>4. BindPlaced'
    BY <2>1, BindPlacedBegin
  <2>5. Resolved'
    BY <2>1 DEF BindBegin, Resolved, PlacedAt, DistanceOf, Site
  <2> QED BY <2>1, <2>2, <2>3, <2>4, <2>5
<1>5. CASE Optimizing
  <2>1. /\ stage = "bind" /\ BindStep
        /\ timely' = IF BindVariable \/ BindTarget
                     THEN LET n == BindNext.node IN
                          IF IsTimely(n) THEN timely \cup {Site(n)} ELSE timely \ {Site(n)}
                     ELSE timely
        /\ UNCHANGED <<executorVars, stage, program, dangled>>
    BY <1>5 DEF Optimizing
  <2>2. ExecutorInv' /\ CallsCounted' /\ RunPlaced'
    BY <2>1, RunStays
  <2>3. BindingInv' /\ BindPlaced' /\ Resolved'
    BY <2>1, BindStepInv, BindPlacedStep, ResolvedStep
  <2>4. Settled'
    BY <2>1 DEF Settled, executorVars
  <2> QED BY <2>1, <2>2, <2>3, <2>4
<1>6. CASE OptimizeDone
  <2>1. /\ stage = "bind" /\ stage' = "optimized" /\ ExecuteBegin(Fold(program))
        /\ UNCHANGED <<bindingVars, program, timely>>
    BY <1>6 DEF OptimizeDone
  <2>2. ExecutorInv' /\ CallsCounted' /\ RunPlaced'
    BY <2>1, RunBegins
  <2>3. BindingInv' /\ BindPlaced' /\ Resolved'
    BY <2>1, BindingStays
  <2> QED BY <2>1, <2>2, <2>3 DEF Settled
<1>7. CASE OptimizedEnds \/ Done \/ UNCHANGED vars
  <2>1. /\ UNCHANGED <<bindingVars, executorVars, program, timely, dangled>>
        /\ stage' = stage \/ stage' = "done"
    BY <1>7 DEF OptimizedEnds, Done, vars, runVars
  <2>2. Settled'
    BY <2>1 DEF Settled, executorVars
  <2> QED BY <2>1, <2>2, BindingStays, RunStays
<1> QED BY <1>2, <1>3, <1>4, <1>5, <1>6, <1>7 DEF Next

THEOREM OptimizedInvariant == Spec => []OptimizedInv
BY OptimizedInit, OptimizedStep, PTL DEF Spec

-----------------------------------------------------------------------------
(* What follows from it.                                                    *)

\* A use stands in the scopes that the chain of environments is for.
LEMMA UsePlaced ==
  ASSUME OptimizedInv, Bound, ~dangled
  PROVE  \E scopes :
           /\ PlacedAt(N, scopes) /\ N.kind \in {"variable", "assign"} /\ N \in Node
           /\ Len(scopes) \in Nat /\ Len(Chain) = Len(scopes) + 1 /\ DOMAIN scopes = 1..Len(scopes)
           /\ DOMAIN Chain = 1..Len(Chain) /\ Chain[Len(Chain)] = 1
           /\ \A i \in 1..Len(scopes), x \in Name : Has(Chain[i], x) => x \in scopes[i]
<1>1. /\ FramesInv /\ frames # <<>> /\ Todo # <<>> /\ program \in Sources
      /\ Now.op \in {"accept", "after"} /\ N.kind \in {"variable", "assign"}
  BY DEF OptimizedInv, ExecutorInv, Bound, At, After, Executing
<1>2. PICK ctx : Stands(ctx)
  BY <1>1 DEF OptimizedInv, RunPlaced
<1>3. /\ Len(frames) \in Nat \ {0} /\ env = Len(frames) /\ Len(envs) = Len(frames) /\ N \in Node
      /\ Now.op \notin ForOp => PlacedAt(N, Around(envs[Len(frames)].chain, ctx))
  BY <1>1, <1>2, NowStands DEF Stands
<1>4. PICK e \in 1..Len(envs) : e = env
  BY <1>3
<1>5. /\ ChainFrom(envs[e].chain, e) /\ Len(envs[e].chain) \in Nat \ {0} /\ e \in Nat
      /\ \A j \in 1..Len(envs[e].chain) : envs[e].chain[j] \in 1..e
  BY <1>1, ChainIn
<1>6. Chain = envs[e].chain
  BY <1>4 DEF Chain
<1>7. DOMAIN Chain = 1..Len(Chain) /\ Chain[Len(Chain)] = 1
  BY <1>5, <1>6, LenProperties DEF ChainFrom
<1> DEFINE C == Chain
           l == Len(C)
           scopes == Around(C, ctx)
<1>8. l \in Nat \ {0} /\ Len(scopes) = l - 1 /\ DOMAIN scopes = 1..(l - 1)
      /\ \A i \in 1..(l - 1) : scopes[i] = ctx[C[i]]
  BY <1>5, <1>6 DEF Around
<1>9. PlacedAt(N, scopes)
  BY <1>1, <1>3, <1>4, <1>6 DEF ForOp
<1>10. ASSUME NEW i \in 1..(l - 1) PROVE C[i] \in 2..Len(envs)
  <2>1. i \in 1..l /\ i + 1 \in 2..l /\ i + 1 \in 1..l /\ (i + 1) - 1 = i
    BY <1>8
  <2>2. C[i] \in 1..e /\ C[i + 1] \in 1..e /\ C[i + 1] < C[i]
    BY <1>5, <1>6, <2>1 DEF ChainFrom
  <2> HIDE DEF C
  <2> QED BY <1>3, <1>4, <2>2
<1> HIDE DEF C, l, scopes
<1>11. \A i \in 1..(l - 1), x \in Name : Has(C[i], x) => x \in scopes[i]
  BY <1>2, <1>8, <1>10 DEF Stands, HoldsDeclared
<1>12. Len(scopes) \in Nat /\ l = Len(scopes) + 1 /\ DOMAIN scopes = 1..Len(scopes)
  BY <1>8
<1> QED BY <1>1, <1>3, <1>8, <1>7, <1>9, <1>11, <1>12 DEF C, l

\* Where a program uses a variable, the executor's chain of environments has one for every
\* block, for and function around the use, and one that is global_; calls, loops, branches
\* and returns have not disturbed that, nor has any environment a name of another scope.
THEOREM ChainIsLexical == Spec => []ScopesAreEnvironments
<1>1. OptimizedInv => ScopesAreEnvironments
  <2> SUFFICES ASSUME OptimizedInv, Bound, ~dangled
               PROVE  \E s \in Placed[program] :
                        /\ s.node = N
                        /\ Len(Chain) = Len(s.scopes) + 1
                        /\ \A i \in DOMAIN s.scopes : \A x \in Name : Has(Chain[i], x) => x \in s.scopes[i]
    BY DEF ScopesAreEnvironments
  <2>1. PICK scopes :
           /\ PlacedAt(N, scopes)
           /\ Len(Chain) = Len(scopes) + 1 /\ DOMAIN scopes = 1..Len(scopes)
           /\ \A i \in 1..Len(scopes), x \in Name : Has(Chain[i], x) => x \in scopes[i]
    BY UsePlaced
  <2>2. Place(N, scopes).node = N /\ Place(N, scopes).scopes = scopes
    BY DEF Place
  <2>3. Place(N, scopes) \in Placed[program]
    BY <2>1 DEF PlacedAt
  <2> QED BY <2>1, <2>2, <2>3
<1> QED BY <1>1, OptimizedInvariant, PTL


\* Wherever the optimized program reads or assigns a variable, the distance that Resolver
\* wrote into it ends before global_; and if all the name could mean was declared when
\* Resolver was there, the executor comes by the distance to the variable that it would have
\* come to by a search, or to nothing yet, and without a distance to a global one or none.
THEOREM DistanceIsSearch == Spec => []StaticIsDynamic
<1>1. OptimizedInv => StaticIsDynamic
  <2> SUFFICES ASSUME OptimizedInv, Bound, ~dangled
               PROVE  /\ DistanceOf(N) < Len(Chain) - 1
                      /\ Site(N) \in timely =>
                           IF DistanceOf(N) >= 0
                           THEN Static(N.tok, DistanceOf(N)) \in {0, Dynamic(N.tok)}
                           ELSE Dynamic(N.tok) \in {0, 1}
    BY DEF StaticIsDynamic
  <2>1. PICK scopes :
           /\ PlacedAt(N, scopes) /\ N.kind \in {"variable", "assign"} /\ N \in Node
           /\ Len(scopes) \in Nat /\ Len(Chain) = Len(scopes) + 1
           /\ DOMAIN Chain = 1..Len(Chain) /\ Chain[Len(Chain)] = 1
           /\ \A i \in 1..Len(scopes), x \in Name : Has(Chain[i], x) => x \in scopes[i]
    BY UsePlaced
  <2> DEFINE d == DistanceOf(N)
             l == Len(scopes)
             x == N.tok
  <2>2. x \in Name
    BY <2>1, NodeAssumption
  <2>3. /\ d < l /\ d \in Nat \cup {-1}
        /\ Site(N) \in timely => \A i \in 1..l : d = -1 \/ i <= d => x \notin scopes[i]
    BY <2>1 DEF OptimizedInv, Resolved
  <2>4. Hits(x) \subseteq 1..(l + 1) /\ \A i \in 1..(l + 1) : i \in Hits(x) <=> Has(Chain[i], x)
    BY <2>1 DEF Hits
  <2>5. Static(x, d) = IF d < l + 1 /\ Has(Chain[d + 1], x) THEN Chain[d + 1] ELSE 0
    BY <2>1 DEF Static
  <2> HIDE DEF d, x
  <2>6. ASSUME Site(N) \in timely, d \in Nat PROVE Static(x, d) \in {0, Dynamic(x)}
    <3>1. SUFFICES ASSUME Has(Chain[d + 1], x) PROVE Dynamic(x) = Chain[d + 1]
      BY <2>5
    <3>2. d + 1 \in Hits(x)
      BY <2>1, <2>3, <2>4, <2>6, <3>1
    <3>3. \A i \in Hits(x) : d + 1 <= i
      <4> SUFFICES ASSUME NEW i \in 1..(l + 1), i \in Hits(x), i <= d PROVE FALSE
        BY <2>1, <2>4, <2>6
      <4>1. i \in 1..l
        BY <2>1, <2>3, <2>6
      <4>2. Has(Chain[i], x)
        BY <2>4
      <4> QED BY <2>1, <2>2, <2>3, <2>6, <4>1, <4>2
    <3>4. DynamicIndex(x) \in Hits(x) /\ \A i \in Hits(x) : DynamicIndex(x) <= i
      BY <3>2, <3>3 DEF DynamicIndex
    <3>5. DynamicIndex(x) = d + 1
      BY <2>1, <2>4, <2>6, <3>2, <3>3, <3>4
    <3> QED BY <3>2, <3>5 DEF Dynamic
  <2>7. ASSUME Site(N) \in timely, d = -1 PROVE Dynamic(x) \in {0, 1}
    <3>1. SUFFICES ASSUME Hits(x) # {} PROVE Dynamic(x) = 1
      BY DEF Dynamic
    <3>2. ASSUME NEW i \in 1..l PROVE ~Has(Chain[i], x)
      BY <2>1, <2>2, <2>3, <2>7
    <3>3. Hits(x) = {l + 1}
      <4>1. \A i \in 1..(l + 1) : i \in 1..l \/ i = l + 1
        BY <2>1
      <4> QED BY <2>4, <3>1, <3>2, <4>1
    <3>4. DynamicIndex(x) = l + 1
      BY <2>1, <3>3 DEF DynamicIndex
    <3> QED BY <2>1, <3>1, <3>4 DEF Dynamic
  <2>8. d >= 0 <=> d \in Nat
    BY <2>3
  <2> QED BY <2>1, <2>3, <2>6, <2>7, <2>8 DEF d, x
<1> QED BY <1>1, OptimizedInvariant, PTL
=============================================================================
