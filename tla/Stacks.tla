------------------------------- MODULE Stacks -------------------------------
(***************************************************************************)
(* What the operators of Ast.tla do to a stack: facts the proofs about the *)
(* passes cite.                                                            *)
(***************************************************************************)
EXTENDS Ast, Induction

\* The children of a node.
Kids(n) == {n.kids[i] : i \in DOMAIN n.kids}

\* Top and Pop of a stack that is not empty.
LEMMA TopPop ==
  ASSUME NEW S, NEW s \in Seq(S), s # <<>>
  PROVE  /\ Len(s) \in Nat \ {0}
         /\ Top(s) \in S
         /\ Pop(s) \in Seq(S)
         /\ Len(Pop(s)) = Len(s) - 1
         /\ \A i \in 1..(Len(s) - 1) : Pop(s)[i] = s[i]
<1>1. Len(s) \in Nat \ {0}
  BY EmptySeq, LenProperties
<1>2. Top(s) \in S
  BY <1>1, ElementOfSeq DEF Top
<1>3. \A i \in 1..(Len(s) - 1) : s[i] \in S
  BY <1>1, ElementOfSeq
<1>4. PICK n \in Nat : n = Len(s) - 1
  BY <1>1
<1>5. Pop(s) = SubSeq(s, 1, n)
  BY <1>4 DEF Pop
<1>6. \A i \in 1..n : s[i] \in S
  BY <1>3, <1>4
<1>7. /\ SubSeq(s, 1, n) \in Seq(S)
      /\ Len(SubSeq(s, 1, n)) = n
      /\ \A i \in 1..n : SubSeq(s, 1, n)[i] = s[i]
  BY <1>6
<1> QED BY <1>1, <1>2, <1>4, <1>5, <1>7

\* Replacing the top of a stack.
LEMMA ReplaceTop ==
  ASSUME NEW S, NEW s \in Seq(S), s # <<>>, NEW e \in S
  PROVE  LET t == [s EXCEPT ![Len(s)] = e] IN
         /\ t \in Seq(S)
         /\ Len(t) = Len(s)
         /\ \A i \in 1..Len(s) : t[i] = IF i = Len(s) THEN e ELSE s[i]
<1>1. Len(s) \in 1..Len(s)
  BY TopPop
<1>2. /\ [s EXCEPT ![Len(s)] = e] \in Seq(S)
      /\ Len([s EXCEPT ![Len(s)] = e]) = Len(s)
      /\ \A j \in 1..Len(s) : [s EXCEPT ![Len(s)] = e][j] = IF j = Len(s) THEN e ELSE s[j]
  BY <1>1, ExceptSeq
<1> QED BY <1>2

\* The work of an activation at its top: what is left of a sequence.
LEMMA ConsumeWork ==
  ASSUME NEW S, NEW work \in Seq(S), work # <<>>, NEW more \in Seq(S)
  PROVE  /\ Head(work) \in S
         /\ Tail(work) \in Seq(S)
         /\ more \o Tail(work) \in Seq(S)
<1>1. Head(work) \in S /\ Tail(work) \in Seq(S)
  BY HeadTailProperties
<1> QED BY <1>1, ConcatProperties

\* The first piece of work is replaced by others: where everything is afterwards.
LEMMA WorkAfter ==
  ASSUME NEW S, NEW work \in Seq(S), work # <<>>, NEW more \in Seq(S),
         NEW new, new = more \o Tail(work)
  PROVE  /\ Len(work) \in Nat \ {0} /\ DOMAIN work = 1..Len(work) /\ Head(work) = work[1]
         /\ Len(more) \in Nat /\ DOMAIN more = 1..Len(more)
         /\ DOMAIN new = 1..(Len(more) + Len(work) - 1)
         /\ \A k \in 1..Len(more) : k \in DOMAIN new /\ new[k] = more[k]
         /\ \A k \in DOMAIN new : k \notin 1..Len(more) =>
              k - Len(more) + 1 \in 2..Len(work) /\ new[k] = work[k - Len(more) + 1]
<1> DEFINE rest == Tail(work)
<1>1. /\ rest \in Seq(S) /\ Len(rest) = Len(work) - 1 /\ Len(work) \in Nat /\ Len(more) \in Nat
      /\ \A i \in 1..Len(rest) : rest[i] = work[i + 1]
      /\ Head(work) = work[1]
  BY HeadTailProperties, LenProperties
<1>2. DOMAIN work = 1..Len(work) /\ DOMAIN more = 1..Len(more)
  BY <1>1, LenProperties
<1>3. Len(work) # 0
  BY EmptySeq
<1> HIDE DEF rest
<1>4. /\ Len(more \o rest) = Len(more) + Len(rest) /\ more \o rest \in Seq(S)
      /\ \A i \in 1..(Len(more) + Len(rest)) :
           (more \o rest)[i] = IF i <= Len(more) THEN more[i] ELSE rest[i - Len(more)]
  BY <1>1, ConcatProperties
<1>5. DOMAIN new = 1..(Len(more) + Len(work) - 1)
  <2>1. DOMAIN (more \o rest) = 1..Len(more \o rest)
    BY <1>4, LenProperties
  <2>2. Len(more \o rest) = Len(more) + Len(work) - 1
    BY <1>1, <1>4
  <2> QED BY <2>1, <2>2 DEF rest
<1>6. Len(more) + Len(rest) = Len(more) + Len(work) - 1
  BY <1>1
<1>7. ASSUME NEW k \in 1..Len(more) PROVE k \in DOMAIN new /\ new[k] = more[k]
  <2>1. k \in 1..(Len(more) + Len(rest)) /\ k <= Len(more)
    BY <1>1
  <2> QED BY <1>4, <1>5, <1>6, <2>1 DEF rest
<1>8. ASSUME NEW k \in DOMAIN new, k \notin 1..Len(more)
      PROVE  k - Len(more) + 1 \in 2..Len(work) /\ new[k] = work[k - Len(more) + 1]
  <2>1. k \in 1..(Len(more) + Len(work) - 1)
    BY <1>5
  <2>2. /\ k \in 1..(Len(more) + Len(rest)) /\ ~(k <= Len(more))
        /\ k - Len(more) \in 1..Len(rest) /\ k - Len(more) + 1 \in 2..Len(work)
    BY <1>1, <1>8, <2>1
  <2> QED BY <1>1, <1>4, <2>2 DEF rest
<1> QED BY <1>1, <1>2, <1>3, <1>5, <1>7, <1>8

\* The work items of the children of a node.
LEMMA ItemsType ==
  ASSUME NEW op, NEW kids \in Seq(Node)
  PROVE  Items(op, kids) \in Seq([op : {op}, node : Node])
<1>1. Len(kids) \in Nat /\ DOMAIN kids = 1..Len(kids) /\ \A i \in 1..Len(kids) : kids[i] \in Node
  BY LenProperties, ElementOfSeq
<1>2. \A i \in 1..Len(kids) : Item(op, kids[i]) \in [op : {op}, node : Node]
  BY <1>1 DEF Item
<1> QED BY <1>1, <1>2 DEF Items

-----------------------------------------------------------------------------
(* Trees in which certain nodes do not stand.  The set of the nodes that    *)
(* head such trees is the largest that is closed: no node of it has a bad   *)
(* label, and its children are in it again - except those of the kinds of   *)
(* node that "stop" names, which are in "under".  The greatest one, because *)
(* a node is then in it by what its children are, without induction.        *)

Label(n) == <<n.kind, n.tok>>

ClosedTrees(S, bad, stop, under) ==
  \A n \in S : Label(n) \notin bad /\ Kids(n) \subseteq IF n.kind \in stop THEN under ELSE S
Trees(bad, stop, under) == UNION {S \in SUBSET Node : ClosedTrees(S, bad, stop, under)}

LEMMA TreesOut ==
  ASSUME NEW bad, NEW stop, NEW under, NEW n \in Trees(bad, stop, under)
  PROVE  /\ n \in Node /\ Label(n) \notin bad
         /\ Kids(n) \subseteq IF n.kind \in stop THEN under ELSE Trees(bad, stop, under)
<1>1. PICK S \in SUBSET Node : n \in S /\ ClosedTrees(S, bad, stop, under)
  BY DEF Trees
<1>2. S \subseteq Trees(bad, stop, under)
  BY <1>1 DEF Trees
<1> QED BY <1>1, <1>2 DEF ClosedTrees

\* What is closed up to trees consists of trees.
LEMMA TreesCover ==
  ASSUME NEW bad, NEW stop, NEW under, NEW S \in SUBSET Node,
         \A n \in S : /\ Label(n) \notin bad
                      /\ Kids(n) \subseteq
                           IF n.kind \in stop THEN under ELSE S \cup Trees(bad, stop, under)
  PROVE  S \subseteq Trees(bad, stop, under)
<1> DEFINE T == S \cup Trees(bad, stop, under)
<1>1. T \in SUBSET Node
  BY TreesOut
<1>2. ClosedTrees(T, bad, stop, under)
  <2> SUFFICES ASSUME NEW n \in T
               PROVE  Label(n) \notin bad /\ Kids(n) \subseteq IF n.kind \in stop THEN under ELSE T
    BY DEF ClosedTrees
  <2>1. CASE n \in S
    BY <2>1
  <2>2. CASE n \in Trees(bad, stop, under)
    BY <2>2, TreesOut
  <2> QED BY <2>1, <2>2
<1>3. T \subseteq Trees(bad, stop, under)
  BY <1>1, <1>2 DEF Trees
<1> QED BY <1>3

LEMMA TreesIn ==
  ASSUME NEW bad, NEW stop, NEW under, NEW n \in Node, Label(n) \notin bad,
         Kids(n) \subseteq IF n.kind \in stop THEN under ELSE Trees(bad, stop, under)
  PROVE  n \in Trees(bad, stop, under)
<1>1. {n} \subseteq Trees(bad, stop, under)
  BY ZenonT(60), TreesCover
<1> QED BY <1>1

\* Less is bad, or more may stand where the tree stops.
LEMMA TreesGrow ==
  ASSUME NEW bad, NEW less, NEW stop, NEW under, NEW over,
         less \subseteq bad, under \subseteq over
  PROVE  Trees(bad, stop, under) \subseteq Trees(less, stop, over)
<1> DEFINE S == Trees(bad, stop, under)
<1>1. S \in SUBSET Node
  BY TreesOut
<1>2. \A n \in S : Label(n) \notin less /\ Kids(n) \subseteq IF n.kind \in stop THEN over ELSE S
  BY TreesOut
<1> HIDE DEF S
<1>3. S \subseteq Trees(less, stop, over)
  BY <1>1, <1>2, TreesCover
<1> QED BY <1>3 DEF S

\* Where no tree stops, what may stand under a stop does not matter.
LEMMA TreesStop ==
  ASSUME NEW bad, NEW under, NEW over
  PROVE  Trees(bad, {}, under) = Trees(bad, {}, over)
BY DEF Trees, ClosedTrees

\* Expressions hold expressions only; where no statement can be bad, they are trees.
ExprNodes == {n \in Node : n.kind \in ExprKind} \cup {Absent}

LEMMA KidsOfExpressions ==
  /\ Kids(Absent) = {}
  /\ \A n \in Node : n.kind \in ExprKind => Kids(n) \subseteq ExprNodes
<1>1. Kids(Absent) = {}
  BY EmptySeq DEF Kids, Absent, MkNode
<1>2. ASSUME NEW n \in Node, n.kind \in ExprKind, NEW k \in Kids(n)
      PROVE  k \in ExprNodes
  <2>1. PICK i \in DOMAIN n.kids : k = n.kids[i]
    BY DEF Kids
  <2>2. k \in Node
    BY <2>1, NodeAssumption, LenProperties, ElementOfSeq
  <2>3. k.kind \in Kind
    BY <2>2, NodeAssumption
  <2>4. SubStatements(n) = {} /\ n.kind # "for"
    BY <1>2 DEF SubStatements, ExprKind
  <2>5. k.kind \notin StmtKind /\ k.kind # "absent"
    BY <2>1, <2>4, KidsAssumption
  <2> QED BY <2>2, <2>3, <2>5 DEF ExprNodes, Kind
<1> QED BY <1>1, <1>2

LEMMA ExpressionTrees ==
  ASSUME NEW bad, NEW stop, NEW under, stop \subseteq StmtKind,
         \A b \in bad : b[1] \in StmtKind
  PROVE  ExprNodes \subseteq Trees(bad, stop, under)
<1>1. ExprNodes \in SUBSET Node
  BY NodeAssumption DEF ExprNodes
<1>2. \A n \in ExprNodes :
        /\ Label(n) \notin bad /\ n.kind \notin stop
        /\ Kids(n) \subseteq ExprNodes
  <2> SUFFICES ASSUME NEW n \in ExprNodes
               PROVE  n.kind \notin StmtKind /\ Kids(n) \subseteq ExprNodes
    BY DEF Label
  <2>1. CASE n = Absent
    BY <2>1, KidsOfExpressions DEF Absent, MkNode, StmtKind
  <2>2. CASE n \in Node /\ n.kind \in ExprKind
    BY <2>2, KidsOfExpressions DEF ExprKind, StmtKind
  <2> QED BY <2>1, <2>2 DEF ExprNodes
<1> QED BY <1>1, <1>2, TreesCover

-----------------------------------------------------------------------------
(* The trees that checker, folding and executor are about.                  *)

ScopeKind == {"block", "for", "func"}

\* A statement that returns only from functions that are declared in it.
ReturnFree == Trees({Label(n) : n \in {m \in Node : m.kind = "return"}}, {"func"}, Node)

\* A statement whose functions, wherever they stand, are named in G.
FuncsIn(G) == Trees({"func"} \X (Name \ G), {}, {})

\* A statement on the outermost level whose functions, and whose variables that are not
\* local, are named in G.
Admitted(G) == Trees({"var", "func"} \X (Name \ G), ScopeKind, FuncsIn(G))

\* A statement that does not declare the variable x in the scope it stands in.
Without(x) == Trees({<<"var", x>>}, ScopeKind, Node)

LEMMA KidsAreNodes ==
  ASSUME NEW n \in Node
  PROVE  Kids(n) \subseteq Node
BY NodeAssumption, LenProperties, ElementOfSeq DEF Kids

LEMMA ReturnFreeTrees ==
  /\ ExprNodes \subseteq ReturnFree
  /\ \A n \in ReturnFree :
       n.kind # "return" /\ (n.kind # "func" => Kids(n) \subseteq ReturnFree)
  /\ \A n \in Node :
       n.kind = "func" \/ (n.kind # "return" /\ Kids(n) \subseteq ReturnFree) => n \in ReturnFree
<1> DEFINE bad == {Label(n) : n \in {m \in Node : m.kind = "return"}}
<1>1. \A n \in Node : Label(n) \in bad <=> n.kind = "return"
  BY DEF Label
<1>2. {"func"} \subseteq StmtKind /\ \A b \in bad : b[1] \in StmtKind
  BY DEF Label, StmtKind
<1>3. ReturnFree = Trees(bad, {"func"}, Node)
  BY DEF ReturnFree
<1> HIDE DEF bad
<1>4. ExprNodes \subseteq ReturnFree
  BY <1>2, <1>3, ExpressionTrees
<1>5. ASSUME NEW n \in ReturnFree
      PROVE  n.kind # "return" /\ (n.kind # "func" => Kids(n) \subseteq ReturnFree)
  BY <1>1, <1>3, TreesOut
<1>6. ASSUME NEW n \in Node, n.kind = "func" \/ (n.kind # "return" /\ Kids(n) \subseteq ReturnFree)
      PROVE  n \in ReturnFree
  <2>1. Label(n) \notin bad
    BY <1>1, <1>6
  <2>2. Kids(n) \subseteq IF n.kind \in {"func"} THEN Node ELSE Trees(bad, {"func"}, Node)
    BY <1>3, <1>6, KidsAreNodes
  <2> QED BY <1>3, <2>1, <2>2, TreesIn
<1> QED BY <1>4, <1>5, <1>6

LEMMA FuncsInTrees ==
  ASSUME NEW G
  PROVE  /\ ExprNodes \subseteq FuncsIn(G)
         /\ \A n \in FuncsIn(G) : (n.kind = "func" => n.tok \in G) /\ Kids(n) \subseteq FuncsIn(G)
         /\ \A n \in Node : (n.kind = "func" => n.tok \in G) /\ Kids(n) \subseteq FuncsIn(G)
                            => n \in FuncsIn(G)
         /\ \A H : G \subseteq H => FuncsIn(G) \subseteq FuncsIn(H)
<1> DEFINE bad == {"func"} \X (Name \ G)
<1>1. \A n \in Node : Label(n) \notin bad <=> (n.kind = "func" => n.tok \in G)
  BY NodeAssumption DEF Label
<1>2. \A b \in bad : b[1] \in StmtKind
  BY DEF StmtKind
<1>3. FuncsIn(G) = Trees(bad, {}, {})
  BY DEF FuncsIn
<1>4. \A H : G \subseteq H => FuncsIn(G) \subseteq FuncsIn(H)
  BY TreesGrow DEF FuncsIn
<1> HIDE DEF bad
<1>5. ExprNodes \subseteq FuncsIn(G)
  BY <1>2, <1>3, ExpressionTrees
<1>6. ASSUME NEW n \in FuncsIn(G)
      PROVE  (n.kind = "func" => n.tok \in G) /\ Kids(n) \subseteq FuncsIn(G)
  BY <1>1, <1>3, TreesOut
<1>7. ASSUME NEW n \in Node, n.kind = "func" => n.tok \in G, Kids(n) \subseteq FuncsIn(G)
      PROVE  n \in FuncsIn(G)
  BY <1>1, <1>3, <1>7, TreesIn
<1> QED BY <1>4, <1>5, <1>6, <1>7

LEMMA AdmittedTrees ==
  ASSUME NEW G
  PROVE  /\ ExprNodes \subseteq Admitted(G)
         /\ \A n \in Admitted(G) :
              /\ n.kind \in {"var", "func"} => n.tok \in G
              /\ Kids(n) \subseteq IF n.kind \in ScopeKind THEN FuncsIn(G) ELSE Admitted(G)
         /\ \A n \in Node :
              /\ n.kind \in {"var", "func"} => n.tok \in G
              /\ Kids(n) \subseteq IF n.kind \in ScopeKind THEN FuncsIn(G) ELSE Admitted(G)
              => n \in Admitted(G)
         /\ \A H : G \subseteq H => Admitted(G) \subseteq Admitted(H)
         /\ Admitted(G) \subseteq FuncsIn(G)
<1> DEFINE bad == {"var", "func"} \X (Name \ G)
<1>1. \A n \in Node : Label(n) \notin bad <=> (n.kind \in {"var", "func"} => n.tok \in G)
  BY NodeAssumption DEF Label
<1>2. ScopeKind \subseteq StmtKind /\ \A b \in bad : b[1] \in StmtKind
  BY DEF StmtKind, ScopeKind
<1>3. Admitted(G) = Trees(bad, ScopeKind, FuncsIn(G))
  BY DEF Admitted
<1>4. \A H : G \subseteq H => Admitted(G) \subseteq Admitted(H)
  BY TreesGrow, FuncsInTrees DEF Admitted
<1> HIDE DEF bad
<1>5. ExprNodes \subseteq Admitted(G)
  BY <1>2, <1>3, ExpressionTrees
<1>6. ASSUME NEW n \in Admitted(G)
      PROVE  /\ n.kind \in {"var", "func"} => n.tok \in G
             /\ Kids(n) \subseteq IF n.kind \in ScopeKind THEN FuncsIn(G) ELSE Admitted(G)
             /\ n \in Node
  BY <1>1, <1>3, TreesOut
<1>7. ASSUME NEW n \in Node, n.kind \in {"var", "func"} => n.tok \in G,
             Kids(n) \subseteq IF n.kind \in ScopeKind THEN FuncsIn(G) ELSE Admitted(G)
      PROVE  n \in Admitted(G)
  BY <1>1, <1>3, <1>7, TreesIn
<1>8. Admitted(G) \subseteq FuncsIn(G)
  <2> DEFINE S == Admitted(G)
             none == {"func"} \X (Name \ G)
  <2>1. \A n \in S : /\ Label(n) \notin none
                    /\ Kids(n) \subseteq IF n.kind \in {} THEN {} ELSE S \cup Trees(none, {}, {})
    BY <1>6 DEF FuncsIn, Label
  <2>2. S \in SUBSET Node
    BY <1>6
  <2> HIDE DEF S, none
  <2>3. S \subseteq Trees(none, {}, {})
    BY <2>1, <2>2, TreesCover
  <2> QED BY <2>3 DEF S, none, FuncsIn
<1> QED BY <1>4, <1>5, <1>6, <1>7, <1>8

LEMMA WithoutTrees ==
  ASSUME NEW x
  PROVE  /\ ExprNodes \subseteq Without(x)
         /\ \A n \in Without(x) :
              /\ ~(n.kind = "var" /\ n.tok = x)
              /\ n.kind \notin ScopeKind => Kids(n) \subseteq Without(x)
         /\ \A n \in Node :
              \/ n.kind \in ScopeKind
              \/ ~(n.kind = "var" /\ n.tok = x) /\ Kids(n) \subseteq Without(x)
              => n \in Without(x)
<1> DEFINE bad == {<<"var", x>>}
<1>1. \A n \in Node : Label(n) \in bad <=> (n.kind = "var" /\ n.tok = x)
  BY DEF Label
<1>2. ScopeKind \subseteq StmtKind /\ "var" \notin ScopeKind /\ \A b \in bad : b[1] \in StmtKind
  BY DEF StmtKind, ScopeKind
<1>3. Without(x) = Trees(bad, ScopeKind, Node)
  BY DEF Without
<1> HIDE DEF bad
<1>4. ExprNodes \subseteq Without(x)
  BY <1>2, <1>3, ExpressionTrees
<1>5. ASSUME NEW n \in Without(x)
      PROVE  /\ ~(n.kind = "var" /\ n.tok = x)
             /\ n.kind \notin ScopeKind => Kids(n) \subseteq Without(x)
  BY <1>1, <1>3, TreesOut
<1>6. ASSUME NEW n \in Node,
             \/ n.kind \in ScopeKind
             \/ ~(n.kind = "var" /\ n.tok = x) /\ Kids(n) \subseteq Without(x)
      PROVE  n \in Without(x)
  <2>1. Label(n) \notin bad
    BY <1>1, <1>2, <1>6
  <2>2. Kids(n) \subseteq IF n.kind \in ScopeKind THEN Node ELSE Trees(bad, ScopeKind, Node)
    BY <1>3, <1>6, KidsAreNodes
  <2> QED BY <1>3, <2>1, <2>2, TreesIn
<1> QED BY <1>4, <1>5, <1>6
=============================================================================
