---------------------------- MODULE ArraysProofs ----------------------------
(***************************************************************************)
(* Arrays on every heap and for integers and doubles of every width: what  *)
(* "visited" is, how deep the recursion of stringify goes, what it writes  *)
(* as [...] and what it writes out; and which numbers the casts let past.  *)
(***************************************************************************)
EXTENDS Arrays, Induction

Entry    == Stored \cup {Nil} \cup {Array(a) : a \in Nat}
WalkType == [array : Nat, next : Nat \ {0}]

\* Arrays hold arrays of the heap only, and so does the stack of stringify.
HeapClosed ==
  /\ heap \in Seq(Seq(Entry))
  /\ \A a \in DOMAIN heap : \A i \in DOMAIN heap[a] :
       IsArray(heap[a][i]) => heap[a][i].n \in DOMAIN heap
WalkInHeap ==
  /\ walk \in Seq(WalkType)
  /\ \A i \in DOMAIN walk : walk[i].array \in DOMAIN heap

WalkInv == HeapClosed /\ WalkInHeap /\ VisitedIsPath

\* Numbers and nil are no arrays.
LEMMA StoredIsNoArray ==
  ASSUME NEW v \in Double \cup {Nil}
  PROVE  ~IsArray(v)
BY DEF Double, Special, Finite, Nil, IsArray

\* An element may be replaced.
LEMMA ReplaceOne ==
  ASSUME NEW S, NEW s \in Seq(S), NEW i, NEW e \in S
  PROVE  LET t == [s EXCEPT ![i] = e] IN
         t \in Seq(S) /\ Len(t) = Len(s) /\ DOMAIN t = DOMAIN s
<1> DEFINE t == [s EXCEPT ![i] = e]
<1>1. DOMAIN t = 1..Len(s) /\ Len(s) \in Nat
  OBVIOUS
<1>2. \A j \in 1..Len(s) : t[j] \in S
  OBVIOUS
<1>3. t = [j \in 1..Len(s) |-> t[j]]
  BY <1>1
<1> HIDE DEF t
<1>4. t \in Seq(S) /\ Len(t) = Len(s)
  BY <1>1, <1>2, <1>3
<1> QED BY <1>1, <1>4 DEF t

\* What a program does while nothing is printed.
LEMMA ProgramStep ==
  ASSUME WalkInv, Program
  PROVE  WalkInv'
<1> USE DEF WalkInv, HeapClosed, WalkInHeap, VisitedIsPath, Idle, Forget
<1>1. ASSUME NEW d \in Double, CallBuiltinArray(d) PROVE WalkInv'
  <2>1. PICK size \in 0..MaxLength : heap' = Append(heap, [i \in 1..size |-> Nil])
    BY <1>1 DEF CallBuiltinArray
  <2>2. [i \in 1..size |-> Nil] \in Seq(Entry)
    BY <2>1, ArraysAssumption DEF Entry
  <2>3. heap' \in Seq(Seq(Entry)) /\ Len(heap') = Len(heap) + 1
    BY <2>1, <2>2
  <2>4. \A a \in DOMAIN heap' : a \in DOMAIN heap \/ heap'[a] = [i \in 1..size |-> Nil]
    BY <2>1, <2>2
  <2>5. \A a \in DOMAIN heap : heap'[a] = heap[a]
    BY <2>1, <2>2
  <2>6. DOMAIN heap \subseteq DOMAIN heap'
    BY <2>1, <2>2
  <2>7. HeapClosed'
    BY <2>3, <2>4, <2>5, <2>6, StoredIsNoArray
  <2> QED BY <1>1, <2>7 DEF CallBuiltinArray
<1>2. ASSUME NEW a \in DOMAIN heap, NEW d \in Double, VisitIndexExpr(a, d) PROVE WalkInv'
  BY <1>2 DEF VisitIndexExpr
<1>3. ASSUME NEW a \in DOMAIN heap, NEW d \in Double, NEW v \in Values,
             VisitIndexAssignExpr(a, d, v)
      PROVE  WalkInv'
  <2> DEFINE size == Len(heap[a])
  <2>1. PICK i \in RequireIndex(d, size) : heap' = [heap EXCEPT ![a][i + 1] = v]
    BY <1>3 DEF VisitIndexAssignExpr
  <2>2. v \in Entry /\ (IsArray(v) => v.n \in DOMAIN heap)
    BY StoredAssumption, StoredIsNoArray DEF Values, Entry, Array, IsArray
  <2>3. heap[a] \in Seq(Entry)
    OBVIOUS
  <2>4. [heap[a] EXCEPT ![i + 1] = v] \in Seq(Entry)
    BY <2>2, <2>3, ReplaceOne
  <2>5. heap' = [heap EXCEPT ![a] = [heap[a] EXCEPT ![i + 1] = v]]
    BY <2>1
  <2>6. heap' \in Seq(Seq(Entry)) /\ DOMAIN heap' = DOMAIN heap
    BY <2>4, <2>5
  <2>7. ASSUME NEW b \in DOMAIN heap', NEW j \in DOMAIN heap'[b], IsArray(heap'[b][j])
        PROVE  heap'[b][j].n \in DOMAIN heap'
    <3>1. CASE b = a /\ j = i + 1
      BY <3>1, <2>2, <2>5, <2>6, <2>7
    <3>2. CASE b = a /\ j # i + 1
      BY <3>2, <2>3, <2>5, <2>6, <2>7
    <3>3. CASE b # a
      BY <3>3, <2>5, <2>6, <2>7
    <3> QED BY <3>1, <3>2, <3>3
  <2>8. HeapClosed'
    BY <2>6, <2>7
  <2> QED BY <1>3, <2>6, <2>8 DEF VisitIndexAssignExpr
<1>4. ASSUME NEW v, VisitPrintStmt(v), IsArray(v) => v.n \in DOMAIN heap PROVE WalkInv'
  <2>1. CASE IsArray(v)
    <3>1. /\ walk' = <<Activation(v.n)>> /\ visited' = {v.n} /\ UNCHANGED heap
          /\ v.n \in DOMAIN heap /\ v.n \in Nat
      BY <1>4, <2>1 DEF VisitPrintStmt
    <3>2. Activation(v.n) \in WalkType /\ Activation(v.n).array = v.n
      BY <3>1 DEF Activation, WalkType
    <3>3. walk' \in Seq(WalkType) /\ DOMAIN walk' = {1} /\ walk'[1].array = v.n
      BY <3>1, <3>2
    <3> QED BY <3>1, <3>3
  <2>2. CASE ~IsArray(v)
    BY <1>4, <2>2 DEF VisitPrintStmt
  <2> QED BY <2>1, <2>2
<1>5. ASSUME NEW d \in Double, VisitPrintStmt(d) PROVE WalkInv'
  BY <1>4, <1>5, StoredIsNoArray
<1>6. ASSUME NEW a \in DOMAIN heap, VisitPrintStmt(Array(a)) PROVE WalkInv'
  BY <1>4, <1>6 DEF Array
<1> QED BY <1>1, <1>2, <1>3, <1>5, <1>6 DEF Program

\* The activation on top goes on to its next element.
LEMMA AdvanceStep ==
  ASSUME WalkInv, ~Idle
  PROVE  /\ Advanced \in Seq(WalkType)
         /\ Len(Advanced) = Len(walk)
         /\ \A i \in DOMAIN walk : Advanced[i].array = walk[i].array
<1> DEFINE last == Len(walk)
           next == [walk[last] EXCEPT !.next = @ + 1]
<1>1. walk \in Seq(WalkType) /\ last \in DOMAIN walk
  BY DEF WalkInv, WalkInHeap, Idle
<1>2. next \in WalkType /\ next.array = walk[last].array
  <2>1. walk[last] \in WalkType
    BY <1>1
  <2> QED BY <2>1 DEF WalkType
<1>3. Advanced = [walk EXCEPT ![last] = next]
  BY DEF Advanced
<1>4. Advanced \in Seq(WalkType) /\ Len(Advanced) = Len(walk)
  BY <1>1, <1>2, <1>3, ReplaceOne
<1>5. \A i \in DOMAIN walk : Advanced[i].array = walk[i].array
  BY <1>1, <1>2, <1>3
<1> QED BY <1>4, <1>5

LEMMA StringifyStep ==
  ASSUME WalkInv, Stringify
  PROVE  WalkInv'
<1> USE DEF WalkInv, HeapClosed, WalkInHeap, VisitedIsPath
<1>1. ~Idle /\ Len(walk) \in Nat \ {0}
  BY DEF Stringify, WriteValue, WriteDots, OpenArray, CloseArray, HasNext, Idle
<1>2. CASE WriteValue \/ WriteDots
  <2>1. walk' = Advanced /\ UNCHANGED <<heap, visited>>
    BY <1>2 DEF WriteValue, WriteDots
  <2>2. /\ walk' \in Seq(WalkType) /\ DOMAIN walk' = DOMAIN walk
        /\ \A i \in DOMAIN walk : walk'[i].array = walk[i].array
    BY <1>1, <2>1, AdvanceStep
  <2>3. HeapClosed' /\ WalkInHeap'
    BY <2>1, <2>2
  <2>4. visited' = {walk'[i].array : i \in DOMAIN walk'}
    <3>1. {walk'[i].array : i \in DOMAIN walk'} = {walk[i].array : i \in DOMAIN walk}
      BY SMTT(60), <2>2
    <3> QED BY <2>1, <3>1
  <2>5. \A i, j \in DOMAIN walk' : walk'[i].array = walk'[j].array => i = j
    BY <2>2
  <2> QED BY <2>3, <2>4, <2>5
<1>3. CASE OpenArray
  <2> DEFINE b == Element.n
  <2>1. Current \in WalkType /\ Current.array \in DOMAIN heap
    BY <1>1 DEF Current
  <2>2. b \in DOMAIN heap /\ b \in Nat /\ b \notin visited
    <3>1. Element = heap[Current.array][Current.next] /\ IsArray(Element) /\ b \notin visited
      BY <1>3 DEF OpenArray, Element
    <3>2. Current.next \in 1..Len(heap[Current.array])
      BY <1>3, <2>1 DEF OpenArray, HasNext, WalkType
    <3>3. heap[Current.array] \in Seq(Entry)
      BY <2>1
    <3>4. Current.next \in DOMAIN heap[Current.array]
      BY <3>2, <3>3
    <3> QED BY <2>1, <3>1, <3>4
  <2>3. walk' = Append(Advanced, Activation(b)) /\ visited' = visited \cup {b}
        /\ UNCHANGED heap
    BY <1>3 DEF OpenArray
  <2>4. Activation(b) \in WalkType /\ Activation(b).array = b
    BY <2>2 DEF Activation, WalkType
  <2>5. /\ walk' \in Seq(WalkType) /\ Len(walk') = Len(walk) + 1
        /\ \A i \in DOMAIN walk : walk'[i].array = walk[i].array
        /\ walk'[Len(walk) + 1].array = b
    BY <1>1, <2>3, <2>4, AdvanceStep
  <2>6. DOMAIN walk' = DOMAIN walk \cup {Len(walk) + 1}
    BY <1>1, <2>5
  <2>7. WalkInHeap'
    BY <2>2, <2>3, <2>5, <2>6
  <2>8. visited' = {walk'[i].array : i \in DOMAIN walk'}
    <3>1. \A i \in DOMAIN walk' : walk'[i].array \in visited'
      BY <2>3, <2>5, <2>6
    <3>2. ASSUME NEW x \in visited' PROVE \E i \in DOMAIN walk' : x = walk'[i].array
      <4>1. CASE x = b
        BY <4>1, <2>5, <2>6
      <4>2. CASE x \in visited
        <5>1. PICK i \in DOMAIN walk : x = walk[i].array
          BY <4>2
        <5> QED BY <5>1, <2>5, <2>6
      <4> QED BY <2>3, <4>1, <4>2
    <3> QED BY <3>1, <3>2
  <2>9. ASSUME NEW i \in DOMAIN walk', NEW j \in DOMAIN walk', walk'[i].array = walk'[j].array
        PROVE  i = j
    <3>1. \A k \in DOMAIN walk : walk'[k].array \in visited /\ walk'[k].array # b
      BY ZenonT(60), <2>2, <2>5
    <3>2. CASE i \in DOMAIN walk /\ j \in DOMAIN walk
      BY <3>2, <2>5, <2>9
    <3>3. CASE i = Len(walk) + 1 \/ j = Len(walk) + 1
      BY <3>1, <3>3, <2>5, <2>6, <2>9
    <3> QED BY <2>6, <3>2, <3>3
  <2> QED BY <2>3, <2>7, <2>8, <2>9
<1>4. CASE CloseArray
  <2> DEFINE last == Len(walk)
  <2>1. walk' = SubSeq(walk, 1, last - 1) /\ visited' = visited \ {walk[last].array}
        /\ UNCHANGED heap
    BY <1>4 DEF CloseArray, Current
  <2>2. walk' \in Seq(WalkType) /\ DOMAIN walk' = DOMAIN walk \ {last}
    BY <1>1, <2>1
  <2>3. \A i \in DOMAIN walk' : walk'[i] = walk[i]
    BY <1>1, <2>1
  <2>4. last \in DOMAIN walk
    BY <1>1
  <2>5. visited' = {walk'[i].array : i \in DOMAIN walk'}
    BY SMTT(60), <2>1, <2>2, <2>3, <2>4
  <2> QED BY ZenonT(60), <2>1, <2>2, <2>3, <2>5
<1> QED BY <1>2, <1>3, <1>4 DEF Stringify

LEMMA WalkInductive == Init => WalkInv
BY DEF Init, WalkInv, HeapClosed, WalkInHeap, VisitedIsPath

LEMMA WalkNext == WalkInv /\ [Next]_arraysVars => WalkInv'
<1>1. UNCHANGED arraysVars /\ WalkInv => WalkInv'
  BY DEF arraysVars, WalkInv, HeapClosed, WalkInHeap, VisitedIsPath
<1> QED BY <1>1, ProgramStep, StringifyStep DEF Next

\* The set "visited" is at every moment the set of the arrays that are open, each once,
\* on every heap a program can build: nothing is left in it and nothing is missing.
THEOREM VisitedArrays == Spec => []VisitedIsPath
<1>1. WalkInv => VisitedIsPath
  BY DEF WalkInv
<1> QED BY <1>1, WalkInductive, WalkNext, PTL DEF Spec

\* stringify is never active more often than there are arrays, whatever cycles they form.
THEOREM DepthIsBounded == Spec => [](Len(walk) <= Len(heap))
<1>1. ASSUME WalkInv PROVE Len(walk) <= Len(heap)
  <2> DEFINE W == 1..Len(walk)
             H == 1..Len(heap)
             f == [i \in W |-> walk[i].array]
  <2>1. Len(walk) \in Nat /\ Len(heap) \in Nat /\ DOMAIN walk = W /\ DOMAIN heap = H
    BY <1>1 DEF WalkInv, WalkInHeap, HeapClosed
  <2>2. f \in Injection(W, H)
    BY <1>1, <2>1 DEF WalkInv, WalkInHeap, VisitedIsPath, Injection, IsInjective
  <2>3. /\ IsFiniteSet(W) /\ Cardinality(W) = Len(walk)
        /\ IsFiniteSet(H) /\ Cardinality(H) = Len(heap)
    <3>1. \A n \in Nat : IsFiniteSet(1..n) /\ Cardinality(1..n) = n
      BY FS_Interval
    <3> QED BY <2>1, <3>1
  <2>4. Cardinality(W) <= Cardinality(H)
    BY <2>2, <2>3, FS_Injection
  <2> QED BY <2>3, <2>4
<1> QED BY <1>1, WalkInductive, WalkNext, PTL DEF Spec

-----------------------------------------------------------------------------
(* What stringify writes.  An array is cut only where it is open already:   *)
(* the activations above it lead from its elements back to it, each being   *)
(* an element of the one below.  What was opened and is closed again has    *)
(* had all its elements opened; an activation, those before its next one.   *)

\* Each activation is on an element of the one below.
WalkLinked ==
  \A i \in DOMAIN walk : i + 1 \in DOMAIN walk => walk[i + 1].array \in ElementsOf({walk[i].array})

\* The elements of an array up to a place are among the arrays written out.
WrittenUpTo(as, a, place) ==
  \A k \in 1..(place - 1) : k \in DOMAIN a /\ IsArray(a[k]) => a[k].n \in as
Written ==
  /\ opened \subseteq DOMAIN heap /\ visited \subseteq opened
  /\ \A i \in DOMAIN walk : WrittenUpTo(opened, heap[walk[i].array], walk[i].next)
  /\ \A a \in opened \ visited : WrittenUpTo(opened, heap[a], Len(heap[a]) + 1)

PrintInv == WalkInv /\ WalkLinked /\ Written /\ DotsMeanCycle

\* An element of an array that is an array.
LEMMA ElementsAreElements ==
  ASSUME WalkInv, NEW a \in DOMAIN heap, NEW k \in DOMAIN heap[a], IsArray(heap[a][k])
  PROVE  /\ heap[a][k] = Array(heap[a][k].n)
         /\ heap[a][k].n \in ElementsOf({a})
<1>1. heap[a] \in Seq(Entry) /\ heap[a][k].n \in DOMAIN heap
  BY DEF WalkInv, HeapClosed
<1>2. heap[a][k] \in Entry
  BY <1>1
<1>3. heap[a][k] = Array(heap[a][k].n)
  BY <1>2, StoredIsNoArray, StoredAssumption DEF Entry, Array
<1> QED BY <1>1, <1>3 DEF ElementsOf

\* The array on top of the walk, and where it is.
LEMMA CurrentIs ==
  ASSUME WalkInv, ~Idle
  PROVE  /\ Len(walk) \in DOMAIN walk /\ Len(walk) \in Nat \ {0}
         /\ Current \in WalkType /\ Current.array \in DOMAIN heap
         /\ heap[Current.array] \in Seq(Entry)
         /\ HasNext => Current.next \in DOMAIN heap[Current.array]
<1>1. Len(walk) \in DOMAIN walk /\ Len(walk) \in Nat \ {0}
  BY DEF WalkInv, WalkInHeap, Idle
<1>2. Current \in WalkType /\ Current.array \in DOMAIN heap
  BY <1>1 DEF WalkInv, WalkInHeap, Current
<1>3. heap[Current.array] \in Seq(Entry)
  BY <1>2 DEF WalkInv, HeapClosed
<1>4. HasNext => Current.next \in DOMAIN heap[Current.array]
  BY <1>2, <1>3 DEF HasNext, WalkType
<1> QED BY <1>1, <1>2, <1>3, <1>4

\* An array that is open and an element of the current one contains itself.
LEMMA OpenInItself ==
  ASSUME WalkInv, WalkLinked, ~Idle, NEW a \in visited, a \in ElementsOf({Current.array})
  PROVE  InItself(a)
<1> SUFFICES ASSUME NEW as \in SUBSET DOMAIN heap, ElementsOf(as \cup {a}) \subseteq as
             PROVE  a \in as
  BY DEF InItself
<1>1. PICK i \in DOMAIN walk : walk[i].array = a
  BY DEF WalkInv, VisitedIsPath
<1>2. i \in Nat /\ Len(walk) \in Nat /\ DOMAIN walk = 1..Len(walk)
  BY DEF WalkInv, WalkInHeap
<1> DEFINE S == {k \in Nat : \A j \in DOMAIN walk : j = i + k => walk[j].array \in as \cup {a}}
<1>3. 0 \in S
  <2>1. \A j \in DOMAIN walk : j = i + 0 => j = i
    BY <1>2
  <2> QED BY <1>1, <2>1
<1>4. ASSUME NEW k \in S PROVE k + 1 \in S
  <2>1. k \in Nat /\ k + 1 \in Nat
    BY <1>4
  <2>2. ASSUME NEW j \in DOMAIN walk, j = i + (k + 1) PROVE walk[j].array \in as \cup {a}
    <3>1. j - 1 \in DOMAIN walk /\ j - 1 = i + k /\ (j - 1) + 1 = j
      BY <1>2, <2>1, <2>2
    <3>2. walk[j - 1].array \in as \cup {a}
      BY <1>4, <3>1
    <3>3. walk[j].array \in ElementsOf({walk[j - 1].array})
      BY <3>1 DEF WalkLinked
    <3> QED BY <3>2, <3>3 DEF ElementsOf
  <2> QED BY <2>1, <2>2
<1>5. S = Nat
  <2>1. S \in SUBSET Nat
    OBVIOUS
  <2> HIDE DEF S
  <2> QED BY <1>3, <1>4, <2>1, SetInduction
<1>6. Current.array \in as \cup {a}
  <2>1. Len(walk) - i \in Nat /\ Len(walk) = i + (Len(walk) - i) /\ Len(walk) \in DOMAIN walk
    BY <1>1, <1>2
  <2>2. Len(walk) - i \in S
    BY <1>5, <2>1
  <2> QED BY <2>1, <2>2 DEF Current
<1> QED BY <1>6 DEF ElementsOf

\* Stores and new arrays forget what was printed before.
LEMMA ProgramPrints ==
  ASSUME PrintInv, Program
  PROVE  WalkLinked' /\ Written' /\ DotsMeanCycle'
<1>1. CASE Forget /\ walk = <<>> /\ UNCHANGED <<walk, visited>>
  <2>1. visited' = {} /\ opened' = {} /\ cut' = {} /\ walk' = <<>>
    BY <1>1 DEF Forget, PrintInv, WalkInv, VisitedIsPath
  <2> QED BY <2>1 DEF WalkLinked, Written, DotsMeanCycle
<1>2. ASSUME NEW v, VisitPrintStmt(v), ~IsArray(v)
      PROVE  WalkLinked' /\ Written' /\ DotsMeanCycle'
  <2>1. visited' = {} /\ opened' = {} /\ cut' = {} /\ walk' = <<>>
    BY <1>2 DEF VisitPrintStmt, Idle, PrintInv, WalkInv, VisitedIsPath
  <2> QED BY <2>1 DEF WalkLinked, Written, DotsMeanCycle
<1>3. ASSUME NEW a \in DOMAIN heap, VisitPrintStmt(Array(a))
      PROVE  WalkLinked' /\ Written' /\ DotsMeanCycle'
  <2>1. /\ walk' = <<Activation(a)>> /\ visited' = {a} /\ opened' = {a} /\ cut' = {}
        /\ UNCHANGED heap
    BY <1>3 DEF VisitPrintStmt, IsArray, Array
  <2>2. DOMAIN walk' = {1} /\ walk'[1].array = a /\ walk'[1].next = 1
    BY <2>1 DEF Activation
  <2> QED BY <2>1, <2>2 DEF WalkLinked, Written, WrittenUpTo, DotsMeanCycle
<1>4. ASSUME NEW d \in Double, VisitPrintStmt(d) PROVE ~IsArray(d)
  BY StoredIsNoArray
<1> QED BY <1>1, <1>2, <1>3, <1>4 DEF Program, CallBuiltinArray, VisitIndexExpr,
           VisitIndexAssignExpr, Idle

\* The current activation goes on after an element that is no array, or one that is
\* opened by now; the others stay where they are.
LEMMA ElementWritten ==
  ASSUME PrintInv, HasNext, NEW as, opened \subseteq as, IsArray(Element) => Element.n \in as
  PROVE  /\ \A i \in DOMAIN walk : WrittenUpTo(as, heap[Advanced[i].array], Advanced[i].next)
         /\ \A a \in opened \ visited : WrittenUpTo(as, heap[a], Len(heap[a]) + 1)
<1>1. ~Idle /\ walk \in Seq(WalkType) /\ WalkInv
  BY DEF HasNext, PrintInv, WalkInv, WalkInHeap
<1>2. \A i \in DOMAIN walk : WrittenUpTo(as, heap[walk[i].array], walk[i].next)
  BY DEF PrintInv, Written, WrittenUpTo
<1> DEFINE last == Len(walk)
           next == [walk[last] EXCEPT !.next = @ + 1]
<1>3. /\ last \in DOMAIN walk /\ walk[last] \in WalkType
      /\ next.array = Current.array /\ next.next = Current.next + 1
  BY <1>1, CurrentIs DEF Current, WalkType
<1>4. Advanced = [walk EXCEPT ![last] = next]
  BY DEF Advanced
<1>5. ASSUME NEW i \in DOMAIN walk
      PROVE  WrittenUpTo(as, heap[Advanced[i].array], Advanced[i].next)
  <2>1. CASE i = last
    <3>1. Advanced[i] = next /\ walk[i] = Current
      BY <1>1, <1>3, <1>4, <2>1 DEF Current
    <3>2. Current.next \in Nat \ {0}
      BY <1>1, CurrentIs DEF WalkType
    <3>3. WrittenUpTo(as, heap[Current.array], Current.next)
      BY <1>2, <1>3, <3>1
    <3>4. \A k \in 1..((Current.next + 1) - 1) : k \in 1..(Current.next - 1) \/ k = Current.next
      BY <3>2
    <3>5. WrittenUpTo(as, heap[Current.array], Current.next + 1)
      <4> SUFFICES ASSUME NEW k \in 1..((Current.next + 1) - 1), k \in DOMAIN heap[Current.array],
                          IsArray(heap[Current.array][k])
                   PROVE  heap[Current.array][k].n \in as
        BY DEF WrittenUpTo
      <4>1. CASE k \in 1..(Current.next - 1)
        BY <3>3, <4>1 DEF WrittenUpTo
      <4>2. CASE k = Current.next
        BY <4>2 DEF Element
      <4> QED BY <3>4, <4>1, <4>2
    <3> QED BY <1>3, <3>1, <3>5
  <2>2. CASE i # last
    BY <1>1, <1>2, <1>4, <2>2
  <2> QED BY <2>1, <2>2
<1>6. \A a \in opened \ visited : WrittenUpTo(as, heap[a], Len(heap[a]) + 1)
  BY DEF PrintInv, Written, WrittenUpTo
<1> QED BY <1>5, <1>6

LEMMA StringifyPrints ==
  ASSUME PrintInv, Stringify
  PROVE  WalkLinked' /\ Written' /\ DotsMeanCycle'
<1>1. /\ ~Idle /\ WalkInv /\ UNCHANGED heap /\ heap \in Seq(Seq(Entry))
      /\ Len(walk) \in Nat \ {0} /\ DOMAIN walk = 1..Len(walk)
  BY CurrentIs DEF PrintInv, WalkInv, HeapClosed, WalkInHeap, Stringify, WriteValue, WriteDots,
                   OpenArray, CloseArray, HasNext, Idle
<1>2. \A a : InItself(a) => InItself(a)'
  BY <1>1 DEF InItself, ElementsOf
<1>3. \A a : ElementsOf({a})' = ElementsOf({a})
  BY <1>1 DEF ElementsOf
<1>4. /\ Len(Advanced) = Len(walk) /\ DOMAIN Advanced = DOMAIN walk
      /\ \A i \in DOMAIN walk : Advanced[i].array = walk[i].array
  BY <1>1, AdvanceStep
<1>5. opened \subseteq DOMAIN heap /\ visited \subseteq opened
  BY DEF PrintInv, Written
<1>6. CASE WriteValue \/ WriteDots
  <2>1. walk' = Advanced /\ UNCHANGED <<visited, opened>> /\ HasNext
    BY <1>6 DEF WriteValue, WriteDots
  <2>2. IsArray(Element) => Element.n \in opened
    BY <1>5, <1>6 DEF WriteValue, WriteDots
  <2>3. WalkLinked'
    <3>1. \A i \in DOMAIN walk : i + 1 \in DOMAIN walk => walk[i + 1].array \in ElementsOf({walk[i].array})
      BY DEF PrintInv, WalkLinked
    <3> QED BY <1>3, <1>4, <2>1, <3>1 DEF WalkLinked
  <2>4. Written'
    BY <1>1, <1>4, <1>5, <2>1, <2>2, ElementWritten DEF Written
  <2>5. cut' = cut \/ (cut' = cut \cup {Element.n} /\ IsArray(Element) /\ Element.n \in visited)
    BY <1>6 DEF WriteValue, WriteDots
  <2>6. IsArray(Element) => Element.n \in ElementsOf({Current.array})
    BY <1>1, <2>1, CurrentIs, ElementsAreElements DEF Element
  <2>7. ASSUME NEW a \in cut' PROVE InItself(a)
    <3>1. a \in cut \/ (a = Element.n /\ IsArray(Element) /\ a \in visited)
      BY <2>5
    <3>2. a \in cut => InItself(a)
      BY DEF PrintInv, DotsMeanCycle
    <3>3. a \in visited /\ a \in ElementsOf({Current.array}) => InItself(a)
      BY <1>1, OpenInItself DEF PrintInv
    <3> QED BY <2>6, <3>1, <3>2, <3>3
  <2>8. DotsMeanCycle'
    BY <1>2, <2>7 DEF DotsMeanCycle
  <2> QED BY <2>3, <2>4, <2>8
<1>7. CASE OpenArray
  <2> DEFINE b == Element.n
             as == opened \cup {b}
  <2>1. /\ walk' = Append(Advanced, Activation(b)) /\ visited' = visited \cup {b}
        /\ opened' = as /\ HasNext /\ IsArray(Element) /\ b \notin visited /\ UNCHANGED cut
    BY <1>7 DEF OpenArray
  <2>2. b \in ElementsOf({Current.array}) /\ b \in DOMAIN heap
    BY <1>1, <2>1, CurrentIs, ElementsAreElements DEF Element, ElementsOf
  <2>3. /\ Advanced \in Seq(WalkType) /\ Activation(b) \in WalkType
        /\ Activation(b).array = b /\ Activation(b).next = 1
    BY <1>1, <2>2, AdvanceStep DEF Activation, WalkType
  <2>4. /\ DOMAIN walk' = 1..(Len(walk) + 1)
        /\ \A i \in DOMAIN walk : walk'[i] = Advanced[i]
        /\ walk'[Len(walk) + 1] = Activation(b)
    BY <1>1, <1>4, <2>1, <2>3
  <2>5. WalkLinked'
    <3> SUFFICES ASSUME NEW i \in DOMAIN walk', i + 1 \in DOMAIN walk'
                 PROVE  walk'[i + 1].array \in ElementsOf({walk'[i].array})
      BY <1>3 DEF WalkLinked
    <3>1. CASE i + 1 \in DOMAIN walk
      <4>1. i \in DOMAIN walk
        BY <1>1, <2>4, <3>1
      <4>2. walk'[i].array = walk[i].array /\ walk'[i + 1].array = walk[i + 1].array
        BY <1>4, <2>4, <3>1, <4>1
      <4> QED BY <3>1, <4>1, <4>2 DEF PrintInv, WalkLinked
    <3>2. CASE i = Len(walk)
      <4>1. walk'[i].array = Current.array
        BY <1>1, <1>4, <2>4, <3>2 DEF Current
      <4> QED BY <2>2, <2>3, <2>4, <3>2, <4>1
    <3> QED BY <1>1, <2>4, <3>1, <3>2
  <2>6. Written'
    <3>1. /\ \A i \in DOMAIN walk : WrittenUpTo(as, heap[Advanced[i].array], Advanced[i].next)
          /\ \A a \in opened \ visited : WrittenUpTo(as, heap[a], Len(heap[a]) + 1)
      BY <2>1, ElementWritten
    <3>2. WrittenUpTo(as, heap[b], 1)
      BY DEF WrittenUpTo
    <3>3. ASSUME NEW i \in DOMAIN walk'
          PROVE  WrittenUpTo(as, heap[walk'[i].array], walk'[i].next)
      <4>1. CASE i \in DOMAIN walk
        <5>1. walk'[i] = Advanced[i]
          BY <2>4, <4>1
        <5> QED BY <3>1, <4>1, <5>1
      <4>2. CASE i = Len(walk) + 1
        <5>1. walk'[i].array = b /\ walk'[i].next = 1
          BY <2>3, <2>4, <4>2
        <5> QED BY <3>2, <5>1
      <4> QED BY <1>1, <2>4, <4>1, <4>2
    <3>4. opened' \subseteq DOMAIN heap /\ visited' \subseteq opened'
      BY <1>5, <2>1, <2>2
    <3>5. opened' \ visited' \subseteq opened \ visited
      BY <2>1
    <3> QED BY <1>1, <2>1, <3>1, <3>3, <3>4, <3>5 DEF Written
  <2>7. DotsMeanCycle'
    BY <1>2, <2>1 DEF PrintInv, DotsMeanCycle
  <2> QED BY <2>5, <2>6, <2>7
<1>8. CASE CloseArray
  <2> DEFINE last == Len(walk)
  <2>1. /\ walk' = SubSeq(walk, 1, last - 1) /\ visited' = visited \ {Current.array}
        /\ UNCHANGED <<opened, cut>> /\ ~HasNext
    BY <1>8 DEF CloseArray
  <2>2. walk \in Seq(WalkType)
    BY <1>1 DEF WalkInv, WalkInHeap
  <2>3. DOMAIN walk' = 1..(last - 1) /\ \A i \in 1..(last - 1) : walk'[i] = walk[i]
    BY <1>1, <2>1, <2>2
  <2>4. WalkLinked'
    <3> SUFFICES ASSUME NEW i \in DOMAIN walk', i + 1 \in DOMAIN walk'
                 PROVE  walk'[i + 1].array \in ElementsOf({walk'[i].array})
      BY <1>3 DEF WalkLinked
    <3>1. i \in DOMAIN walk /\ i + 1 \in DOMAIN walk /\ walk'[i] = walk[i] /\ walk'[i + 1] = walk[i + 1]
      BY <1>1, <2>3
    <3> QED BY <3>1 DEF PrintInv, WalkLinked
  <2>5. Written'
    <3>1. WrittenUpTo(opened, heap[Current.array], Current.next)
      BY <1>1 DEF PrintInv, Written, Current
    <3>2. Len(heap[Current.array]) \in Nat /\ Current.next \in Nat /\ Current.array \in DOMAIN heap
      BY <1>1, CurrentIs DEF WalkType
    <3>3. Current.next > Len(heap[Current.array])
      BY <1>1, <2>1, <3>2 DEF HasNext
    <3>4. WrittenUpTo(opened, heap[Current.array], Len(heap[Current.array]) + 1)
      BY <3>1, <3>2, <3>3 DEF WrittenUpTo
    <3>5. \A i \in DOMAIN walk' : WrittenUpTo(opened, heap[walk'[i].array], walk'[i].next)
      BY <1>1, <2>3 DEF PrintInv, Written
    <3>6. \A a \in opened \ visited' : WrittenUpTo(opened, heap[a], Len(heap[a]) + 1)
      BY <2>1, <3>4 DEF PrintInv, Written
    <3> QED BY <1>1, <1>5, <2>1, <3>5, <3>6 DEF Written
  <2>6. DotsMeanCycle'
    BY <1>2, <2>1 DEF PrintInv, DotsMeanCycle
  <2> QED BY <2>4, <2>5, <2>6
<1> QED BY <1>6, <1>7, <1>8 DEF Stringify

LEMMA PrintInit == Init => PrintInv
BY WalkInductive DEF Init, PrintInv, WalkLinked, Written, DotsMeanCycle

LEMMA PrintNext == PrintInv /\ [Next]_arraysVars => PrintInv'
<1> SUFFICES ASSUME PrintInv, [Next]_arraysVars PROVE PrintInv'
  OBVIOUS
<1>1. WalkInv'
  BY WalkNext DEF PrintInv
<1>2. CASE UNCHANGED arraysVars
  BY <1>2, <1>1 DEF arraysVars, PrintInv, WalkLinked, Written, WrittenUpTo, DotsMeanCycle, InItself,
                    ElementsOf
<1> QED BY <1>1, <1>2, ProgramPrints, StringifyPrints DEF Next, PrintInv

\* Only an array that contains itself is cut to [...], on every heap: sharing alone never
\* hides an array, because CloseArray takes it out of visited again.
THEOREM CutsAreCycles == Spec => []DotsMeanCycle
<1>1. PrintInv => DotsMeanCycle
  BY DEF PrintInv
<1> QED BY <1>1, PrintInit, PrintNext, PTL DEF Spec

\* When a print is over, all arrays in what was printed were written out, whatever cycles
\* were cut on the way.
THEOREM AllIsWritten == Spec => []NothingIsLost
<1>1. ASSUME PrintInv PROVE NothingIsLost
  <2> SUFFICES ASSUME Idle, NEW a \in opened, NEW b \in ElementsOf({a}) PROVE b \in opened
    BY DEF NothingIsLost
  <2>1. visited = {} /\ a \in DOMAIN heap /\ heap \in Seq(Seq(Entry))
    BY <1>1 DEF PrintInv, WalkInv, HeapClosed, VisitedIsPath, Idle, Written
  <2>2. PICK k \in DOMAIN heap[a] : heap[a][k] = Array(b)
    BY DEF ElementsOf
  <2>3. k \in 1..Len(heap[a]) /\ Len(heap[a]) \in Nat
    BY <2>1
  <2>4. WrittenUpTo(opened, heap[a], Len(heap[a]) + 1)
    BY <1>1, <2>1 DEF PrintInv, Written
  <2> QED BY <2>2, <2>3, <2>4 DEF WrittenUpTo, Array, IsArray
<1> QED BY <1>1, PrintInit, PrintNext, PTL DEF Spec

-----------------------------------------------------------------------------
(* Numbers and what the casts make of them.  Half is 2 to the LongBits - 1: *)
(* the integers go from -Half to Half - 1, and Half, in halves 2 * Half, is *)
(* a double.                                                                *)

Half == 2 ^ (LongBits - 1)

LEMMA Widths ==
  /\ Half \in Nat \ {0} /\ 2 ^ LongBits = 2 * Half
  /\ LongMin = -Half /\ LongMax = Half - 1 /\ SizeMax = 2 * Half - 1
  /\ Halves \subseteq Nat /\ 2 * Half \in Halves
<1>1. LongBits - 1 \in 0..(Precision + MaxExp) /\ (LongBits - 1) + 1 = LongBits
  BY ArraysAssumption
<1>2. Half \in Nat \ {0} /\ 2 ^ LongBits = 2 * Half
  BY <1>1, PowersOfTwo DEF Half
<1>3. \A e \in 0..MaxExp : 2 ^ e \in Nat
  BY ArraysAssumption, PowersOfTwo
<1>4. 2 ^ Precision - 1 \in Nat \ {0}
  <2>1. Precision - 1 \in 0..(Precision + MaxExp) /\ (Precision - 1) + 1 = Precision
    BY ArraysAssumption
  <2>2. 2 ^ (Precision - 1) \in Nat \ {0} /\ 2 ^ Precision = 2 * 2 ^ (Precision - 1)
    BY <2>1, PowersOfTwo
  <2> QED BY <2>2
<1>5. Halves \subseteq Nat
  <2> SUFFICES ASSUME NEW m \in 0..(2 ^ Precision - 1), NEW e \in 0..MaxExp
               PROVE  m * 2 ^ e \in Nat
    BY DEF Halves
  <2> HIDE DEF Half
  <2>1. m \in Nat /\ 2 ^ e \in Nat
    BY <1>3, <1>4
  <2>2. \A x, y \in Nat : x * y \in Nat
    OBVIOUS
  <2> QED BY <2>1, <2>2
<1>6. 2 * Half \in Halves
  <2>1. 1 \in 0..(2 ^ Precision - 1) /\ LongBits \in 0..MaxExp /\ 2 * Half = 1 * 2 ^ LongBits
    BY <1>2, <1>4, ArraysAssumption
  <2> QED BY <2>1 DEF Halves
<1> QED BY <1>1, <1>2, <1>5, <1>6 DEF LongMin, LongMax, SizeMax, Half

\* The limits of formatDouble: the smallest integer is a double; the largest is not more
\* than one away from one, and no integer that is a double is above it.
LEMMA Limits ==
  /\ LongMinDouble = -(2 * Half) /\ LongMaxDouble \in Halves /\ LongMaxDouble <= 2 * Half
  /\ \A o \in Halves : o <= 2 * LongMax => o <= LongMaxDouble
<1> DEFINE Near(i, h) == h \in Halves /\ \A o \in Halves : Distance(2 * i, h) <= Distance(2 * i, o)
<1>1. ASSUME NEW i \in Int, \E h : Near(i, h) PROVE Near(i, ToDouble(i))
  BY <1>1 DEF ToDouble
<1>2. LongMinDouble = -(2 * Half)
  <2>1. Near(Half, 2 * Half)
    BY Widths DEF Distance
  <2>2. Near(Half, ToDouble(Half)) /\ ToDouble(Half) \in Nat
    <3>1. Half \in Int /\ \E h : Near(Half, h)
      BY <2>1, Widths
    <3>2. Near(Half, ToDouble(Half))
      BY <1>1, <3>1
    <3> QED BY <3>2, Widths
  <2>3. Distance(2 * Half, ToDouble(Half)) <= Distance(2 * Half, 2 * Half)
    BY <2>2, Widths
  <2>4. ToDouble(Half) = 2 * Half
    BY <2>2, <2>3, Widths DEF Distance
  <2>5. -LongMin = Half
    BY Widths
  <2> QED BY <2>4, <2>5 DEF LongMinDouble
<1>3. /\ LongMaxDouble \in Halves /\ LongMaxDouble <= 2 * Half
      /\ \A o \in Halves : o <= 2 * LongMax => o <= LongMaxDouble
  <2> DEFINE long == 2 * LongMax
  <2>1. long \in Nat /\ 2 * Half = long + 2 /\ LongMax \in Int
    BY Widths
  <2>2. \E h : Near(LongMax, h)
    <3>1. CASE long \in Halves
      <4>1. Near(LongMax, long)
        BY <2>1, <3>1, Widths DEF Distance
      <4> QED BY <4>1
    <3>2. CASE long \notin Halves /\ long + 1 \in Halves
      <4>1. Near(LongMax, long + 1)
        BY <2>1, <3>2, Widths DEF Distance
      <4> QED BY <4>1
    <3>3. CASE long \notin Halves /\ long - 1 \in Halves
      <4>1. Near(LongMax, long - 1)
        BY <2>1, <3>3, Widths DEF Distance
      <4> QED BY <4>1
    <3>4. CASE long \notin Halves /\ long + 1 \notin Halves /\ long - 1 \notin Halves
      <4>1. Near(LongMax, long + 2)
        BY <2>1, <3>4, Widths DEF Distance
      <4> QED BY <4>1
    <3> QED BY <3>1, <3>2, <3>3, <3>4
  <2>3. Near(LongMax, ToDouble(LongMax)) /\ ToDouble(LongMax) \in Nat
    BY <1>1, <2>1, <2>2, Widths
  <2>4. Distance(long, ToDouble(LongMax)) <= Distance(long, long + 2)
    BY <2>1, <2>3, Widths
  <2>5. ToDouble(LongMax) <= long + 2
    BY <2>1, <2>3, <2>4 DEF Distance
  <2>6. ASSUME NEW o \in Halves, o <= long PROVE o <= ToDouble(LongMax)
    <3>1. o \in Nat /\ Distance(long, ToDouble(LongMax)) <= Distance(long, o)
      BY <2>3, Widths
    <3> QED BY <2>1, <2>3, <2>6, <3>1 DEF Distance
  <2> QED BY <2>1, <2>3, <2>5, <2>6 DEF LongMaxDouble
<1> QED BY <1>2, <1>3

LEMMA DoubleIs ==
  ASSUME NEW d \in Double
  PROVE  /\ d.n \in Int /\ d = [type |-> d.type, n |-> d.n]
         /\ d.type \in {"number", "inf", "-inf", "nan"}
         /\ d.type = "number" => d = Finite(d.n)
         /\ d.type # "number" => d.n = 0
         /\ d.n > 0 => d.n \in Halves
BY Widths DEF Double, Special, Finite

\* An index that is let through is no cast out of range: no array is that long.
LEMMA IndexIsExact ==
  ASSUME NEW d \in Double, NEW size \in 0..MaxLength, NEW i \in RequireIndex(d, size)
  PROVE  d = Finite(2 * i)
<1>1. i \in ToLong(d) /\ IsIntegral(d) /\ i \in 0..(size - 1)
  BY DEF RequireIndex
<1>2. i # LongMin /\ i # LongMax
  BY <1>1, Widths, MemoryAssumption, ArraysAssumption
<1>3. d.type = "number" /\ i = d.n \div 2
  BY <1>1, <1>2 DEF ToLong
<1>4. d.n % 2 = 0 /\ d.n \in Int
  BY <1>1, <1>3, DoubleIs DEF IsIntegral
<1>5. d.n = 2 * i
  BY <1>3, <1>4
<1> QED BY <1>3, <1>5, DoubleIs

LEMMA SizeIsExact ==
  ASSUME NEW d \in Double, IsSize(d), NEW size \in ToSize(d), size \in 0..MaxLength
  PROVE  d = Finite(2 * size) \/ ((d.type = "inf" \/ d.n > 2 * SizeMax) /\ size = 0)
<1>1. IsIntegral(d) /\ d.type # "-inf" /\ d.n >= 0 /\ d.n \in Int
  BY DoubleIs DEF IsSize
<1>2. size # SizeMax
  BY Widths, MemoryAssumption, ArraysAssumption
<1>3. CASE d.type = "number" /\ d.n \div 2 \in 0..SizeMax
  <2>1. size = d.n \div 2 /\ d.n % 2 = 0
    BY <1>1, <1>3 DEF ToSize, IsIntegral
  <2>2. d.n = 2 * size
    BY <1>1, <2>1
  <2> QED BY <1>3, <2>2, DoubleIs
<1>4. CASE d.type = "number" /\ d.n \div 2 \notin 0..SizeMax
  <2>1. size = 0
    BY <1>2, <1>4 DEF ToSize
  <2>2. d.n > 2 * SizeMax
    BY <1>1, <1>4, Widths
  <2> QED BY <2>1, <2>2
<1>5. CASE d.type # "number"
  BY <1>1, <1>2, <1>5 DEF ToSize, IsIntegral
<1> QED BY <1>3, <1>4, <1>5

\* Multiplication keeps an order: the provers have to be told.
LEMMA TimesKeepsOrder ==
  ASSUME NEW a \in Nat, NEW b \in Nat, NEW c \in Nat, b <= c
  PROVE  a * b <= a * c /\ a * b \in Nat
<1>1. PICK d \in Nat : c = b + d
  <2>1. c - b \in Nat /\ c = b + (c - b)
    OBVIOUS
  <2> QED BY <2>1
<1>2. a * c = a * b + a * d
  BY <1>1
<1>3. a * b \in Nat /\ a * d \in Nat
  BY <1>1
<1> QED BY <1>2, <1>3

LEMMA UnitIs ==
  ASSUME NEW h \in Nat, NEW u \in Units(h)
  PROVE  u \in Nat \ {0} /\ Figures \in Nat \ {0} /\ (u = 1 \/ Figures * u <= h)
<1>1. Figures \in Nat \ {0}
  <2>1. Digits - 1 \in 0..(Digits + MaxExp)
    BY ArraysAssumption
  <2> QED BY <2>1, PowersOfTen DEF Figures
<1>2. CASE u = 1
  BY <1>1, <1>2
<1>3. CASE u # 1
  <2>1. PICK e \in 0..MaxExp : Figures * (2 * 10 ^ e) <= h /\ u = 2 * 10 ^ e
    BY <1>3 DEF Units
  <2>2. e \in 0..(Digits + MaxExp)
    BY ArraysAssumption
  <2>3. 10 ^ e \in Nat \ {0}
    BY <2>2, PowersOfTen
  <2>4. u \in Nat \ {0}
    BY <2>1, <2>3
  <2> QED BY <1>1, <2>1, <2>4
<1> QED BY <1>2, <1>3

\* A rounded number is off by half of its last digit, which is small beside the number.
LEMMA RoundedIsNear ==
  ASSUME NEW h \in Nat, NEW k \in Rounded(h)
  PROVE  k \in Int /\ Distance(k, h) \in Nat /\ 2 * Figures * Distance(k, h) <= h
<1>1. PICK u \in Units(h) : k \in Nearest(h, u)
  BY DEF Rounded, Unit
<1>2. u \in Nat \ {0} /\ Figures \in Nat \ {0} /\ (u = 1 \/ Figures * u <= h)
  BY <1>1, UnitIs
<1>3. k \in Int
  <2>1. h \div u \in Int
    BY <1>2
  <2>2. u * (h \div u) \in Int
    BY <1>2, <2>1
  <2> HIDE DEF Figures
  <2>3. k = u * (h \div u) \/ k = u * (h \div u) + u
    BY <1>1 DEF Nearest
  <2> QED BY <1>2, <2>2, <2>3
<1> DEFINE off == Distance(k, h)
<1>4. off \in Nat /\ 2 * off <= u
  <2>1. off \in Nat /\ off = Distance(h, k)
    BY <1>3 DEF Distance
  <2> QED BY <1>1, <2>1 DEF Nearest
<1> HIDE DEF off
<1>5. 2 * Figures * off = Figures * (2 * off)
  BY <1>2, <1>4
<1>6. CASE u = 1
  <2>1. off = 0
    BY <1>4, <1>6
  <2> QED BY <1>2, <1>3, <1>4, <2>1 DEF off
<1>7. CASE Figures * u <= h
  <2>1. Figures * (2 * off) <= Figures * u /\ Figures * (2 * off) \in Nat /\ Figures * u \in Nat
    BY <1>2, <1>4, TimesKeepsOrder
  <2> QED BY <1>3, <1>4, <1>5, <1>7, <2>1 DEF off
<1> QED BY <1>2, <1>6, <1>7

LEMMA StreamedIsNear ==
  ASSUME NEW h \in Int, NEW k \in Streamed(h)
  PROVE  /\ 2 * Figures * Distance(k, h) <= Distance(h, 0)
         /\ h = 0 => k = 0
<1>1. Figures \in Nat \ {0}
  BY UnitIs DEF Units
<1>2. CASE h >= 0
  <2>1. k \in Int /\ Distance(k, h) \in Nat /\ 2 * Figures * Distance(k, h) <= h
    BY <1>2, RoundedIsNear DEF Streamed
  <2>2. Distance(h, 0) = h
    BY <1>2 DEF Distance
  <2>3. ASSUME h = 0 PROVE k = 0
    <3>1. Distance(k, h) = 0
      <4>1. \A x, y \in Nat : x # 0 /\ 2 * x * y <= 0 => y = 0
        OBVIOUS
      <4> QED BY <1>1, <2>1, <2>3, <4>1
    <3> QED BY <2>1, <2>3, <3>1 DEF Distance
  <2> QED BY <2>1, <2>2, <2>3
<1>3. CASE h < 0
  <2>1. PICK j \in Rounded(-h) : k = -j
    BY <1>3 DEF Streamed
  <2>2. j \in Int /\ 2 * Figures * Distance(j, -h) <= -h
    BY <1>3, <2>1, RoundedIsNear
  <2>3. Distance(k, h) = Distance(j, -h) /\ Distance(h, 0) = -h
    BY <1>3, <2>1, <2>2 DEF Distance
  <2> QED BY <1>3, <2>2, <2>3
<1> QED BY <1>2, <1>3

LEMMA TextIsExact ==
  ASSUME NEW d \in Double, NEW text \in FormatDouble(d)
  PROVE  /\ text.what = "text" /\ text.of = d
         /\ \/ text.is = d.n
            \/ d.n = 2 * (LongMax + 1)
            \/ ~IsLong(d) /\ 2 * Figures * Distance(text.is, d.n) <= Distance(d.n, 0)
<1>1. d.n \in Int
  BY DoubleIs
<1>2. CASE ~(d.type = "number" /\ IsIntegral(d) /\ d.n >= LongMinDouble /\ d.n <= LongMaxDouble)
  <2>1. PICK h \in Streamed(d.n) : text = Seen("text", d, h)
    BY <1>2 DEF FormatDouble
  <2>2. /\ 2 * Figures * Distance(h, d.n) <= Distance(d.n, 0)
        /\ d.n = 0 => h = 0
    BY <1>1, <2>1, StreamedIsNear
  <2>3. d.type = "number" => ~IsLong(d)
    <3> SUFFICES ASSUME d.type = "number", d.n % 2 = 0 PROVE d.n \div 2 \notin LongMin..LongMax
      BY DEF IsLong
    <3>1. d.n < LongMinDouble \/ d.n > LongMaxDouble
      BY <1>1, <1>2, Limits, Widths DEF IsIntegral
    <3>2. CASE d.n < LongMinDouble
      BY <1>1, <3>2, Limits, Widths
    <3>3. CASE d.n > LongMaxDouble
      <4>1. d.n > 2 * LongMax
        BY <1>1, <3>3, DoubleIs, Limits, Widths
      <4> QED BY <1>1, <4>1, Widths
    <3> QED BY <3>1, <3>2, <3>3
  <2>4. d.type # "number" => h = d.n
    BY <2>2, DoubleIs
  <2> QED BY <2>1, <2>2, <2>3, <2>4 DEF Seen
<1>3. CASE d.type = "number" /\ IsIntegral(d) /\ d.n >= LongMinDouble /\ d.n <= LongMaxDouble
  <2>1. PICK i \in ToLong(d) : text = Seen("text", d, 2 * i)
    BY <1>3 DEF FormatDouble
  <2>2. d.n % 2 = 0 /\ d.n >= -(2 * Half) /\ d.n <= 2 * Half
    BY <1>1, <1>3, Limits, Widths DEF IsIntegral
  <2>3. CASE d.n \div 2 \in LongMin..LongMax
    <3>1. i = d.n \div 2
      BY <1>3, <2>1, <2>3 DEF ToLong
    <3>2. d.n = 2 * i
      BY <1>1, <2>2, <3>1
    <3> QED BY <2>1, <3>2 DEF Seen
  <2>4. CASE d.n \div 2 \notin LongMin..LongMax
    <3>1. d.n = 2 * Half /\ 2 * (LongMax + 1) = 2 * Half
      BY <1>1, <2>2, <2>4, Widths
    <3> QED BY <2>1, <3>1 DEF Seen
  <2> QED BY <2>3, <2>4
<1> QED BY <1>2, <1>3

\* No array is longer than memory has room for.
NumbersInv ==
  /\ WalkInv
  /\ \A a \in DOMAIN heap : Len(heap[a]) \in 0..MaxLength
  /\ CastsKeepTheNumber /\ TextSaysNumber

LEMMA NumbersInit == Init => NumbersInv
BY WalkInductive DEF Init, NumbersInv, CastsKeepTheNumber, TextSaysNumber, Nothing

LEMMA NumbersNext == NumbersInv /\ [Next]_arraysVars => NumbersInv'
<1> SUFFICES ASSUME NumbersInv, [Next]_arraysVars PROVE NumbersInv'
  OBVIOUS
<1> DEFINE Lengths == \A a \in DOMAIN heap : Len(heap[a]) \in 0..MaxLength
           Exact == CastsKeepTheNumber /\ TextSaysNumber
<1>1. WalkInv' /\ WalkInv /\ heap \in Seq(Seq(Entry)) /\ Lengths
  BY WalkNext DEF NumbersInv, WalkInv, HeapClosed
<1>2. CASE UNCHANGED arraysVars
  BY <1>1, <1>2 DEF arraysVars, NumbersInv, CastsKeepTheNumber, TextSaysNumber
<1>3. ASSUME NEW d \in Double, CallBuiltinArray(d) PROVE Lengths' /\ Exact'
  <2>1. PICK size \in ToSize(d) : /\ size \in 0..MaxLength /\ IsSize(d)
                                  /\ heap' = Append(heap, [i \in 1..size |-> Nil])
                                  /\ seen' = Seen("size", d, size)
    BY <1>3 DEF CallBuiltinArray
  <2>2. [i \in 1..size |-> Nil] \in Seq(Entry) /\ Len([i \in 1..size |-> Nil]) = size
    BY <2>1, ArraysAssumption DEF Entry
  <2>3. Lengths'
    BY <1>1, <2>1, <2>2
  <2>4. Exact'
    BY <2>1, SizeIsExact DEF CastsKeepTheNumber, TextSaysNumber, Seen
  <2> QED BY <2>3, <2>4
<1>4. ASSUME NEW a \in DOMAIN heap, NEW d \in Double, NEW i \in RequireIndex(d, Len(heap[a])),
             seen' = Seen("index", d, i)
      PROVE  Exact'
  <2>1. d = Finite(2 * i)
    BY <1>1, IndexIsExact
  <2> QED BY <1>4, <2>1 DEF CastsKeepTheNumber, TextSaysNumber, Seen
<1>5. ASSUME NEW a \in DOMAIN heap, NEW d \in Double, VisitIndexExpr(a, d) PROVE Lengths' /\ Exact'
  BY <1>1, <1>4, <1>5 DEF VisitIndexExpr
<1>6. ASSUME NEW a \in DOMAIN heap, NEW d \in Double, NEW v \in Values,
             VisitIndexAssignExpr(a, d, v)
      PROVE  Lengths' /\ Exact'
  <2>1. PICK i \in RequireIndex(d, Len(heap[a])) :
          heap' = [heap EXCEPT ![a][i + 1] = v] /\ seen' = Seen("index", d, i)
    BY <1>6 DEF VisitIndexAssignExpr
  <2>2. heap[a] \in Seq(Entry) /\ v \in Entry
    BY <1>1, StoredAssumption DEF Values, Entry
  <2>3. Len([heap[a] EXCEPT ![i + 1] = v]) = Len(heap[a])
    BY <2>2, ReplaceOne
  <2>4. heap' = [heap EXCEPT ![a] = [heap[a] EXCEPT ![i + 1] = v]]
    BY <2>1
  <2>5. Lengths'
    BY <1>1, <2>3, <2>4
  <2> QED BY <1>4, <2>1, <2>5
<1>7. ASSUME NEW d \in Double, seen' = Nothing \/ seen' \in FormatDouble(d) PROVE Exact'
  <2>1. CASE seen' = Nothing
    BY <2>1 DEF Nothing, CastsKeepTheNumber, TextSaysNumber
  <2>2. CASE seen' \in FormatDouble(d)
    BY <2>2, TextIsExact DEF CastsKeepTheNumber, TextSaysNumber
  <2> QED BY <1>7, <2>1, <2>2
<1>8. \E d \in Double : TRUE
  BY DEF Double, Special
<1>9. ASSUME NEW v, VisitPrintStmt(v), v \in Double \/ IsArray(v) PROVE Lengths' /\ Exact'
  <2>1. UNCHANGED heap /\ (seen' = Nothing \/ (v \in Double /\ seen' \in FormatDouble(v)))
    BY <1>9 DEF VisitPrintStmt
  <2> QED BY <1>1, <1>7, <1>8, <2>1
<1>10. ASSUME Stringify PROVE Lengths' /\ Exact'
  <2>1. UNCHANGED heap /\ (seen' = Nothing \/ (WriteValue /\ seen' \in FormatDouble(Element)))
    BY <1>10 DEF Stringify, WriteValue, WriteDots, OpenArray, CloseArray
  <2>2. CASE seen' = Nothing
    BY <1>1, <1>7, <1>8, <2>1, <2>2
  <2>3. CASE WriteValue /\ seen' \in FormatDouble(Element) /\ Element # Nil
    <3>1. Element \in Entry /\ ~IsArray(Element)
      BY <1>1, <2>3, CurrentIs DEF WriteValue, HasNext, Element
    <3>2. Element \in Double
      BY <2>3, <3>1, StoredAssumption DEF Entry, IsArray, Array
    <3> QED BY <1>1, <1>7, <2>1, <2>3, <3>2
  <2> QED BY <2>1, <2>2, <2>3 DEF WriteValue
<1> QED BY <1>1, <1>2, <1>3, <1>5, <1>6, <1>9, <1>10 DEF Next, Program, NumbersInv, IsArray, Array

\* An index that requireIndex lets through and the length of an array that array(n) makes
\* are the numbers asked for: no fraction or number beyond the integers gets that far by
\* its cast, except a length of 2^64 or more, which makes an empty array.
THEOREM CastsAreExact == Spec => []CastsKeepTheNumber
<1>1. NumbersInv => CastsKeepTheNumber
  BY DEF NumbersInv
<1> QED BY <1>1, NumbersInit, NumbersNext, PTL DEF Spec

\* formatDouble writes an integer that a long long holds as it is, and of any other number
\* as many digits as a stream does, rounded - except 2^63: its limits are doubles, and only
\* the upper one is rounded, by one.
THEOREM TextsAreExact == Spec => []TextSaysNumber
<1>1. NumbersInv => TextSaysNumber
  BY DEF NumbersInv
<1> QED BY <1>1, NumbersInit, NumbersNext, PTL DEF Spec
=============================================================================
