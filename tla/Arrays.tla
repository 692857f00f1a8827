------------------------------- MODULE Arrays -------------------------------
(***************************************************************************)
(* Arrays and numbers at their edges: requireArray, requireIndex,          *)
(* callBuiltinArray, stringify and formatDouble of executor/Executor.cpp.  *)
(*                                                                         *)
(* Here a number is a double with a Precision of its own and an integer    *)
(* type has LongBits bits, so that the casts between them are those of the *)
(* code; fractions are halves.  A stream writes Digits significant digits. *)
(* The heap of arrays is whatever a program can build with array(n) and    *)
(* stores, cycles included, and the recursion of stringify is the stack    *)
(* "walk".                                                                 *)
(***************************************************************************)
EXTENDS Integers, Sequences

CONSTANTS
  LongBits,  \* of long long, ptrdiff_t and size_t
  Precision, \* bits of the mantissa of a double
  Digits,    \* significant decimal digits of a number written to a stream
  MaxExp,    \* bound: the largest power of two a mantissa of halves is scaled by
  Stored,    \* bound: the numbers programs store in arrays
  MaxArrays, \* bound: how many arrays a program makes
  MaxLength  \* bound: the longest array memory has room for

ASSUME ArraysAssumption ==
  /\ Precision \in Nat \ {0} /\ LongBits \in Nat /\ MaxExp \in Nat
  /\ Precision + 3 <= LongBits \* 53 and 64: LLONG_MAX is no double, and not midway
  /\ LongBits <= MaxExp        \* 1023: there are doubles beyond the integers
  /\ Digits \in Nat \ {0}      \* 6
  /\ MaxArrays \in Nat /\ MaxLength \in Nat

\* Arithmetic, for the provers: they have no theory of powers.
ASSUME PowersOfTwo ==
  \A n \in 0..(Precision + MaxExp) : 2 ^ n \in Nat \ {0} /\ 2 ^ (n + 1) = 2 * 2 ^ n

ASSUME PowersOfTen == \A n \in 0..(Digits + MaxExp) : 10 ^ n \in Nat \ {0}

LongMin == -(2 ^ (LongBits - 1))
LongMax == 2 ^ (LongBits - 1) - 1
SizeMax == 2 ^ LongBits - 1

\* No vector of values is that long (std::vector::max_size).
ASSUME MemoryAssumption == MaxLength <= LongMax

-----------------------------------------------------------------------------
(* Doubles, counted in halves, and what they are cast to.                   *)

Halves == {m * 2 ^ e : m \in 0..(2 ^ Precision - 1), e \in 0..MaxExp}
Finite(h)  == [type |-> "number", n |-> h]
Special    == {[type |-> t, n |-> 0] : t \in {"inf", "-inf", "nan"}}
Double     == {Finite(h) : h \in Halves} \cup {Finite(-h) : h \in Halves} \cup Special
Nil        == [type |-> "nil", n |-> 0]
Array(a)   == [type |-> "array", n |-> a]
IsArray(v) == v.type = "array"

\* d == std::floor(d).
IsIntegral(d) == d.type \in {"inf", "-inf"} \/ (d.type = "number" /\ d.n % 2 = 0)

\* static_cast<double> of an integer: the nearest double.
Distance(x, y) == IF x <= y THEN y - x ELSE x - y
ToDouble(i) ==
  CHOOSE h \in Halves : \A o \in Halves : Distance(2 * i, h) <= Distance(2 * i, o)

LongMinDouble == -ToDouble(-LongMin)
LongMaxDouble == ToDouble(LongMax)

\* static_cast of an integral double.  Out of range it is undefined: x64 gives the
\* smallest long long and, for size_t, wraps; other processors saturate.
ToLong(d) == IF d.type = "number" /\ d.n \div 2 \in LongMin..LongMax
             THEN {d.n \div 2} ELSE {LongMin, LongMax}
ToSize(d) == IF d.type = "number" /\ d.n \div 2 \in 0..SizeMax
             THEN {d.n \div 2} ELSE {0, SizeMax}

-----------------------------------------------------------------------------
VARIABLES
  heap,    \* the arrays, in the order of their creation
  walk,    \* stringify's activations: which array, and its next element
  visited, \* its set of the same name
  opened,  \* history: the arrays this print has opened with a bracket
  cut,     \* history: the arrays it has written as [...]
  seen     \* history: what the last step did with a number

arraysVars == <<heap, walk, visited, opened, cut, seen>>

\* The number n asked for, named or written, and what came of it.
Nothing          == [what |-> "nothing", of |-> Nil, is |-> 0]
Seen(what, d, i) == [what |-> what, of |-> d, is |-> i]

ASSUME StoredAssumption == Stored \subseteq Double

Idle   == walk = <<>>
Forget == opened' = {} /\ cut' = {}
Values == Stored \cup {Nil} \cup {Array(a) : a \in DOMAIN heap}

-----------------------------------------------------------------------------
(* array(n).                                                                *)

\* Neither less than zero (which no NaN is) nor a fraction.
IsSize(d) == IsIntegral(d) /\ d.type # "-inf" /\ d.n >= 0

\* Any other number, and a size beyond memory, is an error and changes nothing.
CallBuiltinArray(d) ==
  /\ Idle /\ Len(heap) < MaxArrays
  /\ IsSize(d)
  /\ \E size \in ToSize(d) :
       /\ size \in 0..MaxLength
       /\ heap' = Append(heap, [i \in 1..size |-> Nil])
       /\ seen' = Seen("size", d, size)
  /\ Forget
  /\ UNCHANGED <<walk, visited>>

-----------------------------------------------------------------------------
(* a[i] and a[i] = v.                                                       *)

\* Mutant of RequireIndex: the fraction is not looked at.
RequireIndexTruncated(d, size) ==
  {i \in ToLong(d) : d.type # "nan" /\ i \in 0..(size - 1)}

\* The indexes requireIndex lets through; none, when it throws.
RequireIndex(d, size) ==
  {i \in ToLong(d) : IsIntegral(d) /\ i \in 0..(size - 1)}

VisitIndexExpr(a, d) ==
  /\ Idle
  /\ \E i \in RequireIndex(d, Len(heap[a])) : seen' = Seen("index", d, i)
  /\ Forget
  /\ UNCHANGED <<heap, walk, visited>>

VisitIndexAssignExpr(a, d, v) ==
  /\ Idle
  /\ \E i \in RequireIndex(d, Len(heap[a])) :
       /\ heap' = [heap EXCEPT ![a][i + 1] = v]
       /\ seen' = Seen("index", d, i)
  /\ Forget
  /\ UNCHANGED <<walk, visited>>

-----------------------------------------------------------------------------
(* print v.                                                                 *)

\* What the last of the digits counts that a stream writes of h halves: a power of ten,
\* and the half itself where the digits reach beyond the decimal point.
Figures   == 10 ^ (Digits - 1)
Units(h)  == {1} \cup {2 * 10 ^ e : e \in {x \in 0..MaxExp : Figures * (2 * 10 ^ x) <= h}}
Unit(h)   == {u \in Units(h) : \A o \in Units(h) : o <= u}

\* The nearest multiples of it: libraries differ in what lies midway.
Nearest(h, u) == {k \in {u * (h \div u), u * (h \div u) + u} : 2 * Distance(h, k) <= u}
Rounded(h)    == UNION {Nearest(h, u) : u \in Unit(h)}

\* oss << d: the halves of the number it writes.
Streamed(h) == IF h >= 0 THEN Rounded(h) ELSE {-k : k \in Rounded(-h)}

\* Mutant of FormatDouble: the upper limit is not looked at.
FormatDoubleUnlimited(d) ==
  IF d.type = "number" /\ IsIntegral(d) /\ d.n >= LongMinDouble
  THEN {Seen("text", d, 2 * i) : i \in ToLong(d)}
  ELSE {Seen("text", d, h) : h \in Streamed(d.n)}

\* The halves of the number that the text says.
FormatDouble(d) ==
  IF d.type = "number" /\ IsIntegral(d)
     /\ d.n >= LongMinDouble /\ d.n <= LongMaxDouble
  THEN {Seen("text", d, 2 * i) : i \in ToLong(d)}
  ELSE {Seen("text", d, h) : h \in Streamed(d.n)}

Activation(a) == [array |-> a, next |-> 1]

VisitPrintStmt(v) ==
  /\ Idle
  /\ IF IsArray(v)
     THEN /\ walk' = <<Activation(v.n)>> /\ visited' = {v.n} /\ opened' = {v.n}
          /\ seen' = Nothing
     ELSE /\ IF v = Nil THEN seen' = Nothing ELSE seen' \in FormatDouble(v)
          /\ opened' = {} /\ UNCHANGED <<walk, visited>>
  /\ cut' = {}
  /\ UNCHANGED heap

Current  == walk[Len(walk)]
Advanced == [walk EXCEPT ![Len(walk)].next = @ + 1]
HasNext  == ~Idle /\ Current.next <= Len(heap[Current.array])
Element  == heap[Current.array][Current.next]

WriteValue ==
  /\ HasNext /\ ~IsArray(Element)
  /\ walk' = Advanced
  /\ IF Element = Nil THEN seen' = Nothing ELSE seen' \in FormatDouble(Element)
  /\ UNCHANGED <<heap, visited, opened, cut>>

\* Mutant of WriteDots: it does not go on to the next element.
WriteDotsAgain ==
  /\ HasNext /\ IsArray(Element) /\ Element.n \in visited
  /\ cut' = cut \cup {Element.n}
  /\ seen' = Nothing
  /\ UNCHANGED <<heap, walk, visited, opened>>

WriteDots ==
  /\ HasNext /\ IsArray(Element) /\ Element.n \in visited
  /\ walk' = Advanced
  /\ cut' = cut \cup {Element.n}
  /\ seen' = Nothing
  /\ UNCHANGED <<heap, visited, opened>>

\* Mutant of OpenArray: it is not entered into visited.
OpenUnvisited ==
  /\ HasNext /\ IsArray(Element) /\ Element.n \notin visited
  /\ walk' = Append(Advanced, Activation(Element.n))
  /\ opened' = opened \cup {Element.n}
  /\ seen' = Nothing
  /\ UNCHANGED <<heap, cut, visited>>

OpenArray ==
  /\ HasNext /\ IsArray(Element) /\ Element.n \notin visited
  /\ walk' = Append(Advanced, Activation(Element.n))
  /\ visited' = visited \cup {Element.n}
  /\ opened' = opened \cup {Element.n}
  /\ seen' = Nothing
  /\ UNCHANGED <<heap, cut>>

\* Mutants of CloseArray: it stays in visited; it is closed before its last element.
CloseVisited ==
  /\ ~Idle /\ ~HasNext
  /\ walk' = SubSeq(walk, 1, Len(walk) - 1)
  /\ seen' = Nothing
  /\ UNCHANGED <<heap, opened, cut, visited>>
CloseEarly ==
  /\ ~Idle /\ Current.next >= Len(heap[Current.array])
  /\ walk' = SubSeq(walk, 1, Len(walk) - 1)
  /\ visited' = visited \ {Current.array}
  /\ seen' = Nothing
  /\ UNCHANGED <<heap, opened, cut>>

CloseArray ==
  /\ ~Idle /\ ~HasNext
  /\ walk' = SubSeq(walk, 1, Len(walk) - 1)
  /\ visited' = visited \ {Current.array}
  /\ seen' = Nothing
  /\ UNCHANGED <<heap, opened, cut>>

Stringify == WriteValue \/ WriteDots \/ OpenArray \/ CloseArray

-----------------------------------------------------------------------------
Init ==
  /\ heap = <<>> /\ walk = <<>> /\ visited = {}
  /\ opened = {} /\ cut = {} /\ seen = Nothing

Program ==
  \/ \E d \in Double : CallBuiltinArray(d) \/ VisitPrintStmt(d)
  \/ \E a \in DOMAIN heap, d \in Double :
       VisitIndexExpr(a, d) \/ \E v \in Values : VisitIndexAssignExpr(a, d, v)
  \/ \E a \in DOMAIN heap : VisitPrintStmt(Array(a))

Next == Program \/ Stringify

\* stringify goes on by itself; nothing makes a program print.
Spec == Init /\ [][Next]_arraysVars /\ WF_arraysVars(Stringify)

-----------------------------------------------------------------------------
(* Properties.                                                              *)

\* "visited" holds the arrays that are open at this moment and each is open once, so
\* stringify never recurses deeper than there are arrays.
VisitedIsPath ==
  /\ visited = {walk[i].array : i \in DOMAIN walk}
  /\ \A i, j \in DOMAIN walk : walk[i].array = walk[j].array => i = j

\* The arrays that are elements of a set of arrays.  An array contains itself when it is
\* in every set that holds its elements and the elements of its members.
ElementsOf(as) ==
  {b \in DOMAIN heap : \E a \in as : \E i \in DOMAIN heap[a] : heap[a][i] = Array(b)}
InItself(a) ==
  \A as \in SUBSET DOMAIN heap : ElementsOf(as \cup {a}) \subseteq as => a \in as

\* Only an array that contains itself is ever written as [...]; one that merely
\* occurs twice is written out twice.
DotsMeanCycle == \A a \in cut : InItself(a)

\* When a print is over, every array in it was written out at least once: the cut of a
\* cycle loses nothing.
NothingIsLost ==
  Idle => \A a \in opened : ElementsOf({a}) \subseteq opened

\* print comes to an end whatever cycles the arrays form.
PrintEnds == ~Idle ~> Idle

\* The element an index names and the length of a new array are the numbers the program
\* gave: no fraction, infinity or number beyond the integers becomes another one by its
\* cast - except, as a length, 2^64 and more.
CastsKeepTheNumber ==
  seen.what \in {"index", "size"} =>
    \/ seen.of = Finite(2 * seen.is)
    \/ /\ seen.what = "size" /\ seen.is = 0
       /\ seen.of.type = "inf" \/ seen.of.n > 2 * SizeMax

\* The text of a number that a long long holds says its value, and the text of any other
\* is off by half of its last digit at most - unless that is 2^63, which the limit of
\* formatDouble lets through because LLONG_MAX is rounded up to it.
IsLong(d) == d.n % 2 = 0 /\ d.n \div 2 \in LongMin..LongMax
TextSaysNumber ==
  seen.what = "text" =>
    \/ seen.is = seen.of.n
    \/ seen.of.n = 2 * (LongMax + 1)
    \/ ~IsLong(seen.of)
         /\ 2 * Figures * Distance(seen.is, seen.of.n) <= Distance(seen.of.n, 0)

-----------------------------------------------------------------------------
(* What the documentation says of the program and the program does not do.  *)

\* The manual: an integer is printed as it is.
IntegersPrintThemselves == seen.what = "text" /\ IsIntegral(seen.of) => seen.is = seen.of.n
=============================================================================
