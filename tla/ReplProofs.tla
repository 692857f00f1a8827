----------------------------- MODULE ReplProofs -----------------------------
(***************************************************************************)
(* The loop of Shell::run for lines and texts of every length: what depth  *)
(* counts, why text waits, which ifs are cut.                              *)
(***************************************************************************)
EXTENDS Repl, Induction

\* The stacks of the parser.
Open == {"if", "else?", "else", "for", "{"}

\* Names for the two braces.
OpenBrace  == "{"
CloseBrace == "}"

LEMMA BraceNames ==
  /\ OpenBrace \in Open /\ OpenBrace \in Token /\ CloseBrace \in Token /\ OpenBrace # CloseBrace
  /\ {OpenBrace, CloseBrace} \cap {"if", "else?", "else", "for", "stmt", "undef", "bad"} = {}
  /\ \A x \in Open : x \in {"if", "else?", "else", "for"} \/ x = OpenBrace
BY DEF OpenBrace, CloseBrace, Open, Token

LEMMA NetBracesIs == \A t : NetBraces(t) = Occurs(OpenBrace, t) - Occurs(CloseBrace, t)
BY DEF NetBraces, OpenBrace, CloseBrace

\* The cases of Advance.
LEMMA AdvanceIs ==
  ASSUME NEW s, s # Error, NEW e
  PROVE  /\ e \in {"if", "for", OpenBrace} => Advance(s, e) = Append(Settle(s), e)
         /\ e \in {"stmt", "undef"} => Advance(s, e) = Complete(Settle(s))
         /\ e = "else" /\ TopIs(s, "else?") => Advance(s, e) = [s EXCEPT ![Len(s)] = "else"]
         /\ e = CloseBrace /\ TopIs(Settle(s), OpenBrace) =>
              Advance(s, e) = Complete(Front(Settle(s)))
         /\ \/ e \in {"if", "for", OpenBrace, "stmt", "undef"}
            \/ e = "else" /\ TopIs(s, "else?")
            \/ e = CloseBrace /\ TopIs(Settle(s), OpenBrace)
            \/ Advance(s, e) = Error
BY DEF Advance, OpenBrace, CloseBrace

LEMMA ErrorStays == \A e : Advance(Error, e) = Error
BY DEF Advance


LEMMA ErrorIsNoStack == \A s \in Seq(Open) : s # Error
<1> SUFFICES ASSUME Error \in Seq(Open) PROVE FALSE
  OBVIOUS
<1>1. Error[1] = "error" /\ Len(Error) = 1
  BY DEF Error
<1>2. Error[1] \in Open
  BY <1>1, ElementOfSeq
<1> QED BY <1>1, <1>2 DEF Open

\* How many times a word occurs: no time in no text, once more after itself.
LEMMA PlacesFinite ==
  ASSUME NEW S, NEW s \in Seq(S), NEW x
  PROVE  IsFiniteSet(Places(x, s)) /\ Occurs(x, s) \in Nat /\ (Occurs(x, s) = 0 <=> Places(x, s) = {})
<1>1. Len(s) \in Nat /\ DOMAIN s = 1..Len(s)
  BY LenProperties
<1>2. IsFiniteSet(1..Len(s)) /\ Places(x, s) \in SUBSET (1..Len(s))
  BY <1>1, FS_Interval DEF Places
<1>3. IsFiniteSet(Places(x, s))
  BY <1>2, FS_Subset
<1> QED BY <1>3, FS_CardinalityType, FS_EmptySet DEF Occurs

LEMMA OccursInNothing == \A x : Occurs(x, <<>>) = 0
BY FS_EmptySet DEF Occurs, Places

LEMMA OccursOnceMore ==
  ASSUME NEW S, NEW s \in Seq(S), NEW e \in S, NEW x
  PROVE  Occurs(x, Append(s, e)) = Occurs(x, s) + IF x = e THEN 1 ELSE 0
<1> DEFINE t == Append(s, e)
           n == Len(s) + 1
<1>1. /\ Len(s) \in Nat /\ DOMAIN s = 1..Len(s) /\ DOMAIN t = 1..n
      /\ t[n] = e /\ \A i \in 1..Len(s) : t[i] = s[i]
  BY LenProperties, AppendProperties
<1>2. n \notin Places(x, s) /\ IsFiniteSet(Places(x, s)) /\ Occurs(x, s) \in Nat
  <2>1. n \notin Places(x, s)
    BY <1>1 DEF Places
  <2> QED BY <2>1, PlacesFinite
<1>3. CASE x = e
  <2>1. Places(x, t) = Places(x, s) \cup {n}
    BY <1>1, <1>3 DEF Places
  <2> QED BY <1>2, <1>3, <2>1, FS_AddElement DEF Occurs
<1>4. CASE x # e
  <2>1. Places(x, t) = Places(x, s)
    BY <1>1, <1>4 DEF Places
  <2> QED BY <1>2, <1>4, <2>1 DEF Occurs
<1> QED BY <1>3, <1>4

\* Sequences are built by appending.
LEMMA SequenceInduction ==
  ASSUME NEW S, NEW T, <<>> \in T, \A s \in Seq(S) \cap T, e \in S : Append(s, e) \in T
  PROVE  Seq(S) \subseteq T
<1> DEFINE N == {n \in Nat : \A s \in Seq(S) : Len(s) = n => s \in T}
<1>1. 0 \in N
  BY EmptySeq
<1>2. ASSUME NEW n \in N PROVE n + 1 \in N
  <2> SUFFICES ASSUME NEW s \in Seq(S), Len(s) = n + 1 PROVE s \in T
    OBVIOUS
  <2> DEFINE f == SubSeq(s, 1, n)
  <2>1. n \in Nat /\ f \in Seq(S) /\ Len(f) = n /\ s[n + 1] \in S
    OBVIOUS
  <2>2. f \in T
    BY <1>2, <2>1
  <2>3. s = Append(f, s[n + 1])
    BY <2>1
  <2> QED BY <2>1, <2>2, <2>3
<1>3. N = Nat
  <2>1. N \in SUBSET Nat
    OBVIOUS
  <2> HIDE DEF N
  <2> QED BY <1>1, <1>2, <2>1, SetInduction
<1> SUFFICES ASSUME NEW s \in Seq(S) PROVE s \in T
  OBVIOUS
<1>4. Len(s) \in Nat
  BY LenProperties
<1> QED BY <1>3, <1>4

LEMMA OccursInBoth ==
  ASSUME NEW S, NEW s \in Seq(S), NEW t \in Seq(S), NEW x
  PROVE  Occurs(x, s \o t) = Occurs(x, s) + Occurs(x, t)
<1> DEFINE T == {u \in Seq(S) : Occurs(x, s \o u) = Occurs(x, s) + Occurs(x, u)}
<1>1. <<>> \in T
  <2>1. s \o <<>> = s /\ Occurs(x, s) \in Nat
    BY ConcatEmptySeq, PlacesFinite
  <2> QED BY <2>1, OccursInNothing, EmptySeq
<1>2. ASSUME NEW u \in Seq(S) \cap T, NEW e \in S PROVE Append(u, e) \in T
  <2>1. s \o Append(u, e) = Append(s \o u, e) /\ s \o u \in Seq(S)
    BY AppendProperties, ConcatProperties
  <2>2. /\ Occurs(x, Append(s \o u, e)) = Occurs(x, s \o u) + IF x = e THEN 1 ELSE 0
        /\ Occurs(x, Append(u, e)) = Occurs(x, u) + IF x = e THEN 1 ELSE 0
    BY ZenonT(60), <2>1, OccursOnceMore
  <2>3. Occurs(x, s) \in Nat /\ Occurs(x, u) \in Nat /\ Append(u, e) \in Seq(S)
    BY PlacesFinite, AppendProperties
  <2>4. Occurs(x, s \o u) = Occurs(x, s) + Occurs(x, u)
    BY <1>2
  <2>5. Occurs(x, s \o Append(u, e)) = Occurs(x, s) + Occurs(x, Append(u, e))
    BY <2>1, <2>2, <2>3, <2>4
  <2> QED BY <2>3, <2>5
<1>3. Seq(S) \subseteq T
  <2> HIDE DEF T
  <2> QED BY <1>1, <1>2, SequenceInduction
<1> QED BY <1>3

-----------------------------------------------------------------------------
(* The stack of the parser.                                                 *)

LEMMA BelowIs ==
  ASSUME NEW S, NEW s \in Seq(S), NEW xs, NEW k, k = Below(s, xs)
  PROVE  /\ k \in 0..Len(s) /\ Len(s) \in Nat
         /\ k > 0 => s[k] \notin xs
         /\ \A i \in (k + 1)..Len(s) : s[i] \in xs
<1> DEFINE Good(n) == (n > 0 => s[n] \notin xs) /\ \A i \in (n + 1)..Len(s) : s[i] \in xs
           T == {n \in Nat : \A i \in (n + 1)..Len(s) : s[i] \in xs}
<1>1. Len(s) \in Nat
  BY LenProperties
<1>2. Len(s) \in T
  BY <1>1
<1>3. PICK n \in T : \A m \in T : n <= m
  BY <1>2, LeastNumber
<1>4. n \in Nat /\ n <= Len(s) /\ \A i \in (n + 1)..Len(s) : s[i] \in xs
  BY <1>1, <1>2, <1>3
<1>5. ASSUME n > 0 PROVE s[n] \notin xs
  <2> SUFFICES ASSUME s[n] \in xs PROVE FALSE
    OBVIOUS
  <2>1. n - 1 \in Nat /\ \A i \in ((n - 1) + 1)..Len(s) : i = n \/ i \in (n + 1)..Len(s)
    BY <1>1, <1>4, <1>5
  <2>2. n - 1 \in T
    BY <1>4, <2>1
  <2> QED BY <1>3, <1>4, <2>2
<1>6. n \in 0..Len(s) /\ Good(n)
  BY <1>1, <1>4, <1>5
<1>7. k \in 0..Len(s) /\ Good(k)
  <2>1. k = CHOOSE m \in 0..Len(s) : Good(m)
    BY DEF Below
  <2> HIDE DEF Good
  <2> QED BY <1>6, <2>1
<1> QED BY <1>1, <1>7

\* What is left below keeps its places.
LEMMA PrefixIs ==
  ASSUME NEW s \in Seq(Open), NEW k \in 0..Len(s)
  PROVE  LET r == SubSeq(s, 1, k) IN
         /\ r \in Seq(Open) /\ Len(r) = k /\ DOMAIN r = 1..k /\ DOMAIN s = 1..Len(s) /\ Len(s) \in Nat
         /\ \A i \in 1..k : r[i] = s[i] /\ s[i] \in Open
OBVIOUS

LEMMA SamePlaces ==
  ASSUME NEW s, NEW r, NEW x,
         \A i \in DOMAIN r : i \in DOMAIN s /\ (r[i] = x <=> s[i] = x),
         \A i \in DOMAIN s : i \in DOMAIN r \/ s[i] # x
  PROVE  Places(x, r) = Places(x, s)
BY DEF Places

\* Complete opens and closes no block.  In a stack without blocks it leaves nothing, or
\* an if that may take an else.
LEMMA CompleteIs ==
  ASSUME NEW s \in Seq(Open)
  PROVE  /\ Complete(s) \in Seq(Open)
         /\ Places(OpenBrace, Complete(s)) = Places(OpenBrace, s)
         /\ Places("for", Complete(s)) \subseteq Places("for", s)
         /\ Places(OpenBrace, s) = {} => Complete(s) = <<>> \/ TopIs(Complete(s), "else?")
<1> DEFINE xs == {"for", "else"}
           k == Below(s, xs)
           r == SubSeq(s, 1, k)
<1>1. /\ k \in 0..Len(s) /\ (k > 0 => s[k] \notin xs)
      /\ \A i \in (k + 1)..Len(s) : s[i] \in xs
  BY BelowIs
<1> HIDE DEF k
<1>2. /\ r \in Seq(Open) /\ Len(r) = k /\ DOMAIN r = 1..k /\ DOMAIN s = 1..Len(s) /\ Len(s) \in Nat
      /\ \A i \in 1..k : r[i] = s[i] /\ s[i] \in Open
  BY <1>1, PrefixIs
<1>3. \A i \in DOMAIN s : i \in 1..k \/ s[i] # OpenBrace
  <2> HIDE DEF xs
  <2>1. \A i \in DOMAIN s : i \in 1..k \/ s[i] \in xs
    BY <1>1, <1>2
  <2> QED BY <2>1, BraceNames DEF xs
<1>4. CASE k > 0 /\ s[k] = "if"
  <2> DEFINE c == [r EXCEPT ![k] = "else?"]
  <2>1. Complete(s) = c
    BY <1>4 DEF Complete, k
  <2>2. /\ c \in Seq(Open) /\ Len(c) = k /\ DOMAIN c = 1..k /\ c[k] = "else?"
        /\ \A i \in 1..k : i # k => c[i] = s[i]
    <3>1. "else?" \in Open /\ k \in 1..Len(r)
      <4>1. "else?" \in Open
        BY DEF Open
      <4> HIDE DEF r
      <4> QED BY <1>1, <1>2, <1>4, <4>1
    <3>2. /\ c \in Seq(Open) /\ Len(c) = Len(r)
          /\ \A i \in 1..Len(r) : c[i] = IF i = k THEN "else?" ELSE r[i]
      BY ZenonT(60), <1>2, <3>1, ExceptSeq
    <3>3. DOMAIN c = 1..Len(c)
      BY <3>2, LenProperties
    <3> QED BY <1>2, <3>1, <3>2, <3>3
  <2> HIDE DEF c
  <2>3. Places(OpenBrace, c) = Places(OpenBrace, s)
    <3>1. ASSUME NEW i \in DOMAIN c PROVE i \in DOMAIN s /\ (c[i] = OpenBrace <=> s[i] = OpenBrace)
      <4>1. i \in DOMAIN s /\ (c[i] = s[i] \/ (i = k /\ c[i] = "else?"))
        BY <1>1, <1>2, <2>2
      <4> QED BY <1>4, <4>1, BraceNames
    <3>2. \A i \in DOMAIN s : i \in DOMAIN c \/ s[i] # OpenBrace
      BY <1>3, <2>2
    <3> QED BY <3>1, <3>2, SamePlaces
  <2>4. Places("for", c) \subseteq Places("for", s)
    <3> SUFFICES ASSUME NEW i \in 1..k, c[i] = "for" PROVE i \in DOMAIN s /\ s[i] = "for"
      BY <2>2 DEF Places
    <3> QED BY <1>1, <1>2, <2>2
  <2>5. TopIs(c, "else?")
    BY <1>1, <1>4, <2>2 DEF TopIs, Last
  <2> QED BY <2>1, <2>2, <2>3, <2>4, <2>5
<1>5. CASE ~(k > 0 /\ s[k] = "if")
  <2>1. Complete(s) = r
    BY <1>5 DEF Complete, k
  <2> HIDE DEF r
  <2>2. Places(OpenBrace, r) = Places(OpenBrace, s) /\ Places("for", r) \subseteq Places("for", s)
    <3>1. Places(OpenBrace, r) = Places(OpenBrace, s)
      <4>1. \A i \in DOMAIN r : i \in DOMAIN s /\ r[i] = s[i]
        BY <1>1, <1>2
      <4>2. \A i \in DOMAIN s : i \in DOMAIN r \/ s[i] # OpenBrace
        BY <1>2, <1>3
      <4> QED BY <4>1, <4>2, SamePlaces
    <3> SUFFICES ASSUME NEW i \in 1..k, r[i] = "for" PROVE i \in DOMAIN s /\ s[i] = "for"
      BY <1>2, <3>1 DEF Places
    <3> QED BY <1>1, <1>2
  <2>3. ASSUME Places(OpenBrace, s) = {}, r # <<>> PROVE TopIs(r, "else?")
    <3>1. k > 0 /\ k \in DOMAIN s /\ s[k] \in Open /\ r[k] = s[k]
      <4>1. Len(r) # 0
        BY <1>2, <2>3, EmptySeq
      <4> QED BY <1>1, <1>2, <4>1
    <3>2. s[k] # OpenBrace /\ s[k] \notin xs /\ s[k] # "if"
      BY <1>1, <1>5, <2>3, <3>1 DEF Places
    <3> QED BY <1>2, <2>3, <3>1, <3>2, BraceNames DEF TopIs, Last
  <2> QED BY <1>2, <2>1, <2>2, <2>3
<1> QED BY <1>4, <1>5

\* Settle opens and closes no block either, and leaves nothing in a stack that has none
\* when an else could follow.
LEMMA SettleIs ==
  ASSUME NEW s \in Seq(Open)
  PROVE  /\ Settle(s) \in Seq(Open)
         /\ Places(OpenBrace, Settle(s)) = Places(OpenBrace, s)
         /\ Places("for", Settle(s)) \subseteq Places("for", s)
         /\ Settle(s) = <<>> <=> s = <<>> \/ (TopIs(s, "else?") /\ Places(OpenBrace, s) = {})
<1> DEFINE xs == {"if", "else?", "else", "for"}
           k == Below(s, xs)
           r == SubSeq(s, 1, k)
<1>1. CASE ~TopIs(s, "else?")
  BY <1>1 DEF Settle
<1>2. CASE TopIs(s, "else?")
  <2>1. /\ k \in 0..Len(s) /\ (k > 0 => s[k] \notin xs)
        /\ \A i \in (k + 1)..Len(s) : s[i] \in xs
    BY BelowIs
  <2>2. Settle(s) = r
    BY <1>2 DEF Settle
  <2> HIDE DEF k
  <2>3. /\ r \in Seq(Open) /\ Len(r) = k /\ DOMAIN r = 1..k /\ DOMAIN s = 1..Len(s) /\ Len(s) \in Nat
        /\ \A i \in 1..k : r[i] = s[i] /\ s[i] \in Open
    BY <2>1, PrefixIs
  <2> HIDE DEF r
  <2>4. \A i \in DOMAIN s : i \in 1..k \/ s[i] # OpenBrace
    <3> HIDE DEF xs
    <3>1. \A i \in DOMAIN s : i \in 1..k \/ s[i] \in xs
      BY <2>1, <2>3
    <3> QED BY <3>1, BraceNames DEF xs
  <2>5. Places(OpenBrace, r) = Places(OpenBrace, s) /\ Places("for", r) \subseteq Places("for", s)
    <3>1. Places(OpenBrace, r) = Places(OpenBrace, s)
      <4>1. \A i \in DOMAIN r : i \in DOMAIN s /\ r[i] = s[i]
        BY <2>1, <2>3
      <4>2. \A i \in DOMAIN s : i \in DOMAIN r \/ s[i] # OpenBrace
        BY <2>3, <2>4
      <4> QED BY <4>1, <4>2, SamePlaces
    <3> SUFFICES ASSUME NEW i \in 1..k, r[i] = "for" PROVE i \in DOMAIN s /\ s[i] = "for"
      BY <2>3, <3>1 DEF Places
    <3> QED BY <2>1, <2>3
  <2>6. r = <<>> => Places(OpenBrace, s) = {}
    <3>1. r = <<>> => DOMAIN r = {}
      OBVIOUS
    <3> QED BY <2>5, <3>1 DEF Places
  <2>7. ASSUME Places(OpenBrace, s) = {}, r # <<>> PROVE FALSE
    <3>1. k > 0 /\ k \in DOMAIN s /\ s[k] \in Open
      <4>1. Len(r) # 0
        BY <2>3, <2>7, EmptySeq
      <4> QED BY <2>1, <2>3, <4>1
    <3> QED BY <2>1, <2>7, <3>1, BraceNames DEF Places
  <2>8. s # <<>>
    BY <1>2 DEF TopIs
  <2> QED BY <1>2, <2>2, <2>3, <2>5, <2>6, <2>7, <2>8
<1> QED BY <1>1, <1>2

-----------------------------------------------------------------------------
(* Parse, one token at a time.                                              *)

\* The stacks after each token of a text.
IsRun(f, tokens, n) ==
  /\ f = [i \in 0..n |-> f[i]]
  /\ f[0] = <<>> /\ \A i \in 1..n : f[i] = Advance(f[i - 1], tokens[i])

LEMMA RunExists ==
  ASSUME NEW tokens
  PROVE  \A n \in Nat : \E f : IsRun(f, tokens, n)
<1> DEFINE N == {n \in Nat : \E f : IsRun(f, tokens, n)}
<1>1. 0 \in N
  <2>1. IsRun([i \in 0..0 |-> <<>>], tokens, 0)
    BY DEF IsRun
  <2> QED BY <2>1
<1>2. ASSUME NEW n \in N PROVE n + 1 \in N
  <2>1. PICK f : IsRun(f, tokens, n)
    OBVIOUS
  <2> DEFINE g == [i \in 0..(n + 1) |-> IF i <= n THEN f[i] ELSE Advance(f[n], tokens[n + 1])]
  <2>2. n \in Nat /\ n + 1 \in Nat
    OBVIOUS
  <2>3. g[0] = <<>>
    BY <2>1, <2>2 DEF IsRun
  <2>4. ASSUME NEW i \in 1..(n + 1) PROVE g[i] = Advance(g[i - 1], tokens[i])
    <3>1. CASE i = n + 1
      <4>1. g[i] = Advance(f[n], tokens[n + 1]) /\ g[i - 1] = f[n]
        BY <2>2, <3>1
      <4> QED BY <3>1, <4>1
    <3>2. CASE i # n + 1
      <4>1. i \in 1..n /\ i - 1 \in 0..n /\ i \in 0..n
        BY <2>2, <3>2
      <4>2. g[i] = f[i] /\ g[i - 1] = f[i - 1]
        BY <2>2, <4>1
      <4>3. f[i] = Advance(f[i - 1], tokens[i])
        BY <2>1, <4>1 DEF IsRun
      <4> QED BY <4>2, <4>3
    <3> QED BY <3>1, <3>2
  <2>5. IsRun(g, tokens, n + 1)
    <3>1. g = [i \in 0..(n + 1) |-> g[i]]
      OBVIOUS
    <3> HIDE DEF g
    <3> QED BY <2>3, <2>4, <3>1 DEF IsRun
  <2> QED BY <2>2, <2>5
<1>3. N = Nat
  <2>1. N \in SUBSET Nat
    OBVIOUS
  <2> HIDE DEF N
  <2> QED BY <1>1, <1>2, <2>1, SetInduction
<1> QED BY <1>3

\* Two of them agree as far as their texts do.
LEMMA RunsAgree ==
  ASSUME NEW n \in Nat, NEW s, NEW t, NEW f, NEW g, NEW m \in Nat, n <= m,
         IsRun(f, s, n), IsRun(g, t, m), \A i \in 1..n : s[i] = t[i]
  PROVE  \A i \in 0..n : f[i] = g[i]
<1> DEFINE N == {k \in Nat : k <= n => f[k] = g[k]}
<1>1. 0 \in N
  BY DEF IsRun
<1>2. ASSUME NEW k \in N PROVE k + 1 \in N
  <2> SUFFICES ASSUME k + 1 <= n PROVE f[k + 1] = g[k + 1]
    OBVIOUS
  <2>1. k \in Nat /\ k + 1 \in 1..n /\ k + 1 \in 1..m /\ (k + 1) - 1 = k
    OBVIOUS
  <2>2. f[k + 1] = Advance(f[(k + 1) - 1], s[k + 1]) /\ g[k + 1] = Advance(g[(k + 1) - 1], t[k + 1])
    BY <2>1 DEF IsRun
  <2>3. f[k] = g[k] /\ s[k + 1] = t[k + 1]
    BY <1>2, <2>1
  <2> QED BY <2>1, <2>2, <2>3
<1>3. N = Nat
  <2>1. N \in SUBSET Nat
    OBVIOUS
  <2> HIDE DEF N
  <2> QED BY <1>1, <1>2, <2>1, SetInduction
<1> QED BY <1>3

LEMMA ParseIsRun ==
  ASSUME NEW tokens \in Seq(Token)
  PROVE  \E f : IsRun(f, tokens, Len(tokens)) /\ Parse[tokens] = f[Len(tokens)]
<1> DEFINE n == Len(tokens)
           Step(f) == [i \in 0..n |-> IF i = 0 THEN <<>> ELSE Advance(f[i - 1], tokens[i])]
           after == CHOOSE f : f = Step(f)
<1>1. n \in Nat
  BY LenProperties
<1>2. PICK f : IsRun(f, tokens, n)
  BY <1>1, RunExists
<1>3. f = Step(f)
  <2>1. \A i \in 0..n : f[i] = IF i = 0 THEN <<>> ELSE Advance(f[i - 1], tokens[i])
    BY <1>1, <1>2 DEF IsRun
  <2> QED BY <1>2, <2>1 DEF IsRun
<1>4. after = Step(after)
  <2> HIDE DEF Step
  <2> QED BY <1>3
<1>5. Parse[tokens] = after[n]
  BY DEF Parse
<1> HIDE DEF after
<1>6. IsRun(after, tokens, n)
  <2>1. after[0] = <<>>
    BY <1>1, <1>4
  <2>2. \A i \in 1..n : after[i] = Advance(after[i - 1], tokens[i])
    BY <1>1, <1>4
  <2>3. after = [i \in 0..n |-> after[i]]
    BY <1>4
  <2> QED BY <2>1, <2>2, <2>3 DEF IsRun
<1> QED BY <1>5, <1>6

LEMMA ParseNothing == Parse[<<>>] = <<>>
<1>1. <<>> \in Seq(Token) /\ Len(<<>>) = 0
  OBVIOUS
<1> QED BY <1>1, ParseIsRun DEF IsRun

LEMMA ParseOneMore ==
  ASSUME NEW tokens \in Seq(Token), NEW e \in Token
  PROVE  Parse[Append(tokens, e)] = Advance(Parse[tokens], e)
<1> DEFINE t == Append(tokens, e)
           n == Len(tokens)
<1>1. /\ t \in Seq(Token) /\ n \in Nat /\ Len(t) = n + 1 /\ t[n + 1] = e
      /\ \A i \in 1..n : tokens[i] = t[i]
  BY LenProperties, AppendProperties
<1> HIDE DEF t
<1>2. PICK f : IsRun(f, tokens, n) /\ Parse[tokens] = f[n]
  BY ParseIsRun
<1>3. PICK g : IsRun(g, t, n + 1) /\ Parse[t] = g[n + 1]
  BY <1>1, ParseIsRun
<1>4. f[n] = g[n]
  <2>1. n + 1 \in Nat /\ n <= n + 1 /\ n \in 0..n
    BY <1>1
  <2> QED BY <1>1, <1>2, <1>3, <2>1, RunsAgree
<1>5. g[n + 1] = Advance(g[n], t[n + 1])
  <2>1. n + 1 \in 1..(n + 1) /\ (n + 1) - 1 = n
    BY <1>1
  <2> QED BY <1>3, <2>1 DEF IsRun
<1> QED BY <1>1, <1>2, <1>3, <1>4, <1>5 DEF t

-----------------------------------------------------------------------------
(* What a text leaves open.                                                 *)

\* A stack that has as many blocks as the text has braces open, and no for if the text
\* has none.
StackOf(s, tokens) ==
  /\ s \in Seq(Open)
  /\ Occurs(OpenBrace, s) = NetBraces(tokens)
  /\ Places("for", tokens) = {} => Places("for", s) = {}

\* The last place of a stack.
LEMMA LastIs ==
  ASSUME NEW s \in Seq(Open), NEW x, TopIs(s, x)
  PROVE  /\ Len(s) \in Nat \ {0} /\ Len(s) \in DOMAIN s /\ s[Len(s)] = x
         /\ DOMAIN s = 1..Len(s)
<1>1. Len(s) \in Nat /\ Len(s) # 0 /\ DOMAIN s = 1..Len(s)
  BY EmptySeq, LenProperties DEF TopIs
<1> QED BY <1>1 DEF TopIs, Last

\* An else takes the place of the if it belongs to.
LEMMA ElseIs ==
  ASSUME NEW s \in Seq(Open), TopIs(s, "else?"), NEW r, r = [s EXCEPT ![Len(s)] = "else"]
  PROVE  /\ r \in Seq(Open) /\ TopIs(r, "else")
         /\ Places(OpenBrace, r) = Places(OpenBrace, s) /\ Places("for", r) = Places("for", s)
<1>1. Len(s) \in 1..Len(s) /\ s[Len(s)] = "else?" /\ DOMAIN s = 1..Len(s) /\ Len(s) \in Nat \ {0}
  BY LastIs
<1>2. "else" \in Open
  BY DEF Open
<1>3. /\ r \in Seq(Open) /\ Len(r) = Len(s)
      /\ \A i \in 1..Len(s) : r[i] = IF i = Len(s) THEN "else" ELSE s[i]
  BY <1>1, <1>2, ExceptSeq
<1>4. DOMAIN r = 1..Len(r)
  BY <1>3, LenProperties
<1>5. TopIs(r, "else")
  BY <1>1, <1>3, EmptySeq DEF TopIs, Last
<1>6. ASSUME NEW x, x # "else", x # "else?" PROVE Places(x, r) = Places(x, s)
  <2>1. \A i \in DOMAIN r : i \in DOMAIN s /\ (r[i] = x <=> s[i] = x)
    BY <1>1, <1>3, <1>4, <1>6
  <2>2. \A i \in DOMAIN s : i \in DOMAIN r \/ s[i] # x
    BY <1>1, <1>3, <1>4
  <2> QED BY <2>1, <2>2, SamePlaces
<1> QED BY <1>3, <1>5, <1>6, BraceNames

\* A closing brace takes the innermost block away.
LEMMA CloseIs ==
  ASSUME NEW s \in Seq(Open), TopIs(s, OpenBrace)
  PROVE  /\ Front(s) \in Seq(Open)
         /\ Occurs(OpenBrace, Front(s)) = Occurs(OpenBrace, s) - 1
         /\ Places("for", Front(s)) \subseteq Places("for", s)
<1> DEFINE n == Len(s)
           r == Front(s)
<1>1. n \in Nat \ {0} /\ s[n] = OpenBrace /\ DOMAIN s = 1..n
  BY LastIs
<1>2. n - 1 \in 0..n
  BY <1>1
<1>3. r = SubSeq(s, 1, n - 1)
  BY DEF Front
<1>4. r \in Seq(Open) /\ DOMAIN r = 1..(n - 1) /\ \A i \in 1..(n - 1) : r[i] = s[i]
  BY <1>2, <1>3, PrefixIs
<1> HIDE DEF r
<1>5. s = Append(r, OpenBrace)
  BY <1>1, <1>3
<1>6. Occurs(OpenBrace, s) = Occurs(OpenBrace, r) + 1 /\ Occurs(OpenBrace, r) \in Nat
  <2>1. OpenBrace \in Open
    BY BraceNames
  <2> QED BY <1>4, <1>5, <2>1, OccursOnceMore, PlacesFinite
<1>7. Places("for", r) \subseteq Places("for", s)
  BY <1>1, <1>4 DEF Places
<1>8. Occurs(OpenBrace, r) = Occurs(OpenBrace, s) - 1
  BY <1>6
<1> QED BY <1>4, <1>7, <1>8 DEF r

LEMMA AdvanceKeeps ==
  ASSUME NEW tokens \in Seq(Token), NEW s, StackOf(s, tokens), NEW e \in Token,
         Advance(s, e) # Error
  PROVE  StackOf(Advance(s, e), Append(tokens, e))
<1> DEFINE t == Append(tokens, e)
           r == Advance(s, e)
<1>1. s \in Seq(Open) /\ s # Error
  BY ErrorIsNoStack DEF StackOf
<1>2. ASSUME NEW x PROVE Occurs(x, t) = Occurs(x, tokens) + IF x = e THEN 1 ELSE 0
  BY OccursOnceMore
<1>3. Places("for", t) = {} => Places("for", tokens) = {} /\ e # "for"
  <2>1. Occurs("for", t) = 0 <=> Places("for", t) = {}
    <3>1. t \in Seq(Token)
      BY AppendProperties
    <3> QED BY <3>1, PlacesFinite
  <2>2. Occurs("for", tokens) \in Nat /\ (Occurs("for", tokens) = 0 <=> Places("for", tokens) = {})
    BY PlacesFinite
  <2> QED BY <1>2, <2>1, <2>2
<1>4. Occurs(OpenBrace, tokens) \in Nat /\ Occurs(CloseBrace, tokens) \in Nat
  BY PlacesFinite
<1>5. /\ Occurs(OpenBrace, s) = Occurs(OpenBrace, tokens) - Occurs(CloseBrace, tokens)
      /\ Places("for", tokens) = {} => Places("for", s) = {}
  BY NetBracesIs DEF StackOf
<1>6. /\ Settle(s) \in Seq(Open) /\ Occurs(OpenBrace, Settle(s)) = Occurs(OpenBrace, s)
      /\ Places("for", Settle(s)) \subseteq Places("for", s)
  BY <1>1, SettleIs DEF Occurs
<1> HIDE DEF t, r
<1>7. CASE e \in {"if", "for", OpenBrace}
  <2>1. r = Append(Settle(s), e)
    BY <1>1, <1>7, AdvanceIs DEF r
  <2>2. e \in Open /\ r \in Seq(Open)
    BY <1>6, <1>7, <2>1, AppendProperties, BraceNames DEF Open
  <2>3. ASSUME NEW x PROVE Occurs(x, r) = Occurs(x, Settle(s)) + IF x = e THEN 1 ELSE 0
    BY <1>6, <2>1, <2>2, OccursOnceMore
  <2>4. Occurs(OpenBrace, r) = NetBraces(t)
    <3>1. Occurs(OpenBrace, r) = Occurs(OpenBrace, s) + IF OpenBrace = e THEN 1 ELSE 0
      BY <1>6, <2>3
    <3>2. Occurs(OpenBrace, t) = Occurs(OpenBrace, tokens) + IF OpenBrace = e THEN 1 ELSE 0
      BY <1>2
    <3>3. Occurs(CloseBrace, t) = Occurs(CloseBrace, tokens)
      <4>1. e # CloseBrace
        BY <1>7, BraceNames
      <4> QED BY <1>2, <1>4, <4>1
    <3> QED BY <1>4, <1>5, <3>1, <3>2, <3>3, NetBracesIs, BraceNames
  <2>5. Places("for", t) = {} => Places("for", r) = {}
    <3> SUFFICES ASSUME Places("for", t) = {} PROVE Places("for", r) = {}
      OBVIOUS
    <3>1. Places("for", Settle(s)) = {} /\ e # "for"
      BY <1>3, <1>5, <1>6
    <3>2. Occurs("for", Settle(s)) = 0
      BY <1>6, <3>1, PlacesFinite
    <3>3. Occurs("for", r) = 0
      BY <2>3, <3>1, <3>2
    <3> QED BY <2>2, <3>3, PlacesFinite
  <2> QED BY <2>2, <2>4, <2>5 DEF StackOf, t, r
<1>8. CASE e \in {"stmt", "undef"}
  <2>1. r = Complete(Settle(s))
    BY <1>1, <1>8, AdvanceIs DEF r
  <2>2. /\ r \in Seq(Open) /\ Occurs(OpenBrace, r) = Occurs(OpenBrace, s)
        /\ Places("for", r) \subseteq Places("for", s)
    BY <1>6, <2>1, CompleteIs DEF Occurs
  <2>3. Occurs(OpenBrace, r) = NetBraces(t)
    <3>1. e # OpenBrace /\ e # CloseBrace
      BY <1>8, BraceNames
    <3>2. Occurs(OpenBrace, t) = Occurs(OpenBrace, tokens) /\ Occurs(CloseBrace, t) = Occurs(CloseBrace, tokens)
      BY <1>2, <1>4, <3>1
    <3> QED BY <1>5, <2>2, <3>2, NetBracesIs
  <2> QED BY <1>3, <1>5, <2>2, <2>3 DEF StackOf, t, r
<1>9. CASE e = "else" /\ TopIs(s, "else?")
  <2>1. r = [s EXCEPT ![Len(s)] = "else"]
    BY <1>1, <1>9, AdvanceIs DEF r
  <2>2. r \in Seq(Open) /\ Occurs(OpenBrace, r) = Occurs(OpenBrace, s) /\ Places("for", r) = Places("for", s)
    BY <1>1, <1>9, <2>1, ElseIs DEF Occurs
  <2>3. Occurs(OpenBrace, r) = NetBraces(t)
    <3>1. e # OpenBrace /\ e # CloseBrace
      BY <1>9, BraceNames
    <3>2. Occurs(OpenBrace, t) = Occurs(OpenBrace, tokens) /\ Occurs(CloseBrace, t) = Occurs(CloseBrace, tokens)
      BY <1>2, <1>4, <3>1
    <3> QED BY <1>5, <2>2, <3>2, NetBracesIs
  <2> QED BY <1>3, <1>5, <2>2, <2>3 DEF StackOf, t, r
<1>10. CASE e = CloseBrace /\ TopIs(Settle(s), OpenBrace)
  <2> DEFINE f == Front(Settle(s))
  <2>1. r = Complete(f)
    BY <1>1, <1>10, AdvanceIs DEF r
  <2>2. /\ f \in Seq(Open) /\ Occurs(OpenBrace, f) = Occurs(OpenBrace, s) - 1
        /\ Places("for", f) \subseteq Places("for", Settle(s))
    BY <1>6, <1>10, CloseIs
  <2> HIDE DEF f
  <2>3. /\ r \in Seq(Open) /\ Occurs(OpenBrace, r) = Occurs(OpenBrace, s) - 1
        /\ Places("for", r) \subseteq Places("for", s)
    BY <1>6, <2>1, <2>2, CompleteIs DEF Occurs
  <2>4. Occurs(OpenBrace, r) = NetBraces(t)
    BY <1>2, <1>4, <1>5, <1>10, <2>3, NetBracesIs, BraceNames
  <2> QED BY <1>3, <1>5, <2>3, <2>4 DEF StackOf, t, r
<1>11. CASE Advance(s, e) = Error
  BY <1>11
<1> QED BY <1>1, <1>7, <1>8, <1>9, <1>10, <1>11, AdvanceIs

\* A text that is no error leaves a stack of what it has open.
LEMMA ParsedStack ==
  ASSUME NEW tokens \in Seq(Token), Parse[tokens] # Error
  PROVE  StackOf(Parse[tokens], tokens)
<1> DEFINE T == {t \in Seq(Token) : Parse[t] # Error => StackOf(Parse[t], t)}
<1>1. <<>> \in T
  <2>1. StackOf(<<>>, <<>>)
    <3>1. NetBraces(<<>>) = 0 /\ Occurs(OpenBrace, <<>>) = 0
      BY OccursInNothing, NetBracesIs
    <3> QED BY <3>1 DEF StackOf, Places
  <2> QED BY <2>1, ParseNothing
<1>2. ASSUME NEW t \in Seq(Token) \cap T, NEW e \in Token PROVE Append(t, e) \in T
  <2>1. Append(t, e) \in Seq(Token) /\ Parse[Append(t, e)] = Advance(Parse[t], e)
    BY AppendProperties, ParseOneMore
  <2>2. Advance(Parse[t], e) # Error => Parse[t] # Error
    BY ErrorStays
  <2> QED BY <1>2, <2>1, <2>2, AdvanceKeeps
<1>3. Seq(Token) \subseteq T
  <2> HIDE DEF T
  <2> QED BY <1>1, <1>2, SequenceInduction
<1> QED BY <1>3

\* A text parses when it leaves nothing open, or only what an else would go on with.
LEMMA ParsesIs ==
  ASSUME NEW tokens \in Seq(Token), NEW s, s = Parse[tokens]
  PROVE  /\ Parses(tokens) => s \in Seq(Open) /\ Places(OpenBrace, s) = {} /\ StackOf(s, tokens)
         /\ Parses(tokens) /\ s # <<>> => TopIs(s, "else?")
         /\ s = <<>> => Parses(tokens)
         /\ s \in Seq(Open) /\ TopIs(s, "else?") /\ Places(OpenBrace, s) = {} => Parses(tokens)
<1>1. Parses(tokens) <=> s # Error /\ Settle(s) = <<>>
  BY DEF Parses
<1>2. s # Error => StackOf(s, tokens)
  BY ParsedStack
<1>3. s \in Seq(Open) =>
        (Settle(s) = <<>> <=> s = <<>> \/ (TopIs(s, "else?") /\ Places(OpenBrace, s) = {}))
  BY SettleIs
<1>4. Places(OpenBrace, <<>>) = {}
  BY DEF Places
<1>5. s \in Seq(Open) => s # Error
  BY ErrorIsNoStack
<1>6. s = <<>> => s \in Seq(Open)
  OBVIOUS
<1> QED BY <1>1, <1>2, <1>3, <1>4, <1>5, <1>6 DEF StackOf

LEMMA ParsedIsBalanced ==
  ASSUME NEW tokens \in Seq(Token), Parses(tokens)
  PROVE  NetBraces(tokens) = 0
<1> DEFINE s == Parse[tokens]
<1>1. s \in Seq(Open) /\ Places(OpenBrace, s) = {} /\ Occurs(OpenBrace, s) = NetBraces(tokens)
  BY ParsesIs DEF StackOf
<1> QED BY <1>1, PlacesFinite

\* An else on the next line parses exactly when something is left open.
LEMMA TakesElseIs ==
  ASSUME NEW tokens \in Seq(Token)
  PROVE  TakesElse(tokens) <=> Parses(tokens) /\ Parse[tokens] # <<>>
<1> DEFINE s == Parse[tokens]
           t == Append(tokens, "else")
           u == Append(t, "stmt")
<1>1. {"else", "stmt"} \subseteq Token
  BY DEF Token
<1>2. t \in Seq(Token) /\ u \in Seq(Token) /\ tokens \o <<"else", "stmt">> = u
  BY <1>1
<1>3. Parse[t] = Advance(s, "else") /\ Parse[u] = Advance(Parse[t], "stmt")
  BY <1>1, <1>2, ParseOneMore
<1>4. TakesElse(tokens) <=> Parses(tokens) /\ Parses(u)
  BY <1>2 DEF TakesElse
<1> HIDE DEF s, t, u
<1>5. ASSUME s = <<>> PROVE ~Parses(u)
  <2>1. s # Error /\ ~TopIs(s, "else?")
    BY <1>5 DEF Error, TopIs
  <2>2. Advance(s, "else") = Error
    BY <2>1, AdvanceIs, BraceNames
  <2>3. Parse[u] = Error
    BY <1>3, <2>2, ErrorStays
  <2> QED BY <2>3 DEF Parses
<1>6. ASSUME Parses(tokens), s # <<>> PROVE Parses(u)
  <2> DEFINE r == [s EXCEPT ![Len(s)] = "else"]
  <2>1. s \in Seq(Open) /\ TopIs(s, "else?") /\ Places(OpenBrace, s) = {} /\ s # Error
    BY <1>6, ParsesIs, ErrorIsNoStack DEF s
  <2>2. Parse[t] = r
    BY <1>3, <2>1, AdvanceIs
  <2>3. r \in Seq(Open) /\ TopIs(r, "else") /\ Places(OpenBrace, r) = {} /\ r # Error
    BY <2>1, ElseIs, ErrorIsNoStack
  <2> HIDE DEF r
  <2>4. Settle(r) = r
    BY <2>3 DEF Settle, TopIs
  <2>5. Parse[u] = Complete(r)
    BY <1>3, <2>2, <2>3, <2>4, AdvanceIs
  <2>6. /\ Complete(r) \in Seq(Open) /\ Places(OpenBrace, Complete(r)) = {}
        /\ Complete(r) = <<>> \/ TopIs(Complete(r), "else?")
    BY <2>3, CompleteIs
  <2> QED BY <1>2, <2>5, <2>6, ParsesIs
<1> QED BY <1>4, <1>5, <1>6 DEF s

\* hasPendingElse sees an if only where an else would parse; and it sees every one, as
\* long as no for is in the way.
LEMMA PendingIs ==
  ASSUME NEW tokens \in Seq(Token)
  PROVE  /\ HasPendingElse(tokens) => TakesElse(tokens)
         /\ Occurs("for", tokens) = 0 /\ TakesElse(tokens) => HasPendingElse(tokens)
         /\ ~HasPendingElse(<<>>)
<1> DEFINE s == Parse[tokens]
<1>1. HasPendingElse(tokens) <=>
        /\ Parses(tokens)
        /\ \E i \in DOMAIN s : s[i] \in {"if", "else?"} /\ \A j \in 1..(i - 1) : s[j] = "else"
  BY DEF HasPendingElse
<1> HIDE DEF s
<1>2. HasPendingElse(tokens) => TakesElse(tokens)
  <2>1. s = <<>> => DOMAIN s = {}
    OBVIOUS
  <2> QED BY <1>1, <2>1, TakesElseIs DEF s
<1>3. ASSUME Occurs("for", tokens) = 0, TakesElse(tokens) PROVE HasPendingElse(tokens)
  <2>1. Parses(tokens) /\ s # <<>>
    BY <1>3, TakesElseIs DEF s
  <2>2. s \in Seq(Open) /\ TopIs(s, "else?") /\ Places(OpenBrace, s) = {} /\ StackOf(s, tokens)
    BY <2>1, ParsesIs DEF s
  <2>3. Places("for", s) = {}
    <3>1. Places("for", tokens) = {}
      BY <1>3, PlacesFinite
    <3> QED BY <2>2, <3>1 DEF StackOf
  <2> DEFINE N == {i \in 1..Len(s) : s[i] # "else"}
  <2>4. Len(s) \in N /\ N \in SUBSET Nat /\ DOMAIN s = 1..Len(s) /\ Len(s) \in Nat
    BY <2>2, LastIs
  <2>5. PICK i \in N : \A j \in N : i <= j
    BY <2>4, LeastNumber
  <2>6. \A j \in 1..(i - 1) : s[j] = "else"
    <3> SUFFICES ASSUME NEW j \in 1..(i - 1), s[j] # "else" PROVE FALSE
      OBVIOUS
    <3>1. j \in N /\ ~(i <= j)
      BY <2>4
    <3> QED BY <2>5, <3>1
  <2>7. s[i] \in {"if", "else?"}
    <3>1. i \in DOMAIN s /\ s[i] \in Open /\ s[i] # "else"
      BY <2>2, <2>4
    <3>2. s[i] # "for" /\ s[i] # OpenBrace
      BY <2>2, <2>3, <3>1 DEF Places
    <3> QED BY <3>1, <3>2, BraceNames
  <2> QED BY <1>1, <2>1, <2>4, <2>6, <2>7
<1>4. ~HasPendingElse(<<>>)
  BY ParseNothing DEF HasPendingElse
<1> QED BY <1>2, <1>3, <1>4

-----------------------------------------------------------------------------
(* The loop.  Text waits because of an open brace or because of a pending   *)
(* if, and never because of both: what is pending parses, so it has no      *)
(* brace open.                                                              *)

ReplInv ==
  /\ accumulated \in Seq(Token) /\ handed \in Seq(Token)
  /\ depth \in Nat /\ pendingElse \in BOOLEAN /\ open \in BOOLEAN
  /\ DepthIsOpenBraces /\ WaitsForAReason
  /\ open /\ pendingElse => depth = 0 /\ HasPendingElse(accumulated)
  /\ ~committed => ~HasPendingElse(handed)

LEMMA NothingTyped ==
  <<>> \in Seq(Token) /\ NetBraces(<<>>) = 0 /\ ~HasPendingElse(<<>>)
<1>1. <<>> \in Seq(Token)
  OBVIOUS
<1>2. NetBraces(<<>>) = 0
  BY OccursInNothing, NetBracesIs
<1> QED BY <1>1, <1>2, PendingIs

LEMMA ReplInit == Init => ReplInv
<1> SUFFICES ASSUME Init PROVE ReplInv
  OBVIOUS
<1>1. accumulated = <<>> /\ handed = <<>> /\ depth = 0 /\ pendingElse = FALSE /\ open = TRUE
  BY DEF Init
<1>2. DepthIsOpenBraces /\ WaitsForAReason
  BY <1>1, NothingTyped DEF DepthIsOpenBraces, WaitsForAReason
<1> QED BY <1>1, <1>2, NothingTyped DEF ReplInv

LEMMA NetBracesAdd ==
  ASSUME NEW s \in Seq(Token), NEW t \in Seq(Token)
  PROVE  NetBraces(s \o t) = NetBraces(s) + NetBraces(t) /\ NetBraces(t) \in Int
<1>1. \A x : Occurs(x, s \o t) = Occurs(x, s) + Occurs(x, t)
  BY OccursInBoth
<1>2. \A x : Occurs(x, s) \in Nat /\ Occurs(x, t) \in Nat
  BY PlacesFinite
<1> QED BY <1>1, <1>2, NetBracesIs

\* A line is collected: the loop goes on reading, it hands the text over, or it waits for
\* an else.
LEMMA CollectIs ==
  ASSUME ReplInv, NEW line \in TypedLines, Collect(line), NEW tokens, tokens = accumulated \o line
  PROVE  /\ tokens \in Seq(Token) /\ NetBraces(tokens) = depth + NetBraces(line)
         /\ NetBraces(line) \in Int /\ open /\ open'
         /\ \/ /\ depth' = NetBraces(tokens) /\ depth' > 0 /\ accumulated' = tokens
               /\ pendingElse' = FALSE /\ handed' = <<>> /\ tokens # <<>>
            \/ /\ depth' = 0 /\ accumulated' = <<>> /\ pendingElse' = FALSE
               /\ handed' = tokens /\ ~HasPendingElse(tokens)
            \/ /\ depth' = 0 /\ accumulated' = tokens /\ pendingElse' = TRUE /\ handed' = <<>>
               /\ HasPendingElse(tokens) /\ Parses(tokens) /\ NetBraces(tokens) = 0 /\ tokens # <<>>
<1>1. line \in Seq(Token) /\ accumulated \in Seq(Token) /\ depth \in Nat
  BY ReplAssumption DEF ReplInv
<1>2. open /\ open' = open
  BY DEF Collect, Typing
<1>3. depth = NetBraces(accumulated)
  BY <1>2 DEF ReplInv, DepthIsOpenBraces
<1>4. /\ tokens \in Seq(Token) /\ NetBraces(line) \in Int
      /\ NetBraces(tokens) = depth + NetBraces(line)
  BY <1>1, <1>3, NetBracesAdd, ConcatProperties
<1>5. depth' = IF NetBraces(tokens) <= 0 THEN 0 ELSE NetBraces(tokens)
  BY <1>4 DEF Collect, NewDepth
<1>6. CASE NetBraces(tokens) > 0
  <2>1. depth' = NetBraces(tokens) /\ ~(depth' <= 0)
    BY <1>1, <1>4, <1>5, <1>6
  <2>2. accumulated' = tokens /\ pendingElse' = FALSE /\ handed' = <<>>
    BY <2>1 DEF Collect, NothingHanded
  <2>3. tokens # <<>>
    <3>1. NetBraces(tokens) # 0
      BY <1>6
    <3> QED BY <3>1, NothingTyped
  <2> QED BY <1>2, <1>4, <1>6, <2>1, <2>2, <2>3
<1>7. CASE NetBraces(tokens) <= 0 /\ HasPendingElse(tokens)
  <2>1. depth' = 0
    BY <1>5, <1>7
  <2>2. accumulated' = tokens /\ pendingElse' = TRUE /\ handed' = <<>>
    BY <1>7, <2>1 DEF Collect, NothingHanded
  <2>3. Parses(tokens)
    BY <1>7 DEF HasPendingElse
  <2>4. NetBraces(tokens) = 0 /\ tokens # <<>>
    BY <1>4, <1>7, <2>3, ParsedIsBalanced, PendingIs
  <2> QED BY <1>2, <1>4, <1>7, <2>1, <2>2, <2>3, <2>4
<1>8. CASE NetBraces(tokens) <= 0 /\ ~HasPendingElse(tokens)
  <2>1. depth' = 0
    BY <1>5, <1>8
  <2>2. accumulated' = <<>> /\ pendingElse' = FALSE /\ handed' = tokens
    BY <1>8, <2>1 DEF Collect, HandOver
  <2> QED BY <1>2, <1>4, <1>8, <2>1, <2>2
<1>9. NetBraces(tokens) \in Int
  BY <1>1, <1>4
<1>10. NetBraces(tokens) > 0 \/ NetBraces(tokens) <= 0
  BY <1>9
<1> QED BY <1>6, <1>7, <1>8, <1>10, Zenon

LEMMA CollectKeeps ==
  ASSUME ReplInv, NEW line \in TypedLines, Collect(line)
  PROVE  ReplInv'
<1> DEFINE tokens == accumulated \o line
<1>1. /\ tokens \in Seq(Token) /\ open
      /\ \/ /\ depth' = NetBraces(tokens) /\ depth' > 0 /\ accumulated' = tokens
            /\ pendingElse' = FALSE /\ handed' = <<>> /\ tokens # <<>>
         \/ /\ depth' = 0 /\ accumulated' = <<>> /\ pendingElse' = FALSE
            /\ handed' = tokens /\ ~HasPendingElse(tokens)
         \/ /\ depth' = 0 /\ accumulated' = tokens /\ pendingElse' = TRUE /\ handed' = <<>>
            /\ HasPendingElse(tokens) /\ Parses(tokens) /\ NetBraces(tokens) = 0 /\ tokens # <<>>
  BY CollectIs
<1>2. open' = open
  BY DEF Collect
<1>3. accumulated \in Seq(Token) /\ handed \in Seq(Token) /\ depth \in Nat /\ open \in BOOLEAN
  BY DEF ReplInv
<1>4. depth' \in Nat
  <2>1. NetBraces(tokens) = depth + NetBraces(line) /\ NetBraces(line) \in Int
    BY CollectIs
  <2> QED BY <1>1, <1>3, <2>1
<1>5. ~(0 > 0)
  OBVIOUS
<1> HIDE DEF tokens
<1> USE <1>1, <1>2, <1>3, <1>4, <1>5, NothingTyped
    DEF ReplInv, DepthIsOpenBraces, WaitsForAReason
<1>6. CASE /\ depth' = NetBraces(tokens) /\ depth' > 0 /\ accumulated' = tokens
           /\ pendingElse' = FALSE /\ handed' = <<>> /\ tokens # <<>>
  BY <1>6, Zenon
<1>7. CASE /\ depth' = 0 /\ accumulated' = <<>> /\ pendingElse' = FALSE
           /\ handed' = tokens /\ ~HasPendingElse(tokens)
  BY <1>7, Zenon
<1>8. CASE /\ depth' = 0 /\ accumulated' = tokens /\ pendingElse' = TRUE /\ handed' = <<>>
           /\ HasPendingElse(tokens) /\ Parses(tokens) /\ NetBraces(tokens) = 0 /\ tokens # <<>>
  BY <1>8, Zenon
<1> QED BY <1>6, <1>7, <1>8, Zenon

LEMMA ReplNext == ReplInv /\ [Next]_vars => ReplInv'
<1> SUFFICES ASSUME ReplInv, [Next]_vars PROVE ReplInv'
  OBVIOUS
<1>0. /\ accumulated \in Seq(Token) /\ handed \in Seq(Token)
      /\ depth \in Nat /\ pendingElse \in BOOLEAN /\ open \in BOOLEAN
  BY DEF ReplInv
<1> USE DEF ReplInv, DepthIsOpenBraces, WaitsForAReason
<1>1. ASSUME LeaveLoop(<<>>) \/ LeaveLoop(accumulated), depth' \in Nat, pendingElse' \in BOOLEAN
      PROVE  ReplInv'
  <2>1. /\ open' = FALSE /\ accumulated' = <<>>
        /\ \/ committed' = TRUE /\ handed' = accumulated
           \/ handed' = <<>>
    BY <1>1 DEF LeaveLoop, HandOver, NothingHanded
  <2> QED BY <1>1, <2>1, NothingTyped, PendingIs
<1>2. CASE Quit
  <2>1. (LeaveLoop(<<>>) \/ LeaveLoop(accumulated)) /\ depth' \in Nat /\ pendingElse' \in BOOLEAN
    <3>1. CASE depth > 0 \/ pendingElse
      <4>1. LeaveLoop(<<>>) /\ depth' = 0 /\ pendingElse' = FALSE
        BY <1>2, <3>1, Zenon DEF Quit
      <4>2. 0 \in Nat
        OBVIOUS
      <4> QED BY <4>1, <4>2, Zenon
    <3>2. CASE ~(depth > 0 \/ pendingElse)
      <4>1. LeaveLoop(accumulated) /\ depth' = depth /\ pendingElse' = pendingElse
        BY <1>2, <3>2, Zenon DEF Quit
      <4> QED BY <1>0, <4>1, Zenon
    <3> QED BY <3>1, <3>2
  <2> QED BY <1>1, <2>1
<1>3. CASE EndOfInput
  BY <1>0, <1>1, <1>3 DEF EndOfInput
<1>4. CASE BlankSettles
  <2>1. /\ depth = 0 /\ handed' = accumulated /\ committed' = TRUE /\ accumulated' = <<>>
        /\ depth' = depth /\ open' = open /\ pendingElse' = FALSE
    <3>1. open /\ pendingElse
      BY <1>4 DEF BlankSettles
    <3> QED BY <1>4, <3>1 DEF BlankSettles, HandOver
  <2>2. depth' = 0 /\ ~(depth' > 0) /\ depth' \in Nat
    BY <2>1
  <2> QED BY <1>0, <2>1, <2>2, NothingTyped, Zenon
<1>5. CASE \E line \in TypedLines : SkipLine(line)
  <2>1. /\ handed' = <<>> /\ accumulated' = accumulated /\ depth' = depth
        /\ pendingElse' = pendingElse /\ open' = open
    BY <1>5 DEF SkipLine, NothingHanded
  <2> QED BY <1>0, <2>1, NothingTyped
<1>6. ASSUME NEW line \in TypedLines, Collect(line) PROVE ReplInv'
  BY <1>6, CollectKeeps
<1>7. CASE UNCHANGED vars
  BY <1>7 DEF vars
<1> QED BY <1>2, <1>3, <1>4, <1>5, <1>6, <1>7 DEF Next, Closed

\* depth is at every moment the number of braces that the collected text has open: no line
\* that is skipped, clamped, joined or discarded makes it drift.
THEOREM DepthsAreRight == Spec => []DepthIsOpenBraces
<1>1. ReplInv => DepthIsOpenBraces
  BY DEF ReplInv
<1> QED BY <1>1, ReplInit, ReplNext, PTL DEF Spec

\* Text waits to be run for an open brace or a possible else, and for nothing else.
THEOREM WaitsAreReasoned == Spec => []WaitsForAReason
<1>1. ReplInv => WaitsForAReason
  BY DEF ReplInv
<1> QED BY <1>1, ReplInit, ReplNext, PTL DEF Spec

\* No if without a for is run while an else could follow, and what waits for one could
\* take it, for texts of every length.
THEOREM IfsAreNotCut == Spec => []NeverCutsAnIf
<1>1. ReplInv => NeverCutsAnIf
  BY PendingIs DEF ReplInv, NeverCutsAnIf
<1> QED BY <1>1, ReplInit, ReplNext, PTL DEF Spec

\* The pre-check of one line.
LEMMA PrecheckIs ==
  ASSUME NEW line, Prechecked(line), ~PrecheckFails(line)
  PROVE  Parses(accumulated \o line \o Closing(depth + NetBraces(line)))
BY DEF PrecheckFails, Candidate

LEMMA NothingCloses == Closing(0) = <<>> /\ Parses(<<>>)
<1>1. 0 <= 0
  OBVIOUS
<1>2. Closing(0) = <<>>
  BY <1>1, Zenon DEF Closing
<1>3. Parses(<<>>)
  BY NothingTyped, ParseNothing, ParsesIs
<1> QED BY <1>2, <1>3

LEMMA SpoiltStep ==
  ASSUME ReplInv, NEW line \in TypedLines, Collect(line), ~Spoilt, Spoilt'
  PROVE  line # <<>> /\ line[1] = CloseBrace /\ accumulated' = accumulated \o line
<1> DEFINE tokens == accumulated \o line
<1>1. /\ tokens \in Seq(Token) /\ NetBraces(tokens) = depth + NetBraces(line)
      /\ NetBraces(line) \in Int /\ open
      /\ \/ depth' = NetBraces(tokens) /\ depth' > 0 /\ accumulated' = tokens
         \/ depth' = 0 /\ accumulated' = <<>>
         \/ depth' = 0 /\ accumulated' = tokens /\ Parses(tokens)
  BY CollectIs
<1>2. ~Parses(accumulated' \o Closing(depth'))
  BY DEF Spoilt, Parses, Parse, Closing
<1>3. depth' = NetBraces(tokens) /\ depth' > 0 /\ accumulated' = tokens
  <2>1. \A s \in Seq(Token) : s \o <<>> = s
    BY ConcatEmptySeq
  <2>2. <<>> \in Seq(Token)
    OBVIOUS
  <2> QED BY <1>1, <1>2, <2>1, <2>2, NothingCloses
<1>4. line # <<>>
  <2> SUFFICES ASSUME line = <<>> PROVE FALSE
    OBVIOUS
  <2>1. tokens = accumulated /\ NetBraces(line) = 0 /\ depth \in Nat
    BY NothingTyped, ConcatEmptySeq DEF ReplInv
  <2>2. depth' = depth
    BY <1>1, <1>3, <2>1
  <2>3. Parses(accumulated \o Closing(depth))
    BY <1>1 DEF Spoilt
  <2> QED BY <1>2, <1>3, <2>1, <2>2, <2>3
<1>5. line[1] = CloseBrace
  <2> SUFFICES ASSUME line[1] # CloseBrace PROVE FALSE
    OBVIOUS
  <2>1. depth \in Nat /\ depth' = depth + NetBraces(line)
    BY <1>1, <1>3 DEF ReplInv
  <2>2. depth > 0 \/ NetBraces(line) > 0
    BY <1>1, <1>3, <2>1
  <2>3. Prechecked(line)
    BY <1>4, <2>2 DEF Prechecked, CloseBrace
  <2>4. ~PrecheckFails(line)
    BY <2>3 DEF Collect
  <2>5. Parses(tokens \o Closing(depth + NetBraces(line)))
    BY <2>3, <2>4, PrecheckIs
  <2> QED BY <1>2, <1>3, <2>1, <2>5
<1> QED BY <1>3, <1>4, <1>5

\* A block that can still be completed by typing the missing braces stays so until a line
\* that starts with a closing brace is collected: the pre-check lets no other line spoil it.
THEOREM BlocksStayGood == Spec => OnlyClosingLinesSpoil
<1>1. ASSUME ReplInv, [Next]_vars, ~Spoilt, Spoilt'
      PROVE  \E line \in TypedLines :
               line # <<>> /\ line[1] = CloseBrace /\ accumulated' = accumulated \o line
  <2>1. CASE UNCHANGED vars \/ \E line \in TypedLines : SkipLine(line)
    <3>1. UNCHANGED <<accumulated, depth, open>>
      BY <2>1 DEF vars, SkipLine
    <3> QED BY <1>1, <3>1 DEF Spoilt
  <2>2. CASE Quit \/ EndOfInput
    <3>1. open' = FALSE
      BY <2>2 DEF Quit, EndOfInput, LeaveLoop
    <3> QED BY <1>1, <3>1 DEF Spoilt
  <2>3. CASE BlankSettles
    <3>1. accumulated' = <<>> /\ depth' = 0
      BY <1>1, <2>3 DEF BlankSettles, HandOver, ReplInv
    <3>2. <<>> \o <<>> = <<>>
      OBVIOUS
    <3> QED BY <1>1, <3>1, <3>2, NothingCloses DEF Spoilt
  <2>4. CASE \E line \in TypedLines : Collect(line)
    BY <1>1, <2>4, SpoiltStep
  <2> QED BY <1>1, <2>1, <2>2, <2>3, <2>4 DEF Next, Closed
<1>2. ReplInv /\ [Next]_vars =>
        [~Spoilt /\ Spoilt' =>
           \E line \in TypedLines :
             /\ line # <<>> /\ line[1] = "}"
             /\ accumulated' = accumulated \o line]_vars
  BY <1>1, Zenon DEF CloseBrace
<1> QED BY <1>2, ReplInit, ReplNext, PTL DEF Spec, OnlyClosingLinesSpoil
=============================================================================
