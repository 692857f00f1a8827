---------------------------- MODULE SessionProofs ---------------------------
(***************************************************************************)
(* What a session keeps true, for all lines, blocks and files: first of    *)
(* the checker and of the executor by itself, then of the two together.    *)
(*                                                                         *)
(* The checker sees a statement once and knows nothing of runs; the        *)
(* executor relies on what was seen.  In between stand properties of       *)
(* trees: a statement has no return outside a function, every name it      *)
(* would create was declared, no name is declared twice.  The checker      *)
(* establishes them, folding keeps them, and each step of the executor     *)
(* hands them on from a statement to the parts it goes on with.            *)
(***************************************************************************)
EXTENDS DebugSession, ExecutorProofs

-----------------------------------------------------------------------------
(* The checker by itself.  CheckerStacksAgree speaks of the lengths of two   *)
(* stacks and of one counter; to be inductive it needs the types, and that   *)
(* check() is the bottom activation and no other: only then does every other *)
(* one that ends take a scope with it.                                       *)

ActivationType == [kind : {"check", "scope", "function"}, work : Seq(CheckItem)]

\* check() itself is at the bottom of the stack and nowhere else.
CheckAtBottom == \A i \in DOMAIN checking : checking[i].kind = "check" <=> i = 1

CheckerInv == CheckerTypeOK /\ CheckAtBottom /\ CheckerStacksAgree

-----------------------------------------------------------------------------
(* The three things a visitor does to the stack of activations.             *)

LEMMA WorkType ==
  ASSUME CheckerTypeOK, checking # <<>>
  PROVE  /\ Len(checking) \in Nat \ {0}
         /\ DOMAIN checking = 1..Len(checking)
         /\ Top(checking) \in ActivationType
         /\ Work \in Seq(CheckItem)
         /\ Work # <<>> => Next1 \in CheckItem /\ Next1.node \in Node
<1>1. checking \in Seq(ActivationType)
  BY DEF CheckerTypeOK, ActivationType
<1>2. /\ Len(checking) \in Nat \ {0}
      /\ DOMAIN checking = 1..Len(checking)
      /\ Top(checking) \in ActivationType
  BY <1>1, TopPop, LenProperties
<1>3. Work \in Seq(CheckItem)
  BY <1>2 DEF Work, ActivationType
<1>4. Work # <<>> => Next1 \in CheckItem
  BY <1>3, HeadTailProperties DEF Next1
<1> QED BY <1>2, <1>3, <1>4 DEF CheckItem

\* The functions being checked are finitely many.
LEMMA FunctionsOpenFinite ==
  ASSUME CheckerTypeOK
  PROVE  IsFiniteSet(FunctionsOpen)
<1>1. Len(checking) \in Nat /\ DOMAIN checking = 1..Len(checking)
  BY LenProperties DEF CheckerTypeOK
<1>2. IsFiniteSet(1..Len(checking))
  BY <1>1, FS_Interval
<1>3. FunctionsOpen \subseteq 1..Len(checking)
  BY <1>1 DEF FunctionsOpen
<1> QED BY <1>2, <1>3, FS_Subset

\* The work of the activation at the top is replaced.
LEMMA NewWork ==
  ASSUME CheckerInv, checking # <<>>, NEW w \in Seq(CheckItem),
         NEW stack, stack = [checking EXCEPT ![Len(checking)].work = w]
  PROVE  /\ stack \in Seq(ActivationType)
         /\ Len(stack) = Len(checking)
         /\ \A i \in 1..Len(checking) : stack[i].kind = checking[i].kind
<1> DEFINE a == [Top(checking) EXCEPT !.work = w]
<1>1. checking \in Seq(ActivationType)
  BY DEF CheckerInv, CheckerTypeOK, ActivationType
<1>2. a \in ActivationType /\ a.kind = checking[Len(checking)].kind
  BY WorkType DEF CheckerInv, ActivationType, Top
<1>3. stack = [checking EXCEPT ![Len(checking)] = a]
  BY DEF Top
<1> HIDE DEF a
<1>4. /\ stack \in Seq(ActivationType)
      /\ Len(stack) = Len(checking)
      /\ \A i \in 1..Len(checking) :
           stack[i] = IF i = Len(checking) THEN a ELSE checking[i]
  BY <1>1, <1>2, <1>3, ReplaceTop
<1> QED BY <1>2, <1>4

\* A visitor without a scope: the stack keeps its shape.
LEMMA ExpandKeepsShape ==
  ASSUME CheckerInv, checking # <<>>, Work # <<>>, NEW more \in Seq(CheckItem), Expand(more)
  PROVE  /\ checking' \in Seq(ActivationType) /\ Len(checking') = Len(checking)
         /\ CheckAtBottom' /\ FunctionsOpen' = FunctionsOpen
<1>1. more \o Tail(Work) \in Seq(CheckItem)
  BY WorkType, ConsumeWork DEF CheckerInv
<1>2. checking' = [checking EXCEPT ![Len(checking)].work = more \o Tail(Work)]
  BY DEF Expand, Work, Top
<1>3. /\ checking' \in Seq(ActivationType)
      /\ Len(checking') = Len(checking)
      /\ \A i \in 1..Len(checking) : checking'[i].kind = checking[i].kind
  BY <1>1, <1>2, NewWork
<1>4. DOMAIN checking' = 1..Len(checking) /\ DOMAIN checking = 1..Len(checking)
  BY <1>3, WorkType, LenProperties DEF CheckerInv
<1>5. CheckAtBottom'
  BY <1>3, <1>4 DEF CheckerInv, CheckAtBottom
<1>6. FunctionsOpen' = FunctionsOpen
  BY <1>3, <1>4 DEF FunctionsOpen
<1> QED BY <1>3, <1>5, <1>6

\* A visitor with a scope: one activation more.
LEMMA EnterAddsOne ==
  ASSUME CheckerInv, checking # <<>>, Work # <<>>, NEW kind \in {"scope", "function"},
         NEW work \in Seq(CheckItem), Enter(kind, work)
  PROVE  /\ checking' \in Seq(ActivationType) /\ Len(checking') = Len(checking) + 1
         /\ CheckAtBottom'
         /\ FunctionsOpen' = IF kind = "function" THEN FunctionsOpen \cup {Len(checking) + 1}
                                                  ELSE FunctionsOpen
<1> DEFINE below == [checking EXCEPT ![Len(checking)].work = Tail(Work)]
           a     == Activation(kind, work)
<1>1. Tail(Work) \in Seq(CheckItem)
  BY WorkType, HeadTailProperties DEF CheckerInv
<1>2. checking' = Append(below, a)
  BY DEF Enter, Work, Top
<1>3. /\ below \in Seq(ActivationType)
      /\ Len(below) = Len(checking)
      /\ \A i \in 1..Len(checking) : below[i].kind = checking[i].kind
  BY <1>1, NewWork
<1>4. a \in ActivationType /\ a.kind = kind
  BY DEF Activation, ActivationType
<1> HIDE DEF below, a
<1>5. /\ checking' \in Seq(ActivationType)
      /\ Len(checking') = Len(checking) + 1
      /\ \A i \in 1..Len(checking) : checking'[i] = below[i]
      /\ checking'[Len(checking) + 1] = a
  BY <1>2, <1>3, <1>4, AppendProperties
<1>6. /\ Len(checking) \in Nat \ {0}
      /\ DOMAIN checking' = 1..(Len(checking) + 1) /\ DOMAIN checking = 1..Len(checking)
  BY <1>5, WorkType, LenProperties DEF CheckerInv
<1>7. \A i \in 1..Len(checking) : checking'[i].kind = checking[i].kind
  BY <1>3, <1>5
<1>8. checking'[Len(checking) + 1].kind = kind
  BY <1>4, <1>5
<1>9. CheckAtBottom'
  BY <1>6, <1>7, <1>8 DEF CheckerInv, CheckAtBottom
<1>10. FunctionsOpen' = IF kind = "function" THEN FunctionsOpen \cup {Len(checking) + 1}
                                             ELSE FunctionsOpen
  BY <1>6, <1>7, <1>8 DEF FunctionsOpen
<1> QED BY <1>5, <1>9, <1>10

\* An activation that ends.
LEMMA PopRemovesOne ==
  ASSUME CheckerInv, checking # <<>>, checking' = Pop(checking)
  PROVE  /\ checking' \in Seq(ActivationType) /\ Len(checking') = Len(checking) - 1
         /\ CheckAtBottom' /\ FunctionsOpen' = FunctionsOpen \ {Len(checking)}
<1>1. checking \in Seq(ActivationType)
  BY DEF CheckerInv, CheckerTypeOK, ActivationType
<1>2. /\ Len(checking) \in Nat \ {0}
      /\ checking' \in Seq(ActivationType)
      /\ Len(checking') = Len(checking) - 1
      /\ \A i \in 1..(Len(checking) - 1) : checking'[i] = checking[i]
  BY <1>1, TopPop
<1>3. DOMAIN checking' = 1..(Len(checking) - 1) /\ DOMAIN checking = 1..Len(checking)
  BY <1>1, <1>2, LenProperties
<1>4. CheckAtBottom'
  BY <1>2, <1>3 DEF CheckerInv, CheckAtBottom
<1>5. FunctionsOpen' = FunctionsOpen \ {Len(checking)}
  BY <1>2, <1>3 DEF FunctionsOpen
<1> QED BY <1>2, <1>4, <1>5

-----------------------------------------------------------------------------
(* scopes_.                                                                 *)

ScopeType == [Name -> NameState]

\* Declaring or defining a name in the innermost scope.
LEMMA SetInScope ==
  ASSUME scopes \in Seq(ScopeType), scopes # <<>>, NEW x, NEW v \in NameState,
         NEW t, t = [scopes EXCEPT ![Len(scopes)][x] = v]
  PROVE  t \in Seq(ScopeType) /\ Len(t) = Len(scopes)
<1> DEFINE e == [Top(scopes) EXCEPT ![x] = v]
<1>1. e \in ScopeType
  BY TopPop DEF ScopeType
<1>2. t = [scopes EXCEPT ![Len(scopes)] = e]
  BY DEF Top
<1> HIDE DEF e
<1> QED BY <1>1, <1>2, ReplaceTop

\* What a step has to show when it leaves the shape of the stacks alone.
LEMMA ShapeKept ==
  ASSUME CheckerInv, checking # <<>>,
         checking' \in Seq(ActivationType), Len(checking') = Len(checking),
         CheckAtBottom', FunctionsOpen' = FunctionsOpen,
         scopes' \in Seq(ScopeType), Len(scopes') = Len(scopes),
         globalScope' \in SUBSET Name,
         UNCHANGED <<globalScopeSnapshot, functionDepth, strictGlobalCheck>>,
         checkError' = checkError \/ \E x \in Name \cup {""} :
           \E k \in {"redeclared", "selfRead", "undefined", "duplicateParam", "return"} :
             checkError' = CheckError(k, x)
  PROVE  CheckerInv'
<1>1. checkError' \in [kind : {"none", "redeclared", "selfRead", "undefined",
                               "duplicateParam", "return"}, tok : Name \cup {""}]
  <2>1. CASE checkError' = checkError
    BY <2>1 DEF CheckerInv, CheckerTypeOK
  <2>2. CASE checkError' # checkError
    <3>1. PICK x \in Name \cup {""},
               k \in {"redeclared", "selfRead", "undefined", "duplicateParam", "return"} :
                 checkError' = [kind |-> k, tok |-> x]
      BY <2>2 DEF CheckError
    <3> QED BY <3>1
  <2> QED BY <2>1, <2>2
<1>2. CheckerTypeOK'
  BY <1>1 DEF CheckerInv, CheckerTypeOK, ActivationType, ScopeType
<1>3. checking' # <<>>
  BY WorkType, EmptySeq DEF CheckerInv
<1>4. CheckerStacksAgree'
  BY <1>3 DEF CheckerInv, CheckerStacksAgree
<1> QED BY <1>2, <1>4 DEF CheckerInv

-----------------------------------------------------------------------------
(* The inductive step.                                                      *)

\* The items of the children of a node that is visited.
LEMMA VisitType ==
  ASSUME NEW kids \in Seq(Node)
  PROVE  Visit(kids) \in Seq(CheckItem)
<1>1. Visit(kids) \in Seq([op : {"visit"}, node : Node])
  BY ItemsType DEF Visit
<1>2. [op : {"visit"}, node : Node] \subseteq CheckItem
  BY DEF CheckItem
<1> QED BY <1>1, <1>2, SeqMonotonic

\* A visitor that throws.
LEMMA ThrowStep ==
  ASSUME CheckerInv, checking # <<>>, NEW x \in Name \cup {""},
         NEW k \in {"redeclared", "selfRead", "undefined", "duplicateParam", "return"},
         checkError' = CheckError(k, x), globalScope' \in SUBSET Name,
         UNCHANGED <<checking, scopes, globalScopeSnapshot, functionDepth, strictGlobalCheck>>
  PROVE  CheckerInv'
<1>1. /\ checking' \in Seq(ActivationType) /\ scopes' \in Seq(ScopeType)
      /\ CheckAtBottom' /\ FunctionsOpen' = FunctionsOpen
  BY DEF CheckerInv, CheckerTypeOK, ActivationType, ScopeType, CheckAtBottom, FunctionsOpen
<1> QED BY <1>1, ShapeKept

\* A visitor that only replaces the work of the activation it stands in.
LEMMA ExpandStep ==
  ASSUME CheckerInv, checking # <<>>, Work # <<>>, NEW more \in Seq(CheckItem), Expand(more),
         scopes' \in Seq(ScopeType), Len(scopes') = Len(scopes), globalScope' \in SUBSET Name,
         UNCHANGED <<globalScopeSnapshot, functionDepth, strictGlobalCheck, checkError>>
  PROVE  CheckerInv'
<1>1. /\ checking' \in Seq(ActivationType) /\ Len(checking') = Len(checking)
      /\ CheckAtBottom' /\ FunctionsOpen' = FunctionsOpen
  BY ExpandKeepsShape
<1> QED BY <1>1, ShapeKept

\* A visitor that opens a scope, and counts it if it is that of a function.
LEMMA EnterStep ==
  ASSUME CheckerInv, checking # <<>>, Work # <<>>, NEW kind \in {"scope", "function"},
         NEW work \in Seq(CheckItem), Enter(kind, work),
         NEW scope \in ScopeType, scopes' = Append(scopes, scope),
         functionDepth' = IF kind = "function" THEN functionDepth + 1 ELSE functionDepth,
         globalScope' \in SUBSET Name,
         UNCHANGED <<globalScopeSnapshot, strictGlobalCheck, checkError>>
  PROVE  CheckerInv'
<1>1. /\ checking' \in Seq(ActivationType) /\ Len(checking') = Len(checking) + 1
      /\ CheckAtBottom'
      /\ FunctionsOpen' = IF kind = "function" THEN FunctionsOpen \cup {Len(checking) + 1}
                                               ELSE FunctionsOpen
  BY EnterAddsOne
<1>2. scopes' \in Seq(ScopeType) /\ Len(scopes') = Len(scopes) + 1
  <2>1. scopes \in Seq(ScopeType)
    BY DEF CheckerInv, CheckerTypeOK, ScopeType
  <2> QED BY <2>1, AppendProperties
<1>3. functionDepth' \in Nat
  <2>1. functionDepth \in Nat
    BY DEF CheckerInv, CheckerTypeOK
  <2> QED BY <2>1
<1>4. CheckerTypeOK'
  BY <1>1, <1>2, <1>3 DEF CheckerInv, CheckerTypeOK, ActivationType, ScopeType
<1>5. Len(checking) \in Nat \ {0} /\ DOMAIN checking = 1..Len(checking)
  BY WorkType DEF CheckerInv
<1>6. functionDepth' = Cardinality(FunctionsOpen')
  <2>1. IsFiniteSet(FunctionsOpen)
    BY FunctionsOpenFinite DEF CheckerInv
  <2>2. Len(checking) + 1 \notin FunctionsOpen
    BY <1>5 DEF FunctionsOpen
  <2>3. Cardinality(FunctionsOpen \cup {Len(checking) + 1}) = Cardinality(FunctionsOpen) + 1
    BY <2>1, <2>2, FS_AddElement
  <2> QED BY <1>1, <2>3 DEF CheckerInv, CheckerStacksAgree
<1>7. checking' # <<>>
  BY <1>1, <1>5, EmptySeq
<1>8. CheckerStacksAgree'
  BY <1>1, <1>2, <1>5, <1>6, <1>7 DEF CheckerInv, CheckerStacksAgree
<1> QED BY <1>1, <1>4, <1>8 DEF CheckerInv

\* The end of an activation, with an exception or without one.
LEMMA EndStep ==
  ASSUME CheckerInv, EndActivation
  PROVE  CheckerInv'
<1>1. /\ checking # <<>> /\ checking' = Pop(checking)
      /\ Len(checking) \in Nat \ {0} /\ DOMAIN checking = 1..Len(checking)
  BY WorkType DEF CheckerInv, EndActivation
<1>2. /\ checking' \in Seq(ActivationType) /\ Len(checking') = Len(checking) - 1
      /\ CheckAtBottom' /\ FunctionsOpen' = FunctionsOpen \ {Len(checking)}
  BY <1>1, PopRemovesOne
<1>3. checking' = <<>> <=> Len(checking) = 1
  BY <1>1, <1>2, EmptySeq
<1>4. /\ LeavesScope <=> Len(checking) # 1
      /\ LeavesFunction <=> Len(checking) \in FunctionsOpen
  BY <1>1, WorkType
     DEF CheckerInv, CheckAtBottom, LeavesScope, LeavesFunction, FunctionsOpen, Top,
         ActivationType
<1>5. scopes \in Seq(ScopeType) /\ Len(scopes) = Len(checking) - 1
  BY <1>1 DEF CheckerInv, CheckerTypeOK, CheckerStacksAgree, ScopeType
<1>6. /\ scopes' \in Seq(ScopeType)
      /\ Len(scopes') = IF checking' = <<>> THEN 0 ELSE Len(checking') - 1
  <2>1. CASE Len(checking) = 1
    BY <2>1, <1>2, <1>3, <1>4, <1>5 DEF EndActivation
  <2>2. CASE Len(checking) # 1
    <3>1. scopes # <<>>
      BY <2>2, <1>1, <1>5, EmptySeq
    <3>2. scopes' = Pop(scopes)
      BY <2>2, <1>4 DEF EndActivation
    <3>3. Pop(scopes) \in Seq(ScopeType) /\ Len(Pop(scopes)) = Len(scopes) - 1
      BY <1>5, <3>1, TopPop
    <3> QED BY <2>2, <1>1, <1>2, <1>3, <1>5, <3>2, <3>3
  <2> QED BY <2>1, <2>2
<1>7. functionDepth' \in Nat /\ functionDepth' = Cardinality(FunctionsOpen')
  <2>1. IsFiniteSet(FunctionsOpen)
    BY FunctionsOpenFinite DEF CheckerInv
  <2>2. IsFiniteSet(FunctionsOpen') /\ Cardinality(FunctionsOpen') \in Nat
    BY <1>2, <2>1, FS_Subset, FS_CardinalityType
  <2>3. functionDepth = Cardinality(FunctionsOpen) /\ functionDepth \in Nat
    BY DEF CheckerInv, CheckerStacksAgree, CheckerTypeOK
  <2>4. Cardinality(FunctionsOpen') = IF LeavesFunction THEN functionDepth - 1
                                                        ELSE functionDepth
    BY <1>2, <1>4, <2>1, <2>3, FS_RemoveElement
  <2> QED BY <2>2, <2>4 DEF EndActivation
<1>8. CheckerTypeOK'
  BY <1>2, <1>6, <1>7
     DEF EndActivation, CheckerInv, CheckerTypeOK, ActivationType, ScopeType
<1>9. CheckerStacksAgree'
  BY <1>6, <1>7 DEF CheckerStacksAgree
<1> QED BY <1>2, <1>8, <1>9 DEF CheckerInv

LEMMA CheckerInitInv == CheckerInit => CheckerInv
<1> SUFFICES ASSUME CheckerInit PROVE CheckerInv
  OBVIOUS
<1>1. checking = <<>> /\ scopes = <<>> /\ Len(scopes) = 0 /\ functionDepth = 0
  BY EmptySeq DEF CheckerInit
<1>2. FunctionsOpen = {}
  BY <1>1 DEF FunctionsOpen
<1>3. CheckerTypeOK
  <2>1. /\ checking \in Seq([kind : {"check", "scope", "function"}, work : Seq(CheckItem)])
        /\ scopes \in Seq([Name -> NameState])
    BY <1>1, EmptySeq
  <2>2. checkError \in [kind : {"none", "redeclared", "selfRead", "undefined",
                               "duplicateParam", "return"}, tok : Name \cup {""}]
    BY DEF CheckerInit, NoError
  <2>3. functionDepth \in Nat /\ strictGlobalCheck \in BOOLEAN
        /\ globalScope \in SUBSET Name /\ globalScopeSnapshot \in SUBSET Name
    BY DEF CheckerInit
  <2> QED BY <2>1, <2>2, <2>3 DEF CheckerTypeOK
<1>4. CheckerStacksAgree
  BY <1>1, <1>2, FS_EmptySet DEF CheckerStacksAgree
<1>5. CheckAtBottom
  BY <1>1 DEF CheckAtBottom
<1> QED BY <1>3, <1>4, <1>5 DEF CheckerInv

\* check() starts on statements, whatever the scopes are - there are none.
LEMMA CheckBeginInv ==
  ASSUME CheckerInv, NEW stmts \in Seq(Node), CheckBegin(stmts), strictGlobalCheck' \in BOOLEAN
  PROVE  CheckerInv'
<1> DEFINE a == Activation("check", Visit(stmts))
<1>1. a \in ActivationType /\ a.kind = "check"
  BY VisitType DEF Activation, ActivationType
<1>2. checking' = <<a>>
  BY DEF CheckBegin
<1> HIDE DEF a
<1>3. /\ checking' \in Seq(ActivationType) /\ Len(checking') = 1 /\ checking' # <<>>
      /\ DOMAIN checking' = {1} /\ checking'[1].kind = "check"
  BY <1>1, <1>2
<1>4. FunctionsOpen' = {}
  BY <1>3 DEF FunctionsOpen
<1>5. Len(scopes) = 0 /\ functionDepth = 0
  <2>1. checking = <<>>
    BY DEF CheckBegin
  <2>2. FunctionsOpen = {}
    BY <2>1 DEF FunctionsOpen
  <2> QED BY <2>1, <2>2, FS_EmptySet DEF CheckerInv, CheckerStacksAgree
<1>6. CheckerTypeOK'
  BY <1>3 DEF CheckBegin, CheckerInv, CheckerTypeOK, ActivationType, NoError
<1>7. CheckerStacksAgree'
  BY <1>3, <1>4, <1>5, FS_EmptySet DEF CheckBegin, CheckerStacksAgree
<1> QED BY <1>3, <1>6, <1>7 DEF CheckerInv, CheckAtBottom

\* The checker's other entry points leave the stacks alone.
LEMMA CheckerKept ==
  ASSUME CheckerInv, globalScope' \in SUBSET Name, strictGlobalCheck' \in BOOLEAN,
         UNCHANGED <<checking, scopes, globalScopeSnapshot, functionDepth, checkError>>
  PROVE  CheckerInv'
<1>1. FunctionsOpen' = FunctionsOpen
  BY DEF FunctionsOpen
<1> QED BY <1>1 DEF CheckerInv, CheckerTypeOK, CheckAtBottom, CheckerStacksAgree

LEMMA CheckerStepInv ==
  ASSUME CheckerInv, CheckerStep
  PROVE  CheckerInv'
<1> USE DEF Running
<1>1. /\ scopes \in Seq(ScopeType) /\ globalScope \in SUBSET Name
  BY DEF CheckerInv, CheckerTypeOK, ScopeType
<1>2. ASSUME NEW kinds, Visiting(kinds)
      PROVE  /\ checking # <<>> /\ Work # <<>>
             /\ Next1.node \in Node /\ Next1.node.kind \in kinds
             /\ Next1.node.kids \in Seq(Node)
             /\ Visit(Next1.node.kids) \in Seq(CheckItem)
  BY <1>2, WorkType, VisitType, NodeAssumption DEF Visiting, CheckerInv
<1>3. <<>> \in Seq(CheckItem)
  BY EmptySeq
<1>4. CASE VisitChildren
  BY <1>4, <1>1, <1>2, ExpandStep DEF VisitChildren
<1>5. CASE VisitVariable
  <2>1. /\ checking # <<>> /\ Work # <<>> /\ Next1.node.tok \in Name
    BY <1>5, <1>2, NodeAssumption DEF VisitVariable
  <2>2. CASE ReadError(Next1.node.tok) = "none"
    BY <2>1, <2>2, <1>1, <1>3, <1>5, ExpandStep DEF VisitVariable
  <2>3. CASE ReadError(Next1.node.tok) # "none"
    <3>1. ReadError(Next1.node.tok) \in {"selfRead", "undefined"}
      BY <2>3 DEF ReadError
    <3> QED BY <2>1, <2>3, <3>1, <1>1, <1>5, ThrowStep DEF VisitVariable, Throw
  <2> QED BY <2>2, <2>3
<1>6. CASE VisitVarDeclare
  <2> DEFINE n == Next1.node
             more == Append(Visit(n.kids), Item("define", n))
  <2>1. /\ checking # <<>> /\ Work # <<>> /\ n \in Node /\ n.tok \in Name
        /\ Visit(n.kids) \in Seq(CheckItem)
    BY <1>6, <1>2, NodeAssumption DEF VisitVarDeclare
  <2>2. CASE DeclaredHere(n.tok)
    BY <2>1, <2>2, <1>1, <1>6, ThrowStep DEF VisitVarDeclare, Throw
  <2>3. CASE ~DeclaredHere(n.tok)
    <3>1. Item("define", n) \in CheckItem
      BY <2>1 DEF Item, CheckItem
    <3>2. more \in Seq(CheckItem)
      BY <2>1, <3>1, AppendProperties
    <3>3. /\ scopes' \in Seq(ScopeType) /\ Len(scopes') = Len(scopes)
          /\ globalScope' \in SUBSET Name
      <4>1. Declare(n.tok)
        BY <2>3, <1>6 DEF VisitVarDeclare
      <4>2. CASE scopes = <<>>
        BY <4>1, <4>2, <2>1, <1>1 DEF Declare
      <4>3. CASE scopes # <<>>
        <5>1. scopes' = [scopes EXCEPT ![Len(scopes)][n.tok] = "declared"]
          BY <4>1, <4>3 DEF Declare
        <5>2. "declared" \in NameState
          BY DEF NameState
        <5> QED BY <4>1, <4>3, <5>1, <5>2, <2>1, <1>1, SetInScope DEF Declare
      <4> QED BY <4>2, <4>3
    <3>4. Expand(more) /\ UNCHANGED <<globalScopeSnapshot, functionDepth, strictGlobalCheck,
                                      checkError>>
      BY <2>3, <1>6 DEF VisitVarDeclare
    <3> HIDE DEF more
    <3> QED BY <2>1, <3>2, <3>3, <3>4, ExpandStep
  <2> QED BY <2>2, <2>3
<1>7. CASE FinishVarDeclare
  <2>1. /\ checking # <<>> /\ Work # <<>> /\ Next1 \in CheckItem /\ Next1.op = "define"
    BY <1>7, WorkType DEF FinishVarDeclare, CheckerInv
  <2>2. scopes' \in Seq(ScopeType) /\ Len(scopes') = Len(scopes)
    <3> DEFINE x == Next1.node.tok
    <3>1. CASE scopes = <<>>
      BY <3>1, <1>1, <1>7 DEF FinishVarDeclare, Define
    <3>2. CASE scopes # <<>>
      <4>1. scopes' = [scopes EXCEPT ![Len(scopes)][x] = "defined"]
        BY <3>2, <1>7 DEF FinishVarDeclare, Define
      <4>2. "defined" \in NameState
        BY DEF NameState
      <4> QED BY <3>2, <4>1, <4>2, <1>1, SetInScope
    <3> QED BY <3>1, <3>2
  <2> QED BY <2>1, <2>2, <1>1, <1>3, <1>7, ExpandStep DEF FinishVarDeclare
<1>8. CASE VisitScope
  <2>1. EmptyScope \in ScopeType
    BY DEF EmptyScope, ScopeType, NameState
  <2> QED BY <2>1, <1>1, <1>2, <1>8, EnterStep DEF VisitScope
<1>9. CASE VisitFunction
  <2> DEFINE n == Next1.node
  <2>1. /\ checking # <<>> /\ Work # <<>> /\ n \in Node /\ n.tok \in Name
        /\ Visit(n.kids) \in Seq(CheckItem)
    BY <1>9, <1>2, NodeAssumption DEF VisitFunction
  <2>2. globalScope' \in SUBSET Name
    BY <2>1, <1>1, <1>9 DEF VisitFunction
  <2>3. CASE Duplicated(n.params) # {}
    BY <2>1, <2>2, <2>3, <1>9, ThrowStep DEF VisitFunction
  <2>4. CASE Duplicated(n.params) = {}
    <3>1. ParamScope(n.params) \in ScopeType
      BY DEF ParamScope, ScopeType, NameState
    <3> QED BY <2>1, <2>2, <2>4, <3>1, <1>9, EnterStep DEF VisitFunction
  <2> QED BY <2>3, <2>4
<1>10. CASE VisitReturn
  <2>1. CASE functionDepth = 0
    BY <2>1, <1>1, <1>2, <1>10, ThrowStep DEF VisitReturn, Throw
  <2>2. CASE functionDepth # 0
    BY <2>2, <1>1, <1>2, <1>10, ExpandStep DEF VisitReturn
  <2> QED BY <2>1, <2>2
<1>11. CASE EndActivation
  BY <1>11, EndStep
<1> QED BY <1>4, <1>5, <1>6, <1>7, <1>8, <1>9, <1>10, <1>11 DEF CheckerStep

-----------------------------------------------------------------------------
(* What a check finds out.  A check that ends without an error has seen     *)
(* every statement.  The argument goes backwards: what is left to visit     *)
(* being right makes what was left before the step right.                   *)

\* The three ways a step that throws nothing goes on.
Below == \A i \in 1..(Len(checking) - 1) : checking'[i] = checking[i]

VisitGoes ==
  /\ Work # <<>> /\ Len(checking') = Len(checking) /\ Below
  /\ checking'[Len(checking)].kind = checking[Len(checking)].kind
  /\ \E more \in Seq(CheckItem) :
       /\ checking'[Len(checking)].work = more \o Tail(Work)
       /\ Next1.op = "visit" =>
            \/ Next1.node.kind = "variable"
            \/ \A k \in Kids(Next1.node) : \E i \in DOMAIN more : more[i] = Item("visit", k)
  /\ Next1.op = "visit" =>
       /\ Next1.node.kind \notin ScopeKind
       /\ Next1.node.kind = "return" => functionDepth # 0
       /\ Next1.node.kind = "var" /\ scopes = <<>> =>
            Next1.node.tok \notin globalScope /\ globalScope' = globalScope \cup {Next1.node.tok}

VisitOpens ==
  /\ Work # <<>> /\ Next1.op = "visit" /\ Next1.node.kind \in ScopeKind
  /\ Len(checking') = Len(checking) + 1 /\ Below
  /\ checking'[Len(checking)] = Activation(checking[Len(checking)].kind, Tail(Work))
  /\ checking'[Len(checking) + 1] =
       Activation(IF Next1.node.kind = "func" THEN "function" ELSE "scope", Visit(Next1.node.kids))
  /\ Next1.node.kind = "func" => Next1.node.tok \in globalScope'

VisitEnds == Work = <<>> /\ Len(checking') = Len(checking) - 1 /\ Below

\* The work of the activation at the top is replaced: the ones below stay what they are.
LEMMA NewTop ==
  ASSUME CheckerInv, checking # <<>>, NEW w \in Seq(CheckItem),
         NEW stack, stack = [checking EXCEPT ![Len(checking)].work = w]
  PROVE  /\ Len(checking) \in Nat \ {0}
         /\ stack \in Seq(ActivationType)
         /\ Len(stack) = Len(checking)
         /\ \A i \in 1..(Len(checking) - 1) : stack[i] = checking[i]
         /\ stack[Len(checking)] = Activation(checking[Len(checking)].kind, w)
<1> DEFINE a == [Top(checking) EXCEPT !.work = w]
<1>1. checking \in Seq(ActivationType)
  BY DEF CheckerInv, CheckerTypeOK, ActivationType
<1>2. a \in ActivationType
  BY WorkType DEF CheckerInv, ActivationType
<1>3. a = Activation(checking[Len(checking)].kind, w)
  BY WorkType DEF CheckerInv, ActivationType, Top, Activation
<1>4. stack = [checking EXCEPT ![Len(checking)] = a]
  BY DEF Top
<1> HIDE DEF a
<1>5. /\ stack \in Seq(ActivationType)
      /\ Len(stack) = Len(checking)
      /\ \A i \in 1..Len(checking) :
           stack[i] = IF i = Len(checking) THEN a ELSE checking[i]
  BY SMTT(60), <1>1, <1>2, <1>4, ReplaceTop
<1>6. Len(checking) \in Nat \ {0}
  BY WorkType DEF CheckerInv
<1> QED BY SMTT(60), <1>3, <1>5, <1>6

LEMMA ExpandGoes ==
  ASSUME CheckerInv, checking # <<>>, Work # <<>>, NEW more \in Seq(CheckItem), Expand(more)
  PROVE  /\ Len(checking') = Len(checking) /\ Below
         /\ checking'[Len(checking)].kind = checking[Len(checking)].kind
         /\ checking'[Len(checking)].work = more \o Tail(Work)
<1> DEFINE w == more \o Tail(Work)
<1>1. w \in Seq(CheckItem)
  BY WorkType, ConsumeWork DEF CheckerInv
<1>2. checking' = [checking EXCEPT ![Len(checking)].work = w]
  BY DEF Expand, Work, Top
<1> HIDE DEF w
<1>3. /\ Len(checking') = Len(checking)
      /\ \A i \in 1..(Len(checking) - 1) : checking'[i] = checking[i]
      /\ checking'[Len(checking)] = Activation(checking[Len(checking)].kind, w)
  BY <1>1, <1>2, NewTop
<1> QED BY <1>3 DEF Below, Activation, w

LEMMA EnterOpens ==
  ASSUME CheckerInv, checking # <<>>, Work # <<>>, NEW kind \in {"scope", "function"},
         NEW work \in Seq(CheckItem), Enter(kind, work)
  PROVE  /\ Len(checking') = Len(checking) + 1 /\ Below
         /\ checking'[Len(checking)] = Activation(checking[Len(checking)].kind, Tail(Work))
         /\ checking'[Len(checking) + 1] = Activation(kind, work)
<1> DEFINE w == Tail(Work)
           below == [checking EXCEPT ![Len(checking)].work = w]
           a     == Activation(kind, work)
<1>1. w \in Seq(CheckItem)
  BY WorkType, HeadTailProperties DEF CheckerInv
<1>2. checking' = Append(below, a)
  BY DEF Enter, Work, Top
<1>3. a \in ActivationType
  BY DEF Activation, ActivationType
<1> HIDE DEF w, a
<1>4. /\ Len(checking) \in Nat \ {0}
      /\ below \in Seq(ActivationType)
      /\ Len(below) = Len(checking)
      /\ \A i \in 1..(Len(checking) - 1) : below[i] = checking[i]
      /\ below[Len(checking)] = Activation(checking[Len(checking)].kind, w)
  BY <1>1, NewTop
<1> HIDE DEF below
<1>5. /\ Len(checking') = Len(checking) + 1
      /\ \A i \in 1..Len(checking) : checking'[i] = below[i]
      /\ checking'[Len(checking) + 1] = a
  BY <1>2, <1>3, <1>4, AppendProperties
<1> QED BY <1>4, <1>5 DEF Below, w, a

LEMMA CheckMoves ==
  ASSUME CheckerInv, CheckerStep, checkError' = NoError
  PROVE  /\ checking # <<>> /\ checkError = NoError
         /\ globalScope \subseteq globalScope' /\ UNCHANGED globalScopeSnapshot
         /\ VisitGoes \/ VisitOpens \/ VisitEnds
<1> USE DEF Running
<1>0. \A k \in {"redeclared", "selfRead", "undefined", "duplicateParam", "return"} :
        \A x : CheckError(k, x) # NoError
  BY DEF CheckError, NoError
<1>1. ASSUME NEW kinds, Visiting(kinds)
      PROVE  /\ checking # <<>> /\ Work # <<>> /\ checkError = NoError
             /\ Next1.op = "visit" /\ Next1.node \in Node /\ Next1.node.kind \in kinds
             /\ Next1.node.kids \in Seq(Node)
             /\ Visit(Next1.node.kids) \in Seq(CheckItem)
  BY <1>1, WorkType, VisitType, NodeAssumption DEF Visiting, CheckerInv
<1>2. <<>> \in Seq(CheckItem)
  BY EmptySeq
<1>3. \A n \in Node : \A k \in Kids(n) : \E i \in DOMAIN Visit(n.kids) :
        Visit(n.kids)[i] = Item("visit", k)
  BY DEF Visit, Items, Kids
<1>4. CASE VisitChildren
  <2>1. Expand(Visit(Next1.node.kids)) /\ UNCHANGED <<globalScope, globalScopeSnapshot>>
    BY <1>4 DEF VisitChildren
  <2>2. Next1.node.kind \notin ScopeKind \cup {"return", "var"}
    BY <1>1, <1>4 DEF VisitChildren, ScopeKind
  <2> QED BY <1>1, <1>3, <1>4, <2>1, <2>2, ExpandGoes DEF VisitChildren, VisitGoes
<1>5. CASE VisitVariable
  <2>1. Expand(<<>>) /\ UNCHANGED <<globalScope, globalScopeSnapshot>>
    <3>1. CASE ReadError(Next1.node.tok) = "none"
      BY <3>1, <1>5 DEF VisitVariable
    <3>2. CASE ReadError(Next1.node.tok) # "none"
      <4>1. ReadError(Next1.node.tok) \in {"selfRead", "undefined"}
        BY <3>2 DEF ReadError
      <4> QED BY <1>0, <1>5, <3>2, <4>1 DEF VisitVariable, Throw
    <3> QED BY <3>1, <3>2
  <2>2. Next1.node.kind = "variable" /\ "variable" \notin ScopeKind
    BY <1>1, <1>5 DEF VisitVariable, ScopeKind
  <2> QED BY <1>1, <1>2, <1>5, <2>1, <2>2, ExpandGoes DEF VisitVariable, VisitGoes
<1>6. CASE VisitVarDeclare
  <2> DEFINE n == Next1.node
             more == Append(Visit(n.kids), Item("define", n))
  <2>1. /\ checking # <<>> /\ Work # <<>> /\ n \in Node /\ checkError = NoError
        /\ n.kind = "var" /\ Next1.op = "visit" /\ Visit(n.kids) \in Seq(CheckItem)
    BY <1>6, <1>1 DEF VisitVarDeclare
  <2>2. ~DeclaredHere(n.tok)
    BY <1>0, <1>6 DEF VisitVarDeclare, Throw
  <2>3. /\ Expand(more) /\ UNCHANGED globalScopeSnapshot /\ globalScope \subseteq globalScope'
        /\ scopes = <<>> => n.tok \notin globalScope /\ globalScope' = globalScope \cup {n.tok}
    BY <2>2, <1>6 DEF VisitVarDeclare, Declare, DeclaredHere
  <2>4. more \in Seq(CheckItem) /\ \A k \in Kids(n) : \E i \in DOMAIN more : more[i] = Item("visit", k)
    <3>1. Item("define", n) \in CheckItem
      BY <2>1 DEF Item, CheckItem
    <3>2. /\ more \in Seq(CheckItem) /\ Len(more) = Len(Visit(n.kids)) + 1
          /\ \A i \in 1..Len(Visit(n.kids)) : more[i] = Visit(n.kids)[i]
          /\ Len(Visit(n.kids)) \in Nat
      BY <2>1, <3>1, AppendProperties, LenProperties
    <3>3. DOMAIN more = 1..Len(more) /\ DOMAIN Visit(n.kids) = 1..Len(Visit(n.kids))
      BY <2>1, <3>2, LenProperties
    <3>4. DOMAIN Visit(n.kids) \subseteq DOMAIN more
      BY <3>2, <3>3
    <3> QED BY <1>3, <2>1, <3>2, <3>3, <3>4
  <2> HIDE DEF more
  <2>5. "var" \notin ScopeKind
    BY DEF ScopeKind
  <2> QED BY <2>1, <2>3, <2>4, <2>5, ExpandGoes DEF VisitGoes
<1>7. CASE FinishVarDeclare
  <2>1. /\ checking # <<>> /\ Work # <<>> /\ Next1.op = "define" /\ checkError = NoError
        /\ Expand(<<>>) /\ UNCHANGED <<globalScope, globalScopeSnapshot>>
    BY <1>7 DEF FinishVarDeclare
  <2> QED BY <2>1, <1>2, ExpandGoes DEF VisitGoes
<1>8. CASE VisitScope
  <2>1. Enter("scope", Visit(Next1.node.kids)) /\ UNCHANGED <<globalScope, globalScopeSnapshot>>
    BY <1>8 DEF VisitScope
  <2>2. Next1.node.kind \in ScopeKind /\ Next1.node.kind # "func"
    BY <1>1, <1>8 DEF VisitScope, ScopeKind
  <2> QED BY <1>1, <1>8, <2>1, <2>2, EnterOpens DEF VisitScope, VisitOpens
<1>9. CASE VisitFunction
  <2>1. Duplicated(Next1.node.params) = {}
    BY <1>0, <1>9 DEF VisitFunction
  <2>2. /\ Enter("function", Visit(Next1.node.kids)) /\ UNCHANGED globalScopeSnapshot
        /\ globalScope' = globalScope \cup {Next1.node.tok}
    BY <1>9, <2>1 DEF VisitFunction
  <2>3. Next1.node.kind \in ScopeKind /\ Next1.node.kind = "func"
    BY <1>1, <1>9 DEF VisitFunction, ScopeKind
  <2> QED BY <1>1, <1>9, <2>2, <2>3, EnterOpens DEF VisitFunction, VisitOpens
<1>10. CASE VisitReturn
  <2>1. functionDepth # 0
    BY <1>0, <1>10 DEF VisitReturn, Throw
  <2>2. Expand(Visit(Next1.node.kids)) /\ UNCHANGED <<globalScope, globalScopeSnapshot>>
    BY <1>10, <2>1 DEF VisitReturn
  <2>3. Next1.node.kind = "return" /\ "return" \notin ScopeKind
    <3>1. Visiting({"return"})
      BY <1>10 DEF VisitReturn
    <3>2. Next1.node.kind \in {"return"}
      BY <1>1, <3>1
    <3> QED BY <3>2 DEF ScopeKind
  <2> QED BY <1>1, <1>3, <1>10, <2>1, <2>2, <2>3, ExpandGoes DEF VisitReturn, VisitGoes
<1>11. CASE EndActivation
  <2>1. /\ checking # <<>> /\ checking' = Pop(checking) /\ checkError = NoError /\ Work = <<>>
        /\ UNCHANGED <<globalScope, globalScopeSnapshot>>
    BY <1>11 DEF EndActivation
  <2>2. checking \in Seq(ActivationType)
    BY DEF CheckerInv, CheckerTypeOK, ActivationType
  <2>3. Len(Pop(checking)) = Len(checking) - 1
        /\ \A i \in 1..(Len(checking) - 1) : Pop(checking)[i] = checking[i]
    BY <2>1, <2>2, TopPop
  <2> QED BY <2>1, <2>3 DEF VisitEnds, Below
<1> QED BY <1>4, <1>5, <1>6, <1>7, <1>8, <1>9, <1>10, <1>11 DEF CheckerStep

\* What is left to visit of an activation's work lies in S.
VisitsIn(work, S) == \A i \in DOMAIN work : work[i].op = "visit" => work[i].node \in S
LeftIn(stack, Ok) == \A k \in 1..Len(stack) : VisitsIn(stack[k].work, Ok[k])

LEMMA VisitsBack ==
  ASSUME NEW work \in Seq(CheckItem), work # <<>>, NEW more \in Seq(CheckItem), NEW S
  PROVE  /\ VisitsIn(more \o Tail(work), S) => VisitsIn(more, S) /\ VisitsIn(Tail(work), S)
         /\ /\ VisitsIn(Tail(work), S)
            /\ Head(work).op = "visit" => Head(work).node \in S
            => VisitsIn(work, S)
<1> DEFINE rest == Tail(work)
<1>1. /\ rest \in Seq(CheckItem) /\ Len(rest) = Len(work) - 1 /\ Len(work) \in Nat /\ Len(more) \in Nat
      /\ \A i \in 1..Len(rest) : rest[i] = work[i + 1]
      /\ Head(work) = work[1]
  BY HeadTailProperties, LenProperties
<1>2. DOMAIN work = 1..Len(work) /\ DOMAIN rest = 1..Len(rest) /\ DOMAIN more = 1..Len(more)
  BY <1>1, LenProperties
<1> HIDE DEF rest
<1>3. /\ Len(more \o rest) = Len(more) + Len(rest) /\ more \o rest \in Seq(CheckItem)
      /\ \A i \in 1..Len(more) : (more \o rest)[i] = more[i]
      /\ \A i \in 1..Len(rest) : (more \o rest)[Len(more) + i] = rest[i]
  <2>1. /\ Len(more \o rest) = Len(more) + Len(rest) /\ more \o rest \in Seq(CheckItem)
        /\ \A i \in 1..(Len(more) + Len(rest)) :
             (more \o rest)[i] = IF i <= Len(more) THEN more[i] ELSE rest[i - Len(more)]
    BY <1>1, ConcatProperties
  <2>2. \A i \in 1..Len(more) : i \in 1..(Len(more) + Len(rest)) /\ i <= Len(more)
    BY <1>1
  <2>3. \A i \in 1..Len(rest) : /\ Len(more) + i \in 1..(Len(more) + Len(rest))
                               /\ ~(Len(more) + i <= Len(more)) /\ Len(more) + i - Len(more) = i
    BY <1>1
  <2> QED BY <2>1, <2>2, <2>3
<1>4. DOMAIN (more \o rest) = 1..(Len(more) + Len(rest))
  BY <1>3, LenProperties
<1>5. ASSUME VisitsIn(more \o rest, S) PROVE VisitsIn(more, S) /\ VisitsIn(rest, S)
  <2>1. \A i \in 1..Len(more) : i \in DOMAIN (more \o rest)
    BY <1>1, <1>4
  <2>2. \A i \in 1..Len(rest) : Len(more) + i \in DOMAIN (more \o rest)
    BY <1>1, <1>4
  <2> QED BY <1>2, <1>3, <1>5, <2>1, <2>2 DEF VisitsIn
<1>6. ASSUME VisitsIn(rest, S), Head(work).op = "visit" => Head(work).node \in S
      PROVE  VisitsIn(work, S)
  <2> SUFFICES ASSUME NEW i \in 1..Len(work), work[i].op = "visit" PROVE work[i].node \in S
    BY <1>2 DEF VisitsIn
  <2>1. CASE i = 1
    BY <1>1, <1>6, <2>1
  <2>2. CASE i # 1
    <3>1. i - 1 \in 1..Len(rest) /\ i - 1 + 1 = i
      BY <1>1, <2>2
    <3>2. rest[i - 1] = work[i]
      BY <1>1, <3>1
    <3> QED BY <1>2, <1>6, <3>1, <3>2 DEF VisitsIn
  <2> QED BY <2>1, <2>2
<1> QED BY <1>5, <1>6 DEF rest

LEMMA VisitsOfKids ==
  ASSUME NEW kids \in Seq(Node), NEW S
  PROVE  VisitsIn(Visit(kids), S) <=> \A i \in DOMAIN kids : kids[i] \in S
BY DEF VisitsIn, Visit, Items, Item

\* "Ok" says for every activation which nodes it may have left.
LEMMA LeftBack ==
  ASSUME CheckerInv, CheckerStep, checkError' = NoError, NEW Ok,
         Work # <<>> /\ Next1.op = "visit" =>
           /\ Next1.node.kind = "variable" => Next1.node \in Ok[Len(checking)]
           /\ VisitGoes /\ Kids(Next1.node) \subseteq Ok[Len(checking)] => Next1.node \in Ok[Len(checking)]
           /\ VisitOpens /\ Kids(Next1.node) \subseteq Ok[Len(checking) + 1] => Next1.node \in Ok[Len(checking)],
         LeftIn(checking', Ok)
  PROVE  LeftIn(checking, Ok)
<1> DEFINE L == Len(checking)
<1>1. /\ L \in Nat \ {0} /\ Work = checking[L].work /\ Work \in Seq(CheckItem)
      /\ Work # <<>> => Next1.node \in Node /\ Next1.node.kids \in Seq(Node)
  BY CheckMoves, WorkType, NodeAssumption DEF CheckerInv, Work, Top
<1>2. ASSUME Below, L - 1 <= Len(checking'), Len(checking') \in Nat, VisitsIn(Work, Ok[L])
      PROVE  LeftIn(checking, Ok)
  <2> SUFFICES ASSUME NEW k \in 1..L PROVE VisitsIn(checking[k].work, Ok[k])
    BY DEF LeftIn
  <2>1. CASE k = L
    BY <1>1, <1>2, <2>1
  <2>2. CASE k # L
    <3>1. k \in 1..(L - 1) /\ k \in 1..Len(checking')
      BY <1>1, <1>2, <2>2
    <3> QED BY <1>2, <3>1 DEF Below, LeftIn
  <2> QED BY <2>1, <2>2
<1>3. CASE VisitGoes
  <2>1. PICK more \in Seq(CheckItem) :
          /\ checking'[L].work = more \o Tail(Work)
          /\ Next1.op = "visit" =>
               \/ Next1.node.kind = "variable"
               \/ \A k \in Kids(Next1.node) : \E i \in DOMAIN more : more[i] = Item("visit", k)
    BY <1>3 DEF VisitGoes
  <2>2. Work # <<>> /\ Len(checking') = L /\ Below
    BY <1>3 DEF VisitGoes
  <2>3. VisitsIn(more \o Tail(Work), Ok[L])
    <3>1. L \in 1..Len(checking')
      BY <1>1, <2>2
    <3>2. VisitsIn(checking'[L].work, Ok[L])
      BY <3>1 DEF LeftIn
    <3> QED BY <2>1, <3>2
  <2>4. VisitsIn(more, Ok[L]) /\ VisitsIn(Tail(Work), Ok[L])
    BY <1>1, <2>2, <2>3, VisitsBack
  <2>5. ASSUME Next1.op = "visit" PROVE Next1.node \in Ok[L]
    <3>1. CASE Next1.node.kind = "variable"
      BY <2>2, <2>5, <3>1
    <3>2. CASE Next1.node.kind # "variable"
      <4>1. Kids(Next1.node) \subseteq Ok[L]
        BY <2>1, <2>4, <2>5, <3>2 DEF VisitsIn, Item
      <4> QED BY <1>3, <2>2, <2>5, <4>1
    <3> QED BY <3>1, <3>2
  <2>6. VisitsIn(Work, Ok[L])
    BY <1>1, <2>2, <2>4, <2>5, VisitsBack DEF Next1
  <2> QED BY <1>1, <1>2, <2>2, <2>6
<1>4. CASE VisitOpens
  <2>1. /\ Work # <<>> /\ Next1.op = "visit" /\ Len(checking') = L + 1 /\ Below
        /\ checking'[L].work = Tail(Work) /\ checking'[L + 1].work = Visit(Next1.node.kids)
    BY <1>4 DEF VisitOpens, Activation
  <2>2. VisitsIn(Tail(Work), Ok[L]) /\ VisitsIn(Visit(Next1.node.kids), Ok[L + 1])
    <3>1. L \in 1..Len(checking') /\ L + 1 \in 1..Len(checking')
      BY <1>1, <2>1
    <3> QED BY <2>1, <3>1 DEF LeftIn
  <2>3. Kids(Next1.node) \subseteq Ok[L + 1]
    BY <1>1, <2>1, <2>2, VisitsOfKids DEF Kids
  <2>4. Next1.node \in Ok[L]
    BY <1>4, <2>1, <2>3
  <2>5. VisitsIn(Work, Ok[L])
    BY <1>1, <2>1, <2>2, <2>4, VisitsBack, EmptySeq DEF Next1
  <2> QED BY <1>1, <1>2, <2>1, <2>5
<1>5. CASE VisitEnds
  <2>1. VisitsIn(Work, Ok[L])
    BY <1>5, EmptySeq DEF VisitEnds, VisitsIn
  <2> QED BY <1>1, <1>2, <1>5, <2>1 DEF VisitEnds
<1> QED BY <1>3, <1>4, <1>5, CheckMoves

-----------------------------------------------------------------------------
(* The three things a check that ends without an error has found.           *)

ReturnsLeft ==
  \A k \in 1..Len(checking) :
    (\A j \in 1..k : checking[j].kind # "function") => VisitsIn(checking[k].work, ReturnFree)

AdmittedLeft(G) ==
  \A k \in 1..Len(checking) :
    VisitsIn(checking[k].work, IF k = 1 THEN Admitted(G) ELSE FuncsIn(G))

\* At most one statement declares x where the statements stand, and none if it is known.
DefinedOnce(work, x, known) ==
  IF known
  THEN VisitsIn(work, Without(x))
  ELSE \A i, j \in DOMAIN work :
         /\ work[i].op = "visit" /\ work[i].node \notin Without(x)
         /\ work[j].op = "visit" /\ work[j].node \notin Without(x)
         => i = j
DefinedLeft(x) == checking # <<>> => DefinedOnce(checking[1].work, x, x \in globalScope)

\* How long the stack of activations is after a step, and of what kinds they are.
LEMMA MoveKinds ==
  ASSUME CheckerInv, CheckerStep, checkError' = NoError
  PROVE  /\ Len(checking') \in Nat
         /\ \/ Len(checking') \in {Len(checking) - 1, Len(checking)}
            \/ Len(checking') = Len(checking) + 1 /\ VisitOpens
         /\ \A i \in 1..Len(checking') : checking'[i].work \in Seq(CheckItem)
         /\ \A i \in 1..Len(checking') :
              i <= Len(checking) => checking'[i].kind = checking[i].kind
<1>1. Len(checking) \in Nat \ {0}
  BY CheckMoves, WorkType DEF CheckerInv
<1>2. checking' \in Seq(ActivationType)
  BY CheckerStepInv DEF CheckerInv, CheckerTypeOK, ActivationType
<1>3. \A i \in 1..Len(checking') : checking'[i].work \in Seq(CheckItem)
  <2>1. \A i \in 1..Len(checking') : checking'[i] \in ActivationType
    BY <1>2, ElementOfSeq
  <2> QED BY <2>1 DEF ActivationType
<1>4. \/ Len(checking') \in {Len(checking) - 1, Len(checking)}
      \/ Len(checking') = Len(checking) + 1 /\ VisitOpens
  BY CheckMoves DEF VisitGoes, VisitOpens, VisitEnds
<1>5. \A i \in 1..(Len(checking) - 1) : checking'[i].kind = checking[i].kind
  BY CheckMoves DEF VisitGoes, VisitOpens, VisitEnds, Below
<1>6. Len(checking') = Len(checking) - 1 \/ checking'[Len(checking)].kind = checking[Len(checking)].kind
  BY CheckMoves DEF VisitGoes, VisitOpens, VisitEnds, Activation
<1>7. ASSUME NEW i \in 1..Len(checking'), i <= Len(checking)
      PROVE  checking'[i].kind = checking[i].kind
  <2>1. i \in 1..(Len(checking) - 1) \/ (i = Len(checking) /\ Len(checking') # Len(checking) - 1)
    BY <1>1, <1>7
  <2> QED BY <1>5, <1>6, <2>1
<1>8. Len(checking') \in Nat
  BY <1>2, LenProperties
<1> QED BY <1>3, <1>4, <1>7, <1>8

LEMMA ReturnsBack ==
  ASSUME CheckerInv, CheckerStep, checkError' = NoError, ReturnsLeft'
  PROVE  ReturnsLeft
<1> DEFINE L == Len(checking)
           free(k) == /\ \A j \in 1..k : j <= L => checking[j].kind # "function"
                      /\ k = L + 1 => Next1.node.kind # "func"
           Ok == [k \in 1..(L + 1) |-> IF free(k) THEN ReturnFree ELSE Node]
<1>1. L \in Nat \ {0}
  BY CheckMoves, WorkType DEF CheckerInv
<1>2. LeftIn(checking', Ok)
  <2> SUFFICES ASSUME NEW k \in 1..Len(checking') PROVE VisitsIn(checking'[k].work, Ok[k])
    BY DEF LeftIn
  <2>1. k \in 1..(L + 1)
    BY <1>1, MoveKinds
  <2>2. VisitsIn(checking'[k].work, Node)
    <3>1. checking'[k].work \in Seq(CheckItem)
      BY MoveKinds
    <3>2. \A i \in DOMAIN checking'[k].work : checking'[k].work[i] \in CheckItem
      BY <3>1, LenProperties, ElementOfSeq
    <3> QED BY <3>2 DEF VisitsIn, CheckItem
  <2>3. ASSUME free(k), NEW j \in 1..k PROVE checking'[j].kind # "function"
    <3>1. j \in 1..Len(checking')
      BY MoveKinds
    <3>2. CASE j <= L
      BY <2>3, <3>1, <3>2, MoveKinds
    <3>3. CASE ~(j <= L)
      <4>1. j = L + 1 /\ k = L + 1 /\ Len(checking') = L + 1
        BY <1>1, <2>1, <3>1, <3>3, MoveKinds
      <4>2. VisitOpens /\ Next1.node.kind # "func"
        BY <1>1, <2>3, <4>1, MoveKinds
      <4> QED BY <4>1, <4>2 DEF VisitOpens, Activation
    <3> QED BY <3>2, <3>3
  <2>4. CASE free(k)
    <3>1. \A j \in 1..k : checking'[j].kind # "function"
      BY <2>3, <2>4
    <3>2. VisitsIn(checking'[k].work, ReturnFree)
      BY <3>1 DEF ReturnsLeft
    <3> QED BY <2>1, <2>4, <3>2
  <2>5. CASE ~free(k)
    BY <2>1, <2>2, <2>5
  <2> QED BY <2>4, <2>5
<1>3. ASSUME Work # <<>>, Next1.op = "visit"
      PROVE  /\ Next1.node.kind = "variable" => Next1.node \in Ok[L]
             /\ VisitGoes /\ Kids(Next1.node) \subseteq Ok[L] => Next1.node \in Ok[L]
             /\ VisitOpens /\ Kids(Next1.node) \subseteq Ok[L + 1] => Next1.node \in Ok[L]
  <2> DEFINE n == Next1.node
  <2>1. n \in Node
    BY <1>3, CheckMoves, WorkType DEF CheckerInv
  <2>2. L \in 1..(L + 1) /\ L + 1 \in 1..(L + 1) /\ L # L + 1
    BY <1>1
  <2>3. Ok[L] = IF free(L) THEN ReturnFree ELSE Node
    BY <2>2
  <2>4. Ok[L + 1] = IF free(L + 1) THEN ReturnFree ELSE Node
    BY <2>2
  <2>5. CASE ~free(L)
    BY <2>1, <2>3, <2>5
  <2>6. CASE free(L)
    <3>1. Ok[L] = ReturnFree
      BY <2>3, <2>6
    <3>2. n.kind = "variable" => n \in ReturnFree
      <4>1. n.kind = "variable" => n \in ExprNodes
        BY <2>1 DEF ExprNodes, ExprKind
      <4> QED BY <4>1, ReturnFreeTrees
    <3>3. ASSUME VisitGoes, Kids(n) \subseteq ReturnFree PROVE n \in ReturnFree
      <4>1. functionDepth = 0
        <5>1. DOMAIN checking = 1..L
          BY CheckMoves, WorkType DEF CheckerInv
        <5>2. \A j \in 1..L : checking[j].kind # "function"
          BY <1>1, <2>6
        <5>3. FunctionsOpen = {}
          BY <5>1, <5>2 DEF FunctionsOpen
        <5> QED BY <5>3, FS_EmptySet DEF CheckerInv, CheckerStacksAgree
      <4>2. n.kind # "return"
        BY <1>3, <3>3, <4>1 DEF VisitGoes
      <4> QED BY <2>1, <3>3, <4>2, ReturnFreeTrees
    <3>4. ASSUME VisitOpens, Kids(n) \subseteq Ok[L + 1] PROVE n \in ReturnFree
      <4>1. n.kind \in ScopeKind /\ n.kind # "return"
        BY <3>4 DEF VisitOpens, ScopeKind
      <4>2. CASE n.kind = "func"
        BY <2>1, <4>2, ReturnFreeTrees
      <4>3. CASE n.kind # "func"
        <5>1. free(L + 1)
          BY <1>1, <2>6, <4>3
        <5> HIDE DEF free, Ok
        <5>2. Ok[L + 1] = ReturnFree
          BY <2>4, <5>1
        <5> QED BY <2>1, <3>4, <4>1, <5>2, ReturnFreeTrees
      <4> QED BY <4>2, <4>3
    <3> HIDE DEF Ok
    <3> QED BY <3>1, <3>2, <3>3, <3>4
  <2> QED BY <2>5, <2>6
<1> HIDE DEF Ok
<1>4. LeftIn(checking, Ok)
  BY <1>2, <1>3, LeftBack
<1> QED
  <2> SUFFICES ASSUME NEW k \in 1..L, \A j \in 1..k : checking[j].kind # "function"
               PROVE  VisitsIn(checking[k].work, ReturnFree)
    BY DEF ReturnsLeft
  <2>1. k \in 1..(L + 1) /\ k # L + 1
    BY <1>1
  <2>2. Ok[k] = ReturnFree
    BY <2>1 DEF Ok
  <2> QED BY <1>4, <2>2 DEF LeftIn

\* Only check() itself is running.
LEMMA NoScopes ==
  ASSUME CheckerInv, checking # <<>>
  PROVE  scopes = <<>> <=> Len(checking) = 1
<1>1. Len(checking) \in Nat \ {0}
  BY WorkType DEF CheckerInv
<1>2. Len(scopes) = Len(checking) - 1
  BY DEF CheckerInv, CheckerStacksAgree
<1>3. scopes \in Seq(ScopeType)
  BY DEF CheckerInv, CheckerTypeOK, ScopeType
<1>4. scopes = <<>> <=> Len(scopes) = 0
  BY <1>3, EmptySeq
<1> QED BY <1>1, <1>2, <1>4

LEMMA AdmittedBack ==
  ASSUME CheckerInv, CheckerStep, checkError' = NoError, NEW G, globalScope' \subseteq G,
         AdmittedLeft(G)'
  PROVE  AdmittedLeft(G)
<1> DEFINE L == Len(checking)
           Ok == [k \in 1..(L + 1) |-> IF k = 1 THEN Admitted(G) ELSE FuncsIn(G)]
<1>1. L \in Nat \ {0}
  BY CheckMoves, WorkType DEF CheckerInv
<1>2. LeftIn(checking', Ok)
  <2> SUFFICES ASSUME NEW k \in 1..Len(checking') PROVE VisitsIn(checking'[k].work, Ok[k])
    BY DEF LeftIn
  <2>1. k \in 1..(L + 1)
    BY <1>1, MoveKinds
  <2>2. VisitsIn(checking'[k].work, IF k = 1 THEN Admitted(G) ELSE FuncsIn(G))
    BY DEF AdmittedLeft
  <2> QED BY <2>1, <2>2
<1>3. ASSUME Work # <<>>, Next1.op = "visit"
      PROVE  /\ Next1.node.kind = "variable" => Next1.node \in Ok[L]
             /\ VisitGoes /\ Kids(Next1.node) \subseteq Ok[L] => Next1.node \in Ok[L]
             /\ VisitOpens /\ Kids(Next1.node) \subseteq Ok[L + 1] => Next1.node \in Ok[L]
  <2> DEFINE n == Next1.node
  <2>1. n \in Node
    BY <1>3, CheckMoves, WorkType DEF CheckerInv
  <2>2. L \in 1..(L + 1) /\ L + 1 \in 1..(L + 1) /\ L + 1 # 1
    BY <1>1
  <2>3. Ok[L] = IF L = 1 THEN Admitted(G) ELSE FuncsIn(G)
    BY <2>2
  <2>4. Ok[L + 1] = FuncsIn(G)
    BY <2>2
  <2>5. n.kind = "variable" => n \in Admitted(G) /\ n \in FuncsIn(G)
    <3>1. n.kind = "variable" => n \in ExprNodes
      BY <2>1 DEF ExprNodes, ExprKind
    <3> QED BY <3>1, AdmittedTrees
  <2>6. ASSUME VisitGoes PROVE n.kind \notin ScopeKind /\ (n.kind = "var" /\ L = 1 => n.tok \in G)
    <3>1. scopes = <<>> <=> L = 1
      BY CheckMoves, NoScopes
    <3> QED BY <1>3, <2>6, <3>1 DEF VisitGoes
  <2>7. ASSUME VisitOpens PROVE n.kind \in ScopeKind /\ (n.kind = "func" => n.tok \in G)
    BY <2>7 DEF VisitOpens
  <2>8. ScopeKind = {"block", "for", "func"}
    BY DEF ScopeKind
  <2> HIDE DEF Ok, n
  <2>9. VisitGoes /\ Kids(n) \subseteq Ok[L] => n \in Ok[L]
    <3>1. CASE L = 1
      BY <2>1, <2>3, <2>6, <2>8, <3>1, AdmittedTrees
    <3>2. CASE L # 1
      BY <2>1, <2>3, <2>6, <2>8, <3>2, FuncsInTrees
    <3> QED BY <3>1, <3>2
  <2>10. VisitOpens /\ Kids(n) \subseteq Ok[L + 1] => n \in Ok[L]
    <3>1. CASE L = 1
      BY <2>1, <2>3, <2>4, <2>7, <2>8, <3>1, AdmittedTrees
    <3>2. CASE L # 1
      BY <2>1, <2>3, <2>4, <2>7, <3>2, FuncsInTrees
    <3> QED BY <3>1, <3>2
  <2> QED BY <2>3, <2>5, <2>9, <2>10 DEF n
<1> HIDE DEF Ok
<1>4. LeftIn(checking, Ok)
  BY <1>2, <1>3, LeftBack
<1> QED
  <2> SUFFICES ASSUME NEW k \in 1..L
               PROVE  VisitsIn(checking[k].work, IF k = 1 THEN Admitted(G) ELSE FuncsIn(G))
    BY DEF AdmittedLeft
  <2>1. k \in 1..(L + 1)
    BY <1>1
  <2>2. Ok[k] = IF k = 1 THEN Admitted(G) ELSE FuncsIn(G)
    BY <2>1 DEF Ok
  <2> QED BY <1>4, <2>2 DEF LeftIn

\* Knowing a name only makes more of it wrong.
LEMMA KnownIsMore ==
  ASSUME NEW work, NEW x, DefinedOnce(work, x, TRUE), NEW known \in BOOLEAN
  PROVE  DefinedOnce(work, x, known)
BY DEF DefinedOnce, VisitsIn

\* The first piece of work is replaced.
LEMMA OnceBack ==
  ASSUME NEW work \in Seq(CheckItem), work # <<>>, NEW more \in Seq(CheckItem), NEW x,
         DefinedOnce(more \o Tail(work), x, FALSE),
         Head(work).op = "visit" =>
           \/ Head(work).node \in Without(x)
           \/ \E i \in DOMAIN more : more[i].op = "visit" /\ more[i].node \notin Without(x)
  PROVE  DefinedOnce(work, x, FALSE)
<1> DEFINE rest == Tail(work)
           bad(s, i) == s[i].op = "visit" /\ s[i].node \notin Without(x)
<1>1. /\ rest \in Seq(CheckItem) /\ Len(rest) = Len(work) - 1 /\ Len(work) \in Nat /\ Len(more) \in Nat
      /\ \A i \in 1..Len(rest) : rest[i] = work[i + 1]
      /\ Head(work) = work[1]
  BY HeadTailProperties, LenProperties
<1>2. DOMAIN work = 1..Len(work) /\ DOMAIN more = 1..Len(more)
  BY <1>1, LenProperties
<1> HIDE DEF rest
<1>3. /\ Len(more \o rest) = Len(more) + Len(rest) /\ more \o rest \in Seq(CheckItem)
      /\ \A i \in 1..(Len(more) + Len(rest)) :
           (more \o rest)[i] = IF i <= Len(more) THEN more[i] ELSE rest[i - Len(more)]
  BY <1>1, ConcatProperties
<1>4. DOMAIN (more \o rest) = 1..(Len(more) + Len(rest))
  BY <1>3, LenProperties
<1>5. \A i, j \in 1..(Len(more) + Len(rest)) :
        bad(more \o rest, i) /\ bad(more \o rest, j) => i = j
  BY <1>4 DEF DefinedOnce, rest
<1>6. ASSUME NEW i \in 2..Len(work)
      PROVE  /\ Len(more) + i - 1 \in 1..(Len(more) + Len(rest))
             /\ (more \o rest)[Len(more) + i - 1] = work[i]
  <2>1. /\ Len(more) + i - 1 \in 1..(Len(more) + Len(rest)) /\ ~(Len(more) + i - 1 <= Len(more))
        /\ Len(more) + i - 1 - Len(more) = i - 1 /\ i - 1 \in 1..Len(rest) /\ i - 1 + 1 = i
    BY <1>1
  <2> QED BY <1>1, <1>3, <2>1
<1>7. ASSUME bad(work, 1) PROVE \E i \in 1..Len(more) : bad(more \o rest, i)
  <2>1. PICK i \in 1..Len(more) : bad(more, i)
    BY <1>1, <1>2, <1>7
  <2>2. i \in 1..(Len(more) + Len(rest)) /\ i <= Len(more)
    BY <1>1
  <2> QED BY <1>3, <2>1, <2>2
<1> HIDE DEF bad
<1>8. ASSUME NEW i \in 1..Len(work), NEW j \in 1..Len(work), bad(work, i), bad(work, j), i < j
      PROVE  FALSE
  <2>1. j \in 2..Len(work)
    BY <1>1, <1>8
  <2>2. bad(more \o rest, Len(more) + j - 1)
    BY <1>6, <1>8, <2>1 DEF bad
  <2>3. CASE i = 1
    <3>1. PICK m \in 1..Len(more) : bad(more \o rest, m)
      BY <1>7, <1>8, <2>3
    <3>2. m \in 1..(Len(more) + Len(rest)) /\ m # Len(more) + j - 1
      BY <1>1, <2>1
    <3> QED BY <1>5, <1>6, <2>1, <2>2, <3>1, <3>2
  <2>4. CASE i # 1
    <3>1. i \in 2..Len(work)
      BY <1>1, <2>4
    <3>2. bad(more \o rest, Len(more) + i - 1)
      BY <1>6, <1>8, <3>1 DEF bad
    <3>3. Len(more) + i - 1 = Len(more) + j - 1
      BY <1>5, <1>6, <2>1, <2>2, <3>1, <3>2
    <3> QED BY <1>1, <1>8, <3>3
  <2> QED BY <2>3, <2>4
<1>9. \A i, j \in 1..Len(work) : bad(work, i) /\ bad(work, j) => i = j
  BY <1>1, <1>8
<1> QED BY <1>2, <1>9 DEF DefinedOnce, bad

LEMMA OnceTail ==
  ASSUME NEW work \in Seq(CheckItem), work # <<>>, NEW x, VisitsIn(Tail(work), Without(x))
  PROVE  DefinedOnce(work, x, FALSE)
<1> DEFINE rest == Tail(work)
<1>1. /\ rest \in Seq(CheckItem) /\ Len(rest) = Len(work) - 1 /\ Len(work) \in Nat
      /\ \A i \in 1..Len(rest) : rest[i] = work[i + 1]
  BY HeadTailProperties, LenProperties
<1>2. DOMAIN work = 1..Len(work) /\ DOMAIN rest = 1..Len(rest)
  BY <1>1, LenProperties
<1>3. ASSUME NEW i \in 1..Len(work), work[i].op = "visit", work[i].node \notin Without(x)
      PROVE  i = 1
  <2> SUFFICES ASSUME i # 1 PROVE FALSE
    OBVIOUS
  <2> HIDE DEF rest
  <2>1. i - 1 \in 1..Len(rest) /\ i - 1 + 1 = i
    BY <1>1
  <2>2. rest[i - 1] = work[i]
    BY <1>1, <2>1
  <2> QED BY <1>2, <1>3, <2>1, <2>2 DEF VisitsIn, rest
<1> QED BY <1>2, <1>3 DEF DefinedOnce

\* A node that has a variable x has it in a child, or is its declaration.
LEMMA DefinedBelow ==
  ASSUME NEW n \in Node, NEW x, n \notin Without(x)
  PROVE  /\ n.kind \notin ScopeKind /\ n.kind # "variable"
         /\ (n.kind = "var" /\ n.tok = x) \/ \E k \in Kids(n) : k \notin Without(x)
<1>1. n.kind = "variable" => n \in ExprNodes
  BY DEF ExprNodes, ExprKind
<1> QED BY <1>1, WithoutTrees

LEMMA DefinedBack ==
  ASSUME CheckerInv, CheckerStep, checkError' = NoError, NEW x, DefinedLeft(x)'
  PROVE  DefinedLeft(x)
<1> DEFINE L == Len(checking)
           W == checking[1].work
           known == x \in globalScope
           knownAfter == x \in globalScope'
<1>1. L \in Nat \ {0} /\ checking # <<>>
  BY CheckMoves, WorkType DEF CheckerInv
<1>2. known => knownAfter
  BY CheckMoves
<1>3. CASE L # 1
  <2>1. 1 \in 1..(L - 1) /\ Len(checking') # 0
    <3>1. Len(checking') = L - 1 \/ Len(checking') = L \/ Len(checking') = L + 1
      BY MoveKinds
    <3>2. 1 \in 1..(L - 1)
      <4> HIDE DEF L
      <4> QED BY <1>1, <1>3
    <3>3. L - 1 # 0 /\ L # 0 /\ L + 1 # 0
      BY <1>1, <1>3
    <3> QED BY <3>1, <3>2, <3>3
  <2>2. checking'[1] = checking[1] /\ checking' # <<>>
    BY <2>1, CheckMoves, EmptySeq DEF VisitGoes, VisitOpens, VisitEnds, Below
  <2>3. DefinedOnce(W, x, knownAfter)
    BY <2>2 DEF DefinedLeft
  <2>4. DefinedOnce(W, x, known)
    <3>1. CASE known = knownAfter
      BY <2>3, <3>1
    <3>2. CASE known # knownAfter
      <4>1. DefinedOnce(W, x, TRUE) /\ known \in BOOLEAN
        <5>1. knownAfter
          BY <1>2, <3>2
        <5> QED BY <2>3, <5>1 DEF DefinedOnce
      <4> HIDE DEF W, known
      <4> QED BY <4>1, KnownIsMore
    <3> QED BY <3>1, <3>2
  <2> QED BY <2>4 DEF DefinedLeft
<1>4. CASE L = 1
  <2>1. /\ Work = W /\ W \in Seq(CheckItem) /\ scopes = <<>>
        /\ W # <<>> => Next1.node \in Node
    BY <1>1, <1>4, WorkType, NoScopes DEF Work, Top, CheckerInv
  <2> DEFINE n == Next1.node
  <2>2. Next1 = Head(W)
    BY <2>1 DEF Next1
  <2>3. CASE W = <<>>
    BY <2>3 DEF DefinedLeft, DefinedOnce, VisitsIn
  <2>4. CASE VisitGoes
    <3>1. PICK more \in Seq(CheckItem) :
            /\ checking'[L].work = more \o Tail(Work)
            /\ Next1.op = "visit" =>
                 \/ n.kind = "variable"
                 \/ \A k \in Kids(n) : \E i \in DOMAIN more : more[i] = Item("visit", k)
      BY <2>4 DEF VisitGoes
    <3>2. W # <<>> /\ Len(checking') = 1
      BY <1>4, <2>1, <2>4 DEF VisitGoes
    <3>3. DefinedOnce(more \o Tail(W), x, knownAfter)
      <4>1. checking'[1].work = more \o Tail(W)
        BY <1>4, <2>1, <3>1
      <4>2. checking' # <<>>
        BY SMTT(60), <3>2, EmptySeq
      <4> QED BY <4>1, <4>2 DEF DefinedLeft
    <3>4. ASSUME Next1.op = "visit", n \notin Without(x)
          PROVE  \/ ~known /\ knownAfter
                 \/ \E i \in DOMAIN more : more[i].op = "visit" /\ more[i].node \notin Without(x)
      <4>1. n \in Node /\ n.kind # "variable"
        BY <2>1, <3>2, <3>4, DefinedBelow
      <4>2. CASE n.kind = "var" /\ n.tok = x
        BY <2>1, <2>4, <3>4, <4>2 DEF VisitGoes
      <4>3. CASE ~(n.kind = "var" /\ n.tok = x)
        <5>1. PICK k \in Kids(n) : k \notin Without(x)
          BY <3>4, <4>1, <4>3, DefinedBelow
        <5>2. PICK i \in DOMAIN more : more[i] = Item("visit", k)
          BY <3>1, <3>4, <4>1, <5>1
        <5> QED BY <5>1, <5>2 DEF Item
      <4> QED BY <4>2, <4>3
    <3> HIDE DEF W, n, known, knownAfter
    <3>5. CASE known /\ knownAfter
      <4>1. VisitsIn(more \o Tail(W), Without(x))
        BY <3>3, <3>5 DEF DefinedOnce
      <4>2. VisitsIn(more, Without(x)) /\ VisitsIn(Tail(W), Without(x))
        BY <2>1, <3>2, <4>1, VisitsBack
      <4>3. Next1.op = "visit" => n \in Without(x)
        BY <3>4, <3>5, <4>2 DEF VisitsIn
      <4>4. VisitsIn(W, Without(x))
        BY <2>1, <2>2, <3>2, <4>2, <4>3, VisitsBack DEF n
      <4> QED BY <3>5, <4>4 DEF DefinedLeft, DefinedOnce, W, known
    <3>6. CASE ~known /\ ~knownAfter
      <4>1. DefinedOnce(more \o Tail(W), x, FALSE)
        BY <3>3, <3>6 DEF DefinedOnce
      <4>2. DefinedOnce(W, x, FALSE)
        BY <2>1, <2>2, <3>2, <3>4, <3>6, <4>1, OnceBack DEF n
      <4> QED BY <3>6, <4>2 DEF DefinedLeft, W, known, DefinedOnce
    <3>7. CASE ~known /\ knownAfter
      <4>1. VisitsIn(more \o Tail(W), Without(x))
        BY <3>3, <3>7 DEF DefinedOnce
      <4>2. DefinedOnce(W, x, FALSE)
        BY <2>1, <3>2, <4>1, VisitsBack, OnceTail
      <4> QED BY <3>7, <4>2 DEF DefinedLeft, W, known, DefinedOnce
    <3> QED BY <1>2, <3>5, <3>6, <3>7 DEF known, knownAfter
  <2>5. CASE VisitOpens
    <3>1. /\ W # <<>> /\ n \in Node /\ n.kind \in ScopeKind /\ checking'[1].work = Tail(W)
          /\ Len(checking') = 2
      BY <1>4, <2>1, <2>5 DEF VisitOpens, Activation
    <3>2. checking' # <<>>
      BY <3>1, EmptySeq
    <3>3. DefinedOnce(Tail(W), x, knownAfter)
      BY <3>1, <3>2 DEF DefinedLeft
    <3>4. n \in Without(x)
      BY <3>1, DefinedBelow
    <3> HIDE DEF W, n, known, knownAfter
    <3>5. CASE knownAfter
      <4>1. VisitsIn(Tail(W), Without(x))
        BY <3>3, <3>5 DEF DefinedOnce
      <4>2. VisitsIn(W, Without(x))
        BY <2>1, <2>2, <3>1, <3>4, <4>1, VisitsBack, EmptySeq DEF n
      <4>3. DefinedOnce(W, x, TRUE) /\ known \in BOOLEAN
        BY <4>2 DEF DefinedOnce, known
      <4> QED BY <4>3, KnownIsMore DEF DefinedLeft, W, known
    <3>6. CASE ~knownAfter
      <4>1. <<>> \in Seq(CheckItem) /\ <<>> \o Tail(W) = Tail(W)
        BY <2>1, <3>1, HeadTailProperties, EmptySeq, ConcatEmptySeq
      <4>2. DefinedOnce(<<>> \o Tail(W), x, FALSE)
        BY <3>3, <3>6, <4>1 DEF DefinedOnce
      <4>3. DefinedOnce(W, x, FALSE)
        BY <2>1, <2>2, <3>1, <3>4, <4>1, <4>2, OnceBack DEF n
      <4> QED BY <1>2, <3>6, <4>3 DEF DefinedLeft, W, known, knownAfter, DefinedOnce
    <3> QED BY <3>5, <3>6
  <2>6. CASE VisitEnds
    BY <2>1, <2>3, <2>6 DEF VisitEnds
  <2> QED BY <2>4, <2>5, <2>6, CheckMoves
<1> QED BY <1>3, <1>4

-----------------------------------------------------------------------------
(* From the end of a check back to its beginning.                           *)

\* At most one of the statements declares x, and none does if x is known.
OnceIn(stmts, x, known) ==
  IF known
  THEN \A i \in DOMAIN stmts : stmts[i] \in Without(x)
  ELSE \A i, j \in DOMAIN stmts : stmts[i] \notin Without(x) /\ stmts[j] \notin Without(x) => i = j

\* What a check vouches for: "known" are the names declared before it, "seen" after it.
Checked(stmts, known, seen) ==
  /\ \A i \in DOMAIN stmts : stmts[i] \in ReturnFree /\ stmts[i] \in Admitted(seen)
  /\ \A x \in Name : OnceIn(stmts, x, x \in known)

\* While no error is found: if what is left is right, then so are the statements.
CheckSees(stmts) ==
  checkError = NoError =>
    /\ ReturnsLeft => \A i \in DOMAIN stmts : stmts[i] \in ReturnFree
    /\ \A G \in SUBSET Name :
         globalScope \subseteq G /\ AdmittedLeft(G) => \A i \in DOMAIN stmts : stmts[i] \in Admitted(G)
    /\ \A x \in Name : DefinedLeft(x) => OnceIn(stmts, x, x \in globalScopeSnapshot)

LEMMA CheckSeesBegin ==
  ASSUME NEW stmts \in Seq(Node), CheckBegin(stmts)
  PROVE  CheckSees(stmts)'
<1> DEFINE a == Activation("check", Visit(stmts))
<1>1. /\ checking' = <<a>> /\ a.kind = "check" /\ a.work = Visit(stmts)
      /\ globalScope' = globalScope /\ globalScopeSnapshot' = globalScope
  BY DEF CheckBegin, Activation
<1> HIDE DEF a
<1>2. Len(checking') = 1 /\ checking'[1] = a /\ checking' # <<>> /\ 1 \in 1..1
  BY <1>1
<1>3. ReturnsLeft' => \A i \in DOMAIN stmts : stmts[i] \in ReturnFree
  <2>1. ReturnsLeft' => VisitsIn(Visit(stmts), ReturnFree)
    BY <1>1, <1>2 DEF ReturnsLeft
  <2> QED BY <2>1, VisitsOfKids
<1>4. ASSUME NEW G, AdmittedLeft(G)' PROVE \A i \in DOMAIN stmts : stmts[i] \in Admitted(G)
  <2>1. VisitsIn(Visit(stmts), Admitted(G))
    BY <1>1, <1>2, <1>4 DEF AdmittedLeft
  <2> QED BY <2>1, VisitsOfKids
<1>5. ASSUME NEW x, DefinedLeft(x)' PROVE OnceIn(stmts, x, x \in globalScopeSnapshot')
  <2>1. DefinedOnce(Visit(stmts), x, x \in globalScope)
    BY <1>1, <1>2, <1>5 DEF DefinedLeft
  <2>2. CASE x \in globalScope
    <3>1. VisitsIn(Visit(stmts), Without(x))
      BY <2>1, <2>2 DEF DefinedOnce
    <3> QED BY <1>1, <2>2, <3>1, VisitsOfKids DEF OnceIn
  <2>3. CASE x \notin globalScope
    <3>1. /\ DOMAIN Visit(stmts) = DOMAIN stmts
          /\ \A i \in DOMAIN stmts : Visit(stmts)[i].op = "visit" /\ Visit(stmts)[i].node = stmts[i]
      BY DEF Visit, Items, Item
    <3>2. \A i, j \in DOMAIN stmts : stmts[i] \notin Without(x) /\ stmts[j] \notin Without(x) => i = j
      BY <2>1, <2>3, <3>1 DEF DefinedOnce
    <3> QED BY <1>1, <2>3, <3>2 DEF OnceIn
  <2> QED BY <2>2, <2>3
<1> QED BY <1>3, <1>4, <1>5 DEF CheckSees

LEMMA CheckSeesStep ==
  ASSUME CheckerInv, CheckerStep, NEW stmts, CheckSees(stmts)
  PROVE  CheckSees(stmts)'
<1> SUFFICES ASSUME checkError' = NoError
             PROVE  /\ ReturnsLeft' => \A i \in DOMAIN stmts : stmts[i] \in ReturnFree
                    /\ \A G \in SUBSET Name :
                         globalScope' \subseteq G /\ AdmittedLeft(G)'
                         => \A i \in DOMAIN stmts : stmts[i] \in Admitted(G)
                    /\ \A x \in Name : DefinedLeft(x)' => OnceIn(stmts, x, x \in globalScopeSnapshot')
  BY DEF CheckSees
<1>1. checkError = NoError /\ globalScope \subseteq globalScope' /\ UNCHANGED globalScopeSnapshot
  BY CheckMoves
<1>2. ReturnsLeft' => \A i \in DOMAIN stmts : stmts[i] \in ReturnFree
  BY <1>1, ReturnsBack DEF CheckSees
<1>3. ASSUME NEW G \in SUBSET Name, globalScope' \subseteq G, AdmittedLeft(G)'
      PROVE  \A i \in DOMAIN stmts : stmts[i] \in Admitted(G)
  BY <1>1, <1>3, AdmittedBack DEF CheckSees
<1>4. ASSUME NEW x \in Name, DefinedLeft(x)'
      PROVE  OnceIn(stmts, x, x \in globalScopeSnapshot')
  BY <1>1, <1>4, DefinedBack DEF CheckSees
<1> QED BY <1>2, <1>3, <1>4

\* A check that has ended without an error vouches for its statements.
LEMMA CheckSeesEnd ==
  ASSUME CheckerInv, checking = <<>>, checkError = NoError, NEW stmts, CheckSees(stmts)
  PROVE  Checked(stmts, globalScopeSnapshot, globalScope)
<1>1. Len(checking) = 0
  BY EmptySeq
<1>2. ReturnsLeft /\ (\A x : DefinedLeft(x)) /\ \A G : AdmittedLeft(G)
  BY <1>1 DEF ReturnsLeft, DefinedLeft, AdmittedLeft
<1>3. globalScope \in SUBSET Name
  BY DEF CheckerInv, CheckerTypeOK
<1> QED BY <1>2, <1>3 DEF CheckSees, Checked

-----------------------------------------------------------------------------
(* The checker in a session.                                                *)

FileType == [stmts : Seq(Statements), end : {"eof", "parseError"}]

\* The shell's own state.
ShellTypeOK ==
  /\ mode \in Modes /\ phase \in Phase
  /\ current \in Seq(Node) /\ file \in FileType
  /\ phase \in {"precheck", "check", "bind"} => current \in Seq(Statements)

\* The checker runs, and is strict, in the phases that are named for it only.
CheckerInPhase ==
  /\ phase \notin {"precheck", "check"} => checking = <<>>
  /\ strictGlobalCheck = (phase = "precheck")

SessionInv == CheckerInv /\ ShellTypeOK /\ CheckerInPhase

\* Parsed statements are nodes.
LEMMA StatementsAreNodes ==
  ASSUME NEW stmts \in Seq(Statements)
  PROVE  stmts \in Seq(Node)
BY FoldAssumption, SeqMonotonic

LEMMA SessionInit == Init => SessionInv
<1> SUFFICES ASSUME Init PROVE SessionInv
  OBVIOUS
<1>1. CheckerInv
  BY CheckerInitInv DEF Init
<1>2. ShellTypeOK
  <2>1. <<>> \in Seq(Node) /\ <<>> \in Seq(Statements)
    BY EmptySeq
  <2> QED BY <2>1 DEF Init, ShellTypeOK, FileType, Phase
<1>3. CheckerInPhase
  BY DEF Init, CheckerInit, CheckerInPhase
<1> QED BY <1>1, <1>2, <1>3 DEF SessionInv

\* The steps that begin a check.
LEMMA InputStep ==
  ASSUME SessionInv, Input
  PROVE  SessionInv'
<1>1. ASSUME NEW l \in Lines, ProcessLine(l) PROVE SessionInv'
  <2>1. l \in Seq(Statements) /\ l \in Seq(Node)
    BY SessionAssumption, StatementsAreNodes
  <2>2. CheckerInv'
    BY <1>1, <2>1, CheckBeginInv DEF ProcessLine, SessionInv, CheckerInv, CheckerTypeOK
  <2>3. ShellTypeOK' /\ CheckerInPhase'
    BY <1>1, <2>1
       DEF ProcessLine, InputAllowed, SessionInv, ShellTypeOK, CheckerInPhase, Phase
  <2> QED BY <2>2, <2>3 DEF SessionInv
<1>2. ASSUME NEW b \in Blocks, Precheck(b) PROVE SessionInv'
  <2>1. b \in Seq(Statements) /\ b \in Seq(Node)
    BY SessionAssumption, StatementsAreNodes
  <2>2. CheckerInv'
    BY <1>2, <2>1, CheckBeginInv DEF Precheck, SessionInv
  <2>3. ShellTypeOK' /\ CheckerInPhase'
    BY <1>2, <2>1 DEF Precheck, SessionInv, ShellTypeOK, CheckerInPhase, Phase
  <2> QED BY <2>2, <2>3 DEF SessionInv
<1>3. ASSUME NEW f \in Files, LoadFile(f) PROVE SessionInv'
  <2>1. f \in FileType
    BY SessionAssumption DEF FileType
  <2>2. CheckerInv'
    BY <1>3, CheckerKept DEF LoadFile, checkerVars, SessionInv, CheckerInv, CheckerTypeOK
  <2>3. ShellTypeOK' /\ CheckerInPhase'
    BY <1>3, <2>1 DEF LoadFile, InputAllowed, checkerVars, SessionInv, ShellTypeOK,
                      CheckerInPhase, Phase
  <2> QED BY <2>2, <2>3 DEF SessionInv
<1>4. CASE LoadFails
  <2>1. CheckerInv'
    BY <1>4, CheckerKept DEF LoadFails, checkerVars, SessionInv, CheckerInv, CheckerTypeOK
  <2>2. ShellTypeOK' /\ CheckerInPhase'
    BY <1>4 DEF LoadFails, InputAllowed, checkerVars, SessionInv, ShellTypeOK,
                CheckerInPhase, Phase
  <2> QED BY <2>1, <2>2 DEF SessionInv
<1> QED BY <1>1, <1>2, <1>3, <1>4 DEF Input

\* The step to the next statement of a file.
LEMMA NextStatementStep ==
  ASSUME SessionInv, NextStatement
  PROVE  SessionInv'
<1> DEFINE stmts == file.stmts
<1>1. file \in FileType /\ stmts \in Seq(Statements) /\ stmts # <<>>
  BY DEF NextStatement, SessionInv, ShellTypeOK, FileType
<1>2. Head(stmts) \in Statements /\ Tail(stmts) \in Seq(Statements)
  BY <1>1, HeadTailProperties
<1>3. <<Head(stmts)>> \in Seq(Statements) /\ <<Head(stmts)>> \in Seq(Node)
  BY <1>2, StatementsAreNodes
<1>4. CheckerInv'
  BY <1>3, CheckBeginInv DEF NextStatement, SessionInv, CheckerInv, CheckerTypeOK
<1>5. file' \in FileType
  BY <1>1, <1>2 DEF NextStatement, FileType
<1>6. ShellTypeOK' /\ CheckerInPhase'
  BY <1>3, <1>5 DEF NextStatement, SessionInv, ShellTypeOK, CheckerInPhase, Phase
<1> QED BY <1>4, <1>6 DEF SessionInv

\* The steps of checker, binding and executor.
LEMMA PassStep ==
  ASSUME SessionInv, Checking \/ Optimizing \/ Interpreting
  PROVE  SessionInv'
<1>1. CASE Checking
  <2>1. CheckerInv'
    BY <1>1, CheckerStepInv DEF Checking, SessionInv
  <2>2. UNCHANGED strictGlobalCheck
    BY <1>1 DEF Checking, CheckerStep, VisitChildren, VisitVariable, VisitVarDeclare,
                FinishVarDeclare, VisitScope, VisitFunction, VisitReturn, EndActivation, Throw
  <2>3. ShellTypeOK' /\ CheckerInPhase'
    BY <1>1, <2>2 DEF Checking, sessionVars, SessionInv, ShellTypeOK, CheckerInPhase
  <2> QED BY <2>1, <2>3 DEF SessionInv
<1>2. CASE Optimizing \/ Interpreting
  <2>1. UNCHANGED <<checkerVars, sessionVars>>
    BY <1>2 DEF Optimizing, Interpreting
  <2>2. CheckerInv'
    BY <2>1, CheckerKept DEF checkerVars, SessionInv, CheckerInv, CheckerTypeOK
  <2>3. ShellTypeOK' /\ CheckerInPhase'
    BY <2>1 DEF checkerVars, sessionVars, SessionInv, ShellTypeOK, CheckerInPhase
  <2> QED BY <2>2, <2>3 DEF SessionInv
<1> QED BY <1>1, <1>2

\* Folded statements are statements.
LEMMA FoldType ==
  ASSUME NEW stmts \in Seq(Statements)
  PROVE  Fold(stmts) \in Seq(Node)
<1>1. DOMAIN stmts = 1..Len(stmts) /\ Len(stmts) \in Nat
  OBVIOUS
<1>2. \A i \in DOMAIN stmts : FoldStmt[stmts[i]] \in Node
  BY ElementOfSeq, FoldAssumption
<1> QED BY <1>1, <1>2 DEF Fold

\* The steps of the shell between the passes.  A rollback gives back names that were
\* names before.
LEMMA ShellStep ==
  ASSUME SessionInv,
         \/ EndOfFile \/ PrecheckDone \/ CheckRejects \/ CheckAccepts \/ OptimizeDone
         \/ ExecuteReturns \/ ExecuteThrows \/ ProcessDies
  PROVE  SessionInv'
<1> USE DEF checkerVars, RollbackLastCheck, AfterSuccess, AfterFailure
<1>1. /\ UNCHANGED <<checking, scopes, globalScopeSnapshot, functionDepth, checkError>>
      /\ globalScope' \in {globalScope, globalScopeSnapshot}
      /\ strictGlobalCheck' \in {strictGlobalCheck, FALSE}
  <2>1. CASE EndOfFile
    BY <2>1 DEF EndOfFile
  <2>2. CASE PrecheckDone
    BY <2>2 DEF PrecheckDone
  <2>3. CASE CheckRejects
    BY <2>3 DEF CheckRejects
  <2>4. CASE CheckAccepts
    BY <2>4 DEF CheckAccepts
  <2>5. CASE OptimizeDone
    BY <2>5 DEF OptimizeDone
  <2>6. CASE ExecuteReturns
    BY <2>6 DEF ExecuteReturns
  <2>7. CASE ExecuteThrows
    BY <2>7 DEF ExecuteThrows
  <2>8. CASE ProcessDies
    BY <2>8 DEF ProcessDies
  <2> QED BY <2>1, <2>2, <2>3, <2>4, <2>5, <2>6, <2>7, <2>8
<1>2. CheckerInv'
  BY <1>1, CheckerKept DEF SessionInv, CheckerInv, CheckerTypeOK
<1>3. /\ mode' = mode /\ current' \in {current, Fold(current)} /\ file' = file
      /\ phase' \in Phase /\ phase' \notin {"precheck", "check"} /\ checking = <<>>
  BY DEF EndOfFile, PrecheckDone, CheckRejects, CheckAccepts, OptimizeDone, ExecuteReturns,
         ExecuteThrows, ProcessDies, Phase, SessionInv, CheckerInPhase
<1>4. ~strictGlobalCheck'
  BY <1>1 DEF EndOfFile, PrecheckDone, CheckRejects, CheckAccepts, OptimizeDone,
              ExecuteReturns, ExecuteThrows, ProcessDies,
              SessionInv, CheckerInPhase
<1>5. /\ current' \in Seq(Node)
      /\ phase' = "bind" => current' \in Seq(Statements)
  <2>1. CASE OptimizeDone
    BY <2>1, FoldType DEF OptimizeDone, SessionInv, ShellTypeOK
  <2>2. CASE ~OptimizeDone
    BY <2>2 DEF EndOfFile, PrecheckDone, CheckRejects, CheckAccepts, ExecuteReturns,
                ExecuteThrows, ProcessDies, SessionInv, ShellTypeOK
  <2> QED BY <2>1, <2>2
<1>6. ShellTypeOK' /\ CheckerInPhase'
  BY <1>1, <1>3, <1>4, <1>5 DEF SessionInv, ShellTypeOK, CheckerInPhase, CheckerInv, CheckerTypeOK
<1> QED BY <1>2, <1>6 DEF SessionInv

LEMMA SessionNext == SessionInv /\ [Next]_vars => SessionInv'
<1> SUFFICES ASSUME SessionInv, [Next]_vars PROVE SessionInv'
  OBVIOUS
<1>1. CASE Next /\ ~Stopped
  BY <1>1, InputStep, NextStatementStep, PassStep, ShellStep DEF Next, Pipeline
<1>2. CASE UNCHANGED vars
  <2>1. UNCHANGED <<checkerVars, sessionVars>>
    BY <1>2 DEF vars
  <2>2. CheckerInv'
    BY <2>1, CheckerKept DEF checkerVars, SessionInv, CheckerInv, CheckerTypeOK
  <2>3. ShellTypeOK' /\ CheckerInPhase'
    BY <2>1 DEF checkerVars, sessionVars, SessionInv, ShellTypeOK, CheckerInPhase
  <2> QED BY <2>2, <2>3 DEF SessionInv
<1> QED BY <1>1, <1>2 DEF Stopped

\* The invariant of a session: types, and the phases in which the checker runs.
THEOREM SessionInvariant == Spec => []SessionInv
BY SessionInit, SessionNext, PTL DEF Spec

\* The state of the checker has its types in every state of every session.
THEOREM CheckerTypes == Spec => []CheckerTypeOK
<1>1. SessionInv => CheckerTypeOK
  BY DEF SessionInv, CheckerInv
<1> QED BY <1>1, SessionInvariant, PTL

\* scopes_ and functionDepth_ agree with the visitors that are running at every moment
\* of every session, whatever is thrown in the middle of a visit: the catch clauses of
\* visitBlockStmt, visitForStmt and visitFunctionStmt undo exactly what was done.
THEOREM StacksAgree == Spec => []CheckerStacksAgree
<1>1. SessionInv => CheckerStacksAgree
  BY DEF SessionInv, CheckerInv
<1> QED BY <1>1, SessionInvariant, PTL

-----------------------------------------------------------------------------
(* The executor in a session.                                               *)

\* A process that has crashed executes nothing any more.
CrashIsLast == exc = "crash" => phase \in {"execute", "dead"}
MachineInv  ==
  /\ SessionInv /\ BindingInv /\ ExecutorInv
  /\ exc \in Exception /\ orphans \in SUBSET Name
  /\ CrashIsLast

LEMMA MachineInit == Init => MachineInv
<1> SUFFICES ASSUME Init PROVE MachineInv
  OBVIOUS
<1>1. SessionInv /\ BindingInv
  BY SessionInit, BindingInitInv DEF Init
<1>2. FramesInv /\ exc = "none" /\ orphans = {}
  BY ExecutorInitInv DEF Init, ExecutorInit
<1> QED BY <1>1, <1>2 DEF MachineInv, ExecutorInv, CrashIsLast, Exception

\* What the shell does to the executor besides running it: at most it clears an exception
\* that has left execute().
\* The steps of the shell that leave the executor alone.
ShellAlone ==
  \/ Input
  \/ NextStatement \/ EndOfFile \/ Checking \/ PrecheckDone \/ CheckRejects \/ CheckAccepts
  \/ Optimizing \/ ExecuteReturns \/ ExecuteThrows \/ ProcessDies
  \/ Stopped \/ UNCHANGED vars

LEMMA NextIs ==
  [Next]_vars <=> ShellAlone \/ Interpreting \/ OptimizeDone
BY DEF Next, Pipeline, ShellAlone

LEMMA ShellLeavesExecutor ==
  ASSUME ShellAlone
  PROVE  /\ UNCHANGED <<frames, vals, storeVars>>
         /\ exc' = exc \/ (exc \in {"error", "unlocated"} /\ exc' = "none" /\ phase = "execute")
         /\ exc' = "crash" => exc = "crash" /\ (phase \in {"execute", "dead"} => phase' \in {"execute", "dead"})
<1> USE DEF executorVars, storeVars
<1>1. CASE Input
  BY <1>1 DEF Input, ProcessLine, Precheck, LoadFile, LoadFails, InputAllowed
<1>2. CASE NextStatement \/ EndOfFile \/ Checking \/ PrecheckDone \/ CheckRejects \/ CheckAccepts
  BY <1>2 DEF NextStatement, EndOfFile, Checking, PrecheckDone, CheckRejects, CheckAccepts
<1>3. CASE Optimizing \/ ExecuteReturns \/ ExecuteThrows \/ ProcessDies
  BY <1>3 DEF Optimizing, ExecuteReturns, ExecuteThrows, ProcessDies, sessionVars
<1>4. CASE Stopped \/ UNCHANGED vars
  BY <1>4 DEF Stopped, vars, sessionVars
<1> QED BY <1>1, <1>2, <1>3, <1>4 DEF ShellAlone

\* The exceptions a step of the executor may throw, or end with.
LEMMA ExceptionStep ==
  ASSUME ExecutorInv, DistancesTyped, exc \in Exception, ExecutorStep
  PROVE  exc' \in Exception
<1>1. CASE Proceeds
  BY <1>1 DEF Proceeds, Exception
<1>2. CASE Enters \/ Leaves \/ Crashes
  BY <1>2 DEF Enters, Leaves, Crashes, Exception
<1> QED BY <1>1, <1>2, StepKinds

LEMMA BindingNext ==
  ASSUME SessionInv, BindingInv, [Next]_vars
  PROVE  BindingInv'
<1>1. CASE CheckAccepts
  BY <1>1, BindBeginInv DEF CheckAccepts, SessionInv, ShellTypeOK
<1>2. CASE Optimizing
  BY <1>2, BindStepInv DEF Optimizing
<1>3. CASE ~CheckAccepts /\ ~Optimizing
  <2>1. UNCHANGED bindingVars
    BY <1>3 DEF Next, Input, Pipeline, Stopped, vars, ProcessLine, Precheck, LoadFile, LoadFails,
       NextStatement, EndOfFile, Checking, PrecheckDone, CheckRejects, OptimizeDone,
       Interpreting, ExecuteReturns, ExecuteThrows, ProcessDies
  <2> QED BY <2>1, BindingKept
<1> QED BY <1>1, <1>2, <1>3

LEMMA OrphansNext ==
  ASSUME SessionInv, orphans \in SUBSET Name, [Next]_vars
  PROVE  orphans' \in SUBSET Name
<1>1. CASE ExecuteThrows
  BY <1>1 DEF ExecuteThrows, SessionInv, CheckerInv, CheckerTypeOK
<1>2. CASE ~ExecuteThrows
  <2>1. UNCHANGED orphans
    BY <1>2 DEF Next, Input, Pipeline, Stopped, vars, sessionVars, ProcessLine, Precheck, LoadFile,
       LoadFails, NextStatement, EndOfFile, Checking, PrecheckDone, CheckRejects, CheckAccepts,
       Optimizing, OptimizeDone, Interpreting, ExecuteReturns, ProcessDies
  <2> QED BY <2>1
<1> QED BY <1>1, <1>2

LEMMA MachineNext == MachineInv /\ [Next]_vars => MachineInv'
<1> SUFFICES ASSUME MachineInv, [Next]_vars PROVE MachineInv'
  OBVIOUS
<1> USE DEF MachineInv
<1>1. SessionInv' /\ BindingInv' /\ orphans' \in SUBSET Name
  BY SessionNext, BindingNext, OrphansNext
<1>2. CASE Interpreting
  <2>1. DistancesTyped
    BY DEF BindingInv, BindingTypeOK, DistancesTyped
  <2>2. ExecutorInv' /\ exc' \in Exception
    BY <1>2, <2>1, ExecutorStepInv, ExceptionStep DEF Interpreting
  <2>3. CrashIsLast'
    BY <1>2 DEF Interpreting, sessionVars, CrashIsLast
  <2> QED BY <1>1, <2>2, <2>3
<1>3. CASE OptimizeDone
  <2>1. Fold(current) \in Seq(Node)
    BY <1>3, FoldType DEF OptimizeDone, SessionInv, ShellTypeOK
  <2>2. exc # "crash" /\ FramesInv
    BY <1>3 DEF OptimizeDone, ExecutorInv, CrashIsLast
  <2>3. FramesInv' /\ exc' # "crash" /\ exc' = exc
    BY <1>3, <2>1, <2>2, ExecuteBeginInv DEF OptimizeDone, ExecuteBegin
  <2> QED BY <1>1, <2>3 DEF ExecutorInv, CrashIsLast
<1>4. CASE ShellAlone
  <2>1. ExecutorInv' /\ exc' \in Exception
    BY <1>4, ShellLeavesExecutor, ExecutorKept DEF Exception
  <2>2. CrashIsLast'
    BY <1>4, ShellLeavesExecutor DEF CrashIsLast
  <2> QED BY <1>1, <2>1, <2>2
<1> QED BY <1>2, <1>3, <1>4, NextIs

THEOREM MachineInvariant == Spec => []MachineInv
BY MachineInit, MachineNext, PTL DEF Spec

\* env_, execDepth_ and the chains of environments are right at every moment of every
\* session, also when an exception leaves any number of blocks, fors and calls:
\* ScopeGuard and DepthGuard restore what their visitor found.
THEOREM EnvironmentsAreAStack == Spec => []EnvironmentStack
<1>1. MachineInv => EnvironmentStack
  BY SMTT(60) DEF MachineInv, ExecutorInv, FramesInv, Aligned, ChainsLeadOut, ChainFrom, MemoryTyped,
         EnvsTyped, EnvironmentStack
<1> QED BY <1>1, MachineInvariant, PTL

LEMMA MachineTypes == MachineInv => SessionTypeOK
<1> SUFFICES ASSUME MachineInv PROVE SessionTypeOK
  OBVIOUS
<1>1. CheckerTypeOK /\ BindingTypeOK /\ exc \in Exception
      /\ mode \in Modes /\ phase \in Phase /\ orphans \subseteq Name
  BY DEF MachineInv, SessionInv, CheckerInv, BindingInv, ShellTypeOK
<1>2. MemoryTyped
  BY DEF MachineInv, ExecutorInv, FramesInv
<1>3. vals \in Seq(Value) /\ arrays \in Seq(Seq(Value))
  <2>1. HeapValue \subseteq Value
    BY DEF HeapValue
  <2>2. Seq(HeapValue) \subseteq Seq(Value)
    BY <2>1, SeqMonotonic
  <2> QED BY <1>2, <2>1, <2>2, SeqMonotonic DEF MemoryTyped, StoreTyped
<1>4. \A x \in Name : functions[x].closure \in 0..Len(envs)
  BY <1>2 DEF MemoryTyped, ClosuresAlive
<1>5. env \in Nat /\ execDepth \in Nat
  <2>1. CASE exc = "crash"
    BY <2>1 DEF MachineInv, ExecutorInv
  <2>2. CASE exc # "crash"
    <3>1. FramesInv
      BY <2>2 DEF MachineInv, ExecutorInv
    <3>2. Len(envs) \in Nat \ {0}
      BY <3>1, WorkAtHand DEF FramesInv, Aligned
    <3> QED BY <3>1, <3>2 DEF FramesInv, Aligned
  <2> QED BY <2>1, <2>2
<1> QED BY <1>1, <1>3, <1>4, <1>5 DEF SessionTypeOK

\* Every part of the machine's state has its type, in every state of every session.  The
\* values that expressions, arrays and variables hold are values - what they are read
\* from was written before - and a closure names a live environment or none.
THEOREM SessionTypes == Spec => []SessionTypeOK
BY MachineTypes, MachineInvariant, PTL

-----------------------------------------------------------------------------
(* FoldStmt is what its recursive definition says: parsed statements have a *)
(* height, so the definition has a solution.                                *)

\* What foldStmt makes of a statement when "f" folds the statements in it.
FoldBody(f, n) ==
  IF n.kind \notin StmtKind
  THEN n
  ELSE [n EXCEPT !.kids = [i \in DOMAIN n.kids |->
          IF i \in SubStatements(n) THEN f[n.kids[i]] ELSE FoldExpr[n.kids[i]]]]

\* f folds the statements lower than k.
FoldsBelow(k, f) ==
  \A n \in Statements : Height[n] < k => f[n] = FoldBody(f, n)

\* Only what f does to the statements in n matters.
LEMMA FoldBodyLocal ==
  ASSUME NEW f, NEW g, NEW n \in Statements,
         \A m \in Statements : Height[m] < Height[n] => f[m] = g[m]
  PROVE  FoldBody(f, n) = FoldBody(g, n)
<1>1. \A i \in DOMAIN n.kids : i \in SubStatements(n) => f[n.kids[i]] = g[n.kids[i]]
  BY FoldAssumption
<1>2. [i \in DOMAIN n.kids |->
          IF i \in SubStatements(n) THEN f[n.kids[i]] ELSE FoldExpr[n.kids[i]]]
      = [i \in DOMAIN n.kids |->
          IF i \in SubStatements(n) THEN g[n.kids[i]] ELSE FoldExpr[n.kids[i]]]
  BY <1>1
<1> QED BY <1>2 DEF FoldBody

LEMMA FoldsExist ==
  ASSUME NEW k \in Nat
  PROVE  \E f : FoldsBelow(k, f)
<1> DEFINE S == {j \in Nat : \E f : FoldsBelow(j, f)}
<1>1. 0 \in S
  BY FoldAssumption DEF FoldsBelow
<1>2. ASSUME NEW j \in S PROVE j + 1 \in S
  <2>1. PICK f : FoldsBelow(j, f)
    BY <1>2
  <2> DEFINE g == [n \in Statements |-> FoldBody(f, n)]
  <2>2. \A n \in Statements : Height[n] < j => g[n] = f[n]
    BY <2>1 DEF FoldsBelow
  <2>3. ASSUME NEW n \in Statements, Height[n] < j + 1 PROVE g[n] = FoldBody(g, n)
    <3>1. \A m \in Statements : Height[m] < Height[n] => f[m] = g[m]
      BY <2>2, <2>3, FoldAssumption
    <3>2. FoldBody(f, n) = FoldBody(g, n)
      <4> HIDE DEF g
      <4> QED BY <3>1, FoldBodyLocal
    <3> QED BY <3>2
  <2>4. FoldsBelow(j + 1, g)
    BY <2>3 DEF FoldsBelow
  <2> QED BY <2>4
<1>3. S = Nat
  <2> S \in SUBSET Nat
    OBVIOUS
  <2> HIDE DEF S
  <2> QED BY <1>1, <1>2, SetInduction
<1> QED BY <1>3

LEMMA FoldsAgree ==
  ASSUME NEW k \in Nat, NEW f, NEW g, FoldsBelow(k, f), FoldsBelow(k, g)
  PROVE  \A n \in Statements : Height[n] < k => f[n] = g[n]
<1> DEFINE S == {j \in Nat : \A n \in Statements : Height[n] < j /\ Height[n] < k => f[n] = g[n]}
<1>1. 0 \in S
  BY FoldAssumption
<1>2. ASSUME NEW j \in S PROVE j + 1 \in S
  <2> SUFFICES ASSUME NEW n \in Statements, Height[n] < j + 1, Height[n] < k PROVE f[n] = g[n]
    OBVIOUS
  <2>1. \A m \in Statements : Height[m] < Height[n] => f[m] = g[m]
    BY FoldAssumption
  <2>2. FoldBody(f, n) = FoldBody(g, n)
    BY <2>1, FoldBodyLocal
  <2> QED BY <2>2 DEF FoldsBelow
<1>3. S = Nat
  <2> S \in SUBSET Nat
    OBVIOUS
  <2> HIDE DEF S
  <2> QED BY <1>1, <1>2, SetInduction
<1>4. k \in S
  BY <1>3
<1> QED BY <1>4

LEMMA FoldStmtUnfolds ==
  \A n \in Statements : FoldStmt[n] = FoldBody(FoldStmt, n)
<1> DEFINE F == [n \in Statements |-> (CHOOSE f : FoldsBelow(Height[n] + 1, f))[n]]
<1>1. ASSUME NEW n \in Statements PROVE F[n] = FoldBody(F, n)
  <2> DEFINE f == CHOOSE f : FoldsBelow(Height[n] + 1, f)
  <2>1. Height[n] \in Nat
    BY FoldAssumption
  <2>2. FoldsBelow(Height[n] + 1, f)
    BY <2>1, FoldsExist
  <2>3. F[n] = FoldBody(f, n)
    <3>1. f[n] = FoldBody(f, n)
      <4> HIDE DEF f
      <4> QED BY <2>1, <2>2 DEF FoldsBelow
    <3> QED BY <3>1
  <2>4. ASSUME NEW m \in Statements, Height[m] < Height[n] PROVE f[m] = F[m]
    <3> DEFINE g == CHOOSE g : FoldsBelow(Height[m] + 1, g)
    <3>1. Height[m] \in Nat
      BY FoldAssumption
    <3>2. FoldsBelow(Height[m] + 1, g)
      BY <3>1, FoldsExist
    <3>3. F[m] = g[m]
      OBVIOUS
    <3> HIDE DEF f, g, F
    <3>4. FoldsBelow(Height[m] + 1, f)
      BY <2>1, <2>2, <2>4, <3>1, FoldAssumption DEF FoldsBelow
    <3>5. f[m] = g[m]
      BY <3>1, <3>2, <3>4, FoldsAgree
    <3> QED BY <3>3, <3>5
  <2> HIDE DEF f, F
  <2>5. FoldBody(f, n) = FoldBody(F, n)
    BY <2>4, FoldBodyLocal
  <2> QED BY <2>3, <2>5
<1>2. F = [n \in Statements |-> FoldBody(F, n)]
  BY SMTT(60), <1>1
<1> HIDE DEF F
<1>3. \E G : G = [n \in Statements |-> FoldBody(G, n)]
  BY <1>2
<1>4. FoldStmt = [n \in Statements |-> FoldBody(FoldStmt, n)]
  BY <1>3 DEF FoldStmt, FoldBody
<1> QED BY <1>4

\* Folding a statement does not disturb what is known of it as a tree: it changes
\* expressions only.
LEMMA FoldTrees ==
  ASSUME NEW bad, NEW stop, NEW under, stop \subseteq StmtKind,
         \A b \in bad : b[1] \in StmtKind, ExprNodes \subseteq under,
         \A n \in Statements \cap under : FoldStmt[n] \in under
  PROVE  \A n \in Statements \cap Trees(bad, stop, under) : FoldStmt[n] \in Trees(bad, stop, under)
<1> DEFINE T == Trees(bad, stop, under)
           S == {FoldStmt[n] : n \in Statements \cap T}
<1>1. S \in SUBSET Node
  BY FoldAssumption
<1>2. ExprNodes \subseteq T
  BY ExpressionTrees
<1>3. ASSUME NEW n \in Statements \cap T
      PROVE  /\ Label(FoldStmt[n]) \notin bad
             /\ Kids(FoldStmt[n]) \subseteq IF FoldStmt[n].kind \in stop THEN under ELSE S \cup T
  <2> DEFINE m == FoldStmt[n]
             kids == [i \in DOMAIN n.kids |->
                        IF i \in SubStatements(n) THEN FoldStmt[n.kids[i]] ELSE FoldExpr[n.kids[i]]]
  <2>1. /\ n \in Node /\ m \in Node /\ Label(n) \notin bad
        /\ Kids(n) \subseteq IF n.kind \in stop THEN under ELSE T
    BY FoldAssumption, TreesOut
  <2>2. m = IF n.kind \notin StmtKind THEN n ELSE [n EXCEPT !.kids = kids]
    BY FoldStmtUnfolds DEF FoldBody
  <2>3. CASE n.kind \notin StmtKind
    BY <2>1, <2>2, <2>3
  <2>4. CASE n.kind \in StmtKind
    <3>1. m.kids = kids /\ m.kind = n.kind /\ m.tok = n.tok
      BY <2>1, <2>2, <2>4, NodeAssumption
    <3>2. Label(m) \notin bad
      BY <2>1, <3>1 DEF Label
    <3>3. SubStatements(m) = SubStatements(n)
      BY <2>1, <2>2, <2>4, <3>1 DEF SubStatements
    <3> HIDE DEF m
    <3>4. ASSUME NEW i \in DOMAIN m.kids
          PROVE  m.kids[i] \in IF n.kind \in stop THEN under ELSE S \cup T
      <4>1. CASE i \in SubStatements(n)
        <5>1. m.kids[i] = FoldStmt[n.kids[i]] /\ i \in DOMAIN n.kids
          BY <3>1, <4>1
        <5>2. n.kids[i] \in Statements /\ n.kids[i] \in Kids(n)
          BY <4>1, <5>1, FoldAssumption DEF Kids
        <5> QED BY <2>1, <5>1, <5>2
      <4>2. CASE i \notin SubStatements(n)
        <5>1. m.kids[i] \in Node
          BY <2>1, <3>4, NodeAssumption, LenProperties, ElementOfSeq
        <5>2. m.kids[i].kind \notin StmtKind
          BY <2>1, <3>3, <3>4, <4>2, KidsAssumption
        <5>3. m.kids[i] \in ExprNodes
          BY <2>1, <3>4, <5>1, <5>2, NodeAssumption, KidsAssumption DEF Kind, ExprNodes
        <5> QED BY <1>2, <5>3
      <4> QED BY <4>1, <4>2
    <3> QED BY <3>1, <3>2, <3>4 DEF Kids, m
  <2> QED BY <2>3, <2>4
<1>4. S \subseteq T
  <2>1. \A m \in S : /\ Label(m) \notin bad
                    /\ Kids(m) \subseteq IF m.kind \in stop THEN under ELSE S \cup T
    BY <1>3
  <2> HIDE DEF S
  <2> QED BY <1>1, <2>1, TreesCover
<1> QED BY <1>4

\* The trees that checker and executor are about stay what they are.
LEMMA FoldKeepsTrees ==
  ASSUME NEW n \in Statements
  PROVE  /\ n \in ReturnFree => FoldStmt[n] \in ReturnFree
         /\ \A G : n \in FuncsIn(G) => FoldStmt[n] \in FuncsIn(G)
         /\ \A G : n \in Admitted(G) => FoldStmt[n] \in Admitted(G)
         /\ \A x : n \in Without(x) => FoldStmt[n] \in Without(x)
<1>1. ExprNodes \subseteq Node /\ \A m \in Statements : FoldStmt[m] \in Node
  BY FoldAssumption, NodeAssumption DEF ExprNodes
<1>2. ScopeKind \subseteq StmtKind
  BY DEF ScopeKind, StmtKind
<1>3. n \in ReturnFree => FoldStmt[n] \in ReturnFree
  <2> DEFINE bad == {Label(m) : m \in {m \in Node : m.kind = "return"}}
  <2>1. {"func"} \subseteq StmtKind /\ \A b \in bad : b[1] \in StmtKind
    BY DEF Label, StmtKind
  <2> HIDE DEF bad
  <2>2. \A m \in Statements \cap Trees(bad, {"func"}, Node) : FoldStmt[m] \in Trees(bad, {"func"}, Node)
    BY <1>1, <2>1, FoldTrees
  <2> QED BY <2>2 DEF ReturnFree, bad
<1>4. ASSUME NEW G PROVE \A m \in Statements \cap FuncsIn(G) : FoldStmt[m] \in FuncsIn(G)
  <2> DEFINE bad == {"func"} \X (Name \ G)
  <2>1. \A b \in bad : b[1] \in StmtKind
    BY DEF StmtKind
  <2> HIDE DEF bad
  <2>2. Trees(bad, {}, {}) = Trees(bad, {}, ExprNodes)
    BY TreesStop
  <2>3. \A m \in ExprNodes : m.kind \notin StmtKind
    <3>1. Absent.kind \notin StmtKind
      BY DEF StmtKind, Absent, MkNode
    <3>2. \A k \in ExprKind : k \notin StmtKind
      BY DEF ExprKind, StmtKind
    <3> QED BY <3>1, <3>2 DEF ExprNodes
  <2>4. \A m \in Statements \cap ExprNodes : FoldStmt[m] \in ExprNodes
    BY <2>3, FoldStmtUnfolds DEF FoldBody
  <2>5. \A m \in Statements \cap Trees(bad, {}, ExprNodes) : FoldStmt[m] \in Trees(bad, {}, ExprNodes)
    BY <2>1, <2>4, FoldTrees
  <2> QED BY <2>2, <2>5 DEF FuncsIn, bad
<1>5. ASSUME NEW G PROVE n \in Admitted(G) => FoldStmt[n] \in Admitted(G)
  <2> DEFINE bad == {"var", "func"} \X (Name \ G)
  <2>1. \A b \in bad : b[1] \in StmtKind
    BY DEF StmtKind
  <2> HIDE DEF bad
  <2>2. ExprNodes \subseteq FuncsIn(G)
    BY FuncsInTrees
  <2>3. \A m \in Statements \cap Trees(bad, ScopeKind, FuncsIn(G)) :
          FoldStmt[m] \in Trees(bad, ScopeKind, FuncsIn(G))
    BY <1>2, <1>4, <2>1, <2>2, FoldTrees
  <2> QED BY <2>3 DEF Admitted, bad
<1>6. ASSUME NEW x PROVE n \in Without(x) => FoldStmt[n] \in Without(x)
  <2> DEFINE bad == {<<"var", x>>}
  <2>1. \A b \in bad : b[1] \in StmtKind
    BY DEF StmtKind
  <2> HIDE DEF bad
  <2>2. \A m \in Statements \cap Trees(bad, ScopeKind, Node) : FoldStmt[m] \in Trees(bad, ScopeKind, Node)
    BY <1>1, <1>2, <2>1, FoldTrees
  <2> QED BY <2>2 DEF Without, bad
<1> QED BY <1>3, <1>4, <1>5, <1>6

-----------------------------------------------------------------------------
(* A return is caught.                                                      *)

\* execute() is the frame at the bottom, and only the frame of a for has the parts of a
\* for to do.
Shape ==
  /\ \A i \in 1..Len(frames) : frames[i].kind = "execute" <=> i = 1
  /\ \A i \in 1..Len(frames) : \A k \in DOMAIN frames[i].work :
       frames[i].work[k].op \in ForOp => frames[i].kind = "for"

LEMMA ShapeStep ==
  ASSUME ExecutorInv, DistancesTyped, ExecutorStep, Shape
  PROVE  Shape'
<1> DEFINE L == Len(frames)
           ok(kind) == {t \in TaskType : t.op \in ForOp => kind = "for"}
           Ok == [i \in 1..(L + 1) |-> IF i = L + 1 THEN ok(frames'[i].kind) ELSE ok(frames[i].kind)]
<1>1. FramesInv /\ L \in Nat
  BY StepKinds, LenProperties DEF FramesInv, FramesTyped
<1>2. \A i \in 1..L : i \in 1..(L + 1) /\ i # L + 1 /\ Ok[i] = ok(frames[i].kind)
  BY <1>1
<1>3. Ok[L + 1] = ok(frames'[L + 1].kind)
  BY <1>1
<1> HIDE DEF Ok
<1>4. FramesIn(frames, Ok)
  <2> SUFFICES ASSUME NEW i \in 1..L, NEW k \in DOMAIN frames[i].work PROVE frames[i].work[k] \in Ok[i]
    BY DEF FramesIn
  <2>0. frames[i] \in FrameType
    BY <1>1, ElementOfSeq DEF FramesInv, FramesTyped
  <2>1. frames[i].work \in Seq(TaskType)
    BY <2>0 DEF FrameType
  <2>2. frames[i].work[k] \in TaskType
    BY <2>1, LenProperties, ElementOfSeq
  <2> QED BY <1>2, <2>2 DEF Shape
<1>5. Proceeds => Onward \subseteq Ok[L]
  <2> SUFFICES ASSUME Proceeds, NEW t \in Onward PROVE t \in Ok[L]
    OBVIOUS
  <2>1. L \in 1..L /\ Todo = frames[L].work /\ Now = Todo[1] /\ 1 \in DOMAIN Todo
    BY <1>1, WorkOnTop DEF Proceeds
  <2>2. Now.op \in ForOp => frames[L].kind = "for"
    BY <2>1 DEF Shape
  <2> QED BY <1>2, <2>1, <2>2 DEF Onward
<1>6. Enters => \A k \in DOMAIN frames'[L + 1].work : frames'[L + 1].work[k] \in Ok[L + 1]
  <2> SUFFICES ASSUME Enters, NEW k \in DOMAIN frames'[L + 1].work
               PROVE  frames'[L + 1].work[k] \in Ok[L + 1]
    OBVIOUS
  <2>1. frames'[L + 1].work \in Seq(TaskType) /\ Opens(frames'[L + 1].kind, frames'[L + 1].work)
    BY <1>1, EntersFrames
  <2>2. frames'[L + 1].work[k] \in TaskType
    BY <2>1, LenProperties, ElementOfSeq
  <2> QED BY <1>3, <2>1, <2>2 DEF Opens
<1>7. FramesIn(frames', Ok)
  BY <1>4, <1>5, <1>6, StepTasks
<1>8. \A i \in 1..Len(frames') :
        /\ frames'[i].kind = "execute" <=> i = 1
        /\ i \in 1..(L + 1) /\ Ok[i] = ok(frames'[i].kind)
  <2>1. CASE Proceeds
    BY <1>1, <1>2, <2>1, ProceedsFrames DEF Shape
  <2>2. CASE Enters
    <3>1. /\ L \in Nat \ {0} /\ Len(frames') = L + 1 /\ frames'[L + 1].kind # "execute"
          /\ \A i \in 1..L : frames'[i].kind = frames[i].kind
      BY <1>1, <2>2, EntersFrames
    <3>2. \A i \in 1..(L + 1) : i \in 1..L \/ i = L + 1
      BY <3>1
    <3>3. L + 1 # 1
      BY <3>1
    <3> QED BY <1>2, <1>3, <3>1, <3>2, <3>3 DEF Shape
  <2>3. CASE Leaves
    <3>1. /\ Len(frames') = L - 1 /\ \A i \in 1..(L - 1) : frames'[i] = frames[i]
      BY <1>1, <2>3, LeavesFrames
    <3>2. \A i \in 1..(L - 1) : i \in 1..L
      BY <1>1
    <3> QED BY <1>2, <3>1, <3>2 DEF Shape
  <2>4. CASE Crashes
    BY <2>4, EmptySeq DEF Crashes
  <2> QED BY <2>1, <2>2, <2>3, <2>4, StepKinds
<1> QED BY <1>7, <1>8 DEF Shape, FramesIn

\* No call is among the first i frames of the stack.
Uncaught(stack, i) == \A j \in 1..i : stack[j].kind # "call"

\* Where no call would catch a return there is none left, and none is on its way.
ReturnsCaught ==
  /\ \A i \in 1..Len(frames) : Uncaught(frames, i) =>
       \A k \in DOMAIN frames[i].work : frames[i].work[k].node \in ReturnFree
  /\ exc = "return" => \E i \in 1..Len(frames) : frames[i].kind = "call"

LEMMA ReturnsStep ==
  ASSUME ExecutorInv, DistancesTyped, ExecutorStep, Shape, ReturnsCaught
  PROVE  ReturnsCaught'
<1> DEFINE L == Len(frames)
           ok(un) == {t \in TaskType : un => t.node \in ReturnFree}
           Ok == [i \in 1..(L + 1) |-> ok(IF i = L + 1 THEN Uncaught(frames', i) ELSE Uncaught(frames, i))]
<1>1. FramesInv /\ L \in Nat
  BY StepKinds, LenProperties DEF FramesInv, FramesTyped
<1>2. \A i \in 1..L : i \in 1..(L + 1) /\ i # L + 1 /\ Ok[i] = ok(Uncaught(frames, i))
  BY <1>1
<1>3. Ok[L + 1] = ok(Uncaught(frames', L + 1))
  BY <1>1
<1> HIDE DEF Ok
<1>4. FramesIn(frames, Ok)
  <2> SUFFICES ASSUME NEW i \in 1..L, NEW k \in DOMAIN frames[i].work PROVE frames[i].work[k] \in Ok[i]
    BY DEF FramesIn
  <2>1. frames[i] \in FrameType
    BY <1>1, ElementOfSeq DEF FramesInv, FramesTyped
  <2>2. frames[i].work \in Seq(TaskType)
    BY <2>1 DEF FrameType
  <2>3. frames[i].work[k] \in TaskType
    BY <2>2, LenProperties, ElementOfSeq
  <2> QED BY <1>2, <2>3 DEF ReturnsCaught
<1>5. ASSUME frames # <<>>, Todo # <<>>, Uncaught(frames, L)
      PROVE  /\ N \in ReturnFree /\ N.kind # "return"
             /\ N.kind # "func" => Kids(N) \subseteq ReturnFree
  <2>1. L \in 1..L /\ Todo = frames[L].work /\ N = Todo[1].node /\ 1 \in DOMAIN Todo
    BY <1>1, <1>5, WorkOnTop
  <2>2. N \in ReturnFree
    BY <1>5, <2>1 DEF ReturnsCaught
  <2> QED BY <2>2, ReturnFreeTrees
<1>6. Proceeds => Onward \subseteq Ok[L]
  <2> SUFFICES ASSUME Proceeds, NEW t \in Onward PROVE t \in Ok[L]
    OBVIOUS
  <2>1. L \in 1..L
    BY <1>1, WorkOnTop DEF Proceeds
  <2>2. Uncaught(frames, L) => t.node \in ReturnFree
    BY <1>5 DEF Proceeds, Onward
  <2> QED BY <1>2, <2>1, <2>2 DEF Onward
<1>7. Enters => \A k \in DOMAIN frames'[L + 1].work : frames'[L + 1].work[k] \in Ok[L + 1]
  <2> SUFFICES ASSUME Enters, NEW k \in DOMAIN frames'[L + 1].work
               PROVE  frames'[L + 1].work[k] \in Ok[L + 1]
    OBVIOUS
  <2>1. /\ frames'[L + 1].work \in Seq(TaskType) /\ Opens(frames'[L + 1].kind, frames'[L + 1].work)
        /\ \A i \in 1..L : frames'[i].kind = frames[i].kind
    BY <1>1, EntersFrames
  <2>2. frames'[L + 1].work[k] \in TaskType
    BY <2>1, LenProperties, ElementOfSeq
  <2>3. ASSUME Uncaught(frames', L + 1) PROVE frames'[L + 1].work[k].node \in ReturnFree
    <3>1. L + 1 \in 1..(L + 1) /\ \A i \in 1..L : i \in 1..(L + 1)
      BY <1>1
    <3>2. frames'[L + 1].kind # "call" /\ Uncaught(frames, L)
      BY <2>1, <2>3, <3>1 DEF Uncaught
    <3>3. /\ N.kind \in {"block", "for"}
          /\ frames'[L + 1].work[k].node = N \/ frames'[L + 1].work[k].node \in Kids(N)
      BY <2>1, <3>2 DEF Opens
    <3>4. N \in ReturnFree /\ (N.kind # "func" => Kids(N) \subseteq ReturnFree)
      BY <1>5, <3>2 DEF Enters
    <3> QED BY <3>3, <3>4
  <2> QED BY <1>3, <2>2, <2>3
<1>8. FramesIn(frames', Ok)
  BY <1>4, <1>6, <1>7, StepTasks
<1>9. \A i \in 1..Len(frames') : Uncaught(frames', i) =>
        \A k \in DOMAIN frames'[i].work : frames'[i].work[k].node \in ReturnFree
  <2> SUFFICES ASSUME NEW i \in 1..Len(frames'), Uncaught(frames', i), NEW k \in DOMAIN frames'[i].work
               PROVE  frames'[i].work[k].node \in ReturnFree
    OBVIOUS
  <2>1. frames'[i].work[k] \in Ok[i]
    BY <1>8 DEF FramesIn
  <2>2. (i \in 1..L /\ \A j \in 1..i : frames'[j].kind = frames[j].kind) \/ i = L + 1
    <3>1. CASE Proceeds
      <4>1. L \in Nat \ {0} /\ Len(frames') = L /\ \A j \in 1..L : frames'[j].kind = frames[j].kind
        BY <1>1, <3>1, ProceedsFrames
      <4>2. i \in 1..L /\ \A j \in 1..i : j \in 1..L
        BY <4>1
      <4> QED BY <4>1, <4>2
    <3>2. CASE Enters
      <4>1. L \in Nat \ {0} /\ Len(frames') = L + 1 /\ \A j \in 1..L : frames'[j].kind = frames[j].kind
        BY <1>1, <3>2, EntersFrames
      <4>2. i = L + 1 \/ (i \in 1..L /\ \A j \in 1..i : j \in 1..L)
        BY <4>1
      <4> QED BY <4>1, <4>2
    <3>3. CASE Leaves
      <4>1. Len(frames') = L - 1 /\ \A j \in 1..(L - 1) : frames'[j] = frames[j]
        BY <1>1, <3>3, LeavesFrames
      <4>2. i \in 1..L /\ \A j \in 1..i : j \in 1..(L - 1)
        BY <1>1, <4>1
      <4> QED BY <4>1, <4>2
    <3>4. CASE Crashes
      BY <3>4, EmptySeq DEF Crashes
    <3> QED BY <3>1, <3>2, <3>3, <3>4, StepKinds
  <2>3. CASE i = L + 1
    BY <1>3, <2>1, <2>3
  <2>4. CASE i \in 1..L /\ \A j \in 1..i : frames'[j].kind = frames[j].kind
    <3>1. Uncaught(frames, i)
      BY <2>4 DEF Uncaught
    <3> QED BY <1>2, <2>1, <2>4, <3>1
  <2> QED BY <2>2, <2>3, <2>4
<1>10. ASSUME exc' = "return" PROVE \E i \in 1..Len(frames') : frames'[i].kind = "call"
  <2>1. CASE Proceeds
    <3>1. N.kind = "return" /\ frames # <<>> /\ Todo # <<>>
      BY <1>10, <2>1 DEF Proceeds
    <3>2. PICK i \in 1..L : frames[i].kind = "call"
      BY <1>5, <3>1 DEF Uncaught
    <3> QED BY <1>1, <2>1, <3>2, ProceedsFrames
  <2>2. CASE Enters
    BY <1>10, <2>2 DEF Enters
  <2>3. CASE Leaves
    <3>1. L \in Nat \ {0} /\ Len(frames') = L - 1 /\ \A j \in 1..(L - 1) : frames'[j] = frames[j]
      BY <1>1, <2>3, LeavesFrames
    <3>2. L # 1 => exc' = IF exc = "return" /\ Top(frames).kind = "call" THEN "none" ELSE exc
      BY <2>3 DEF Leaves
    <3>3. L = 1 => exc' = exc
      BY <2>3 DEF Leaves
    <3>4. exc = "return" /\ (L # 1 => frames[L].kind # "call")
      BY <1>10, <3>2, <3>3 DEF Top
    <3>5. PICK i \in 1..L : frames[i].kind = "call"
      BY <3>4 DEF ReturnsCaught
    <3>6. frames[1].kind = "execute"
      <4>1. 1 \in 1..L
        BY <3>1
      <4> QED BY <4>1 DEF Shape
    <3>7. i # L
      BY <3>4, <3>5, <3>6
    <3>8. i \in 1..(L - 1)
      BY <3>1, <3>5, <3>7
    <3> QED BY <3>1, <3>5, <3>8
  <2>4. CASE Crashes
    BY <1>10, <2>4 DEF Crashes
  <2> QED BY <2>1, <2>2, <2>3, <2>4, StepKinds
<1> QED BY <1>9, <1>10 DEF ReturnsCaught

-----------------------------------------------------------------------------
(* Names that are held globally.                                            *)

\* A write makes one variable hold a value.
LEMMA WriteHolds ==
  ASSUME FramesInv, NEW e \in 1..Len(envs), NEW y \in Name, NEW v \in HeapValue, Write(e, y, v),
         NEW x \in Name
  PROVE  Has(1, x)' <=> Has(1, x) \/ (e = 1 /\ x = y)
<1> DEFINE new == [envs[e].values EXCEPT ![y] = v]
           r   == [envs[e] EXCEPT !.values = new]
<1>1. envs' = [envs EXCEPT ![e] = r]
  BY DEF Write
<1>2. /\ DOMAIN envs = 1..Len(envs) /\ Len(envs) \in Nat
      /\ \A i \in 1..Len(envs) : envs[i] \in EnvType
  BY LenProperties, ElementOfSeq DEF FramesInv, MemoryTyped, EnvsTyped
<1>3. 1 \in 1..Len(envs) /\ v # Unset
  BY <1>2 DEF HeapValue, Value, ValueType, Unset
<1>4. envs'[1] = IF e = 1 THEN r ELSE envs[1]
  BY <1>1, <1>2, <1>3
<1>5. r.values[x] = IF x = y THEN v ELSE envs[e].values[x]
  <2>1. new[x] = IF x = y THEN v ELSE envs[e].values[x]
    BY <1>2 DEF EnvType
  <2> HIDE DEF new
  <2>2. r.values = new
    BY <1>2 DEF EnvType
  <2> QED BY <2>1, <2>2
<1> HIDE DEF r
<1> QED BY <1>3, <1>4, <1>5 DEF Has

\* What is held globally stays; only a declaration on the outermost level adds to it.
DeclaresGlobal(x) ==
  /\ Proceeds /\ Continue(<<>>) /\ Len(frames) = 1
  /\ N.kind = "var" /\ N.tok = x

LEMMA GlobalsAfter ==
  ASSUME ExecutorInv, DistancesTyped, ExecutorStep, NEW x \in Name
  PROVE  /\ Has(1, x) => Has(1, x)'
         /\ Has(1, x)' => Has(1, x) \/ DeclaresGlobal(x)
<1>1. FramesInv /\ Len(envs) \in Nat
  BY StepKinds, LenProperties DEF FramesInv, MemoryTyped, EnvsTyped
<1>2. CASE Proceeds
  <2>1. frames # <<>> /\ Todo # <<>> /\ env = Len(envs) /\ Len(envs) = Len(frames)
    BY <1>1, <1>2 DEF Proceeds, FramesInv, Aligned
  <2>2. CASE envs' = envs
    BY <2>2 DEF Has
  <2>3. CASE Continue(<<>>) /\ Assigns
    <3>1. PICK e \in 1..Len(envs), v \in HeapValue :
            /\ N.tok \in Name /\ (Has(e, N.tok) \/ (e = env /\ N.kind = "var"))
            /\ Write(e, N.tok, v)
      BY <2>3 DEF Assigns
    <3>2. Has(1, x)' <=> Has(1, x) \/ (e = 1 /\ x = N.tok)
      BY <1>1, <3>1, WriteHolds
    <3> QED BY <1>2, <2>1, <2>3, <3>1, <3>2 DEF DeclaresGlobal
  <2> QED BY <1>2, <2>2, <2>3 DEF Proceeds
<1>3. CASE Enters
  <2>0. PICK values \in [Name -> Held1] :
          \E c : envs' = Append(envs, [values |-> values, chain |-> c])
    BY <1>3 DEF Enters, EnterFrame
  <2>1. PICK c : envs' = Append(envs, [values |-> values, chain |-> c])
    BY <2>0
  <2>2. Len(envs) \in Nat \ {0} /\ envs \in Seq(EnvType)
    BY <1>1, WorkAtHand DEF FramesInv, Aligned, MemoryTyped, EnvsTyped
  <2>3. envs'[1] = envs[1]
    BY <2>1, <2>2, AppendProperties
  <2> QED BY <2>3 DEF Has
<1>4. CASE Leaves
  <2>1. CASE envs' = envs
    BY <2>1 DEF Has
  <2>2. CASE Len(frames) # 1 /\ envs' = Pop(envs)
    <3>1. frames # <<>> /\ Len(frames) \in Nat \ {0} /\ Len(envs) = Len(frames) /\ envs \in Seq(EnvType)
      BY <1>1, <1>4, WorkAtHand DEF Leaves, FramesInv, Aligned, FramesTyped, MemoryTyped, EnvsTyped
    <3>2. envs # <<>>
      BY <3>1, EmptySeq
    <3>3. \A i \in 1..(Len(envs) - 1) : envs'[i] = envs[i]
      BY <2>2, <3>1, <3>2, TopPop
    <3>4. 1 \in 1..(Len(envs) - 1)
      BY <2>2, <3>1
    <3>5. envs'[1] = envs[1]
      BY <3>3, <3>4
    <3> QED BY <3>5 DEF Has
  <2> QED BY <1>4, <2>1, <2>2 DEF Leaves, LeaveScope
<1>5. CASE Crashes
  BY <1>5 DEF Crashes, Has
<1> QED BY <1>2, <1>3, <1>4, <1>5, StepKinds

\* K covers what there is and what may come into being: in the statements that are left
\* every global variable and every function is named in K, as is all that is held.
NamesIn(K) ==
  /\ \A i \in 1..Len(frames) : \A k \in DOMAIN frames[i].work :
       frames[i].work[k].node \in IF i = 1 THEN Admitted(K) ELSE FuncsIn(K)
  /\ \A x \in Name :
       /\ Has(1, x) => x \in K
       /\ functions[x] = NoFunction \/ (functions[x].decl.kind = "func" /\ x \in K)
       /\ Kids(functions[x].decl) \subseteq FuncsIn(K)

LEMMA NamesGrow ==
  ASSUME NEW K, NEW H, K \subseteq H, NamesIn(K)
  PROVE  NamesIn(H)
<1>1. Admitted(K) \subseteq Admitted(H) /\ FuncsIn(K) \subseteq FuncsIn(H)
  BY AdmittedTrees, FuncsInTrees
<1> QED BY <1>1 DEF NamesIn

LEMMA NamesStep ==
  ASSUME ExecutorInv, DistancesTyped, ExecutorStep, Shape, NEW K, NamesIn(K)
  PROVE  NamesIn(K)'
<1> DEFINE L == Len(frames)
           ok(i) == {t \in TaskType : t.node \in IF i = 1 THEN Admitted(K) ELSE FuncsIn(K)}
           Ok == [i \in 1..(L + 1) |-> ok(i)]
<1>1. FramesInv /\ L \in Nat
  BY StepKinds, LenProperties DEF FramesInv, FramesTyped
<1>2. \A i \in 1..(L + 1) : Ok[i] = ok(i)
  OBVIOUS
<1>3. \A i \in 1..L : i \in 1..(L + 1)
  BY <1>1
<1>4. (L + 1 \in 1..(L + 1) /\ L + 1 # 1) \/ L = 0
  BY <1>1
<1> HIDE DEF Ok
<1>5. FramesIn(frames, Ok)
  <2> SUFFICES ASSUME NEW i \in 1..L, NEW k \in DOMAIN frames[i].work PROVE frames[i].work[k] \in Ok[i]
    BY DEF FramesIn
  <2>1. frames[i] \in FrameType
    BY <1>1, ElementOfSeq DEF FramesInv, FramesTyped
  <2>2. frames[i].work \in Seq(TaskType)
    BY <2>1 DEF FrameType
  <2>3. frames[i].work[k] \in TaskType
    BY <2>2, LenProperties, ElementOfSeq
  <2> QED BY <1>2, <1>3, <2>3 DEF NamesIn
<1>6. ASSUME frames # <<>>, Todo # <<>>
      PROVE  /\ L \in 1..L /\ L \in 1..(L + 1) /\ N \in FuncsIn(K) /\ L # 0
             /\ L = 1 => N \in Admitted(K) /\ Now.op \notin ForOp
  <2>1. L \in 1..L /\ Todo = frames[L].work /\ N = Todo[1].node /\ 1 \in DOMAIN Todo /\ Now = Todo[1]
        /\ L # 0
    BY <1>1, <1>6, WorkOnTop
  <2>2. N \in IF L = 1 THEN Admitted(K) ELSE FuncsIn(K)
    BY <2>1 DEF NamesIn
  <2>3. N \in FuncsIn(K)
    BY <2>2, AdmittedTrees
  <2>4. L = 1 => Now.op \notin ForOp
    BY <2>1 DEF Shape
  <2> QED BY <1>3, <2>1, <2>2, <2>3, <2>4
<1>7. Proceeds => Onward \subseteq Ok[L]
  <2> SUFFICES ASSUME Proceeds, NEW t \in Onward PROVE t \in Ok[L]
    OBVIOUS
  <2>1. frames # <<>> /\ Todo # <<>>
    BY DEF Proceeds
  <2>2. t \in TaskType
    BY DEF Onward
  <2>3. CASE L = 1
    <3>1. N.kind \notin ScopeKind => Kids(N) \subseteq Admitted(K)
      BY <1>6, <2>1, <2>3, AdmittedTrees
    <3>2. t.node = N \/ (t.node \in Kids(N) /\ N.kind \notin ScopeKind)
      BY <1>6, <2>1, <2>3 DEF Onward, ScopeKind
    <3> QED BY <1>2, <1>6, <2>1, <2>2, <2>3, <3>1, <3>2
  <2>4. CASE L # 1
    <3>1. Kids(N) \subseteq FuncsIn(K)
      BY <1>6, <2>1, FuncsInTrees
    <3> QED BY <1>2, <1>6, <2>1, <2>2, <2>4, <3>1 DEF Onward
  <2> QED BY <2>3, <2>4
<1>8. Enters => \A k \in DOMAIN frames'[L + 1].work : frames'[L + 1].work[k] \in Ok[L + 1]
  <2> SUFFICES ASSUME Enters, NEW k \in DOMAIN frames'[L + 1].work
               PROVE  frames'[L + 1].work[k] \in Ok[L + 1]
    OBVIOUS
  <2>1. frames'[L + 1].work \in Seq(TaskType) /\ Opens(frames'[L + 1].kind, frames'[L + 1].work)
    BY <1>1, EntersFrames
  <2>2. frames'[L + 1].work[k] \in TaskType
    BY <2>1, LenProperties, ElementOfSeq
  <2>3. N \in FuncsIn(K) /\ Kids(N) \subseteq FuncsIn(K) /\ L # 0
    BY <1>6, FuncsInTrees DEF Enters
  <2>4. frames'[L + 1].work[k].node \in FuncsIn(K)
    BY <2>1, <2>3 DEF Opens, NamesIn
  <2> QED BY <1>2, <1>4, <2>2, <2>3, <2>4
<1>9. FramesIn(frames', Ok)
  BY <1>5, <1>7, <1>8, StepTasks
<1>10. \A i \in 1..Len(frames') : i \in 1..(L + 1)
  <2>1. CASE Proceeds
    BY <1>1, <2>1, ProceedsFrames
  <2>2. CASE Enters
    BY <1>1, <2>2, EntersFrames
  <2>3. CASE Leaves
    BY <1>1, <2>3, LeavesFrames
  <2>4. CASE Crashes
    BY <2>4, EmptySeq DEF Crashes
  <2> QED BY <2>1, <2>2, <2>3, <2>4, StepKinds
<1>11. \A i \in 1..Len(frames') : \A k \in DOMAIN frames'[i].work :
         frames'[i].work[k].node \in IF i = 1 THEN Admitted(K) ELSE FuncsIn(K)
  BY <1>2, <1>9, <1>10 DEF FramesIn
<1>12. ASSUME NEW x \in Name
       PROVE  /\ Has(1, x)' => x \in K
              /\ functions'[x] = NoFunction \/ (functions'[x].decl.kind = "func" /\ x \in K)
              /\ Kids(functions'[x].decl) \subseteq FuncsIn(K)
  <2>1. Has(1, x)' => x \in K
    <3>1. DeclaresGlobal(x) => x \in K
      BY <1>6, AdmittedTrees DEF DeclaresGlobal, Proceeds
    <3> QED BY <3>1, GlobalsAfter DEF NamesIn
  <2>2. CASE functions'[x] = functions[x]
    BY <2>1, <2>2 DEF NamesIn
  <2>3. CASE /\ functions[x].closure = Len(envs) /\ Len(envs) # 0
             /\ functions'[x] = [decl |-> functions[x].decl, closure |-> Dangling]
    <3>1. functions[x] # NoFunction
      BY <2>3 DEF NoFunction, Dangling
    <3> QED BY <2>1, <2>3, <3>1 DEF NamesIn
  <2>4. CASE Proceeds /\ N.kind = "func" /\ N.tok = x /\ functions'[x] = [decl |-> N, closure |-> env]
    <3>1. x \in K /\ Kids(N) \subseteq FuncsIn(K)
      BY <1>6, <2>4, FuncsInTrees DEF Proceeds
    <3> QED BY <2>1, <2>4, <3>1
  <2> QED BY <2>2, <2>3, <2>4, FunctionsAfter
<1> QED BY <1>11, <1>12 DEF NamesIn

-----------------------------------------------------------------------------
(* A global variable is created once.                                       *)

NoneOf(work, x) == \A k \in DOMAIN work : work[k].node \in Without(x)
AtMostOne(work, x) ==
  \A i, j \in DOMAIN work : work[i].node \notin Without(x) /\ work[j].node \notin Without(x) => i = j

LEMMA OneNext ==
  ASSUME NEW x, NEW work \in Seq(TaskType), work # <<>>, NEW more \in Seq(TaskType),
         NEW new, new = more \o Tail(work),
         AtMostOne(work, x), AtMostOne(more, x), work[1].node \in Without(x) => NoneOf(more, x)
  PROVE  /\ AtMostOne(new, x)
         /\ NoneOf(more, x) /\ (NoneOf(work, x) \/ work[1].node \notin Without(x)) => NoneOf(new, x)
<1> DEFINE m == Len(more)
           bad(s, k) == s[k].node \notin Without(x)
<1>1. /\ Len(work) \in Nat \ {0} /\ DOMAIN work = 1..Len(work)
      /\ m \in Nat /\ DOMAIN more = 1..m
      /\ DOMAIN new = 1..(m + Len(work) - 1)
      /\ \A k \in 1..m : new[k] = more[k]
      /\ \A k \in DOMAIN new : k \notin 1..m => k - m + 1 \in 2..Len(work) /\ new[k] = work[k - m + 1]
  BY WorkAfter
<1>2. 1 \in DOMAIN work /\ \A k \in 2..Len(work) : k \in DOMAIN work /\ k # 1
  BY <1>1
<1>3. ASSUME NEW i \in DOMAIN new, NEW j \in DOMAIN new, bad(new, i), bad(new, j), i \in 1..m
      PROVE  i = j
  <2>1. bad(more, i) /\ bad(work, 1)
    BY <1>1, <1>3 DEF NoneOf
  <2>2. CASE j \in 1..m
    BY <1>1, <1>3, <2>1, <2>2 DEF AtMostOne
  <2>3. CASE j \notin 1..m
    <3>1. j - m + 1 \in DOMAIN work /\ j - m + 1 # 1 /\ bad(work, j - m + 1)
      BY <1>1, <1>2, <1>3, <2>3
    <3> QED BY <1>2, <2>1, <3>1 DEF AtMostOne
  <2> QED BY <2>2, <2>3
<1>4. ASSUME NEW i \in DOMAIN new, NEW j \in DOMAIN new, bad(new, i), bad(new, j), i \notin 1..m, j \notin 1..m
      PROVE  i = j
  <2>1. /\ i - m + 1 \in DOMAIN work /\ j - m + 1 \in DOMAIN work
        /\ bad(work, i - m + 1) /\ bad(work, j - m + 1)
    BY <1>1, <1>2, <1>4
  <2>2. i - m + 1 = j - m + 1
    BY <2>1 DEF AtMostOne
  <2>3. i \in Int /\ j \in Int
    BY <1>1
  <2> QED BY <1>1, <2>2, <2>3
<1>5. AtMostOne(new, x)
  BY <1>3, <1>4 DEF AtMostOne
<1>6. ASSUME NoneOf(more, x), NoneOf(work, x) \/ bad(work, 1), NEW k \in DOMAIN new
      PROVE  new[k].node \in Without(x)
  <2>1. CASE k \in 1..m
    BY <1>1, <1>6, <2>1 DEF NoneOf
  <2>2. CASE k \notin 1..m
    <3>1. k - m + 1 \in DOMAIN work /\ k - m + 1 # 1 /\ new[k] = work[k - m + 1]
      BY <1>1, <1>2, <2>2
    <3> QED BY <1>2, <1>6, <3>1 DEF NoneOf, AtMostOne
  <2> QED BY <2>1, <2>2
<1>7. NoneOf(more, x) /\ (NoneOf(work, x) \/ bad(work, 1)) => NoneOf(new, x)
  BY <1>6 DEF NoneOf
<1> QED BY <1>5, <1>7

\* What is left on the outermost level declares the variable x at most once, and not at
\* all if there is one.
OnceLeft(x) ==
  frames # <<>> =>
    /\ AtMostOne(frames[1].work, x)
    /\ Has(1, x) => NoneOf(frames[1].work, x)

LEMMA OnceStep ==
  ASSUME ExecutorInv, DistancesTyped, ExecutorStep, Shape, NEW x \in Name, OnceLeft(x)
  PROVE  OnceLeft(x)'
<1> DEFINE L == Len(frames)
<1>1. FramesInv /\ L \in Nat
  BY StepKinds, LenProperties DEF FramesInv, FramesTyped
<1>2. Has(1, x)' => Has(1, x) \/ DeclaresGlobal(x)
  BY GlobalsAfter
<1>3. ASSUME L # 1, frames # <<>>, frames' # <<>> => frames'[1] = frames[1]
      PROVE  OnceLeft(x)'
  BY <1>2, <1>3 DEF OnceLeft, DeclaresGlobal
<1>4. ASSUME frames # <<>>, Todo # <<>>, L = 1
      PROVE  /\ Todo = frames[1].work /\ Todo \in Seq(TaskType) /\ N = Todo[1].node /\ N \in Node
             /\ AtMostOne(Todo, x)
             /\ Has(1, x) => NoneOf(Todo, x)
             /\ Now.op \notin ForOp /\ 1 \in DOMAIN Todo
  <2>1. Todo = frames[1].work /\ Todo \in Seq(TaskType) /\ N = Todo[1].node /\ N \in Node
        /\ Now = Todo[1] /\ 1 \in DOMAIN Todo
    BY <1>1, <1>4, WorkOnTop
  <2>2. Now.op \notin ForOp
    <3>1. 1 \in 1..L
      BY <1>4
    <3> QED BY <1>4, <2>1, <3>1 DEF Shape
  <2> QED BY <1>4, <2>1, <2>2 DEF OnceLeft
<1>5. CASE Proceeds
  <2>1. /\ L \in Nat \ {0} /\ Len(frames') = L
        /\ \A j \in 1..L : j # L => frames'[j] = frames[j]
        /\ frames # <<>> /\ Todo # <<>>
    BY <1>1, <1>5, ProceedsFrames DEF Proceeds
  <2>2. CASE L # 1
    <3>1. 1 \in 1..L
      BY <2>1
    <3> QED BY <1>3, <2>1, <2>2, <3>1
  <2>3. CASE L = 1 /\ frames'[1].work = Todo /\ ~DeclaresGlobal(x)
    BY <1>2, <1>4, <2>1, <2>3 DEF OnceLeft
  <2>4. CASE L = 1 /\ DeclaresGlobal(x)
    <3>1. frames'[1].work = <<>> \o Tail(Todo)
      <4>1. <<>> \in Seq(TaskType) /\ FramesTyped /\ Continue(<<>>)
        BY <1>1, <2>4, EmptySeq DEF DeclaresGlobal, FramesInv
      <4> QED BY <1>4, <2>1, <2>4, <4>1, Resumed
    <3>2. N \notin Without(x)
      BY <1>4, <2>1, <2>4, WithoutTrees DEF DeclaresGlobal
    <3>3. <<>> \in Seq(TaskType) /\ AtMostOne(<<>>, x) /\ NoneOf(<<>>, x)
      BY EmptySeq DEF AtMostOne, NoneOf
    <3>4. AtMostOne(frames'[1].work, x) /\ NoneOf(frames'[1].work, x)
      BY <1>4, <2>1, <2>4, <3>1, <3>2, <3>3, OneNext
    <3> QED BY <3>4 DEF OnceLeft
  <2>5. ASSUME L = 1, ~DeclaresGlobal(x), NEW more \in Seq(Onward), Steady(more),
               frames'[1].work = more \o Tail(Todo)
        PROVE  OnceLeft(x)'
    <3>1. Onward \subseteq TaskType
      BY DEF Onward
    <3>2. more \in Seq(TaskType) /\ \A i \in DOMAIN more : more[i] \in Onward /\ more[i].node \in Node
      <4>1. more \in Seq(TaskType) /\ \A i \in DOMAIN more : more[i] \in Onward
        BY <2>5, <3>1, SeqMonotonic, LenProperties, ElementOfSeq
      <4>2. \A t \in Onward : t.node \in Node
        BY DEF Onward, TaskType
      <4> QED BY <4>1, <4>2
    <3>3. N \in Without(x) => NoneOf(more, x)
      <4>1. \A i \in DOMAIN more : more[i].node = N \/ (more[i].node \in Kids(N) /\ N.kind \notin ScopeKind)
        BY <1>4, <2>1, <2>5, <3>2 DEF Onward, ScopeKind
      <4>2. N \in Without(x) /\ N.kind \notin ScopeKind => Kids(N) \subseteq Without(x)
        BY WithoutTrees
      <4> QED BY <4>1, <4>2 DEF NoneOf
    <3>4. AtMostOne(more, x)
      <4>1. CASE N \in Without(x)
        BY <3>3, <4>1 DEF AtMostOne, NoneOf
      <4>2. CASE N \notin Without(x)
        <5>1. N.kind # "for"
          BY <1>4, <2>1, <2>5, <4>2, WithoutTrees DEF ScopeKind
        <5>2. \A n \in Node : n.kind \in ExprKind => n \in Without(x)
          BY WithoutTrees DEF ExprNodes
        <5> QED BY <2>5, <3>2, <5>1, <5>2 DEF Steady, AtMostOne
      <4> QED BY <4>1, <4>2
    <3> DEFINE new == more \o Tail(Todo)
    <3> HIDE DEF new
    <3>5. /\ AtMostOne(new, x)
          /\ NoneOf(more, x) /\ NoneOf(Todo, x) => NoneOf(new, x)
      BY <1>4, <2>1, <2>5, <3>2, <3>3, <3>4, OneNext DEF new
    <3>6. Has(1, x)' => NoneOf(Todo, x) /\ NoneOf(more, x)
      BY <1>2, <1>4, <2>1, <2>5, <3>3 DEF NoneOf
    <3>7. frames'[1].work = new
      BY <2>5 DEF new
    <3> QED BY <3>5, <3>6, <3>7 DEF OnceLeft
  <2>6. \/ frames'[L].work = Todo
        \/ \E more \in Seq(Onward) : Steady(more) /\ frames'[L].work = more \o Tail(Todo)
    BY <1>1, <1>5, ProceedsFrames
  <2> QED BY <2>2, <2>3, <2>4, <2>5, <2>6
<1>6. CASE Enters
  <2>1. /\ L \in Nat \ {0} /\ Len(frames') = L + 1
        /\ \A j \in 1..L : j # L => frames'[j] = frames[j]
        /\ frames'[L].work = Tail(Todo)
        /\ frames # <<>> /\ Todo # <<>>
    BY <1>1, <1>6, EntersFrames DEF Enters
  <2>2. CASE L # 1
    <3>1. 1 \in 1..L
      BY <2>1
    <3> QED BY <1>3, <2>1, <2>2, <3>1
  <2>3. CASE L = 1
    <3>1. <<>> \in Seq(TaskType) /\ AtMostOne(<<>>, x) /\ NoneOf(<<>>, x)
      BY EmptySeq DEF AtMostOne, NoneOf
    <3>2. Tail(Todo) \in Seq(TaskType)
      BY <1>4, <2>1, <2>3, HeadTailProperties
    <3>3. frames'[1].work = <<>> \o Tail(Todo)
      BY <2>1, <2>3, <3>2, ConcatEmptySeq
    <3>4. /\ AtMostOne(frames'[1].work, x)
          /\ NoneOf(Todo, x) => NoneOf(frames'[1].work, x)
      BY <1>4, <2>1, <2>3, <3>1, <3>3, OneNext
    <3>5. Has(1, x)' => NoneOf(Todo, x)
      <4>1. ~DeclaresGlobal(x)
        BY <1>1, <2>1, ProceedsFrames DEF DeclaresGlobal
      <4> QED BY <1>2, <1>4, <2>1, <2>3, <4>1
    <3> QED BY <3>4, <3>5 DEF OnceLeft
  <2> QED BY <2>2, <2>3
<1>7. CASE Leaves
  <2>1. /\ L \in Nat \ {0} /\ Len(frames') = L - 1 /\ frames # <<>>
        /\ \A j \in 1..(L - 1) : frames'[j] = frames[j]
    BY <1>1, <1>7, LeavesFrames DEF Leaves
  <2>2. CASE L # 1
    <3>1. 1 \in 1..(L - 1)
      BY <2>1, <2>2
    <3> QED BY <1>3, <2>1, <2>2, <3>1
  <2>3. CASE L = 1
    <3>1. frames' = <<>>
      <4>1. FramesInv'
        BY <1>1, <1>7, LeavesInv
      <4>2. frames' \in Seq(FrameType) /\ Len(frames') = 0
        BY <2>1, <2>3, <4>1 DEF FramesInv, FramesTyped
      <4> QED BY <4>2, EmptySeq
    <3> QED BY <3>1 DEF OnceLeft
  <2> QED BY <2>2, <2>3
<1>8. CASE Crashes
  BY <1>8 DEF Crashes, OnceLeft
<1> QED BY <1>5, <1>6, <1>7, <1>8, StepKinds

-----------------------------------------------------------------------------
(* The contract in a session.                                               *)

\* Names that may be held: what was known when the input under way arrived, what it has
\* declared once it was accepted, and what a rollback has made the checker forget.
Covered ==
  (IF phase \in {"precheck", "check", "bind"} THEN globalScopeSnapshot ELSE globalScope) \cup orphans

\* What is known of the statements in the pipeline.
Vouched ==
  /\ phase = "check" => CheckSees(current)
  /\ phase = "bind" => Checked(current, globalScopeSnapshot, globalScope)
  /\ phase \in Working => globalScopeSnapshot \subseteq globalScope

\* Only execute() has frames, and an exception in flight.
RunsInPhase ==
  /\ frames # <<>> => phase = "execute"
  /\ exc # "none" => phase \in {"execute", "dead"}

RunInv ==
  /\ Shape /\ ReturnsCaught /\ CallsCounted /\ NamesIn(Covered)
  /\ \A x \in Name \ orphans : OnceLeft(x)

ContractInv == MachineInv /\ Vouched /\ RunsInPhase /\ RunInv

\* While nothing is executed all of it is about what is held.
LEMMA RunAtRest ==
  ASSUME frames = <<>>, exc # "return", NamesIn(Covered)
  PROVE  RunInv
<1>1. Len(frames) = 0
  BY EmptySeq
<1> QED BY <1>1 DEF RunInv, Shape, ReturnsCaught, CallsCounted, Ordered, OnceLeft

LEMMA ContractInit == Init => ContractInv
<1> SUFFICES ASSUME Init PROVE ContractInv
  OBVIOUS
<1>1. MachineInv /\ frames = <<>> /\ exc = "none" /\ phase = "idle"
  BY MachineInit DEF Init, ExecutorInit
<1>2. NamesIn(Covered)
  <2>1. Len(frames) = 0 /\ Kids(Absent) = {}
    BY <1>1, EmptySeq, KidsOfExpressions
  <2>2. \A x \in Name : functions[x] = NoFunction /\ functions[x].decl = Absent
    BY DEF Init, ExecutorInit, NoFunction
  <2>3. \A x \in Name : ~Has(1, x)
    <3>1. envs[1].values = NoValues
      BY DEF Init, ExecutorInit
    <3> QED BY <3>1 DEF Has, NoValues
  <2> QED BY <2>1, <2>2, <2>3 DEF NamesIn
<1>3. Vouched /\ RunsInPhase
  BY <1>1 DEF Vouched, RunsInPhase, Working
<1> QED BY <1>1, <1>2, <1>3, RunAtRest DEF ContractInv

\* A step of the checker takes the snapshot as it is, and declares a name at most.
LEMMA CheckDeclares ==
  ASSUME CheckerInv, CheckerStep
  PROVE  /\ UNCHANGED globalScopeSnapshot
         /\ \/ globalScope' = globalScope
            \/ \E x \in Name : globalScope' = globalScope \cup {x}
<1>1. ASSUME NEW kinds, Visiting(kinds), kinds \subseteq {"var", "func"} PROVE Next1.node.tok \in Name
  BY <1>1, WorkType, NodeAssumption DEF Visiting, Running, CheckerInv
<1>2. CASE VisitVarDeclare
  BY <1>1, <1>2 DEF VisitVarDeclare, Declare, Throw
<1>3. CASE VisitFunction
  BY <1>1, <1>3 DEF VisitFunction
<1>4. CASE VisitChildren \/ VisitVariable \/ FinishVarDeclare \/ VisitScope \/ VisitReturn \/ EndActivation
  BY <1>4 DEF VisitChildren, VisitVariable, FinishVarDeclare, VisitScope, VisitReturn,
              EndActivation, Throw
<1> QED BY <1>2, <1>3, <1>4 DEF CheckerStep


\* What is covered stays covered: declarations are taken back only before the statement
\* is executed, or after it failed, when they become orphans.
LEMMA CoveredGrows ==
  ASSUME ContractInv, [Next]_vars
  PROVE  Covered \subseteq Covered' /\ orphans \subseteq orphans'
<1> USE DEF Covered, AfterSuccess, AfterFailure, Working, RollbackLastCheck, checkerVars, sessionVars
<1>1. CASE Input
  BY <1>1 DEF Input, ProcessLine, Precheck, LoadFile, LoadFails, InputAllowed, CheckBegin
<1>2. CASE NextStatement \/ EndOfFile
  BY <1>2 DEF NextStatement, EndOfFile, CheckBegin
<1>3. CASE Checking
  BY <1>3, CheckDeclares DEF Checking, ContractInv, MachineInv, SessionInv
<1>4. CASE PrecheckDone \/ CheckRejects
  BY <1>4 DEF PrecheckDone, CheckRejects, ContractInv, Vouched
<1>5. CASE CheckAccepts \/ Optimizing \/ OptimizeDone
  BY <1>5 DEF CheckAccepts, Optimizing, OptimizeDone, ContractInv, Vouched
<1>6. CASE Interpreting \/ ExecuteReturns \/ ExecuteThrows
  BY <1>6 DEF Interpreting, ExecuteReturns, ExecuteThrows
<1>7. CASE ProcessDies
  <2>1. exc # "return"
    <3>1. Len(frames) = 0
      BY <1>7, EmptySeq DEF ProcessDies
    <3> QED BY <3>1 DEF ContractInv, RunInv, ReturnsCaught
  <2> QED BY <1>7, <2>1 DEF ProcessDies
<1>8. CASE Stopped \/ UNCHANGED vars
  BY <1>8 DEF Stopped, vars
<1> QED BY <1>1, <1>2, <1>3, <1>4, <1>5, <1>6, <1>7, <1>8 DEF Next, Pipeline

LEMMA VouchedAtBegin ==
  ASSUME NEW stmts \in Seq(Node), CheckBegin(stmts), current' = stmts, phase' \in {"precheck", "check"}
  PROVE  Vouched'
<1>1. CheckSees(stmts)' /\ globalScopeSnapshot' = globalScope'
  BY CheckSeesBegin DEF CheckBegin
<1>2. CheckSees(current)'
  BY <1>1 DEF CheckSees
<1> QED BY <1>1, <1>2 DEF Vouched

LEMMA VouchedNext ==
  ASSUME ContractInv, [Next]_vars
  PROVE  Vouched'
<1> USE DEF AfterSuccess, AfterFailure, Working, checkerVars, sessionVars
<1>0. SessionInv /\ CheckerInv /\ Vouched
  BY DEF ContractInv, MachineInv, SessionInv
<1>1. CASE Input
  <2>1. ASSUME NEW l \in Lines, ProcessLine(l) PROVE Vouched'
    BY <2>1, VouchedAtBegin, SessionAssumption, StatementsAreNodes DEF ProcessLine
  <2>2. ASSUME NEW b \in Blocks, Precheck(b) PROVE Vouched'
    BY <2>2, VouchedAtBegin, SessionAssumption, StatementsAreNodes DEF Precheck
  <2>3. ASSUME NEW f \in Files, LoadFile(f) PROVE Vouched'
    BY <2>3 DEF LoadFile, Vouched
  <2>4. CASE LoadFails
    BY <2>4 DEF LoadFails, Vouched
  <2> QED BY <1>1, <2>1, <2>2, <2>3, <2>4 DEF Input
<1>2. CASE NextStatement
  <2>1. file.stmts \in Seq(Statements) /\ file.stmts # <<>>
    BY <1>0, <1>2 DEF NextStatement, SessionInv, ShellTypeOK, FileType
  <2>2. Head(file.stmts) \in Node
    BY <2>1, HeadTailProperties, FoldAssumption
  <2>3. PICK n \in Node : n = Head(file.stmts)
    BY <2>2
  <2>4. <<n>> \in Seq(Node)
    OBVIOUS
  <2> QED BY <1>2, <2>3, <2>4, VouchedAtBegin DEF NextStatement
<1>3. CASE Checking
  <2>1. /\ CheckerStep /\ UNCHANGED <<phase, current>>
        /\ phase \in {"precheck", "check"}
    BY <1>3 DEF Checking
  <2>2. globalScopeSnapshot' \subseteq globalScope'
    BY <1>0, <2>1, CheckDeclares DEF Vouched
  <2>3. ASSUME phase = "check" PROVE CheckSees(current)'
    <3>1. PICK stmts : stmts = current
      OBVIOUS
    <3>2. CheckSees(stmts)
      BY <1>0, <2>3, <3>1 DEF Vouched
    <3>3. CheckSees(stmts)'
      BY <1>0, <2>1, <3>2, CheckSeesStep
    <3> QED BY <2>1, <3>1, <3>3 DEF CheckSees
  <2> QED BY <2>1, <2>2, <2>3 DEF Vouched
<1>4. CASE CheckAccepts
  <2>1. Checked(current, globalScopeSnapshot, globalScope)
    BY <1>0, <1>4, CheckSeesEnd DEF CheckAccepts, Vouched
  <2>2. UNCHANGED <<current, globalScopeSnapshot, globalScope>> /\ phase' = "bind" /\ phase = "check"
    BY <1>4 DEF CheckAccepts
  <2> QED BY <1>0, <2>1, <2>2 DEF Vouched
<1>5. CASE Optimizing \/ OptimizeDone \/ Interpreting
  <2>1. /\ UNCHANGED <<globalScopeSnapshot, globalScope>> /\ phase \in Working
        /\ phase' = "execute" \/ (phase' = phase /\ current' = current /\ phase \notin {"check"})
    BY <1>5 DEF Optimizing, OptimizeDone, Interpreting
  <2> QED BY <1>0, <2>1 DEF Vouched
<1>6. CASE EndOfFile \/ PrecheckDone \/ CheckRejects \/ ExecuteReturns \/ ExecuteThrows \/ ProcessDies
  <2>1. phase' \notin Working
    BY <1>6 DEF EndOfFile, PrecheckDone, CheckRejects, ExecuteReturns, ExecuteThrows, ProcessDies
  <2> QED BY <2>1 DEF Vouched
<1>7. CASE Stopped \/ UNCHANGED vars
  <2>1. UNCHANGED <<checkerVars, sessionVars>>
    BY <1>7 DEF Stopped, vars
  <2>2. CheckSees(current) => CheckSees(current)'
    BY <2>1 DEF CheckSees, ReturnsLeft, AdmittedLeft, DefinedLeft
  <2> QED BY <1>0, <2>1, <2>2 DEF Vouched
<1> QED BY <1>1, <1>2, <1>3, <1>4, <1>5, <1>6, <1>7 DEF Next, Pipeline

LEMMA RunsInPhaseNext ==
  ASSUME ContractInv, [Next]_vars
  PROVE  RunsInPhase'
<1> USE DEF RunsInPhase, ContractInv, Working
<1>1. CASE Interpreting
  BY <1>1 DEF Interpreting, sessionVars
<1>2. CASE OptimizeDone
  BY <1>2 DEF OptimizeDone, ExecuteBegin
<1>3. CASE ShellAlone
  <2>1. /\ UNCHANGED frames
        /\ exc' = exc \/ exc' = "none"
    BY <1>3, ShellLeavesExecutor
  <2>2. phase' = phase \/ (phase # "dead" /\ (phase = "execute" => frames = <<>> /\ (exc' = "none" \/ phase' = "dead")))
    <3> USE DEF AfterSuccess, AfterFailure, InputAllowed, sessionVars, executorVars
    <3>1. CASE Input
      BY <1>3, <3>1 DEF Input, ProcessLine, Precheck, LoadFile, LoadFails
    <3>2. CASE NextStatement \/ EndOfFile \/ Checking \/ PrecheckDone \/ CheckRejects \/ CheckAccepts \/ Optimizing
      BY <3>2 DEF NextStatement, EndOfFile, Checking, PrecheckDone, CheckRejects, CheckAccepts, Optimizing
    <3>3. CASE ExecuteReturns \/ ExecuteThrows \/ ProcessDies
      BY <3>3 DEF ExecuteReturns, ExecuteThrows, ProcessDies
    <3>4. CASE Stopped \/ UNCHANGED vars
      BY <3>4 DEF Stopped, vars
    <3> QED BY <1>3, <3>1, <3>2, <3>3, <3>4 DEF ShellAlone
  <2> QED BY <2>1, <2>2
<1> QED BY <1>1, <1>2, <1>3, NextIs

\* The frame execute() starts with.
LEMMA ExecuteStarts ==
  ASSUME NEW stmts \in Seq(Statements), ExecuteBegin(Fold(stmts))
  PROVE  /\ Len(frames') = 1 /\ frames' # <<>> /\ frames'[1].kind = "execute"
         /\ DOMAIN frames'[1].work = DOMAIN stmts
         /\ \A k \in DOMAIN stmts :
              /\ stmts[k] \in Statements
              /\ frames'[1].work[k].op = "run" /\ frames'[1].work[k].node = FoldStmt[stmts[k]]
<1> DEFINE w == Tasks("run", Fold(stmts))
<1>1. frames' = <<Frame("execute", w)>>
  BY DEF ExecuteBegin
<1>2. /\ DOMAIN w = DOMAIN stmts
      /\ \A k \in DOMAIN stmts : w[k].op = "run" /\ w[k].node = FoldStmt[stmts[k]]
  BY DEF Tasks, Task, Fold
<1>3. Frame("execute", w).kind = "execute" /\ Frame("execute", w).work = w
  BY DEF Frame
<1> HIDE DEF w
<1>4. \A k \in DOMAIN stmts : stmts[k] \in Statements
  BY LenProperties, ElementOfSeq
<1> QED BY <1>1, <1>2, <1>3, <1>4

\* What the checker has vouched for holds of the folded statements the executor starts on.
LEMMA RunStarts ==
  ASSUME ContractInv, OptimizeDone
  PROVE  RunInv'
<1> DEFINE work == frames'[1].work
<1>1. /\ phase = "bind" /\ exc = "none" /\ exc' = exc /\ current \in Seq(Statements)
      /\ Checked(current, globalScopeSnapshot, globalScope)
      /\ ExecuteBegin(Fold(current))
  BY DEF OptimizeDone, ExecuteBegin, ContractInv, RunsInPhase, Vouched, MachineInv, SessionInv, ShellTypeOK
<1>2. /\ Len(frames') = 1 /\ frames' # <<>> /\ frames'[1].kind = "execute"
      /\ DOMAIN work = DOMAIN current
      /\ \A k \in DOMAIN current :
           current[k] \in Statements /\ work[k].op = "run" /\ work[k].node = FoldStmt[current[k]]
  BY <1>1, ExecuteStarts
<1>3. 1..Len(frames') = {1}
  BY <1>2
<1> HIDE DEF work
<1>4. Shape'
  BY <1>2, <1>3 DEF Shape, ForOp, work
<1>5. ReturnsCaught'
  <2>1. \A k \in DOMAIN work : work[k].node \in ReturnFree
    BY <1>1, <1>2, FoldKeepsTrees DEF Checked
  <2> QED BY <1>1, <1>3, <2>1 DEF ReturnsCaught, work
<1>6. CallsCounted'
  BY <1>2, <1>3 DEF CallsCounted, Ordered, CallsLast, Counted, work
<1>7. NamesIn(Covered)'
  <2>1. PICK K : K = Covered'
    OBVIOUS
  <2>2. globalScope \subseteq K
    BY <2>1 DEF OptimizeDone, Covered, checkerVars
  <2>3. \A k \in DOMAIN work : work[k].node \in Admitted(K)
    <3>1. \A k \in DOMAIN work : work[k].node \in Admitted(globalScope)
      BY <1>1, <1>2, FoldKeepsTrees DEF Checked
    <3> QED BY <2>2, <3>1, AdmittedTrees
  <2>4. NamesIn(K)
    <3>1. PICK H : H = Covered
      OBVIOUS
    <3>2. H \subseteq K
      BY <2>1, <3>1 DEF OptimizeDone, Covered, checkerVars, ContractInv, Vouched, Working
    <3>3. NamesIn(H)
      BY <3>1 DEF ContractInv, RunInv, NamesIn
    <3> QED BY <3>2, <3>3, NamesGrow
  <2>5. UNCHANGED <<envs, functions>>
    BY <1>1 DEF ExecuteBegin, storeVars
  <2>6. \A x \in Name :
          /\ Has(1, x)' => x \in K
          /\ functions'[x] = NoFunction \/ (functions'[x].decl.kind = "func" /\ x \in K)
          /\ Kids(functions'[x].decl) \subseteq FuncsIn(K)
    BY <2>4, <2>5 DEF NamesIn, Has
  <2>7. NamesIn(K)'
    BY <1>3, <2>3, <2>6 DEF NamesIn, work
  <2> QED BY <2>1, <2>7 DEF NamesIn
<1>8. ASSUME NEW x \in Name, x \notin orphans' PROVE OnceLeft(x)'
  <2>1. x \notin orphans /\ UNCHANGED envs
    BY <1>1, <1>8 DEF OptimizeDone, ExecuteBegin, storeVars
  <2>2. Has(1, x)' => x \in globalScopeSnapshot
    BY <1>1, <2>1 DEF Has, ContractInv, RunInv, NamesIn, Covered
  <2>3. OnceIn(current, x, x \in globalScopeSnapshot)
    BY <1>1 DEF Checked
  <2>4. \A k \in DOMAIN work : current[k] \in Without(x) => work[k].node \in Without(x)
    BY <1>2, FoldKeepsTrees
  <2>5. CASE x \in globalScopeSnapshot
    <3>1. \A k \in DOMAIN work : work[k].node \in Without(x)
      BY <1>2, <2>3, <2>4, <2>5 DEF OnceIn
    <3> QED BY <3>1 DEF OnceLeft, AtMostOne, NoneOf, work
  <2>6. CASE x \notin globalScopeSnapshot
    <3>1. \A i, j \in DOMAIN work :
            work[i].node \notin Without(x) /\ work[j].node \notin Without(x) => i = j
      BY <1>2, <2>3, <2>4, <2>6 DEF OnceIn
    <3> QED BY <2>2, <2>6, <3>1 DEF OnceLeft, AtMostOne, work
  <2> QED BY <2>5, <2>6
<1> QED BY <1>4, <1>5, <1>6, <1>7, <1>8 DEF RunInv

LEMMA RunGoesOn ==
  ASSUME ContractInv, Interpreting
  PROVE  RunInv'
<1>1. ExecutorInv /\ DistancesTyped /\ ExecutorStep
  BY DEF ContractInv, MachineInv, BindingInv, BindingTypeOK, DistancesTyped, Interpreting
<1>2. Shape /\ ReturnsCaught /\ CallsCounted
  BY DEF ContractInv, RunInv
<1>3. Shape' /\ ReturnsCaught' /\ CallsCounted'
  BY <1>1, <1>2, ShapeStep, ReturnsStep, CountedStep
<1>4. NamesIn(Covered)'
  <2>1. PICK K : K = Covered
    OBVIOUS
  <2>2. Covered' = K
    BY <2>1 DEF Covered, Interpreting, checkerVars, sessionVars
  <2>3. NamesIn(K)
    BY <2>1 DEF ContractInv, RunInv, NamesIn
  <2>4. NamesIn(K)'
    BY <1>1, <1>2, <2>3, NamesStep
  <2> QED BY <2>2, <2>4 DEF NamesIn
<1>5. ASSUME NEW x \in Name, x \notin orphans' PROVE OnceLeft(x)'
  <2>1. OnceLeft(x)
    BY <1>5 DEF Interpreting, sessionVars, ContractInv, RunInv
  <2> QED BY <1>1, <1>2, <2>1, OnceStep
<1> QED BY <1>3, <1>4, <1>5 DEF RunInv

\* What is neither frame nor memory does not matter to a run, and an exception may be cleared
\* or be a request to quit.
LEMMA RunKept ==
  ASSUME RunInv, UNCHANGED <<frames, envs, functions>>, exc' = exc \/ exc' \in {"none", "quit"},
         Covered \subseteq Covered', orphans \subseteq orphans'
  PROVE  RunInv'
<1>1. Shape'
  BY DEF RunInv, Shape
<1>2. ReturnsCaught'
  BY DEF RunInv, ReturnsCaught, Uncaught
<1>3. CallsCounted'
  BY DEF RunInv, CallsCounted, Ordered, CallsLast, Counted
<1>4. NamesIn(Covered)'
  <2>1. PICK H, K : H = Covered /\ K = Covered'
    OBVIOUS
  <2>2. NamesIn(H) /\ H \subseteq K
    BY <2>1 DEF RunInv, NamesIn
  <2>3. NamesIn(K)
    BY <2>2, NamesGrow
  <2>4. NamesIn(K)'
    BY <2>3 DEF NamesIn, Has
  <2> QED BY <2>1, <2>4 DEF NamesIn
<1>5. ASSUME NEW x \in Name, x \notin orphans' PROVE OnceLeft(x)'
  <2>1. OnceLeft(x)
    BY <1>5 DEF RunInv
  <2> QED BY <2>1 DEF OnceLeft, AtMostOne, NoneOf, Has
<1> QED BY <1>1, <1>2, <1>3, <1>4, <1>5 DEF RunInv

LEMMA RunWaits ==
  ASSUME ContractInv, ShellAlone
  PROVE  RunInv'
<1>1. UNCHANGED <<frames, envs, functions>> /\ (exc' = exc \/ exc' = "none")
  BY ShellLeavesExecutor DEF storeVars
<1>2. Covered \subseteq Covered' /\ orphans \subseteq orphans'
  BY CoveredGrows, NextIs
<1> QED BY <1>1, <1>2, RunKept DEF ContractInv

LEMMA ContractNext == ContractInv /\ [Next]_vars => ContractInv'
<1> SUFFICES ASSUME ContractInv, [Next]_vars PROVE ContractInv'
  OBVIOUS
<1>1. MachineInv'
  BY MachineNext DEF ContractInv
<1>2. RunInv'
  BY RunStarts, RunGoesOn, RunWaits, NextIs
<1> QED BY <1>1, <1>2, VouchedNext, RunsInPhaseNext DEF ContractInv

\* What checker and executor promise each other holds in every state of every session.
THEOREM ContractInvariant == Spec => []ContractInv
BY ContractInit, ContractNext, PTL DEF Spec

LEMMA ContractReturns == ContractInv => ReturnIsCaught
<1> SUFFICES ASSUME ContractInv, exc = "return" PROVE \E i \in DOMAIN frames : frames[i].kind = "call"
  BY DEF ReturnIsCaught
<1>1. \E i \in 1..Len(frames) : frames[i].kind = "call"
  BY DEF ContractInv, RunInv, ReturnsCaught
<1>2. FramesInv
  BY DEF ContractInv, MachineInv, ExecutorInv
<1>3. DOMAIN frames = 1..Len(frames)
  BY <1>2, LenProperties DEF FramesInv, FramesTyped
<1> QED BY <1>1, <1>3

\* A ReturnException never leaves execute(), whatever the program: the check lets a return
\* through only in a function, folding moves none out of one, and a function's statements
\* come onto the stack above the frame of a call.
THEOREM ReturnsAreCaught == Spec => []ReturnIsCaught
BY ContractReturns, ContractInvariant, PTL

LEMMA ContractHeld == ContractInv => HeldNamesAreKnown
<1> SUFFICES ASSUME ContractInv, NEW x \in Name, Has(1, x) \/ IsFunction(x)
             PROVE  x \in globalScope \cup orphans
  BY DEF HeldNamesAreKnown, Held
<1>1. x \in Covered
  BY DEF ContractInv, RunInv, NamesIn, IsFunction
<1> QED BY <1>1 DEF Covered, ContractInv, Vouched, Working

\* Every name that the executor holds globally is one the checker knows as declared, unless
\* a rollback took it back: no variable and no function comes into being behind its back.
THEOREM HeldNamesKnown == Spec => []HeldNamesAreKnown
BY ContractHeld, ContractInvariant, PTL

LEMMA ContractGlobals == ContractInv => GlobalsDefinedOnce
<1> SUFFICES ASSUME ContractInv, AboutToDefine, env = 1, Has(1, N.tok), N.tok \notin orphans
             PROVE  FALSE
  BY DEF GlobalsDefinedOnce
<1>1. N.kind = "var" /\ frames # <<>> /\ Todo # <<>> /\ exc = "none"
  BY DEF AboutToDefine, Accepting, After, At, Executing
<1>2. FramesInv
  BY <1>1 DEF ContractInv, MachineInv, ExecutorInv
<1>3. /\ Todo = frames[Len(frames)].work /\ 1 \in DOMAIN Todo /\ N = Todo[1].node /\ N \in Node
      /\ Len(frames) = 1
  BY <1>1, <1>2, WorkOnTop DEF FramesInv, Aligned
<1>4. N.tok \in Name
  BY <1>1, <1>3, NodeAssumption
<1>5. N \in Without(N.tok)
  BY SMTT(60), <1>1, <1>3, <1>4 DEF ContractInv, RunInv, OnceLeft, NoneOf
<1> QED BY <1>1, <1>5, WithoutTrees

\* A declaration that is about to create a global variable finds none of that name, unless
\* a rollback took the name back: check and execution agree on what a second one is.
THEOREM GlobalsOnce == Spec => []GlobalsDefinedOnce
BY ContractGlobals, ContractInvariant, PTL

LEMMA ContractCalls == ContractInv => CallRunsCheckedDecl
<1> SUFFICES ASSUME ContractInv, At("enter"), functions[Callee(N).tok].closure # Dangling
             PROVE  functions[Callee(N).tok].decl = Now.decl
  BY DEF CallRunsCheckedDecl
<1> DEFINE x == Callee(N).tok
           L == Len(frames)
<1>1. frames # <<>> /\ Todo # <<>> /\ exc = "none" /\ Now.op = "enter"
  BY DEF At, Executing
<1>2. FramesInv
  BY <1>1 DEF ContractInv, MachineInv, ExecutorInv
<1>3. /\ L \in Nat \ {0} /\ Todo = frames[L].work /\ 1 \in DOMAIN Todo /\ Now = Todo[1] /\ N = Todo[1].node
      /\ Now \in TaskType
  BY <1>1, <1>2, WorkOnTop
<1>4. Counted(Now, L)
  <2>1. L \in 1..L
    BY <1>3
  <2> QED BY <1>3, <2>1 DEF ContractInv, RunInv, CallsCounted
<1>5. x \in Name
  BY <1>1, <1>3, CalleeIsNamed DEF CallOp
<1>6. functions[x].closure \in 0..Len(envs) /\ Len(envs) = L
  BY SMTT(60), <1>1, <1>2, <1>5 DEF FramesInv, MemoryTyped, ClosuresAlive, Aligned
<1>7. ~(functions[x].closure > L)
  BY <1>3, <1>6
<1> QED BY <1>1, <1>3, <1>4, <1>7 DEF Counted

\* A call that enters a function enters the one its arguments were counted for, unless the
\* environment of a later declaration is gone: what an argument declares anew is declared
\* in an environment above, and is gone with it.
THEOREM CallsRunCheckedDecl == Spec => []CallRunsCheckedDecl
BY ContractCalls, ContractInvariant, PTL

-----------------------------------------------------------------------------
(* The session keeps the promise of Ledger.                                 *)

Settled == globalScope \ Provisional

\* A step of the executor makes one name held at most, and lets go of none.
LEMMA HeldAfter ==
  ASSUME ContractInv, Interpreting
  PROVE  Held' = Held \/ \E x \in Name : Held' = Held \cup {x} /\ x \in globalScope \cup orphans
<1>1. ExecutorInv /\ DistancesTyped /\ ExecutorStep
  BY DEF ContractInv, MachineInv, BindingInv, BindingTypeOK, DistancesTyped, Interpreting
<1>2. Held \subseteq Held'
  <2> SUFFICES ASSUME NEW x \in Name, Has(1, x) \/ IsFunction(x) PROVE Has(1, x)' \/ IsFunction(x)'
    BY DEF Held
  <2>1. CASE Has(1, x)
    BY <1>1, <2>1, GlobalsAfter
  <2>2. CASE IsFunction(x)
    <3>1. functions[x].decl.kind = "func"
      BY <2>2 DEF ContractInv, RunInv, NamesIn, IsFunction
    <3>2. Absent.kind # "func" /\ NoFunction.decl = Absent
      BY DEF Absent, MkNode, NoFunction
    <3>3. CASE functions'[x] = functions[x]
      BY <2>2, <3>3 DEF IsFunction
    <3>4. CASE functions'[x] = [decl |-> functions[x].decl, closure |-> Dangling]
      BY <3>1, <3>2, <3>4 DEF IsFunction
    <3>5. CASE N.kind = "func" /\ functions'[x] = [decl |-> N, closure |-> env]
      BY <3>2, <3>5 DEF IsFunction
    <3> QED BY <1>1, <3>3, <3>4, <3>5, FunctionsAfter
  <2> QED BY <2>1, <2>2
<1>3. \A x \in Held' : x \in Held \/ x = N.tok
  <2> SUFFICES ASSUME NEW x \in Name, Has(1, x)' \/ IsFunction(x)', ~Has(1, x), ~IsFunction(x)
               PROVE  x = N.tok
    BY DEF Held
  <2>1. CASE Has(1, x)'
    BY <1>1, <2>1, GlobalsAfter DEF DeclaresGlobal
  <2>2. CASE IsFunction(x)'
    <3>1. functions[x].closure = 0 /\ functions'[x] # functions[x]
      BY <2>2 DEF IsFunction, NoFunction, Dangling
    <3> QED BY <1>1, <3>1, FunctionsAfter
  <2> QED BY <2>1, <2>2
<1>4. Held' \subseteq globalScope \cup orphans /\ Held' \subseteq Name
  <2>1. RunInv'
    BY RunGoesOn
  <2>2. Held' \subseteq Covered'
    BY <2>1 DEF RunInv, NamesIn, Held, IsFunction
  <2>3. Covered' = globalScope \cup orphans
    BY DEF Interpreting, Covered, checkerVars, sessionVars
  <2>4. Held' \subseteq Name
    BY DEF Held
  <2> QED BY <2>2, <2>3, <2>4
<1>5. CASE N.tok \in Held'
  BY <1>2, <1>3, <1>4, <1>5
<1>6. CASE N.tok \notin Held'
  BY <1>2, <1>3, <1>6
<1> QED BY <1>5, <1>6

LEMMA HeldKept ==
  ASSUME UNCHANGED <<envs, functions>>
  PROVE  Held' = Held
BY DEF Held, Has, IsFunction

\* Every step of a session is a step of Ledger, or changes nothing of what Ledger is about.
LEMMA LedgerStep ==
  ASSUME ContractInv, [Next]_vars
  PROVE  Ledger!Next \/ UNCHANGED Ledger!vars
<1> DEFINE trial == phase = "precheck"
<1> USE DEF AfterSuccess, AfterFailure, RollbackLastCheck, checkerVars, sessionVars, executorVars, storeVars
<1>1. /\ Settled = IF phase \in Working THEN globalScopeSnapshot ELSE globalScope
      /\ Provisional = IF phase \in Working THEN globalScope \ globalScopeSnapshot ELSE {}
  BY DEF ContractInv, Vouched, Settled, Provisional
<1>2. /\ Settled' = IF phase' \in Working THEN globalScopeSnapshot' ELSE globalScope'
      /\ Provisional' = IF phase' \in Working THEN globalScope' \ globalScopeSnapshot' ELSE {}
  BY VouchedNext DEF Vouched, Settled, Provisional, Working
<1>3. ASSUME UNCHANGED <<Settled, Provisional, Held, orphans, trial>>
      PROVE  UNCHANGED Ledger!vars
  BY <1>3 DEF Ledger!vars, Settled
<1>4. ASSUME Provisional = {}, trial' = TRUE, UNCHANGED <<Settled, Provisional, Held, orphans>>
      PROVE  Ledger!Next
  BY <1>4 DEF Ledger!Next, Ledger!Try, Settled
<1>5. ASSUME NEW x \in Name, Provisional' = Provisional \cup {x}, UNCHANGED <<Settled, Held, orphans, trial>>
      PROVE  Ledger!Next
  BY <1>5 DEF Ledger!Next, Ledger!Declare, Settled
<1>6. ASSUME NEW x \in Name, ~trial, x \in Settled \cup Provisional \cup orphans,
             Held' = Held \cup {x}, UNCHANGED <<Settled, Provisional, orphans, trial>>
      PROVE  Ledger!Next
  BY <1>6 DEF Ledger!Next, Ledger!Create, Settled
<1>7. ASSUME ~trial, Settled' = Settled \cup Provisional, Provisional' = {},
             UNCHANGED <<Held, orphans, trial>>
      PROVE  Ledger!Next
  BY <1>7 DEF Ledger!Next, Ledger!Keep, Settled
<1>8. ASSUME Provisional' = {}, trial' = FALSE, UNCHANGED <<Settled, Held, orphans>>
      PROVE  Ledger!Next
  BY <1>8 DEF Ledger!Next, Ledger!Refuse, Settled
<1>9. ASSUME ~trial, orphans' = orphans \cup Provisional, Provisional' = {},
             UNCHANGED <<Settled, Held, trial>>
      PROVE  Ledger!Next
  BY <1>9 DEF Ledger!Next, Ledger!Abandon, Settled
<1>10. globalScopeSnapshot \subseteq globalScope \/ phase \notin Working
  BY DEF ContractInv, Vouched
<1>11. CASE Input
  <2>1. Held' = Held /\ orphans' = orphans /\ phase = "idle" /\ globalScope' = globalScope
    BY <1>11, HeldKept DEF Input, ProcessLine, Precheck, LoadFile, LoadFails, InputAllowed, CheckBegin
  <2>2. \/ phase' \in {"check", "precheck"} /\ globalScopeSnapshot' = globalScope
        \/ phase' \in {"next", "failed"}
    BY <1>11 DEF Input, ProcessLine, Precheck, LoadFile, LoadFails, CheckBegin
  <2>3. UNCHANGED <<Settled, Provisional>> /\ Provisional = {}
    BY <1>1, <1>2, <2>1, <2>2 DEF Working
  <2> QED BY <1>3, <1>4, <2>1, <2>2, <2>3
<1>12. CASE NextStatement \/ EndOfFile
  <2>1. /\ Held' = Held /\ orphans' = orphans /\ phase = "next" /\ globalScope' = globalScope
        /\ \/ phase' = "check" /\ globalScopeSnapshot' = globalScope
           \/ phase' \in {"ok", "failed"}
    BY <1>12, HeldKept DEF NextStatement, EndOfFile, CheckBegin
  <2>2. UNCHANGED <<Settled, Provisional>>
    BY <1>1, <1>2, <2>1 DEF Working
  <2> QED BY <1>3, <2>1, <2>2
<1>13. CASE Checking
  <2>1. /\ Held' = Held /\ orphans' = orphans /\ phase' = phase /\ phase \in {"check", "precheck"}
        /\ globalScopeSnapshot' = globalScopeSnapshot
        /\ globalScope' = globalScope \/ \E x \in Name : globalScope' = globalScope \cup {x}
    BY <1>13, CheckDeclares, HeldKept DEF Checking, ContractInv, MachineInv, SessionInv
  <2>2. Settled' = Settled /\ phase \in Working
    BY <1>1, <1>2, <2>1 DEF Working
  <2>3. CASE globalScope' = globalScope
    BY <1>1, <1>2, <1>3, <2>1, <2>2, <2>3
  <2>4. ASSUME NEW x \in Name, globalScope' = globalScope \cup {x}
        PROVE  Ledger!Next \/ UNCHANGED Ledger!vars
    <3>1. CASE x \in globalScopeSnapshot
      BY <1>1, <1>2, <1>3, <2>1, <2>2, <2>4, <3>1
    <3>2. CASE x \notin globalScopeSnapshot
      <4>1. Provisional' = Provisional \cup {x}
        BY <1>1, <1>2, <2>1, <2>2, <2>4, <3>2
      <4> QED BY <1>5, <2>1, <2>2, <4>1
    <3> QED BY <3>1, <3>2
  <2> QED BY <2>1, <2>3, <2>4
<1>14. CASE PrecheckDone
  <2>1. Held' = Held /\ orphans' = orphans /\ phase = "precheck" /\ phase' = "idle"
        /\ globalScope' = globalScopeSnapshot
    BY <1>14, HeldKept DEF PrecheckDone
  <2> QED BY <1>1, <1>2, <1>8, <2>1 DEF Working
<1>15. CASE CheckRejects
  <2>1. /\ Held' = Held /\ orphans' = orphans /\ phase = "check" /\ phase' \in {"idle", "failed"}
        /\ globalScope' = globalScopeSnapshot \/ globalScope' = globalScope
    BY <1>15, HeldKept DEF CheckRejects
  <2>2. CASE globalScope' = globalScopeSnapshot
    BY <1>1, <1>2, <1>8, <2>1, <2>2 DEF Working
  <2>3. CASE globalScope' = globalScope
    <3>1. Settled' = Settled \cup Provisional /\ Provisional' = {}
      BY <1>1, <1>2, <1>10, <2>1, <2>3 DEF Working
    <3> QED BY <1>7, <2>1, <3>1
  <2> QED BY <2>1, <2>2, <2>3
<1>16. CASE CheckAccepts \/ Optimizing \/ OptimizeDone
  <2>1. /\ Held' = Held /\ orphans' = orphans /\ phase \in {"check", "bind"} /\ phase' \in {"bind", "execute"}
        /\ UNCHANGED <<globalScope, globalScopeSnapshot>>
    BY <1>16, HeldKept DEF CheckAccepts, Optimizing, OptimizeDone, ExecuteBegin
  <2> QED BY <1>1, <1>2, <1>3, <2>1 DEF Working
<1>17. CASE Interpreting
  <2>1. /\ orphans' = orphans /\ phase = "execute" /\ phase' = phase
        /\ UNCHANGED <<globalScope, globalScopeSnapshot>>
    BY <1>17 DEF Interpreting
  <2>2. UNCHANGED <<Settled, Provisional, trial>> /\ Settled \cup Provisional = globalScope /\ ~trial
    BY <1>1, <1>2, <1>10, <2>1 DEF Working
  <2> QED BY <1>3, <1>6, <1>17, <2>1, <2>2, HeldAfter
<1>18. CASE ExecuteReturns \/ ProcessDies
  <2>1. /\ Held' = Held /\ orphans' = orphans /\ phase = "execute" /\ phase' \in {"idle", "next", "dead"}
        /\ globalScope' = globalScope
    <3>1. exc # "return" \/ frames # <<>>
      <4>1. frames = <<>> => Len(frames) = 0
        BY EmptySeq
      <4> QED BY <4>1 DEF ContractInv, RunInv, ReturnsCaught
    <3> QED BY <1>18, <3>1, HeldKept DEF ExecuteReturns, ProcessDies
  <2>2. Settled' = Settled \cup Provisional /\ Provisional' = {}
    BY <1>1, <1>2, <1>10, <2>1 DEF Working
  <2> QED BY <1>7, <2>1, <2>2
<1>19. CASE ExecuteThrows
  <2>1. /\ Held' = Held /\ orphans' = orphans \cup (globalScope \ globalScopeSnapshot)
        /\ phase = "execute" /\ phase' \in {"idle", "failed"} /\ globalScope' = globalScopeSnapshot
    BY <1>19, HeldKept DEF ExecuteThrows
  <2> QED BY <1>1, <1>2, <1>9, <2>1 DEF Working
<1>20. CASE Stopped \/ UNCHANGED vars
  <2>1. /\ Held' = Held /\ UNCHANGED <<orphans, phase, globalScope, globalScopeSnapshot>>
    BY <1>20, HeldKept DEF Stopped, vars
  <2> QED BY <1>1, <1>2, <1>3, <2>1
<1> QED BY <1>11, <1>12, <1>13, <1>14, <1>15, <1>16, <1>17, <1>18, <1>19, <1>20 DEF Next, Pipeline

LEMMA LedgerInit == Init => Ledger!Init
<1> SUFFICES ASSUME Init PROVE Ledger!Init
  OBVIOUS
<1>1. globalScope = {} /\ phase = "idle" /\ orphans = {}
  BY DEF Init, CheckerInit
<1>2. envs[1].values = NoValues /\ \A x \in Name : functions[x] = NoFunction
  BY DEF Init, ExecutorInit
<1>3. Held = {}
  BY <1>2 DEF Held, Has, IsFunction, NoValues
<1> QED BY <1>1, <1>3 DEF Ledger!Init, Provisional, Working

\* The shell, checker, optimizers and executor together implement Ledger: names become known
\* in batches that are kept or dropped as a whole, a pre-check leaves no trace, and nothing
\* comes into being that was not declared.
THEOREM SessionImplementsLedger == Spec => LedgerSpec
<1>1. ContractInv /\ [Next]_vars => [Ledger!Next]_(Ledger!vars)
  BY LedgerStep
<1> QED BY <1>1, LedgerInit, ContractInvariant, PTL DEF Spec, LedgerSpec, Ledger!Spec

-----------------------------------------------------------------------------
(* The value stack in a session.                                            *)

\* What is parsed and not executed yet is a sequence of statements.
Parsed == {n \in Statements : n.kind \in StmtKind}
ProgramsParsed ==
  /\ phase \in {"precheck", "check", "bind"} => current \in Seq(Parsed)
  /\ file.stmts \in Seq(Parsed)

\* The optimizer works between the check and the execution of a line.
BindInPhase == phase # "bind" => binding = <<>>

RestInv == ContractInv /\ ProgramsParsed /\ BindInPhase /\ ValuesInv

LEMMA RestInit == Init => RestInv
<1> SUFFICES ASSUME Init PROVE RestInv
  OBVIOUS
<1>1. <<>> \in Seq(Parsed)
  BY EmptySeq
<1>2. ProgramsParsed
  BY <1>1 DEF Init, ProgramsParsed
<1>3. BindInPhase
  BY DEF Init, BindingInit, BindInPhase
<1> QED BY <1>2, <1>3, ContractInit, ExecutorInitValues DEF RestInv, Init

LEMMA ProgramsNext ==
  ASSUME ContractInv, ProgramsParsed, [Next]_vars
  PROVE  ProgramsParsed'
<1> USE DEF ProgramsParsed, AfterSuccess, AfterFailure, sessionVars
<1>1. CASE Input
  <2>1. ASSUME NEW l \in Lines, ProcessLine(l) PROVE ProgramsParsed'
    BY <2>1, ProgramAssumption DEF ProcessLine, Parsed
  <2>2. ASSUME NEW b \in Blocks, Precheck(b) PROVE ProgramsParsed'
    BY <2>2, ProgramAssumption DEF Precheck, Parsed
  <2>3. ASSUME NEW f \in Files, LoadFile(f) PROVE ProgramsParsed'
    <3>1. f.stmts \in Seq(Parsed)
      BY ProgramAssumption DEF Parsed
    <3> QED BY <2>3, <3>1 DEF LoadFile
  <2>4. CASE LoadFails
    BY <2>4 DEF LoadFails
  <2> QED BY <1>1, <2>1, <2>2, <2>3, <2>4 DEF Input
<1>2. CASE NextStatement
  <2>1. file.stmts \in Seq(Parsed) /\ file.stmts # <<>> /\ file \in FileType
    BY <1>2 DEF NextStatement, ContractInv, MachineInv, SessionInv, ShellTypeOK
  <2>2. Head(file.stmts) \in Parsed /\ Tail(file.stmts) \in Seq(Parsed)
    BY <2>1, HeadTailProperties
  <2>3. PICK n \in Parsed : n = Head(file.stmts)
    BY <2>2
  <2>4. <<n>> \in Seq(Parsed)
    OBVIOUS
  <2>5. file'.stmts = Tail(file.stmts)
    BY <1>2, <2>1 DEF NextStatement, FileType
  <2> QED BY <1>2, <2>2, <2>3, <2>4, <2>5 DEF NextStatement
<1>3. CASE EndOfFile \/ Checking \/ PrecheckDone \/ CheckRejects \/ CheckAccepts \/ Optimizing
  BY <1>3 DEF EndOfFile, Checking, PrecheckDone, CheckRejects, CheckAccepts, Optimizing
<1>4. CASE OptimizeDone \/ Interpreting \/ ExecuteReturns \/ ExecuteThrows \/ ProcessDies
  BY <1>4 DEF OptimizeDone, Interpreting, ExecuteReturns, ExecuteThrows, ProcessDies
<1>5. CASE Stopped \/ UNCHANGED vars
  BY <1>5 DEF Stopped, vars
<1> QED BY <1>1, <1>2, <1>3, <1>4, <1>5 DEF Next, Pipeline

LEMMA BindInPhaseNext ==
  ASSUME BindInPhase, [Next]_vars
  PROVE  BindInPhase'
<1> USE DEF BindInPhase, AfterSuccess, AfterFailure, sessionVars, bindingVars
<1>1. CASE Input
  BY <1>1 DEF Input, ProcessLine, Precheck, LoadFile, LoadFails, InputAllowed
<1>2. CASE NextStatement \/ EndOfFile \/ Checking \/ PrecheckDone \/ CheckRejects \/ CheckAccepts
  BY <1>2 DEF NextStatement, EndOfFile, Checking, PrecheckDone, CheckRejects, CheckAccepts
<1>3. CASE Optimizing \/ OptimizeDone \/ Interpreting \/ ExecuteReturns \/ ExecuteThrows \/ ProcessDies
  BY <1>3 DEF Optimizing, OptimizeDone, Interpreting, ExecuteReturns, ExecuteThrows, ProcessDies
<1>4. CASE Stopped \/ UNCHANGED vars
  BY <1>4 DEF Stopped, vars
<1> QED BY <1>1, <1>2, <1>3, <1>4 DEF Next, Pipeline

\* Folding makes a statement of a statement.
LEMMA FoldKeepsKind ==
  ASSUME NEW n \in Parsed
  PROVE  FoldStmt[n].kind \in StmtKind
<1>1. n \in Statements /\ n \in Node /\ n.kind \in StmtKind
  BY FoldAssumption DEF Parsed
<1>2. DOMAIN n = {"kind", "tok", "val", "line", "kids", "params"}
  BY <1>1, NodeAssumption
<1>3. FoldStmt[n] = FoldBody(FoldStmt, n)
  BY <1>1, FoldStmtUnfolds
<1> QED BY <1>1, <1>2, <1>3 DEF FoldBody

\* An exception that is cleared has left execute().
LEMMA ValuesKept ==
  ASSUME ValuesInv, UNCHANGED <<frames, vals, storeVars>>,
         exc' = exc \/ (exc # "crash" /\ (exc' = "quit" \/ (exc' = "none" /\ frames = <<>>)))
  PROVE  ValuesInv'
<1>1. CheckedElements' = CheckedElements
  BY DEF CheckedElements, FromBottom, InRange, storeVars
<1>2. DeclsAreFunctions'
  BY DEF ValuesInv, DeclsAreFunctions, storeVars
<1>3. PICK E, m : E = CheckedElements /\ m = Len(vals)
  OBVIOUS
<1>4. /\ frames = <<>> /\ exc # "crash" => vals = <<>>
      /\ frames # <<>> /\ exc \in {"none", "return"} => Balanced(frames, m, E, exc)
  BY <1>3 DEF ValuesInv
<1> QED BY <1>1, <1>2, <1>3, <1>4 DEF ValuesInv

LEMMA ValuesNext ==
  ASSUME RestInv, [Next]_vars
  PROVE  ValuesInv'
<1>1. MachineInv /\ ValuesInv /\ RunsInPhase
  BY DEF RestInv, ContractInv
<1>2. CASE Interpreting
  <2>1. ExecutorInv /\ DistancesTyped /\ ExecutorStep
    BY <1>1, <1>2 DEF MachineInv, BindingInv, BindingTypeOK, DistancesTyped, Interpreting
  <2> QED BY <1>1, <2>1, ExecutorStepValues
<1>3. CASE OptimizeDone
  <2>1. FramesInv /\ exc = "none" /\ current \in Seq(Parsed) /\ ExecuteBegin(Fold(current))
    BY <1>1, <1>3 DEF OptimizeDone, MachineInv, ExecutorInv, RunsInPhase, RestInv, ProgramsParsed
  <2>2. Fold(current) \in Seq(Node)
    BY <1>1, <1>3, FoldType DEF OptimizeDone, MachineInv, SessionInv, ShellTypeOK
  <2>3. \A i \in 1..Len(Fold(current)) : Fold(current)[i].kind \in StmtKind
    <3>1. \A i \in 1..Len(current) : current[i] \in Parsed
      BY <2>1, ElementOfSeq
    <3>2. DOMAIN Fold(current) = 1..Len(current)
      BY <2>1, LenProperties DEF Fold
    <3>3. 1..Len(Fold(current)) = 1..Len(current)
      BY <2>2, <3>2, LenProperties
    <3>4. \A i \in 1..Len(current) : Fold(current)[i] = FoldStmt[current[i]]
      BY <3>2 DEF Fold
    <3> QED BY <3>1, <3>3, <3>4, FoldKeepsKind
  <2>4. PICK stmts \in Seq(Node) : stmts = Fold(current)
    BY <2>2
  <2> QED BY <1>1, <2>1, <2>3, <2>4, ExecuteBeginValues
<1>4. CASE ShellAlone
  <2>1. /\ UNCHANGED <<frames, vals, storeVars>>
        /\ exc' = exc \/ (exc \in {"error", "unlocated"} /\ exc' = "none" /\ phase = "execute")
    BY <1>4, ShellLeavesExecutor
  <2>2. exc' # exc => frames = <<>>
    <3>1. ASSUME exc' # exc PROVE ExecuteThrows
      BY <1>4, <3>1 DEF ShellAlone, Input, ProcessLine, Precheck, LoadFile, LoadFails, NextStatement,
         EndOfFile, Checking, PrecheckDone, CheckRejects, CheckAccepts, Optimizing, ExecuteReturns,
         ProcessDies, Stopped, vars, executorVars
    <3> QED BY <3>1 DEF ExecuteThrows
  <2> QED BY <1>1, <2>1, <2>2, ValuesKept
<1> QED BY <1>2, <1>3, <1>4, NextIs

LEMMA RestNext == RestInv /\ [Next]_vars => RestInv'
BY ContractNext, ProgramsNext, BindInPhaseNext, ValuesNext DEF RestInv

THEOREM RestInvariant == Spec => []RestInv
BY RestInit, RestNext, PTL DEF Spec

LEMMA RestIsClean == RestInv => IdleIsClean
<1> SUFFICES ASSUME RestInv, phase \in {"idle", "next"}
    PROVE /\ checking = <<>> /\ scopes = <<>> /\ functionDepth = 0 /\ ~strictGlobalCheck
          /\ binding = <<>>
          /\ frames = <<>> /\ vals = <<>> /\ exc = "none"
          /\ Len(envs) = 1 /\ env = 1 /\ execDepth = 0
  BY DEF IdleIsClean
<1>1. CheckerInv /\ checking = <<>> /\ ~strictGlobalCheck
  BY DEF RestInv, ContractInv, MachineInv, SessionInv, CheckerInPhase
<1>2. scopes = <<>>
  <2>1. scopes \in Seq([Name -> NameState]) /\ Len(scopes) = 0
    BY <1>1 DEF CheckerInv, CheckerTypeOK, CheckerStacksAgree
  <2> QED BY <2>1, EmptySeq
<1>3. functionDepth = 0
  <2>1. FunctionsOpen = {}
    BY <1>1 DEF FunctionsOpen
  <2> QED BY <1>1, <2>1, FS_EmptySet DEF CheckerInv, CheckerStacksAgree
<1>4. binding = <<>> /\ frames = <<>> /\ exc = "none" /\ vals = <<>>
  BY DEF RestInv, BindInPhase, ContractInv, RunsInPhase, ValuesInv
<1>5. Len(envs) = 1 /\ env = 1 /\ execDepth = 0
  <2>1. FramesInv
    BY <1>4 DEF RestInv, ContractInv, MachineInv, ExecutorInv
  <2>2. Len(envs) = 1 /\ env = Len(envs) /\ execDepth = Len(envs) - 1
    BY <1>4, <2>1 DEF FramesInv, Aligned
  <2> QED BY <2>2
<1> QED BY <1>1, <1>2, <1>3, <1>4, <1>5

\* Whichever way a line, a block or a statement of a file ended - checked only, refused,
\* executed, failed in the middle of an expression, a loop or a call - nothing of it is left
\* in checker, optimizer and executor when the next one is read.
THEOREM NothingIsLeft == Spec => []IdleIsClean
BY RestIsClean, RestInvariant, PTL

LEMMA RestStores == RestInv => StoreInBounds
<1> SUFFICES ASSUME RestInv, After("indexAssign")
    PROVE vals[2].n \in 0..(Len(arrays[vals[3].n]) - 1)
  BY DEF StoreInBounds
<1>1. Executing /\ Todo # <<>> /\ Now.op = "after" /\ N.kind = "indexAssign"
  BY DEF After, At
<1>2. Stores(Now)
  BY <1>1 DEF Stores, N
<1>3. FramesInv /\ ValuesInv
  BY <1>1 DEF RestInv, ContractInv, MachineInv, ExecutorInv, Executing
<1>4. Len(vals) \in Nat /\ Len(vals) - 1 \in CheckedElements
  BY <1>1, <1>2, <1>3, AtLevel
<1>5. InRange(vals[2], vals[3])
  BY <1>4 DEF CheckedElements, FromBottom
<1> QED BY <1>5 DEF InRange

\* An element that is written is still there: visitIndexAssignExpr found the index in range
\* before it evaluated the value, and nothing that evaluation does shortens an array or
\* reaches what was found.
THEOREM StoresInBounds == Spec => []StoreInBounds
BY RestStores, RestInvariant, PTL

-----------------------------------------------------------------------------
(* The debugger.  What a session keeps true of checker and executor it      *)
(* keeps true under the debugger, for every sequence of commands; and what  *)
(* this says of "next" and of the ways out of runDebug.                     *)

\* The debugger changes nothing the invariant is about, and leaving it by quit ends the
\* session without a word to the checker.
LEMMA DebuggerStepInv ==
  ASSUME SessionInv, Debugging \/ ExecuteQuits
  PROVE  SessionInv'
<1>1. UNCHANGED checkerVars /\ UNCHANGED <<mode, current, file>>
  BY DEF Debugging, ExecuteQuits, sessionVars
<1>2. phase' = phase \/ (phase = "execute" /\ phase' = "ok")
  BY DEF Debugging, ExecuteQuits, sessionVars
<1>3. CheckerInv'
  BY <1>1, CheckerKept DEF checkerVars, SessionInv, CheckerInv, CheckerTypeOK
<1>4. ShellTypeOK' /\ CheckerInPhase'
  BY <1>1, <1>2 DEF checkerVars, SessionInv, ShellTypeOK, CheckerInPhase, Phase
<1> QED BY <1>3, <1>4 DEF SessionInv

\* In debug mode as well, scopes_ and functionDepth_ agree with the visitors that are
\* running, whatever commands are given and wherever the user quits.
THEOREM DebugStacksAgree == DebugSpec => []CheckerStacksAgree
<1>1. DebugInit => SessionInv
  BY SessionInit DEF DebugInit
<1>2. SessionInv /\ [DebugNext]_debugSessionVars => SessionInv'
  <2> SUFFICES ASSUME SessionInv, [DebugNext]_debugSessionVars PROVE SessionInv'
    OBVIOUS
  <2>1. CASE Next \/ UNCHANGED vars
    BY <2>1, SessionNext
  <2>2. CASE Debugging \/ ExecuteQuits
    BY <2>2, DebuggerStepInv
  <2>3. UNCHANGED debugSessionVars => UNCHANGED vars
    BY DEF debugSessionVars
  <2> QED BY <2>1, <2>2, <2>3 DEF DebugNext
<1>3. SessionInv => CheckerStacksAgree
  BY DEF SessionInv, CheckerInv
<1> QED BY <1>1, <1>2, <1>3, PTL DEF DebugSpec

-----------------------------------------------------------------------------
(* The executor under the debugger.  beforeStatement is called by a visitor *)
(* that has a frame, and "next" remembers a depth that says how many        *)
(* environments there were: as long as the last of them is still there, an  *)
(* equal depth is the same environment.                                     *)

StopInv ==
  /\ notified # Absent => frames # <<>> /\ exc # "crash"
  /\ inLoop => notified # Absent
  /\ stepMode = "next" => nextDepth = nextEnvs - 1
  /\ nextEnvs \in Nat

DebugMachineInv == MachineInv /\ StopInv

\* Only run() calls the observer, and the executor does nothing until it returns.
LEMMA OnlyRunNotifies ==
  ASSUME ExecutorStep
  PROVE  notified = Absent /\ (notified' = Absent \/ Run)
BY DEF ExecutorStep, Run, VisitLiteralExpr, VisitVariableExpr, EvaluateFirst,
       AssignValue, VisitBinaryExpr, UnaryValue, LogicalValue, VisitGroupingExpr,
       VisitIndexed, RequireArray, RequireIndex, StoreElement, PrintValue,
       VisitExpressionStmt, VisitVarDeclareStmt, VisitBlockStmt, ChooseBranch,
       VisitForStmt, ForLoop, ForTest, ForIncrement, VisitFunctionStmt, VisitReturnStmt,
       VisitCallExpr, CallFunction, CallDangling, AllocateArray, EndFrame, Unwind,
       EnterCall, Raise, At, Accepting, After, Executing, debugVars

\* And none of the visitors touches observer_.
LEMMA ObserverStays == ExecutorStep => UNCHANGED observer
BY DEF ExecutorStep, Run, VisitLiteralExpr, VisitVariableExpr, EvaluateFirst,
       AssignValue, VisitBinaryExpr, UnaryValue, LogicalValue, VisitGroupingExpr,
       VisitIndexed, RequireArray, RequireIndex, StoreElement, PrintValue,
       VisitExpressionStmt, VisitVarDeclareStmt, VisitBlockStmt, ChooseBranch,
       VisitForStmt, ForLoop, ForTest, ForIncrement, VisitFunctionStmt, VisitReturnStmt,
       VisitCallExpr, CallFunction, CallDangling, AllocateArray, EndFrame, Unwind,
       EnterCall, Raise, debugVars

LEMMA RunKeepsItsFrame ==
  ASSUME ExecutorInv, Run
  PROVE  frames' # <<>> /\ exc' # "crash"
<1>1. FramesInv /\ frames # <<>> /\ Todo # <<>> /\ exc = "none" /\ exc' = exc
  BY DEF ExecutorInv, Run, At, Executing
<1>2. <<Task("accept", N)>> \in Seq(TaskType)
  BY <1>1, WorkAtHand, TaskIsTyped, ShortWork DEF FramesInv, PlainOp
<1> QED BY <1>1, <1>2, Resumed DEF FramesInv, Run

\* While the debugger waits, env_ and execDepth_ are those of the statement it was told of.
LEMMA DepthAtStop ==
  ASSUME DebugMachineInv, notified # Absent
  PROVE  execDepth = Len(envs) - 1 /\ Len(envs) \in Nat
BY LenProperties
   DEF DebugMachineInv, MachineInv, StopInv, ExecutorInv, FramesInv, Aligned, MemoryTyped, EnvsTyped

LEMMA SessionStepAtStop ==
  ASSUME DebugMachineInv, Next \/ UNCHANGED vars, UNCHANGED debuggerVars
  PROVE  DebugMachineInv' /\ (notified # Absent => notified' = notified)
<1> USE DEF DebugMachineInv
<1>1. MachineInv'
  BY MachineNext
<1>2. UNCHANGED <<inLoop, stepMode, nextDepth, nextEnvs>>
  BY DEF debuggerVars
<1>3. CASE Interpreting
  BY <1>1, <1>2, <1>3, OnlyRunNotifies, RunKeepsItsFrame DEF Interpreting, MachineInv, StopInv
<1>4. CASE OptimizeDone
  <2>1. frames = <<>> /\ notified' = notified
    BY <1>4 DEF OptimizeDone, ExecuteBegin, debugVars
  <2> QED BY <1>1, <1>2, <2>1 DEF StopInv
<1>5. CASE ShellAlone
  <2>1. UNCHANGED frames /\ (exc' = "crash" => exc = "crash")
    BY <1>5, ShellLeavesExecutor
  <2>2. UNCHANGED notified
    BY <1>5 DEF ShellAlone, Input, Stopped, vars, executorVars, ProcessLine, Precheck,
       LoadFile, LoadFails, NextStatement, EndOfFile, Checking, PrecheckDone, CheckRejects,
       CheckAccepts, Optimizing, ExecuteReturns, ExecuteThrows, ProcessDies
  <2> QED BY <1>1, <1>2, <2>1, <2>2 DEF StopInv
<1> QED BY <1>3, <1>4, <1>5, NextIs

LEMMA DebuggerStepAtStop ==
  ASSUME DebugMachineInv, Debugging \/ ExecuteQuits
  PROVE  DebugMachineInv'
<1> USE DEF DebugMachineInv
<1>1. SessionInv'
  BY DebuggerStepInv DEF MachineInv
<1>2. UNCHANGED <<frames, vals, storeVars>> /\ UNCHANGED <<bindingVars, orphans>>
  BY DEF Debugging, DebuggerStep, ExecuteQuits, storeVars, sessionVars
<1>3. exc' = exc \/ (exc # "crash" /\ exc' \in {"quit", "none"})
  BY DEF Debugging, DebuggerStep, ExecuteQuits, BeforeStatement, Resume, CmdStep, CmdNext,
         CmdContinue, CmdQuit, CmdBreak, CmdRemove, CmdWatch, CmdUnwatch, StopInv
<1>4. ExecutorInv' /\ BindingInv' /\ exc' \in Exception /\ orphans' \in SUBSET Name
  BY <1>2, <1>3, ExecutorKept, BindingKept DEF MachineInv, Exception
<1>5. CrashIsLast'
  BY <1>3 DEF Debugging, ExecuteQuits, sessionVars, MachineInv, CrashIsLast
<1>6. StopInv'
  <2>1. CASE CmdNext
    BY <1>2, <2>1, DepthAtStop DEF storeVars, CmdNext, Resume, StopInv
  <2>2. CASE Debugging /\ ~CmdNext
    BY <1>2, <1>3, <2>2 DEF Debugging, DebuggerStep, BeforeStatement, Resume, CmdStep,
         CmdContinue, CmdQuit, CmdBreak, CmdRemove, CmdWatch, CmdUnwatch, StopInv, watchVars
  <2>3. CASE ExecuteQuits
    BY <1>2, <1>3, <2>3 DEF ExecuteQuits, debuggerVars, StopInv
  <2> QED BY <2>1, <2>2, <2>3
<1> QED BY <1>1, <1>4, <1>5, <1>6 DEF MachineInv

LEMMA DebugMachineInit == DebugInit => DebugMachineInv
BY MachineInit DEF DebugInit, DebuggerInit, DebugMachineInv, StopInv, Init, ExecutorInit

LEMMA DebugMachineNext == DebugMachineInv /\ [DebugNext]_debugSessionVars => DebugMachineInv'
<1> SUFFICES ASSUME DebugMachineInv, [DebugNext]_debugSessionVars PROVE DebugMachineInv'
  OBVIOUS
<1>1. UNCHANGED debugSessionVars => UNCHANGED vars /\ UNCHANGED debuggerVars
  BY DEF debugSessionVars
<1> QED BY <1>1, SessionStepAtStop, DebuggerStepAtStop DEF DebugNext

\* There are never fewer environments than the fewest there have been.
FewestInv == fewestEnvs \in Nat /\ fewestEnvs <= Len(envs)

LEMMA FewestNext ==
  ASSUME DebugMachineInv, FewestInv, [DebugNext]_debugSessionVars
  PROVE  FewestInv'
<1>1. DebugMachineInv'
  BY DebugMachineNext
<1>2. envs' \in Seq(EnvType)'
  BY <1>1 DEF DebugMachineInv, MachineInv, ExecutorInv, FramesInv, MemoryTyped, EnvsTyped
<1>3. Len(envs') \in Nat
  BY <1>2, LenProperties
<1>4. CASE RememberFewest
  <2>1. fewestEnvs' = Len(envs') \/ (fewestEnvs' = fewestEnvs /\ ~(Len(envs') < fewestEnvs))
    BY <1>4 DEF RememberFewest
  <2> QED BY <1>3, <2>1 DEF FewestInv
<1>5. CASE UNCHANGED debugSessionVars
  <2>1. fewestEnvs' = fewestEnvs /\ envs' = envs
    BY <1>5 DEF debugSessionVars, vars, executorVars, storeVars
  <2> QED BY <2>1 DEF FewestInv
<1> QED BY <1>4, <1>5 DEF DebugNext

\* "next" compares depths, and that is right for every program as long as the scope in
\* which it was given is open: without a breakpoint it stops in that very scope, and
\* nowhere else.  When it has been left, depths are all that counts.
THEOREM NextIsRight == DebugSpec => NextStepsOverFrames
<1> DEFINE Told == notified # Absent /\ ~inLoop /\ stepMode = "next" /\ ~IsBreakpoint
           Due  == IF NextScopeIsOpen THEN Len(envs) = nextEnvs ELSE Len(envs) <= nextEnvs
           Step == Told /\ (inLoop' \/ notified' = Absent) => (inLoop' <=> Due)
           Inv  == DebugMachineInv /\ FewestInv
<1>1. Inv /\ [DebugNext]_debugSessionVars => [Step]_debugSessionVars
  <2> SUFFICES ASSUME DebugMachineInv, FewestInv, [DebugNext]_debugSessionVars, Told,
                      inLoop' \/ notified' = Absent
               PROVE  inLoop' <=> Due
    OBVIOUS
  <2>1. execDepth = Len(envs) - 1 /\ Len(envs) \in Nat
    BY DepthAtStop
  <2>2. ~(Next \/ UNCHANGED vars) \/ ~UNCHANGED debuggerVars
    BY SessionStepAtStop DEF debuggerVars
  <2>3. UNCHANGED debugSessionVars => UNCHANGED vars /\ UNCHANGED debuggerVars
    BY DEF debugSessionVars
  <2>4. ~ExecuteQuits
    BY DEF ExecuteQuits, DebugMachineInv, StopInv
  <2>5. BeforeStatement
    BY <2>2, <2>3, <2>4 DEF DebugNext, Debugging, DebuggerStep, CmdStep, CmdNext, CmdContinue,
         CmdQuit, CmdBreak, CmdRemove, CmdWatch, CmdUnwatch, Resume
  <2>6. inLoop' <=> execDepth <= nextDepth
    BY <2>5 DEF BeforeStatement, ShouldPause
  <2>7. nextDepth = nextEnvs - 1 /\ nextEnvs \in Nat
    BY DEF DebugMachineInv, StopInv
  <2>8. Due <=> Len(envs) <= nextEnvs
    BY <2>1, <2>7 DEF NextScopeIsOpen, FewestInv
  <2> QED BY <2>1, <2>6, <2>7, <2>8
<1>2. DebugInit => Inv
  <2>1. DebugInit => FewestInv
    BY DEF DebugInit, FewestInv, Init, ExecutorInit
  <2> QED BY <2>1, DebugMachineInit
<1>3. Inv /\ [DebugNext]_debugSessionVars => Inv'
  BY DebugMachineNext, FewestNext
<1> QED BY <1>1, <1>2, <1>3, PTL DEF DebugSpec, NextStepsOverFrames

\* The invariant of the executor holds under the debugger too.
THEOREM DebugEnvironments == DebugSpec => []EnvironmentStack
<1>1. DebugMachineInv => EnvironmentStack
  BY DEF DebugMachineInv, MachineInv, ExecutorInv, FramesInv, Aligned, ChainsLeadOut, ChainFrom,
         MemoryTyped, EnvsTyped, EnvironmentStack
<1> QED BY <1>1, DebugMachineInit, DebugMachineNext, PTL DEF DebugSpec

-----------------------------------------------------------------------------
(* The observer.                                                            *)

\* Outside the REPL, a shell that waits for its file has no observer yet.
ObserverInv ==
  /\ ObserverRemoved
  /\ mode # "repl" /\ phase = "idle" => ~observer
  /\ mode = "repl" => ~observer
  /\ phase = "precheck" => mode = "repl"

LEMMA ObserverInit == DebugInit => ObserverInv
BY DEF DebugInit, Init, ExecutorInit, ObserverInv, ObserverRemoved

LEMMA ObserverNext == ObserverInv /\ [DebugNext]_debugSessionVars => ObserverInv'
<1> USE DEF ObserverInv, ObserverRemoved
<1> SUFFICES ASSUME ObserverInv, [DebugNext]_debugSessionVars PROVE ObserverInv'
  OBVIOUS
<1>1. CASE Debugging \/ ExecuteQuits \/ UNCHANGED debugSessionVars
  BY <1>1 DEF Debugging, DebuggerStep, ExecuteQuits, debugSessionVars, vars, sessionVars,
       executorVars
<1>2. CASE Input
  BY <1>2 DEF Input, ProcessLine, Precheck, LoadFile, LoadFails, InputAllowed, executorVars
<1>3. CASE NextStatement \/ EndOfFile \/ PrecheckDone \/ CheckRejects \/ CheckAccepts
           \/ OptimizeDone \/ ExecuteReturns \/ ExecuteThrows \/ ProcessDies \/ Stopped
  <2>1. CASE NextStatement \/ EndOfFile
    BY <2>1 DEF NextStatement, EndOfFile, executorVars
  <2>2. CASE PrecheckDone \/ CheckRejects
    BY <2>2 DEF PrecheckDone, CheckRejects, AfterFailure, executorVars
  <2>3. CASE CheckAccepts \/ OptimizeDone
    BY <2>3 DEF CheckAccepts, OptimizeDone, ExecuteBegin, executorVars, debugVars
  <2>4. CASE ExecuteReturns \/ ExecuteThrows
    BY <2>4 DEF ExecuteReturns, ExecuteThrows, AfterSuccess, AfterFailure, executorVars
  <2>5. CASE ProcessDies
    <3>1. phase' = "dead" /\ mode' = mode /\ (observer' => observer)
      BY <2>5, Zenon DEF ProcessDies
    <3> QED BY <3>1
  <2>6. CASE Stopped
    BY <2>6 DEF Stopped, vars, executorVars, sessionVars
  <2> QED BY <1>3, <2>1, <2>2, <2>3, <2>4, <2>5, <2>6
<1>4. CASE Checking \/ Optimizing \/ Interpreting
  <2>1. UNCHANGED <<mode, phase>>
    BY <1>4 DEF Checking, Optimizing, Interpreting, sessionVars
  <2>2. UNCHANGED observer
    BY <1>4, ObserverStays DEF Checking, Optimizing, Interpreting, executorVars
  <2> QED BY <2>1, <2>2
<1> QED BY <1>1, <1>2, <1>3, <1>4 DEF DebugNext, Next, Pipeline

\* When runDebug has returned, by whichever exit and from whichever statement of whichever
\* program, the executor does not point to the Debugger that is gone.
THEOREM NoDanglingObserver == DebugSpec => []ObserverRemoved
<1>1. ObserverInv => ObserverRemoved
  BY DEF ObserverInv
<1> QED BY <1>1, ObserverInit, ObserverNext, PTL DEF DebugSpec

-----------------------------------------------------------------------------
(* Everything else that a session keeps true.                               *)

\* A request to quit is no more than one more exception, and while the program waits at a
\* stop nothing of it changes.
LEMMA DebuggerStepRest ==
  ASSUME DebugMachineInv, RestInv, Debugging \/ ExecuteQuits
  PROVE  RestInv'
<1>1. /\ UNCHANGED <<frames, vals, storeVars, checkerVars, bindingVars>>
      /\ UNCHANGED <<mode, current, file, orphans>>
  BY DEF Debugging, DebuggerStep, ExecuteQuits, storeVars, sessionVars
<1>2. \/ UNCHANGED <<phase, exc>>
      \/ UNCHANGED phase /\ exc # "crash" /\ frames # <<>> /\ exc' = "quit"
      \/ phase = "execute" /\ phase' = "ok" /\ frames = <<>> /\ exc = "quit" /\ exc' = "none"
  BY DEF Debugging, DebuggerStep, ExecuteQuits, BeforeStatement, Resume, CmdStep, CmdNext,
         CmdContinue, CmdQuit, CmdBreak, CmdRemove, CmdWatch, CmdUnwatch, DebugMachineInv,
         StopInv, sessionVars
<1>3. MachineInv'
  BY DebuggerStepAtStop DEF DebugMachineInv
<1>4. Vouched' /\ RunsInPhase'
  <2>1. Vouched /\ RunsInPhase
    BY DEF RestInv, ContractInv
  <2>2. CheckSees(current) => CheckSees(current)'
    BY <1>1 DEF CheckSees, ReturnsLeft, AdmittedLeft, DefinedLeft, checkerVars
  <2> QED BY <1>1, <1>2, <2>1, <2>2 DEF Vouched, RunsInPhase, Working, checkerVars
<1>5. RunInv'
  <2>1. Covered' = Covered /\ orphans' = orphans
    BY <1>1, <1>2 DEF Covered, checkerVars
  <2> QED BY <1>1, <1>2, <2>1, RunKept DEF storeVars, RestInv, ContractInv
<1>6. ProgramsParsed' /\ BindInPhase'
  BY <1>1, <1>2 DEF RestInv, ProgramsParsed, BindInPhase, bindingVars
<1>7. ValuesInv'
  BY <1>1, <1>2, ValuesKept DEF RestInv
<1> QED BY <1>3, <1>4, <1>5, <1>6, <1>7 DEF RestInv, ContractInv

DebugRestInv == DebugMachineInv /\ RestInv

LEMMA DebugRestInit == DebugInit => DebugRestInv
BY DebugMachineInit, RestInit DEF DebugInit, DebugRestInv

LEMMA DebugRestNext == DebugRestInv /\ [DebugNext]_debugSessionVars => DebugRestInv'
<1> SUFFICES ASSUME DebugRestInv, [DebugNext]_debugSessionVars PROVE DebugRestInv'
  OBVIOUS
<1>1. DebugMachineInv'
  BY DebugMachineNext DEF DebugRestInv
<1>2. RestInv'
  <2>1. UNCHANGED debugSessionVars => UNCHANGED vars
    BY DEF debugSessionVars
  <2> QED BY <2>1, RestNext, DebuggerStepRest DEF DebugNext, DebugRestInv
<1> QED BY <1>1, <1>2 DEF DebugRestInv

\* What holds of every session holds at every stop of the debugger too and after every
\* "quit": types, what checker and executor know of names, the values on the stack.
THEOREM DebugKeepsTheRest ==
  DebugSpec => [](/\ SessionTypeOK /\ ReturnIsCaught /\ HeldNamesAreKnown
                  /\ GlobalsDefinedOnce /\ CallRunsCheckedDecl /\ IdleIsClean /\ StoreInBounds)
<1> DEFINE Kept == /\ SessionTypeOK /\ ReturnIsCaught /\ HeldNamesAreKnown
                   /\ GlobalsDefinedOnce /\ CallRunsCheckedDecl /\ IdleIsClean /\ StoreInBounds
<1>1. DebugRestInv => Kept
  BY SMTT(60), MachineTypes, ContractReturns, ContractHeld, ContractGlobals, ContractCalls, RestIsClean,
     RestStores DEF DebugRestInv, RestInv, ContractInv
<1> QED BY <1>1, DebugRestInit, DebugRestNext, PTL DEF DebugSpec

-----------------------------------------------------------------------------
(* A debug run is a run.  Plain is the same session on the same files in    *)
(* file mode: its passes are those of Session by definition, and none of    *)
(* the visitors reads observer_ but run().                                  *)

LEMMA PlainChecker == CheckerStep => Plain!CheckerStep
BY ZenonT(60) DEF Plain!CheckerStep, CheckerStep, Plain!VisitChildren, VisitChildren, Plain!VisitVariable,
       VisitVariable, Plain!VisitVarDeclare, VisitVarDeclare, Plain!FinishVarDeclare,
       FinishVarDeclare, Plain!VisitScope, VisitScope, Plain!VisitFunction, VisitFunction,
       Plain!VisitReturn, VisitReturn, Plain!EndActivation, EndActivation, Plain!Visiting,
       Visiting, Plain!Running, Running, Plain!Work, Work, Plain!Next1, Next1, Plain!Top, Top,
       Plain!Pop, Pop, Plain!Expand, Expand, Plain!Enter, Enter, Plain!Activation, Activation,
       Plain!Visit, Visit, Plain!Items, Items, Plain!Item, Item, Plain!Throw, Throw,
       Plain!CheckError, CheckError, Plain!NoError, NoError, Plain!ReadError, ReadError,
       Plain!Holders, Holders, Plain!DeclaredHere, DeclaredHere, Plain!Declare, Declare,
       Plain!Define, Define, Plain!EmptyScope, EmptyScope, Plain!ParamScope, ParamScope,
       Plain!Duplicated, Duplicated, Plain!LeavesScope, LeavesScope, Plain!LeavesFunction,
       LeavesFunction

LEMMA PlainBinding == BindStep => Plain!BindStep
BY ZenonT(60) DEF Plain!BindStep, BindStep, Plain!BindChildren, BindChildren, Plain!BindVariable,
       BindVariable, Plain!BindAssign, BindAssign, Plain!BindTarget, BindTarget,
       Plain!BindVarDeclare, BindVarDeclare, Plain!BindScope, BindScope, Plain!BindFunction,
       BindFunction, Plain!BindLeave, BindLeave, Plain!Binds, Binds, Plain!BindNext, BindNext,
       Plain!BindWork, BindWork, Plain!Top, Top, Plain!Pop, Pop, Plain!Items, Items, Plain!Item,
       Item, Plain!BindExpand, BindExpand, Plain!BindEnter, BindEnter, Plain!BindDeclare,
       BindDeclare, Plain!BindHolders, BindHolders, Plain!ComputeDistance, ComputeDistance,
       Plain!SetDistance, SetDistance, Plain!Site, Site

LEMMA PlainFold == Plain!Fold(current) = Fold(current)
BY DEF Plain!Fold, Fold, Plain!FoldStmt, FoldStmt, Plain!FoldExpr, FoldExpr, Plain!SubStatements,
       SubStatements, Plain!StmtKind, StmtKind, Plain!FoldedKids, FoldedKids, Plain!MkNode,
       MkNode, Plain!IsConst, IsConst, Plain!Eval, Eval, Plain!EvalUnary, EvalUnary,
       Plain!EvalBinary, EvalBinary, Plain!Threw, Threw, Plain!NumberOp, NumberOp,
       Plain!Quotient, Quotient, Plain!Remainder, Remainder, Plain!Abs, Abs, Plain!Number,
       Number, Plain!Bool, Bool, Plain!String, String

LEMMA PlainExecutor == ExecutorStep => Plain!ExecutorStep
<1> USE DEF Plain!IsTruthy, IsTruthy, Plain!BinaryFails, BinaryFails, Plain!ApplyBinary, ApplyBinary,
       Plain!NumberOp, NumberOp, Plain!Quotient, Quotient, Plain!Remainder, Remainder, Plain!Abs,
       Abs, Plain!Number, Number, Plain!Bool, Bool, Plain!String, String, Plain!Nil, Nil,
       Plain!Chain, Chain, Plain!Has, Has, Plain!Hits, Hits, Plain!DynamicIndex, DynamicIndex,
       Plain!Dynamic, Dynamic, Plain!Static, Static, Plain!Holder, Holder, Plain!NotFound,
       NotFound, Plain!Write, Write, Plain!DistanceOf, DistanceOf, Plain!Site, Site, Plain!Task,
       Task, Plain!Tasks, Tasks, Plain!Frame, Frame, Plain!Todo, Todo, Plain!Now, Now, Plain!N,
       N, Plain!Executing, Executing, Plain!At, At, Plain!Accepting, Accepting, Plain!After,
       After, Plain!Continue, Continue, Plain!Push, Push, Plain!Replace, Replace, Plain!Drop,
       Drop, Plain!Raise, Raise, Plain!EnterFrame, EnterFrame, Plain!Unset, Unset,
       Plain!NoValues, NoValues, Plain!Dangling, Dangling, Plain!NoFunction, NoFunction,
       Plain!Absent, Absent, Plain!MkNode, MkNode, Plain!InRange, InRange, Plain!ForInit,
       ForInit, Plain!ForCond, ForCond, Plain!ForIncr, ForIncr, Plain!ForBody, ForBody,
       Plain!Present, Present, Plain!ForIteration, ForIteration, Plain!Callee, Callee,
       Plain!Arguments, Arguments, Plain!IsFunction, IsFunction, Plain!CallKind, CallKind,
       Plain!ArgValues, ArgValues, Plain!EnterCall, EnterCall, Plain!Destroy, Destroy,
       Plain!LeaveScope, LeaveScope, Plain!scopeVars, scopeVars, Plain!storeVars, storeVars,
       Plain!debugVars, debugVars, Plain!Top, Top, Plain!Pop, Pop
<1>1. Run => Plain!Run
  BY DEF Plain!Run, Run
<1>2. VisitLiteralExpr => Plain!VisitLiteralExpr
  BY ZenonT(60) DEF Plain!VisitLiteralExpr, VisitLiteralExpr
<1>3. VisitVariableExpr => Plain!VisitVariableExpr
  BY ZenonT(60) DEF Plain!VisitVariableExpr, VisitVariableExpr
<1>4. EvaluateFirst => Plain!EvaluateFirst
  BY ZenonT(60) DEF Plain!EvaluateFirst, EvaluateFirst
<1>5. AssignValue => Plain!AssignValue
  BY ZenonT(60) DEF Plain!AssignValue, AssignValue
<1>6. VisitBinaryExpr => Plain!VisitBinaryExpr
  BY ZenonT(60) DEF Plain!VisitBinaryExpr, VisitBinaryExpr
<1>7. UnaryValue => Plain!UnaryValue
  BY ZenonT(60) DEF Plain!UnaryValue, UnaryValue
<1>8. LogicalValue => Plain!LogicalValue
  BY DEF Plain!LogicalValue, LogicalValue
<1>9. VisitGroupingExpr => Plain!VisitGroupingExpr
  BY ZenonT(60) DEF Plain!VisitGroupingExpr, VisitGroupingExpr
<1>10. VisitIndexed => Plain!VisitIndexed
  BY DEF Plain!VisitIndexed, VisitIndexed
<1>11. RequireArray => Plain!RequireArray
  BY ZenonT(60) DEF Plain!RequireArray, RequireArray
<1>12. RequireIndex => Plain!RequireIndex
  BY DEF Plain!RequireIndex, RequireIndex
<1>13. StoreElement => Plain!StoreElement
  BY DEF Plain!StoreElement, StoreElement
<1>14. PrintValue => Plain!PrintValue
  BY ZenonT(60) DEF Plain!PrintValue, PrintValue
<1>15. VisitExpressionStmt => Plain!VisitExpressionStmt
  BY ZenonT(60) DEF Plain!VisitExpressionStmt, VisitExpressionStmt
<1>16. VisitVarDeclareStmt => Plain!VisitVarDeclareStmt
  BY ZenonT(60) DEF Plain!VisitVarDeclareStmt, VisitVarDeclareStmt
<1>17. VisitBlockStmt => Plain!VisitBlockStmt
  BY ZenonT(60) DEF Plain!VisitBlockStmt, VisitBlockStmt
<1>18. ChooseBranch => Plain!ChooseBranch
  BY ZenonT(60) DEF Plain!ChooseBranch, ChooseBranch
<1>19. VisitForStmt => Plain!VisitForStmt
  BY ZenonT(60) DEF Plain!VisitForStmt, VisitForStmt
<1>20. ForLoop => Plain!ForLoop
  BY ZenonT(60) DEF Plain!ForLoop, ForLoop
<1>21. ForTest => Plain!ForTest
  BY ZenonT(60) DEF Plain!ForTest, ForTest
<1>22. ForIncrement => Plain!ForIncrement
  BY ZenonT(60) DEF Plain!ForIncrement, ForIncrement
<1>23. VisitFunctionStmt => Plain!VisitFunctionStmt
  BY DEF Plain!VisitFunctionStmt, VisitFunctionStmt
<1>24. VisitReturnStmt => Plain!VisitReturnStmt
  BY ZenonT(60) DEF Plain!VisitReturnStmt, VisitReturnStmt
<1>25. VisitCallExpr => Plain!VisitCallExpr
  BY ZenonT(60) DEF Plain!VisitCallExpr, VisitCallExpr
<1>26. CallFunction => Plain!CallFunction
  BY ZenonT(60) DEF Plain!CallFunction, CallFunction
<1>27. CallDangling => Plain!CallDangling
  BY ZenonT(60) DEF Plain!CallDangling, CallDangling
<1>28. AllocateArray => Plain!AllocateArray
  BY DEF Plain!AllocateArray, AllocateArray
<1>29. EndFrame => Plain!EndFrame
  BY DEF Plain!EndFrame, EndFrame
<1>30. Unwind => Plain!Unwind
  BY DEF Plain!Unwind, Unwind
<1> QED BY <1>1, <1>2, <1>3, <1>4, <1>5, <1>6, <1>7, <1>8, <1>9, <1>10, <1>11, <1>12, <1>13,
         <1>14, <1>15, <1>16, <1>17, <1>18, <1>19, <1>20, <1>21, <1>22, <1>23, <1>24, <1>25,
         <1>26, <1>27, <1>28, <1>29, <1>30
         DEF Plain!ExecutorStep, ExecutorStep

\* No return gets out of execute(), which is where runDebug would roll back and runFile
\* would not.
LEMMA PlainStep ==
  ASSUME DebugRestInv, mode # "repl", Next
  PROVE  Plain!Next \/ UNCHANGED Plain!vars
<1> USE DEF Plain!vars, vars, Plain!checkerVars, checkerVars, Plain!bindingVars, bindingVars,
            Plain!executorVars, executorVars, Plain!sessionVars, sessionVars,
            Plain!storeVars, storeVars, Plain!debugVars, debugVars,
            Plain!AfterSuccess, AfterSuccess, Plain!AfterFailure, AfterFailure,
            Plain!RollbackLastCheck, RollbackLastCheck, Plain!InputAllowed, InputAllowed,
            Plain!NoError, NoError, Plain!CheckError, CheckError
<1>1. \A stmts : CheckBegin(stmts) => Plain!CheckBegin(stmts)
  BY DEF CheckBegin, Plain!CheckBegin, Activation, Plain!Activation, Visit, Plain!Visit,
         Items, Plain!Items, Item, Plain!Item
<1>2. \A stmts : BindBegin(stmts) => Plain!BindBegin(stmts)
  BY DEF BindBegin, Plain!BindBegin, Items, Plain!Items, Item, Plain!Item
<1>3. \A stmts : ExecuteBegin(stmts) => Plain!ExecuteBegin(stmts)
  BY DEF ExecuteBegin, Plain!ExecuteBegin, Frame, Plain!Frame, Tasks, Plain!Tasks, Task, Plain!Task
<1>4. CASE Input
  <2>1. ASSUME NEW f \in Files, LoadFile(f) PROVE Plain!LoadFile(f)
    BY <2>1 DEF LoadFile, Plain!LoadFile
  <2>2. LoadFails => Plain!LoadFails
    BY DEF LoadFails, Plain!LoadFails
  <2>3. \A stmts : ~ProcessLine(stmts) /\ ~Precheck(stmts)
    BY DEF ProcessLine, Precheck
  <2> QED BY <1>4, <2>1, <2>2, <2>3 DEF Input, Plain!Next, Plain!Input
<1>5. NextStatement => Plain!NextStatement
  BY <1>1 DEF NextStatement, Plain!NextStatement
<1>6. EndOfFile => Plain!EndOfFile
  BY DEF EndOfFile, Plain!EndOfFile
<1>7. Checking => Plain!Checking
  BY PlainChecker DEF Checking, Plain!Checking
<1>8. PrecheckDone => Plain!PrecheckDone
  BY DEF PrecheckDone, Plain!PrecheckDone
<1>9. CheckRejects => Plain!CheckRejects
  BY DEF CheckRejects, Plain!CheckRejects
<1>10. CheckAccepts => Plain!CheckAccepts
  BY <1>2 DEF CheckAccepts, Plain!CheckAccepts
<1>11. Optimizing => Plain!Optimizing
  BY PlainBinding DEF Optimizing, Plain!Optimizing
<1>12. OptimizeDone => Plain!OptimizeDone
  BY <1>3, PlainFold DEF OptimizeDone, Plain!OptimizeDone
<1>13. Interpreting => Plain!Interpreting
  BY PlainExecutor DEF Interpreting, Plain!Interpreting
<1>14. ExecuteReturns => Plain!ExecuteReturns
  BY DEF ExecuteReturns, Plain!ExecuteReturns
<1>15. ExecuteThrows => Plain!ExecuteThrows
  BY DEF ExecuteThrows, Plain!ExecuteThrows
<1>16. ProcessDies => Plain!ProcessDies
  <2>1. ASSUME ProcessDies PROVE exc # "return"
    <3>1. ReturnIsCaught
      BY ContractReturns DEF DebugRestInv, RestInv
    <3> QED BY <2>1, <3>1 DEF ProcessDies, ReturnIsCaught
  <2> QED BY <2>1 DEF ProcessDies, Plain!ProcessDies
<1>17. Stopped => UNCHANGED Plain!vars
  BY DEF Stopped
<1> QED BY <1>4, <1>5, <1>6, <1>7, <1>8, <1>9, <1>10, <1>11, <1>12, <1>13, <1>14, <1>15, <1>16, <1>17
        DEF Next, Pipeline, Plain!Next, Plain!Pipeline

\* A program does not notice the debugger, for all files and all sequences of commands:
\* until the user quits, a debug run is a run of the same file.
THEOREM DebuggerUnnoticed ==
  ASSUME Modes \subseteq {"file", "debug"}
  PROVE  DebugSpec => DebuggerIsTransparent
<1> DEFINE Step == exc # "quit" /\ exc' # "quit" => Plain!Next \/ UNCHANGED Plain!vars
<1>1. DebugRestInv /\ [DebugNext]_debugSessionVars => [Step]_debugSessionVars
  <2> SUFFICES ASSUME DebugRestInv, [DebugNext]_debugSessionVars, exc # "quit", exc' # "quit"
               PROVE  Plain!Next \/ UNCHANGED Plain!vars
    OBVIOUS
  <2>1. mode # "repl"
    BY DEF DebugRestInv, DebugMachineInv, MachineInv, SessionInv, ShellTypeOK
  <2>2. CASE Next
    BY <2>1, <2>2, PlainStep
  <2>3. CASE Debugging
    BY <2>3 DEF Debugging, DebuggerStep, BeforeStatement, Resume, CmdStep, CmdNext, CmdContinue,
         CmdQuit, CmdBreak, CmdRemove, CmdWatch, CmdUnwatch, checkerVars, bindingVars, sessionVars,
         storeVars, Plain!vars, Plain!checkerVars, Plain!bindingVars, Plain!executorVars,
         Plain!sessionVars
  <2>4. ~ExecuteQuits
    BY DEF ExecuteQuits
  <2>5. CASE UNCHANGED debugSessionVars
    BY <2>5 DEF debugSessionVars, vars, checkerVars, bindingVars, sessionVars, executorVars,
         Plain!vars, Plain!checkerVars, Plain!bindingVars, Plain!executorVars, Plain!sessionVars
  <2> QED BY <2>2, <2>3, <2>4, <2>5 DEF DebugNext
<1> QED BY <1>1, DebugRestInit, DebugRestNext, PTL DEF DebugSpec, DebuggerIsTransparent

-----------------------------------------------------------------------------
(* Watches.  A stop before a print shows what debugLookup finds; the        *)
(* statement then reads at the distance that was computed before the run.   *)
(* The invariant follows the visit of the print from the stop to the        *)
(* output, task by task.                                                    *)



\* The prints that a watch may answer: of a variable, and of an element by its number.
PlainPrint(n) ==
  /\ n \in Node /\ n.kind = "print"
  /\ LET e == n.kids[1] IN
     \/ e.kind = "variable"
     \/ e.kind = "index" /\ e.kids[1].kind = "variable" /\ e.kids[2].kind = "literal"

\* What a stop would show of e now; what the last one did show of n still counts, and
\* the variable of n is read where a search finds it; it is what a stop would show now.
Shown(e) == IF e.kind = "variable" THEN DebugLookup(e.tok) ELSE ResolveIndexedWatch(ElementOf(e))
Told(n)  == exc = "none" /\ shown.node = n /\ LeadsWhereSearched(VariableOf(n.kids[1]))
Due(n)   == Told(n) => shown.value = Shown(n.kids[1])

\* Work begins with the tasks of ts, and none of the others belongs to the visit of a
\* print that a watch may answer.
Quiet(t) == ~(/\ t.op \in {"accept", "after"} /\ t.node.kind = "print"
              /\ t.op = "after" => PlainPrint(t.node))
Lead(work, ts) ==
  /\ Len(ts) <= Len(work)
  /\ \A k \in 1..Len(ts) : work[k] = ts[k]
  /\ \A k \in DOMAIN work : k > Len(ts) => Quiet(work[k])

\* What is left of the visit of n, and what is known of the value it is about to print.
Output(n)  == Task("after", n)
Object(n)  == n.kids[1].kids[1]
Place(n)   == n.kids[1].kids[2]
IsObject(v, n) == Told(n) => v = DebugLookup(Object(n).tok)
Printing(n, work) ==
  LET e == n.kids[1] IN
  \/ Due(n) /\ Lead(work, <<Task("accept", e), Output(n)>>)
  \/ /\ e.kind = "index" /\ Due(n)
     /\ \/ Lead(work, <<Task("accept", Object(n)), Task("requireArray", e),
                        Task("accept", Place(n)), Task("requireIndex", e), Output(n)>>)
        \/ /\ Lead(work, <<Task("requireArray", e), Task("accept", Place(n)),
                           Task("requireIndex", e), Output(n)>>)
           /\ Len(vals) >= 1 /\ IsObject(vals[1], n)
        \/ /\ Lead(work, <<Task("accept", Place(n)), Task("requireIndex", e), Output(n)>>)
           /\ Len(vals) >= 1 /\ IsObject(vals[1], n)
        \/ /\ Lead(work, <<Task("requireIndex", e), Output(n)>>)
           /\ IsObject(vals[2], n) /\ (Told(n) => vals[1] = Place(n).val)
  \/ Lead(work, <<Output(n)>>) /\ (Told(n) => vals[1] = shown.value)

\* The frame at the top is not in the visit of such a print, or about to begin with one of
\* a print, or within it.
Followed(work) ==
  \/ Lead(work, <<>>)
  \/ \E n \in Node : /\ n.kind = "print" /\ Lead(work, <<Task("accept", n)>>)
                     /\ notified = Absent \/ inLoop => Due(n)
  \/ \E n \in Node : PlainPrint(n) /\ notified = Absent /\ Printing(n, work)

WatchInv ==
  /\ shown.node # Absent => PlainPrint(shown.node)
  /\ notified # Absent => /\ frames # <<>> /\ Todo # <<>> /\ exc = "none"
                          /\ Now = Task("accept", notified)
  /\ \A i \in 1..Len(frames) : i # Len(frames) => Lead(frames[i].work, <<>>)
  /\ frames # <<>> => Followed(Todo)

\* Whoever is told of a statement is there, and outside debug mode nothing is ever shown.
Finished == phase \in {"ok", "failed", "dead"}
HeardInv ==
  /\ ObserverInv
  /\ observer \/ Finished \/ shown = Nothing
  /\ notified # Absent => observer

-----------------------------------------------------------------------------
LEMMA FiveTasks ==
  ASSUME NEW a, NEW b, NEW c, NEW d, NEW f
  PROVE  <<a, b, c, d>> \o <<f>> = <<a, b, c, d, f>>
<1> DEFINE S == {a, b, c, d, f}
           s == <<a, b, c, d>> \o <<f>>
           t == <<a, b, c, d, f>>
<1>0. a \in S /\ b \in S /\ c \in S /\ d \in S /\ f \in S
  OBVIOUS
<1> HIDE DEF S
<1>1. /\ s \in Seq(S) /\ Len(s) = 5
      /\ s[1] = a /\ s[2] = b /\ s[3] = c /\ s[4] = d /\ s[5] = f
  BY <1>0, ConcatProperties
<1>2. t \in Seq(S) /\ Len(t) = 5 /\ t[1] = a /\ t[2] = b /\ t[3] = c /\ t[4] = d /\ t[5] = f
  BY <1>0
<1> HIDE DEF s, t
<1>3. \A i \in 1..5 : s[i] = t[i]
  BY <1>1, <1>2
<1>4. s = t
  BY <1>1, <1>2, <1>3, SeqEqual
<1> QED BY <1>4 DEF s, t

\* The first task is done, and others take its place.
LEMMA LeadOn ==
  ASSUME NEW work \in Seq(TaskType), work # <<>>, NEW more \in Seq(TaskType),
         NEW ts \in Seq(TaskType), ts # <<>>, Lead(work, ts)
  PROVE  Lead(more \o Tail(work), more \o Tail(ts))
<1> DEFINE new  == more \o Tail(work)
           next == more \o Tail(ts)
<1>1. /\ Len(work) \in Nat \ {0} /\ DOMAIN work = 1..Len(work)
      /\ Len(more) \in Nat /\ DOMAIN new = 1..(Len(more) + Len(work) - 1)
      /\ \A k \in 1..Len(more) : k \in DOMAIN new /\ new[k] = more[k]
      /\ \A k \in DOMAIN new : k \notin 1..Len(more) =>
           k - Len(more) + 1 \in 2..Len(work) /\ new[k] = work[k - Len(more) + 1]
  BY WorkAfter
<1>2. /\ Len(ts) \in Nat \ {0} /\ DOMAIN next = 1..(Len(more) + Len(ts) - 1)
      /\ \A k \in 1..Len(more) : next[k] = more[k]
      /\ \A k \in DOMAIN next : k \notin 1..Len(more) =>
           k - Len(more) + 1 \in 2..Len(ts) /\ next[k] = ts[k - Len(more) + 1]
  BY WorkAfter
<1>3. /\ new \in Seq(TaskType) /\ Len(new) \in Nat /\ DOMAIN new = 1..Len(new)
      /\ next \in Seq(TaskType) /\ Len(next) \in Nat /\ DOMAIN next = 1..Len(next)
  BY ConsumeWork, LenProperties
<1>4. Len(new) = Len(more) + Len(work) - 1 /\ Len(next) = Len(more) + Len(ts) - 1
  <2>1. /\ Tail(work) \in Seq(TaskType) /\ Len(Tail(work)) = Len(work) - 1
        /\ Tail(ts) \in Seq(TaskType) /\ Len(Tail(ts)) = Len(ts) - 1
    BY HeadTailProperties
  <2>2. /\ Len(new) = Len(more) + Len(Tail(work))
        /\ Len(next) = Len(more) + Len(Tail(ts))
    BY <2>1, ConcatProperties
  <2> QED BY <1>1, <1>2, <2>1, <2>2
<1> HIDE DEF new, next
<1>5. /\ Len(ts) <= Len(work)
      /\ \A k \in 1..Len(ts) : work[k] = ts[k]
      /\ \A k \in DOMAIN work : k > Len(ts) => Quiet(work[k])
  BY DEF Lead
<1>6. ASSUME NEW k \in 1..Len(next) PROVE new[k] = next[k]
  <2>1. CASE k \in 1..Len(more)
    BY <1>1, <1>2, <2>1
  <2>2. CASE k \notin 1..Len(more)
    <3>1. k \in DOMAIN new /\ k \in DOMAIN next
      BY <1>3, <1>4, <1>5, <1>1, <1>2
    <3>2. /\ new[k] = work[k - Len(more) + 1] /\ next[k] = ts[k - Len(more) + 1]
          /\ k - Len(more) + 1 \in 2..Len(ts)
      BY <1>1, <1>2, <2>2, <3>1
    <3>3. k - Len(more) + 1 \in 1..Len(ts)
      BY <1>1, <1>2, <3>2
    <3> QED BY <1>5, <3>2, <3>3
  <2> QED BY <2>1, <2>2
<1>7. ASSUME NEW k \in DOMAIN new, k > Len(next) PROVE Quiet(new[k])
  <2>1. k \notin 1..Len(more)
    BY <1>1, <1>2, <1>3, <1>4, <1>7
  <2>2. k - Len(more) + 1 \in 2..Len(work) /\ new[k] = work[k - Len(more) + 1]
    BY <1>1, <2>1
  <2>3. k - Len(more) + 1 \in DOMAIN work /\ k - Len(more) + 1 > Len(ts)
    BY <1>1, <1>2, <1>3, <1>4, <1>7, <2>2
  <2> QED BY <1>5, <2>2, <2>3
<1>8. Len(next) <= Len(new)
  BY <1>1, <1>2, <1>4, <1>5
<1>9. Lead(new, next)
  BY <1>6, <1>7, <1>8 DEF Lead
<1> QED BY <1>9 DEF new, next
LEMMA LeadNone ==
  ASSUME NEW work \in Seq(TaskType)
  PROVE  Lead(work, <<>>) <=> \A k \in DOMAIN work : Quiet(work[k])
<1>1. Len(work) \in Nat /\ DOMAIN work = 1..Len(work) /\ Len(<<>>) = 0
  BY LenProperties
<1>2. 0 <= Len(work) /\ 1..0 = {} /\ \A k \in 1..Len(work) : k > 0
  BY <1>1
<1> QED BY <1>1, <1>2 DEF Lead

\* If none of the first tasks belongs to a print either, none does.
LEMMA LeadQuiet ==
  ASSUME NEW work \in Seq(TaskType), NEW ts \in Seq(TaskType), Lead(work, ts),
         \A k \in 1..Len(ts) : Quiet(ts[k])
  PROVE  Lead(work, <<>>)
<1>1. Len(work) \in Nat /\ DOMAIN work = 1..Len(work) /\ Len(ts) \in Nat
  BY LenProperties
<1>2. ASSUME NEW k \in DOMAIN work PROVE Quiet(work[k])
  <2>1. CASE k \in 1..Len(ts)
    BY <2>1 DEF Lead
  <2>2. CASE k \notin 1..Len(ts)
    <3>1. k > Len(ts)
      BY <1>1, <2>2
    <3> QED BY <3>1 DEF Lead
  <2> QED BY <2>1, <2>2
<1> QED BY <1>2, LeadNone

\* What is left of a frame whose first task is done.
LEMMA LeadTail ==
  ASSUME NEW work \in Seq(TaskType), work # <<>>, Lead(work, <<>>)
  PROVE  Lead(Tail(work), <<>>)
<1>1. /\ Tail(work) \in Seq(TaskType) /\ Len(Tail(work)) = Len(work) - 1
      /\ \A i \in 1..Len(Tail(work)) : Tail(work)[i] = work[i + 1]
  BY HeadTailProperties
<1>2. Len(work) \in Nat /\ DOMAIN work = 1..Len(work) /\ DOMAIN Tail(work) = 1..Len(Tail(work))
  BY <1>1, LenProperties
<1>3. ASSUME NEW k \in DOMAIN Tail(work) PROVE Quiet(Tail(work)[k])
  <2>1. k + 1 \in DOMAIN work /\ Tail(work)[k] = work[k + 1]
    BY <1>1, <1>2
  <2> QED BY <2>1, LeadNone
<1> QED BY <1>1, <1>3, LeadNone

-----------------------------------------------------------------------------
(* A step of the executor in the visit of a print.                          *)

\* Which visitor the first task calls.
LEMMA VisitorOf ==
  ASSUME ExecutorStep, frames # <<>>, Todo # <<>>, exc = "none"
  PROVE  /\ Now.op = "run" => Run
         /\ Now.op = "requireArray" => RequireArray
         /\ Now.op = "requireIndex" => RequireIndex
         /\ Now.op = "accept" =>
              /\ N.kind = "print" => EvaluateFirst
              /\ N.kind = "variable" => VisitVariableExpr
              /\ N.kind = "literal" => VisitLiteralExpr
              /\ N.kind = "index" => VisitIndexed
         /\ Now.op = "after" /\ N.kind = "print" => PrintValue
<1> USE DEF ExecutorStep, Run, VisitLiteralExpr, VisitVariableExpr, EvaluateFirst,
       AssignValue, VisitBinaryExpr, UnaryValue, LogicalValue, VisitGroupingExpr,
       VisitIndexed, RequireArray, RequireIndex, StoreElement, PrintValue,
       VisitExpressionStmt, VisitVarDeclareStmt, VisitBlockStmt, ChooseBranch,
       VisitForStmt, ForLoop, ForTest, ForIncrement, VisitFunctionStmt, VisitReturnStmt,
       VisitCallExpr, CallFunction, CallDangling, AllocateArray, EndFrame, Unwind,
       At, Accepting, After
<1>1. Now.op = "run" => Run
  OBVIOUS
<1>2. Now.op = "requireArray" => RequireArray
  OBVIOUS
<1>3. Now.op = "requireIndex" => RequireIndex
  OBVIOUS
<1>4. Now.op = "accept" /\ N.kind = "print" => EvaluateFirst
  OBVIOUS
<1>5. Now.op = "accept" /\ N.kind = "variable" => VisitVariableExpr
  OBVIOUS
<1>6. Now.op = "accept" /\ N.kind = "literal" => VisitLiteralExpr
  OBVIOUS
<1>7. Now.op = "accept" /\ N.kind = "index" => VisitIndexed
  OBVIOUS
<1>8. Now.op = "after" /\ N.kind = "print" => PrintValue
  OBVIOUS
<1> HIDE DEF ExecutorStep, Run, RequireArray, RequireIndex, EvaluateFirst, VisitVariableExpr,
       VisitLiteralExpr, VisitIndexed, PrintValue
<1> QED BY <1>1, <1>2, <1>3, <1>4, <1>5, <1>6, <1>7, <1>8

\* The newest values after one more is pushed, or takes the place of some.
LEMMA NewestValues ==
  ASSUME FramesInv, NEW v
  PROVE  /\ Push(v) => /\ vals'[1] = v /\ Len(vals') >= 1
                       /\ Len(vals) >= 1 => vals'[2] = vals[1]
         /\ Len(vals) >= 2 /\ Replace(2, v) => vals'[1] = v
<1> DEFINE S == HeapValue \cup {v}
<1>1. vals \in Seq(HeapValue) /\ Len(vals) \in Nat
  BY ValueAt
<1>2. <<v>> \in Seq(S) /\ vals \in Seq(S) /\ Len(<<v>>) = 1 /\ <<v>>[1] = v
  BY <1>1, SeqMonotonic
<1>3. Push(v) => vals'[1] = v /\ Len(vals') >= 1 /\ (Len(vals) >= 1 => vals'[2] = vals[1])
  <2>1. /\ Len(<<v>> \o vals) = 1 + Len(vals)
        /\ \A i \in 1..(1 + Len(vals)) :
             (<<v>> \o vals)[i] = IF i <= 1 THEN <<v>>[i] ELSE vals[i - 1]
    BY <1>2, ConcatProperties
  <2> QED BY <1>1, <1>2, <2>1 DEF Push
<1>4. ASSUME Len(vals) >= 2, Replace(2, v) PROVE vals'[1] = v
  <2> DEFINE rest == SubSeq(vals, 3, Len(vals))
  <2>1. rest \in Seq(S)
    <3>1. SubSeq(vals, 2 + 1, Len(vals)) \in Seq(HeapValue)
      BY <1>4, Rest
    <3> QED BY <3>1, SeqMonotonic
  <2> HIDE DEF rest
  <2>2. /\ Len(<<v>> \o rest) = 1 + Len(rest) /\ Len(rest) \in Nat
        /\ \A i \in 1..(1 + Len(rest)) :
             (<<v>> \o rest)[i] = IF i <= 1 THEN <<v>>[i] ELSE rest[i - 1]
    BY <1>2, <2>1, ConcatProperties, LenProperties
  <2>3. vals' = <<v>> \o rest
    BY <1>4 DEF Replace, rest
  <2> QED BY <1>2, <2>2, <2>3
<1> QED BY <1>3, <1>4

\* The frame at the top goes on, and nothing is left below it that was not.
LEMMA OnTop ==
  ASSUME FramesInv, frames # <<>>, Todo # <<>>, NEW more \in Seq(TaskType), Continue(more),
         NEW ts \in Seq(TaskType), ts # <<>>, Lead(Todo, ts)
  PROVE  /\ frames' # <<>> /\ Len(frames') = Len(frames)
         /\ \A i \in 1..Len(frames) : i # Len(frames) => frames'[i] = frames[i]
         /\ Todo' \in Seq(TaskType)
         /\ Lead(Todo', more \o Tail(ts))
<1>1. Todo \in Seq(TaskType)
  BY WorkAtHand DEF FramesInv
<1>2. /\ frames' # <<>> /\ Len(frames') = Len(frames)
      /\ \A i \in 1..Len(frames) : i # Len(frames) => frames'[i] = frames[i]
      /\ frames'[Len(frames)].work = more \o Tail(Todo)
  BY Resumed DEF FramesInv
<1>3. Todo' = more \o Tail(Todo)
  BY <1>2 DEF Todo, Top
<1>4. more \o Tail(Todo) \in Seq(TaskType)
  BY <1>1, ConsumeWork
<1>5. Lead(more \o Tail(Todo), more \o Tail(ts))
  BY <1>1, LeadOn
<1> QED BY <1>2, <1>3, <1>4, <1>5

\* The tasks of a print, and what they are about.
LEMMA PrintParts ==
  ASSUME NEW n \in Node, n.kind = "print"
  PROVE  LET e == n.kids[1] IN
         /\ e \in Node /\ e.kind \in ExprKind
         /\ Task("accept", n) \in TaskType /\ Task("accept", e) \in TaskType
         /\ Output(n) \in TaskType
         /\ e.kind = "index" =>
              /\ Object(n) \in Node /\ Place(n) \in Node
              /\ Task("accept", Object(n)) \in TaskType /\ Task("accept", Place(n)) \in TaskType
              /\ Task("requireArray", e) \in TaskType /\ Task("requireIndex", e) \in TaskType
<1> DEFINE e == n.kids[1]
<1>1. Len(n.kids) = 1 /\ 1 \in 1..Len(n.kids)
  <2>1. Len(n.kids) = 1
    BY ArityAssumption
  <2> QED BY <2>1
<1>2. e \in Node
  BY <1>1, KidType
<1>3. e.kind \in ExprKind
  BY <1>1, <1>2, PartKind
<1>4. Task("accept", n) \in TaskType /\ Task("accept", e) \in TaskType /\ Output(n) \in TaskType
  BY <1>2, TaskIsTyped DEF PlainOp, Output
<1>5. ASSUME e.kind = "index"
      PROVE  /\ Object(n) \in Node /\ Place(n) \in Node
             /\ Task("accept", Object(n)) \in TaskType /\ Task("accept", Place(n)) \in TaskType
             /\ Task("requireArray", e) \in TaskType /\ Task("requireIndex", e) \in TaskType
  <2>1. Len(e.kids) = 2 /\ 1 \in 1..Len(e.kids) /\ 2 \in 1..Len(e.kids)
    <3>1. Len(e.kids) = 2
      BY <1>2, <1>5, ArityAssumption
    <3> QED BY <3>1
  <2>2. e.kids[1] \in Node /\ e.kids[2] \in Node
    BY <1>2, <2>1, KidType
  <2> QED BY <1>2, <1>5, <2>2, TaskIsTyped DEF PlainOp, IndexOp, Indexed, Object, Place
<1> QED BY <1>2, <1>3, <1>4, <1>5

\* What a stop would show depends on the variables and the arrays alone.
LEMMA ShownKept ==
  ASSUME UNCHANGED <<envs, env, arrays>>, NEW e
  PROVE  DebugLookup(e)' = DebugLookup(e) /\ Shown(e)' = Shown(e)
BY DEF Shown, DebugLookup, ResolveIndexedWatch, Unknown, ElementOf, Dynamic, DynamicIndex, Hits,
       Chain, Has

\* So does where they are found.
LEMMA LeadsKept ==
  ASSUME UNCHANGED <<envs, env, distance>>, NEW e
  PROVE  LeadsWhereSearched(VariableOf(e))' = LeadsWhereSearched(VariableOf(e))
BY DEF LeadsWhereSearched, VariableOf, Holder, DistanceOf, Site, Static, Dynamic, DynamicIndex, Hits,
       Chain, Has

LEMMA KnownKept ==
  ASSUME UNCHANGED <<envs, env, arrays, shown, distance>>, exc = "none", NEW n
  PROVE  /\ Due(n) => Due(n)'
         /\ Told(n)' => Told(n)
         /\ \A v : IsObject(v, n) => (IsObject(v, n))'
<1>1. Told(n)' => Told(n)
  BY LeadsKept DEF Told
<1>2. Shown(n.kids[1])' = Shown(n.kids[1])
  BY ShownKept
<1>3. DebugLookup(Object(n).tok)' = DebugLookup(Object(n).tok)
  BY ShownKept DEF Object
<1>4. Due(n) => Due(n)'
  BY <1>1, <1>2 DEF Due
<1>5. ASSUME NEW v, IsObject(v, n) PROVE (IsObject(v, n))'
  BY <1>1, <1>3, <1>5 DEF IsObject
<1> QED BY <1>1, <1>4, <1>5

\* A variable is read where debugLookup finds it, if it is found by a search.
LEMMA ReadIsLookup ==
  ASSUME VisitVariableExpr
  PROVE  \/ Raise("unlocated") \/ Raise("error")
         \/ \E v : /\ Continue(<<>>) /\ Push(v) /\ UNCHANGED <<exc, storeVars, debugVars>>
                   /\ LeadsWhereSearched(N) => v = DebugLookup(N.tok)
<1>1. CASE Holder(N) = 0
  BY <1>1 DEF VisitVariableExpr, NotFound
<1>2. CASE Holder(N) # 0
  <2> DEFINE v == envs[Holder(N)].values[N.tok]
  <2>1. Continue(<<>>) /\ Push(v) /\ UNCHANGED <<exc, storeVars, debugVars>>
    BY <1>2 DEF VisitVariableExpr
  <2>2. ASSUME LeadsWhereSearched(N) PROVE v = DebugLookup(N.tok)
    <3>1. Holder(N) = Dynamic(N.tok)
      BY <2>2 DEF LeadsWhereSearched
    <3> QED BY <1>2, <3>1 DEF DebugLookup, Dynamic
  <2> QED BY <2>1, <2>2
<1> QED BY <1>1, <1>2

\* The process of a print is gone through task by task: it ends with the output or with
\* an exception, and what is printed is what was shown.
LEMMA PrintingStep ==
  ASSUME FramesInv, ExecutorStep, UNCHANGED <<shown, distance>>,
         frames # <<>>, exc = "none", notified = Absent,
         NEW n \in Node, PlainPrint(n), Printing(n, Todo)
  PROVE  /\ frames' # <<>> /\ Len(frames') = Len(frames) /\ notified' = Absent
         /\ \A i \in 1..Len(frames) : i # Len(frames) => frames'[i] = frames[i]
         /\ Printing(n, Todo)' \/ Lead(Todo', <<>>)
<1> DEFINE e == n.kids[1]
           Goal == /\ frames' # <<>> /\ Len(frames') = Len(frames) /\ notified' = Absent
                   /\ \A i \in 1..Len(frames) : i # Len(frames) => frames'[i] = frames[i]
                   /\ Printing(n, Todo)' \/ Lead(Todo', <<>>)
<1>1. /\ e \in Node /\ n.kind = "print" /\ e.kind \in {"variable", "index"}
      /\ e.kind = "index" => Object(n).kind = "variable" /\ Place(n).kind = "literal"
  BY PrintParts DEF PlainPrint, Object, Place
<1>2. /\ Task("accept", e) \in TaskType /\ Output(n) \in TaskType
      /\ e.kind = "index" =>
           /\ Task("accept", Object(n)) \in TaskType /\ Task("accept", Place(n)) \in TaskType
           /\ Task("requireArray", e) \in TaskType /\ Task("requireIndex", e) \in TaskType
  BY <1>1, PrintParts
<1>3. ASSUME NEW k, k # "none", Raise(k) PROVE Goal
  <2>1. frames' = frames /\ Todo' = Todo /\ vals' = vals /\ notified' = Absent /\ exc' # "none"
    BY <1>3 DEF Raise, Todo, Top, debugVars
  <2>2. ~Told(n)'
    BY <2>1 DEF Told
  <2>3. Due(n)' /\ \A v : (IsObject(v, n))'
    BY <2>2 DEF Due, IsObject
  <2>4. Printing(n, Todo)'
    BY <2>1, <2>2, <2>3 DEF Printing, IsObject
  <2> QED BY <2>1, <2>4
<1>4. ASSUME NEW ts \in Seq(TaskType), ts # <<>>, Lead(Todo, ts)
      PROVE  Todo # <<>> /\ Now = ts[1] /\ N = ts[1].node
  <2>0. Todo \in Seq(TaskType)
    BY WorkAtHand DEF FramesInv
  <2>1. Len(Todo) \in Nat /\ Len(ts) \in Nat \ {0}
    BY <1>4, <2>0, LenProperties, EmptySeq
  <2>2. 1 \in 1..Len(ts) /\ Len(Todo) >= 1 /\ Todo[1] = ts[1]
    BY <1>4, <2>1 DEF Lead
  <2>3. Todo # <<>>
    BY <2>2
  <2> QED BY <2>0, <2>2, <2>3, HeadTailProperties DEF Now, N
<1>5. ASSUME UNCHANGED <<exc, storeVars, debugVars>>
      PROVE  /\ notified' = Absent
             /\ Due(n) => Due(n)'
             /\ Told(n)' => Told(n)
             /\ \A v : IsObject(v, n) => (IsObject(v, n))'
  BY <1>5, KnownKept DEF storeVars, debugVars
<1> HIDE DEF e
<1>6. ASSUME Due(n), Lead(Todo, <<Task("accept", e), Output(n)>>) PROVE Goal
  <2> DEFINE ts == <<Task("accept", e), Output(n)>>
  <2>1. ts \in Seq(TaskType) /\ ts # <<>> /\ ts[1] = Task("accept", e) /\ Tail(ts) = <<Output(n)>>
    BY <1>2
  <2>2. Lead(Todo, ts)
    BY <1>6
  <2> HIDE DEF ts
  <2>3. Todo # <<>> /\ Now.op = "accept" /\ N = e
    BY <1>4, <2>1, <2>2 DEF Task
  <2>4. CASE e.kind = "variable"
    <3>1. VisitVariableExpr
      BY <2>3, <2>4, VisitorOf
    <3>2. ASSUME NEW v, Continue(<<>>), Push(v), UNCHANGED <<exc, storeVars, debugVars>>,
                 LeadsWhereSearched(e) => v = DebugLookup(e.tok)
          PROVE  Goal
      <4>1. /\ frames' # <<>> /\ Len(frames') = Len(frames)
            /\ \A i \in 1..Len(frames) : i # Len(frames) => frames'[i] = frames[i]
            /\ Lead(Todo', <<>> \o Tail(ts))
        BY <2>1, <2>2, <2>3, <3>2, ShortWork, OnTop
      <4>2. Lead(Todo', <<Output(n)>>)
        <5>1. <<>> \o <<Output(n)>> = <<Output(n)>>
          OBVIOUS
        <5> QED BY <2>1, <4>1, <5>1
      <4>3. vals'[1] = v
        BY <3>2, NewestValues
      <4>4. ASSUME Told(n)' PROVE vals'[1] = shown'.value
        <5>1. Told(n) /\ shown.value = Shown(e)
          BY <1>5, <1>6, <3>2, <4>4 DEF Due, e
        <5>2. LeadsWhereSearched(e)
          BY <2>4, <5>1 DEF Told, VariableOf, e
        <5> QED BY <2>4, <3>2, <4>3, <5>1, <5>2 DEF Shown
      <4> QED BY <1>5, <3>2, <4>1, <4>2, <4>4 DEF Printing
    <3> QED BY <1>3, <2>3, <3>1, <3>2, ReadIsLookup
  <2>5. CASE e.kind = "index"
    <3> DEFINE more == <<Task("accept", Object(n)), Task("requireArray", e),
                         Task("accept", Place(n)), Task("requireIndex", e)>>
    <3>1. Continue(more) /\ UNCHANGED <<vals, exc, storeVars, debugVars>>
      <4>1. VisitIndexed
        BY <2>3, <2>5, VisitorOf
      <4> QED BY <2>3, <4>1 DEF VisitIndexed, Object, Place, e
    <3>2. more \in Seq(TaskType)
      BY <1>2, <2>5
    <3> HIDE DEF more
    <3>3. /\ frames' # <<>> /\ Len(frames') = Len(frames)
          /\ \A i \in 1..Len(frames) : i # Len(frames) => frames'[i] = frames[i]
          /\ Lead(Todo', more \o Tail(ts))
      BY <2>1, <2>2, <2>3, <3>1, <3>2, OnTop
    <3>4. Lead(Todo', <<Task("accept", Object(n)), Task("requireArray", e),
                        Task("accept", Place(n)), Task("requireIndex", e), Output(n)>>)
      <4>1. more \o <<Output(n)>> = <<Task("accept", Object(n)), Task("requireArray", e),
                        Task("accept", Place(n)), Task("requireIndex", e), Output(n)>>
        BY FiveTasks DEF more
      <4> QED BY <2>1, <3>3, <4>1
    <3>5. Printing(n, Todo)'
      BY <1>5, <1>6, <2>5, <3>1, <3>4 DEF Printing, e
    <3> QED BY <1>5, <3>1, <3>3, <3>5
  <2> QED BY <1>1, <2>4, <2>5
\* The array of an element that is printed is read, and found to be one.
<1>7. ASSUME e.kind = "index", Due(n),
             Lead(Todo, <<Task("accept", Object(n)), Task("requireArray", e),
                          Task("accept", Place(n)), Task("requireIndex", e), Output(n)>>)
      PROVE  Goal
  <2> DEFINE ts == <<Task("accept", Object(n)), Task("requireArray", e),
                     Task("accept", Place(n)), Task("requireIndex", e), Output(n)>>
             next == <<Task("requireArray", e), Task("accept", Place(n)),
                       Task("requireIndex", e), Output(n)>>
  <2>1. ts \in Seq(TaskType) /\ ts # <<>> /\ ts[1] = Task("accept", Object(n)) /\ <<>> \o Tail(ts) = next
    BY <1>2, <1>7
  <2>2. Lead(Todo, ts)
    BY <1>7
  <2> HIDE DEF ts
  <2>3. Todo # <<>> /\ Now.op = "accept" /\ N = Object(n) /\ N.kind = "variable"
    BY <1>1, <1>4, <1>7, <2>1, <2>2 DEF Task
  <2>4. VisitVariableExpr
    BY <2>3, VisitorOf
  <2>5. ASSUME NEW v, Continue(<<>>), Push(v), UNCHANGED <<exc, storeVars, debugVars>>,
               LeadsWhereSearched(Object(n)) => v = DebugLookup(Object(n).tok)
        PROVE  Goal
    <3>1. /\ frames' # <<>> /\ Len(frames') = Len(frames)
          /\ \A i \in 1..Len(frames) : i # Len(frames) => frames'[i] = frames[i]
          /\ Lead(Todo', <<>> \o Tail(ts))
      BY <2>1, <2>2, <2>3, <2>5, ShortWork, OnTop
    <3>2. Lead(Todo', next)
      BY <2>1, <3>1
    <3>3. vals'[1] = v /\ Len(vals') >= 1
      BY <2>5, NewestValues
    <3>4. (IsObject(vals[1], n))'
      <4>1. DebugLookup(Object(n).tok)' = DebugLookup(Object(n).tok)
        BY <2>5, ShownKept DEF storeVars, Object
      <4>2. Told(n)' => LeadsWhereSearched(Object(n))
        BY <1>5, <1>7, <2>5 DEF Told, VariableOf, Object, e
      <4> QED BY <2>5, <3>3, <4>1, <4>2 DEF IsObject
    <3>5. Printing(n, Todo)'
      BY <1>5, <1>7, <2>5, <3>2, <3>3, <3>4 DEF Printing, e
    <3> QED BY <1>5, <2>5, <3>1, <3>5
  <2> QED BY <1>3, <2>3, <2>4, <2>5, ReadIsLookup
<1>8. ASSUME e.kind = "index", Due(n), Len(vals) >= 1, IsObject(vals[1], n),
             Lead(Todo, <<Task("requireArray", e), Task("accept", Place(n)),
                          Task("requireIndex", e), Output(n)>>)
      PROVE  Goal
  <2> DEFINE ts == <<Task("requireArray", e), Task("accept", Place(n)),
                     Task("requireIndex", e), Output(n)>>
             next == <<Task("accept", Place(n)), Task("requireIndex", e), Output(n)>>
  <2>1. ts \in Seq(TaskType) /\ ts # <<>> /\ ts[1] = Task("requireArray", e) /\ <<>> \o Tail(ts) = next
    BY <1>2, <1>8
  <2>2. Lead(Todo, ts)
    BY <1>8
  <2> HIDE DEF ts
  <2>3. Todo # <<>> /\ Now.op = "requireArray"
    BY <1>4, <2>1, <2>2 DEF Task
  <2>4. Raise("error") \/ (Continue(<<>>) /\ UNCHANGED <<vals, exc, storeVars, debugVars>>)
    BY <2>3, VisitorOf DEF RequireArray
  <2>5. ASSUME Continue(<<>>), UNCHANGED <<vals, exc, storeVars, debugVars>>
        PROVE  Goal
    <3>1. /\ frames' # <<>> /\ Len(frames') = Len(frames)
          /\ \A i \in 1..Len(frames) : i # Len(frames) => frames'[i] = frames[i]
          /\ Lead(Todo', <<>> \o Tail(ts))
      BY <2>1, <2>2, <2>3, <2>5, ShortWork, OnTop
    <3>2. Lead(Todo', next)
      BY <2>1, <3>1
    <3>3. Due(n)' /\ (IsObject(vals[1], n))'
      <4>1. DebugLookup(Object(n).tok)' = DebugLookup(Object(n).tok)
        BY <2>5, ShownKept DEF storeVars, Object
      <4> QED BY <1>5, <1>8, <2>5, <4>1 DEF IsObject
    <3>4. Printing(n, Todo)'
      BY <1>8, <2>5, <3>2, <3>3 DEF Printing, e
    <3> QED BY <1>5, <2>5, <3>1, <3>4
  <2> QED BY <1>3, <2>4, <2>5
\* Then the number, and with both the element.
<1>9. ASSUME e.kind = "index", Due(n), Len(vals) >= 1, IsObject(vals[1], n),
             Lead(Todo, <<Task("accept", Place(n)), Task("requireIndex", e), Output(n)>>)
      PROVE  Goal
  <2> DEFINE ts == <<Task("accept", Place(n)), Task("requireIndex", e), Output(n)>>
             next == <<Task("requireIndex", e), Output(n)>>
  <2>1. ts \in Seq(TaskType) /\ ts # <<>> /\ ts[1] = Task("accept", Place(n)) /\ <<>> \o Tail(ts) = next
    BY <1>2, <1>9
  <2>2. Lead(Todo, ts)
    BY <1>9
  <2> HIDE DEF ts
  <2>3. Todo # <<>> /\ Now.op = "accept" /\ N = Place(n) /\ N.kind = "literal"
    BY <1>1, <1>4, <1>9, <2>1, <2>2 DEF Task
  <2>4. Continue(<<>>) /\ Push(Place(n).val) /\ UNCHANGED <<exc, storeVars, debugVars>>
    BY <2>3, VisitorOf DEF VisitLiteralExpr
  <2>5. /\ frames' # <<>> /\ Len(frames') = Len(frames)
        /\ \A i \in 1..Len(frames) : i # Len(frames) => frames'[i] = frames[i]
        /\ Lead(Todo', <<>> \o Tail(ts))
    BY <2>1, <2>2, <2>3, <2>4, ShortWork, OnTop
  <2>6. Lead(Todo', next)
    BY <2>1, <2>5
  <2>7. vals'[1] = Place(n).val /\ vals'[2] = vals[1]
    BY <1>9, <2>4, NewestValues
  <2>8. Due(n)' /\ (IsObject(vals[2], n))' /\ (Told(n)' => vals'[1] = Place(n).val)
    <3>1. DebugLookup(Object(n).tok)' = DebugLookup(Object(n).tok)
      BY <2>4, ShownKept DEF storeVars, Object
    <3> QED BY <1>5, <1>9, <2>4, <2>7, <3>1 DEF IsObject
  <2>9. Printing(n, Todo)'
    BY <1>9, <2>6, <2>8 DEF Printing, e
  <2> QED BY <1>5, <2>4, <2>5, <2>9
<1>10. ASSUME e.kind = "index", Due(n), IsObject(vals[2], n), Told(n) => vals[1] = Place(n).val,
              Lead(Todo, <<Task("requireIndex", e), Output(n)>>)
       PROVE  Goal
  <2> DEFINE ts == <<Task("requireIndex", e), Output(n)>>
  <2>1. /\ ts \in Seq(TaskType) /\ ts # <<>> /\ ts[1] = Task("requireIndex", e)
        /\ <<>> \o Tail(ts) = <<Output(n)>>
    BY <1>2, <1>10
  <2>2. Lead(Todo, ts)
    BY <1>10
  <2> HIDE DEF ts
  <2>3. Todo # <<>> /\ Now.op = "requireIndex" /\ N = e
    BY <1>4, <2>1, <2>2 DEF Task
  <2>4. /\ Len(vals) >= 2 /\ vals[2].type = "array"
        /\ \/ Raise("error")
           \/ /\ InRange(vals[1], vals[2])
              /\ Continue(<<>>) /\ Replace(2, arrays[vals[2].n][vals[1].n + 1])
              /\ UNCHANGED <<exc, storeVars, debugVars>>
    BY <1>10, <2>3, VisitorOf DEF RequireIndex
  <2>5. ASSUME InRange(vals[1], vals[2]), Continue(<<>>),
               Replace(2, arrays[vals[2].n][vals[1].n + 1]),
               UNCHANGED <<exc, storeVars, debugVars>>
        PROVE  Goal
    <3>1. /\ frames' # <<>> /\ Len(frames') = Len(frames)
          /\ \A i \in 1..Len(frames) : i # Len(frames) => frames'[i] = frames[i]
          /\ Lead(Todo', <<>> \o Tail(ts))
      BY <2>1, <2>2, <2>3, <2>5, ShortWork, OnTop
    <3>2. Lead(Todo', <<Output(n)>>)
      BY <2>1, <3>1
    <3>3. vals'[1] = arrays[vals[2].n][vals[1].n + 1]
      BY <2>4, <2>5, NewestValues
    <3>4. ASSUME Told(n)' PROVE vals'[1] = shown'.value
      <4>1. Told(n) /\ shown.value = Shown(e) /\ vals[2] = DebugLookup(Object(n).tok)
            /\ vals[1] = Place(n).val
        BY <1>5, <1>10, <2>5, <3>4 DEF Due, IsObject, e
      <4>2. Shown(e) = ResolveIndexedWatch([name |-> Object(n).tok, index |-> Place(n).val.n])
        BY <1>10 DEF Shown, ElementOf, Object, Place, e
      <4>3. vals[1].n \in 0..(Len(arrays[vals[2].n]) - 1)
        BY <2>5 DEF InRange
      <4>4. Shown(e) = arrays[vals[2].n][vals[1].n + 1]
        BY <2>4, <4>1, <4>2, <4>3 DEF ResolveIndexedWatch
      <4> QED BY <3>3, <4>1, <4>4
    <3>5. Printing(n, Todo)'
      BY <3>2, <3>4 DEF Printing
    <3> QED BY <1>5, <2>5, <3>1, <3>5
  <2> QED BY <1>3, <2>4, <2>5
<1>11. ASSUME Lead(Todo, <<Output(n)>>) PROVE Goal
  <2> DEFINE ts == <<Output(n)>>
  <2>1. ts \in Seq(TaskType) /\ ts # <<>> /\ ts[1] = Output(n) /\ <<>> \o Tail(ts) = <<>>
    BY <1>2
  <2>2. Lead(Todo, ts)
    BY <1>11
  <2> HIDE DEF ts
  <2>3. Todo # <<>> /\ Now.op = "after" /\ N = n
    BY <1>4, <2>1, <2>2 DEF Task, Output
  <2>4. Continue(<<>>) /\ UNCHANGED <<exc, storeVars, debugVars>>
    BY <1>1, <2>3, VisitorOf DEF PrintValue
  <2>5. /\ frames' # <<>> /\ Len(frames') = Len(frames)
        /\ \A i \in 1..Len(frames) : i # Len(frames) => frames'[i] = frames[i]
        /\ Lead(Todo', <<>> \o Tail(ts))
    BY <2>1, <2>2, <2>3, <2>4, ShortWork, OnTop
  <2> QED BY <1>5, <2>1, <2>4, <2>5
<1> QED BY <1>6, <1>7, <1>8, <1>9, <1>10, <1>11 DEF Printing, e

-----------------------------------------------------------------------------
(* Any other step of the executor.                                          *)

LEMMA LeadNow ==
  ASSUME FramesInv, frames # <<>>, Todo # <<>>
  PROVE  /\ Todo \in Seq(TaskType) /\ Now \in TaskType
         /\ Lead(Todo, <<>>) => Lead(Todo, <<Now>>) /\ Quiet(Now)
<1>1. /\ Todo \in Seq(TaskType) /\ Len(Todo) \in Nat \ {0} /\ DOMAIN Todo = 1..Len(Todo)
      /\ Now = Todo[1] /\ 1 \in DOMAIN Todo /\ Now \in TaskType
  BY WorkOnTop
<1>2. ASSUME Lead(Todo, <<>>) PROVE Lead(Todo, <<Now>>) /\ Quiet(Now)
  <2>1. \A k \in DOMAIN Todo : Quiet(Todo[k])
    BY <1>1, <1>2, LeadNone
  <2>2. Len(<<Now>>) = 1 /\ <<Now>>[1] = Now /\ 1..1 = {1} /\ 1 <= Len(Todo)
    BY <1>1
  <2>3. Lead(Todo, <<Now>>)
    BY <1>1, <2>1, <2>2 DEF Lead
  <2> QED BY <1>1, <2>1, <2>3
<1> QED BY <1>1, <1>2

LEMMA WatchRun ==
  ASSUME FramesInv, WatchInv, Run, Lead(Todo, <<>>), UNCHANGED <<shown, inLoop>>, ~inLoop,
         observer \/ shown = Nothing
  PROVE  WatchInv'
<1> DEFINE more == <<Task("accept", N)>>
<1>1. /\ frames # <<>> /\ Todo # <<>> /\ exc = "none" /\ exc' = "none"
      /\ Continue(more) /\ notified' = IF observer /\ N.kind # "block" THEN N ELSE Absent
  BY DEF Run, At, Executing
<1>2. N \in Node /\ Task("accept", N) \in TaskType /\ more \in Seq(TaskType)
  BY <1>1, WorkAtHand, TaskIsTyped DEF FramesInv, PlainOp
<1>3. <<Now>> \in Seq(TaskType) /\ <<Now>> # <<>> /\ more \o Tail(<<Now>>) = more /\ Lead(Todo, <<Now>>)
  BY <1>1, LeadNow
<1> HIDE DEF more
<1>4. /\ frames' # <<>> /\ Len(frames') = Len(frames)
      /\ \A i \in 1..Len(frames) : i # Len(frames) => frames'[i] = frames[i]
      /\ Todo' \in Seq(TaskType) /\ Lead(Todo', more)
  BY <1>1, <1>2, <1>3, OnTop
<1>5. Todo' # <<>> /\ Now' = Task("accept", N)
  <2>1. Len(Todo') >= 1 /\ Todo'[1] = Task("accept", N)
    BY <1>4 DEF Lead, more
  <2>2. Todo' # <<>>
    BY <2>1
  <2> QED BY <1>4, <2>1, <2>2, HeadTailProperties DEF Now
<1>6. Followed(Todo)'
  <2>1. CASE N.kind = "print"
    <3>1. N # Absent
      <4>1. Absent.kind = "absent"
        BY DEF Absent, MkNode
      <4> QED BY <2>1, <4>1
    <3>2. notified' = Absent \/ inLoop' => shown.node = Absent
      BY <1>1, <2>1, <3>1 DEF Nothing
    <3>3. PICK n \in Node : n = N
      BY <1>2
    <3>4. notified' = Absent \/ inLoop' => Due(n)'
      BY <3>1, <3>2, <3>3 DEF Due, Told
    <3>5. n.kind = "print" /\ Lead(Todo', <<Task("accept", n)>>)
      BY <1>4, <2>1, <3>3 DEF more
    <3> QED BY <3>4, <3>5 DEF Followed
  <2>2. CASE N.kind # "print"
    <3>1. \A k \in 1..Len(more) : Quiet(more[k])
      BY <2>2 DEF Quiet, Task, more
    <3>2. Lead(Todo', <<>>)
      BY <1>2, <1>4, <3>1, LeadQuiet
    <3> QED BY <3>2 DEF Followed
  <2> QED BY <2>1, <2>2
<1>7. \A i \in 1..Len(frames') : i # Len(frames') => Lead(frames'[i].work, <<>>)
  BY <1>4 DEF WatchInv
<1> QED BY <1>1, <1>4, <1>5, <1>6, <1>7 DEF WatchInv

LEMMA WatchProceeds ==
  ASSUME FramesInv, WatchInv, Proceeds, ExecutorStep, ~Run, notified' = Absent,
         Lead(Todo, <<>>), UNCHANGED shown
  PROVE  WatchInv'
<1>1. frames # <<>> /\ Todo # <<>> /\ exc = "none"
  BY DEF Proceeds
<1>2. /\ Len(frames) \in Nat \ {0} /\ Len(frames') = Len(frames)
      /\ \A i \in 1..Len(frames) : i # Len(frames) => frames'[i] = frames[i]
      /\ \/ frames'[Len(frames)].work = Todo
         \/ \E more \in Seq(Onward) : frames'[Len(frames)].work = more \o Tail(Todo)
  BY ProceedsFrames
<1>3. Todo' = frames'[Len(frames)].work
  BY <1>2 DEF Todo, Top
<1>4. ASSUME NEW t \in Onward PROVE Quiet(t)
  <2>1. Now.op # "run" /\ Quiet(Now)
    BY <1>1, VisitorOf, LeadNow
  <2>2. Visits(t) => t.node = N /\ Now.op = IF t.op = "accept" THEN "run" ELSE "accept"
    BY DEF Onward
  <2> QED BY <2>1, <2>2 DEF Quiet, Visits, N
<1>5. ASSUME NEW more \in Seq(Onward), Todo' = more \o Tail(Todo)
      PROVE  Lead(Todo', <<>>)
  <2>1. more \in Seq(TaskType) /\ Len(more) \in Nat /\ \A k \in 1..Len(more) : more[k] \in Onward
    <3>1. Onward \subseteq TaskType
      BY DEF Onward
    <3> QED BY <3>1, SeqMonotonic, LenProperties, ElementOfSeq
  <2>2. Todo \in Seq(TaskType) /\ <<Now>> \in Seq(TaskType) /\ <<Now>> # <<>> /\ Lead(Todo, <<Now>>)
    BY <1>1, LeadNow
  <2>3. more \o Tail(<<Now>>) = more
    <3>1. Tail(<<Now>>) = <<>>
      OBVIOUS
    <3> QED BY <2>1, <3>1, ConcatEmptySeq
  <2>4. Lead(more \o Tail(Todo), more)
    BY <1>1, <2>1, <2>2, <2>3, LeadOn
  <2>5. more \o Tail(Todo) \in Seq(TaskType)
    BY <1>1, <2>1, <2>2, ConsumeWork
  <2>6. \A k \in 1..Len(more) : Quiet(more[k])
    BY <1>4, <2>1
  <2> QED BY <1>5, <2>1, <2>4, <2>5, <2>6, LeadQuiet
<1>6. Lead(Todo', <<>>)
  BY <1>2, <1>3, <1>5
<1>7. \A i \in 1..Len(frames') : i # Len(frames') => Lead(frames'[i].work, <<>>)
  BY <1>2 DEF WatchInv
<1> QED BY <1>6, <1>7 DEF WatchInv, Followed

LEMMA WatchEnters ==
  ASSUME FramesInv, WatchInv, Enters, notified' = Absent, Lead(Todo, <<>>), UNCHANGED shown
  PROVE  WatchInv'
<1>1. frames # <<>> /\ Todo # <<>> /\ Todo \in Seq(TaskType)
  BY WorkAtHand DEF Enters, FramesInv
<1>2. /\ Len(frames) \in Nat \ {0} /\ Len(frames') = Len(frames) + 1
      /\ \A i \in 1..Len(frames) : i # Len(frames) => frames'[i] = frames[i]
      /\ frames'[Len(frames)].work = Tail(Todo)
      /\ frames'[Len(frames) + 1].work \in Seq(TaskType)
      /\ Opens(frames'[Len(frames) + 1].kind, frames'[Len(frames) + 1].work)
  BY EntersFrames
<1>3. Todo' = frames'[Len(frames) + 1].work
  BY <1>2 DEF Todo, Top
<1>4. \A k \in DOMAIN Todo' : Quiet(Todo'[k])
  BY <1>2, <1>3 DEF Opens, Visits, Quiet
<1>5. Lead(Todo', <<>>)
  BY <1>2, <1>3, <1>4, LeadNone
<1>6. Lead(Tail(Todo), <<>>)
  BY <1>1, LeadTail
<1>7. ASSUME NEW i \in 1..Len(frames'), i # Len(frames') PROVE Lead(frames'[i].work, <<>>)
  <2>1. CASE i = Len(frames)
    BY <1>2, <1>6, <2>1
  <2>2. CASE i # Len(frames)
    <3>1. i \in 1..Len(frames)
      BY <1>2, <1>7
    <3> QED BY <1>2, <2>2, <3>1 DEF WatchInv
  <2> QED BY <2>1, <2>2
<1> QED BY <1>5, <1>7 DEF WatchInv, Followed

LEMMA WatchLeaves ==
  ASSUME FramesInv, WatchInv, Leaves, notified' = Absent, UNCHANGED shown
  PROVE  WatchInv'
<1>1. /\ Len(frames) \in Nat \ {0} /\ Len(frames') = Len(frames) - 1
      /\ \A i \in 1..(Len(frames) - 1) : frames'[i] = frames[i]
  BY LeavesFrames
<1>2. \A i \in 1..Len(frames') : Lead(frames'[i].work, <<>>)
  BY <1>1 DEF WatchInv
<1>3. frames' # <<>> => Lead(Todo', <<>>)
  <2>1. ASSUME frames' # <<>> PROVE Len(frames') \in 1..Len(frames')
    <3>1. frames' \in Seq(FrameType)
      BY LeavesInv DEF FramesInv, FramesTyped
    <3> QED BY <2>1, <3>1, EmptySeq, LenProperties
  <2> QED BY <1>2, <2>1 DEF Todo, Top
<1> QED BY <1>2, <1>3 DEF WatchInv, Followed

LEMMA WatchPrint ==
  ASSUME FramesInv, WatchInv, ExecutorStep, frames # <<>>, exc = "none", notified = Absent,
         notified' = Absent, UNCHANGED <<shown, distance>>,
         NEW n \in Node, n.kind = "print", Lead(Todo, <<Task("accept", n)>>), Due(n)
  PROVE  WatchInv'
<1> DEFINE e == n.kids[1]
           ts == <<Task("accept", n)>>
           more == <<Task("accept", e), Output(n)>>
<1>1. /\ Task("accept", n) \in TaskType /\ Task("accept", e) \in TaskType /\ Output(n) \in TaskType
      /\ e.kind \in ExprKind
  BY PrintParts
<1>2. /\ ts \in Seq(TaskType) /\ ts # <<>> /\ ts[1] = Task("accept", n) /\ more \o Tail(ts) = more
      /\ more \in Seq(TaskType) /\ Len(ts) = 1 /\ Len(more) = 2
      /\ more[1] = Task("accept", e) /\ more[2] = Output(n)
  BY <1>1
<1>3. Lead(Todo, ts)
  OBVIOUS
<1> HIDE DEF ts, more, e
<1>4. Todo # <<>> /\ Now = Task("accept", n)
  <2>1. Todo \in Seq(TaskType) /\ Len(Todo) >= 1 /\ Todo[1] = Task("accept", n)
    BY <1>2, <1>3, WorkAtHand DEF Lead, FramesInv
  <2>2. Todo # <<>>
    BY <2>1
  <2> QED BY <2>1, <2>2, HeadTailProperties DEF Now
<1>5. Continue(more) /\ UNCHANGED <<vals, exc, storeVars, debugVars>>
  <2>1. EvaluateFirst /\ N = n
    BY <1>4, VisitorOf DEF Task, N
  <2> QED BY <2>1 DEF EvaluateFirst, more, e, Output
<1>6. /\ frames' # <<>> /\ Len(frames') = Len(frames)
      /\ \A i \in 1..Len(frames) : i # Len(frames) => frames'[i] = frames[i]
      /\ Todo' \in Seq(TaskType) /\ Lead(Todo', more)
  BY <1>2, <1>3, <1>4, <1>5, OnTop
<1>7. Followed(Todo)'
  <2>1. CASE PlainPrint(n)
    <3>1. Due(n)'
      BY <1>5, KnownKept DEF storeVars
    <3>2. Printing(n, Todo)'
      BY <1>6, <3>1 DEF Printing, more, e
    <3> QED BY <2>1, <3>2 DEF Followed
  <2>2. CASE ~PlainPrint(n)
    <3>1. Quiet(more[1]) /\ Quiet(more[2])
      BY <1>1, <1>2, <2>2 DEF Quiet, Task, Output, ExprKind, e
    <3>2. \A k \in 1..Len(more) : Quiet(more[k])
      <4>1. 1..2 = {1, 2}
        OBVIOUS
      <4> QED BY <1>2, <3>1, <4>1
    <3>3. Lead(Todo', <<>>)
      BY <1>2, <1>6, <3>2, LeadQuiet
    <3> QED BY <3>3 DEF Followed
  <2> QED BY <2>1, <2>2
<1>8. \A i \in 1..Len(frames') : i # Len(frames') => Lead(frames'[i].work, <<>>)
  BY <1>6 DEF WatchInv
<1> QED BY <1>7, <1>8 DEF WatchInv

LEMMA WatchExecutor ==
  ASSUME ExecutorInv, DistancesTyped, WatchInv, ExecutorStep,
         UNCHANGED <<shown, inLoop, distance>>, ~inLoop, observer \/ shown = Nothing
  PROVE  WatchInv'
<1>1. FramesInv /\ (Proceeds \/ Enters \/ Leaves \/ Crashes)
  BY StepKinds
<1>2. notified = Absent /\ (notified' = Absent \/ Run)
  BY OnlyRunNotifies
<1>3. CASE notified' = Absent /\ Leaves
  BY <1>1, <1>3, WatchLeaves
<1>4. CASE notified' = Absent /\ Crashes
  <2>1. frames' = <<>> /\ Len(frames') = 0 /\ 1..0 = {}
    BY <1>4 DEF Crashes
  <2> QED BY <1>4, <2>1 DEF WatchInv
<1>5. CASE Run \/ Proceeds \/ Enters
  <2>1. frames # <<>> /\ exc = "none" /\ Todo # <<>>
    BY <1>5 DEF Run, At, Executing, Proceeds, Enters
  <2>2. Followed(Todo)
    BY <2>1 DEF WatchInv
  <2>3. CASE Lead(Todo, <<>>)
    BY <1>1, <1>2, <1>3, <1>4, <2>3, WatchRun, WatchProceeds, WatchEnters
  <2>4. ASSUME NEW n \in Node, n.kind = "print", Lead(Todo, <<Task("accept", n)>>),
               notified = Absent => Due(n)
        PROVE  WatchInv'
    <3>1. Now = Task("accept", n)
      <4>1. Len(<<Task("accept", n)>>) = 1 /\ <<Task("accept", n)>>[1] = Task("accept", n)
        OBVIOUS
      <4>2. Todo[1] = Task("accept", n)
        BY <2>4, <4>1 DEF Lead
      <4> QED BY <1>1, <2>1, <4>2, WorkOnTop
    <3>2. ~Run
      BY <3>1 DEF Run, At, Task
    <3> QED BY <1>1, <1>2, <2>1, <2>4, <3>2, WatchPrint
  <2>5. ASSUME NEW n \in Node, PlainPrint(n), Printing(n, Todo)
        PROVE  WatchInv'
    <3>1. /\ frames' # <<>> /\ Len(frames') = Len(frames) /\ notified' = Absent
          /\ \A i \in 1..Len(frames) : i # Len(frames) => frames'[i] = frames[i]
          /\ Printing(n, Todo)' \/ Lead(Todo', <<>>)
      BY <1>1, <1>2, <2>1, <2>5, PrintingStep
    <3>2. Followed(Todo)'
      BY <2>5, <3>1 DEF Followed
    <3>3. \A i \in 1..Len(frames') : i # Len(frames') => Lead(frames'[i].work, <<>>)
      BY <3>1 DEF WatchInv
    <3> QED BY <3>1, <3>2, <3>3 DEF WatchInv
  <2> QED BY <1>2, <2>2, <2>3, <2>4, <2>5 DEF Followed
<1> QED BY <1>1, <1>2, <1>3, <1>4, <1>5

\* Where the frames stay as they are, so does what they are in.
LEMMA WatchSame ==
  ASSUME WatchInv, UNCHANGED <<frames, vals, exc, storeVars, notified, inLoop, shown, distance>>
  PROVE  WatchInv'
<1>1. Todo' = Todo /\ Now' = Now /\ UNCHANGED <<envs, env, arrays>>
  BY DEF Todo, Now, Top, storeVars
<1>2. ASSUME NEW n
      PROVE  /\ Told(n)' = Told(n) /\ (Due(n) => Due(n)')
             /\ \A v : IsObject(v, n) => (IsObject(v, n))'
  <2>1. Shown(n.kids[1])' = Shown(n.kids[1]) /\ DebugLookup(Object(n).tok)' = DebugLookup(Object(n).tok)
    BY <1>1, ShownKept DEF Object
  <2>2. LeadsWhereSearched(VariableOf(n.kids[1]))' = LeadsWhereSearched(VariableOf(n.kids[1]))
    BY <1>1, LeadsKept
  <2> QED BY <2>1, <2>2 DEF Told, Due, IsObject
<1>3. ASSUME NEW n, Printing(n, Todo)
      PROVE  Printing(n, Todo)'
  BY <1>1, <1>2, <1>3 DEF Printing
<1>4. Followed(Todo) => Followed(Todo)'
  BY <1>1, <1>2, <1>3 DEF Followed
<1> QED BY <1>1, <1>4 DEF WatchInv

LEMMA ShellAtWork ==
  ASSUME ShellAlone, phase = "execute", frames # <<>>
  PROVE  UNCHANGED <<frames, vals, exc, storeVars, notified, distance>>
BY DEF bindingVars, ShellAlone, Input, ProcessLine, Precheck, LoadFile, LoadFails, InputAllowed, NextStatement,
       EndOfFile, Checking, PrecheckDone, CheckRejects, CheckAccepts, Optimizing, ExecuteReturns,
       ExecuteThrows, ProcessDies, Stopped, vars, executorVars, storeVars

LEMMA WatchSession ==
  ASSUME DebugRestInv, HeardInv, WatchInv, [Next]_vars, UNCHANGED debuggerVars
  PROVE  WatchInv'
<1>1. UNCHANGED <<shown, inLoop>> /\ (inLoop => notified # Absent)
  BY DEF debuggerVars, watchVars, DebugRestInv, DebugMachineInv, StopInv
<1>2. /\ frames # <<>> => phase = "execute"
      /\ ExecutorInv /\ DistancesTyped
  BY DEF DebugRestInv, RestInv, ContractInv, RunsInPhase, MachineInv, BindingInv, BindingTypeOK,
         DistancesTyped
<1>3. CASE Interpreting
  <2>1. ExecutorStep /\ phase = "execute" /\ UNCHANGED distance
    BY <1>3 DEF Interpreting, bindingVars
  <2>2. notified = Absent
    BY <2>1, OnlyRunNotifies
  <2>3. observer \/ shown = Nothing
    BY <2>1 DEF HeardInv, Finished
  <2> QED BY <1>1, <1>2, <2>1, <2>2, <2>3, WatchExecutor
<1>4. CASE OptimizeDone
  <2> DEFINE stmts == Fold(current)
             work == Tasks("run", stmts)
  <2>1. frames = <<>> /\ frames' = <<Frame("execute", work)>> /\ notified' = notified
    BY <1>4 DEF OptimizeDone, ExecuteBegin, debugVars
  <2>2. notified' = Absent
    BY <2>1 DEF WatchInv
  <2> HIDE DEF work
  <2>3. Len(frames') = 1 /\ Todo' = work /\ work \in Seq(TaskType)
    <3>1. frames'[1].work = work /\ Len(frames') = 1
      BY <2>1 DEF Frame
    <3>2. frames' \in Seq(FrameType)
      <4>1. MachineInv'
        BY MachineNext DEF DebugRestInv, RestInv, ContractInv
      <4>2. exc' # "crash"
        BY <2>1, <4>1, <1>4 DEF MachineInv, ExecutorInv
      <4> QED BY <4>1, <4>2 DEF MachineInv, ExecutorInv, FramesInv, FramesTyped
    <3>3. frames'[1] \in FrameType
      BY <3>1, <3>2, ElementOfSeq
    <3> QED BY <3>1, <3>3 DEF Todo, Top, FrameType
  <2>4. \A k \in DOMAIN work : Quiet(work[k])
    BY DEF work, Tasks, Task, Quiet
  <2>5. Lead(Todo', <<>>)
    BY <2>3, <2>4, LeadNone
  <2>6. \A i \in 1..Len(frames') : i = Len(frames')
    BY <2>3
  <2> QED BY <1>1, <2>2, <2>5, <2>6 DEF WatchInv, Followed
<1>5. CASE ShellAlone
  <2>1. CASE frames # <<>>
    BY <1>1, <1>2, <1>5, <2>1, ShellAtWork, WatchSame
  <2>2. CASE frames = <<>>
    <3>1. notified = Absent /\ frames' = <<>>
      BY <1>5, <2>2, ShellLeavesExecutor DEF WatchInv
    <3>2. notified' = Absent
      BY <1>5, <3>1 DEF ShellAlone, Input, Stopped, vars, executorVars, ProcessLine, Precheck,
         LoadFile, LoadFails, NextStatement, EndOfFile, Checking, PrecheckDone, CheckRejects,
         CheckAccepts, Optimizing, ExecuteReturns, ExecuteThrows, ProcessDies
    <3>3. Len(frames') = 0 /\ 1..0 = {}
      BY <3>1
    <3> QED BY <1>1, <3>1, <3>2, <3>3 DEF WatchInv
  <2> QED BY <2>1, <2>2
<1> QED BY <1>3, <1>4, <1>5, NextIs

\* A stop shows what there is; a command changes neither that nor the program.
LEMMA WatchStop ==
  ASSUME FramesInv, WatchInv, BeforeStatement, UNCHANGED <<frames, vals, storeVars>>
  PROVE  WatchInv'
<1>1. /\ notified # Absent /\ frames # <<>> /\ Todo # <<>> /\ exc = "none" /\ exc' = exc
      /\ Now = Task("accept", notified)
  BY DEF BeforeStatement, WatchInv
<1>2. Todo' = Todo /\ Now' = Now /\ UNCHANGED <<frames, envs, env, arrays>>
  BY DEF Todo, Now, Top, storeVars
<1>3. CASE ShouldPause
  <2>1. inLoop' = TRUE /\ shown' = ReportWatches(notified) /\ notified' = notified
    BY <1>3 DEF BeforeStatement
  <2>2. PICK n : n = notified
    OBVIOUS
  <2>3. /\ shown'.node = Absent \/ (shown'.node = n /\ shown'.value = Shown(n.kids[1]))
        /\ shown'.node = n /\ n # Absent =>
             /\ n.kind = "print"
             /\ LET e == n.kids[1] IN
                \/ e.kind = "variable"
                \/ e.kind = "index" /\ e.kids[1].kind = "variable" /\ e.kids[2].kind = "literal"
    BY <2>1, <2>2 DEF ReportWatches, Nothing, Shown
  <2>4. ASSUME NEW m \in Node, m.kind = "print", Lead(Todo, <<Task("accept", m)>>)
        PROVE  m = n /\ Due(m)'
    <3>1. Len(<<Task("accept", m)>>) = 1 /\ <<Task("accept", m)>>[1] = Task("accept", m)
      OBVIOUS
    <3>2. Todo[1] = Task("accept", m)
      BY <2>4, <3>1 DEF Lead
    <3>3. m = n
      BY <1>1, <2>2, <3>2 DEF Now, Task
    <3>4. Shown(m.kids[1])' = Shown(m.kids[1])
      BY <1>2, ShownKept
    <3>5. Absent # m
      BY <1>1, <2>2, <3>3
    <3> QED BY <2>3, <3>3, <3>4, <3>5 DEF Due, Told
  <2>5. Followed(Todo)'
    <3>1. CASE Lead(Todo, <<>>)
      BY <1>2, <3>1 DEF Followed
    <3>2. ASSUME NEW m \in Node, m.kind = "print", Lead(Todo, <<Task("accept", m)>>)
          PROVE  Followed(Todo)'
      BY <1>2, <2>4, <3>2 DEF Followed
    <3> QED BY <1>1, <3>1, <3>2 DEF WatchInv, Followed
  <2>6. n \in Node
    <3>1. N \in Node
      BY <1>1, WorkAtHand DEF FramesInv
    <3> QED BY <1>1, <2>2, <3>1 DEF N, Task
  <2>7. shown'.node # Absent => PlainPrint(shown'.node)
    BY <2>3, <2>6 DEF PlainPrint
  <2>8. Now' = Task("accept", notified')
    BY <1>1, <1>2, <2>1
  <2> QED BY <1>1, <1>2, <2>5, <2>7, <2>8 DEF WatchInv
<1>4. CASE ~ShouldPause
  <2>1. notified' = Absent /\ shown' = Nothing
    BY <1>4 DEF BeforeStatement
  <2>2. ASSUME NEW m \in Node, m.kind = "print" PROVE Due(m)'
    <3>1. Absent.kind = "absent"
      BY DEF Absent, MkNode
    <3> QED BY <2>1, <2>2, <3>1 DEF Due, Told, Nothing
  <2>3. Followed(Todo)'
    <3>1. CASE Lead(Todo, <<>>)
      BY <1>2, <3>1 DEF Followed
    <3>2. ASSUME NEW m \in Node, m.kind = "print", Lead(Todo, <<Task("accept", m)>>)
          PROVE  Followed(Todo)'
      BY <1>2, <2>2, <3>2 DEF Followed
    <3> QED BY <1>1, <3>1, <3>2 DEF WatchInv, Followed
  <2> QED BY <1>2, <2>1, <2>3 DEF WatchInv, Nothing
<1> QED BY <1>3, <1>4

LEMMA WatchCommand ==
  ASSUME WatchInv, StopInv, Debugging, ~BeforeStatement
  PROVE  WatchInv'
<1>0. UNCHANGED distance
  BY DEF Debugging, bindingVars
<1>1. /\ inLoop /\ notified # Absent /\ UNCHANGED <<frames, vals, storeVars, shown>>
      /\ \/ exc' = exc \/ notified' = Absent
      /\ \/ notified' = notified /\ inLoop' = inLoop /\ exc' = exc
         \/ notified' = Absent
  BY DEF Debugging, DebuggerStep, StopInv, Resume, CmdStep, CmdNext, CmdContinue, CmdQuit, CmdBreak,
         CmdRemove, CmdWatch, CmdUnwatch, watchVars
<1>2. /\ Todo' = Todo /\ Now' = Now /\ UNCHANGED <<envs, env, arrays>>
      /\ frames # <<>> /\ exc = "none"
  BY <1>1 DEF Todo, Now, Top, storeVars, WatchInv
<1>3. ASSUME NEW m, Due(m) PROVE Due(m)'
  <2>1. Shown(m.kids[1])' = Shown(m.kids[1])
    BY <1>2, ShownKept
  <2>2. LeadsWhereSearched(VariableOf(m.kids[1]))' = LeadsWhereSearched(VariableOf(m.kids[1]))
    BY <1>0, <1>2, LeadsKept
  <2> QED BY <1>1, <1>2, <1>3, <2>1, <2>2 DEF Due, Told
<1>4. Followed(Todo)'
  <2>1. CASE Lead(Todo, <<>>)
    BY <1>2, <2>1 DEF Followed
  <2>2. ASSUME NEW m \in Node, m.kind = "print", Lead(Todo, <<Task("accept", m)>>), Due(m)
        PROVE  Followed(Todo)'
    BY <1>2, <1>3, <2>2 DEF Followed
  <2> QED BY <1>1, <1>2, <2>1, <2>2 DEF WatchInv, Followed
<1> QED BY <1>1, <1>2, <1>4 DEF WatchInv

-----------------------------------------------------------------------------
(* Who hears of a statement, and the theorem.                               *)

LEMMA HeardInit == DebugInit => HeardInv
BY ObserverInit DEF DebugInit, DebuggerInit, Init, ExecutorInit, HeardInv

LEMMA HeardNext ==
  ASSUME DebugRestInv, HeardInv, WatchInv, [DebugNext]_debugSessionVars
  PROVE  HeardInv'
<1>1. ObserverInv'
  BY ObserverNext DEF HeardInv
<1>2. notified # Absent => phase = "execute" /\ frames # <<>>
  BY DEF WatchInv, DebugRestInv, RestInv, ContractInv, RunsInPhase
<1>3. CASE Debugging
  <2>1. /\ UNCHANGED <<observer, phase>>
        /\ notified # Absent
        /\ shown' # shown => notified # Absent
        /\ notified' = notified \/ notified' = Absent
    BY <1>3 DEF Debugging, DebuggerStep, sessionVars, BeforeStatement, Resume, CmdStep, CmdNext,
         CmdContinue, CmdQuit, CmdBreak, CmdRemove, CmdWatch, CmdUnwatch, watchVars, DebugRestInv,
         DebugMachineInv, StopInv
  <2> QED BY <1>1, <2>1 DEF HeardInv
<1>4. CASE ExecuteQuits
  <2>1. phase' = "ok" /\ notified' = notified /\ frames = <<>>
    BY <1>4 DEF ExecuteQuits
  <2> QED BY <1>1, <1>2, <2>1 DEF HeardInv, Finished
<1>5. ASSUME [Next]_vars, UNCHANGED debuggerVars PROVE HeardInv'
  <2>1. shown' = shown
    BY <1>5 DEF debuggerVars, watchVars
  <2>2. CASE Interpreting
    <3>1. /\ UNCHANGED <<observer, phase>>
          /\ notified' # Absent => observer
      BY <2>2, OnlyRunNotifies, ObserverStays DEF Interpreting, sessionVars, Run
    <3> QED BY <1>1, <2>1, <3>1 DEF HeardInv, Finished
  <2>3. CASE OptimizeDone
    <3>1. observer' = observer /\ notified' = notified /\ ~Finished /\ frames = <<>>
      BY <2>3 DEF OptimizeDone, ExecuteBegin, debugVars, Finished
    <3> QED BY <1>1, <2>1, <3>1 DEF HeardInv
  <2>4. CASE ShellAlone
    <3>1. notified' = notified
      BY <2>4 DEF ShellAlone, Input, Stopped, vars, executorVars, ProcessLine, Precheck,
         LoadFile, LoadFails, NextStatement, EndOfFile, Checking, PrecheckDone, CheckRejects,
         CheckAccepts, Optimizing, ExecuteReturns, ExecuteThrows, ProcessDies
    <3>2. CASE Input
      <4>1. ~Finished /\ phase = "idle" /\ notified = Absent
        BY <1>2, <3>2 DEF Input, ProcessLine, Precheck, LoadFile, LoadFails, InputAllowed, Finished
      <4>2. shown = Nothing
        BY <4>1 DEF HeardInv, ObserverInv
      <4> QED BY <1>1, <2>1, <3>1, <4>1, <4>2 DEF HeardInv
    <3>3. CASE UNCHANGED vars
      BY <1>1, <2>1, <3>3 DEF HeardInv, vars, sessionVars, executorVars, Finished
    <3>4. CASE Stopped
      BY <1>1, <2>1, <3>4 DEF Stopped, HeardInv, vars, sessionVars, executorVars, Finished
    <3>5. CASE Checking \/ PrecheckDone \/ CheckAccepts \/ NextStatement \/ Optimizing \/ ExecuteReturns
      <4>1. observer' = observer /\ ~Finished
        BY <3>5 DEF NextStatement, Checking, PrecheckDone, CheckAccepts, Optimizing, ExecuteReturns,
           executorVars, Finished
      <4> QED BY <1>1, <2>1, <3>1, <4>1 DEF HeardInv
    <3>6. CASE CheckRejects \/ ExecuteThrows \/ EndOfFile \/ ProcessDies
      <4>1. /\ notified = Absent
            /\ Finished' \/ mode = "repl"
            /\ ~Finished
        BY <1>2, <3>6 DEF CheckRejects, ExecuteThrows, EndOfFile, ProcessDies, AfterFailure, Finished
      <4>2. mode = "repl" => shown = Nothing
        BY <4>1 DEF HeardInv, ObserverInv
      <4> QED BY <1>1, <2>1, <3>1, <4>1, <4>2 DEF HeardInv
    <3> QED BY <2>4, <3>2, <3>3, <3>4, <3>5, <3>6 DEF ShellAlone
  <2> QED BY <1>5, <2>2, <2>3, <2>4, NextIs
<1>6. UNCHANGED debugSessionVars => UNCHANGED vars /\ UNCHANGED debuggerVars
  BY DEF debugSessionVars
<1> QED BY <1>3, <1>4, <1>5, <1>6 DEF DebugNext

LEMMA WatchInit == DebugInit => WatchInv
<1> SUFFICES ASSUME DebugInit PROVE WatchInv
  OBVIOUS
<1>1. frames = <<>> /\ notified = Absent /\ shown = Nothing
  BY DEF DebugInit, DebuggerInit, Init, ExecutorInit
<1>2. Len(frames) = 0 /\ 1..0 = {}
  BY <1>1
<1> QED BY <1>1, <1>2 DEF WatchInv, Nothing

LEMMA WatchNext ==
  ASSUME DebugRestInv, HeardInv, WatchInv, [DebugNext]_debugSessionVars
  PROVE  WatchInv'
<1>1. CASE Debugging
  <2>1. /\ FramesInv \/ notified = Absent
        /\ StopInv
    BY DEF DebugRestInv, DebugMachineInv, StopInv, MachineInv, ExecutorInv
  <2>2. CASE BeforeStatement
    BY <1>1, <2>1, <2>2, WatchStop DEF Debugging, DebuggerStep, BeforeStatement
  <2>3. CASE ~BeforeStatement
    BY <1>1, <2>1, <2>3, WatchCommand
  <2> QED BY <2>2, <2>3
<1>2. CASE ExecuteQuits
  <2>1. frames = <<>> /\ frames' = <<>> /\ notified' = notified /\ shown' = shown
    BY <1>2 DEF ExecuteQuits, debuggerVars, watchVars
  <2>2. Len(frames') = 0 /\ 1..0 = {}
    BY <2>1
  <2> QED BY <2>1, <2>2 DEF WatchInv
<1>3. UNCHANGED debugSessionVars => UNCHANGED vars /\ UNCHANGED debuggerVars
  BY DEF debugSessionVars
<1> QED BY <1>1, <1>2, <1>3, WatchSession DEF DebugNext

\* Of a print that is about to give its value away the value is the one the stop showed.
LEMMA WatchHolds ==
  ASSUME FramesInv, WatchInv
  PROVE  WatchIsWhatIsPrinted
<1> SUFFICES ASSUME After("print"), shown.node = N, LeadsWhereSearched(VariableOf(N.kids[1]))
             PROVE  vals[1] = shown.value
  BY DEF WatchIsWhatIsPrinted
<1>1. frames # <<>> /\ Todo # <<>> /\ exc = "none" /\ Now.op = "after" /\ N.kind = "print"
  BY DEF After, At, Executing
<1>2. Todo \in Seq(TaskType) /\ Len(Todo) >= 1 /\ Now = Todo[1] /\ 1 \in DOMAIN Todo
  BY <1>1, WorkOnTop
<1>3. PlainPrint(N) /\ Told(N)
  <2>1. Absent.kind = "absent"
    BY DEF Absent, MkNode
  <2> QED BY <1>1, <2>1 DEF WatchInv, Told
<1>4. ~Lead(Todo, <<>>)
  BY <1>1, <1>2, <1>3, LeadNone DEF Quiet, N
<1>5. ASSUME NEW ts, NEW t, Lead(Todo, ts), ts[1] = t, Len(ts) \in Nat \ {0} PROVE Now = t
  BY <1>2, <1>5 DEF Lead
<1>6. ASSUME NEW n \in Node, Lead(Todo, <<Task("accept", n)>>) PROVE FALSE
  <2>1. Len(<<Task("accept", n)>>) \in Nat \ {0} /\ <<Task("accept", n)>>[1] = Task("accept", n)
    OBVIOUS
  <2>2. Now = Task("accept", n)
    BY <1>5, <1>6, <2>1
  <2> QED BY <1>1, <2>2 DEF Task
<1>7. ASSUME NEW n \in Node, PlainPrint(n), Printing(n, Todo) PROVE vals[1] = shown.value
  <2> DEFINE e == n.kids[1]
  <2>1. ASSUME NEW ts, Lead(Todo, ts), Len(ts) \in Nat \ {0}, ts[1].op # "after" PROVE FALSE
    BY <1>1, <1>5, <2>1
  <2>2. ~Lead(Todo, <<Task("accept", e), Output(n)>>)
    BY <2>1 DEF Task
  <2>3. ~Lead(Todo, <<Task("accept", Object(n)), Task("requireArray", e),
                      Task("accept", Place(n)), Task("requireIndex", e), Output(n)>>)
    BY <2>1 DEF Task
  <2>4. ~Lead(Todo, <<Task("requireArray", e), Task("accept", Place(n)),
                      Task("requireIndex", e), Output(n)>>)
    BY <2>1 DEF Task
  <2>5. ~Lead(Todo, <<Task("accept", Place(n)), Task("requireIndex", e), Output(n)>>)
    BY <2>1 DEF Task
  <2>6. ~Lead(Todo, <<Task("requireIndex", e), Output(n)>>)
    BY <2>1 DEF Task
  <2>7. Lead(Todo, <<Output(n)>>) /\ (Told(n) => vals[1] = shown.value)
    BY <1>7, <2>2, <2>3, <2>4, <2>5, <2>6 DEF Printing
  <2>8. Now = Output(n)
    BY <1>5, <2>7
  <2> QED BY <1>3, <2>7, <2>8 DEF Output, Task, N
<1> QED BY <1>1, <1>4, <1>6, <1>7 DEF WatchInv, Followed

\* What a watch shows at a stop is what the statement then prints, of whichever program
\* and after whichever commands, if the distance written into it leads where a search
\* does: debugLookup takes no notice of it.
THEOREM WatchesAreRight == DebugSpec => []WatchIsWhatIsPrinted
<1> DEFINE Inv == DebugRestInv /\ HeardInv /\ WatchInv
<1>1. DebugInit => Inv
  BY DebugRestInit, HeardInit, WatchInit
<1>2. Inv /\ [DebugNext]_debugSessionVars => Inv'
  BY DebugRestNext, HeardNext, WatchNext
<1>3. Inv => WatchIsWhatIsPrinted
  <2> SUFFICES ASSUME Inv PROVE WatchIsWhatIsPrinted
    OBVIOUS
  <2>1. CASE exc = "crash"
    BY <2>1 DEF WatchIsWhatIsPrinted, After, At, Executing
  <2>2. CASE exc # "crash"
    BY <2>2, WatchHolds DEF DebugRestInv, DebugMachineInv, MachineInv, ExecutorInv
  <2> QED BY <2>1, <2>2
<1> QED BY <1>1, <1>2, <1>3, PTL DEF DebugSpec
=============================================================================
