-------------------------------- MODULE Ast --------------------------------
(***************************************************************************)
(* The syntax tree that the four units of the interpreter hand to one      *)
(* another (common/Expr.h, common/Stmt.h, common/Token.h).                 *)
(*                                                                         *)
(* Every node is one record.  "tok" is the lexeme of the token the C++     *)
(* node keeps (a name or an operator), "kids" its children in the order of *)
(* the class's members, "params" the parameters of a function, "line" its  *)
(* place in the source.  A member that may be a null pointer is either     *)
(* left out at the end of "kids" or, in the header of a for, Absent.       *)
(***************************************************************************)
EXTENDS Integers, Sequences

CONSTANTS Name,    \* the identifiers programs use (a set of strings)
          Node     \* the nodes of every program, parsed or optimized, closed under kids

StmtKind == {"exprStmt", "print", "var", "block", "if", "for", "func", "return"}
ExprKind == {"literal", "variable", "assign", "binary", "unary", "logical",
             "grouping", "call", "index", "indexAssign"}
Kind     == StmtKind \cup ExprKind \cup {"absent"}

(***************************************************************************)
(* LiteralValue.  Numbers are integers; a string is known by its length    *)
(* (strings over one letter); an array by its place on the array heap.     *)
(***************************************************************************)
ValueType == {"nil", "bool", "number", "string", "array"}
Value     == [type : ValueType, n : Int]
Nil       == [type |-> "nil", n |-> 0]
Number(i) == [type |-> "number", n |-> i]
Bool(b)   == [type |-> "bool", n |-> IF b THEN 1 ELSE 0]
String(l) == [type |-> "string", n |-> l]

MkNode(kind, tok, val, line, kids, params) ==
  [kind |-> kind, tok |-> tok, val |-> val, line |-> line,
   kids |-> kids, params |-> params]

Absent == MkNode("absent", "", Nil, 0, <<>>, <<>>)

Operators == {"+", "-", "*", "/", "%", "==", "!=", "<", "<=", ">", ">=",
              "!", "and", "or"}

\* The shape of a node: what the constructors of Expr.h and Stmt.h allow.
ASSUME NodeAssumption ==
  /\ {"array", "Array"} \subseteq Name
  /\ Absent \in Node
  /\ \A n \in Node :
       /\ DOMAIN n = {"kind", "tok", "val", "line", "kids", "params"}
       /\ n.kind \in Kind
       /\ n.kind \in {"variable", "assign", "var", "func"} => n.tok \in Name
       /\ n.kind \in {"binary", "unary", "logical"} => n.tok \in Operators
       /\ n.val \in Value /\ n.val.type # "array"
       /\ n.line \in Nat
       /\ n.kids \in Seq(Node)
       /\ n.params \in Seq(Name)

\* How many children each kind of node has.
ASSUME ArityAssumption ==
  \A n \in Node :
    /\ n.kind \in {"print", "exprStmt", "assign", "unary", "grouping"} => Len(n.kids) = 1
    /\ n.kind \in {"binary", "logical", "index"} => Len(n.kids) = 2
    /\ n.kind = "indexAssign" => Len(n.kids) = 3
    /\ n.kind \in {"var", "return"} => Len(n.kids) <= 1
    /\ n.kind = "if" => Len(n.kids) \in {2, 3}
    /\ n.kind = "for" => Len(n.kids) = 4
    /\ n.kind = "call" => Len(n.kids) >= 1

\* The children of a statement that are statements.
SubStatements(n) ==
  CASE n.kind \in {"block", "func"} -> DOMAIN n.kids
    [] n.kind = "if"                -> {2, 3}
    [] n.kind = "for"               -> {1, 4}
    [] OTHER                        -> {}

\* Statements stand where the classes of Stmt.h have a Stmt, expressions where they have
\* an Expr, and only the header of a for has members that may be null: Parser::forStatement
\* puts a declaration, an expression statement or nothing first.
ASSUME KidsAssumption ==
  \A n \in Node : \A i \in DOMAIN n.kids :
    /\ n.kids[i].kind \in StmtKind => i \in SubStatements(n)
    /\ n.kids[i].kind \in ExprKind => i \notin SubStatements(n)
    /\ n.kids[i].kind = "absent" => n.kids[i] = Absent /\ n.kind = "for" /\ i # 4
    /\ n.kind = "for" /\ i = 1 => n.kids[i].kind \in {"var", "exprStmt", "absent"}

-----------------------------------------------------------------------------
(* Work items: the visitors of the three passes are run as a stack of       *)
(* activations; "op" says what is left to do with the node.                 *)

Item(op, n)     == [op |-> op, node |-> n]
Items(op, kids) == [i \in DOMAIN kids |-> Item(op, kids[i])]
Top(stack)      == stack[Len(stack)]
Pop(stack)      == SubSeq(stack, 1, Len(stack) - 1)
=============================================================================
