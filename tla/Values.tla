------------------------------- MODULE Values -------------------------------
(***************************************************************************)
(* Arithmetic of the numbers of the language.  A double is an integer here *)
(* and programs divide without a remainder only; Arrays looks at the edges *)
(* of doubles.                                                             *)
(***************************************************************************)
EXTENDS Ast

Abs(i)          == IF i < 0 THEN -i ELSE i
Quotient(l, r)  == IF (l < 0) = (r < 0) THEN Abs(l) \div Abs(r) ELSE -(Abs(l) \div Abs(r))
\* std::fmod.
Remainder(l, r) == l - r * Quotient(l, r)

\* An operator on two numbers, the divisor not being 0.
NumberOp(op, l, r) ==
  CASE op = "+"  -> Number(l + r)
    [] op = "-"  -> Number(l - r)
    [] op = "*"  -> Number(l * r)
    [] op = "/"  -> Number(Quotient(l, r))
    [] op = "%"  -> Number(Remainder(l, r))
    [] op = "<"  -> Bool(l < r)
    [] op = "<=" -> Bool(l <= r)
    [] op = ">"  -> Bool(l > r)
    [] OTHER     -> Bool(l >= r)
=============================================================================
