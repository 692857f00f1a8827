------------------------------- MODULE MCRepl -------------------------------
(* Every line of up to two tokens, and longer ones that hold chains of ifs. *)
EXTENDS Repl

Chains == {<<"else", "if", "stmt">>, <<"if", "if", "stmt">>, <<"for", "if", "stmt">>,
           <<"if", "stmt", "else", "if", "stmt">>, <<"if", "if", "stmt", "else", "stmt">>}

MCTypedLines == {<<>>} \cup (UNION {[1..n -> Token \ {"undef"}] : n \in 1..2})
                       \cup {<<"undef">>, <<"{", "undef">>} \cup Chains
=============================================================================
