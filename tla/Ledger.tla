------------------------------- MODULE Ledger -------------------------------
(***************************************************************************)
(* What a session promises about global names, whatever passes are behind  *)
(* it: names become known in a batch.  While an input is worked on its     *)
(* declarations are provisional; then they are all kept or all dropped.    *)
(* What is known stays known, and only names that were declared ever come  *)
(* into being - late, perhaps: what was executed of an input that is       *)
(* dropped may still create what the rest of it declares.                  *)
(***************************************************************************)
CONSTANT Name

VARIABLES known, \* names that may not be declared again
          fresh, \* names the current input declares
          held,  \* names that have a variable or a function
          lost,  \* names of inputs that were dropped after a part of them had been executed
          trial  \* is the current input only tried out?

vars == <<known, fresh, held, lost, trial>>

Init == known = {} /\ fresh = {} /\ held = {} /\ lost = {} /\ trial = FALSE

\* A trial can be started between two inputs only, and ends without a trace.
Try        == fresh = {} /\ trial' = TRUE /\ UNCHANGED <<known, fresh, held, lost>>
Declare(x) == fresh' = fresh \cup {x} /\ UNCHANGED <<known, held, lost, trial>>
Create(x)  == ~trial /\ x \in known \cup fresh \cup lost
              /\ held' = held \cup {x} /\ UNCHANGED <<known, fresh, lost, trial>>
Keep       == ~trial /\ known' = known \cup fresh /\ fresh' = {}
              /\ UNCHANGED <<held, lost, trial>>
Refuse     == fresh' = {} /\ trial' = FALSE /\ UNCHANGED <<known, held, lost>>
Abandon    == ~trial /\ lost' = lost \cup fresh /\ fresh' = {}
              /\ UNCHANGED <<known, held, trial>>

Next == Try \/ (\E x \in Name : Declare(x) \/ Create(x)) \/ Keep \/ Refuse \/ Abandon

Spec == Init /\ [][Next]_vars
=============================================================================
