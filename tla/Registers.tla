------------------------------ MODULE Registers -----------------------------
(***************************************************************************)
(* What a thread-safe assignment promises: an object's value is replaced   *)
(* by the value another one has at that moment, in one step.               *)
(***************************************************************************)
CONSTANTS Objects, Values

VARIABLE value      \* of each object

Assign(x, y) == value' = [value EXCEPT ![x] = value[y]]

Init == value \in [Objects -> Values]

Next == \E x, y \in Objects : Assign(x, y)

Spec == Init /\ [][Next]_value
=============================================================================
