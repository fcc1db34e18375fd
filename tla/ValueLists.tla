----------------------------- MODULE ValueLists -----------------------------
(***************************************************************************)
(* What a list promises its user: it is the sequence of its elements.  A   *)
(* call that throws changes nothing.                                       *)
(***************************************************************************)
EXTENDS Sequences

CONSTANTS Lists, Elems

VARIABLE contents

Init == contents = [l \in Lists |-> << >>]

PushBack(l, e) == contents' = [contents EXCEPT ![l] = Append(@, e)]
Swap(l, r)     == contents' = [contents EXCEPT ![l] = contents[r], ![r] = contents[l]]
Assign(l, r)   == contents' = [contents EXCEPT ![l] = contents[r]]
Clear(l)       == contents' = [contents EXCEPT ![l] = << >>]

Next == \/ \E l \in Lists, e \in Elems : PushBack(l, e)
        \/ \E l, r \in Lists : Swap(l, r) \/ Assign(l, r)
        \/ \E l \in Lists : Clear(l)

Spec == Init /\ [][Next]_contents
=============================================================================
