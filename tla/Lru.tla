--------------------------------- MODULE Lru --------------------------------
(***************************************************************************)
(* What a least-recently-used cache promises: the keys it holds in the     *)
(* order of their last use, never more than its capacity, and the one that *)
(* goes is the oldest, only when the cache is full and room is needed.     *)
(***************************************************************************)
EXTENDS Integers, Sequences, SequencesExt

CONSTANTS Keys, Capacity

VARIABLE order      \* the cached keys, the least recently used first

Cached == {order[i] : i \in DOMAIN order}

MakeRoom(s) == IF Len(s) = Capacity THEN Tail(s) ELSE s

Init == order = <<>>

Touch(k) ==
  \E i \in DOMAIN order :
    /\ order[i] = k
    /\ order' = Append(RemoveAt(order, i), k)

Insert(k) ==
  /\ k \notin Cached
  /\ order' = Append(MakeRoom(order), k)

\* Room was made for a key that could not be loaded.
Evict ==
  /\ Len(order) = Capacity
  /\ order' = Tail(order)

Next == Evict \/ \E k \in Keys : Touch(k) \/ Insert(k)

Spec == Init /\ [][Next]_order
=============================================================================
