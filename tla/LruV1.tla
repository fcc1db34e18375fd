------------------------------- MODULE LruV1 --------------------------------
(***************************************************************************)
(* v1::Lru of projects/high_perf/lru_benchmark.cc: a set of keys in a list *)
(* ordered by last use, and a map from each key to its node of the list.   *)
(* Allocation is taken to succeed.                                         *)
(***************************************************************************)
EXTENDS Integers, Sequences, SequencesExt

CONSTANTS Keys, max_size_

ASSUME MaxSizeAssumption == max_size_ \in Nat \ {0}   \* Put() reads front() of a full list

VARIABLES list_,      \* [at, key]: the address of a node and its key
          map_        \* the address of a key's node

vars == <<list_, map_>>

Init == list_ = << >> /\ map_ = << >>

Used(list) == {list[i].at : i \in DOMAIN list}

\* The addresses a new node can get; the one of an erased node is among them.
Free(list) == (1..max_size_ + 1) \ Used(list)

\* list_.insert(list_.end(), key)
Inserted(list, key, at) == Append(list, [at |-> at, key |-> key])

\* Where the node of a key is that the iterator in the map points to.
Found(key) == {i \in DOMAIN list_ : list_[i].at = map_[key]}

\* Mutant: the map keeps the iterator to the erased node.
StaleMove(key) ==
  \E i \in Found(key) :
    LET rest == RemoveAt(list_, i)
    IN  /\ \E at \in Free(rest) : list_' = Inserted(rest, key, at)
        /\ UNCHANGED map_

\* The node of a known key is erased and a new one put at the end.
MoveToEnd(key) ==
  \E i \in Found(key) :
    LET rest == RemoveAt(list_, i)
    IN  \E at \in Free(rest) :
          /\ list_' = Inserted(rest, key, at)
          /\ map_' = [map_ EXCEPT ![key] = at]

Has(key) == /\ key \in DOMAIN map_        \* otherwise nothing changes
            /\ MoveToEnd(key)

Put(key) ==
  \/ /\ key \in DOMAIN map_
     /\ MoveToEnd(key)
  \/ LET full == Len(list_) = max_size_
         list == IF full THEN Tail(list_) ELSE list_
         kept == IF full THEN DOMAIN map_ \ {Head(list_).key} ELSE DOMAIN map_
     IN  /\ key \notin DOMAIN map_
         /\ \E at \in Free(list) :
              /\ list_' = Inserted(list, key, at)
              /\ map_' = [k \in kept \cup {key} |-> IF k = key THEN at ELSE map_[k]]

Next == \E key \in Keys : Has(key) \/ Put(key)

Spec == Init /\ [][Next]_vars

-----------------------------------------------------------------------------
Order == [i \in DOMAIN list_ |-> list_[i].key]

Set == INSTANCE Lru WITH order <- Order, Capacity <- max_size_

(***************************************************************************)
(* v1::Lru keeps the keys in the order of their last use and drops only    *)
(* the oldest, and only for another key (lru_benchmark.cc).                *)
(***************************************************************************)
LruV1Ordered == Set!Spec
=============================================================================
