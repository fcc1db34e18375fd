----------------------------- MODULE LruCacheV2 -----------------------------
(***************************************************************************)
(* lru_cache_v2 of edu/courses/my-cs/caching_lru_test.cc: a map from keys  *)
(* to values and positions in a list of keys, the least recently used      *)
(* first.  Copying a key, loading a value and inserting into the list or   *)
(* the map may throw; get() then ends where it is.                         *)
(*                                                                         *)
(* The list is a sequence of nodes with an address, so that a position     *)
(* kept in the map can be told from a key: it is good while its node is in *)
(* the list.  The loader is a callback that does not use the cache itself. *)
(***************************************************************************)
EXTENDS Integers, Sequences, FiniteSets, SequencesExt

CONSTANTS
  Keys,
  Values,           \* what the loader may return
  Addresses,        \* of list nodes; one more than the cache holds is enough
  k_maxSize         \* 2 in the code

ASSUME MaxSizeAssumption == k_maxSize \in Nat \ {0}

ASSUME AddressesAssumption ==
  IsFiniteSet(Addresses) /\ Cardinality(Addresses) > k_maxSize

VARIABLES
  m_key_tracker,    \* the list: a sequence of nodes
  m_store           \* the map: from cached keys to a value and a position

vars == <<m_key_tracker, m_store>>

Node == [address : Addresses, key : Keys]
Entry == [val : Values, link : Addresses]

AddressesOf(list) == {list[i].address : i \in DOMAIN list}

EraseKey(store, k) == [x \in DOMAIN store \ {k} |-> store[x]]

\* map::insert: a key that is there keeps its entry.
InsertKey(store, k, e) ==
  [x \in DOMAIN store \cup {k} |-> IF x \in DOMAIN store THEN store[x] ELSE e]

Init ==
  /\ m_key_tracker = <<>>
  /\ m_store = [x \in {} |-> x]

-----------------------------------------------------------------------------
\* Mutant: the key is swapped with the youngest one instead of moved.
Hit_Swaps(key) ==
  LET i == CHOOSE j \in DOMAIN m_key_tracker : m_key_tracker[j].address = m_store[key].link
      n == Len(m_key_tracker)
  IN
    /\ key \in DOMAIN m_store
    /\ m_key_tracker' = [m_key_tracker EXCEPT ![i].key = m_key_tracker[n].key, ![n].key = key]
    /\ UNCHANGED m_store

\* get() of a cached key: list::splice moves the node at its position to the end.
Hit(key) ==
  /\ key \in DOMAIN m_store
  /\ \E i \in DOMAIN m_key_tracker :
       /\ m_key_tracker[i].address = m_store[key].link
       /\ m_key_tracker' = Append(RemoveAt(m_key_tracker, i), m_key_tracker[i])
  /\ UNCHANGED m_store

\* What get() finds before it makes room.
Full == Cardinality(DOMAIN m_store) = k_maxSize

\* evict(), if room is needed: the front key leaves the map and the list.
Evicted ==
  IF Full
    THEN [tracker |-> Tail(m_key_tracker), store |-> EraseKey(m_store, Head(m_key_tracker).key)]
    ELSE [tracker |-> m_key_tracker, store |-> m_store]

\* list::insert at the end, in a node the allocator chooses.
Inserted(list, key) ==
  Append(list, [address |-> CHOOSE a \in Addresses : a \notin AddressesOf(list), key |-> key])

\* get() of another key: make room, load, put().
Miss(key, val) ==
  LET tracker == Inserted(Evicted.tracker, key)
      link == tracker[Len(tracker)].address
  IN
    /\ key \notin DOMAIN m_store
    /\ m_key_tracker' = tracker
    /\ m_store' = InsertKey(Evicted.store, key, [val |-> val, link |-> link])

\* The copy of the front key in evict() throws: nothing was changed.
EvictThrows(key) ==
  /\ key \notin DOMAIN m_store
  /\ Full
  /\ UNCHANGED vars

\* The loader, or the insertion into the list, throws: the room stays made.
LoadThrows(key) ==
  /\ key \notin DOMAIN m_store
  /\ m_key_tracker' = Evicted.tracker
  /\ m_store' = Evicted.store

\* Mutant: the handler of put() rethrows without taking the node out.
PutThrows_NoRollback(key) ==
  /\ key \notin DOMAIN m_store
  /\ m_key_tracker' = Inserted(Evicted.tracker, key)
  /\ m_store' = Evicted.store

\* The insertion into the map throws after the one into the list; the
\* handler of put() takes the last node out again.
PutThrows(key) ==
  LET tracker == Inserted(Evicted.tracker, key) IN
    /\ key \notin DOMAIN m_store
    /\ m_key_tracker' = SubSeq(tracker, 1, Len(tracker) - 1)
    /\ m_store' = Evicted.store

Next ==
  \E key \in Keys :
    \/ Hit(key)
    \/ \E val \in Values : Miss(key, val)
    \/ EvictThrows(key)
    \/ LoadThrows(key)
    \/ PutThrows(key)

Spec == Init /\ [][Next]_vars

-----------------------------------------------------------------------------
\* Every variable has its type.
TypeOK ==
  /\ m_key_tracker \in Seq(Node)
  /\ DOMAIN m_store \subseteq Keys
  /\ \A k \in DOMAIN m_store : m_store[k] \in Entry

\* put() "may throw, but state is consistent": after every call, failed ones
\* included, the list holds each cached key once and nothing else, and the
\* position the map keeps for a key is that of its own node.
Linked ==
  /\ Len(m_key_tracker) = Cardinality(DOMAIN m_store)
  /\ Cardinality(AddressesOf(m_key_tracker)) = Len(m_key_tracker)
  /\ \A k \in DOMAIN m_store :
       \E i \in DOMAIN m_key_tracker :
         m_key_tracker[i] = [address |-> m_store[k].link, key |-> k]

Order == [i \in DOMAIN m_key_tracker |-> m_key_tracker[i].key]

Abstract == INSTANCE Lru WITH Capacity <- k_maxSize, order <- Order

\* The cache is an LRU cache: it holds at most k_maxSize keys, a hit makes a
\* key the youngest, and what a get() pushes out, failed ones included, is
\* the least recently used key.
ImplementsLru == Abstract!Spec
=============================================================================
