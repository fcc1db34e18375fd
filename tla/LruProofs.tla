------------------------------ MODULE LruProofs -----------------------------
(***************************************************************************)
(* The two caches, lru_cache_v2 (caching_lru_test.cc) and v1::Lru          *)
(* (lru_benchmark.cc), keep the promise of Lru for every set of keys and   *)
(* every capacity.  Both proofs have the same invariant: list and map tell *)
(* the same, key by key and node by node.                                  *)
(***************************************************************************)
EXTENDS LruCacheV2, SequenceTheorems, FiniteSetTheorems, TLAPS

CONSTANT max_size_

VARIABLES list_, map_

V1 == INSTANCE LruV1

-----------------------------------------------------------------------------
(***************************************************************************)
(* Lists                                                                   *)
(***************************************************************************)
\* What is left of a list when the node at i is taken out.
LEMMA RemoveAtProperties ==
  ASSUME NEW S, NEW s \in Seq(S), NEW i \in 1 .. Len(s)
  PROVE  /\ RemoveAt(s, i) \in Seq(S)
         /\ Len(RemoveAt(s, i)) = Len(s) - 1
         /\ \A j \in 1 .. Len(s) - 1 : RemoveAt(s, i)[j] = IF j < i THEN s[j] ELSE s[j + 1]
<1> DEFINE a == SubSeq(s, 1, i - 1)
           b == SubSeq(s, i + 1, Len(s))
<1>1. Len(s) \in Nat /\ \A j \in 1 .. Len(s) : s[j] \in S
  BY LenProperties, ElementOfSeq
<1>2. /\ a \in Seq(S) /\ Len(a) = i - 1
      /\ \A j \in 1 .. i - 1 : a[j] = s[j]
  BY <1>1, SubSeqProperties
<1>3. /\ b \in Seq(S) /\ Len(b) = Len(s) - i
      /\ \A j \in 1 .. Len(s) - i : b[j] = s[i + j]
  BY <1>1, SubSeqProperties
<1>4. /\ a \o b \in Seq(S)
      /\ Len(a \o b) = Len(a) + Len(b)
      /\ \A j \in 1 .. Len(a) + Len(b) : (a \o b)[j] = IF j <= Len(a) THEN a[j] ELSE b[j - Len(a)]
  BY <1>2, <1>3, ConcatProperties
<1> HIDE DEF a, b
<1>5. RemoveAt(s, i) = a \o b
  BY DEF RemoveAt, a, b
<1>6. Len(a) + Len(b) = Len(s) - 1
  BY <1>1, <1>2, <1>3
<1>7. ASSUME NEW j \in 1 .. Len(s) - 1
      PROVE  (a \o b)[j] = IF j < i THEN s[j] ELSE s[j + 1]
  <2>1. CASE j < i
    BY <2>1, <1>1, <1>2, <1>4, <1>6
  <2>2. CASE ~ j < i
    <3>1. j - Len(a) \in 1 .. Len(s) - i /\ i + (j - Len(a)) = j + 1
      BY <2>2, <1>1, <1>2
    <3>2. (a \o b)[j] = b[j - Len(a)]
      BY <2>2, <1>1, <1>2, <1>4, <1>6
    <3>3. b[j - Len(a)] = s[i + (j - Len(a))]
      BY <3>1, <1>3
    <3> QED
      BY <2>2, <3>1, <3>2, <3>3
  <2> QED
    BY <2>1, <2>2
<1> QED
  BY <1>4, <1>5, <1>6, <1>7

\* The list after the node at i went and x came at the end.
LEMMA MovedProperties ==
  ASSUME NEW S, NEW s \in Seq(S), NEW i \in 1 .. Len(s), NEW x \in S
  PROVE  LET m == Append(RemoveAt(s, i), x)
         IN  /\ m \in Seq(S)
             /\ Len(m) = Len(s)
             /\ \A j \in 1 .. Len(s) :
                  m[j] = IF j < i THEN s[j] ELSE IF j < Len(s) THEN s[j + 1] ELSE x
<1> DEFINE r == RemoveAt(s, i)
           m == Append(r, x)
<1>1. Len(s) \in Nat
  BY LenProperties
<1>2. /\ r \in Seq(S)
      /\ Len(r) = Len(s) - 1
      /\ \A j \in 1 .. Len(s) - 1 : r[j] = IF j < i THEN s[j] ELSE s[j + 1]
  BY RemoveAtProperties
<1> HIDE DEF r
<1>3. /\ m \in Seq(S)
      /\ Len(m) = Len(r) + 1
      /\ \A j \in 1 .. Len(r) : m[j] = r[j]
      /\ m[Len(r) + 1] = x
  BY <1>2, AppendProperties
<1> HIDE DEF m
<1>4. ASSUME NEW j \in 1 .. Len(s)
      PROVE  m[j] = IF j < i THEN s[j] ELSE IF j < Len(s) THEN s[j + 1] ELSE x
  <2>1. CASE j < Len(s)
    BY <2>1, <1>1, <1>2, <1>3
  <2>2. CASE j = Len(s)
    BY <2>2, <1>1, <1>2, <1>3
  <2> QED
    BY <2>1, <2>2, <1>1
<1>5. /\ m \in Seq(S)
      /\ Len(m) = Len(s)
      /\ \A j \in 1 .. Len(s) :
           m[j] = IF j < i THEN s[j] ELSE IF j < Len(s) THEN s[j + 1] ELSE x
  BY <1>1, <1>2, <1>3, <1>4
<1> QED
  BY <1>5 DEF m, r

\* The keys of a list of nodes.
KeysOf(list) == [i \in DOMAIN list |-> list[i].key]

\* They are as many as the nodes.
LEMMA KeysOfProperties ==
  ASSUME NEW S, \A n \in S : n.key \in Keys, NEW s \in Seq(S)
  PROVE  /\ KeysOf(s) \in Seq(Keys)
         /\ Len(KeysOf(s)) = Len(s)
         /\ \A j \in 1 .. Len(s) : KeysOf(s)[j] = s[j].key
<1>1. Len(s) \in Nat /\ DOMAIN s = 1 .. Len(s) /\ \A j \in 1 .. Len(s) : s[j].key \in Keys
  BY LenProperties, ElementOfSeq
<1>2. KeysOf(s) = [j \in 1 .. Len(s) |-> s[j].key]
  BY <1>1 DEF KeysOf
<1> QED
  BY <1>1, <1>2

\* The keys of a list that loses its front.
LEMMA KeysOfTail ==
  ASSUME NEW S, \A n \in S : n.key \in Keys, NEW s \in Seq(S), s # <<>>
  PROVE  KeysOf(Tail(s)) = Tail(KeysOf(s))
<1>1. /\ Tail(s) \in Seq(S) /\ Len(s) \in Nat /\ Len(Tail(s)) = Len(s) - 1 /\ Len(s) # 0
      /\ \A j \in 1 .. Len(s) - 1 : Tail(s)[j] = s[j + 1]
  BY HeadTailProperties, LenProperties, EmptySeq
<1>2. /\ KeysOf(s) \in Seq(Keys) /\ Len(KeysOf(s)) = Len(s)
      /\ \A j \in 1 .. Len(s) : KeysOf(s)[j] = s[j].key
  BY KeysOfProperties
<1>3. /\ KeysOf(Tail(s)) \in Seq(Keys) /\ Len(KeysOf(Tail(s))) = Len(s) - 1
      /\ \A j \in 1 .. Len(s) - 1 : KeysOf(Tail(s))[j] = Tail(s)[j].key
  BY <1>1, KeysOfProperties
<1>4. KeysOf(s) # <<>>
  BY <1>1, <1>2
<1>5. /\ Tail(KeysOf(s)) \in Seq(Keys) /\ Len(Tail(KeysOf(s))) = Len(s) - 1
      /\ \A j \in 1 .. Len(s) - 1 : Tail(KeysOf(s))[j] = KeysOf(s)[j + 1]
  BY <1>2, <1>4, HeadTailProperties
<1>6. \A j \in 1 .. Len(s) - 1 : KeysOf(Tail(s))[j] = Tail(KeysOf(s))[j]
  BY <1>1, <1>2, <1>3, <1>5
<1> QED
  BY <1>3, <1>5, <1>6, SeqEqual

\* The keys of a list that gets a node at the end.
LEMMA KeysOfAppend ==
  ASSUME NEW S, \A n \in S : n.key \in Keys, NEW s \in Seq(S), NEW x \in S
  PROVE  KeysOf(Append(s, x)) = Append(KeysOf(s), x.key)
<1>1. /\ Append(s, x) \in Seq(S) /\ Len(s) \in Nat /\ Len(Append(s, x)) = Len(s) + 1
      /\ \A j \in 1 .. Len(s) : Append(s, x)[j] = s[j]
      /\ Append(s, x)[Len(s) + 1] = x
  BY AppendProperties, LenProperties
<1>2. /\ KeysOf(s) \in Seq(Keys) /\ Len(KeysOf(s)) = Len(s)
      /\ \A j \in 1 .. Len(s) : KeysOf(s)[j] = s[j].key
  BY KeysOfProperties
<1>3. /\ KeysOf(Append(s, x)) \in Seq(Keys) /\ Len(KeysOf(Append(s, x))) = Len(s) + 1
      /\ \A j \in 1 .. Len(s) + 1 : KeysOf(Append(s, x))[j] = Append(s, x)[j].key
  BY <1>1, KeysOfProperties
<1>4. /\ Append(KeysOf(s), x.key) \in Seq(Keys) /\ Len(Append(KeysOf(s), x.key)) = Len(s) + 1
      /\ \A j \in 1 .. Len(s) : Append(KeysOf(s), x.key)[j] = KeysOf(s)[j]
      /\ Append(KeysOf(s), x.key)[Len(s) + 1] = x.key
  BY <1>2, AppendProperties
<1>5. ASSUME NEW j \in 1 .. Len(s) + 1
      PROVE  KeysOf(Append(s, x))[j] = Append(KeysOf(s), x.key)[j]
  <2>1. CASE j = Len(s) + 1
    BY <2>1, <1>1, <1>3, <1>4
  <2>2. CASE j \in 1 .. Len(s)
    BY <2>2, <1>1, <1>2, <1>3, <1>4
  <2>3. j = Len(s) + 1 \/ j \in 1 .. Len(s)
    BY <1>1
  <2> QED
    BY <2>1, <2>2, <2>3
<1> QED
  BY <1>3, <1>4, <1>5, SeqEqual

\* The keys of a list that loses the node at i.
LEMMA KeysOfRemoveAt ==
  ASSUME NEW S, \A n \in S : n.key \in Keys, NEW s \in Seq(S), NEW i \in 1 .. Len(s)
  PROVE  KeysOf(RemoveAt(s, i)) = RemoveAt(KeysOf(s), i)
<1>1. /\ RemoveAt(s, i) \in Seq(S) /\ Len(s) \in Nat /\ Len(RemoveAt(s, i)) = Len(s) - 1
      /\ \A j \in 1 .. Len(s) - 1 : RemoveAt(s, i)[j] = IF j < i THEN s[j] ELSE s[j + 1]
  BY RemoveAtProperties, LenProperties
<1>2. /\ KeysOf(s) \in Seq(Keys) /\ Len(KeysOf(s)) = Len(s)
      /\ \A j \in 1 .. Len(s) : KeysOf(s)[j] = s[j].key
  BY KeysOfProperties
<1>3. /\ KeysOf(RemoveAt(s, i)) \in Seq(Keys) /\ Len(KeysOf(RemoveAt(s, i))) = Len(s) - 1
      /\ \A j \in 1 .. Len(s) - 1 : KeysOf(RemoveAt(s, i))[j] = RemoveAt(s, i)[j].key
  BY <1>1, KeysOfProperties
<1>4. /\ RemoveAt(KeysOf(s), i) \in Seq(Keys) /\ Len(RemoveAt(KeysOf(s), i)) = Len(s) - 1
      /\ \A j \in 1 .. Len(s) - 1 :
           RemoveAt(KeysOf(s), i)[j] = IF j < i THEN KeysOf(s)[j] ELSE KeysOf(s)[j + 1]
  BY <1>2, RemoveAtProperties
<1>5. ASSUME NEW j \in 1 .. Len(s) - 1
      PROVE  KeysOf(RemoveAt(s, i))[j] = RemoveAt(KeysOf(s), i)[j]
  <2>1. j \in 1 .. Len(s) /\ j + 1 \in 1 .. Len(s)
    BY <1>1
  <2> QED
    BY <2>1, <1>1, <1>2, <1>3, <1>4
<1> QED
  BY <1>3, <1>4, <1>5, SeqEqual

\* As many different things as there are places.
LEMMA CountDistinct ==
  ASSUME NEW n \in Nat, NEW f, DOMAIN f = 1 .. n, f = [j \in 1 .. n |-> f[j]],
         \A i, j \in 1 .. n : i # j => f[i] # f[j]
  PROVE  Cardinality({f[j] : j \in 1 .. n}) = n
<1> DEFINE T == {f[j] : j \in 1 .. n}
<1>1. f \in [1 .. n -> T]
  OBVIOUS
<1>2. f \in Bijection(1 .. n, T)
  BY <1>1 DEF Bijection, Injection, Surjection, IsInjective
<1>3. ExistsBijection(1 .. n, T)
  BY <1>2 DEF ExistsBijection
<1> QED
  BY <1>3, FS_CountingElements

\* A list of n nodes does not use up more than n addresses.
LEMMA FreshElement ==
  ASSUME NEW n \in Nat, NEW f, f = [j \in 1 .. n |-> f[j]],
         NEW A, IsFiniteSet(A), Cardinality(A) > n
  PROVE  \E a \in A : \A j \in 1 .. n : f[j] # a
<1> DEFINE T == {f[j] : j \in 1 .. n}
<1>1. f \in Surjection(1 .. n, T)
  BY DEF Surjection
<1>2. IsFiniteSet(1 .. n) /\ Cardinality(1 .. n) = n
  BY FS_Interval
<1>3. IsFiniteSet(T) /\ Cardinality(T) <= n
  BY <1>1, <1>2, FS_Surjection
<1>4. Cardinality(T) \in Nat /\ Cardinality(A) \in Nat
  BY <1>3, FS_CardinalityType
<1>5. ~ (A \subseteq T)
  <2> SUFFICES ASSUME A \subseteq T PROVE FALSE
    OBVIOUS
  <2>1. Cardinality(A) <= Cardinality(T)
    BY <1>3, FS_Subset
  <2> QED
    BY <2>1, <1>3, <1>4
<1> QED
  BY <1>5

-----------------------------------------------------------------------------
(***************************************************************************)
(* lru_cache_v2                                                            *)
(***************************************************************************)
\* The nodes have different addresses.
Apart(list) == \A i, j \in 1 .. Len(list) : list[i].address = list[j].address => i = j

\* The position the map keeps for a node's key is the node.
Points(list, store) ==
  \A i \in 1 .. Len(list) :
    list[i].key \in DOMAIN store /\ store[list[i].key].link = list[i].address

\* Every key of the map has a node.
Covers(list, store) == \A k \in DOMAIN store : \E i \in 1 .. Len(list) : list[i].key = k

\* The list and the map have their types.  The bound is what leaves the
\* allocator an address.
Typed(list, store) ==
  /\ list \in Seq(Node)
  /\ Len(list) <= k_maxSize
  /\ DOMAIN store \subseteq Keys
  /\ \A k \in DOMAIN store : store[k] \in Entry

\* List and map tell the same.
Chained(list, store) ==
  Typed(list, store) /\ Apart(list) /\ Points(list, store) /\ Covers(list, store)

IndInv == Chained(m_key_tracker, m_store)

\* Nodes are records with a key.
LEMMA NodeKeys == \A n \in Node : n.key \in Keys /\ n.address \in Addresses
BY DEF Node

\* What Chained says of the length and of the elements.
LEMMA ChainedType ==
  ASSUME NEW list, NEW store, Chained(list, store)
  PROVE  /\ list \in Seq(Node)
         /\ Len(list) \in Nat
         /\ DOMAIN list = 1 .. Len(list)
         /\ \A i \in 1 .. Len(list) :
              list[i] \in Node /\ list[i].key \in Keys /\ list[i].address \in Addresses
<1>1. list \in Seq(Node)
  BY DEF Chained, Typed
<1>2. \A i \in 1 .. Len(list) : list[i] \in Node
  BY <1>1, ElementOfSeq
<1> QED
  BY <1>1, <1>2, LenProperties, NodeKeys

\* No key is in the list twice: both nodes would be where the map says.
LEMMA ChainedKeys ==
  ASSUME NEW list, NEW store, Chained(list, store)
  PROVE  \A i, j \in 1 .. Len(list) : list[i].key = list[j].key => i = j
<1> SUFFICES ASSUME NEW i \in 1 .. Len(list), NEW j \in 1 .. Len(list), list[i].key = list[j].key
             PROVE  i = j
  OBVIOUS
<1>1. store[list[i].key].link = list[i].address /\ store[list[j].key].link = list[j].address
  BY DEF Chained, Points
<1>2. list[i].address = list[j].address
  BY <1>1
<1> QED
  BY <1>2 DEF Chained, Apart

\* size() of the map is the length of the list.
LEMMA ChainedCount ==
  ASSUME NEW list, NEW store, Chained(list, store)
  PROVE  /\ DOMAIN store = {KeysOf(list)[i] : i \in 1 .. Len(list)}
         /\ Cardinality(DOMAIN store) = Len(list)
<1>1. list \in Seq(Node) /\ Len(list) \in Nat /\ DOMAIN list = 1 .. Len(list)
  BY ChainedType
<1> DEFINE f == KeysOf(list)
<1>2. /\ DOMAIN f = 1 .. Len(list)
      /\ f = [j \in 1 .. Len(list) |-> f[j]]
      /\ \A j \in 1 .. Len(list) : f[j] = list[j].key
  BY <1>1 DEF KeysOf
<1> HIDE DEF f
<1>3. DOMAIN store = {f[i] : i \in 1 .. Len(list)}
  <2>1. \A i \in 1 .. Len(list) : f[i] \in DOMAIN store
    BY <1>2 DEF Chained, Points
  <2>2. \A k \in DOMAIN store : \E i \in 1 .. Len(list) : f[i] = k
    BY <1>2 DEF Chained, Covers
  <2> QED
    BY <2>1, <2>2
<1>4. \A i, j \in 1 .. Len(list) : i # j => f[i] # f[j]
  BY <1>2, ChainedKeys
<1>5. Cardinality({f[i] : i \in 1 .. Len(list)}) = Len(list)
  BY <1>1, <1>2, <1>4, CountDistinct
<1> QED
  BY <1>3, <1>5 DEF f

\* list::splice keeps the iterators: the list is another order of its nodes.
LEMMA ChainedMove ==
  ASSUME NEW list, NEW store, Chained(list, store), NEW i \in 1 .. Len(list)
  PROVE  Chained(Append(RemoveAt(list, i), list[i]), store)
<1> DEFINE m == Append(RemoveAt(list, i), list[i])
           p(j) == IF j < i THEN j ELSE IF j < Len(list) THEN j + 1 ELSE i
<1>1. /\ list \in Seq(Node)
      /\ Len(list) \in Nat
      /\ list[i] \in Node
  BY ChainedType
<1>2. /\ m \in Seq(Node)
      /\ Len(m) = Len(list)
      /\ \A j \in 1 .. Len(list) :
           m[j] = IF j < i THEN list[j] ELSE IF j < Len(list) THEN list[j + 1] ELSE list[i]
  BY <1>1, MovedProperties
<1> HIDE DEF m
<1>3. \A j \in 1 .. Len(list) : p(j) \in 1 .. Len(list) /\ m[j] = list[p(j)]
  BY <1>1, <1>2
<1>4. \A j, k \in 1 .. Len(list) : p(j) = p(k) => j = k
  BY <1>1
<1>5. \A k \in 1 .. Len(list) : \E j \in 1 .. Len(list) : p(j) = k
  <2> SUFFICES ASSUME NEW k \in 1 .. Len(list)
               PROVE  \E j \in 1 .. Len(list) : p(j) = k
    OBVIOUS
  <2>1. CASE k < i
    BY <2>1, <1>1
  <2>2. CASE k = i
    <3>1. Len(list) \in 1 .. Len(list) /\ p(Len(list)) = k
      BY <2>2, <1>1
    <3> QED
      BY <3>1
  <2>3. CASE k > i
    <3>1. k - 1 \in 1 .. Len(list) /\ p(k - 1) = k
      BY <2>3, <1>1
    <3> QED
      BY <3>1
  <2> QED
    BY <2>1, <2>2, <2>3, <1>1
<1> HIDE DEF p
<1>6. Covers(m, store)
  <2> SUFFICES ASSUME NEW k \in DOMAIN store
               PROVE  \E j \in 1 .. Len(list) : m[j].key = k
    BY <1>2 DEF Covers
  <2>1. PICK q \in 1 .. Len(list) : list[q].key = k
    BY DEF Chained, Covers
  <2>2. PICK j \in 1 .. Len(list) : p(j) = q
    BY <1>5
  <2> QED
    BY <2>1, <2>2, <1>3
<1>7. Apart(m)
  <2> SUFFICES ASSUME NEW j \in 1 .. Len(list), NEW k \in 1 .. Len(list),
                      m[j].address = m[k].address
               PROVE  j = k
    BY <1>2 DEF Apart
  <2>1. list[p(j)].address = list[p(k)].address /\ p(j) \in 1 .. Len(list) /\ p(k) \in 1 .. Len(list)
    BY <1>3
  <2>2. p(j) = p(k)
    BY <2>1 DEF Chained, Apart
  <2> QED
    BY <2>2, <1>4
<1>8. Points(m, store)
  <2> SUFFICES ASSUME NEW j \in 1 .. Len(list)
               PROVE  m[j].key \in DOMAIN store /\ store[m[j].key].link = m[j].address
    BY <1>2 DEF Points
  <2>1. m[j] = list[p(j)] /\ p(j) \in 1 .. Len(list)
    BY <1>3
  <2> QED
    BY <2>1 DEF Chained, Points
<1>9. Chained(m, store)
  BY <1>2, <1>6, <1>7, <1>8 DEF Chained, Typed
<1> QED
  BY <1>9 DEF m

\* evict() takes the front out of both.
LEMMA ChainedTail ==
  ASSUME NEW list, NEW store, Chained(list, store), Len(list) # 0
  PROVE  /\ Chained(Tail(list), EraseKey(store, Head(list).key))
         /\ Len(Tail(list)) = Len(list) - 1
<1> DEFINE t == Tail(list)
           k1 == list[1].key
           e == EraseKey(store, k1)
<1>1. /\ list \in Seq(Node)
      /\ Len(list) \in Nat
      /\ list # <<>>
  BY ChainedType
<1>2. /\ t \in Seq(Node)
      /\ Len(t) = Len(list) - 1
      /\ \A j \in 1 .. Len(list) - 1 : t[j] = list[j + 1]
      /\ Head(list) = list[1]
  BY <1>1, HeadTailProperties
<1>3. /\ DOMAIN e = DOMAIN store \ {k1}
      /\ \A k \in DOMAIN e : e[k] = store[k]
  BY DEF EraseKey
<1> HIDE DEF t, k1, e
<1>4. \A i \in 1 .. Len(list) : i # 1 => list[i].key # k1
  <2>1. 1 \in 1 .. Len(list)
    BY <1>1
  <2> QED
    BY <2>1, ChainedKeys DEF k1
<1>5. \A j \in 1 .. Len(t) : t[j] = list[j + 1] /\ j + 1 \in 1 .. Len(list) /\ j + 1 # 1
  BY <1>1, <1>2
<1>6. Len(t) <= k_maxSize
  BY <1>1, <1>2, MaxSizeAssumption DEF Chained, Typed
<1>7. DOMAIN e \subseteq Keys /\ \A k \in DOMAIN e : e[k] \in Entry
  BY <1>3 DEF Chained, Typed
<1>8. Apart(t)
  <2> SUFFICES ASSUME NEW i \in 1 .. Len(t), NEW j \in 1 .. Len(t), t[i].address = t[j].address
               PROVE  i = j
    BY DEF Apart
  <2>1. /\ list[i + 1].address = list[j + 1].address
        /\ i + 1 \in 1 .. Len(list) /\ j + 1 \in 1 .. Len(list)
    BY <1>5
  <2>2. i + 1 = j + 1
    BY <2>1 DEF Chained, Apart
  <2> QED
    BY <2>2
<1>9. Points(t, e)
  <2> SUFFICES ASSUME NEW j \in 1 .. Len(t)
               PROVE  t[j].key \in DOMAIN e /\ e[t[j].key].link = t[j].address
    BY DEF Points
  <2>1. t[j] = list[j + 1] /\ j + 1 \in 1 .. Len(list) /\ j + 1 # 1
    BY <1>5
  <2>2. list[j + 1].key \in DOMAIN store /\ store[list[j + 1].key].link = list[j + 1].address
    BY <2>1 DEF Chained, Points
  <2>3. list[j + 1].key # k1
    BY <2>1, <1>4
  <2> QED
    BY <2>1, <2>2, <2>3, <1>3
<1>10. Covers(t, e)
  <2> SUFFICES ASSUME NEW k \in DOMAIN e
               PROVE  \E j \in 1 .. Len(t) : t[j].key = k
    BY DEF Covers
  <2>1. PICK q \in 1 .. Len(list) : list[q].key = k
    BY <1>3 DEF Chained, Covers
  <2>2. q # 1
    BY <2>1, <1>3 DEF k1
  <2>3. q - 1 \in 1 .. Len(t) /\ (q - 1) + 1 = q
    BY <2>2, <1>1, <1>2
  <2>4. t[q - 1] = list[q]
    BY <2>3, <1>5
  <2> QED
    BY <2>1, <2>3, <2>4
<1>11. Chained(t, e)
  BY <1>2, <1>6, <1>7, <1>8, <1>9, <1>10 DEF Chained, Typed
<1> QED
  BY <1>2, <1>11 DEF t, e, k1

\* put() finds an address that no node has, and links node and entry.
LEMMA ChainedInsert ==
  ASSUME NEW list, NEW store, Chained(list, store), Len(list) < k_maxSize,
         NEW key \in Keys, key \notin DOMAIN store, NEW val \in Values
  PROVE  LET tracker == Inserted(list, key)
         IN  /\ tracker = Append(list, tracker[Len(tracker)])
             /\ tracker[Len(tracker)] \in Node
             /\ tracker[Len(tracker)].key = key
             /\ Len(tracker) = Len(list) + 1
             /\ Chained(tracker,
                        InsertKey(store, key, [val |-> val, link |-> tracker[Len(tracker)].address]))
<1> DEFINE a == CHOOSE x \in Addresses : x \notin AddressesOf(list)
           node == [address |-> a, key |-> key]
           t == Inserted(list, key)
           n == Len(list)
<1>1. /\ list \in Seq(Node)
      /\ n \in Nat
      /\ DOMAIN list = 1 .. n
  BY ChainedType
<1>2. a \in Addresses /\ \A j \in 1 .. n : list[j].address # a
  <2> DEFINE f == [j \in 1 .. n |-> list[j].address]
  <2>1. f = [j \in 1 .. n |-> f[j]] /\ \A j \in 1 .. n : f[j] = list[j].address
    OBVIOUS
  <2>2. Cardinality(Addresses) > n /\ IsFiniteSet(Addresses)
    <3>1. Cardinality(Addresses) \in Nat
      BY AddressesAssumption, FS_CardinalityType
    <3> QED
      BY <3>1, <1>1, MaxSizeAssumption, AddressesAssumption
  <2> HIDE DEF f
  <2>3. \E x \in Addresses : \A j \in 1 .. n : f[j] # x
    BY <1>1, <2>1, <2>2, FreshElement
  <2>4. \E x \in Addresses : x \notin AddressesOf(list)
    BY <1>1, <2>1, <2>3 DEF AddressesOf
  <2>5. a \in Addresses /\ a \notin AddressesOf(list)
    BY <2>4
  <2> QED
    BY <1>1, <2>5 DEF AddressesOf
<1>3. t = Append(list, node)
  BY DEF Inserted
<1> HIDE DEF a, t
<1>4. node \in Node /\ node.key = key /\ node.address = a
  BY <1>2 DEF Node
<1> HIDE DEF node
<1>5. /\ t \in Seq(Node)
      /\ Len(t) = n + 1
      /\ \A j \in 1 .. n : t[j] = list[j]
      /\ t[n + 1] = node
  BY <1>1, <1>3, <1>4, AppendProperties
<1> DEFINE e == [val |-> val, link |-> a]
           s == InsertKey(store, key, e)
<1>6. e \in Entry /\ e.link = a
  BY <1>2 DEF Entry
<1> HIDE DEF e
<1>7. /\ DOMAIN s = DOMAIN store \cup {key}
      /\ \A k \in DOMAIN store : s[k] = store[k]
      /\ s[key] = e
  BY DEF InsertKey
<1> HIDE DEF s
<1>8. Len(t) <= k_maxSize
  BY <1>1, <1>5, MaxSizeAssumption
<1>9. DOMAIN s \subseteq Keys /\ \A k \in DOMAIN s : s[k] \in Entry
  BY <1>6, <1>7 DEF Chained, Typed
<1>10. \A j \in 1 .. Len(t) : j = n + 1 \/ j \in 1 .. n
  BY <1>1, <1>5
<1>11. Apart(t)
  <2> SUFFICES ASSUME NEW i \in 1 .. Len(t), NEW j \in 1 .. Len(t), t[i].address = t[j].address
               PROVE  i = j
    BY DEF Apart
  <2>1. CASE i \in 1 .. n /\ j \in 1 .. n
    BY <2>1, <1>5 DEF Chained, Apart
  <2>2. CASE i = n + 1 \/ j = n + 1
    BY <2>2, <1>2, <1>4, <1>5, <1>10
  <2> QED
    BY <2>1, <2>2, <1>10
<1>12. Points(t, s)
  <2> SUFFICES ASSUME NEW j \in 1 .. Len(t)
               PROVE  t[j].key \in DOMAIN s /\ s[t[j].key].link = t[j].address
    BY DEF Points
  <2>1. CASE j = n + 1
    BY <2>1, <1>4, <1>5, <1>6, <1>7
  <2>2. CASE j \in 1 .. n
    <3>1. list[j].key \in DOMAIN store /\ store[list[j].key].link = list[j].address
      BY <2>2 DEF Chained, Points
    <3> QED
      BY <2>2, <3>1, <1>5, <1>7
  <2> QED
    BY <2>1, <2>2, <1>10
<1>13. Covers(t, s)
  <2> SUFFICES ASSUME NEW k \in DOMAIN s
               PROVE  \E j \in 1 .. Len(t) : t[j].key = k
    BY DEF Covers
  <2>1. CASE k = key
    <3>1. n + 1 \in 1 .. Len(t) /\ t[n + 1].key = k
      BY <2>1, <1>1, <1>4, <1>5
    <3> QED
      BY <3>1
  <2>2. CASE k \in DOMAIN store
    <3>1. PICK q \in 1 .. n : list[q].key = k
      BY <2>2 DEF Chained, Covers
    <3>2. q \in 1 .. Len(t) /\ t[q] = list[q]
      BY <1>1, <1>5
    <3> QED
      BY <3>1, <3>2
  <2> QED
    BY <2>1, <2>2, <1>7
<1>14. Chained(t, s)
  BY <1>5, <1>8, <1>9, <1>11, <1>12, <1>13 DEF Chained, Typed
<1>15. t[Len(t)] = node
  BY <1>5
<1>16. s = InsertKey(store, key, [val |-> val, link |-> node.address])
  BY <1>4 DEF s, e
<1> QED
  BY <1>3, <1>4, <1>5, <1>14, <1>15, <1>16 DEF t

\* The room that get() makes: the cache stays chained, has a place for the
\* key, which is still not in it, and the order loses its oldest key if full.
LEMMA EvictedChained ==
  ASSUME IndInv, NEW key \in Keys, key \notin DOMAIN m_store
  PROVE  /\ Chained(Evicted.tracker, Evicted.store)
         /\ Len(Evicted.tracker) < k_maxSize
         /\ key \notin DOMAIN Evicted.store
         /\ KeysOf(Evicted.tracker) = Abstract!MakeRoom(Order)
<1>1. /\ Chained(m_key_tracker, m_store)
      /\ m_key_tracker \in Seq(Node)
      /\ Len(m_key_tracker) \in Nat
      /\ Len(m_key_tracker) <= k_maxSize
      /\ Cardinality(DOMAIN m_store) = Len(m_key_tracker)
  BY ChainedType, ChainedCount DEF IndInv, Chained, Typed
<1>2. Order = KeysOf(m_key_tracker)
  BY DEF Order, KeysOf
<1>3. Len(Order) = Len(m_key_tracker)
  BY <1>1, <1>2, NodeKeys, KeysOfProperties
<1>4. CASE Full
  <2>1. Len(m_key_tracker) = k_maxSize /\ Len(m_key_tracker) # 0 /\ m_key_tracker # <<>>
    BY <1>1, <1>4, MaxSizeAssumption DEF Full
  <2>2. /\ Evicted.tracker = Tail(m_key_tracker)
        /\ Evicted.store = EraseKey(m_store, Head(m_key_tracker).key)
    BY <1>4 DEF Evicted
  <2>3. /\ Chained(Evicted.tracker, Evicted.store)
        /\ Len(Evicted.tracker) = Len(m_key_tracker) - 1
    BY <1>1, <2>1, <2>2, ChainedTail
  <2>4. key \notin DOMAIN Evicted.store
    BY <2>2 DEF EraseKey
  <2>5. KeysOf(Evicted.tracker) = Tail(Order)
    BY <1>1, <1>2, <2>1, <2>2, NodeKeys, KeysOfTail
  <2> QED
    BY <1>1, <1>3, <2>1, <2>3, <2>4, <2>5, MaxSizeAssumption DEF Abstract!MakeRoom
<1>5. CASE ~ Full
  <2>1. Len(m_key_tracker) # k_maxSize
    BY <1>1, <1>5 DEF Full
  <2>2. Evicted.tracker = m_key_tracker /\ Evicted.store = m_store
    BY <1>5 DEF Evicted
  <2> QED
    BY <1>1, <1>2, <1>3, <2>1, <2>2, MaxSizeAssumption DEF Abstract!MakeRoom
<1> QED
  BY <1>4, <1>5

\* The keys of the order are those of the map.
LEMMA CachedKeys ==
  ASSUME IndInv
  PROVE  Abstract!Cached = DOMAIN m_store
<1>1. /\ DOMAIN m_store = {KeysOf(m_key_tracker)[i] : i \in 1 .. Len(m_key_tracker)}
      /\ DOMAIN m_key_tracker = 1 .. Len(m_key_tracker)
  BY ChainedCount, ChainedType DEF IndInv
<1> QED
  BY <1>1 DEF Abstract!Cached, Order, KeysOf

-----------------------------------------------------------------------------
\* The node found is the key's, and goes to the end of the order.
LEMMA HitStep ==
  ASSUME IndInv, NEW key \in Keys, Hit(key)
  PROVE  IndInv' /\ Abstract!Touch(key)
<1>1. PICK i \in DOMAIN m_key_tracker :
        /\ m_key_tracker[i].address = m_store[key].link
        /\ m_key_tracker' = Append(RemoveAt(m_key_tracker, i), m_key_tracker[i])
  BY DEF Hit
<1>2. key \in DOMAIN m_store /\ m_store' = m_store
  BY DEF Hit
<1>3. /\ m_key_tracker \in Seq(Node)
      /\ i \in 1 .. Len(m_key_tracker)
      /\ m_key_tracker[i] \in Node
  BY ChainedType DEF IndInv
<1>4. IndInv'
  BY <1>1, <1>2, <1>3, ChainedMove DEF IndInv
<1>5. m_key_tracker[i].key = key
  <2>1. PICK j \in 1 .. Len(m_key_tracker) : m_key_tracker[j].key = key
    BY <1>2 DEF IndInv, Chained, Covers
  <2>2. m_key_tracker[j].address = m_key_tracker[i].address
    BY <1>1, <2>1 DEF IndInv, Chained, Points
  <2>3. j = i
    BY <1>3, <2>2 DEF IndInv, Chained, Apart
  <2> QED
    BY <2>1, <2>3
<1>6. Order = KeysOf(m_key_tracker) /\ Order' = KeysOf(m_key_tracker')
  BY DEF Order, KeysOf
<1>7. RemoveAt(m_key_tracker, i) \in Seq(Node)
  BY <1>3, RemoveAtProperties
<1>8. Order' = Append(RemoveAt(Order, i), key)
  <2>1. KeysOf(m_key_tracker') = Append(KeysOf(RemoveAt(m_key_tracker, i)), m_key_tracker[i].key)
    BY <1>1, <1>3, <1>7, NodeKeys, KeysOfAppend
  <2>2. KeysOf(RemoveAt(m_key_tracker, i)) = RemoveAt(KeysOf(m_key_tracker), i)
    BY <1>3, NodeKeys, KeysOfRemoveAt
  <2> QED
    BY <1>5, <1>6, <2>1, <2>2
<1>9. i \in DOMAIN Order /\ Order[i] = key
  BY <1>3, <1>5 DEF Order
<1> QED
  BY <1>4, <1>8, <1>9 DEF Abstract!Touch, Abstract!RemoveAt, RemoveAt

\* A load puts the key at the end of what is left after the eviction.
LEMMA MissStep ==
  ASSUME IndInv, NEW key \in Keys, NEW val \in Values, Miss(key, val)
  PROVE  IndInv' /\ Abstract!Insert(key)
<1> DEFINE tracker == Inserted(Evicted.tracker, key)
           node == tracker[Len(tracker)]
<1>1. /\ key \notin DOMAIN m_store
      /\ m_key_tracker' = tracker
      /\ m_store' = InsertKey(Evicted.store, key, [val |-> val, link |-> node.address])
  BY DEF Miss
<1>2. /\ Chained(Evicted.tracker, Evicted.store)
      /\ Len(Evicted.tracker) < k_maxSize
      /\ key \notin DOMAIN Evicted.store
      /\ KeysOf(Evicted.tracker) = Abstract!MakeRoom(Order)
  BY <1>1, EvictedChained
<1>3. /\ tracker = Append(Evicted.tracker, node)
      /\ node \in Node
      /\ node.key = key
      /\ Chained(tracker, InsertKey(Evicted.store, key, [val |-> val, link |-> node.address]))
  BY <1>2, ChainedInsert
<1> HIDE DEF tracker, node
<1>4. IndInv'
  BY <1>1, <1>3 DEF IndInv
<1>5. Order' = KeysOf(m_key_tracker')
  BY DEF Order, KeysOf
<1>6. Evicted.tracker \in Seq(Node)
  BY <1>2 DEF Chained, Typed
<1>7. Order' = Append(Abstract!MakeRoom(Order), key)
  BY <1>1, <1>2, <1>3, <1>5, <1>6, NodeKeys, KeysOfAppend
<1> QED
  BY <1>1, <1>4, <1>7, CachedKeys DEF Abstract!Insert

\* A get() that ends after it made room has evicted a key, or done nothing.
LEMMA RoomStep ==
  ASSUME IndInv, NEW key \in Keys, key \notin DOMAIN m_store,
         m_key_tracker' = Evicted.tracker, m_store' = Evicted.store
  PROVE  IndInv' /\ (Abstract!Evict \/ UNCHANGED Order)
<1>1. /\ Chained(Evicted.tracker, Evicted.store)
      /\ KeysOf(Evicted.tracker) = Abstract!MakeRoom(Order)
  BY EvictedChained
<1>2. IndInv'
  BY <1>1 DEF IndInv
<1>3. Order' = Abstract!MakeRoom(Order)
  BY <1>1 DEF Order, KeysOf
<1> QED
  BY <1>2, <1>3 DEF Abstract!MakeRoom, Abstract!Evict

\* pop_back() in the handler of put() takes back what the insertion added.
LEMMA RolledBack ==
  ASSUME IndInv, NEW key \in Keys, PutThrows(key)
  PROVE  m_key_tracker' = Evicted.tracker /\ m_store' = Evicted.store
<1> DEFINE list == Evicted.tracker
           tracker == Inserted(list, key)
<1>1. /\ key \notin DOMAIN m_store
      /\ m_key_tracker' = SubSeq(tracker, 1, Len(tracker) - 1)
      /\ m_store' = Evicted.store
  BY DEF PutThrows
<1>2. list \in Seq(Node) /\ Len(list) \in Nat
  BY <1>1, EvictedChained, ChainedType
<1> DEFINE node == [address |-> CHOOSE a \in Addresses : a \notin AddressesOf(list), key |-> key]
           S == Node \cup {node}
<1>3. tracker = Append(list, node)
  BY DEF Inserted
<1> HIDE DEF list, tracker, node
<1>4. list \in Seq(S) /\ node \in S
  BY <1>2, SeqMonotonic
<1> HIDE DEF S
<1>5. /\ tracker \in Seq(S)
      /\ Len(tracker) = Len(list) + 1
      /\ \A j \in 1 .. Len(list) : tracker[j] = list[j]
  BY <1>3, <1>4, AppendProperties
<1>6. /\ SubSeq(tracker, 1, Len(list)) \in Seq(S)
      /\ Len(SubSeq(tracker, 1, Len(list))) = Len(list)
      /\ \A j \in 1 .. Len(list) : SubSeq(tracker, 1, Len(list))[j] = tracker[j]
  <2>1. \A j \in 1 .. Len(list) : tracker[j] \in S
    BY <1>2, <1>5, ElementOfSeq
  <2> QED
    BY <1>2, <2>1, SubSeqProperties
<1>7. SubSeq(tracker, 1, Len(list)) = list
  BY <1>4, <1>5, <1>6, SeqEqual
<1> QED
  BY <1>1, <1>2, <1>5, <1>7 DEF list

\* Every step keeps list and map together and is a step of an LRU cache.
LEMMA NextChained ==
  ASSUME IndInv, [Next]_vars
  PROVE  IndInv' /\ [Abstract!Next]_Order
<1>1. CASE UNCHANGED vars
  BY <1>1 DEF vars, IndInv, Order
<1>2. CASE Next
  <2>1. PICK key \in Keys :
          \/ Hit(key)
          \/ \E val \in Values : Miss(key, val)
          \/ EvictThrows(key)
          \/ LoadThrows(key)
          \/ PutThrows(key)
    BY <1>2 DEF Next
  <2>2. CASE Hit(key)
    BY <2>2, HitStep DEF Abstract!Next
  <2>3. CASE \E val \in Values : Miss(key, val)
    BY <2>3, MissStep DEF Abstract!Next
  <2>4. CASE EvictThrows(key)
    BY <2>4 DEF EvictThrows, vars, IndInv, Order
  <2>5. CASE LoadThrows(key)
    BY <2>5, RoomStep DEF LoadThrows, Abstract!Next
  <2>6. CASE PutThrows(key)
    <3>1. key \notin DOMAIN m_store
      BY <2>6 DEF PutThrows
    <3> QED
      BY <2>6, <3>1, RolledBack, RoomStep DEF Abstract!Next
  <2> QED
    BY <2>1, <2>2, <2>3, <2>4, <2>5, <2>6
<1> QED
  BY <1>1, <1>2

\* The empty cache.
LEMMA InitChained == Init => IndInv /\ Abstract!Init
<1> SUFFICES ASSUME Init PROVE IndInv /\ Abstract!Init
  OBVIOUS
<1>1. m_key_tracker = <<>> /\ DOMAIN m_store = {}
  BY DEF Init
<1>2. m_key_tracker \in Seq(Node) /\ Len(m_key_tracker) = 0
  BY <1>1, EmptySeq
<1>3. IndInv
  BY <1>1, <1>2, MaxSizeAssumption DEF IndInv, Chained, Typed, Apart, Points, Covers
<1>4. KeysOf(m_key_tracker) \in Seq(Keys) /\ Len(KeysOf(m_key_tracker)) = 0
  BY <1>2, NodeKeys, KeysOfProperties
<1>5. Order = <<>>
  BY <1>4, EmptySeq DEF Order, KeysOf
<1> QED
  BY <1>3, <1>5 DEF Abstract!Init

\* List and map stay in step through every get(), whatever throws.
THEOREM CacheInvariant == Spec => []IndInv
<1>1. IndInv /\ [Next]_vars => IndInv'
  BY NextChained
<1> QED
  BY <1>1, InitChained, PTL DEF Spec

\* Every variable keeps its type.
THEOREM CacheTypeOK == Spec => []TypeOK
<1>1. IndInv => TypeOK
  BY DEF IndInv, Chained, Typed, TypeOK
<1> QED
  BY <1>1, CacheInvariant, PTL

\* put() "may throw, but state is consistent": the list holds each cached
\* key once and nothing else, at the position the map keeps for it.
THEOREM CacheLinked == Spec => []Linked
<1>1. ASSUME IndInv PROVE Linked
  <2>1. /\ m_key_tracker \in Seq(Node)
        /\ Len(m_key_tracker) \in Nat
        /\ DOMAIN m_key_tracker = 1 .. Len(m_key_tracker)
        /\ \A i \in 1 .. Len(m_key_tracker) : m_key_tracker[i] \in Node
    BY <1>1, ChainedType DEF IndInv
  <2>2. Len(m_key_tracker) = Cardinality(DOMAIN m_store)
    BY <1>1, ChainedCount DEF IndInv
  <2>3. Cardinality(AddressesOf(m_key_tracker)) = Len(m_key_tracker)
    <3> DEFINE n == Len(m_key_tracker)
               f == [i \in 1 .. n |-> m_key_tracker[i].address]
    <3>1. /\ DOMAIN f = 1 .. n
          /\ f = [j \in 1 .. n |-> f[j]]
          /\ \A j \in 1 .. n : f[j] = m_key_tracker[j].address
      OBVIOUS
    <3> HIDE DEF f
    <3>2. \A i, j \in 1 .. n : i # j => f[i] # f[j]
      BY <1>1, <3>1 DEF IndInv, Chained, Apart
    <3>3. Cardinality({f[j] : j \in 1 .. n}) = n
      BY <2>1, <3>1, <3>2, CountDistinct
    <3>4. AddressesOf(m_key_tracker) = {f[j] : j \in 1 .. n}
      BY <2>1, <3>1 DEF AddressesOf
    <3> QED
      BY <3>3, <3>4
  <2>4. ASSUME NEW k \in DOMAIN m_store
        PROVE  \E i \in DOMAIN m_key_tracker :
                 m_key_tracker[i] = [address |-> m_store[k].link, key |-> k]
    <3>1. PICK i \in 1 .. Len(m_key_tracker) : m_key_tracker[i].key = k
      BY <1>1 DEF IndInv, Chained, Covers
    <3>2. m_store[k].link = m_key_tracker[i].address
      BY <1>1, <3>1 DEF IndInv, Chained, Points
    <3>3. m_key_tracker[i] \in Node
      BY <2>1
    <3>4. m_key_tracker[i] = [address |-> m_key_tracker[i].address, key |-> m_key_tracker[i].key]
      BY <3>3 DEF Node
    <3> QED
      BY <2>1, <3>1, <3>2, <3>4
  <2> QED
    BY <2>2, <2>3, <2>4 DEF Linked
<1> QED
  BY <1>1, CacheInvariant, PTL

\* The cache is an LRU cache: what a get() pushes out, failed ones included,
\* is the least recently used key, and only when the cache is full.
THEOREM CacheImplementsLru == Spec => ImplementsLru
<1>1. IndInv /\ [Next]_vars => [Abstract!Next]_Order
  BY NextChained
<1> QED
  BY <1>1, InitChained, CacheInvariant, PTL DEF Spec, ImplementsLru, Abstract!Spec

-----------------------------------------------------------------------------
(***************************************************************************)
(* v1::Lru, whose capacity is a parameter of the constructor               *)
(***************************************************************************)
V1Node == [at : 1 .. max_size_ + 1, key : Keys]

\* The nodes have different addresses.
V1Apart(list) == \A i, j \in 1 .. Len(list) : list[i].at = list[j].at => i = j

\* The iterator the map keeps for a node's key points to the node.
V1Points(list, map) ==
  \A i \in 1 .. Len(list) : list[i].key \in DOMAIN map /\ map[list[i].key] = list[i].at

\* Every key of the map has a node.
V1Covers(list, map) == \A k \in DOMAIN map : \E i \in 1 .. Len(list) : list[i].key = k

\* List and map tell the same.
V1Chained(list, map) ==
  /\ list \in Seq(V1Node) /\ Len(list) <= max_size_
  /\ V1Apart(list) /\ V1Points(list, map) /\ V1Covers(list, map)

V1IndInv == V1Chained(list_, map_)

\* Nodes are records with a key.
LEMMA V1NodeKeys == \A n \in V1Node : n.key \in Keys /\ n.at \in 1 .. max_size_ + 1
BY DEF V1Node

\* What V1Chained says of the length and of the elements.
LEMMA V1ChainedType ==
  ASSUME NEW list, NEW map, V1Chained(list, map)
  PROVE  /\ list \in Seq(V1Node)
         /\ Len(list) \in Nat
         /\ DOMAIN list = 1 .. Len(list)
         /\ \A i \in 1 .. Len(list) : list[i] \in V1Node
BY ElementOfSeq, LenProperties DEF V1Chained

\* No key is in the list twice: both nodes would be where the map says.
LEMMA V1ChainedKeys ==
  ASSUME NEW list, NEW map, V1Chained(list, map)
  PROVE  \A i, j \in 1 .. Len(list) : list[i].key = list[j].key => i = j
<1> SUFFICES ASSUME NEW i \in 1 .. Len(list), NEW j \in 1 .. Len(list), list[i].key = list[j].key
             PROVE  i = j
  OBVIOUS
<1>1. map[list[i].key] = list[i].at /\ map[list[j].key] = list[j].at
  BY DEF V1Chained, V1Points
<1>2. list[i].at = list[j].at
  BY <1>1
<1> QED
  BY <1>2 DEF V1Chained, V1Apart

\* A node erased from the list, with its key from the map, leaves both chained.
LEMMA V1ChainedRemove ==
  ASSUME NEW list, NEW map, V1Chained(list, map), NEW i \in 1 .. Len(list), max_size_ \in Nat
  PROVE  /\ V1Chained(RemoveAt(list, i), [k \in DOMAIN map \ {list[i].key} |-> map[k]])
         /\ Len(RemoveAt(list, i)) = Len(list) - 1
<1> DEFINE t == RemoveAt(list, i)
           e == [k \in DOMAIN map \ {list[i].key} |-> map[k]]
           p(j) == IF j < i THEN j ELSE j + 1
<1>1. /\ list \in Seq(V1Node)
      /\ Len(list) \in Nat
  BY V1ChainedType
<1>2. /\ t \in Seq(V1Node)
      /\ Len(t) = Len(list) - 1
      /\ \A j \in 1 .. Len(list) - 1 : t[j] = IF j < i THEN list[j] ELSE list[j + 1]
  BY <1>1, RemoveAtProperties
<1>3. /\ DOMAIN e = DOMAIN map \ {list[i].key}
      /\ \A k \in DOMAIN e : e[k] = map[k]
  OBVIOUS
<1> HIDE DEF t, e
<1>4. \A j \in 1 .. Len(t) : t[j] = list[p(j)] /\ p(j) \in 1 .. Len(list) /\ p(j) # i
  BY <1>1, <1>2
<1>5. \A j, k \in 1 .. Len(t) : p(j) = p(k) => j = k
  BY <1>1, <1>2
<1>6. \A q \in 1 .. Len(list) : q # i => \E j \in 1 .. Len(t) : p(j) = q
  <2> SUFFICES ASSUME NEW q \in 1 .. Len(list), q # i
               PROVE  \E j \in 1 .. Len(t) : p(j) = q
    OBVIOUS
  <2>1. CASE q < i
    BY <2>1, <1>1, <1>2
  <2>2. CASE q > i
    <3>1. q - 1 \in 1 .. Len(t) /\ p(q - 1) = q
      BY <2>2, <1>1, <1>2
    <3> QED
      BY <3>1
  <2> QED
    BY <2>1, <2>2, <1>1
<1> HIDE DEF p
<1>7. V1Apart(t)
  <2> SUFFICES ASSUME NEW j \in 1 .. Len(t), NEW k \in 1 .. Len(t), t[j].at = t[k].at
               PROVE  j = k
    BY DEF V1Apart
  <2>1. p(j) = p(k)
    BY <1>4 DEF V1Chained, V1Apart
  <2> QED
    BY <2>1, <1>5
<1>8. V1Points(t, e)
  <2> SUFFICES ASSUME NEW j \in 1 .. Len(t)
               PROVE  t[j].key \in DOMAIN e /\ e[t[j].key] = t[j].at
    BY DEF V1Points
  <2>1. t[j] = list[p(j)] /\ p(j) \in 1 .. Len(list) /\ p(j) # i
    BY <1>4
  <2>2. list[p(j)].key \in DOMAIN map /\ map[list[p(j)].key] = list[p(j)].at
    BY <2>1 DEF V1Chained, V1Points
  <2>3. list[p(j)].key # list[i].key
    BY <2>1, V1ChainedKeys
  <2> QED
    BY <2>1, <2>2, <2>3, <1>3
<1>9. V1Covers(t, e)
  <2> SUFFICES ASSUME NEW k \in DOMAIN e
               PROVE  \E j \in 1 .. Len(t) : t[j].key = k
    BY DEF V1Covers
  <2>1. PICK q \in 1 .. Len(list) : list[q].key = k
    BY <1>3 DEF V1Chained, V1Covers
  <2>2. PICK j \in 1 .. Len(t) : p(j) = q
    BY <2>1, <1>3, <1>6
  <2> QED
    BY <2>1, <2>2, <1>4
<1>10. Len(t) <= max_size_
  BY <1>1, <1>2 DEF V1Chained
<1>11. V1Chained(t, e)
  BY <1>2, <1>7, <1>8, <1>9, <1>10 DEF V1Chained
<1> QED
  BY <1>2, <1>11 DEF t, e

\* A node at a free address, for a key that is not in the map.
LEMMA V1ChainedInsert ==
  ASSUME NEW list, NEW map, V1Chained(list, map), Len(list) < max_size_, max_size_ \in Nat,
         NEW key \in Keys, key \notin DOMAIN map, NEW at \in V1!Free(list),
         NEW new, DOMAIN new = DOMAIN map \cup {key},
         \A k \in DOMAIN map : new[k] = map[k], new[key] = at
  PROVE  V1Chained(V1!Inserted(list, key, at), new)
<1> DEFINE node == [at |-> at, key |-> key]
           t == Append(list, node)
           n == Len(list)
<1>1. /\ list \in Seq(V1Node)
      /\ n \in Nat
      /\ DOMAIN list = 1 .. n
  BY V1ChainedType
<1>2. at \in 1 .. max_size_ + 1 /\ \A j \in 1 .. n : list[j].at # at
  BY <1>1 DEF V1!Free, V1!Used
<1>3. node \in V1Node /\ node.key = key /\ node.at = at
  BY <1>2 DEF V1Node
<1> HIDE DEF node
<1>4. /\ t \in Seq(V1Node)
      /\ Len(t) = n + 1
      /\ \A j \in 1 .. n : t[j] = list[j]
      /\ t[n + 1] = node
  BY <1>1, <1>3, AppendProperties
<1> HIDE DEF t
<1>5. \A j \in 1 .. Len(t) : j = n + 1 \/ j \in 1 .. n
  BY <1>1, <1>4
<1>6. V1Apart(t)
  <2> SUFFICES ASSUME NEW i \in 1 .. Len(t), NEW j \in 1 .. Len(t), t[i].at = t[j].at
               PROVE  i = j
    BY DEF V1Apart
  <2>1. CASE i \in 1 .. n /\ j \in 1 .. n
    BY <2>1, <1>4 DEF V1Chained, V1Apart
  <2>2. CASE i = n + 1 \/ j = n + 1
    BY <2>2, <1>2, <1>3, <1>4, <1>5
  <2> QED
    BY <2>1, <2>2, <1>5
<1>7. V1Points(t, new)
  <2> SUFFICES ASSUME NEW j \in 1 .. Len(t)
               PROVE  t[j].key \in DOMAIN new /\ new[t[j].key] = t[j].at
    BY DEF V1Points
  <2>1. CASE j = n + 1
    BY <2>1, <1>3, <1>4
  <2>2. CASE j \in 1 .. n
    <3>1. list[j].key \in DOMAIN map /\ map[list[j].key] = list[j].at
      BY <2>2 DEF V1Chained, V1Points
    <3> QED
      BY <2>2, <3>1, <1>4
  <2> QED
    BY <2>1, <2>2, <1>5
<1>8. V1Covers(t, new)
  <2> SUFFICES ASSUME NEW k \in DOMAIN new
               PROVE  \E j \in 1 .. Len(t) : t[j].key = k
    BY DEF V1Covers
  <2>1. CASE k = key
    <3>1. n + 1 \in 1 .. Len(t) /\ t[n + 1].key = k
      BY <2>1, <1>1, <1>3, <1>4
    <3> QED
      BY <3>1
  <2>2. CASE k \in DOMAIN map
    <3>1. PICK q \in 1 .. n : list[q].key = k
      BY <2>2 DEF V1Chained, V1Covers
    <3>2. q \in 1 .. Len(t) /\ t[q] = list[q]
      BY <1>1, <1>4
    <3> QED
      BY <3>1, <3>2
  <2> QED
    BY <2>1, <2>2
<1>9. Len(t) <= max_size_
  BY <1>1, <1>4
<1>10. V1Chained(t, new)
  BY <1>4, <1>6, <1>7, <1>8, <1>9 DEF V1Chained
<1> QED
  BY <1>10 DEF t, node, V1!Inserted
\* The order v1::Lru keeps is the keys of its list, and those of its map.
LEMMA V1OrderKeys ==
  ASSUME V1IndInv
  PROVE  /\ V1!Order = KeysOf(list_)
         /\ Len(V1!Order) = Len(list_)
         /\ V1!Set!Cached = DOMAIN map_
<1>1. list_ \in Seq(V1Node) /\ DOMAIN list_ = 1 .. Len(list_)
  BY V1ChainedType DEF V1IndInv
<1>2. V1!Order = KeysOf(list_)
  BY DEF V1!Order, KeysOf
<1>3. Len(KeysOf(list_)) = Len(list_)
  BY <1>1, V1NodeKeys, KeysOfProperties
<1>4. DOMAIN V1!Order = 1 .. Len(list_) /\ \A i \in 1 .. Len(list_) : V1!Order[i] = list_[i].key
  BY <1>1 DEF V1!Order
<1>5. \A i \in 1 .. Len(list_) : V1!Order[i] \in DOMAIN map_
  BY <1>4 DEF V1IndInv, V1Chained, V1Points
<1>6. \A k \in DOMAIN map_ : \E i \in 1 .. Len(list_) : V1!Order[i] = k
  BY <1>4 DEF V1IndInv, V1Chained, V1Covers
<1>7. V1!Set!Cached = DOMAIN map_
  BY <1>4, <1>5, <1>6 DEF V1!Set!Cached
<1> QED
  BY <1>2, <1>3, <1>7

\* A key that is used again: its node is erased and a new one put at the end,
\* and the iterator in the map follows.
LEMMA V1MoveStep ==
  ASSUME V1IndInv, max_size_ \in Nat, NEW key \in Keys, key \in DOMAIN map_, V1!MoveToEnd(key)
  PROVE  V1IndInv' /\ V1!Set!Touch(key)
<1>0. PICK i \in V1!Found(key) :
        \E at \in V1!Free(V1!RemoveAt(list_, i)) :
          /\ list_' = V1!Inserted(V1!RemoveAt(list_, i), key, at)
          /\ map_' = [map_ EXCEPT ![key] = at]
  BY DEF V1!MoveToEnd
<1>1. PICK at :
        /\ at \in V1!Free(V1!RemoveAt(list_, i))
        /\ list_' = V1!Inserted(V1!RemoveAt(list_, i), key, at)
        /\ map_' = [map_ EXCEPT ![key] = at]
  BY <1>0
<1> DEFINE rest == RemoveAt(list_, i)
           left == [k \in DOMAIN map_ \ {key} |-> map_[k]]
<1>2. rest = V1!RemoveAt(list_, i)
  BY DEF RemoveAt, V1!RemoveAt
<1>3. /\ list_ \in Seq(V1Node)
      /\ Len(list_) \in Nat
      /\ i \in 1 .. Len(list_)
      /\ list_[i].at = map_[key]
  BY V1ChainedType DEF V1IndInv, V1!Found
<1>4. list_[i].key = key
  <2>1. PICK j \in 1 .. Len(list_) : list_[j].key = key
    BY DEF V1IndInv, V1Chained, V1Covers
  <2>2. list_[j].at = list_[i].at
    BY <1>3, <2>1 DEF V1IndInv, V1Chained, V1Points
  <2>3. j = i
    BY <1>3, <2>2 DEF V1IndInv, V1Chained, V1Apart
  <2> QED
    BY <2>1, <2>3
<1>5. V1Chained(rest, left) /\ Len(rest) = Len(list_) - 1 /\ rest \in Seq(V1Node)
  BY <1>3, <1>4, V1ChainedRemove DEF V1IndInv, V1Chained
<1>6. Len(rest) < max_size_
  BY <1>3, <1>5 DEF V1IndInv, V1Chained
<1>7. key \notin DOMAIN left /\ DOMAIN left \cup {key} = DOMAIN map_
  OBVIOUS
<1>8. /\ DOMAIN map_' = DOMAIN left \cup {key}
      /\ \A k \in DOMAIN left : map_'[k] = left[k]
      /\ map_'[key] = at
  BY <1>1
<1>9. at \in V1!Free(rest) /\ list_' = V1!Inserted(rest, key, at)
  BY <1>1, <1>2
<1> HIDE DEF left, rest
<1>10. V1Chained(list_', map_')
  <2>1. V1Chained(V1!Inserted(rest, key, at), map_')
    <3>1. ASSUME NEW new, DOMAIN new = DOMAIN left \cup {key},
                 \A k \in DOMAIN left : new[k] = left[k], new[key] = at
          PROVE  V1Chained(V1!Inserted(rest, key, at), new)
      BY <1>5, <1>6, <1>7, <1>9, <3>1, V1ChainedInsert
    <3> QED
      BY <1>8, <3>1
  <2> QED
    BY <1>9, <2>1
<1> DEFINE node == [at |-> at, key |-> key]
<1>11. node \in V1Node /\ node.key = key /\ list_' = Append(rest, node)
  BY <1>9 DEF V1!Free, V1Node, V1!Inserted
<1> HIDE DEF node
<1>12. KeysOf(list_') = Append(KeysOf(rest), key)
  BY <1>5, <1>11, V1NodeKeys, KeysOfAppend
<1>13. KeysOf(rest) = RemoveAt(KeysOf(list_), i)
  BY <1>3, V1NodeKeys, KeysOfRemoveAt DEF rest
<1>14. V1!Order = KeysOf(list_) /\ V1!Order' = KeysOf(list_')
  BY DEF V1!Order, KeysOf
<1>15. i \in DOMAIN V1!Order /\ V1!Order[i] = key
  BY <1>3, <1>4, LenProperties DEF V1!Order
<1>16. V1!Order' = Append(V1!Set!RemoveAt(V1!Order, i), key)
  BY <1>12, <1>13, <1>14 DEF RemoveAt, V1!Set!RemoveAt
<1>17. V1!Set!Touch(key)
  BY <1>15, <1>16 DEF V1!Set!Touch
<1> QED
  BY <1>10, <1>17 DEF V1IndInv

\* The front of a list is the node at its first place.
LEMMA TailIsRemoveAt ==
  ASSUME NEW S, NEW s \in Seq(S), s # <<>>
  PROVE  Tail(s) = RemoveAt(s, 1) /\ Head(s) = s[1] /\ 1 \in 1 .. Len(s)
<1>1. /\ Len(s) \in Nat /\ 1 \in 1 .. Len(s)
      /\ Tail(s) \in Seq(S) /\ Len(Tail(s)) = Len(s) - 1
      /\ \A j \in 1 .. Len(s) - 1 : Tail(s)[j] = s[j + 1]
  BY HeadTailProperties, LenProperties, EmptySeq
<1>2. /\ RemoveAt(s, 1) \in Seq(S) /\ Len(RemoveAt(s, 1)) = Len(s) - 1
      /\ \A j \in 1 .. Len(s) - 1 : RemoveAt(s, 1)[j] = IF j < 1 THEN s[j] ELSE s[j + 1]
  BY <1>1, RemoveAtProperties
<1>3. \A j \in 1 .. Len(s) - 1 : Tail(s)[j] = RemoveAt(s, 1)[j]
  BY <1>1, <1>2
<1>4. Tail(s) = RemoveAt(s, 1)
  BY <1>1, <1>2, <1>3, SeqEqual
<1> QED
  BY <1>1, <1>4

\* A new key goes to the end; a full list loses its front, and the map its key.
LEMMA V1NewStep ==
  ASSUME V1IndInv, max_size_ \in Nat \ {0}, NEW key \in Keys, key \notin DOMAIN map_, V1!Put(key)
  PROVE  V1IndInv' /\ V1!Set!Insert(key)
<1> DEFINE full == Len(list_) = max_size_
           list == IF full THEN Tail(list_) ELSE list_
           kept == IF full THEN DOMAIN map_ \ {Head(list_).key} ELSE DOMAIN map_
           left == [k \in kept |-> map_[k]]
<1>1. PICK at \in V1!Free(list) :
        /\ list_' = V1!Inserted(list, key, at)
        /\ map_' = [k \in kept \cup {key} |-> IF k = key THEN at ELSE map_[k]]
  BY DEF V1!Put
<1>2. /\ list_ \in Seq(V1Node)
      /\ Len(list_) \in Nat
      /\ Len(list_) <= max_size_
  BY V1ChainedType DEF V1IndInv, V1Chained
<1>3. /\ V1!Order = KeysOf(list_)
      /\ Len(V1!Order) = Len(list_)
      /\ V1!Set!Cached = DOMAIN map_
  BY V1OrderKeys
<1>4. /\ V1Chained(list, left)
      /\ Len(list) < max_size_
      /\ KeysOf(list) = V1!Set!MakeRoom(V1!Order)
  <2>1. CASE full
    <3>1. list_ # <<>>
      BY <2>1, <1>2
    <3>2. Tail(list_) = RemoveAt(list_, 1) /\ Head(list_) = list_[1] /\ 1 \in 1 .. Len(list_)
      BY <3>1, <1>2, TailIsRemoveAt
    <3>3. /\ V1Chained(Tail(list_), [k \in DOMAIN map_ \ {Head(list_).key} |-> map_[k]])
          /\ Len(Tail(list_)) = Len(list_) - 1
      <4>1. V1Chained(list_, map_) /\ max_size_ \in Nat
        BY DEF V1IndInv
      <4>2. /\ V1Chained(RemoveAt(list_, 1), [k \in DOMAIN map_ \ {list_[1].key} |-> map_[k]])
            /\ Len(RemoveAt(list_, 1)) = Len(list_) - 1
        BY <3>2, <4>1, V1ChainedRemove, Zenon
      <4> QED
        BY <3>2, <4>2, Zenon
    <3>4. KeysOf(Tail(list_)) = Tail(KeysOf(list_))
      BY <3>1, <1>2, V1NodeKeys, KeysOfTail
    <3> QED
      BY <2>1, <3>3, <3>4, <1>2, <1>3 DEF V1!Set!MakeRoom
  <2>2. CASE ~ full
    <3>1. V1Chained(list_, [k \in DOMAIN map_ |-> map_[k]])
      BY DEF V1IndInv, V1Chained, V1Points, V1Covers
    <3> QED
      BY <2>2, <3>1, <1>2, <1>3 DEF V1!Set!MakeRoom
  <2> QED
    BY <2>1, <2>2
<1>5. /\ DOMAIN map_' = DOMAIN left \cup {key}
      /\ \A k \in DOMAIN left : map_'[k] = left[k]
      /\ map_'[key] = at
      /\ key \notin DOMAIN left
  <2>1. DOMAIN left = kept /\ \A k \in kept : left[k] = map_[k]
    OBVIOUS
  <2>2. key \notin kept
    OBVIOUS
  <2> HIDE DEF kept, left
  <2> QED
    BY <1>1, <2>1, <2>2
<1>6. list \in Seq(V1Node)
  BY <1>4 DEF V1Chained
<1> HIDE DEF list, left, kept, full
<1>7. V1Chained(list_', map_')
  <2>1. V1Chained(V1!Inserted(list, key, at), map_')
    <3>1. ASSUME NEW new, DOMAIN new = DOMAIN left \cup {key},
                 \A k \in DOMAIN left : new[k] = left[k], new[key] = at
          PROVE  V1Chained(V1!Inserted(list, key, at), new)
      BY <1>4, <1>5, <3>1, V1ChainedInsert
    <3> QED
      BY <1>5, <3>1
  <2> QED
    BY <1>1, <2>1
<1> DEFINE node == [at |-> at, key |-> key]
<1>8. node \in V1Node /\ node.key = key /\ list_' = Append(list, node)
  BY <1>1 DEF V1!Free, V1Node, V1!Inserted
<1> HIDE DEF node
<1>9. KeysOf(list_') = Append(KeysOf(list), key)
  BY <1>6, <1>8, V1NodeKeys, KeysOfAppend
<1>10. V1!Order' = KeysOf(list_')
  BY DEF V1!Order, KeysOf
<1>11. V1!Set!Insert(key)
  BY <1>3, <1>4, <1>9, <1>10 DEF V1!Set!Insert
<1> QED
  BY <1>7, <1>11 DEF V1IndInv

\* Every step keeps list and map together and is a step of an LRU cache.
LEMMA V1NextChained ==
  ASSUME V1IndInv, max_size_ \in Nat \ {0}, [V1!Next]_V1!vars
  PROVE  V1IndInv' /\ [V1!Set!Next]_V1!Order
<1>1. CASE UNCHANGED V1!vars
  BY <1>1 DEF V1!vars, V1IndInv, V1!Order
<1>2. CASE V1!Next
  <2>1. PICK key \in Keys : V1!Has(key) \/ V1!Put(key)
    BY <1>2 DEF V1!Next
  <2>2. CASE key \in DOMAIN map_
    <3>1. V1!MoveToEnd(key)
      BY <2>1, <2>2 DEF V1!Has, V1!Put
    <3> QED
      BY <2>2, <3>1, V1MoveStep DEF V1!Set!Next
  <2>3. CASE key \notin DOMAIN map_
    <3>1. V1!Put(key)
      BY <2>1, <2>3 DEF V1!Has
    <3> QED
      BY <2>3, <3>1, V1NewStep DEF V1!Set!Next
  <2> QED
    BY <2>2, <2>3
<1> QED
  BY <1>1, <1>2

\* The empty set.
LEMMA V1InitChained ==
  ASSUME max_size_ \in Nat
  PROVE  V1!Init => V1IndInv /\ V1!Set!Init
<1> SUFFICES ASSUME V1!Init PROVE V1IndInv /\ V1!Set!Init
  OBVIOUS
<1>1. list_ = <<>> /\ DOMAIN map_ = {}
  BY DEF V1!Init
<1>2. list_ \in Seq(V1Node) /\ Len(list_) = 0
  BY <1>1, EmptySeq
<1>3. V1IndInv
  BY <1>1, <1>2 DEF V1IndInv, V1Chained, V1Apart, V1Points, V1Covers
<1>4. KeysOf(list_) \in Seq(Keys) /\ Len(KeysOf(list_)) = 0
  BY <1>2, V1NodeKeys, KeysOfProperties
<1>5. V1!Order = <<>>
  BY <1>4, EmptySeq DEF V1!Order, KeysOf
<1> QED
  BY <1>3, <1>5 DEF V1!Set!Init

\* v1::Lru of any capacity but 0: list and map stay in step although every
\* use replaces a node, whose address the next one may get.
THEOREM V1Invariant ==
  ASSUME max_size_ \in Nat \ {0}
  PROVE  V1!Spec => []V1IndInv
<1>1. V1IndInv /\ [V1!Next]_V1!vars => V1IndInv'
  BY V1NextChained
<1>2. V1!Init => V1IndInv
  BY V1InitChained
<1> QED
  BY <1>1, <1>2, PTL DEF V1!Spec

\* v1::Lru of any capacity but 0 keeps the keys in the order of their last
\* use and drops only the oldest, and only for another key.
THEOREM V1ImplementsLru ==
  ASSUME max_size_ \in Nat \ {0}
  PROVE  V1!Spec => V1!LruV1Ordered
<1>1. V1IndInv /\ [V1!Next]_V1!vars => [V1!Set!Next]_V1!Order
  BY V1NextChained
<1>2. V1!Init => V1!Set!Init
  BY V1InitChained
<1> QED
  BY <1>1, <1>2, V1Invariant, PTL DEF V1!Spec, V1!LruV1Ordered, V1!Set!Spec
=============================================================================
