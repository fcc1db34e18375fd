------------------------- MODULE MessageQueueProofs -------------------------
(***************************************************************************)
(* message_queue delivers in order and loses no wake-up, for any number of *)
(* producers and any finite number of consumers.                           *)
(***************************************************************************)
EXTENDS MessageQueue, FiniteSetTheorems, SequenceTheorems, TLAPS

\* Moving the head of the second sequence to the end of the first.
LEMMA ShiftHead ==
  ASSUME NEW S, NEW s \in Seq(S), NEW r \in Seq(S), r # <<>>
  PROVE  s \o r = Append(s, Head(r)) \o Tail(r)
OBVIOUS

\* The awake consumers are a finite set; one joining or leaving counts by one.
LEMMA AwakeCount ==
  /\ Cardinality(Awake) \in Nat
  /\ Cardinality(Awake)' \in Nat
  /\ Awake' = Awake => Cardinality(Awake)' = Cardinality(Awake)
  /\ \A c \in Consumers \ Awake :
       Awake' = Awake \cup {c} => Cardinality(Awake)' = Cardinality(Awake) + 1
  /\ \A c \in Awake :
       Awake' = Awake \ {c} => Cardinality(Awake)' = Cardinality(Awake) - 1
<1>1. IsFiniteSet(Awake) /\ IsFiniteSet(Awake')
  BY FS_Subset, ThreadsAssumption DEF Awake
<1>2. Cardinality(Awake) \in Nat /\ Cardinality(Awake') \in Nat
  BY <1>1, FS_CardinalityType
<1> QED
  BY <1>1, <1>2, FS_AddElement, FS_RemoveElement

\* The initial state satisfies the inductive invariant.
LEMMA InitIndInv == Init => IndInv
<1> SUFFICES ASSUME Init PROVE IndInv
  OBVIOUS
<1>1. TypeOK
  BY MaxItemsAssumption DEF Init, TypeOK, Locations
<1>2. OwnerAgrees /\ RolesAgree
  BY ThreadsAssumption DEF Init, OwnerAgrees, RolesAgree, Threads
<1>3. Fifo
  BY DEF Init, Fifo
<1>4. NoLostWakeup
  BY DEF Init, NoLostWakeup, At
<1> QED
  BY <1>1, <1>2, <1>3, <1>4 DEF IndInv

\* A call, a wake-up or a lock moves one thread and leaves the queue alone;
\* the number of awake consumers does not drop.
LEMMA MoveKeeps ==
  ASSUME IndInv, NEW t \in Threads, NEW to \in {"locking", "locked"},
         pc[t] # "locked", pc[t] = "locking" => to = "locked",
         t \in Producers => pc[t] # "outside" \/ left[t] > 0,
         IF to = "locked" THEN m = NoOne /\ m' = t ELSE m' = m,
         pc' = [pc EXCEPT ![t] = to],
         UNCHANGED <<q, left, sent, taken>>
  PROVE  IndInv'
<1> USE DEF IndInv
<1>1. TypeOK'
  BY DEF TypeOK, Locations
<1>2. OwnerAgrees'
  BY ThreadsAssumption DEF OwnerAgrees, TypeOK, Threads
<1>3. RolesAgree'
  BY DEF RolesAgree, TypeOK, Threads
<1>4. Fifo'
  BY DEF Fifo
<1>5. NoLostWakeup'
  <2>1. At("waiting")' \subseteq At("waiting")
    BY DEF At, TypeOK
  <2>2. CASE t \in Consumers /\ t \notin Awake
    <3>1. Awake' = Awake \cup {t}
      BY <2>2 DEF Awake, TypeOK, Threads
    <3>2. Cardinality(Awake)' = Cardinality(Awake) + 1 /\ Cardinality(Awake) \in Nat
      BY <2>2, <3>1, AwakeCount
    <3>3. Len(q) \in Nat /\ q' = q
      BY LenProperties DEF TypeOK
    <3> QED
      BY <2>1, <3>2, <3>3 DEF NoLostWakeup
  <2>3. CASE ~(t \in Consumers /\ t \notin Awake)
    <3>1. Awake' = Awake
      BY <2>3, ThreadsAssumption DEF Awake, TypeOK, Threads
    <3> QED
      BY <2>1, <3>1, AwakeCount DEF NoLostWakeup
  <2> QED
    BY <2>2, <2>3
<1> QED
  BY <1>1, <1>2, <1>3, <1>4, <1>5

\* enqueue() adds an item and, if anyone sleeps, an awake consumer.
LEMMA EnqueueKeeps ==
  ASSUME IndInv, NEW p \in Producers, Enqueue(p)
  PROVE  IndInv'
<1> USE DEF IndInv
<1> DEFINE item == <<p, left[p]>>
<1>1. /\ pc[p] = "locked" /\ m = p /\ left[p] \in 1 .. MaxItems /\ item \in Items
      /\ p \notin Consumers
  <2>1. pc[p] = "locked" /\ p \in Threads /\ p \notin Consumers
    BY ThreadsAssumption DEF Enqueue, Threads
  <2>2. m = p
    BY <2>1 DEF OwnerAgrees
  <2>3. left[p] \in 1 .. MaxItems
    BY <2>1, MaxItemsAssumption DEF RolesAgree, TypeOK
  <2>4. item \in Items
    BY <2>3 DEF Items
  <2> QED
    BY <2>1, <2>2, <2>3, <2>4
<1>2. /\ q' = Append(q, item) /\ sent' = Append(sent, item) /\ taken' = taken
      /\ left' = [left EXCEPT ![p] = @ - 1] /\ m' = NoOne
  BY DEF Enqueue, Push
<1>3. \/ At("waiting") = {} /\ pc' = [pc EXCEPT ![p] = "outside"]
      \/ \E c \in At("waiting") : pc' = [pc EXCEPT ![p] = "outside", ![c] = "locking"]
  BY DEF Enqueue
<1>4. At("waiting") \subseteq Consumers
  BY DEF RolesAgree, At, Threads
<1>5. TypeOK'
  <2>1. pc' \in [Threads -> Locations]
    BY <1>3 DEF TypeOK, Locations
  <2>2. left' \in [Producers -> 0 .. MaxItems]
    <3>1. left[p] - 1 \in 0 .. MaxItems
      BY <1>1, MaxItemsAssumption
    <3> QED
      BY <3>1, <1>2 DEF TypeOK
  <2>3. q' \in Seq(Items) /\ sent' \in Seq(Items) /\ taken' \in Seq(Items)
    <3> HIDE DEF item
    <3> QED
      BY <1>1, <1>2 DEF TypeOK
  <2> QED
    BY <1>2, <2>1, <2>2, <2>3 DEF TypeOK
<1>6. OwnerAgrees'
  <2>1. \A t \in Threads : pc'[t] # "locked"
    BY <1>1, <1>3 DEF OwnerAgrees, TypeOK, At
  <2> QED
    BY <1>2, <2>1, ThreadsAssumption DEF OwnerAgrees, Threads
<1>7. RolesAgree'
  BY <1>1, <1>2, <1>3, <1>4, ThreadsAssumption DEF RolesAgree, TypeOK, Threads
<1>8. Fifo'
  <2> HIDE DEF item
  <2>1. item \in Items /\ taken \in Seq(Items) /\ q \in Seq(Items)
    BY <1>1 DEF TypeOK
  <2>2. Append(taken \o q, item) = taken \o Append(q, item)
    BY ONLY <2>1
  <2> QED
    BY <1>2, <2>2 DEF Fifo
<1>9. NoLostWakeup'
  <2>1. CASE At("waiting") = {} /\ pc' = [pc EXCEPT ![p] = "outside"]
    BY <2>1 DEF NoLostWakeup, At, TypeOK
  <2>2. ASSUME NEW c \in At("waiting"), pc' = [pc EXCEPT ![p] = "outside", ![c] = "locking"]
        PROVE  NoLostWakeup'
    <3>1. c \in Consumers \ Awake
      BY <1>4 DEF At, Awake
    <3>2. Awake' = Awake \cup {c}
      BY <1>1, <2>2, <3>1 DEF Awake, TypeOK, Threads
    <3>3. Len(q') = Len(q) + 1 /\ Len(q) \in Nat
      <4> HIDE DEF item
      <4> QED
        BY <1>1, <1>2 DEF TypeOK
    <3>4. Len(q) <= Cardinality(Awake)
      BY <2>2 DEF NoLostWakeup
    <3>5. Cardinality(Awake)' = Cardinality(Awake) + 1 /\ Cardinality(Awake) \in Nat
      BY <3>1, <3>2, AwakeCount
    <3> QED
      BY <3>3, <3>4, <3>5 DEF NoLostWakeup
  <2> QED
    BY <1>3, <2>1, <2>2
<1> QED
  BY <1>5, <1>6, <1>7, <1>8, <1>9

\* A consumer goes to sleep only when there is nothing to be woken for.
LEMMA DequeueWaitKeeps ==
  ASSUME IndInv, NEW c \in Consumers, DequeueWait(c)
  PROVE  IndInv'
<1> USE DEF IndInv, DequeueWait
<1>1. TypeOK'
  BY DEF TypeOK, Locations
<1>2. OwnerAgrees'
  BY ThreadsAssumption DEF OwnerAgrees, TypeOK, Threads
<1>3. RolesAgree'
  BY ThreadsAssumption DEF RolesAgree, TypeOK, Threads
<1>4. Fifo'
  BY DEF Fifo
<1>5. NoLostWakeup'
  BY AwakeCount DEF NoLostWakeup
<1> QED
  BY <1>1, <1>2, <1>3, <1>4, <1>5

\* A consumer that leaves takes one item with it.
LEMMA DequeuePopKeeps ==
  ASSUME IndInv, NEW c \in Consumers, DequeuePop(c)
  PROVE  IndInv'
<1> USE DEF IndInv
<1>1. /\ pc[c] = "locked" /\ q # <<>> /\ m' = NoOne
      /\ taken' = Append(taken, Head(q)) /\ q' = Tail(q)
      /\ pc' = [pc EXCEPT ![c] = "outside"] /\ left' = left /\ sent' = sent
  BY DEF DequeuePop
<1>2. Head(q) \in Items /\ Tail(q) \in Seq(Items) /\ Len(Tail(q)) = Len(q) - 1 /\ Len(q) \in Nat
  BY <1>1, HeadTailProperties, LenProperties DEF TypeOK
<1>3. TypeOK'
  <2>1. Append(taken, Head(q)) \in Seq(Items)
    BY <1>2 DEF TypeOK
  <2>2. pc' \in [Threads -> Locations]
    BY <1>1 DEF TypeOK, Locations
  <2> QED
    BY <1>1, <1>2, <2>1, <2>2 DEF TypeOK
<1>4. OwnerAgrees'
  BY <1>1, ThreadsAssumption DEF OwnerAgrees, TypeOK, Threads
<1>5. RolesAgree'
  BY <1>1, ThreadsAssumption DEF RolesAgree, TypeOK, Threads
<1>6. Fifo'
  BY <1>1, ShiftHead DEF Fifo, TypeOK
<1>7. NoLostWakeup'
  <2>1. c \in Awake /\ Awake' = Awake \ {c}
    BY <1>1 DEF Awake, TypeOK, Threads
  <2>2. At("waiting")' = At("waiting")
    BY <1>1 DEF At, TypeOK
  <2>3. Cardinality(Awake)' = Cardinality(Awake) - 1 /\ Cardinality(Awake) \in Nat
    BY <2>1, AwakeCount
  <2> QED
    BY <1>1, <1>2, <2>2, <2>3 DEF NoLostWakeup
<1> QED
  BY <1>3, <1>4, <1>5, <1>6, <1>7

\* Every step keeps the inductive invariant.
LEMMA NextIndInv == IndInv /\ [Next]_vars => IndInv'
<1> SUFFICES ASSUME IndInv, [Next]_vars PROVE IndInv'
  OBVIOUS
<1>1. ASSUME NEW p \in Producers, CallEnqueue(p) PROVE IndInv'
  BY <1>1, MoveKeeps DEF CallEnqueue, Threads
<1>2. ASSUME NEW c \in Consumers, CallDequeue(c) \/ SpuriousWakeup(c) PROVE IndInv'
  <2>1. c \in Threads /\ c \notin Producers
    BY ThreadsAssumption DEF Threads
  <2> QED
    BY <1>2, <2>1, MoveKeeps DEF CallDequeue, SpuriousWakeup
<1>3. ASSUME NEW t \in Threads, Lock(t) PROVE IndInv'
  BY <1>3, MoveKeeps DEF Lock
<1>4. ASSUME NEW p \in Producers, Enqueue(p) PROVE IndInv'
  BY <1>4, EnqueueKeeps
<1>5. ASSUME NEW c \in Consumers, DequeueWait(c) PROVE IndInv'
  BY <1>5, DequeueWaitKeeps
<1>6. ASSUME NEW c \in Consumers, DequeuePop(c) PROVE IndInv'
  BY <1>6, DequeuePopKeeps
<1>7. CASE UNCHANGED vars
  BY <1>7 DEF vars, IndInv, TypeOK, OwnerAgrees, RolesAgree, Fifo, NoLostWakeup, At, Awake
<1> QED
  BY <1>1, <1>2, <1>3, <1>4, <1>5, <1>6, <1>7 DEF Next

\* The inductive invariant holds in every reachable state of the queue.
THEOREM QueueInvariant == Spec => []IndInv
BY InitIndInv, NextIndInv, PTL DEF Spec

\* Every variable keeps its type.
THEOREM QueueTypeOK == Spec => []TypeOK
<1>1. IndInv => TypeOK
  BY DEF IndInv
<1> QED
  BY <1>1, QueueInvariant, PTL

\* Items leave in the order in which they came, none lost or doubled.
THEOREM QueueFifo == Spec => []Fifo
<1>1. IndInv => Fifo
  BY DEF IndInv
<1> QED
  BY <1>1, QueueInvariant, PTL

\* One notify_one() per push wakes enough consumers, for any number of them.
THEOREM QueueNoLostWakeup == Spec => []NoLostWakeup
<1>1. IndInv => NoLostWakeup
  BY DEF IndInv
<1> QED
  BY <1>1, QueueInvariant, PTL
=============================================================================
