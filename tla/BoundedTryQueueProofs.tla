----------------------- MODULE BoundedTryQueueProofs ------------------------
(***************************************************************************)
(* The bounded queue keeps its count, its bound and its order, for any     *)
(* number of threads and any capacity.                                     *)
(***************************************************************************)
EXTENDS BoundedTryQueue, SequenceTheorems, TLAPS

\* Moving the head of the second sequence to the end of the first.
LEMMA ShiftHead ==
  ASSUME NEW S, NEW s \in Seq(S), NEW r \in Seq(S), r # <<>>
  PROVE  s \o r = Append(s, Head(r)) \o Tail(r)
OBVIOUS

\* An empty queue nobody uses satisfies the invariant.
LEMMA InitIndInv == Init => IndInv
<1> SUFFICES ASSUME Init PROVE IndInv
  OBVIOUS
<1>1. TypeOK
  BY CapacityAssumption, MaxCallsAssumption DEF Init, TypeOK, Operations, Locations
<1>2. OwnerAgrees /\ CallsAgree
  BY ThreadsAssumption DEF Init, OwnerAgrees, CallsAgree
<1>3. Lag /\ Fifo
  BY DEF Init, Lag, Fifo
<1> QED
  BY <1>1, <1>2, <1>3 DEF IndInv

\* A thread in a critical section is alone there.
LEMMA OwnerAlone ==
  ASSUME IndInv, NEW t \in Threads, pc[t] \in {"locked", "counting"}
  PROVE  m_mtx = t /\ \A u \in Threads \ {t} : pc[u] \notin {"locked", "counting"}
BY DEF IndInv, OwnerAgrees

\* A step that leaves list and count alone, and that nobody is counting in.
LEMMA QueueKept ==
  ASSUME IndInv, UNCHANGED <<m_q, m_current_size, pushed, popped>>,
         \A u \in Threads :
           /\ pc'[u] = "counting" <=> pc[u] = "counting"
           /\ pc[u] = "counting" => op'[u] = op[u]
  PROVE  Lag' /\ Fifo'
BY DEF IndInv, Lag, Fifo

\* A call starts an operation.
LEMMA CallKeeps ==
  ASSUME IndInv, NEW t \in Threads, NEW o \in Operations \ {"none"}, Call(t, o)
  PROVE  IndInv'
<1>1. TypeOK'
  <2>1. calls[t] + 1 \in 0 .. MaxCalls
    BY MaxCallsAssumption DEF Call, IndInv, TypeOK
  <2> QED
    BY <2>1 DEF Call, IndInv, TypeOK, Locations
<1>2. OwnerAgrees' /\ CallsAgree'
  BY DEF Call, IndInv, TypeOK, OwnerAgrees, CallsAgree
<1>3. Lag' /\ Fifo'
  BY QueueKept DEF Call, IndInv, TypeOK
<1> QED
  BY <1>1, <1>2, <1>3 DEF IndInv

\* The copy before the lock touches nothing shared.
LEMMA PushCopyKeeps ==
  ASSUME IndInv, NEW t \in Threads, PushCopy(t)
  PROVE  IndInv'
<1>1. TypeOK'
  BY DEF PushCopy, IndInv, TypeOK, Locations, Operations
<1>2. OwnerAgrees' /\ CallsAgree'
  BY DEF PushCopy, IndInv, TypeOK, OwnerAgrees, CallsAgree
<1>3. \A u \in Threads :
        /\ pc'[u] = "counting" <=> pc[u] = "counting"
        /\ pc[u] = "counting" => op'[u] = op[u]
  BY DEF PushCopy, IndInv, TypeOK
<1>4. Lag' /\ Fifo'
  BY <1>3, QueueKept DEF PushCopy
<1> QED
  BY <1>1, <1>2, <1>4 DEF IndInv

\* The mutex goes to one thread.
LEMMA LockKeeps ==
  ASSUME IndInv, NEW t \in Threads, Lock(t)
  PROVE  IndInv'
<1>1. TypeOK'
  BY DEF Lock, IndInv, TypeOK, Locations
<1>2. OwnerAgrees' /\ CallsAgree'
  BY ThreadsAssumption DEF Lock, IndInv, TypeOK, OwnerAgrees, CallsAgree
<1>3. Lag' /\ Fifo'
  BY QueueKept DEF Lock, IndInv, TypeOK
<1> QED
  BY <1>1, <1>2, <1>3 DEF IndInv

\* Leaving the critical section, for what does not concern the list.
LEMMA UnlockKeeps ==
  ASSUME IndInv, NEW t \in Threads, pc[t] \in {"locked", "counting"}, Unlock(t)
  PROVE  /\ m_mtx' \in Threads \cup {NoOne}
         /\ op' \in [Threads -> Operations]
         /\ pc' \in [Threads -> Locations]
         /\ OwnerAgrees' /\ CallsAgree'
         /\ \A u \in Threads : pc'[u] # "counting" /\ pc'[u] # "locked"
<1>1. m_mtx' = NoOne /\ pc' = [pc EXCEPT ![t] = "outside"] /\ op' = [op EXCEPT ![t] = "none"]
      /\ UNCHANGED calls
  BY DEF Unlock
<1>2. op' \in [Threads -> Operations] /\ pc' \in [Threads -> Locations]
  BY <1>1 DEF IndInv, TypeOK, Operations, Locations
<1>3. \A u \in Threads : pc'[u] # "counting" /\ pc'[u] # "locked"
  BY <1>1, OwnerAlone DEF IndInv, TypeOK
<1>4. OwnerAgrees'
  BY <1>1, <1>3, ThreadsAssumption DEF OwnerAgrees
<1>5. CallsAgree'
  BY <1>1, <1>3 DEF IndInv, TypeOK, CallsAgree
<1> QED
  BY <1>1, <1>2, <1>3, <1>4, <1>5

\* A return without effect.
LEMMA ReturnUnchangedKeeps ==
  ASSUME IndInv, NEW t \in Threads, ReturnUnchanged(t)
  PROVE  IndInv'
<1>1. pc[t] = "locked" /\ Unlock(t) /\ UNCHANGED <<m_q, m_current_size, calls, pushed, popped>>
  BY DEF ReturnUnchanged, Unlock
<1>2. TypeOK' /\ OwnerAgrees' /\ CallsAgree'
  BY <1>1, UnlockKeeps DEF IndInv, TypeOK
<1>3. \A u \in Threads : pc[u] # "counting" /\ pc'[u] # "counting"
  BY <1>1, UnlockKeeps, OwnerAlone
<1>4. Lag' /\ Fifo'
  BY <1>1, <1>3, QueueKept
<1> QED
  BY <1>2, <1>4 DEF IndInv

\* The splice makes the list one longer than the count.
LEMMA TryPushKeeps ==
  ASSUME IndInv, NEW t \in Threads, TryPush(t)
  PROVE  IndInv'
<1> DEFINE e == <<t, calls[t]>>
<1>1. /\ pc[t] = "locked" /\ op[t] = "try_push" /\ m_current_size # cm_size
      /\ m_q' = Append(m_q, e) /\ pushed' = Append(pushed, e)
      /\ pc' = [pc EXCEPT ![t] = "counting"]
      /\ UNCHANGED <<m_mtx, m_current_size, op, calls, popped>>
  BY DEF TryPush
<1>2. e \in Elements
  <2>1. calls[t] \in 0 .. MaxCalls /\ calls[t] > 0
    BY <1>1 DEF IndInv, TypeOK, CallsAgree
  <2>2. calls[t] \in 1 .. MaxCalls
    BY <2>1, MaxCallsAssumption
  <2> QED
    BY <2>2 DEF Elements
<1> HIDE DEF e
<1>3. m_q \in Seq(Elements) /\ pushed \in Seq(Elements) /\ popped \in Seq(Elements)
  BY DEF IndInv, TypeOK
<1>4. TypeOK'
  <2>1. pc' \in [Threads -> Locations]
    BY <1>1 DEF IndInv, TypeOK, Locations
  <2>2. m_q' \in Seq(Elements) /\ pushed' \in Seq(Elements)
    BY <1>1, <1>2, <1>3
  <2> QED
    BY <1>1, <2>1, <2>2 DEF IndInv, TypeOK
<1>5. OwnerAgrees' /\ CallsAgree'
  BY <1>1 DEF IndInv, TypeOK, OwnerAgrees, CallsAgree
<1>6. Lag'
  <2>1. \A u \in Threads : pc'[u] = "counting" <=> u = t
    BY <1>1, OwnerAlone DEF IndInv, TypeOK
  <2>2. Len(m_q) = m_current_size
    BY <1>1, OwnerAlone DEF IndInv, Lag
  <2>3. Len(m_q') = m_current_size + 1
    BY <1>1, <1>2, <1>3, <2>2
  <2>4. m_current_size < cm_size
    BY <1>1, CapacityAssumption DEF IndInv, TypeOK
  <2> QED
    BY <1>1, <2>1, <2>3, <2>4 DEF Lag
<1>7. Fifo'
  <2>1. Append(popped \o m_q, e) = popped \o Append(m_q, e)
    BY ONLY <1>2, <1>3
  <2> QED
    BY <1>1, <2>1 DEF IndInv, Fifo
<1> QED
  BY <1>4, <1>5, <1>6, <1>7 DEF IndInv

\* The pop makes the list one shorter than the count.
LEMMA TryPopKeeps ==
  ASSUME IndInv, NEW t \in Threads, TryPop(t)
  PROVE  IndInv'
<1>1. /\ pc[t] = "locked" /\ op[t] = "try_pop" /\ m_q # <<>>
      /\ m_q' = Tail(m_q) /\ popped' = Append(popped, Head(m_q))
      /\ pc' = [pc EXCEPT ![t] = "counting"]
      /\ UNCHANGED <<m_mtx, m_current_size, op, calls, pushed>>
  BY DEF TryPop
<1>2. m_q \in Seq(Elements) /\ popped \in Seq(Elements)
  BY DEF IndInv, TypeOK
<1>3. TypeOK'
  <2>1. pc' \in [Threads -> Locations]
    BY <1>1 DEF IndInv, TypeOK, Locations
  <2>2. m_q' \in Seq(Elements) /\ popped' \in Seq(Elements)
    BY <1>1, <1>2
  <2> QED
    BY <1>1, <2>1, <2>2 DEF IndInv, TypeOK
<1>4. OwnerAgrees' /\ CallsAgree'
  BY <1>1 DEF IndInv, TypeOK, OwnerAgrees, CallsAgree
<1>5. Lag'
  <2>1. \A u \in Threads : pc'[u] = "counting" <=> u = t
    BY <1>1, OwnerAlone DEF IndInv, TypeOK
  <2>2. Len(m_q) = m_current_size
    BY <1>1, OwnerAlone DEF IndInv, Lag
  <2>3. Len(m_q') = m_current_size - 1
    BY <1>1, <1>2, <2>2
  <2> QED
    BY <1>1, <2>1, <2>3 DEF Lag
<1>6. Fifo'
  <2>1. popped \o m_q = Append(popped, Head(m_q)) \o Tail(m_q)
    BY <1>1, <1>2, ShiftHead
  <2> QED
    BY <1>1, <2>1 DEF IndInv, Fifo
<1> QED
  BY <1>3, <1>4, <1>5, <1>6 DEF IndInv

\* Counting makes the two agree again.
LEMMA CountKeeps ==
  ASSUME IndInv, NEW t \in Threads, Count(t)
  PROVE  IndInv'
<1>1. /\ pc[t] = "counting" /\ Unlock(t)
      /\ m_current_size' = IF op[t] = "try_push" THEN m_current_size + 1 ELSE m_current_size - 1
      /\ UNCHANGED <<m_q, calls, pushed, popped>>
  BY DEF Count, Unlock
<1>2. Len(m_q) = m_current_size'
  BY <1>1 DEF IndInv, Lag
<1>3. m_current_size' \in 0 .. cm_size
  <2>1. Len(m_q) \in Nat /\ m_current_size \in 0 .. cm_size
    BY LenProperties DEF IndInv, TypeOK
  <2>2. op[t] = "try_push" => m_current_size < cm_size
    BY <1>1 DEF IndInv, Lag
  <2> QED
    BY <1>1, <1>2, <2>1, <2>2, CapacityAssumption
<1>4. TypeOK' /\ OwnerAgrees' /\ CallsAgree'
  BY <1>1, <1>3, UnlockKeeps DEF IndInv, TypeOK
<1>5. Lag'
  BY <1>1, <1>2, UnlockKeeps DEF Lag
<1>6. Fifo'
  BY <1>1 DEF IndInv, Fifo
<1> QED
  BY <1>4, <1>5, <1>6 DEF IndInv

\* Every step preserves the invariant.
LEMMA NextIndInv == IndInv /\ [Next]_vars => IndInv'
<1> SUFFICES ASSUME IndInv, [Next]_vars PROVE IndInv'
  OBVIOUS
<1>1. CASE UNCHANGED vars
  BY <1>1 DEF vars, IndInv, TypeOK, OwnerAgrees, CallsAgree, Lag, Fifo
<1>2. CASE Next
  <2>1. PICK t \in Threads : (\E o \in Operations \ {"none"} : Call(t, o)) \/ Continue(t)
    BY <1>2 DEF Next
  <2> QED
    BY <2>1, CallKeeps, PushCopyKeeps, LockKeeps, ReturnUnchangedKeeps, TryPushKeeps, TryPopKeeps, CountKeeps
       DEF Continue
<1> QED
  BY <1>1, <1>2

\* The inductive invariant: the count lags by the operation of the owner.
THEOREM TryQueueInvariant == Spec => []IndInv
BY InitIndInv, NextIndInv, PTL DEF Spec

\* Every variable keeps its type; in particular the count stays in range.
THEOREM TryQueueTypeOK == Spec => []TypeOK
BY TryQueueInvariant, PTL DEF IndInv

\* The list never outgrows the capacity, and whoever gets the lock finds the
\* count equal to its length.
THEOREM TryQueueSizeExact == Spec => []SizeExact
<1>1. ASSUME IndInv, NEW t \in Threads, pc[t] = "locked"
      PROVE  m_current_size = Len(m_q)
  <2>1. \A u \in Threads : pc[u] # "counting"
    BY <1>1, OwnerAlone
  <2> QED
    BY <1>1, <2>1 DEF IndInv, Lag
<1>2. IndInv => Len(m_q) <= cm_size
  <2> SUFFICES ASSUME IndInv PROVE Len(m_q) <= cm_size
    OBVIOUS
  <2>1. m_current_size \in 0 .. cm_size
    BY DEF IndInv, TypeOK
  <2>2. CASE \E t \in Threads : pc[t] = "counting"
    BY <2>1, <2>2, CapacityAssumption DEF IndInv, Lag
  <2>3. CASE \A t \in Threads : pc[t] # "counting"
    BY <2>1, <2>3, CapacityAssumption DEF IndInv, Lag
  <2> QED
    BY <2>2, <2>3
<1>3. IndInv => SizeExact
  BY <1>1, <1>2 DEF SizeExact
<1> QED
  BY <1>3, TryQueueInvariant, PTL

\* Elements come out in the order they went in, none lost and none doubled.
THEOREM TryQueueFifo == Spec => []Fifo
BY TryQueueInvariant, PTL DEF IndInv
=============================================================================
