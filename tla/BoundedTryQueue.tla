--------------------------- MODULE BoundedTryQueue --------------------------
(***************************************************************************)
(* concurent_bounded_try_queue of projects/high_perf/                      *)
(* parallel_data_structures/concurent_queues.h (concurent_try_queue of     *)
(* concurent_queues_pthread.h and bounded_try_queue of data_structures.h   *)
(* are the same class over boost): a bounded list behind one mutex, with   *)
(* the number of its elements kept beside it.                              *)
(*                                                                         *)
(* Copying an element may throw, before the lock in try_push() and under   *)
(* it in try_pop(); the lock is released on the way out.  The blocking     *)
(* operations are private and nothing calls them.                          *)
(***************************************************************************)
EXTENDS Integers, Sequences

CONSTANTS
  Threads,
  NoOne,            \* the owner of a free mutex
  cm_size,          \* the capacity given to the constructor
  MaxCalls          \* a bound on the operations each thread calls

(***************************************************************************)
(* The constructor tests cm_size < 1 and does nothing about it; no push    *)
(* ever finds a queue of negative capacity full.                           *)
(***************************************************************************)
ASSUME CapacityAssumption == cm_size \in Nat

ASSUME ThreadsAssumption == NoOne \notin Threads

ASSUME MaxCallsAssumption == MaxCalls \in Nat

VARIABLES
  m_mtx,            \* the owner of the mutex
  m_q,              \* the list
  m_current_size,   \* the number the class believes is in it
  op,               \* the operation each thread is in
  pc,               \* where in that operation it is
  calls,            \* how many operations each thread has called
  pushed,           \* history: the elements try_push() accepted, in order
  popped            \* history: the elements try_pop() handed out, in order

vars == <<m_mtx, m_q, m_current_size, op, pc, calls, pushed, popped>>

Operations == {"none", "try_push", "try_pop", "observe"}

Locations ==
  { "outside",
    "copying",      \* try_push() copies its argument into tmp
    "locking",      \* blocked on the mutex
    "locked",       \* owns the mutex, nothing done
    "counting" }    \* owns the mutex, the list changed, the count not yet

\* An element tells who pushed it and in which call.
Elements == Threads \X (1 .. MaxCalls)

Init ==
  /\ m_mtx = NoOne
  /\ m_q = <<>>
  /\ m_current_size = 0
  /\ op = [t \in Threads |-> "none"]
  /\ pc = [t \in Threads |-> "outside"]
  /\ calls = [t \in Threads |-> 0]
  /\ pushed = <<>>
  /\ popped = <<>>

-----------------------------------------------------------------------------
\* A thread calls try_push(), try_pop(), or an observer: size() or empty().
Call(t, o) ==
  /\ pc[t] = "outside"
  /\ calls[t] < MaxCalls
  /\ calls' = [calls EXCEPT ![t] = @ + 1]
  /\ op' = [op EXCEPT ![t] = o]
  /\ pc' = [pc EXCEPT ![t] = IF o = "try_push" THEN "copying" ELSE "locking"]
  /\ UNCHANGED <<m_mtx, m_q, m_current_size, pushed, popped>>

\* tmp.push_back(x), outside the lock: it succeeds or throws to the caller.
PushCopy(t) ==
  /\ pc[t] = "copying"
  /\ \/ pc' = [pc EXCEPT ![t] = "locking"] /\ UNCHANGED op
     \/ pc' = [pc EXCEPT ![t] = "outside"] /\ op' = [op EXCEPT ![t] = "none"]
  /\ UNCHANGED <<m_mtx, m_q, m_current_size, calls, pushed, popped>>

Lock(t) ==
  /\ pc[t] = "locking"
  /\ m_mtx = NoOne
  /\ m_mtx' = t
  /\ pc' = [pc EXCEPT ![t] = "locked"]
  /\ UNCHANGED <<m_q, m_current_size, op, calls, pushed, popped>>

\* Leaving the scope of the lock, by a return or by an exception.
Unlock(t) ==
  /\ m_mtx' = NoOne
  /\ pc' = [pc EXCEPT ![t] = "outside"]
  /\ op' = [op EXCEPT ![t] = "none"]
  /\ UNCHANGED <<calls, pushed, popped>>

\* size() and empty() read under the lock; so do a try_push() that finds the
\* queue full, a try_pop() that finds it empty, and a try_pop() whose copy of
\* the front element throws.
ReturnUnchanged(t) ==
  /\ pc[t] = "locked"
  /\ \/ op[t] = "observe"
     \/ op[t] = "try_push" /\ m_current_size = cm_size
     \/ op[t] = "try_pop"
  /\ Unlock(t)
  /\ UNCHANGED <<m_q, m_current_size>>

\* Mutant: the capacity test is off by one.
TryPush_OffByOne(t) ==
  /\ pc[t] = "locked"
  /\ op[t] = "try_push"
  /\ m_current_size # cm_size + 1
  /\ m_q' = Append(m_q, <<t, calls[t]>>)
  /\ pushed' = Append(pushed, <<t, calls[t]>>)
  /\ pc' = [pc EXCEPT ![t] = "counting"]
  /\ UNCHANGED <<m_mtx, m_current_size, op, calls, popped>>

\* Mutant: the test calls size(), which locks m_mtx again.
TryPush_CallsSize(t) ==
  /\ pc[t] = "locked"
  /\ op[t] = "try_push"
  /\ m_current_size # cm_size
  /\ pc' = [pc EXCEPT ![t] = "locking"]
  /\ UNCHANGED <<m_mtx, m_q, m_current_size, op, calls, pushed, popped>>

\* The splice of try_push().
TryPush(t) ==
  /\ pc[t] = "locked"
  /\ op[t] = "try_push"
  /\ m_current_size # cm_size
  /\ m_q' = Append(m_q, <<t, calls[t]>>)
  /\ pushed' = Append(pushed, <<t, calls[t]>>)
  /\ pc' = [pc EXCEPT ![t] = "counting"]
  /\ UNCHANGED <<m_mtx, m_current_size, op, calls, popped>>

\* Mutant: the element leaves the list before its copy, which may throw.
TryPop_PopsFirst(t) ==
  /\ pc[t] = "locked"
  /\ op[t] = "try_pop"
  /\ m_q # <<>>
  /\ m_q' = Tail(m_q)
  /\ popped' \in {popped, Append(popped, Head(m_q))}
  /\ pc' = [pc EXCEPT ![t] = "counting"]
  /\ UNCHANGED <<m_mtx, m_current_size, op, calls, pushed>>

\* try_pop(): the front element is copied, then removed.
TryPop(t) ==
  /\ pc[t] = "locked"
  /\ op[t] = "try_pop"
  /\ m_q # <<>>
  /\ m_q' = Tail(m_q)
  /\ popped' = Append(popped, Head(m_q))
  /\ pc' = [pc EXCEPT ![t] = "counting"]
  /\ UNCHANGED <<m_mtx, m_current_size, op, calls, pushed>>

\* Mutant: a pop leaves the count alone, as the private wait_and_pop() does.
Count_PushOnly(t) ==
  /\ pc[t] = "counting"
  /\ m_current_size' = IF op[t] = "try_push" THEN m_current_size + 1 ELSE m_current_size
  /\ Unlock(t)
  /\ UNCHANGED m_q

\* m_current_size++ or m_current_size--, and the return.
Count(t) ==
  /\ pc[t] = "counting"
  /\ m_current_size' = IF op[t] = "try_push" THEN m_current_size + 1 ELSE m_current_size - 1
  /\ Unlock(t)
  /\ UNCHANGED m_q

\* What a thread does once it is inside an operation.
Continue(t) ==
  \/ PushCopy(t)
  \/ Lock(t)
  \/ ReturnUnchanged(t)
  \/ TryPush(t)
  \/ TryPop(t)
  \/ Count(t)

Next ==
  \E t \in Threads :
    \/ \E o \in Operations \ {"none"} : Call(t, o)
    \/ Continue(t)

Spec == Init /\ [][Next]_vars

(***************************************************************************)
(* A thread inside an operation runs on.  The calls are finitely many, so  *)
(* a thread cannot be kept from the mutex for ever by the others.          *)
(***************************************************************************)
FairSpec == Spec /\ \A t \in Threads : WF_vars(Continue(t))

-----------------------------------------------------------------------------
\* Every variable has its type.
TypeOK ==
  /\ m_mtx \in Threads \cup {NoOne}
  /\ m_q \in Seq(Elements)
  /\ m_current_size \in 0 .. cm_size
  /\ op \in [Threads -> Operations]
  /\ pc \in [Threads -> Locations]
  /\ calls \in [Threads -> 0 .. MaxCalls]
  /\ pushed \in Seq(Elements)
  /\ popped \in Seq(Elements)

\* The list never outgrows the capacity, and whoever gets the lock finds the
\* count equal to its length, so size(), empty() and the tests of try_push()
\* and try_pop() tell the truth: the count is behind only inside somebody
\* else's critical section.
SizeExact ==
  /\ Len(m_q) <= cm_size
  /\ \A t \in Threads : pc[t] = "locked" => m_current_size = Len(m_q)

\* No element is lost, doubled or reordered, also when a copy throws.
Fifo == pushed = popped \o m_q

\* The mutex's owner is the one thread in a critical section.
OwnerAgrees == \A t \in Threads : pc[t] \in {"locked", "counting"} <=> m_mtx = t

\* A thread inside an operation has called it, and the list is changed by
\* try_push() and try_pop() only.
CallsAgree ==
  \A t \in Threads :
    /\ pc[t] # "outside" => calls[t] > 0
    /\ pc[t] = "counting" => op[t] \in {"try_push", "try_pop"}

\* How far the count is behind the list: one push or pop of the thread that
\* is about to count it.
Lag ==
  /\ \A t \in Threads :
       pc[t] = "counting" =>
         IF op[t] = "try_push"
           THEN Len(m_q) = m_current_size + 1 /\ m_current_size < cm_size
           ELSE Len(m_q) = m_current_size - 1
  /\ (\A t \in Threads : pc[t] # "counting") => Len(m_q) = m_current_size

\* The inductive invariant.
IndInv == TypeOK /\ OwnerAgrees /\ CallsAgree /\ Lag /\ Fifo

\* Every operation returns: none locks the mutex its thread already holds.
EveryCallReturns ==
  \A t \in Threads : pc[t] # "outside" ~> pc[t] = "outside"
=============================================================================
