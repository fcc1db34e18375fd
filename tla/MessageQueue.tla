---------------------------- MODULE MessageQueue ----------------------------
(***************************************************************************)
(* message_queue of projects/high_perf/parallel_data_structures/           *)
(* safe_queue_cc11.h: an unbounded queue behind one mutex m and one        *)
(* condition variable c.  Producers call enqueue(), consumers dequeue().   *)
(*                                                                         *)
(* The mutex and the condition variable are the standard library's: a      *)
(* wait releases the mutex and sleeps in one step, notify_one() wakes one  *)
(* sleeper of its choice, a sleeper may wake by itself, and a woken thread *)
(* takes the mutex again before it looks at the queue.  Copying an item    *)
(* does not throw.                                                         *)
(***************************************************************************)
EXTENDS Integers, Sequences, FiniteSets

CONSTANTS
  Producers,
  Consumers,
  NoOne,            \* the owner of a free mutex
  MaxItems          \* a bound on the items each producer enqueues

ASSUME ThreadsAssumption ==
  /\ IsFiniteSet(Consumers)
  /\ Producers \cap Consumers = {}
  /\ NoOne \notin Producers \cup Consumers

ASSUME MaxItemsAssumption == MaxItems \in Nat

VARIABLES
  m,                \* the owner of the mutex
  q,                \* the queue
  pc,               \* where each thread is
  left,             \* how many items each producer has still to enqueue
  sent,             \* history: what was enqueued, in the order of the pushes
  taken             \* history: what dequeue() returned, in the order of the pops

vars == <<m, q, pc, left, sent, taken>>

Threads == Producers \cup Consumers

Items == Producers \X (1 .. MaxItems)

Locations ==
  { "outside",
    "locking",      \* blocked on the mutex, at the call or after a wake-up
    "locked",       \* owns the mutex
    "waiting" }     \* asleep in c.wait()

At(location) == {t \in Threads : pc[t] = location}

Init ==
  /\ m = NoOne
  /\ q = <<>>
  /\ pc = [t \in Threads |-> "outside"]
  /\ left = [p \in Producers |-> MaxItems]
  /\ sent = <<>>
  /\ taken = <<>>

-----------------------------------------------------------------------------
CallEnqueue(p) ==
  /\ pc[p] = "outside"
  /\ left[p] > 0
  /\ pc' = [pc EXCEPT ![p] = "locking"]
  /\ UNCHANGED <<m, q, left, sent, taken>>

CallDequeue(c) ==
  /\ pc[c] = "outside"
  /\ pc' = [pc EXCEPT ![c] = "locking"]
  /\ UNCHANGED <<m, q, left, sent, taken>>

\* std::mutex: whoever comes while it is free.
Lock(t) ==
  /\ pc[t] = "locking"
  /\ m = NoOne
  /\ m' = t
  /\ pc' = [pc EXCEPT ![t] = "locked"]
  /\ UNCHANGED <<q, left, sent, taken>>

\* The body of enqueue(): push, wake one sleeper if there is one, unlock.
Push(p) ==
  LET item == <<p, left[p]>> IN
    /\ q' = Append(q, item)
    /\ sent' = Append(sent, item)
    /\ left' = [left EXCEPT ![p] = @ - 1]
    /\ m' = NoOne
    /\ UNCHANGED taken

\* Mutant: notify only when the queue was empty, as if one wake-up were enough.
Enqueue_NotifyIfWasEmpty(p) ==
  /\ pc[p] = "locked"
  /\ Push(p)
  /\ \/ /\ q # <<>> \/ At("waiting") = {}
        /\ pc' = [pc EXCEPT ![p] = "outside"]
     \/ /\ q = <<>>
        /\ \E c \in At("waiting") : pc' = [pc EXCEPT ![p] = "outside", ![c] = "locking"]

Enqueue(p) ==
  /\ pc[p] = "locked"
  /\ Push(p)
  /\ \/ /\ At("waiting") = {}
        /\ pc' = [pc EXCEPT ![p] = "outside"]
     \/ \E c \in At("waiting") : pc' = [pc EXCEPT ![p] = "outside", ![c] = "locking"]

\* The loop of dequeue(): nothing there, so sleep and release the mutex.
DequeueWait(c) ==
  /\ pc[c] = "locked"
  /\ q = <<>>
  /\ m' = NoOne
  /\ pc' = [pc EXCEPT ![c] = "waiting"]
  /\ UNCHANGED <<q, left, sent, taken>>

\* Mutant: a woken consumer does not look at the queue again (if for while).
DequeuePop_NoRetest(c) ==
  /\ pc[c] = "locked"
  /\ taken' = Append(taken, IF q = <<>> THEN NoOne ELSE Head(q))
  /\ q' = IF q = <<>> THEN q ELSE Tail(q)
  /\ m' = NoOne
  /\ pc' = [pc EXCEPT ![c] = "outside"]
  /\ UNCHANGED <<left, sent>>

\* The rest of dequeue(): take the front item and release the mutex.
DequeuePop(c) ==
  /\ pc[c] = "locked"
  /\ q # <<>>
  /\ taken' = Append(taken, Head(q))
  /\ q' = Tail(q)
  /\ m' = NoOne
  /\ pc' = [pc EXCEPT ![c] = "outside"]
  /\ UNCHANGED <<left, sent>>

\* A sleeper may wake without a notification.
SpuriousWakeup(c) ==
  /\ pc[c] = "waiting"
  /\ pc' = [pc EXCEPT ![c] = "locking"]
  /\ UNCHANGED <<m, q, left, sent, taken>>

Next ==
  \/ \E p \in Producers : CallEnqueue(p) \/ Enqueue(p)
  \/ \E c \in Consumers : CallDequeue(c) \/ DequeueWait(c) \/ DequeuePop(c) \/ SpuriousWakeup(c)
  \/ \E t \in Threads : Lock(t)

Spec == Init /\ [][Next]_vars

(***************************************************************************)
(* A thread inside an operation runs on, and a free mutex is given to      *)
(* somebody who wants it.  Nobody has to call, and no sleeper wakes        *)
(* without a notification.                                                 *)
(***************************************************************************)
FairSpec ==
  /\ Spec
  /\ WF_vars(\E t \in Threads : Lock(t))
  /\ \A p \in Producers : WF_vars(Enqueue(p))
  /\ \A c \in Consumers : WF_vars(DequeueWait(c)) /\ WF_vars(DequeuePop(c))

-----------------------------------------------------------------------------
\* Every variable has its type.
TypeOK ==
  /\ m \in Threads \cup {NoOne}
  /\ q \in Seq(Items)
  /\ pc \in [Threads -> Locations]
  /\ left \in [Producers -> 0 .. MaxItems]
  /\ sent \in Seq(Items)
  /\ taken \in Seq(Items)

\* The thread that owns the mutex is the one thread in a critical section.
OwnerAgrees == \A t \in Threads : pc[t] = "locked" <=> m = t

\* Only consumers sleep, and producers in the critical section have an item.
RolesAgree ==
  \A p \in Producers : pc[p] # "waiting" /\ (pc[p] # "outside" => left[p] > 0)

\* Nothing is lost, duplicated or reordered by the threads racing for the
\* mutex: what was taken and what is queued is what was sent, in that order.
Fifo == sent = taken \o q

\* The consumers that are inside dequeue() and will look at the queue.
Awake == {c \in Consumers : pc[c] \in {"locking", "locked"}}

\* While somebody sleeps in dequeue(), every queued item has an awake
\* consumer on its way to it: notify_one() per push is enough, whatever the
\* order of wake-ups, steals by late callers and spurious wake-ups.
NoLostWakeup == At("waiting") # {} => Len(q) <= Cardinality(Awake)

\* The inductive invariant.
IndInv == TypeOK /\ OwnerAgrees /\ RolesAgree /\ Fifo /\ NoLostWakeup

\* If a consumer is inside dequeue() and the queue is not empty, an item is
\* taken: no schedule leaves items in the queue with the consumers asleep.
QueuedItemTaken ==
  \A n \in 0 .. MaxItems * Cardinality(Producers) :
    /\ Len(taken) = n
    /\ q # <<>>
    /\ \E c \in Consumers : pc[c] # "outside"
    ~> Len(taken) > n
=============================================================================
