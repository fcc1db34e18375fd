---------------------------- MODULE RwSemaphore -----------------------------
(***************************************************************************)
(* rw_semaphore of projects/high_perf/rw_semaphore.h: a spinning           *)
(* reader-writer lock in one word.  The low bits of state_ count the       *)
(* readers, the top bit is the write flag, and every transition but the    *)
(* writer's release is a compare-and-swap retried until it succeeds.       *)
(*                                                                         *)
(* A thread is one user of the lock: it holds it at most once at a time    *)
(* and releases what it acquired.  Each load, compare-and-swap and store   *)
(* of state_ is one step; memory is sequentially consistent.               *)
(***************************************************************************)
EXTENDS Integers, FiniteSets

CONSTANTS
  Threads,           \* the users of the lock
  kNumReadersMask    \* the largest reader count; 0x7fffffff in the code

ASSUME ThreadsAssumption == IsFiniteSet(Threads)

ASSUME MaskAssumption == kNumReadersMask \in Nat

(***************************************************************************)
(* lock_shared() adds 1 to the count without a test for its limit, so one  *)
(* reader more than the mask can hold would set the write flag.            *)
(***************************************************************************)
ASSUME ReadersFitAssumption == Cardinality(Threads) <= kNumReadersMask

VARIABLES
  state_,            \* the shared word
  pc,                \* where each thread is
  cur_state          \* each thread's local copy of the word

vars == <<state_, pc, cur_state>>

-----------------------------------------------------------------------------
kWriteFlag == kNumReadersMask + 1

Word == 0 .. kWriteFlag + kNumReadersMask

\* Mutant: the mask is not applied.
NumReaders_Unmasked(w) == w

\* w & kNumReadersMask, for a word w
NumReaders(w) == IF w >= kWriteFlag THEN w - kWriteFlag ELSE w

\* Sums wrap at the width of the word.
Wrap(w) == IF w \in Word THEN w ELSE IF w < 0 THEN w + 2 * kWriteFlag ELSE w - 2 * kWriteFlag

Locations ==
  { "idle",
    "lock_shared",     \* in the loop of lock_shared(), cur_state loaded
    "shared",          \* holds the lock shared
    "unlock_shared",   \* in the loop of unlock_shared()
    "lock",            \* in the loop of lock()
    "pending",         \* write flag set, in WaitPendingReaders()
    "exclusive" }      \* holds the lock exclusively

Init ==
  /\ state_ = 0
  /\ pc = [t \in Threads |-> "idle"]
  /\ cur_state = [t \in Threads |-> 0]

(***************************************************************************)
(* The two shapes the operations are made of.  Load begins an operation:   *)
(* the thread copies the word.  CompareAndSwap moves the word from         *)
(* expected to new and the thread to the location done, or refreshes the   *)
(* thread's copy and lets it try again.                                    *)
(***************************************************************************)
Load(t, from, to) ==
  /\ pc[t] = from
  /\ pc' = [pc EXCEPT ![t] = to]
  /\ cur_state' = [cur_state EXCEPT ![t] = state_]
  /\ UNCHANGED state_

CompareAndSwap(t, expected, new, done) ==
  \/ /\ state_ = expected
     /\ state_' = new
     /\ pc' = [pc EXCEPT ![t] = done]
     /\ cur_state' = [cur_state EXCEPT ![t] = 0]
  \/ /\ state_ # expected
     /\ cur_state' = [cur_state EXCEPT ![t] = state_]
     /\ UNCHANGED <<state_, pc>>

LockShared(t) == Load(t, "idle", "lock_shared")

\* Mutant: the write flag is not masked out of the expected word.
LockSharedCas_Unmasked(t) ==
  LET expected == cur_state[t] IN
    /\ pc[t] = "lock_shared"
    /\ CompareAndSwap(t, expected, Wrap(expected + 1), "shared")

LockSharedCas(t) ==
  LET expected == NumReaders(cur_state[t]) IN
    /\ pc[t] = "lock_shared"
    /\ CompareAndSwap(t, expected, Wrap(expected + 1), "shared")

UnlockShared(t) == Load(t, "shared", "unlock_shared")

\* Mutant: the reader expects no writer when it leaves.
UnlockSharedCas_Masked(t) ==
  LET expected == NumReaders(cur_state[t]) IN
    /\ pc[t] = "unlock_shared"
    /\ CompareAndSwap(t, expected, Wrap(expected - 1), "idle")

UnlockSharedCas(t) ==
  LET expected == cur_state[t] IN
    /\ pc[t] = "unlock_shared"
    /\ CompareAndSwap(t, expected, Wrap(expected - 1), "idle")

Lock(t) == Load(t, "idle", "lock")

\* Mutant: the flag replaces the readers instead of joining them.
LockCas_DropsReaders(t) ==
  LET expected == NumReaders(cur_state[t]) IN
    /\ pc[t] = "lock"
    /\ CompareAndSwap(t, expected, kWriteFlag, "pending")

LockCas(t) ==
  LET expected == NumReaders(cur_state[t]) IN
    /\ pc[t] = "lock"
    /\ CompareAndSwap(t, expected, kWriteFlag + expected, "pending")

\* Mutant: the writer enters as soon as its flag is up.
WaitPendingReaders_NoWait(t) ==
  /\ pc[t] = "pending"
  /\ pc' = [pc EXCEPT ![t] = "exclusive"]
  /\ UNCHANGED <<state_, cur_state>>

\* The loop leaves when a load of the word shows no reader.
WaitPendingReaders(t) ==
  /\ pc[t] = "pending"
  /\ NumReaders(state_) = 0
  /\ pc' = [pc EXCEPT ![t] = "exclusive"]
  /\ UNCHANGED <<state_, cur_state>>

\* The word is overwritten, not decremented.
Unlock(t) ==
  /\ pc[t] = "exclusive"
  /\ state_' = 0
  /\ pc' = [pc EXCEPT ![t] = "idle"]
  /\ UNCHANGED cur_state

\* What a thread does once it is inside the lock's code or holds the lock.
Continue(t) ==
  \/ LockSharedCas(t)
  \/ UnlockShared(t)
  \/ UnlockSharedCas(t)
  \/ LockCas(t)
  \/ WaitPendingReaders(t)
  \/ Unlock(t)

Next == \E t \in Threads : LockShared(t) \/ Lock(t) \/ Continue(t)

Spec == Init /\ [][Next]_vars

(***************************************************************************)
(* A scheduled thread runs on: it finishes the operation it is in and      *)
(* leaves its critical section.  Nobody has to ask for the lock.           *)
(***************************************************************************)
FairSpec == Spec /\ \A t \in Threads : WF_vars(Continue(t))

-----------------------------------------------------------------------------
At(locations) == {t \in Threads : pc[t] \in locations}

\* The threads counted in the word, and those that set its flag.
Counted == At({"shared", "unlock_shared"})
Flagged == At({"pending", "exclusive"})

\* Every variable has its type.
TypeOK ==
  /\ state_ \in Word
  /\ pc \in [Threads -> Locations]
  /\ cur_state \in [Threads -> Word]

\* A thread between lock() and unlock() is alone: nobody else holds the lock,
\* shared or exclusively, whatever compare-and-swaps raced with it.
MutualExclusion ==
  \A t \in At({"exclusive"}) : At({"shared", "unlock_shared", "exclusive"}) = {t}

\* The word says who is inside: the count is the number of threads between
\* the CAS of lock_shared() and that of unlock_shared(), the flag is up
\* exactly while a writer is between the CAS of lock() and the store of
\* unlock().  The unconditional store of unlock() loses no reader.
WordAgrees ==
  state_ = Cardinality(Counted) + (IF Flagged = {} THEN 0 ELSE kWriteFlag)

\* The DCHECKs: unlock_shared() always sees a reader in its copy of the word,
\* also after a failed CAS, and unlock() finds exactly the write flag.
DChecksHold ==
  /\ \A t \in At({"unlock_shared"}) : NumReaders(cur_state[t]) > 0
  /\ \A t \in At({"exclusive"}) : state_ = kWriteFlag

\* At most one writer has the flag.
OneWriter == \A t, u \in Flagged : t = u

\* The inductive invariant behind the three above.
IndInv == TypeOK /\ WordAgrees /\ OneWriter /\ MutualExclusion /\ DChecksHold

(***************************************************************************)
(* The refinement mapping to the lock the comment describes.  A thread     *)
(* reads from the CAS that counts it to the CAS that uncounts it.          *)
(***************************************************************************)
ModeOf(location) ==
  CASE location \in {"shared", "unlock_shared"} -> "reading"
    [] location = "pending" -> "waiting"
    [] location = "exclusive" -> "writing"
    [] OTHER -> "none"

Abstract == INSTANCE RwLock WITH mode <- [t \in Threads |-> ModeOf(pc[t])]

\* The word implements the abstract reader-writer lock; in particular no new
\* reader enters while a write is waiting.
ImplementsRwLock == Abstract!Spec

\* A writer whose flag is up gets the lock: the readers inside drain, because
\* each failed CAS of unlock_shared() is another reader's success.
PendingWriterEnters ==
  \A t \in Threads : pc[t] = "pending" ~> pc[t] = "exclusive"

\* The class comment: the semaphore "does avoid write starvation (no new
\* readers may obtain the lock if a write is waiting)".  So lock() does not
\* retry its CAS for ever while the only other users are readers.
WriterNotStarved ==
  \A t \in Threads :
    []<>~( /\ pc[t] = "lock"
           /\ \A u \in Threads \ {t} : pc[u] \notin {"lock", "pending", "exclusive"} )
=============================================================================
