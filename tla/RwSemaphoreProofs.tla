-------------------------- MODULE RwSemaphoreProofs --------------------------
(***************************************************************************)
(* rw_semaphore is a reader-writer lock for any finite set of threads that *)
(* the reader count can hold.                                              *)
(***************************************************************************)
EXTENDS RwSemaphore, FiniteSetTheorems, TLAPS

\* The arithmetic of the word: below the flag it is the count, at or above it
\* the count is what the flag leaves.
LEMMA WordFacts ==
  /\ kWriteFlag \in Nat
  /\ kWriteFlag > kNumReadersMask
  /\ \A w \in Word : NumReaders(w) \in 0 .. kNumReadersMask
  /\ \A w \in Word : w \in Nat
BY MaskAssumption DEF kWriteFlag, Word, NumReaders

\* Sets of threads are finite and no larger than the reader count allows.
LEMMA ThreadSets ==
  ASSUME NEW S, S \subseteq Threads
  PROVE  /\ IsFiniteSet(S)
         /\ Cardinality(S) \in Nat
         /\ Cardinality(S) <= kNumReadersMask
         /\ Cardinality(S) = 0 <=> S = {}
         /\ \A t \in Threads \ S : Cardinality(S \cup {t}) = Cardinality(S) + 1
         /\ \A t \in S : Cardinality(S \ {t}) = Cardinality(S) - 1
<1>1. IsFiniteSet(S) /\ Cardinality(S) <= Cardinality(Threads)
  BY FS_Subset, ThreadsAssumption
<1>2. Cardinality(S) \in Nat /\ Cardinality(Threads) \in Nat
  BY <1>1, FS_CardinalityType, ThreadsAssumption
<1>3. Cardinality(S) = 0 <=> S = {}
  BY <1>1, FS_EmptySet
<1>4. \A t \in Threads \ S : Cardinality(S \cup {t}) = Cardinality(S) + 1
  BY <1>1, FS_AddElement
<1>5. \A t \in S : Cardinality(S \ {t}) = Cardinality(S) - 1
  BY <1>1, FS_RemoveElement
<1> QED
  BY <1>1, <1>2, <1>3, <1>4, <1>5, ReadersFitAssumption, MaskAssumption

\* The initial state satisfies the inductive invariant.
LEMMA InitIndInv == Init => IndInv
<1> SUFFICES ASSUME Init PROVE IndInv
  OBVIOUS
<1>1. Counted = {} /\ Flagged = {} /\ At({"exclusive"}) = {} /\ At({"unlock_shared"}) = {}
  BY DEF Init, Counted, Flagged, At
<1>2. TypeOK
  BY WordFacts, MaskAssumption DEF Init, TypeOK, Locations, Word, kWriteFlag
<1>3. WordAgrees
  BY <1>1, ThreadSets DEF WordAgrees, Init
<1> QED
  BY <1>1, <1>2, <1>3 DEF IndInv, OneWriter, MutualExclusion, DChecksHold

\* How a move of one thread changes the sets the invariant counts.
LEMMA MoveSets ==
  ASSUME NEW t \in Threads, NEW to \in Locations, TypeOK,
         pc' = [pc EXCEPT ![t] = to]
  PROVE  /\ Counted' = IF to \in {"shared", "unlock_shared"}
                         THEN Counted \cup {t} ELSE Counted \ {t}
         /\ Flagged' = IF to \in {"pending", "exclusive"}
                         THEN Flagged \cup {t} ELSE Flagged \ {t}
BY DEF TypeOK, Counted, Flagged, At

\* In a state of the invariant the masked word is the number of readers, and
\* a word that equals its masked form has no flag.
LEMMA MaskedWord ==
  ASSUME IndInv
  PROVE  /\ NumReaders(state_) = Cardinality(Counted)
         /\ Counted # {} => NumReaders(state_) > 0
         /\ state_ <= kNumReadersMask <=> Flagged = {}
<1>1. /\ Cardinality(Counted) \in Nat
      /\ Cardinality(Counted) <= kNumReadersMask
      /\ Cardinality(Counted) = 0 <=> Counted = {}
  BY ThreadSets DEF Counted, At
<1> QED
  BY <1>1, WordFacts, MaskAssumption DEF IndInv, WordAgrees, NumReaders

\* A step that only refreshes one thread's copy of the word, or begins an
\* operation with a load, keeps the invariant.
LEMMA LoadStep ==
  ASSUME IndInv, NEW t \in Threads, NEW to \in Locations,
         state_' = state_,
         pc' = [pc EXCEPT ![t] = to],
         cur_state' = [cur_state EXCEPT ![t] = state_],
         \/ pc[t] = to
         \/ pc[t] = "idle" /\ to \in {"lock_shared", "lock"}
         \/ pc[t] = "shared" /\ to = "unlock_shared"
  PROVE  IndInv'
<1> USE DEF IndInv
<1>1. Counted' = Counted /\ Flagged' = Flagged
  BY MoveSets DEF TypeOK, Counted, Flagged, At
<1>2. TypeOK'
  BY DEF TypeOK
<1>3. WordAgrees'
  BY <1>1 DEF WordAgrees
<1>4. OneWriter'
  BY <1>1 DEF OneWriter
<1>5. At({"exclusive"})' = At({"exclusive"})
  BY DEF At, TypeOK
<1>6. MutualExclusion'
  <2>1. At({"shared", "unlock_shared", "exclusive"})' = At({"shared", "unlock_shared", "exclusive"})
    BY DEF At, TypeOK
  <2> QED
    BY <1>5, <2>1 DEF MutualExclusion
<1>7. DChecksHold'
  <2>1. ASSUME NEW u \in At({"unlock_shared"})' PROVE NumReaders(cur_state'[u]) > 0
    <3>1. CASE u = t
      BY <3>1, <2>1, <1>1, MaskedWord DEF At, TypeOK, Counted
    <3>2. CASE u # t
      BY <3>2, <2>1 DEF At, TypeOK, DChecksHold
    <3> QED
      BY <3>1, <3>2
  <2>2. \A u \in At({"exclusive"})' : state_' = kWriteFlag
    BY <1>5 DEF DChecksHold
  <2> QED
    BY <2>1, <2>2 DEF DChecksHold, NumReaders
<1> QED
  BY <1>2, <1>3, <1>4, <1>6, <1>7

\* A thread that ends an operation keeps the invariant if the word it leaves
\* agrees with the new counts and it does not join a writer.
LEMMA DoneStep ==
  ASSUME IndInv, NEW t \in Threads, NEW done \in Locations \ {"unlock_shared"},
         state_' \in Word,
         pc' = [pc EXCEPT ![t] = done],
         cur_state' \in [Threads -> Word],
         \A u \in Threads \ {t} : cur_state'[u] = cur_state[u],
         WordAgrees', OneWriter', MutualExclusion',
         \A u \in At({"exclusive"})' : state_' = kWriteFlag
  PROVE  IndInv'
<1>1. TypeOK'
  BY DEF IndInv, TypeOK
<1>2. \A u \in At({"unlock_shared"})' : NumReaders(cur_state'[u]) > 0
  BY DEF IndInv, TypeOK, DChecksHold, At
<1>3. DChecksHold'
  BY <1>2 DEF DChecksHold, NumReaders
<1> QED
  BY <1>1, <1>3 DEF IndInv

\* A reader that its CAS counts keeps the invariant: the word had no flag.
LEMMA LockSharedKeeps ==
  ASSUME IndInv, NEW t \in Threads, LockSharedCas(t)
  PROVE  IndInv'
<1> DEFINE expected == NumReaders(cur_state[t])
<1>1. CASE state_ # expected
  BY <1>1, LoadStep DEF LockSharedCas, CompareAndSwap, IndInv, TypeOK, Locations
<1>2. CASE state_ = expected
  <2>1. /\ pc' = [pc EXCEPT ![t] = "shared"]
        /\ cur_state' = [cur_state EXCEPT ![t] = 0]
        /\ state_' = Wrap(state_ + 1)
        /\ pc[t] = "lock_shared"
    BY <1>2, WordFacts DEF LockSharedCas, CompareAndSwap
  <2>2. Flagged = {}
    BY <1>2, MaskedWord, WordFacts DEF IndInv, TypeOK
  <2>3. Counted' = Counted \cup {t} /\ Flagged' = {}
    BY <2>1, <2>2, MoveSets DEF IndInv, Locations
  <2>4. t \notin Counted /\ Counted \subseteq Threads /\ Counted' \subseteq Threads
    BY <2>1 DEF Counted, At
  <2>5. Cardinality(Counted') = state_ + 1 /\ state_ + 1 <= kNumReadersMask
    BY <2>2, <2>3, <2>4, ThreadSets DEF IndInv, WordAgrees
  <2>6. state_' = state_ + 1 /\ state_' \in Word
    BY <2>1, <2>5, MaskAssumption DEF IndInv, TypeOK, Word, Wrap, kWriteFlag
  <2>7. WordAgrees'
    BY <2>3, <2>5, <2>6 DEF WordAgrees
  <2>8. OneWriter'
    BY <2>3 DEF OneWriter
  <2>9. At({"exclusive"})' = {}
    BY <2>3 DEF Flagged, At
  <2>10. MutualExclusion'
    BY <2>9 DEF MutualExclusion
  <2>11. cur_state' \in [Threads -> Word]
    BY <2>1, MaskAssumption DEF IndInv, TypeOK, Word, kWriteFlag
  <2> QED
    BY <2>1, <2>6, <2>7, <2>8, <2>9, <2>10, <2>11, DoneStep DEF Locations, IndInv, TypeOK
<1> QED
  BY <1>1, <1>2

\* A reader that its CAS uncounts keeps the invariant, with or without a
\* writer waiting.
LEMMA UnlockSharedKeeps ==
  ASSUME IndInv, NEW t \in Threads, UnlockSharedCas(t)
  PROVE  IndInv'
<1>1. CASE state_ # cur_state[t]
  BY <1>1, LoadStep DEF UnlockSharedCas, CompareAndSwap, IndInv, TypeOK, Locations
<1>2. CASE state_ = cur_state[t]
  <2>1. /\ pc' = [pc EXCEPT ![t] = "idle"]
        /\ cur_state' = [cur_state EXCEPT ![t] = 0]
        /\ state_' = Wrap(state_ - 1)
        /\ pc[t] = "unlock_shared"
    BY <1>2 DEF UnlockSharedCas, CompareAndSwap
  <2>2. t \in Counted /\ t \notin Flagged /\ Counted \subseteq Threads
    BY <2>1 DEF Counted, Flagged, At
  <2>3. Counted' = Counted \ {t} /\ Flagged' = Flagged
    <3>1. Counted' = Counted \ {t} /\ Flagged' = Flagged \ {t}
      BY <2>1, MoveSets DEF IndInv, Locations
    <3> QED
      BY <3>1, <2>2
  <2>4. Cardinality(Counted') = Cardinality(Counted) - 1 /\ Cardinality(Counted) \in Nat /\ Cardinality(Counted) # 0
    BY <2>2, <2>3, ThreadSets
  <2>5. state_ - 1 \in Word
    BY <2>4, WordFacts, MaskAssumption DEF IndInv, TypeOK, Word, WordAgrees
  <2>6. state_' = state_ - 1 /\ state_' \in Word
    BY <2>1, <2>5 DEF Wrap
  <2>7. WordAgrees'
    BY <2>3, <2>4, <2>6, WordFacts DEF IndInv, WordAgrees
  <2>8. OneWriter'
    BY <2>3 DEF IndInv, OneWriter
  <2>9. At({"exclusive"})' = {}
    <3>1. At({"exclusive"}) = {}
      BY <2>1 DEF IndInv, MutualExclusion, At
    <3> QED
      BY <3>1, <2>1 DEF At, IndInv, TypeOK
  <2>10. MutualExclusion'
    BY <2>9 DEF MutualExclusion
  <2>11. cur_state' \in [Threads -> Word]
    BY <2>1, MaskAssumption DEF IndInv, TypeOK, Word, kWriteFlag
  <2> QED
    BY <2>1, <2>6, <2>7, <2>8, <2>9, <2>10, <2>11, DoneStep DEF Locations, IndInv, TypeOK
<1> QED
  BY <1>1, <1>2

\* A writer that raises the flag keeps the invariant: the flag was down, and
\* the readers stay counted.
LEMMA LockKeeps ==
  ASSUME IndInv, NEW t \in Threads, LockCas(t)
  PROVE  IndInv'
<1> DEFINE expected == NumReaders(cur_state[t])
<1>1. CASE state_ # expected
  BY <1>1, LoadStep DEF LockCas, CompareAndSwap, IndInv, TypeOK, Locations
<1>2. CASE state_ = expected
  <2>1. /\ pc' = [pc EXCEPT ![t] = "pending"]
        /\ cur_state' = [cur_state EXCEPT ![t] = 0]
        /\ state_' = kWriteFlag + state_
        /\ pc[t] = "lock"
    BY <1>2 DEF LockCas, CompareAndSwap
  <2>2. Flagged = {} /\ state_ <= kNumReadersMask /\ state_ \in Nat
    BY <1>2, MaskedWord, WordFacts DEF IndInv, TypeOK
  <2>3. Counted' = Counted /\ Flagged' = {t}
    BY <2>1, <2>2, MoveSets DEF IndInv, Locations, Counted, At
  <2>4. state_' \in Word
    BY <2>1, <2>2, MaskAssumption DEF Word, kWriteFlag
  <2>5. WordAgrees'
    <3>1. Cardinality(Counted) \in Nat
      BY ThreadSets DEF Counted, At
    <3>2. state_ = Cardinality(Counted)
      BY <3>1, <2>2 DEF IndInv, WordAgrees
    <3>3. state_' = Cardinality(Counted') + kWriteFlag
      BY <3>1, <3>2, <2>1, <2>3, WordFacts
    <3> QED
      BY <3>3, <2>3 DEF WordAgrees
  <2>6. OneWriter'
    BY <2>3 DEF OneWriter
  <2>7. At({"exclusive"})' = {}
    BY <2>1, <2>2 DEF Flagged, At, IndInv, TypeOK
  <2>8. MutualExclusion'
    BY <2>7 DEF MutualExclusion
  <2>9. cur_state' \in [Threads -> Word]
    BY <2>1, MaskAssumption DEF IndInv, TypeOK, Word, kWriteFlag
  <2> QED
    BY <2>1, <2>4, <2>5, <2>6, <2>7, <2>8, <2>9, DoneStep DEF Locations, IndInv, TypeOK
<1> QED
  BY <1>1, <1>2

\* The last reader is gone when WaitPendingReaders() leaves its loop, so the
\* writer enters alone.
LEMMA WaitPendingReadersKeeps ==
  ASSUME IndInv, NEW t \in Threads, WaitPendingReaders(t)
  PROVE  IndInv'
<1>1. /\ pc' = [pc EXCEPT ![t] = "exclusive"]
      /\ state_' = state_ /\ cur_state' = cur_state
      /\ t \in Flagged /\ t \notin Counted
  BY DEF WaitPendingReaders, Flagged, Counted, At
<1>2. Counted = {}
  BY MaskedWord, ThreadSets DEF WaitPendingReaders, Counted, At
<1>3. Flagged = {t}
  BY <1>1 DEF IndInv, OneWriter
<1>4. Counted' = {} /\ Flagged' = {t}
  BY <1>1, <1>2, <1>3, MoveSets DEF IndInv, Locations
<1>5. state_ = kWriteFlag
  BY <1>2, <1>3, ThreadSets, WordFacts DEF IndInv, WordAgrees
<1>6. WordAgrees'
  BY <1>1, <1>2, <1>3, <1>4 DEF IndInv, WordAgrees
<1>7. OneWriter'
  BY <1>4 DEF OneWriter
<1>8. At({"exclusive"})' = {t} /\ At({"shared", "unlock_shared", "exclusive"})' = {t}
  BY <1>1, <1>4 DEF Flagged, Counted, At, IndInv, TypeOK
<1>9. MutualExclusion'
  BY <1>8 DEF MutualExclusion
<1> QED
  BY <1>1, <1>5, <1>6, <1>7, <1>9, DoneStep DEF Locations, IndInv, TypeOK

\* The blind store of unlock() keeps the invariant: nobody else is counted or
\* flagged when it happens.
LEMMA UnlockKeeps ==
  ASSUME IndInv, NEW t \in Threads, Unlock(t)
  PROVE  IndInv'
<1>1. /\ pc' = [pc EXCEPT ![t] = "idle"]
      /\ state_' = 0 /\ cur_state' = cur_state
      /\ t \in Flagged /\ t \in At({"exclusive"})
  BY DEF Unlock, Flagged, At
<1>2. Counted = {}
  BY <1>1 DEF IndInv, MutualExclusion, Counted, At
<1>3. Flagged = {t}
  BY <1>1 DEF IndInv, OneWriter
<1>4. Counted' = {} /\ Flagged' = {}
  BY <1>1, <1>2, <1>3, MoveSets DEF IndInv, Locations
<1>5. WordAgrees'
  BY <1>1, <1>4, ThreadSets DEF WordAgrees
<1>6. OneWriter'
  BY <1>4 DEF OneWriter
<1>7. At({"exclusive"})' = {}
  BY <1>4 DEF Flagged, At
<1>8. MutualExclusion'
  BY <1>7 DEF MutualExclusion
<1>9. 0 \in Word
  BY MaskAssumption DEF Word, kWriteFlag
<1> QED
  BY <1>1, <1>5, <1>6, <1>7, <1>8, <1>9, DoneStep DEF Locations, IndInv, TypeOK

\* Every step keeps the inductive invariant.
LEMMA NextIndInv == IndInv /\ [Next]_vars => IndInv'
<1> SUFFICES ASSUME IndInv, [Next]_vars PROVE IndInv'
  OBVIOUS
<1>1. ASSUME NEW t \in Threads, LockShared(t) \/ Lock(t) \/ UnlockShared(t) PROVE IndInv'
  BY <1>1, LoadStep DEF LockShared, Lock, UnlockShared, Load, Locations
<1>2. ASSUME NEW t \in Threads, LockSharedCas(t) PROVE IndInv'
  BY <1>2, LockSharedKeeps
<1>3. ASSUME NEW t \in Threads, UnlockSharedCas(t) PROVE IndInv'
  BY <1>3, UnlockSharedKeeps
<1>4. ASSUME NEW t \in Threads, LockCas(t) PROVE IndInv'
  BY <1>4, LockKeeps
<1>5. ASSUME NEW t \in Threads, WaitPendingReaders(t) PROVE IndInv'
  BY <1>5, WaitPendingReadersKeeps
<1>6. ASSUME NEW t \in Threads, Unlock(t) PROVE IndInv'
  BY <1>6, UnlockKeeps
<1>7. CASE UNCHANGED vars
  BY <1>7 DEF vars, IndInv, TypeOK, WordAgrees, OneWriter, MutualExclusion, DChecksHold,
              Counted, Flagged, At
<1> QED
  BY <1>1, <1>2, <1>3, <1>4, <1>5, <1>6, <1>7 DEF Next, Continue

\* The inductive invariant holds in every reachable state of the semaphore.
THEOREM SemaphoreInvariant == Spec => []IndInv
BY InitIndInv, NextIndInv, PTL DEF Spec

\* Whatever the number of threads, a writer in its critical section is alone.
THEOREM SemaphoreMutualExclusion == Spec => []MutualExclusion
<1>1. IndInv => MutualExclusion
  BY DEF IndInv
<1> QED
  BY <1>1, SemaphoreInvariant, PTL

\* The word always counts exactly the readers inside and the writer's flag.
THEOREM SemaphoreWordAgrees == Spec => []WordAgrees
<1>1. IndInv => WordAgrees
  BY DEF IndInv
<1> QED
  BY <1>1, SemaphoreInvariant, PTL

\* The DCHECKs of unlock_shared() and unlock() never fire.
THEOREM SemaphoreDChecks == Spec => []DChecksHold
<1>1. IndInv => DChecksHold
  BY DEF IndInv
<1> QED
  BY <1>1, SemaphoreInvariant, PTL

\* Every variable keeps its type.
THEOREM SemaphoreTypeOK == Spec => []TypeOK
<1>1. IndInv => TypeOK
  BY DEF IndInv
<1> QED
  BY <1>1, SemaphoreInvariant, PTL

-----------------------------------------------------------------------------
\* The mode of each thread, as the refinement mapping gives it.
Modes == [t \in Threads |-> ModeOf(pc[t])]

\* A thread's move shows in the abstract lock as the move of its mode.
LEMMA ModeMove ==
  ASSUME TypeOK, NEW t \in Threads, NEW to \in Locations, pc' = [pc EXCEPT ![t] = to]
  PROVE  Modes' = [Modes EXCEPT ![t] = ModeOf(to)]
BY DEF TypeOK, Modes

\* What the abstract guards ask for, in terms of the sets of the invariant.
LEMMA ModeSets ==
  /\ Abstract!In("waiting") \cup Abstract!In("writing") = Flagged
  /\ Abstract!In("reading") = Counted
BY DEF Abstract!In, Flagged, Counted, At, ModeOf

\* Every step of the semaphore is a step of the abstract lock or none.
LEMMA StepRefines ==
  ASSUME IndInv, [Next]_vars
  PROVE  [Abstract!Next]_Modes
<1> USE DEF IndInv
<1>1. ASSUME NEW t \in Threads, LockShared(t) \/ Lock(t) \/ UnlockShared(t)
      PROVE  UNCHANGED Modes
  BY <1>1, ModeMove DEF LockShared, Lock, UnlockShared, Load, Modes, ModeOf, TypeOK, Locations
<1>2. ASSUME NEW t \in Threads, LockSharedCas(t)
      PROVE  Abstract!AcquireShared(t) \/ UNCHANGED Modes
  <2>1. CASE state_ # NumReaders(cur_state[t])
    BY <1>2, <2>1 DEF LockSharedCas, CompareAndSwap, Modes
  <2>2. CASE state_ = NumReaders(cur_state[t])
    <3>1. pc[t] = "lock_shared" /\ pc' = [pc EXCEPT ![t] = "shared"]
      BY <1>2, <2>2 DEF LockSharedCas, CompareAndSwap
    <3>2. Flagged = {}
      BY <2>2, MaskedWord, WordFacts DEF TypeOK
    <3>3. Modes[t] = "none" /\ Modes' = [Modes EXCEPT ![t] = "reading"]
      BY <3>1, ModeMove DEF Modes, ModeOf, Locations
    <3> QED
      BY <3>2, <3>3, ModeSets DEF Abstract!AcquireShared, Abstract!Move, Modes
  <2> QED
    BY <2>1, <2>2
<1>3. ASSUME NEW t \in Threads, UnlockSharedCas(t)
      PROVE  Abstract!ReleaseShared(t) \/ UNCHANGED Modes
  <2>1. CASE state_ # cur_state[t]
    BY <1>3, <2>1 DEF UnlockSharedCas, CompareAndSwap, Modes
  <2>2. CASE state_ = cur_state[t]
    <3>1. pc[t] = "unlock_shared" /\ pc' = [pc EXCEPT ![t] = "idle"]
      BY <1>3, <2>2 DEF UnlockSharedCas, CompareAndSwap
    <3>2. Modes[t] = "reading" /\ Modes' = [Modes EXCEPT ![t] = "none"]
      BY <3>1, ModeMove DEF Modes, ModeOf, Locations
    <3> QED
      BY <3>2 DEF Abstract!ReleaseShared, Abstract!Move, Modes
  <2> QED
    BY <2>1, <2>2
<1>4. ASSUME NEW t \in Threads, LockCas(t)
      PROVE  Abstract!Announce(t) \/ UNCHANGED Modes
  <2>1. CASE state_ # NumReaders(cur_state[t])
    BY <1>4, <2>1 DEF LockCas, CompareAndSwap, Modes
  <2>2. CASE state_ = NumReaders(cur_state[t])
    <3>1. pc[t] = "lock" /\ pc' = [pc EXCEPT ![t] = "pending"]
      BY <1>4, <2>2 DEF LockCas, CompareAndSwap
    <3>2. Flagged = {}
      BY <2>2, MaskedWord, WordFacts DEF TypeOK
    <3>3. Modes[t] = "none" /\ Modes' = [Modes EXCEPT ![t] = "waiting"]
      BY <3>1, ModeMove DEF Modes, ModeOf, Locations
    <3> QED
      BY <3>2, <3>3, ModeSets DEF Abstract!Announce, Abstract!Move, Modes
  <2> QED
    BY <2>1, <2>2
<1>5. ASSUME NEW t \in Threads, WaitPendingReaders(t)
      PROVE  Abstract!AcquireExclusive(t)
  <2>1. Counted = {}
    BY <1>5, MaskedWord, ThreadSets DEF WaitPendingReaders, Counted, At
  <2>2. Modes[t] = "waiting" /\ Modes' = [Modes EXCEPT ![t] = "writing"]
    BY <1>5, ModeMove DEF WaitPendingReaders, Modes, ModeOf, Locations
  <2> QED
    BY <2>1, <2>2, ModeSets DEF Abstract!AcquireExclusive, Abstract!Move, Modes
<1>6. ASSUME NEW t \in Threads, Unlock(t)
      PROVE  Abstract!ReleaseExclusive(t)
  <2>1. Modes[t] = "writing" /\ Modes' = [Modes EXCEPT ![t] = "none"]
    BY <1>6, ModeMove DEF Unlock, Modes, ModeOf, Locations
  <2> QED
    BY <2>1 DEF Abstract!ReleaseExclusive, Abstract!Move, Modes
<1>7. CASE UNCHANGED vars
  BY <1>7 DEF vars, Modes
<1> QED
  BY <1>1, <1>2, <1>3, <1>4, <1>5, <1>6, <1>7 DEF Next, Continue, Abstract!Next

\* The compare-and-swap word implements the reader-writer lock of the class
\* comment, for every finite number of threads: no step admits a reader
\* while a write is waiting, or a writer before the readers have left.
THEOREM SemaphoreImplementsRwLock == Spec => ImplementsRwLock
<1>1. Init => Abstract!Init
  BY DEF Init, Abstract!Init, ModeOf
<1>2. IndInv /\ [Next]_vars => [Abstract!Next]_Modes
  BY StepRefines
<1> QED
  BY <1>1, <1>2, SemaphoreInvariant, PTL DEF Spec, ImplementsRwLock, Abstract!Spec, Modes
=============================================================================
