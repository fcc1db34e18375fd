-------------------------- MODULE SafeAssignProofs --------------------------
(***************************************************************************)
(* The safety of class A's operator= for any number of threads, objects    *)
(* and elements.                                                           *)
(***************************************************************************)
EXTENDS SafeAssign, TLAPS

\* The invariant holds at the start: nobody is inside operator=.
LEMMA InitIndInv == Init => IndInv
BY TaskAssumption, NoOneAssumption, LengthAssumption
   DEF Init, IndInv, TypeOK, SidesAgree, OwnersAgree, CopyAgrees, Whole, Holds, Index, Locations, Writing

\* While a thread copies, nobody else writes either side and it is the only
\* writer of its left one: it owns both mutexes.
LEMMA CopierAlone ==
  ASSUME IndInv, NEW t \in Threads, pc[t] = "copying"
  PROVE  /\ Lhs[t] # Rhs[t]
         /\ Lhs[t] \in Objects /\ Rhs[t] \in Objects
         /\ \A u \in Threads : pc[u] = "copying" /\ u # t =>
              Lhs[u] \notin {Lhs[t], Rhs[t]} /\ Rhs[u] \notin {Lhs[t], Rhs[t]}
BY TaskAssumption DEF IndInv, TypeOK, SidesAgree, OwnersAgree, Holds

\* The mutex that lock() found free belongs to nobody, so no copy that is
\* going on touches its object.
LEMMA FreeUntouched ==
  ASSUME IndInv, NEW o \in Objects, mut_[o] = NoOne
  PROVE  \A u \in Threads : o \notin Holds(u)
BY NoOneAssumption DEF IndInv, OwnersAgree

\* An object whose mutex a thread in lock() holds is not touched by a copy.
LEMMA HeldUntouched ==
  ASSUME IndInv, NEW t \in Threads, pc[t] \in {"trying", "backing_off"}
  PROVE  \A u \in Threads : pc[u] = "copying" => first[t] \notin {Lhs[u], Rhs[u]}
BY TaskAssumption DEF IndInv, TypeOK, SidesAgree, OwnersAgree, Holds

-----------------------------------------------------------------------------
\* A step that moves no data keeps the vectors whole unless a copy ends.
LEMMA WholeKept ==
  ASSUME IndInv, UNCHANGED data_,
         \A u \in Threads : pc[u] = "copying" => pc'[u] = "copying"
  PROVE  Whole'
<1> SUFFICES ASSUME NEW o \in Objects, \A u \in Threads : ~ Writing(u, o)'
             PROVE  \A i, j \in Index : data_'[o][i] = data_'[o][j]
  BY DEF Whole
<1>1. \A u \in Threads : ~ Writing(u, o)
  BY DEF Writing
<1> QED
  BY <1>1 DEF IndInv, Whole

\* A step that moves no data and begins or ends no copy keeps the copies.
LEMMA CopiesKept ==
  ASSUME IndInv, UNCHANGED <<data_, copied>>,
         \A u \in Threads : pc'[u] = "copying" <=> pc[u] = "copying"
  PROVE  CopyAgrees' /\ Whole'
<1>1. Whole'
  BY WholeKept
<1>2. CopyAgrees'
  BY DEF IndInv, CopyAgrees
<1> QED
  BY <1>1, <1>2

\* A call that has not locked anything yet.
LEMMA AssignStep ==
  ASSUME IndInv, NEW t \in Threads, Assign(t)
  PROVE  IndInv'
<1> USE DEF Assign
<1>1. TypeOK' /\ SidesAgree'
  BY TaskAssumption DEF IndInv, TypeOK, SidesAgree, Locations
<1>2. OwnersAgree'
  BY TaskAssumption DEF IndInv, TypeOK, OwnersAgree, Holds
<1>3. \A u \in Threads : pc'[u] = "copying" <=> pc[u] = "copying"
  BY DEF IndInv, TypeOK
<1>4. CopyAgrees' /\ Whole'
  BY <1>3, CopiesKept
<1> QED
  BY <1>1, <1>2, <1>4 DEF IndInv

\* The first mutex was free.
LEMMA LockFirstStep ==
  ASSUME IndInv, NEW t \in Threads, LockFirst(t)
  PROVE  IndInv'
<1> USE DEF LockFirst, Blocked, Awaited
<1>1. TypeOK' /\ SidesAgree'
  BY TaskAssumption DEF IndInv, TypeOK, SidesAgree, Locations
<1>2. OwnersAgree'
  BY TaskAssumption, NoOneAssumption DEF IndInv, TypeOK, SidesAgree, OwnersAgree, Holds
<1>3. \A u \in Threads : pc'[u] = "copying" <=> pc[u] = "copying"
  BY DEF IndInv, TypeOK
<1>4. CopyAgrees' /\ Whole'
  BY <1>3, CopiesKept
<1> QED
  BY <1>1, <1>2, <1>4 DEF IndInv

\* The second mutex was free, or nothing is taken.
LEMMA TryLockSecondStep ==
  ASSUME IndInv, NEW t \in Threads, TryLockSecond(t)
  PROVE  IndInv'
<1> USE DEF TryLockSecond, Second
<1>1. TypeOK' /\ SidesAgree'
  <2>1. mut_' \in [Objects -> Threads \cup {NoOne}]
    BY DEF IndInv, TypeOK
  <2>2. pc' \in [Threads -> Locations]
    BY DEF IndInv, TypeOK, Locations
  <2>3. UNCHANGED <<data_, first, copied>>
    OBVIOUS
  <2>4. TypeOK'
    BY <2>1, <2>2, <2>3 DEF IndInv, TypeOK
  <2>5. SidesAgree'
    BY DEF IndInv, TypeOK, SidesAgree
  <2> QED
    BY <2>4, <2>5
<1>2. OwnersAgree'
  BY TaskAssumption, NoOneAssumption DEF IndInv, TypeOK, SidesAgree, OwnersAgree, Holds
<1>3. CopyAgrees'
  BY DEF IndInv, TypeOK, CopyAgrees
<1>4. Whole'
  <2>1. \A u \in Threads : pc[u] = "copying" => pc'[u] = "copying"
    BY DEF IndInv, TypeOK
  <2> QED
    BY <2>1, WholeKept
<1> QED
  BY <1>1, <1>2, <1>3, <1>4 DEF IndInv

\* The mutex given back is the one in hand.
LEMMA BackOffStep ==
  ASSUME IndInv, NEW t \in Threads, BackOff(t)
  PROVE  IndInv'
<1> USE DEF BackOff, Second
<1>1. TypeOK' /\ SidesAgree'
  BY TaskAssumption DEF IndInv, TypeOK, SidesAgree, Locations
<1>2. OwnersAgree'
  BY TaskAssumption, NoOneAssumption DEF IndInv, TypeOK, SidesAgree, OwnersAgree, Holds
<1>3. \A u \in Threads : pc'[u] = "copying" <=> pc[u] = "copying"
  BY DEF IndInv, TypeOK
<1>4. CopyAgrees' /\ Whole'
  BY <1>3, CopiesKept
<1> QED
  BY <1>1, <1>2, <1>4 DEF IndInv

\* A copied element changes only the object being assigned.
LEMMA CopyElementStep ==
  ASSUME IndInv, NEW t \in Threads, CopyElement(t)
  PROVE  IndInv'
<1> DEFINE i == copied[t] + 1
<1>1. /\ pc[t] = "copying"
      /\ i \in Index
      /\ data_' = [data_ EXCEPT ![Lhs[t]][i] = data_[Rhs[t]][i]]
      /\ copied' = [copied EXCEPT ![t] = i]
      /\ UNCHANGED <<mut_, pc, first>>
  BY LengthAssumption DEF CopyElement, IndInv, TypeOK, Index
<1>2. /\ Lhs[t] # Rhs[t]
      /\ Lhs[t] \in Objects /\ Rhs[t] \in Objects
      /\ \A u \in Threads : pc[u] = "copying" /\ u # t =>
           Lhs[u] \notin {Lhs[t], Rhs[t]} /\ Rhs[u] \notin {Lhs[t], Rhs[t]}
  BY <1>1, CopierAlone
<1> HIDE DEF i
<1>3. TypeOK' /\ SidesAgree' /\ OwnersAgree'
  <2>1. TypeOK'
    <3>1. data_' \in [Objects -> [Index -> Objects]]
      BY <1>1, <1>2 DEF IndInv, TypeOK
    <3>2. copied' \in [Threads -> 0 .. Length]
      BY <1>1, LengthAssumption DEF IndInv, TypeOK, Index
    <3> QED
      BY <1>1, <3>1, <3>2 DEF IndInv, TypeOK
  <2>2. SidesAgree' /\ OwnersAgree'
    BY <1>1 DEF IndInv, SidesAgree, OwnersAgree, Holds
  <2> QED
    BY <2>1, <2>2
<1>4. CopyAgrees'
  <2> SUFFICES ASSUME NEW u \in Threads
               PROVE  IF pc[u] = "copying"
                        THEN \A k \in 1 .. copied'[u] : data_'[Lhs[u]][k] = data_'[Rhs[u]][k]
                        ELSE copied'[u] = 0
    BY <1>1 DEF CopyAgrees
  <2>1. CASE u = t
    <3> SUFFICES ASSUME NEW k \in 1 .. i
                 PROVE  data_'[Lhs[t]][k] = data_'[Rhs[t]][k]
      BY <2>1, <1>1 DEF IndInv, TypeOK
    <3>1. k \in Index /\ (k # i => k \in 1 .. copied[t])
      BY <1>1, LengthAssumption DEF IndInv, TypeOK, Index, i
    <3>2. data_'[Rhs[t]] = data_[Rhs[t]]
      BY <1>1, <1>2 DEF IndInv, TypeOK
    <3>3. data_'[Lhs[t]][k] = IF k = i THEN data_[Rhs[t]][i] ELSE data_[Lhs[t]][k]
      BY <3>1, <1>1, <1>2 DEF IndInv, TypeOK
    <3> QED
      BY <3>1, <3>2, <3>3, <1>1 DEF IndInv, CopyAgrees
  <2>2. CASE u # t
    BY <2>2, <1>1, <1>2, TaskAssumption DEF IndInv, TypeOK, CopyAgrees
  <2> QED
    BY <2>1, <2>2
<1>5. Whole'
  BY <1>1, <1>2 DEF IndInv, TypeOK, Whole, Writing
<1> QED
  BY <1>3, <1>4, <1>5 DEF IndInv

\* At the end the two sides are equal, and the right one is whole.
LEMMA ReturnStep ==
  ASSUME IndInv, NEW t \in Threads, Return(t)
  PROVE  IndInv'
<1>1. /\ pc[t] = "copying"
      /\ copied[t] = Length
      /\ pc' = [pc EXCEPT ![t] = "outside"]
      /\ UNCHANGED data_
  BY DEF Return
<1>2. /\ Lhs[t] # Rhs[t]
      /\ Lhs[t] \in Objects /\ Rhs[t] \in Objects
      /\ \A u \in Threads : pc[u] = "copying" /\ u # t =>
           Lhs[u] \notin {Lhs[t], Rhs[t]} /\ Rhs[u] \notin {Lhs[t], Rhs[t]}
  BY <1>1, CopierAlone
<1>3. TypeOK' /\ SidesAgree'
  <2>1. mut_' \in [Objects -> Threads \cup {NoOne}]
    BY DEF Return, IndInv, TypeOK
  <2>2. pc' \in [Threads -> Locations]
    BY DEF Return, IndInv, TypeOK, Locations
  <2>3. first' \in [Threads -> Objects] /\ copied' \in [Threads -> 0 .. Length]
    <3>1. Lhs[t] \in Objects /\ 0 \in 0 .. Length
      BY TaskAssumption, LengthAssumption
    <3>2. first' \in [Threads -> Objects]
      BY <3>1 DEF Return, IndInv, TypeOK
    <3>3. copied' \in [Threads -> 0 .. Length]
      BY <3>1 DEF Return, IndInv, TypeOK
    <3> QED
      BY <3>2, <3>3
  <2>4. TypeOK'
    BY <1>1, <2>1, <2>2, <2>3 DEF IndInv, TypeOK
  <2>5. SidesAgree'
    BY DEF Return, IndInv, TypeOK, SidesAgree
  <2> QED
    BY <2>4, <2>5
<1>4. OwnersAgree'
  BY <1>2, TaskAssumption, NoOneAssumption DEF Return, IndInv, TypeOK, SidesAgree, OwnersAgree, Holds
<1>5. CopyAgrees'
  BY DEF Return, IndInv, TypeOK, CopyAgrees
<1>6. Whole'
  <2> SUFFICES ASSUME NEW o \in Objects, \A u \in Threads : ~ Writing(u, o)',
                      NEW k \in Index, NEW j \in Index
               PROVE  data_[o][k] = data_[o][j]
    BY <1>1 DEF Whole
  <2>1. CASE o = Lhs[t]
    <3>1. data_[o][k] = data_[Rhs[t]][k] /\ data_[o][j] = data_[Rhs[t]][j]
      BY <2>1, <1>1 DEF IndInv, CopyAgrees, Index
    <3>2. \A u \in Threads : ~ Writing(u, Rhs[t])
      BY <1>2 DEF Writing
    <3> QED
      BY <3>1, <3>2, <1>2 DEF IndInv, Whole
  <2>2. CASE o # Lhs[t]
    BY <2>2, <1>1 DEF IndInv, TypeOK, Whole, Writing
  <2> QED
    BY <2>1, <2>2
<1> QED
  BY <1>3, <1>4, <1>5, <1>6 DEF IndInv

\* Every step preserves the invariant.
LEMMA NextIndInv == IndInv /\ [Next]_vars => IndInv'
<1> SUFFICES ASSUME IndInv, [Next]_vars PROVE IndInv'
  OBVIOUS
<1>1. CASE UNCHANGED vars
  BY <1>1 DEF vars, IndInv, TypeOK, SidesAgree, OwnersAgree, CopyAgrees, Whole, Holds, Writing
<1>2. CASE Next
  <2>1. PICK t \in Threads : Assign(t) \/ Continue(t)
    BY <1>2 DEF Next
  <2> QED
    BY <2>1, AssignStep, LockFirstStep, TryLockSecondStep, BackOffStep, CopyElementStep, ReturnStep
       DEF Continue
<1> QED
  BY <1>1, <1>2

\* The inductive invariant of operator=: mutexes, copies and vectors agree.
THEOREM AssignInvariant == Spec => []IndInv
BY InitIndInv, NextIndInv, PTL DEF Spec

\* Every variable keeps its type.
THEOREM AssignTypeOK == Spec => []TypeOK
BY AssignInvariant, PTL DEF IndInv

\* Nobody who gets an object's lock sees a half-copied vector.
THEOREM AssignWhole == Spec => []Whole
BY AssignInvariant, PTL DEF IndInv

\* ds_safe_assign_test.cc:64: opposite assignments, and circles of any length,
\* do not wait for each other.  Who has a mutex is past the wait in lock().
THEOREM AssignNoDeadlock == Spec => []NoDeadlock
<1>1. IndInv => NoDeadlock
  <2> SUFFICES ASSUME IndInv, NEW t \in Threads, NEW o \in Awaited(t), mut_[o] # NoOne
               PROVE  \E u \in Threads : mut_[o] = u /\ pc[u] # "outside" /\ ~ Blocked(u)
    BY DEF NoDeadlock
  <2>1. o \in Objects
    BY DEF IndInv, TypeOK, Awaited
  <2>2. mut_[o] \in Threads /\ o \in Holds(mut_[o])
    BY <2>1 DEF IndInv, TypeOK, OwnersAgree
  <2>3. pc[mut_[o]] \in {"trying", "backing_off", "copying"}
    BY <2>2 DEF Holds
  <2>4. ~ Blocked(mut_[o])
    BY <2>3 DEF Blocked, Awaited
  <2> QED
    BY <2>2, <2>3, <2>4
<1> QED
  BY <1>1, AssignInvariant, PTL

-----------------------------------------------------------------------------
\* At the start every object has its own value.
LEMMA InitRefines == Init => Abstract!Init
BY LengthAssumption DEF Init, Abstract!Init, ValueOf, Writing, Index

\* The value of an object nobody writes is in its vector.
LEMMA ValueOfRest ==
  ASSUME NEW o \in Objects, \A u \in Threads : ~ Writing(u, o)
  PROVE  ValueOf(o) = data_[o][1]
BY DEF ValueOf

\* The value of an object being written is in its writer's other side.
LEMMA ValueOfWritten ==
  ASSUME IndInv, NEW t \in Threads, pc[t] = "copying"
  PROVE  ValueOf(Lhs[t]) = data_[Rhs[t]][1]
<1>1. Writing(t, Lhs[t])
  BY DEF Writing
<1>2. \A u \in Threads : Writing(u, Lhs[t]) => u = t
  BY CopierAlone DEF Writing
<1> QED
  BY <1>1, <1>2 DEF ValueOf

\* A step that keeps the data and the copies keeps the values.
LEMMA ValuesKept ==
  ASSUME UNCHANGED data_,
         \A u \in Threads : pc'[u] = "copying" <=> pc[u] = "copying",
         NEW o \in Objects
  PROVE  ValueOf(o)' = ValueOf(o)
<1>1. \A u \in Threads : Writing(u, o)' <=> Writing(u, o)
  BY DEF Writing
<1>2. (CHOOSE u \in Threads : Writing(u, o)') = (CHOOSE u \in Threads : Writing(u, o))
  BY <1>1
<1> QED
  BY <1>1, <1>2 DEF ValueOf

\* Between two states of the invariant an object that the same thread
\* writes, or nobody does, keeps its value if the element behind it stays.
LEMMA ValueKeptAt ==
  ASSUME IndInv, IndInv', NEW o \in Objects,
         \A u \in Threads : Writing(u, o)' <=> Writing(u, o),
         (\A u \in Threads : ~ Writing(u, o)) => data_'[o][1] = data_[o][1],
         \A u \in Threads : Writing(u, o) => data_'[Rhs[u]][1] = data_[Rhs[u]][1]
  PROVE  ValueOf(o)' = ValueOf(o)
<1>1. CASE \A u \in Threads : ~ Writing(u, o)
  BY <1>1 DEF ValueOf
<1>2. CASE \E u \in Threads : Writing(u, o)
  <2>1. PICK u \in Threads : Writing(u, o)
    BY <1>2
  <2>2. (CHOOSE x \in Threads : Writing(x, o)') = (CHOOSE x \in Threads : Writing(x, o))
    OBVIOUS
  <2>3. (CHOOSE x \in Threads : Writing(x, o)) \in Threads
        /\ Writing((CHOOSE x \in Threads : Writing(x, o)), o)
    BY <1>2
  <2> QED
    BY <2>1, <2>2, <2>3 DEF ValueOf
<1> QED
  BY <1>1, <1>2

\* Getting the second mutex is the moment the abstract assignment happens.
LEMMA TryLockSecondRefines ==
  ASSUME IndInv, IndInv', NEW t \in Threads, TryLockSecond(t), pc'[t] = "copying"
  PROVE  \A o \in Objects :
           ValueOf(o)' = IF o = Lhs[t] THEN ValueOf(Rhs[t]) ELSE ValueOf(o)
<1>1. /\ pc[t] = "trying"
      /\ mut_[Second(t)] = NoOne
      /\ pc' = [pc EXCEPT ![t] = "copying"]
      /\ UNCHANGED data_
  BY DEF TryLockSecond, IndInv, TypeOK
<1>2. \A u \in Threads : pc'[u] = "copying" <=> pc[u] = "copying" \/ u = t
  BY <1>1 DEF IndInv, TypeOK
<1>3. {Lhs[t], Rhs[t]} = {first[t], Second(t)} /\ Lhs[t] \in Objects /\ Rhs[t] \in Objects
  BY TaskAssumption DEF IndInv, TypeOK, SidesAgree, Second
<1>4. \A u \in Threads : pc[u] = "copying" => Second(t) \notin {Lhs[u], Rhs[u]}
  BY <1>1, <1>3, FreeUntouched DEF Holds
<1>5. \A u \in Threads : pc[u] = "copying" => first[t] \notin {Lhs[u], Rhs[u]}
  BY <1>1, HeldUntouched
<1>6. ValueOf(Rhs[t]) = data_[Rhs[t]][1]
  <2>1. \A u \in Threads : ~ Writing(u, Rhs[t])
    BY <1>3, <1>4, <1>5 DEF Writing
  <2> QED
    BY <2>1, <1>3, ValueOfRest
<1>7. ValueOf(Lhs[t])' = data_[Rhs[t]][1]
  <2>1. Writing(t, Lhs[t])'
    BY DEF Writing
  <2>2. \A u \in Threads : Writing(u, Lhs[t])' => u = t
    BY <1>2, <1>3, <1>4, <1>5 DEF Writing
  <2> QED
    BY <2>1, <2>2, <1>1 DEF ValueOf
<1>8. ASSUME NEW o \in Objects, o # Lhs[t]
      PROVE  ValueOf(o)' = ValueOf(o)
  <2>1. \A u \in Threads : Writing(u, o)' <=> Writing(u, o)
    BY <1>2, <1>8 DEF Writing
  <2> QED
    BY <2>1, <1>1, ValueKeptAt
<1> QED
  BY <1>6, <1>7, <1>8

\* A copied element belongs to an object whose value is already the other's.
LEMMA CopyElementRefines ==
  ASSUME IndInv, IndInv', NEW t \in Threads, CopyElement(t), NEW o \in Objects
  PROVE  ValueOf(o)' = ValueOf(o)
<1>1. /\ pc[t] = "copying"
      /\ data_' = [data_ EXCEPT ![Lhs[t]] = [@ EXCEPT ![copied[t] + 1] = data_[Rhs[t]][copied[t] + 1]]]
      /\ UNCHANGED pc
  BY DEF CopyElement
<1>2. /\ Lhs[t] # Rhs[t]
      /\ Lhs[t] \in Objects /\ Rhs[t] \in Objects
      /\ \A u \in Threads : pc[u] = "copying" /\ u # t =>
           Lhs[u] \notin {Lhs[t], Rhs[t]} /\ Rhs[u] \notin {Lhs[t], Rhs[t]}
  BY <1>1, CopierAlone
<1>3. \A x \in Objects : x # Lhs[t] => data_'[x] = data_[x]
  BY <1>1 DEF IndInv, TypeOK
<1>4. \A u \in Threads : Writing(u, o)' <=> Writing(u, o)
  BY <1>1 DEF Writing
<1>5. \A u \in Threads : Writing(u, o) => data_'[Rhs[u]][1] = data_[Rhs[u]][1]
  BY <1>2, <1>3, TaskAssumption DEF Writing
<1>6. (\A u \in Threads : ~ Writing(u, o)) => data_'[o][1] = data_[o][1]
  BY <1>1, <1>3 DEF Writing
<1> QED
  BY <1>4, <1>5, <1>6, ValueKeptAt

\* When the copy ends the object has the other's value itself.
LEMMA ReturnRefines ==
  ASSUME IndInv, IndInv', NEW t \in Threads, Return(t), NEW o \in Objects
  PROVE  ValueOf(o)' = ValueOf(o)
<1>1. /\ pc[t] = "copying"
      /\ copied[t] = Length
      /\ pc' = [pc EXCEPT ![t] = "outside"]
      /\ UNCHANGED data_
  BY DEF Return
<1>2. \A u \in Threads : pc'[u] = "copying" <=> pc[u] = "copying" /\ u # t
  BY <1>1 DEF IndInv, TypeOK
<1>3. CASE o = Lhs[t]
  <2>1. ValueOf(o) = data_[Rhs[t]][1]
    BY <1>1, <1>3, ValueOfWritten
  <2>2. data_[Lhs[t]][1] = data_[Rhs[t]][1]
    BY <1>1, LengthAssumption DEF IndInv, CopyAgrees
  <2>3. \A u \in Threads : ~ Writing(u, o)'
    BY <1>1, <1>2, <1>3, CopierAlone DEF Writing
  <2>4. ValueOf(o)' = data_[o][1]
    BY <2>3, <1>1 DEF ValueOf
  <2> QED
    BY <2>1, <2>2, <2>4, <1>3
<1>4. CASE o # Lhs[t]
  <2>1. \A u \in Threads : Writing(u, o)' <=> Writing(u, o)
    BY <1>2, <1>4 DEF Writing
  <2> QED
    BY <2>1, <1>1, ValueKeptAt
<1> QED
  BY <1>3, <1>4

\* Every step of operator= is an abstract assignment or changes no value.
LEMMA NextRefines ==
  IndInv /\ IndInv' /\ [Next]_vars => [Abstract!Next]_([o \in Objects |-> ValueOf(o)])
<1> DEFINE value == [o \in Objects |-> ValueOf(o)]
<1> SUFFICES ASSUME IndInv, IndInv', [Next]_vars
             PROVE  Abstract!Next \/ value' = value
  OBVIOUS
<1>1. ASSUME \A o \in Objects : ValueOf(o)' = ValueOf(o)
      PROVE  value' = value
  BY <1>1
<1>2. CASE UNCHANGED vars
  <2>1. \A o \in Objects : ValueOf(o)' = ValueOf(o)
    BY <1>2, ValuesKept DEF vars
  <2> QED
    BY <2>1, <1>1
<1>3. ASSUME NEW t \in Threads, Assign(t) \/ LockFirst(t) \/ BackOff(t)
      PROVE  value' = value
  <2>1. UNCHANGED data_
    BY <1>3 DEF Assign, LockFirst, BackOff
  <2>2. \A u \in Threads : pc'[u] = "copying" <=> pc[u] = "copying"
    BY <1>3 DEF Assign, LockFirst, BackOff, IndInv, TypeOK
  <2>3. \A o \in Objects : ValueOf(o)' = ValueOf(o)
    BY <2>1, <2>2, ValuesKept
  <2> QED
    BY <2>3, <1>1
<1>4. ASSUME NEW t \in Threads, TryLockSecond(t)
      PROVE  Abstract!Next \/ value' = value
  <2>1. CASE pc'[t] = "copying"
    <3>1. Lhs[t] \in Objects /\ Rhs[t] \in Objects
      BY TaskAssumption
    <3>2. value' = [value EXCEPT ![Lhs[t]] = value[Rhs[t]]]
      BY <1>4, <2>1, <3>1, TryLockSecondRefines
    <3>3. Abstract!Assign(Lhs[t], Rhs[t])
      BY <3>2 DEF Abstract!Assign
    <3> QED
      BY <3>1, <3>3 DEF Abstract!Next
  <2>2. CASE pc'[t] # "copying"
    <3>1. UNCHANGED data_ /\ pc[t] = "trying" /\ pc' = [pc EXCEPT ![t] = "backing_off"]
      BY <1>4, <2>2 DEF TryLockSecond, IndInv, TypeOK
    <3>2. \A u \in Threads : pc'[u] = "copying" <=> pc[u] = "copying"
      BY <3>1 DEF IndInv, TypeOK
    <3>3. \A o \in Objects : ValueOf(o)' = ValueOf(o)
      BY <3>1, <3>2, ValuesKept
    <3> QED
      BY <3>3, <1>1
  <2> QED
    BY <2>1, <2>2
<1>5. ASSUME NEW t \in Threads, CopyElement(t) \/ Return(t)
      PROVE  value' = value
  <2>1. \A o \in Objects : ValueOf(o)' = ValueOf(o)
    BY <1>5, CopyElementRefines, ReturnRefines
  <2> QED
    BY <2>1, <1>1
<1> HIDE DEF value
<1> QED
  BY <1>2, <1>3, <1>4, <1>5 DEF Next, Continue

\* operator= implements assignment in one step.
THEOREM AssignImplementsRegisters == Spec => ImplementsRegisters
BY AssignInvariant, InitRefines, NextRefines, PTL
   DEF Spec, ImplementsRegisters, Abstract!Spec
=============================================================================
