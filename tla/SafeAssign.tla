----------------------------- MODULE SafeAssign -----------------------------
(***************************************************************************)
(* Class A of projects/high_perf/parallel_data_structures/                 *)
(* ds_safe_assign_test.cc: objects that hold a vector and a mutex, and an  *)
(* operator= that takes the mutexes of both sides before it copies.  Every *)
(* thread repeats one assignment, as task1() does.                         *)
(*                                                                         *)
(* boost::lock() takes one mutex, tries the other, and on failure gives    *)
(* the first back and starts again from the one it failed to get.  The     *)
(* vector is copied element by element.                                    *)
(***************************************************************************)
EXTENDS Integers

CONSTANTS
  Threads,
  Objects,
  NoOne,            \* the owner of a free mutex
  Lhs, Rhs,         \* the two sides of each thread's assignment
  Length            \* of the vectors

ASSUME TaskAssumption ==
  /\ Lhs \in [Threads -> Objects]
  /\ Rhs \in [Threads -> Objects]

ASSUME NoOneAssumption == NoOne \notin Threads

ASSUME LengthAssumption == Length \in Nat \ {0}

VARIABLES
  mut_,             \* the owner of each object's mutex
  data_,            \* each object's vector
  pc,               \* where each thread is
  first,            \* the object whose mutex lock() takes first
  copied            \* how many elements a thread has copied

vars == <<mut_, data_, pc, first, copied>>

Index == 1 .. Length

Locations ==
  { "outside",
    "locking",      \* in lock(), blocked on the first mutex
    "trying",       \* in lock(), owns the first mutex
    "backing_off",  \* in lock(), could not get the second one
    "copying" }     \* owns both mutexes

\* The side that lock() tries second.
Second(t) == IF first[t] = Lhs[t] THEN Rhs[t] ELSE Lhs[t]

\* The objects start with vectors that tell them apart.
Init ==
  /\ mut_ = [o \in Objects |-> NoOne]
  /\ data_ = [o \in Objects |-> [i \in Index |-> o]]
  /\ pc = [t \in Threads |-> "outside"]
  /\ first = [t \in Threads |-> Lhs[t]]
  /\ copied = [t \in Threads |-> 0]

-----------------------------------------------------------------------------
\* Mutant: a = a is not told apart, and lock() gets the same mutex twice.
Assign_NoSelfTest(t) ==
  /\ pc[t] = "outside"
  /\ pc' = [pc EXCEPT ![t] = "locking"]
  /\ UNCHANGED <<mut_, data_, first, copied>>

\* operator= is called; an object assigned to itself returns at once.
Assign(t) ==
  /\ pc[t] = "outside"
  /\ \/ Lhs[t] # Rhs[t] /\ pc' = [pc EXCEPT ![t] = "locking"]
     \/ Lhs[t] = Rhs[t] /\ UNCHANGED pc
  /\ UNCHANGED <<mut_, data_, first, copied>>

\* Mutant: the variant the code calls V0, which waits for the second mutex
\* with the first one in hand.
Awaited_Both(t) ==
  CASE pc[t] = "locking" -> {first[t]}
    [] pc[t] = "trying" -> {Second(t)}
    [] OTHER -> {}

\* The mutexes a thread cannot go on without: lock() waits for the first one
\* and only tries the second.
Awaited(t) == IF pc[t] = "locking" THEN {first[t]} ELSE {}

Blocked(t) == \E o \in Awaited(t) : mut_[o] # NoOne

LockFirst(t) ==
  /\ pc[t] = "locking"
  /\ ~ Blocked(t)
  /\ mut_' = [mut_ EXCEPT ![first[t]] = t]
  /\ pc' = [pc EXCEPT ![t] = "trying"]
  /\ UNCHANGED <<data_, first, copied>>

\* Mutant: only the assigned object is locked.
TryLockSecond_OneSide(t) ==
  /\ pc[t] = "trying"
  /\ pc' = [pc EXCEPT ![t] = "copying"]
  /\ UNCHANGED <<mut_, data_, first, copied>>

TryLockSecond(t) ==
  /\ pc[t] = "trying"
  /\ ~ Blocked(t)
  /\ \/ /\ mut_[Second(t)] = NoOne
        /\ mut_' = [mut_ EXCEPT ![Second(t)] = t]
        /\ pc' = [pc EXCEPT ![t] = "copying"]
     \/ /\ mut_[Second(t)] # NoOne
        /\ pc' = [pc EXCEPT ![t] = "backing_off"]
        /\ UNCHANGED mut_
  /\ UNCHANGED <<data_, first, copied>>

\* Next time the other mutex comes first.
BackOff(t) ==
  /\ pc[t] = "backing_off"
  /\ mut_' = [mut_ EXCEPT ![first[t]] = NoOne]
  /\ first' = [first EXCEPT ![t] = Second(t)]
  /\ pc' = [pc EXCEPT ![t] = "locking"]
  /\ UNCHANGED <<data_, copied>>

\* Mutant: the copy goes one element too far.
CopyElement_OffByOne(t) ==
  LET i == copied[t] + 1 IN
    /\ pc[t] = "copying"
    /\ copied[t] <= Length
    /\ data_' = [data_ EXCEPT ![Lhs[t]] = [j \in Index |-> IF j = i THEN data_[Rhs[t]][j] ELSE @[j]]]
    /\ copied' = [copied EXCEPT ![t] = i]
    /\ UNCHANGED <<mut_, pc, first>>

\* data_ = rhs.data_, one element.
CopyElement(t) ==
  LET i == copied[t] + 1 IN
    /\ pc[t] = "copying"
    /\ copied[t] < Length
    /\ data_' = [data_ EXCEPT ![Lhs[t]][i] = data_[Rhs[t]][i]]
    /\ copied' = [copied EXCEPT ![t] = i]
    /\ UNCHANGED <<mut_, pc, first>>

\* The two locks, and with them the locals, go out of scope.
Return(t) ==
  /\ pc[t] = "copying"
  /\ copied[t] = Length
  /\ mut_' = [mut_ EXCEPT ![Lhs[t]] = NoOne, ![Rhs[t]] = NoOne]
  /\ pc' = [pc EXCEPT ![t] = "outside"]
  /\ first' = [first EXCEPT ![t] = Lhs[t]]
  /\ copied' = [copied EXCEPT ![t] = 0]
  /\ UNCHANGED data_

\* What a thread does once it is inside operator=.
Continue(t) ==
  \/ LockFirst(t)
  \/ TryLockSecond(t)
  \/ BackOff(t)
  \/ CopyElement(t)
  \/ Return(t)

Next == \E t \in Threads : Assign(t) \/ Continue(t)

Spec == Init /\ [][Next]_vars

\* A thread inside operator= runs on; nobody has to assign.
FairSpec == Spec /\ \A t \in Threads : WF_vars(Continue(t))

-----------------------------------------------------------------------------
\* Every variable has its type.
TypeOK ==
  /\ mut_ \in [Objects -> Threads \cup {NoOne}]
  /\ data_ \in [Objects -> [Index -> Objects]]
  /\ pc \in [Threads -> Locations]
  /\ first \in [Threads -> Objects]
  /\ copied \in [Threads -> 0 .. Length]

\* The objects whose mutexes a thread owns, by where it is.
Holds(t) ==
  CASE pc[t] \in {"trying", "backing_off"} -> {first[t]}
    [] pc[t] = "copying" -> {Lhs[t], Rhs[t]}
    [] OTHER -> {}

\* ds_safe_assign_test.cc:64: no circle of assignments waits for itself.  Who
\* is blocked waits for a thread that is inside operator= and can move.
NoDeadlock ==
  \A t \in Threads : \A o \in Awaited(t) :
    mut_[o] # NoOne =>
      \E u \in Threads : mut_[o] = u /\ pc[u] # "outside" /\ ~ Blocked(u)

\* The copy that is going on writes the object and reads the other side.
Writing(t, o) == pc[t] = "copying" /\ Lhs[t] = o

\* The value an object has, or is about to have, once its copy has begun.
ValueOf(o) ==
  IF \E t \in Threads : Writing(t, o)
    THEN data_[Rhs[CHOOSE t \in Threads : Writing(t, o)]][1]
    ELSE data_[o][1]

Abstract == INSTANCE Registers WITH
  Values <- Objects, value <- [o \in Objects |-> ValueOf(o)]

\* Nobody who gets the lock of an object sees a vector half of one value and
\* half of another.
Whole ==
  \A o \in Objects :
    (\A t \in Threads : ~ Writing(t, o)) => \A i, j \in Index : data_[o][i] = data_[o][j]

\* lock() has one of the two different sides in hand.
SidesAgree ==
  \A t \in Threads :
    /\ first[t] \in {Lhs[t], Rhs[t]}
    /\ pc[t] # "outside" => Lhs[t] # Rhs[t]

\* A mutex has the owner that the places of the threads say.
OwnersAgree == \A t \in Threads, o \in Objects : mut_[o] = t <=> o \in Holds(t)

\* The elements copied so far are those of the other side.
CopyAgrees ==
  \A t \in Threads :
    IF pc[t] = "copying"
      THEN \A i \in 1 .. copied[t] : data_[Lhs[t]][i] = data_[Rhs[t]][i]
      ELSE copied[t] = 0

\* The inductive invariant.
IndInv == TypeOK /\ SidesAgree /\ OwnersAgree /\ CopyAgrees /\ Whole

\* Assignments that overlap in time are as if done one after the other, each
\* in one step: operator= is thread-safe.
ImplementsRegisters == Abstract!Spec

\* An assignment that nobody disturbs any more returns, that of an object to
\* itself too (which must not lock one mutex twice).
AloneReturns ==
  \A t \in Threads :
    <>[](\A u \in Threads \ {t} : pc[u] = "outside") => []<>(pc[t] = "outside")
=============================================================================
