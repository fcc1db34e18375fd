----------------------------- MODULE SutterStack ----------------------------
(***************************************************************************)
(* The class Stack of edu/talks/herb_sutter/sutter_stack_test.cc: a stack  *)
(* in an array of its own, replaced by a larger one when it is full, for   *)
(* elements whose constructor and copy may throw at any point.             *)
(*                                                                         *)
(* The caller is one thread, so one call is in progress at a time; it is   *)
(* followed through NewCopy() allocation by allocation and element by      *)
(* element.  The heap maps the addresses of live arrays to their elements. *)
(* What is pushed does not live in the stack it is pushed to.  `ended' is  *)
(* what the caller sees of the last call: which it was, and how it ended.  *)
(***************************************************************************)
EXTENDS Integers, Sequences, Functions

CONSTANTS
  Stacks,           \* the objects
  Values,           \* what is pushed
  Default,          \* what T() makes
  Addresses,        \* of arrays; one more than there are objects is enough
  Null,             \* no array, no object
  InitialSize,      \* 10 in the code
  MaxUsed           \* a bound on the elements of a stack

ASSUME SizeAssumption == InitialSize \in Nat /\ MaxUsed \in Nat

ASSUME DistinctAssumption ==
  /\ Default \notin Values
  /\ Null \notin Stacks \cup Addresses \cup Seq(Values \cup {Default})

VARIABLES
  v_, vsize_, vused_,   \* the members of each object
  heap,                 \* the live arrays
  call,                 \* the call in progress
  ended                 \* the call that ended last, until another is in progress

members == <<v_, vsize_, vused_>>

vars == <<members, heap, call, ended>>

Elements == Values \cup {Default}

\* The objects that have been constructed and not destroyed.
Objects == {s \in Stacks : v_[s] # Null}

New(a, size) == [x \in DOMAIN heap \cup {a} |-> IF x = a THEN [i \in 1 .. size |-> Default] ELSE heap[x]]

Delete(a) == Restrict(heap, DOMAIN heap \ {a})

Idle == [op |-> "none", this |-> Null, from |-> Null, size |-> 0, dest |-> Null, copied |-> 0, arg |-> Default]

\* No call has ended yet, or one is in progress.
NoneEnded == [op |-> "none", this |-> Null, exit |-> "none"]

\* A call of the member function op of s returns or throws.
Returns(op, s) == ended' = [op |-> op, this |-> s, exit |-> "returned"]

Throws(op, s) == ended' = [op |-> op, this |-> s, exit |-> "threw"]

Init ==
  /\ v_ = [s \in Stacks |-> Null]
  /\ vsize_ = [s \in Stacks |-> 0]
  /\ vused_ = [s \in Stacks |-> 0]
  /\ heap = [a \in {} |-> <<>>]
  /\ call = Idle
  /\ ended = NoneEnded

SetMembers(s, v, size, used) ==
  /\ v_' = [v_ EXCEPT ![s] = v]
  /\ vsize_' = [vsize_ EXCEPT ![s] = size]
  /\ vused_' = [vused_ EXCEPT ![s] = used]

-----------------------------------------------------------------------------
(***************************************************************************)
(* The calls.  Those that copy an array enter NewCopy() for op, to fill an *)
(* array of the given size for this from the array of another object.      *)
(***************************************************************************)
EnterNewCopy(op, this, from, size, x) ==
  /\ call' = [op |-> op, this |-> this, from |-> from, size |-> size,
              dest |-> Null, copied |-> 0, arg |-> x]
  /\ ended' = NoneEnded

\* Stack(): if new T[] throws, there is no object and no array.
Construct(s) ==
  /\ call = Idle
  /\ s \notin Objects
  /\ \/ /\ \E a \in Addresses \ DOMAIN heap :
             heap' = New(a, InitialSize) /\ SetMembers(s, a, InitialSize, 0)
        /\ Returns("create", s)
     \/ /\ Throws("create", s)
        /\ UNCHANGED <<members, heap>>
  /\ UNCHANGED call

Destroy(s) ==
  /\ call = Idle
  /\ s \in Objects
  /\ heap' = Delete(v_[s])
  /\ SetMembers(s, Null, 0, 0)
  /\ Returns("destroy", s)
  /\ UNCHANGED call

CopyConstruct(s, other) ==
  /\ call = Idle
  /\ s \notin Objects
  /\ other \in Objects
  /\ EnterNewCopy("construct", s, other, vsize_[other], Default)
  /\ UNCHANGED <<members, heap>>

\* operator=; an object assigned to itself is left alone.
Assign(s, other) ==
  /\ call = Idle
  /\ s \in Objects
  /\ other \in Objects
  /\ \/ s # other /\ EnterNewCopy("assign", s, other, vsize_[other], Default)
     \/ s = other /\ Returns("assign", s) /\ UNCHANGED call
  /\ UNCHANGED <<members, heap>>

\* Mutant: the array is never enlarged.
Push_NoGrowth(s, t) ==
  /\ call = Idle
  /\ s \in Objects
  /\ vused_[s] < MaxUsed
  /\ call' = [Idle EXCEPT !.op = "store", !.this = s, !.arg = t]
  /\ ended' = NoneEnded
  /\ UNCHANGED <<members, heap>>

Push(s, t) ==
  /\ call = Idle
  /\ s \in Objects
  /\ vused_[s] < MaxUsed
  /\ \/ /\ vused_[s] = vsize_[s]
        /\ EnterNewCopy("grow", s, s, vsize_[s] * 2 + 1, t)
     \/ /\ vused_[s] # vsize_[s]
        /\ call' = [Idle EXCEPT !.op = "store", !.this = s, !.arg = t]
        /\ ended' = NoneEnded
  /\ UNCHANGED <<members, heap>>

\* --vused_
Shorten(s) ==
  /\ vused_[s] # 0
  /\ vused_' = [vused_ EXCEPT ![s] = @ - 1]

\* Pop() hands nothing out: it throws only if the stack is empty.
Pop(s) ==
  /\ call = Idle
  /\ s \in Objects
  /\ \/ Shorten(s) /\ Returns("pop", s)
     \/ vused_[s] = 0 /\ Throws("pop", s) /\ UNCHANGED vused_
  /\ UNCHANGED <<v_, vsize_, heap, call>>

\* Mutant: the element is copied out after --vused_.
Pop_better_but_Late(s) ==
  /\ call = Idle
  /\ s \in Objects
  /\ \/ Shorten(s) /\ (Returns("pop_better_but", s) \/ Throws("pop_better_but", s))
     \/ vused_[s] = 0 /\ Throws("pop_better_but", s) /\ UNCHANGED vused_
  /\ UNCHANGED <<v_, vsize_, heap, call>>

\* Pop_better_but() assigns Top(s) to the caller's object first: on an empty
\* stack, and when that throws, nothing has changed.
Pop_better_but(s) ==
  /\ call = Idle
  /\ s \in Objects
  /\ \/ Shorten(s) /\ Returns("pop_better_but", s)
     \/ Throws("pop_better_but", s) /\ UNCHANGED vused_
  /\ UNCHANGED <<v_, vsize_, heap, call>>

\* Pop_nosafe() copies Top(s) to a local object first, and that to the caller
\* when it returns: a throw there comes after --vused_.
Pop_nosafe(s) ==
  /\ call = Idle
  /\ s \in Objects
  /\ \/ Shorten(s) /\ (Returns("pop_nosafe", s) \/ Throws("pop_nosafe", s))
     \/ Throws("pop_nosafe", s) /\ UNCHANGED vused_
  /\ UNCHANGED <<v_, vsize_, heap, call>>

\* v_[vused_], which Top() returns and the popping functions copy.
Top(s) ==
  LET v == heap[v_[s]] IN
    IF vused_[s] + 1 \in DOMAIN v THEN v[vused_[s] + 1] ELSE Null

-----------------------------------------------------------------------------
\* In NewCopy(), with or without its array.
InNewCopy == call.op \in {"construct", "assign", "grow"}

\* The member function in progress.
Function == IF call.op \in {"grow", "store"} THEN "push" ELSE call.op

Allocate ==
  /\ InNewCopy
  /\ call.dest = Null
  /\ \E a \in Addresses \ DOMAIN heap :
       heap' = New(a, call.size) /\ call' = [call EXCEPT !.dest = a]
  /\ UNCHANGED <<members, ended>>

\* new throws: an exception leaves NewCopy() and the call.
AllocateThrows ==
  /\ InNewCopy
  /\ call.dest = Null
  /\ call' = Idle
  /\ Throws(Function, call.this)
  /\ UNCHANGED <<members, heap>>

\* One element of copy(); it runs over the whole array, used or not.
CopyElement ==
  LET i == call.copied + 1 IN
    /\ InNewCopy
    /\ call.dest # Null
    /\ i <= vsize_[call.from]
    /\ heap' = [heap EXCEPT ![call.dest][i] = heap[v_[call.from]][i]]
    /\ call' = [call EXCEPT !.copied = i]
    /\ UNCHANGED <<members, ended>>

\* Mutant: no handler around copy().
CopyThrows_NoCatch ==
  /\ InNewCopy
  /\ call.dest # Null
  /\ call.copied < vsize_[call.from]
  /\ call' = Idle
  /\ Throws(Function, call.this)
  /\ UNCHANGED <<members, heap>>

\* An element's copy throws: the handler deletes the new array.
CopyThrows ==
  /\ InNewCopy
  /\ call.dest # Null
  /\ call.copied < vsize_[call.from]
  /\ heap' = Delete(call.dest)
  /\ call' = Idle
  /\ Throws(Function, call.this)
  /\ UNCHANGED members

\* NewCopy() returns: the old array is deleted, if there is one, and the
\* members take over the new one.  A Push() goes on to its element.
Replace ==
  /\ InNewCopy
  /\ call.dest # Null
  /\ call.copied = vsize_[call.from]
  /\ heap' = Delete(v_[call.this])
  /\ SetMembers(call.this, call.dest, call.size, vused_[call.from])
  /\ \/ /\ call.op = "grow"
        /\ call' = [Idle EXCEPT !.op = "store", !.this = call.this, !.arg = call.arg]
        /\ UNCHANGED ended
     \/ /\ call.op # "grow"
        /\ call' = Idle
        /\ Returns(call.op, call.this)

\* v_[vused_] = t; ++vused_
Store ==
  LET s == call.this IN
    /\ call.op = "store"
    /\ heap' = [heap EXCEPT ![v_[s]][vused_[s] + 1] = call.arg]
    /\ vused_' = [vused_ EXCEPT ![s] = @ + 1]
    /\ call' = Idle
    /\ Returns("push", s)
    /\ UNCHANGED <<v_, vsize_>>

\* The assignment of the element throws; the array stays as large as it is.
StoreThrows ==
  /\ call.op = "store"
  /\ call' = Idle
  /\ Throws(Function, call.this)
  /\ UNCHANGED <<members, heap>>

Next ==
  \/ \E s \in Stacks :
       \/ Construct(s)
       \/ Destroy(s)
       \/ \E other \in Stacks : CopyConstruct(s, other) \/ Assign(s, other)
       \/ \E t \in Values : Push(s, t)
       \/ Pop(s) \/ Pop_better_but(s) \/ Pop_nosafe(s)
  \/ Allocate \/ AllocateThrows
  \/ CopyElement \/ CopyThrows
  \/ Replace
  \/ Store \/ StoreThrows

Spec == Init /\ [][Next]_vars

-----------------------------------------------------------------------------
\* Every variable has its type; the array has the size the object believes
\* and its used part fits.
TypeOK ==
  /\ v_ \in [Stacks -> Addresses \cup {Null}]
  /\ DOMAIN heap \subseteq Addresses
  /\ \A a \in DOMAIN heap : heap[a] \in Seq(Elements)
  /\ \A s \in Stacks : vsize_[s] \in Nat /\ vused_[s] \in 0 .. vsize_[s]
  /\ \A s \in Objects : v_[s] \in DOMAIN heap => Len(heap[v_[s]]) = vsize_[s]
  /\ ended # NoneEnded => ended.this \in Stacks /\ ended.exit \in {"returned", "threw"}

\* Every live array has exactly one owner, an object or the NewCopy() in
\* progress, and every owner's array is live: whatever throws, nothing
\* leaks, dangles or is deleted twice.
OneOwner ==
  /\ DOMAIN heap = {v_[s] : s \in Objects} \cup ({call.dest} \ {Null})
  /\ \A s, u \in Objects : s # u => v_[s] # v_[u]
  /\ \A s \in Objects : v_[s] # call.dest

Contents(s) == IF s \in Objects THEN SubSeq(heap[v_[s]], 1, vused_[s]) ELSE Null

Held == [s \in Stacks |-> Contents(s)]

Abstract == INSTANCE ValueStacks WITH None <- Null, contents <- Held

\* sutter_stack_test.cc:77-182: a call that returns has done all of its work
\* and a call that throws leaves every stack's elements as they were, with
\* one exception: Pop_nosafe() can throw with its element gone (line 149).
ImplementsValueStacks == Abstract!Spec

\* Push() leaves vused_ as a "pointer to next", so the element on top, which
\* Top() and the popping functions hand out, is the last one pushed.
TopIsLastPushed ==
  \A s \in Objects : vused_[s] > 0 /\ call = Idle => Top(s) = Contents(s)[vused_[s]]
=============================================================================
