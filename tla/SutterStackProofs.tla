-------------------------- MODULE SutterStackProofs -------------------------
(***************************************************************************)
(* The class Stack (sutter_stack_test.cc) is exception safe for any number *)
(* of objects, any elements and any sizes: whatever throws, every array    *)
(* has one owner and every stack keeps its elements, but for the one that  *)
(* Pop_nosafe() loses when what it returns cannot be copied.               *)
(***************************************************************************)
EXTENDS SutterStack, SequenceTheorems, TLAPS

CallType ==
  [op : {"none", "construct", "assign", "grow", "store"},
   this : Stacks \cup {Null}, from : Stacks \cup {Null}, size : Nat,
   dest : Addresses \cup {Null}, copied : Nat, arg : Elements]

\* The members and the heap have their types, and a used part fits.
Typed ==
  /\ v_ \in [Stacks -> Addresses \cup {Null}]
  /\ vsize_ \in [Stacks -> Nat]
  /\ vused_ \in [Stacks -> Nat]
  /\ \A s \in Stacks : vused_[s] <= vsize_[s]
  /\ DOMAIN heap \subseteq Addresses
  /\ \A a \in DOMAIN heap : heap[a] \in Seq(Elements)
  /\ call \in CallType

\* An object's array has the size the object believes.
Sized == \A s \in Objects : Len(heap[v_[s]]) = vsize_[s]

\* Only NewCopy() has an array of its own, and a Push() that comes to its
\* element has a place for it.
Settled ==
  /\ ~ InNewCopy => call.dest = Null
  /\ call.op = "store" =>
       /\ call.this \in Objects
       /\ vused_[call.this] < vsize_[call.this]
       /\ call.arg \in Values

\* In NewCopy() the array to copy from is an object's, the new one is large
\* enough, and the object it is for is the one the call is about.
Planned ==
  InNewCopy =>
    /\ call.from \in Objects
    /\ call.this \in Stacks
    /\ call.copied <= vsize_[call.from]
    /\ vsize_[call.from] <= call.size
    /\ call.op = "construct" => call.this \notin Objects
    /\ call.op = "assign" => call.this \in Objects /\ call.this # call.from
    /\ call.op = "grow" => /\ call.this = call.from
                           /\ vused_[call.this] < call.size
                           /\ call.arg \in Values

\* What has been copied so far is equal to the original.
Copied ==
  InNewCopy =>
    /\ call.dest = Null => call.copied = 0
    /\ call.dest # Null =>
         /\ Len(heap[call.dest]) = call.size
         /\ \A i \in 1 .. call.copied : heap[call.dest][i] = heap[v_[call.from]][i]

\* What a caller is told of the last call.
Reported ==
  ended # NoneEnded => ended.this \in Stacks /\ ended.exit \in {"returned", "threw"}

IndInv == Typed /\ Sized /\ OneOwner /\ Settled /\ Planned /\ Copied

-----------------------------------------------------------------------------
\* What the invariant says of an object.
LEMMA ObjectFacts ==
  ASSUME IndInv, NEW s \in Objects
  PROVE  /\ s \in Stacks
         /\ v_[s] \in DOMAIN heap /\ v_[s] \in Addresses /\ v_[s] # Null
         /\ v_[s] # call.dest
         /\ heap[v_[s]] \in Seq(Elements)
         /\ Len(heap[v_[s]]) = vsize_[s]
         /\ vsize_[s] \in Nat /\ vused_[s] \in Nat /\ vused_[s] <= vsize_[s]
BY DEF IndInv, Typed, Sized, OneOwner, Objects

\* What it says of the array of NewCopy().
LEMMA DestFacts ==
  ASSUME IndInv, InNewCopy, call.dest # Null
  PROVE  /\ call.dest \in DOMAIN heap /\ call.dest \in Addresses
         /\ heap[call.dest] \in Seq(Elements)
         /\ Len(heap[call.dest]) = call.size
BY DEF IndInv, Typed, OneOwner, Copied

\* The types of a call's parts.
LEMMA CallFacts ==
  ASSUME IndInv
  PROVE  /\ call.op \in {"none", "construct", "assign", "grow", "store"}
         /\ call.this \in Stacks \cup {Null} /\ call.from \in Stacks \cup {Null}
         /\ call.size \in Nat /\ call.copied \in Nat
         /\ call.dest \in Addresses \cup {Null}
         /\ call.arg \in Elements
BY DEF IndInv, Typed, CallType

\* new T[size]
LEMMA NewProperties ==
  ASSUME NEW a, a \notin DOMAIN heap, NEW size \in Nat
  PROVE  /\ DOMAIN New(a, size) = DOMAIN heap \cup {a}
         /\ \A x \in DOMAIN heap : New(a, size)[x] = heap[x]
         /\ New(a, size)[a] \in Seq(Elements)
         /\ Len(New(a, size)[a]) = size
<1> DEFINE d == [i \in 1 .. size |-> Default]
<1>1. d \in Seq(Elements) /\ Len(d) = size
  BY DEF Elements
<1>2. New(a, size)[a] = d
  BY DEF New
<1> HIDE DEF d
<1>3. /\ DOMAIN New(a, size) = DOMAIN heap \cup {a}
      /\ \A x \in DOMAIN heap : New(a, size)[x] = heap[x]
  BY DEF New
<1> QED
  BY <1>1, <1>2, <1>3

\* delete[]
LEMMA DeleteProperties ==
  ASSUME NEW a
  PROVE  /\ DOMAIN Delete(a) = DOMAIN heap \ {a}
         /\ \A x \in DOMAIN heap \ {a} : Delete(a)[x] = heap[x]
BY DEF Delete, Restrict

\* An element of an array is assigned.
LEMMA WriteProperties ==
  ASSUME NEW d \in DOMAIN heap, heap[d] \in Seq(Elements),
         NEW i \in 1 .. Len(heap[d]), NEW x \in Elements
  PROVE  LET h == [heap EXCEPT ![d][i] = x]
         IN  /\ DOMAIN h = DOMAIN heap
             /\ \A y \in DOMAIN heap : y # d => h[y] = heap[y]
             /\ h[d] \in Seq(Elements)
             /\ Len(h[d]) = Len(heap[d])
             /\ \A j \in 1 .. Len(heap[d]) : h[d][j] = IF j = i THEN x ELSE heap[d][j]
<1> DEFINE h == [heap EXCEPT ![d][i] = x]
           w == [heap[d] EXCEPT ![i] = x]
<1>1. /\ DOMAIN h = DOMAIN heap
      /\ \A y \in DOMAIN heap : y # d => h[y] = heap[y]
      /\ h[d] = w
  OBVIOUS
<1>2. /\ w \in Seq(Elements)
      /\ Len(w) = Len(heap[d])
      /\ \A j \in 1 .. Len(heap[d]) : w[j] = IF j = i THEN x ELSE heap[d][j]
  BY ExceptSeq
<1> HIDE DEF h, w
<1>3. /\ DOMAIN h = DOMAIN heap
      /\ \A y \in DOMAIN heap : y # d => h[y] = heap[y]
      /\ h[d] \in Seq(Elements)
      /\ Len(h[d]) = Len(heap[d])
      /\ \A j \in 1 .. Len(heap[d]) : h[d][j] = IF j = i THEN x ELSE heap[d][j]
  BY <1>1, <1>2
<1> QED
  BY <1>3 DEF h

-----------------------------------------------------------------------------
\* No object, no array, no call.
LEMMA InitIndInv == Init => IndInv
<1> SUFFICES ASSUME Init PROVE IndInv
  OBVIOUS
<1>1. /\ v_ = [s \in Stacks |-> Null] /\ vsize_ = [s \in Stacks |-> 0] /\ vused_ = [s \in Stacks |-> 0]
      /\ DOMAIN heap = {} /\ call = Idle
  BY DEF Init
<1>2. Objects = {}
  BY <1>1 DEF Objects
<1>3. /\ call.op = "none" /\ call.dest = Null /\ call \in CallType /\ ~ InNewCopy
  BY <1>1 DEF Idle, CallType, Elements, InNewCopy
<1>4. Typed
  BY <1>1, <1>3 DEF Typed
<1>5. OneOwner
  BY <1>1, <1>2, <1>3 DEF OneOwner
<1> QED
  BY <1>2, <1>3, <1>4, <1>5 DEF IndInv, Sized, Settled, Planned, Copied

\* No call both returns and throws.
LEMMA ExitsDiffer ==
  ASSUME NEW s, NEW op, Returns(op, s)
  PROVE  ~ Throws(op, s)
BY DEF Returns, Throws

\* Stack()
LEMMA ConstructStep ==
  ASSUME IndInv, NEW s \in Stacks, Construct(s), Returns("create", s)
  PROVE  IndInv'
<1>1. PICK a \in Addresses \ DOMAIN heap :
        heap' = New(a, InitialSize) /\ SetMembers(s, a, InitialSize, 0)
  BY ExitsDiffer DEF Construct
<1>2. /\ call = Idle /\ call' = call /\ s \notin Objects
      /\ call.op = "none" /\ call.dest = Null /\ ~ InNewCopy /\ ~ InNewCopy'
  BY DEF Construct, Idle, InNewCopy
<1>3. /\ v_' = [v_ EXCEPT ![s] = a]
      /\ vsize_' = [vsize_ EXCEPT ![s] = InitialSize]
      /\ vused_' = [vused_ EXCEPT ![s] = 0]
  BY <1>1 DEF SetMembers
<1>4. /\ DOMAIN heap' = DOMAIN heap \cup {a}
      /\ \A x \in DOMAIN heap : heap'[x] = heap[x]
      /\ heap'[a] \in Seq(Elements)
      /\ Len(heap'[a]) = InitialSize
  <2>1. a \notin DOMAIN heap /\ InitialSize \in Nat /\ heap' = New(a, InitialSize)
    BY <1>1, SizeAssumption
  <2> QED
    BY <2>1, NewProperties
<1>5. a # Null
  BY DistinctAssumption
<1>6. Typed'
  BY <1>2, <1>3, <1>4, SizeAssumption DEF IndInv, Typed
<1>7. /\ Objects' = Objects \cup {s}
      /\ v_'[s] = a
      /\ \A u \in Objects : v_'[u] = v_[u] /\ vsize_'[u] = vsize_[u]
  BY <1>2, <1>3, <1>5 DEF IndInv, Typed, Objects
<1>8. \A u \in Objects : v_[u] \in DOMAIN heap /\ v_[u] # a
  BY ObjectFacts
<1>9. Sized'
  BY <1>3, <1>4, <1>7, <1>8 DEF IndInv, Typed, Sized
<1>10. OneOwner'
  BY <1>2, <1>4, <1>5, <1>7, <1>8 DEF IndInv, OneOwner
<1> QED
  BY <1>2, <1>6, <1>9, <1>10 DEF IndInv, Settled, Planned, Copied

\* ~Stack()
LEMMA DestroyStep ==
  ASSUME IndInv, NEW s \in Stacks, Destroy(s)
  PROVE  IndInv'
<1>1. /\ call = Idle /\ call' = call /\ s \in Objects
      /\ call.op = "none" /\ call.dest = Null /\ ~ InNewCopy /\ ~ InNewCopy'
      /\ heap' = Delete(v_[s])
  BY DEF Destroy, Idle, InNewCopy
<1>2. /\ v_' = [v_ EXCEPT ![s] = Null]
      /\ vsize_' = [vsize_ EXCEPT ![s] = 0]
      /\ vused_' = [vused_ EXCEPT ![s] = 0]
  BY DEF Destroy, SetMembers
<1>3. /\ DOMAIN heap' = DOMAIN heap \ {v_[s]}
      /\ \A x \in DOMAIN heap \ {v_[s]} : heap'[x] = heap[x]
  BY <1>1, DeleteProperties
<1>4. Typed'
  BY <1>1, <1>2, <1>3 DEF IndInv, Typed
<1>5. /\ Objects' = Objects \ {s}
      /\ \A u \in Objects' : v_'[u] = v_[u] /\ vsize_'[u] = vsize_[u]
  BY <1>1, <1>2 DEF IndInv, Typed, Objects
<1>6. \A u \in Objects : v_[u] \in DOMAIN heap /\ (u # s => v_[u] # v_[s])
  BY <1>1, ObjectFacts DEF IndInv, OneOwner
<1>7. Sized'
  BY <1>3, <1>5, <1>6 DEF IndInv, Sized
<1>8. OneOwner'
  BY <1>1, <1>3, <1>5, <1>6 DEF IndInv, OneOwner
<1> QED
  BY <1>1, <1>4, <1>7, <1>8 DEF IndInv, Settled, Planned, Copied

\* A call that enters NewCopy(), which has no array yet.
LEMMA EnterStep ==
  ASSUME IndInv, UNCHANGED <<members, heap>>,
         NEW op \in {"construct", "assign", "grow"}, NEW this \in Stacks, NEW from \in Objects,
         NEW size \in Nat, NEW x \in Elements, EnterNewCopy(op, this, from, size, x),
         call.dest = Null,
         vsize_[from] <= size,
         op = "construct" => this \notin Objects,
         op = "assign" => this \in Objects /\ this # from,
         op = "grow" => this = from /\ vused_[this] < size /\ x \in Values
  PROVE  IndInv'
<1>1. UNCHANGED <<v_, vsize_, vused_, heap>> /\ Objects' = Objects
  BY DEF members, Objects
<1>2. /\ call'.op = op /\ call'.this = this /\ call'.from = from /\ call'.size = size
      /\ call'.dest = Null /\ call'.copied = 0 /\ call'.arg = x
      /\ call' \in CallType
  BY DEF EnterNewCopy, CallType, Objects
<1>3. InNewCopy' /\ call'.op # "store"
  BY <1>2 DEF InNewCopy
<1>4. Typed' /\ Sized'
  BY <1>1, <1>2 DEF IndInv, Typed, Sized
<1>5. OneOwner'
  BY <1>1, <1>2 DEF IndInv, OneOwner
<1>6. vsize_[from] \in Nat
  BY ObjectFacts
<1>7. Planned' /\ Settled' /\ Copied'
  BY <1>1, <1>2, <1>3, <1>6 DEF Planned, Settled, Copied
<1> QED
  BY <1>4, <1>5, <1>7 DEF IndInv

\* No call.
LEMMA IdleFacts ==
  Idle \in CallType /\ Idle.op = "none" /\ Idle.dest = Null
BY DEF Idle, CallType, Elements

\* A Push() that has come to its element.
LEMMA StoreFacts ==
  ASSUME NEW s \in Stacks, NEW t \in Values
  PROVE  LET c == [Idle EXCEPT !.op = "store", !.this = s, !.arg = t]
         IN  c \in CallType /\ c.op = "store" /\ c.dest = Null /\ c.this = s /\ c.arg = t
BY DEF Idle, CallType, Elements

\* A call that ends, or is a Push() that has a place for its element.
LEMMA SettleStep ==
  ASSUME IndInv, UNCHANGED <<members, heap>>, call.dest = Null,
         call' \in CallType, call'.dest = Null, call'.op \in {"none", "store"},
         call'.op = "store" =>
           call'.this \in Objects /\ vused_[call'.this] < vsize_[call'.this] /\ call'.arg \in Values
  PROVE  IndInv'
<1>1. UNCHANGED <<v_, vsize_, vused_, heap>> /\ Objects' = Objects
  BY DEF members, Objects
<1>2. ~ InNewCopy'
  BY DEF InNewCopy
<1>3. Typed' /\ Sized'
  BY <1>1 DEF IndInv, Typed, Sized
<1>4. OneOwner'
  BY <1>1 DEF IndInv, OneOwner
<1> QED
  BY <1>1, <1>2, <1>3, <1>4 DEF IndInv, Settled, Planned, Copied

\* A call that comes and goes without a change.
LEMMA IdleStep ==
  ASSUME IndInv, UNCHANGED <<members, heap>>, call = Idle, call' = Idle
  PROVE  IndInv'
BY IdleFacts, SettleStep

\* The copy constructor.
LEMMA CopyConstructStep ==
  ASSUME IndInv, NEW s \in Stacks, NEW other \in Stacks, CopyConstruct(s, other)
  PROVE  IndInv'
<1>1. /\ call = Idle /\ call.dest = Null /\ s \notin Objects /\ other \in Objects
      /\ EnterNewCopy("construct", s, other, vsize_[other], Default)
      /\ UNCHANGED <<members, heap>>
  BY DEF CopyConstruct, Idle
<1>2. vsize_[other] \in Nat /\ Default \in Elements
  BY <1>1, ObjectFacts DEF Elements
<1> QED
  BY <1>1, <1>2, EnterStep

\* operator=
LEMMA AssignStep ==
  ASSUME IndInv, NEW s \in Stacks, NEW other \in Stacks, Assign(s, other)
  PROVE  IndInv'
<1>1. /\ call = Idle /\ call.dest = Null /\ s \in Objects /\ other \in Objects
      /\ UNCHANGED <<members, heap>>
  BY DEF Assign, Idle
<1>2. vsize_[other] \in Nat /\ Default \in Elements
  BY <1>1, ObjectFacts DEF Elements
<1>3. CASE s # other
  <2>1. EnterNewCopy("assign", s, other, vsize_[other], Default)
    BY <1>3 DEF Assign
  <2> QED
    BY <1>1, <1>2, <1>3, <2>1, EnterStep
<1>4. CASE s = other
  <2>1. call' = Idle
    BY <1>4 DEF Assign
  <2> QED
    BY <1>1, <2>1, IdleStep
<1> QED
  BY <1>3, <1>4

\* Push() of a full stack enters NewCopy(), of another one has a place.
LEMMA PushStep ==
  ASSUME IndInv, NEW s \in Stacks, NEW t \in Values, Push(s, t)
  PROVE  IndInv'
<1>1. call = Idle /\ call.dest = Null /\ s \in Objects /\ UNCHANGED <<members, heap>>
  BY DEF Push, Idle
<1>2. vsize_[s] \in Nat /\ vused_[s] \in Nat /\ vused_[s] <= vsize_[s] /\ t \in Elements
  BY <1>1, ObjectFacts DEF Elements
<1>3. CASE vused_[s] = vsize_[s] /\ EnterNewCopy("grow", s, s, vsize_[s] * 2 + 1, t)
  <2>1. vsize_[s] * 2 + 1 \in Nat /\ vsize_[s] <= vsize_[s] * 2 + 1 /\ vused_[s] < vsize_[s] * 2 + 1
    BY <1>2, <1>3
  <2> QED
    BY <1>1, <1>2, <1>3, <2>1, EnterStep
<1>4. CASE vused_[s] # vsize_[s] /\ call' = [Idle EXCEPT !.op = "store", !.this = s, !.arg = t]
  <2>1. vused_[s] < vsize_[s]
    BY <1>2, <1>4
  <2> QED
    BY <1>1, <1>4, <2>1, StoreFacts, SettleStep
<1> QED
  BY <1>3, <1>4 DEF Push

\* --vused_
LEMMA ShortenStep ==
  ASSUME IndInv, NEW s \in Stacks, s \in Objects, call = Idle, Shorten(s), UNCHANGED <<v_, vsize_, heap, call>>
  PROVE  IndInv'
<1>1. /\ call = Idle /\ call' = call /\ s \in Objects /\ vused_[s] # 0
      /\ call.op = "none" /\ call.dest = Null /\ ~ InNewCopy /\ ~ InNewCopy'
      /\ vused_' = [vused_ EXCEPT ![s] = vused_[s] - 1]
      /\ UNCHANGED <<v_, vsize_, heap>>
  BY DEF Shorten, Idle, InNewCopy
<1>2. Objects' = Objects
  BY <1>1 DEF Objects
<1>3. vsize_[s] \in Nat /\ vused_[s] \in Nat /\ vused_[s] <= vsize_[s]
  BY <1>1, ObjectFacts
<1>4. vused_' \in [Stacks -> Nat] /\ \A u \in Stacks : vused_'[u] <= vsize_[u]
  BY <1>1, <1>3 DEF IndInv, Typed
<1>5. Typed' /\ Sized'
  BY <1>1, <1>2, <1>4 DEF IndInv, Typed, Sized
<1>6. OneOwner'
  BY <1>1, <1>2 DEF IndInv, OneOwner
<1> QED
  BY <1>1, <1>5, <1>6 DEF IndInv, Settled, Planned, Copied

Popping(s) == Pop(s) \/ Pop_better_but(s) \/ Pop_nosafe(s)

\* What the three popping functions have in common.
LEMMA PopFacts ==
  ASSUME NEW s, Popping(s)
  PROVE  /\ s \in Objects /\ call = Idle
         /\ UNCHANGED <<v_, vsize_, heap, call>>
         /\ Shorten(s) \/ UNCHANGED vused_
BY DEF Popping, Pop, Pop_better_but, Pop_nosafe

\* Pop(), Pop_better_but(), Pop_nosafe()
LEMMA PopStep ==
  ASSUME IndInv, NEW s \in Stacks, Popping(s)
  PROVE  IndInv'
<1>1. CASE Shorten(s)
  BY <1>1, PopFacts, ShortenStep
<1>2. CASE UNCHANGED vused_
  <2>1. UNCHANGED <<members, heap>> /\ call = Idle /\ call' = Idle
    BY <1>2, PopFacts DEF members
  <2> QED
    BY <2>1, IdleStep
<1> QED
  BY <1>1, <1>2, PopFacts

-----------------------------------------------------------------------------
\* new in NewCopy(): the array belongs to the call.
LEMMA AllocateStep ==
  ASSUME IndInv, Allocate
  PROVE  IndInv'
<1>1. PICK a \in Addresses \ DOMAIN heap :
        heap' = New(a, call.size) /\ call' = [call EXCEPT !.dest = a]
  BY DEF Allocate
<1>2. InNewCopy /\ call.dest = Null /\ UNCHANGED <<v_, vsize_, vused_>> /\ Objects' = Objects
  BY DEF Allocate, members, Objects
<1>3. call \in CallType /\ call.size \in Nat
  BY DEF IndInv, Typed, CallType
<1>4. /\ DOMAIN heap' = DOMAIN heap \cup {a}
      /\ \A x \in DOMAIN heap : heap'[x] = heap[x]
      /\ heap'[a] \in Seq(Elements)
      /\ Len(heap'[a]) = call.size
  <2> DEFINE h == New(a, call.size)
  <2>1. /\ DOMAIN h = DOMAIN heap \cup {a}
        /\ \A x \in DOMAIN heap : h[x] = heap[x]
        /\ h[a] \in Seq(Elements)
        /\ Len(h[a]) = call.size
    BY <1>3, NewProperties
  <2> HIDE DEF h
  <2>2. heap' = h
    BY <1>1 DEF h
  <2> QED
    BY <2>1, <2>2
<1>5. /\ call' \in CallType
      /\ call'.op = call.op /\ call'.this = call.this /\ call'.from = call.from
      /\ call'.size = call.size /\ call'.dest = a /\ call'.copied = call.copied /\ call'.arg = call.arg
  BY <1>1, <1>3 DEF CallType
<1>6. a # Null /\ InNewCopy' /\ call'.op # "store"
  BY <1>2, <1>5, DistinctAssumption DEF InNewCopy
<1>7. \A u \in Objects : v_[u] \in DOMAIN heap /\ v_[u] # a
  BY ObjectFacts
<1>8. Typed'
  BY <1>2, <1>4, <1>5 DEF IndInv, Typed
<1>9. Sized'
  BY <1>2, <1>4, <1>7 DEF IndInv, Sized
<1>10. OneOwner'
  BY <1>2, <1>4, <1>5, <1>6, <1>7 DEF IndInv, OneOwner
<1>11. Planned' /\ Settled'
  BY <1>2, <1>5, <1>6 DEF IndInv, Planned, Settled
<1>12. Copied'
  <2>1. call.copied = 0
    BY <1>2 DEF IndInv, Copied
  <2> QED
    BY <2>1, <1>4, <1>5, <1>6 DEF Copied
<1> QED
  BY <1>8, <1>9, <1>10, <1>11, <1>12 DEF IndInv

\* An element copied into the call's own array.
LEMMA CopyElementStep ==
  ASSUME IndInv, CopyElement
  PROVE  IndInv'
<1> DEFINE i == call.copied + 1
           x == heap[v_[call.from]][i]
<1>1. /\ InNewCopy /\ call.dest # Null
      /\ i <= vsize_[call.from]
      /\ heap' = [heap EXCEPT ![call.dest][i] = x]
      /\ call' = [call EXCEPT !.copied = i]
      /\ UNCHANGED <<v_, vsize_, vused_>> /\ Objects' = Objects
  BY DEF CopyElement, members, Objects
<1>2. call \in CallType /\ call.size \in Nat /\ call.copied \in Nat
  BY DEF IndInv, Typed, CallType
<1>3. /\ call.from \in Objects /\ vsize_[call.from] <= call.size
      /\ vsize_[call.from] \in Nat
      /\ v_[call.from] \in DOMAIN heap /\ v_[call.from] # call.dest
      /\ heap[v_[call.from]] \in Seq(Elements) /\ Len(heap[v_[call.from]]) = vsize_[call.from]
  <2>1. call.from \in Objects /\ vsize_[call.from] <= call.size
    BY <1>1 DEF IndInv, Planned
  <2> QED
    BY <2>1, ObjectFacts
<1>4. /\ call.dest \in DOMAIN heap
      /\ heap[call.dest] \in Seq(Elements) /\ Len(heap[call.dest]) = call.size
  BY <1>1, DestFacts
<1>5. i \in Nat /\ i \in 1 .. vsize_[call.from] /\ i \in 1 .. call.size
  BY <1>1, <1>2, <1>3
<1>6. x \in Elements
  BY <1>3, <1>5, ElementOfSeq
<1>7. /\ call' \in CallType
      /\ call'.op = call.op /\ call'.this = call.this /\ call'.from = call.from
      /\ call'.size = call.size /\ call'.dest = call.dest /\ call'.copied = i /\ call'.arg = call.arg
  BY <1>1, <1>2, <1>5 DEF CallType
<1> HIDE DEF x
<1>8. /\ DOMAIN heap' = DOMAIN heap
      /\ \A y \in DOMAIN heap : y # call.dest => heap'[y] = heap[y]
      /\ heap'[call.dest] \in Seq(Elements)
      /\ Len(heap'[call.dest]) = call.size
      /\ \A j \in 1 .. call.size : heap'[call.dest][j] = IF j = i THEN x ELSE heap[call.dest][j]
  BY <1>1, <1>4, <1>5, <1>6, WriteProperties
<1> HIDE DEF i
<1>9. InNewCopy' /\ call'.op # "store"
  BY <1>1, <1>7 DEF InNewCopy
<1>10. \A u \in Objects : v_[u] \in DOMAIN heap /\ v_[u] # call.dest
  BY ObjectFacts
<1>11. Typed'
  BY <1>1, <1>7, <1>8 DEF IndInv, Typed
<1>12. Sized'
  BY <1>1, <1>8, <1>10 DEF IndInv, Sized
<1>13. OneOwner'
  BY <1>1, <1>7, <1>8 DEF IndInv, OneOwner
<1>14. Planned' /\ Settled'
  BY <1>1, <1>5, <1>7, <1>9 DEF IndInv, Planned, Settled
<1>15. Copied'
  <2> SUFFICES ASSUME NEW j \in 1 .. i
               PROVE  heap'[call.dest][j] = heap'[v_[call.from]][j]
    BY <1>1, <1>7, <1>8 DEF Copied
  <2>1. heap'[v_[call.from]] = heap[v_[call.from]]
    BY <1>3, <1>8
  <2>2. j \in 1 .. call.size /\ (j # i => j \in 1 .. call.copied)
    BY <1>2, <1>5 DEF i
  <2>3. j # i => heap[call.dest][j] = heap[v_[call.from]][j]
    BY <2>2, <1>1 DEF IndInv, Copied
  <2> QED
    BY <2>1, <2>2, <2>3, <1>8 DEF x
<1> QED
  BY <1>11, <1>12, <1>13, <1>14, <1>15 DEF IndInv

\* The handler around copy() deletes the call's array.
LEMMA CopyThrowsStep ==
  ASSUME IndInv, CopyThrows
  PROVE  IndInv'
<1>1. /\ InNewCopy /\ call.dest # Null
      /\ heap' = Delete(call.dest)
      /\ call' = Idle
      /\ UNCHANGED <<v_, vsize_, vused_>> /\ Objects' = Objects
  BY DEF CopyThrows, members, Objects
<1>2. /\ DOMAIN heap' = DOMAIN heap \ {call.dest}
      /\ \A y \in DOMAIN heap \ {call.dest} : heap'[y] = heap[y]
  BY <1>1, DeleteProperties
<1>3. call' \in CallType /\ call'.op = "none" /\ call'.dest = Null /\ ~ InNewCopy'
  BY <1>1, IdleFacts DEF InNewCopy
<1>4. \A u \in Objects : v_[u] \in DOMAIN heap /\ v_[u] # call.dest
  BY ObjectFacts
<1>5. Typed'
  BY <1>1, <1>2, <1>3 DEF IndInv, Typed
<1>6. Sized'
  BY <1>1, <1>2, <1>4 DEF IndInv, Sized
<1>7. OneOwner'
  <2>1. /\ DOMAIN heap = {v_[u] : u \in Objects} \cup {call.dest}
        /\ \A u, w \in Objects : u # w => v_[u] # v_[w]
    BY <1>1 DEF IndInv, OneOwner
  <2>2. DOMAIN heap' = {v_[u] : u \in Objects}
    BY <2>1, <1>2, <1>4
  <2>3. \A u \in Objects : v_[u] # Null
    BY DEF Objects
  <2> QED
    BY <2>1, <2>2, <2>3, <1>1, <1>3 DEF OneOwner
<1> QED
  BY <1>3, <1>5, <1>6, <1>7 DEF IndInv, Settled, Planned, Copied

\* What Replace changes: the object's array is the new one, nobody else's is
\* touched, and the old one is gone.
LEMMA ReplaceFacts ==
  ASSUME IndInv, Replace
  PROVE  /\ InNewCopy /\ call.dest # Null /\ call.copied = vsize_[call.from]
         /\ call.this \in Stacks /\ call.from \in Objects
         /\ v_' = [v_ EXCEPT ![call.this] = call.dest]
         /\ vsize_' = [vsize_ EXCEPT ![call.this] = call.size]
         /\ vused_' = [vused_ EXCEPT ![call.this] = vused_[call.from]]
         /\ DOMAIN heap' = DOMAIN heap \ {v_[call.this]}
         /\ \A y \in DOMAIN heap \ {v_[call.this]} : heap'[y] = heap[y]
         /\ v_[call.this] # call.dest
         /\ Objects' = Objects \cup {call.this}
<1>1. /\ InNewCopy /\ call.dest # Null /\ call.copied = vsize_[call.from]
      /\ heap' = Delete(v_[call.this])
      /\ v_' = [v_ EXCEPT ![call.this] = call.dest]
      /\ vsize_' = [vsize_ EXCEPT ![call.this] = call.size]
      /\ vused_' = [vused_ EXCEPT ![call.this] = vused_[call.from]]
  BY DEF Replace, SetMembers
<1>2. call.this \in Stacks /\ call.from \in Objects
  BY <1>1 DEF IndInv, Planned
<1>3. /\ DOMAIN heap' = DOMAIN heap \ {v_[call.this]}
      /\ \A y \in DOMAIN heap \ {v_[call.this]} : heap'[y] = heap[y]
  BY <1>1, DeleteProperties
<1>4. v_[call.this] # call.dest
  <2>1. CASE call.this \in Objects
    BY <2>1, ObjectFacts
  <2>2. CASE call.this \notin Objects
    BY <2>2, <1>1, <1>2 DEF Objects
  <2> QED
    BY <2>1, <2>2
<1>5. Objects' = Objects \cup {call.this}
  BY <1>1, <1>2 DEF IndInv, Typed, Objects
<1> QED
  BY <1>1, <1>2, <1>3, <1>4, <1>5

\* NewCopy() has returned.
LEMMA ReplaceStep ==
  ASSUME IndInv, Replace
  PROVE  IndInv'
<1> DEFINE s == call.this
<1>1. /\ InNewCopy /\ call.dest # Null /\ call.copied = vsize_[call.from]
      /\ s \in Stacks /\ call.from \in Objects
      /\ v_' = [v_ EXCEPT ![s] = call.dest]
      /\ vsize_' = [vsize_ EXCEPT ![s] = call.size]
      /\ vused_' = [vused_ EXCEPT ![s] = vused_[call.from]]
      /\ DOMAIN heap' = DOMAIN heap \ {v_[s]}
      /\ \A y \in DOMAIN heap \ {v_[s]} : heap'[y] = heap[y]
      /\ v_[s] # call.dest
      /\ Objects' = Objects \cup {s}
  BY ReplaceFacts
<1>2. /\ call.size \in Nat /\ call.dest \in Addresses \cup {Null}
  BY CallFacts
<1>3. /\ call.dest \in DOMAIN heap
      /\ Len(heap[call.dest]) = call.size
  BY <1>1, DestFacts
<1>4. /\ vused_[call.from] \in Nat /\ vsize_[call.from] \in Nat
      /\ vused_[call.from] <= vsize_[call.from] /\ vsize_[call.from] <= call.size
      /\ call.op = "grow" => s = call.from /\ vused_[s] < call.size /\ call.arg \in Values
  <2>1. /\ vsize_[call.from] <= call.size
        /\ call.op = "grow" => s = call.from /\ vused_[s] < call.size /\ call.arg \in Values
    BY <1>1 DEF IndInv, Planned
  <2> QED
    BY <1>1, <2>1, ObjectFacts
<1>5. /\ call' \in CallType /\ call'.dest = Null /\ call'.op \in {"none", "store"}
      /\ call'.op = "store" => call.op = "grow" /\ call'.this = s /\ call'.arg = call.arg
  <2>1. CASE call.op = "grow"
    <3>1. call' = [Idle EXCEPT !.op = "store", !.this = s, !.arg = call.arg]
      BY <2>1 DEF Replace
    <3>2. s \in Stacks /\ call.arg \in Values
      BY <2>1, <1>1, <1>4
    <3>3. LET c == [Idle EXCEPT !.op = "store", !.this = s, !.arg = call.arg]
          IN  c \in CallType /\ c.op = "store" /\ c.dest = Null /\ c.this = s /\ c.arg = call.arg
      BY <3>2, StoreFacts
    <3> QED
      BY <2>1, <3>1, <3>3, Zenon
  <2>2. CASE call.op # "grow"
    <3>1. call' = Idle
      BY <2>2 DEF Replace
    <3> QED
      BY <3>1, IdleFacts
  <2> QED
    BY <2>1, <2>2
<1>6. ~ InNewCopy'
  BY <1>5 DEF InNewCopy
<1>7. Typed'
  <2>1. v_' \in [Stacks -> Addresses \cup {Null}]
    BY <1>1, <1>2 DEF IndInv, Typed
  <2>2. vsize_' \in [Stacks -> Nat] /\ vused_' \in [Stacks -> Nat]
    BY <1>1, <1>2, <1>4 DEF IndInv, Typed
  <2>3. vused_[call.from] <= call.size
    BY <1>2, <1>4
  <2>4. \A u \in Stacks : vused_'[u] <= vsize_'[u]
    BY <1>1, <2>3 DEF IndInv, Typed
  <2>5. DOMAIN heap' \subseteq Addresses /\ \A a \in DOMAIN heap' : heap'[a] \in Seq(Elements)
    BY <1>1 DEF IndInv, Typed
  <2> QED
    BY <1>5, <2>1, <2>2, <2>4, <2>5 DEF Typed
<1>8. /\ v_'[s] = call.dest /\ vsize_'[s] = call.size /\ vused_'[s] = vused_[call.from]
      /\ \A u \in Objects' : u # s => u \in Objects /\ v_'[u] = v_[u] /\ vsize_'[u] = vsize_[u]
  BY <1>1 DEF IndInv, Typed, Objects
<1>9. \A u \in Objects : v_[u] \in DOMAIN heap /\ v_[u] # call.dest /\ (u # s => v_[u] # v_[s])
  <2>1. ASSUME NEW u \in Objects, u # s PROVE v_[u] # v_[s]
    <3>1. CASE s \in Objects
      BY <2>1, <3>1 DEF IndInv, OneOwner
    <3>2. CASE s \notin Objects
      BY <3>2, <1>1, ObjectFacts DEF Objects
    <3> QED
      BY <3>1, <3>2
  <2> QED
    BY <2>1, ObjectFacts
<1>10. Sized'
  BY <1>1, <1>3, <1>8, <1>9 DEF IndInv, Sized
<1>11. OneOwner'
  <2>1. DOMAIN heap = {v_[u] : u \in Objects} \cup {call.dest}
    BY <1>1 DEF IndInv, OneOwner
  <2>2. DOMAIN heap' \subseteq {v_'[u] : u \in Objects'}
    <3> SUFFICES ASSUME NEW a \in DOMAIN heap' PROVE \E u \in Objects' : v_'[u] = a
      OBVIOUS
    <3>1. CASE a = call.dest
      BY <3>1, <1>1, <1>8
    <3>2. CASE a # call.dest
      <4>1. PICK u \in Objects : v_[u] = a
        BY <3>2, <2>1, <1>1
      <4>2. u # s /\ u \in Objects'
        BY <4>1, <1>1
      <4> QED
        BY <4>1, <4>2, <1>8
    <3> QED
      BY <3>1, <3>2
  <2>3. \A u \in Objects' : v_'[u] \in DOMAIN heap'
    <3> SUFFICES ASSUME NEW u \in Objects' PROVE v_'[u] \in DOMAIN heap'
      OBVIOUS
    <3>1. CASE u = s
      BY <3>1, <1>1, <1>3, <1>8
    <3>2. CASE u # s
      BY <3>2, <1>1, <1>8, <1>9
    <3> QED
      BY <3>1, <3>2
  <2>4. \A u, w \in Objects' : u # w => v_'[u] # v_'[w]
    BY <1>8, <1>9 DEF IndInv, OneOwner
  <2>5. \A u \in Objects' : v_'[u] # Null
    BY DEF Objects
  <2> QED
    BY <2>2, <2>3, <2>4, <2>5, <1>5 DEF OneOwner
<1>12. Settled'
  BY <1>1, <1>4, <1>5, <1>8 DEF Settled
<1> QED
  BY <1>6, <1>7, <1>10, <1>11, <1>12 DEF IndInv, Planned, Copied

\* What Store changes: one element of the stack's own array, and the count.
LEMMA StoreChanges ==
  ASSUME IndInv, Store
  PROVE  LET s == call.this
             d == v_[s]
             i == vused_[s] + 1
         IN  /\ s \in Objects /\ call.arg \in Values /\ call.dest = Null /\ call' = Idle
             /\ i \in 1 .. vsize_[s]
             /\ vused_' = [vused_ EXCEPT ![s] = i] /\ UNCHANGED <<v_, vsize_>>
             /\ DOMAIN heap' = DOMAIN heap
             /\ \A y \in DOMAIN heap : y # d => heap'[y] = heap[y]
             /\ heap'[d] \in Seq(Elements)
             /\ Len(heap'[d]) = Len(heap[d])
             /\ \A j \in 1 .. Len(heap[d]) : heap'[d][j] = IF j = i THEN call.arg ELSE heap[d][j]
<1> DEFINE s == call.this
           d == v_[s]
           i == vused_[s] + 1
<1>1. /\ call.op = "store"
      /\ heap' = [heap EXCEPT ![d][i] = call.arg]
      /\ vused_' = [vused_ EXCEPT ![s] = i]
      /\ call' = Idle
      /\ UNCHANGED <<v_, vsize_>>
  BY DEF Store
<1>2. s \in Objects /\ vused_[s] < vsize_[s] /\ call.arg \in Values /\ call.dest = Null
  BY <1>1 DEF IndInv, Settled, InNewCopy
<1>3. /\ d \in DOMAIN heap /\ heap[d] \in Seq(Elements) /\ Len(heap[d]) = vsize_[s]
      /\ vsize_[s] \in Nat /\ vused_[s] \in Nat
  BY <1>2, ObjectFacts
<1>4. i \in 1 .. vsize_[s] /\ call.arg \in Elements
  BY <1>2, <1>3 DEF Elements
<1> HIDE DEF i, d
<1>5. /\ DOMAIN heap' = DOMAIN heap
      /\ \A y \in DOMAIN heap : y # d => heap'[y] = heap[y]
      /\ heap'[d] \in Seq(Elements)
      /\ Len(heap'[d]) = Len(heap[d])
      /\ \A j \in 1 .. Len(heap[d]) : heap'[d][j] = IF j = i THEN call.arg ELSE heap[d][j]
  BY <1>1, <1>3, <1>4, WriteProperties
<1> QED
  BY <1>1, <1>2, <1>4, <1>5 DEF i, d

\* The element of a Push() is stored.
LEMMA StoreStep ==
  ASSUME IndInv, Store
  PROVE  IndInv'
<1> DEFINE s == call.this
           d == v_[s]
           i == vused_[s] + 1
<1>1. /\ s \in Objects /\ call.arg \in Values /\ call.dest = Null /\ call' = Idle
      /\ i \in 1 .. vsize_[s]
      /\ vused_' = [vused_ EXCEPT ![s] = i] /\ UNCHANGED <<v_, vsize_>>
      /\ DOMAIN heap' = DOMAIN heap
      /\ \A y \in DOMAIN heap : y # d => heap'[y] = heap[y]
      /\ heap'[d] \in Seq(Elements)
      /\ Len(heap'[d]) = Len(heap[d])
  BY StoreChanges
<1>2. Objects' = Objects /\ s \in Stacks
  BY <1>1 DEF Objects
<1>3. call' \in CallType /\ call'.op = "none" /\ call'.dest = Null /\ ~ InNewCopy'
  BY <1>1, IdleFacts DEF InNewCopy
<1> HIDE DEF d
<1>4. \A a \in DOMAIN heap : heap'[a] \in Seq(Elements) /\ Len(heap'[a]) = Len(heap[a])
  BY <1>1 DEF IndInv, Typed
<1>5. vused_' \in [Stacks -> Nat] /\ \A u \in Stacks : vused_'[u] <= vsize_[u]
  BY <1>1, <1>2 DEF IndInv, Typed
<1> HIDE DEF i
<1>6. Typed'
  BY <1>1, <1>3, <1>4, <1>5 DEF IndInv, Typed
<1>7. Sized'
  BY <1>1, <1>2, <1>4, ObjectFacts DEF IndInv, Sized
<1>8. OneOwner'
  BY <1>1, <1>2, <1>3 DEF IndInv, OneOwner
<1> QED
  BY <1>3, <1>6, <1>7, <1>8 DEF IndInv, Settled, Planned, Copied
\* Every step preserves the invariant.
LEMMA NextIndInv == IndInv /\ [Next]_vars => IndInv'
<1> SUFFICES ASSUME IndInv, [Next]_vars PROVE IndInv'
  OBVIOUS
<1>1. CASE UNCHANGED vars
  BY <1>1 DEF vars, members, IndInv, Typed, Sized, OneOwner, Settled, Planned, Copied, InNewCopy, Objects
<1>2. ASSUME NEW s \in Stacks, Construct(s) \/ Destroy(s) \/ Popping(s) PROVE IndInv'
  <2>1. CASE Construct(s) /\ ~ Returns("create", s)
    <3>1. UNCHANGED <<members, heap>> /\ call = Idle /\ call' = Idle
      BY <2>1 DEF Construct
    <3> QED
      BY <3>1, IdleStep
  <2> QED
    BY <1>2, <2>1, ConstructStep, DestroyStep, PopStep
<1>3. ASSUME NEW s \in Stacks, NEW other \in Stacks, CopyConstruct(s, other) \/ Assign(s, other)
      PROVE  IndInv'
  BY <1>3, CopyConstructStep, AssignStep
<1>4. ASSUME NEW s \in Stacks, NEW t \in Values, Push(s, t) PROVE IndInv'
  BY <1>4, PushStep
<1>5. CASE AllocateThrows \/ StoreThrows
  <2>1. call.dest = Null /\ call' = Idle /\ UNCHANGED <<members, heap>>
    BY <1>5 DEF AllocateThrows, StoreThrows, IndInv, Settled, InNewCopy
  <2>2. call' \in CallType /\ call'.op = "none" /\ call'.dest = Null
    BY <2>1, IdleFacts
  <2> QED
    BY <2>1, <2>2, SettleStep
<1>6. CASE Allocate \/ CopyElement \/ CopyThrows \/ Replace \/ Store
  BY <1>6, AllocateStep, CopyElementStep, CopyThrowsStep, ReplaceStep, StoreStep
<1> QED
  BY <1>1, <1>2, <1>3, <1>4, <1>5, <1>6 DEF Next, Popping

\* The call that ended is one on an object.
LEMMA NextReported == IndInv /\ Reported /\ [Next]_vars => Reported'
<1> SUFFICES ASSUME IndInv, Reported, [Next]_vars PROVE Reported'
  OBVIOUS
<1>1. CASE UNCHANGED ended
  BY <1>1 DEF Reported, NoneEnded
<1>2. CASE ended' = NoneEnded
  BY <1>2 DEF Reported, NoneEnded
<1>3. ASSUME NEW s \in Stacks, NEW op, Returns(op, s) \/ Throws(op, s)
      PROVE  Reported'
  BY <1>3 DEF Returns, Throws, Reported
<1>4. ASSUME NEW s \in Stacks, Construct(s) \/ Destroy(s) \/ Popping(s)
      PROVE  Reported'
  BY <1>3, <1>4 DEF Construct, Destroy, Popping, Pop, Pop_better_but, Pop_nosafe
<1>5. ASSUME NEW s \in Stacks, NEW other \in Stacks, CopyConstruct(s, other) \/ Assign(s, other)
      PROVE  Reported'
  BY <1>2, <1>3, <1>5 DEF CopyConstruct, Assign, EnterNewCopy
<1>6. ASSUME NEW s \in Stacks, NEW t \in Values, Push(s, t)
      PROVE  Reported'
  BY <1>2, <1>6 DEF Push, EnterNewCopy
<1>7. CASE Allocate \/ CopyElement
  BY <1>1, <1>7 DEF Allocate, CopyElement
<1>8. CASE AllocateThrows \/ CopyThrows \/ Replace \/ Store \/ StoreThrows
  <2>1. call.this \in Stacks
    BY <1>8 DEF AllocateThrows, CopyThrows, Replace, Store, StoreThrows, IndInv, Planned, Settled, Objects
  <2> QED
    BY <1>1, <1>3, <1>8, <2>1 DEF AllocateThrows, CopyThrows, Replace, Store, StoreThrows
<1>9. CASE UNCHANGED vars
  BY <1>1, <1>9 DEF vars
<1> QED
  BY <1>4, <1>5, <1>6, <1>7, <1>8, <1>9 DEF Next, Popping

\* The invariant of the class Stack and of its heap.
THEOREM StackInvariant == Spec => []IndInv
BY InitIndInv, NextIndInv, PTL DEF Spec

\* Every variable has its type, every array has the size its object
\* believes, and its used part fits.
THEOREM StackTypeOK == Spec => []TypeOK
<1>1. Init => Reported
  BY DEF Init, Reported
<1>2. IndInv /\ Reported => TypeOK
  BY DEF IndInv, Typed, Sized, Reported, TypeOK, Objects
<1> QED
  BY <1>1, <1>2, StackInvariant, NextReported, PTL DEF Spec

\* Whatever throws, every live array has exactly one owner and every owner's
\* array is live: nothing leaks, dangles or is deleted twice.
THEOREM StackOneOwner == Spec => []OneOwner
<1>1. IndInv => OneOwner
  BY DEF IndInv
<1> QED
  BY <1>1, StackInvariant, PTL

-----------------------------------------------------------------------------
\* Two arrays that agree on their used parts hold the same elements.
LEMMA SamePrefix ==
  ASSUME NEW S, NEW a \in Seq(S), NEW b \in Seq(S), NEW n \in Nat, n <= Len(a), n <= Len(b),
         \A i \in 1 .. n : a[i] = b[i]
  PROVE  SubSeq(a, 1, n) = SubSeq(b, 1, n)
<1>1. Len(a) \in Nat /\ Len(b) \in Nat
  BY LenProperties
<1>2. \A i \in 1 .. n : a[i] \in S /\ b[i] \in S
  BY <1>1, ElementOfSeq
<1>3. /\ SubSeq(a, 1, n) \in Seq(S) /\ Len(SubSeq(a, 1, n)) = n
      /\ \A i \in 1 .. n : SubSeq(a, 1, n)[i] = a[i]
  BY <1>2, SubSeqProperties
<1>4. /\ SubSeq(b, 1, n) \in Seq(S) /\ Len(SubSeq(b, 1, n)) = n
      /\ \A i \in 1 .. n : SubSeq(b, 1, n)[i] = b[i]
  BY <1>2, SubSeqProperties
<1> QED
  BY <1>3, <1>4, SeqEqual

\* What an object holds is a sequence, and so not the mark of no object.
LEMMA ContentsType ==
  ASSUME IndInv, NEW s \in Objects
  PROVE  /\ Contents(s) = SubSeq(heap[v_[s]], 1, vused_[s])
         /\ Contents(s) \in Seq(Elements)
         /\ Len(Contents(s)) = vused_[s]
         /\ \A i \in 1 .. vused_[s] : Contents(s)[i] = heap[v_[s]][i]
         /\ Contents(s) # Null
<1>1. /\ heap[v_[s]] \in Seq(Elements) /\ Len(heap[v_[s]]) = vsize_[s]
      /\ vsize_[s] \in Nat /\ vused_[s] \in Nat /\ vused_[s] <= vsize_[s]
  BY ObjectFacts
<1>2. \A i \in 1 .. vused_[s] : heap[v_[s]][i] \in Elements
  BY <1>1, ElementOfSeq
<1>3. Contents(s) = SubSeq(heap[v_[s]], 1, vused_[s])
  BY DEF Contents
<1>4. /\ Contents(s) \in Seq(Elements)
      /\ Len(Contents(s)) = vused_[s]
      /\ \A i \in 1 .. vused_[s] : Contents(s)[i] = heap[v_[s]][i]
  BY <1>1, <1>2, <1>3, SubSeqProperties
<1> QED
  BY <1>3, <1>4, DistinctAssumption DEF Elements

\* An object that keeps its members and its array keeps what it holds.
LEMMA ContentsKept ==
  ASSUME NEW s \in Stacks, v_'[s] = v_[s], vused_'[s] = vused_[s],
         s \in Objects => heap'[v_[s]] = heap[v_[s]]
  PROVE  Contents(s)' = Contents(s)
BY DEF Contents, Objects

\* The objects that live are those that hold something.
LEMMA LiveObjects ==
  ASSUME IndInv
  PROVE  /\ Abstract!Live = Objects
         /\ \A s \in Stacks : Held[s] = Contents(s)
<1>1. \A s \in Stacks : s \in Objects <=> Contents(s) # Null
  BY ContentsType DEF Contents
<1> QED
  BY <1>1 DEF Abstract!Live, Held, Objects

\* A step that changes what one object holds sets it.
LEMMA SetContents ==
  ASSUME NEW s \in Stacks, NEW c, Contents(s)' = c,
         \A u \in Stacks : u # s => Contents(u)' = Contents(u)
  PROVE  Abstract!Set(s, c)
BY DEF Abstract!Set, Held

\* A step that changes what no object holds.
LEMMA NothingSet ==
  ASSUME \A u \in Stacks : Contents(u)' = Contents(u)
  PROVE  UNCHANGED Held
BY DEF Held
\* An object made with Stack() is empty.
LEMMA ConstructRefines ==
  ASSUME IndInv, IndInv', NEW s \in Stacks, Construct(s), Returns("create", s)
  PROVE  Abstract!Create(s)
<1>1. PICK a \in Addresses \ DOMAIN heap :
        heap' = New(a, InitialSize) /\ SetMembers(s, a, InitialSize, 0)
  BY ExitsDiffer DEF Construct
<1>2. /\ v_' = [v_ EXCEPT ![s] = a] /\ vused_' = [vused_ EXCEPT ![s] = 0]
      /\ s \notin Objects /\ a # Null
  BY <1>1, DistinctAssumption DEF Construct, SetMembers
<1>3. \A x \in DOMAIN heap : heap'[x] = heap[x]
  <2>1. a \notin DOMAIN heap /\ InitialSize \in Nat /\ heap' = New(a, InitialSize)
    BY <1>1, SizeAssumption
  <2> QED
    BY <2>1, NewProperties
<1>4. s \in Objects' /\ v_'[s] = a /\ vused_'[s] = 0
  BY <1>2 DEF IndInv, Typed, Objects
<1>5. Contents(s)' = <<>>
  BY <1>4, SubSeqEmpty DEF Contents
<1>6. ASSUME NEW u \in Stacks, u # s PROVE Contents(u)' = Contents(u)
  <2>1. v_'[u] = v_[u] /\ vused_'[u] = vused_[u]
    BY <1>2, <1>6 DEF IndInv, Typed
  <2>2. u \in Objects => heap'[v_[u]] = heap[v_[u]]
    BY <1>3, ObjectFacts
  <2> QED
    BY <2>1, <2>2, ContentsKept
<1> QED
  BY <1>2, <1>5, <1>6, LiveObjects, SetContents DEF Abstract!Create, Abstract!Ends, Returns

\* A destroyed object takes nothing with it but its own array.
LEMMA DestroyRefines ==
  ASSUME IndInv, NEW s \in Stacks, Destroy(s)
  PROVE  Abstract!Destroy(s)
<1>1. /\ s \in Objects
      /\ heap' = Delete(v_[s])
      /\ v_' = [v_ EXCEPT ![s] = Null] /\ vused_' = [vused_ EXCEPT ![s] = 0]
  BY DEF Destroy, SetMembers
<1>2. \A x \in DOMAIN heap \ {v_[s]} : heap'[x] = heap[x]
  BY <1>1, DeleteProperties
<1>3. Contents(s)' = Null
  BY <1>1 DEF IndInv, Typed, Contents, Objects
<1>4. ASSUME NEW u \in Stacks, u # s PROVE Contents(u)' = Contents(u)
  <2>1. v_'[u] = v_[u] /\ vused_'[u] = vused_[u]
    BY <1>1, <1>4 DEF IndInv, Typed
  <2>2. u \in Objects => v_[u] \in DOMAIN heap /\ v_[u] # v_[s]
    BY <1>1, <1>4, ObjectFacts DEF IndInv, OneOwner
  <2> QED
    BY <2>1, <2>2, <1>2, ContentsKept
<1> QED
  BY <1>1, <1>3, <1>4, LiveObjects, SetContents DEF Abstract!Destroy, Abstract!Ends, Destroy, Returns

\* --vused_ takes the last element.
LEMMA ShortenRefines ==
  ASSUME IndInv, IndInv', NEW s \in Stacks, s \in Objects, Shorten(s), UNCHANGED <<v_, vsize_, heap, call>>
  PROVE  Abstract!RemoveTop(s)
<1> DEFINE n == vused_[s]
           a == heap[v_[s]]
<1>1. /\ s \in Objects /\ n # 0
      /\ vused_' = [vused_ EXCEPT ![s] = n - 1]
      /\ UNCHANGED <<v_, heap>>
  BY DEF Shorten
<1>2. /\ a \in Seq(Elements) /\ Len(a) = vsize_[s] /\ vsize_[s] \in Nat /\ n \in Nat /\ n <= vsize_[s]
  BY <1>1, ObjectFacts
<1>3. /\ Contents(s) \in Seq(Elements) /\ Len(Contents(s)) = n
      /\ \A i \in 1 .. n : Contents(s)[i] = a[i]
  BY <1>1, ContentsType
<1>4. s \in Objects' /\ vused_'[s] = n - 1 /\ v_'[s] = v_[s]
  BY <1>1 DEF IndInv, Typed, Objects
<1>5. Contents(s)' = SubSeq(a, 1, n - 1)
  BY <1>1, <1>4 DEF Contents
<1>6. n - 1 \in Nat /\ n - 1 <= Len(a) /\ n - 1 <= Len(Contents(s))
      /\ \A i \in 1 .. n - 1 : a[i] = Contents(s)[i]
  BY <1>1, <1>2, <1>3
<1> HIDE DEF a
<1>7. SubSeq(a, 1, n - 1) = SubSeq(Contents(s), 1, n - 1)
  BY <1>2, <1>3, <1>6, SamePrefix
<1>8. Contents(s)' = SubSeq(Contents(s), 1, Len(Contents(s)) - 1)
  BY <1>3, <1>5, <1>7
<1>9. \A u \in Stacks : u # s => Contents(u)' = Contents(u)
  BY <1>1, ContentsKept DEF IndInv, Typed
<1>10. Contents(s) # <<>>
  BY <1>1, <1>3
<1>11. Abstract!Set(s, SubSeq(Contents(s), 1, Len(Contents(s)) - 1))
  BY <1>8, <1>9, SetContents
<1> QED
  BY <1>1, <1>10, <1>11, LiveObjects DEF Abstract!RemoveTop

\* A call that throws and changes no object.
LEMMA ThrowRefines ==
  ASSUME IndInv, NEW s \in Stacks, NEW op \in {"create", "construct", "assign", "push"} \cup Abstract!Pops,
         Throws(op, s), \A u \in Stacks : Contents(u)' = Contents(u),
         op \in {"create", "construct"} <=> s \notin Objects,
         op = "pop" => vused_[s] = 0
  PROVE  Abstract!Next
<1>1. op = "pop" => Held[s] = <<>>
  <2> SUFFICES ASSUME op = "pop" PROVE Held[s] = <<>>
    OBVIOUS
  <2>1. s \in Objects /\ vused_[s] = 0
    OBVIOUS
  <2>2. Contents(s) \in Seq(Elements) /\ Len(Contents(s)) = 0
    BY <2>1, ContentsType
  <2> QED
    BY <2>2, LiveObjects, EmptySeq
<1>2. UNCHANGED Held
  BY NothingSet
<1>3. op \in {"create", "construct"} <=> s \notin Abstract!Live
  BY LiveObjects
<1>4. Abstract!Throw(op, s)
  BY <1>1, <1>2, <1>3 DEF Abstract!Throw, Abstract!Ends, Throws
<1> QED
  BY <1>4 DEF Abstract!Next

\* Each of the popping functions removes the last element or throws; only
\* Pop_nosafe() does both.
LEMMA PopRefines ==
  ASSUME IndInv, IndInv', NEW s \in Stacks, Popping(s)
  PROVE  Abstract!Next
<1>1. s \in Objects /\ UNCHANGED <<v_, vsize_, heap, call>>
  BY PopFacts
<1>2. CASE Shorten(s) /\ \E op \in Abstract!Pops : Returns(op, s)
  <2>1. PICK op \in Abstract!Pops : Returns(op, s)
    BY <1>2
  <2>2. Abstract!Pop(op, s)
    BY <1>1, <1>2, <2>1, ShortenRefines DEF Abstract!Pop, Abstract!Ends, Returns
  <2> QED
    BY <2>2 DEF Abstract!Next
<1>3. CASE Shorten(s) /\ Throws("pop_nosafe", s)
  <2>1. Abstract!Lose(s)
    BY <1>1, <1>3, ShortenRefines DEF Abstract!Lose, Abstract!Ends, Throws
  <2> QED
    BY <2>1 DEF Abstract!Next
<1>4. CASE UNCHANGED vused_ /\ \E op \in Abstract!Pops : Throws(op, s) /\ (op = "pop" => vused_[s] = 0)
  <2>1. PICK op \in Abstract!Pops : Throws(op, s) /\ (op = "pop" => vused_[s] = 0)
    BY <1>4
  <2>2. \A u \in Stacks : Contents(u)' = Contents(u)
    BY <1>1, <1>4, ContentsKept
  <2>3. op \notin {"create", "construct"}
    BY <2>1 DEF Abstract!Pops
  <2> QED
    BY <1>1, <2>1, <2>2, <2>3, ThrowRefines
<1> QED
  BY <1>2, <1>3, <1>4 DEF Popping, Pop, Pop_better_but, Pop_nosafe, Abstract!Pops

\* NewCopy() without an owner is invisible: no object holds anything else.
LEMMA HiddenRefines ==
  ASSUME IndInv, Allocate \/ AllocateThrows \/ CopyElement \/ CopyThrows \/ StoreThrows,
         NEW u \in Stacks
  PROVE  Contents(u)' = Contents(u)
<1>1. UNCHANGED <<v_, vused_>>
  BY DEF Allocate, AllocateThrows, CopyElement, CopyThrows, StoreThrows, members
<1>2. ASSUME u \in Objects PROVE heap'[v_[u]] = heap[v_[u]]
  <2>1. v_[u] \in DOMAIN heap /\ v_[u] # call.dest
    BY <1>2, ObjectFacts
  <2>2. CASE Allocate
    <3>1. PICK a \in Addresses \ DOMAIN heap : heap' = New(a, call.size)
      BY <2>2 DEF Allocate
    <3> QED
      BY <2>1, <3>1 DEF New
  <2>3. CASE AllocateThrows \/ StoreThrows
    BY <2>3 DEF AllocateThrows, StoreThrows
  <2>4. CASE CopyElement
    BY <2>1, <2>4 DEF CopyElement
  <2>5. CASE CopyThrows
    <3>1. heap' = Delete(call.dest)
      BY <2>5 DEF CopyThrows
    <3> QED
      BY <2>1, <3>1, DeleteProperties
  <2> QED
    BY <2>2, <2>3, <2>4, <2>5
<1> QED
  BY <1>1, <1>2, ContentsKept

\* An exception in NewCopy() or at the element of a Push() ends the call.
LEMMA ExceptionRefines ==
  ASSUME IndInv, AllocateThrows \/ CopyThrows \/ StoreThrows
  PROVE  Abstract!Next
<1>1. PICK s \in Stacks : s = call.this
  BY DEF AllocateThrows, CopyThrows, StoreThrows, IndInv, Planned, Settled, Objects
<1>2. /\ Function \in {"construct", "assign", "push"}
      /\ Function = "construct" <=> s \notin Objects
  BY <1>1 DEF AllocateThrows, CopyThrows, StoreThrows, Function, InNewCopy, IndInv, Planned, Settled
<1>3. Throws(Function, s)
  BY <1>1 DEF AllocateThrows, CopyThrows, StoreThrows
<1>4. \A u \in Stacks : Contents(u)' = Contents(u)
  BY HiddenRefines
<1> HIDE DEF Function
<1> QED
  BY <1>2, <1>3, <1>4, ThrowRefines

\* When NewCopy() returns, the object holds what the other one holds; to
\* grow changes nothing.
LEMMA ReplaceRefines ==
  ASSUME IndInv, IndInv', Replace
  PROVE  [Abstract!Next]_(Abstract!stackVars)
<1>a. PICK s \in Stacks : s = call.this
  BY ReplaceFacts
<1>b. PICK o \in Stacks : o = call.from
  BY ReplaceFacts DEF Objects
<1>1. /\ InNewCopy /\ call.dest # Null /\ call.copied = vsize_[o]
      /\ s \in Stacks /\ o \in Objects
      /\ v_' = [v_ EXCEPT ![s] = call.dest]
      /\ vused_' = [vused_ EXCEPT ![s] = vused_[o]]
      /\ \A y \in DOMAIN heap \ {v_[s]} : heap'[y] = heap[y]
      /\ v_[s] # call.dest
      /\ s \in Objects'
  BY <1>a, <1>b, ReplaceFacts
<1>2. /\ heap[v_[o]] \in Seq(Elements) /\ Len(heap[v_[o]]) = vsize_[o]
      /\ vused_[o] \in Nat /\ vsize_[o] \in Nat /\ vused_[o] <= vsize_[o]
  BY <1>1, ObjectFacts
<1>3. /\ call.dest \in DOMAIN heap /\ heap[call.dest] \in Seq(Elements)
      /\ Len(heap[call.dest]) = call.size /\ call.size \in Nat
      /\ vsize_[o] <= call.size
      /\ \A i \in 1 .. vsize_[o] : heap[call.dest][i] = heap[v_[o]][i]
  BY <1>1, <1>b, DestFacts, CallFacts DEF IndInv, Planned, Copied
<1>4. v_'[s] = call.dest /\ vused_'[s] = vused_[o] /\ heap'[call.dest] = heap[call.dest]
  BY <1>1, <1>3 DEF IndInv, Typed
<1>5. Contents(s)' = SubSeq(heap[call.dest], 1, vused_[o])
  BY <1>1, <1>4 DEF Contents
<1>6. vused_[o] <= Len(heap[call.dest]) /\ vused_[o] <= Len(heap[v_[o]])
      /\ \A i \in 1 .. vused_[o] : heap[call.dest][i] = heap[v_[o]][i]
  BY <1>2, <1>3
<1>7. Contents(o) = SubSeq(heap[v_[o]], 1, vused_[o])
  BY <1>1, ContentsType
<1>8. Contents(s)' = Contents(o)
  BY <1>2, <1>3, <1>5, <1>6, <1>7, SamePrefix
<1>9. ASSUME NEW u \in Stacks, u # s PROVE Contents(u)' = Contents(u)
  <2>1. v_'[u] = v_[u] /\ vused_'[u] = vused_[u]
    BY <1>1, <1>9 DEF IndInv, Typed
  <2>2. ASSUME u \in Objects PROVE v_[u] \in DOMAIN heap /\ v_[u] # v_[s]
    <3>1. v_[u] \in DOMAIN heap /\ v_[u] # Null
      BY <2>2, ObjectFacts
    <3>2. CASE s \in Objects
      BY <3>1, <3>2, <2>2, <1>9 DEF IndInv, OneOwner
    <3>3. CASE s \notin Objects
      BY <3>1, <3>3, <1>1 DEF Objects
    <3> QED
      BY <3>2, <3>3
  <2> QED
    BY <2>1, <2>2, <1>1, ContentsKept
<1>10. Abstract!Set(s, Contents(o))
  BY <1>1, <1>8, <1>9, SetContents
<1>11. o \in Abstract!Live /\ Held[o] = Contents(o) /\ (s \in Abstract!Live <=> s \in Objects)
  BY <1>1, LiveObjects
<1>12. CASE call.op = "grow"
  <2>1. s = o /\ UNCHANGED ended
    BY <1>12, <1>a, <1>b DEF Replace, InNewCopy, IndInv, Planned
  <2>2. UNCHANGED Held
    BY <2>1, <1>8, <1>9, NothingSet
  <2> QED
    BY <2>1, <2>2 DEF Abstract!stackVars
<1>13. CASE call.op # "grow"
  <2>1. Returns(call.op, s)
    BY <1>13, <1>a DEF Replace
  <2>2. (call.op = "construct" /\ s \notin Objects) \/ (call.op = "assign" /\ s \in Objects)
    BY <1>13, <1>1, <1>a DEF InNewCopy, IndInv, Planned
  <2>3. Abstract!Construct(s, o) \/ Abstract!Assign(s, o)
    BY <2>1, <2>2, <1>10, <1>11 DEF Abstract!Construct, Abstract!Assign, Abstract!Ends, Returns
  <2> QED
    BY <2>3 DEF Abstract!Next
<1> QED
  BY <1>12, <1>13

\* The stored element is on top of what the object held.
LEMMA StoreRefines ==
  ASSUME IndInv, IndInv', Store
  PROVE  \E s \in Stacks, x \in Values : Abstract!Push(s, x)
<1>a. PICK s \in Stacks : s = call.this
  BY StoreChanges DEF Objects
<1>b. PICK x \in Values : x = call.arg
  BY StoreChanges
<1> DEFINE d == v_[s]
           n == vused_[s]
<1>1. /\ s \in Objects
      /\ n + 1 \in 1 .. vsize_[s]
      /\ vused_' = [vused_ EXCEPT ![s] = n + 1] /\ UNCHANGED <<v_, vsize_>>
      /\ DOMAIN heap' = DOMAIN heap
      /\ \A y \in DOMAIN heap : y # d => heap'[y] = heap[y]
      /\ heap'[d] \in Seq(Elements)
      /\ Len(heap'[d]) = Len(heap[d])
      /\ \A j \in 1 .. Len(heap[d]) : heap'[d][j] = IF j = n + 1 THEN x ELSE heap[d][j]
  BY <1>a, <1>b, StoreChanges
<1>2. /\ heap[d] \in Seq(Elements) /\ Len(heap[d]) = vsize_[s]
      /\ vsize_[s] \in Nat /\ n \in Nat
  BY <1>1, ObjectFacts
<1>3. /\ Contents(s) \in Seq(Elements) /\ Len(Contents(s)) = n
      /\ \A i \in 1 .. n : Contents(s)[i] = heap[d][i]
  BY <1>1, ContentsType
<1>4. s \in Objects' /\ vused_'[s] = n + 1 /\ v_'[s] = d /\ x \in Elements
  BY <1>1, <1>2 DEF IndInv, Typed, Objects, Elements
<1>5. Contents(s)' = SubSeq(heap'[d], 1, n + 1)
  BY <1>1, <1>4 DEF Contents
<1> DEFINE b == Append(Contents(s), x)
           c == SubSeq(heap'[d], 1, n + 1)
<1>6. /\ b \in Seq(Elements) /\ Len(b) = n + 1
      /\ \A i \in 1 .. n : b[i] = Contents(s)[i]
      /\ b[n + 1] = x
  BY <1>3, <1>4, AppendProperties
<1>7. \A i \in 1 .. n + 1 : heap'[d][i] \in Elements
  BY <1>1, <1>2, ElementOfSeq
<1>8. /\ c \in Seq(Elements) /\ Len(c) = n + 1
      /\ \A i \in 1 .. n + 1 : c[i] = heap'[d][i]
  BY <1>2, <1>7, SubSeqProperties
<1> HIDE DEF b, c
<1>9. ASSUME NEW i \in 1 .. n + 1 PROVE c[i] = b[i]
  <2>1. CASE i = n + 1
    BY <2>1, <1>1, <1>2, <1>6, <1>8
  <2>2. CASE i \in 1 .. n
    <3>1. i \in 1 .. Len(heap[d]) /\ i # n + 1
      BY <2>2, <1>1, <1>2
    <3> QED
      BY <2>2, <3>1, <1>1, <1>3, <1>6, <1>8
  <2> QED
    BY <2>1, <2>2, <1>2
<1>10. c = b
  BY <1>6, <1>8, <1>9, SeqEqual
<1>11. Contents(s)' = Append(Contents(s), x)
  BY <1>5, <1>10 DEF b, c
<1>12. ASSUME NEW u \in Stacks, u # s PROVE Contents(u)' = Contents(u)
  <2>1. v_'[u] = v_[u] /\ vused_'[u] = vused_[u]
    BY <1>1, <1>12 DEF IndInv, Typed
  <2>2. u \in Objects => v_[u] \in DOMAIN heap /\ v_[u] # d
    BY <1>1, <1>12, ObjectFacts DEF IndInv, OneOwner
  <2> QED
    BY <2>1, <2>2, <1>1, ContentsKept
<1>13. Abstract!Set(s, Append(Contents(s), x))
  BY <1>2, <1>11, <1>12, SetContents
<1>14. Returns("push", s)
  BY <1>a DEF Store
<1> QED
  BY <1>1, <1>2, <1>13, <1>14, LiveObjects DEF Abstract!Push, Abstract!Ends, Returns

\* At the start there is no object.
LEMMA InitRefines == Init => Abstract!Init
BY DEF Init, NoneEnded, Abstract!Init, Abstract!NoneEnded, Held, Contents, Objects

\* A call that enters NewCopy(), or goes on to its element, has changed
\* nothing yet.
LEMMA BeginRefines ==
  ASSUME UNCHANGED <<members, heap>>, ended' = NoneEnded
  PROVE  Abstract!Next
<1>1. UNCHANGED Held
  BY DEF members, Held, Contents, Objects
<1> QED
  BY <1>1 DEF NoneEnded, Abstract!NoneEnded, Abstract!Begin, Abstract!Next

\* Every step is one of the promised operations, or nothing.
LEMMA NextRefines ==
  IndInv /\ IndInv' /\ [Next]_vars => [Abstract!Next]_(Abstract!stackVars)
<1> SUFFICES ASSUME IndInv, IndInv', [Next]_vars
             PROVE  [Abstract!Next]_(Abstract!stackVars)
  OBVIOUS
<1>1. ASSUME NEW s \in Stacks, Construct(s)
      PROVE  Abstract!Next
  <2>1. CASE Returns("create", s)
    BY <1>1, <2>1, ConstructRefines DEF Abstract!Next
  <2>2. CASE ~ Returns("create", s)
    <3>1. Throws("create", s) /\ s \notin Objects /\ UNCHANGED <<members, heap>>
      BY <1>1, <2>2 DEF Construct
    <3>2. \A u \in Stacks : Contents(u)' = Contents(u)
      BY <3>1 DEF members, Contents, Objects
    <3> QED
      BY <3>1, <3>2, ThrowRefines
  <2> QED
    BY <2>1, <2>2
<1>2. ASSUME NEW s \in Stacks, Destroy(s) \/ Popping(s)
      PROVE  Abstract!Next
  BY <1>2, DestroyRefines, PopRefines DEF Abstract!Next
<1>3. ASSUME NEW s \in Stacks, NEW other \in Stacks, CopyConstruct(s, other)
      PROVE  Abstract!Next
  BY <1>3, BeginRefines DEF CopyConstruct, EnterNewCopy
<1>4. ASSUME NEW s \in Stacks, NEW other \in Stacks, Assign(s, other)
      PROVE  Abstract!Next
  <2>1. CASE s # other
    BY <1>4, <2>1, BeginRefines DEF Assign, EnterNewCopy
  <2>2. CASE s = other
    <3>1. Returns("assign", s) /\ s \in Objects /\ UNCHANGED <<members, heap>>
      BY <1>4, <2>2 DEF Assign
    <3>2. \A u \in Stacks : Contents(u)' = Contents(u)
      BY <3>1 DEF members, Contents, Objects
    <3>3. Abstract!Set(s, Contents(s))
      BY <3>2, SetContents
    <3>4. Abstract!Assign(s, s)
      BY <3>1, <3>3, LiveObjects DEF Abstract!Assign, Abstract!Ends, Returns
    <3> QED
      BY <3>4 DEF Abstract!Next
  <2> QED
    BY <2>1, <2>2
<1>5. ASSUME NEW s \in Stacks, NEW t \in Values, Push(s, t)
      PROVE  Abstract!Next
  BY <1>5, BeginRefines DEF Push, EnterNewCopy
<1>6. CASE Allocate \/ CopyElement
  <2>1. UNCHANGED Held
    BY <1>6, HiddenRefines, NothingSet
  <2> QED
    BY <1>6, <2>1 DEF Allocate, CopyElement, Abstract!stackVars
<1>7. CASE AllocateThrows \/ CopyThrows \/ StoreThrows
  BY <1>7, ExceptionRefines
<1>8. CASE Replace
  BY <1>8, ReplaceRefines
<1>9. CASE Store
  BY <1>9, StoreRefines DEF Abstract!Next
<1>10. CASE UNCHANGED vars
  BY <1>10 DEF vars, members, Held, Contents, Objects, Abstract!stackVars
<1> QED
  BY <1>1, <1>2, <1>3, <1>4, <1>5, <1>6, <1>7, <1>8, <1>9, <1>10 DEF Next, Popping

\* sutter_stack_test.cc:77-182: a call that returns has done all of its work
\* and a call that throws leaves every stack's elements as they were, for any
\* stacks, values and sizes, with one exception that the promise spells out:
\* Pop_nosafe() can throw with its element gone (line 149).
THEOREM StackImplementsValueStacks == Spec => ImplementsValueStacks
BY StackInvariant, InitRefines, NextRefines, PTL DEF Spec, ImplementsValueStacks, Abstract!Spec
=============================================================================
