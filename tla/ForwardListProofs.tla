-------------------------- MODULE ForwardListProofs -------------------------
(***************************************************************************)
(* own_forward_list (crack_code_lists.cc) for any lists, elements and      *)
(* memory: every node has one owner whatever throws, get_nth_to_last()     *)
(* finds its node, and lists behave as sequences.                          *)
(***************************************************************************)
EXTENDS ForwardList, SequenceTheorems, TLAPS

Pointers == Addresses \cup {Null}

\* The types that the steps rely on.
Typed ==
  /\ DOMAIN nodes \subseteq Addresses
  /\ \A p \in DOMAIN nodes : nodes[p] \in [elem : Elems, next : Pointers]
  /\ lists \in [Objects -> [head_ : Pointers, tail_ : Pointers]]
  /\ call \in [op : {"none", "copy", "delete", "nth", "return"}, list : Objects,
               from : Objects, it : Pointers, p1 : Pointers, nth : Nat, left : Nat]
  /\ chain \in [Objects -> Seq(Addresses)]

\* The nodes and the lists they form.
Owned == /\ \A l \in Objects : Threaded(l)
         /\ Apart
         /\ Covered

\* The temporary list has nodes only while it is built or destroyed.
Spare == /\ call.op = "none" => call = NoCall
         /\ call.op = "copy" \/ Dying(Temporary) \/ chain[Temporary] = << >>

\* The copy so far is equal to the beginning of the original, and `it' is at
\* the first node not copied.
Copied ==
  call.op = "copy" =>
    /\ call.list \in Lists /\ call.from \in Lists
    /\ Len(chain[Temporary]) <= Len(chain[call.from])
    /\ call.it = IF Len(chain[Temporary]) = Len(chain[call.from]) THEN Null
                 ELSE chain[call.from][Len(chain[Temporary]) + 1]
    /\ \A i \in 1..Len(chain[Temporary]) :
         nodes[chain[Temporary][i]].elem = nodes[chain[call.from][i]].elem

\* p2 is at some node and p1 as far behind it as the window is open; until it is
\* open p1 is at the first.
Window ==
  call.op = "nth" =>
    /\ call.nth > 1 /\ call.left < call.nth
    /\ \E i \in 1..Len(chain[call.list]) :
         /\ i >= call.nth - call.left
         /\ call.left > 0 => i = call.nth - call.left
         /\ call.it = chain[call.list][i]
         /\ call.p1 = chain[call.list][i - (call.nth - 1 - call.left)]

IndInv == Typed /\ Owned /\ Spare /\ Copied /\ Window /\ NthFound

-----------------------------------------------------------------------------
\* What the invariant says of a list that nobody destroys.
LEMMA Ends ==
  ASSUME Typed, Owned, NEW l \in Objects, ~ Dying(l)
  PROVE  /\ chain[l] \in Seq(Addresses)
         /\ chain[l] = << >> <=> lists[l].head_ = Null
         /\ chain[l] # << >> => /\ lists[l].head_ = chain[l][1]
                                /\ lists[l].tail_ = chain[l][Len(chain[l])]
                                /\ Len(chain[l]) \in 1..Len(chain[l])
<1>1. chain[l] \in Seq(Addresses)
  BY DEF Typed
<1>2. Threaded(l)
  BY DEF Owned
<1>3. chain[l] # << >> => /\ Len(chain[l]) \in 1..Len(chain[l])
                          /\ chain[l][1] \in Addresses
  BY <1>1
<1> QED
  BY <1>1, <1>2, <1>3, ObjectsAssumption DEF Threaded, Entry

\* push_back(): a new node behind the last one.
LEMMA PushBackStep ==
  ASSUME Typed, Owned, NEW l \in Objects, NEW e \in Elems,
         call.op # "delete", call'.op # "delete", PushBack(l, e)
  PROVE  /\ Owned'
         /\ DOMAIN nodes' \subseteq Addresses
         /\ \A p \in DOMAIN nodes' : nodes'[p] \in [elem : Elems, next : Pointers]
         /\ lists' \in [Objects -> [head_ : Pointers, tail_ : Pointers]]
         /\ chain' \in [Objects -> Seq(Addresses)]
         /\ \A p \in DOMAIN nodes : p \in DOMAIN nodes' /\ nodes'[p].elem = nodes[p].elem
         /\ \E ptr \in Addresses : /\ chain' = [chain EXCEPT ![l] = Append(chain[l], ptr)]
                                   /\ nodes'[ptr].elem = e
<1>0. /\ chain \in [Objects -> Seq(Addresses)]
      /\ lists \in [Objects -> [head_ : Pointers, tail_ : Pointers]]
      /\ DOMAIN nodes \subseteq Addresses
      /\ \A p \in DOMAIN nodes : nodes[p] \in [elem : Elems, next : Pointers]
      /\ \A r \in Objects : chain[r] \in Seq(Addresses) /\ ~ Dying(r) /\ ~ Dying(r)'
  BY DEF Typed, Dying
<1> DEFINE s == chain[l]
<1>1. PICK ptr \in Addresses \ DOMAIN nodes :
        /\ IF lists[l].head_ # Null
             THEN /\ nodes' = Linked(Made(nodes, ptr, e), lists[l].tail_, ptr)
                  /\ lists' = [lists EXCEPT ![l] = [lists[l] EXCEPT !.tail_ = ptr]]
             ELSE /\ nodes' = Made(nodes, ptr, e)
                  /\ lists' = [lists EXCEPT ![l] = [head_ |-> ptr, tail_ |-> ptr]]
        /\ chain' = [chain EXCEPT ![l] = Append(s, ptr)]
  BY DEF PushBack
<1>2. /\ s \in Seq(Addresses)
      /\ s = << >> <=> lists[l].head_ = Null
      /\ s # << >> => /\ lists[l].head_ = s[1]
                      /\ lists[l].tail_ = s[Len(s)]
                      /\ Len(s) \in 1..Len(s)
                      /\ s[Len(s)] \in DOMAIN nodes
  BY <1>0, Ends DEF Owned, Threaded
<1>3. /\ DOMAIN nodes' = DOMAIN nodes \cup {ptr}
      /\ nodes'[ptr] = [elem |-> e, next |-> Null]
      /\ \A p \in DOMAIN nodes :
           /\ nodes'[p] \in [elem : Elems, next : Pointers]
           /\ nodes'[p].elem = nodes[p].elem
           /\ nodes'[p].next = IF s # << >> /\ p = s[Len(s)] THEN ptr ELSE nodes[p].next
  <2>1. CASE s = << >>
    <3>1. nodes' = Made(nodes, ptr, e)
      BY <1>1, <1>2, <2>1
    <3> QED
      BY <1>0, <2>1, <3>1 DEF Made
  <2>2. CASE s # << >>
    <3>1. nodes' = Linked(Made(nodes, ptr, e), s[Len(s)], ptr) /\ s[Len(s)] # ptr
      BY <1>1, <1>2, <2>2
    <3>2. DOMAIN nodes' = DOMAIN nodes \cup {ptr} /\ nodes'[ptr] = [elem |-> e, next |-> Null]
      BY <3>1 DEF Linked, Made
    <3>3. ASSUME NEW p \in DOMAIN nodes
          PROVE  nodes'[p] = IF p = s[Len(s)] THEN [nodes[p] EXCEPT !.next = ptr] ELSE nodes[p]
      BY <3>1 DEF Linked, Made
    <3> QED
      BY <1>0, <2>2, <3>2, <3>3 DEF Pointers
  <2> QED
    BY <2>1, <2>2
<1>4. /\ lists' \in [Objects -> [head_ : Pointers, tail_ : Pointers]]
      /\ lists'[l].head_ = IF s = << >> THEN ptr ELSE s[1]
      /\ lists'[l].tail_ = ptr
      /\ \A r \in Objects \ {l} : lists'[r] = lists[r]
  <2>1. ptr \in Pointers
    BY DEF Pointers
  <2>2. lists' = [lists EXCEPT ![l] = [head_ |-> IF s = << >> THEN ptr ELSE s[1], tail_ |-> ptr]]
    <3>1. CASE s = << >>
      BY <1>1, <1>2, <3>1
    <3>2. CASE s # << >>
      <4>1. lists[l] \in [head_ : Pointers, tail_ : Pointers]
        BY <1>0
      <4>2. [lists[l] EXCEPT !.tail_ = ptr] = [head_ |-> s[1], tail_ |-> ptr]
        BY <4>1, <3>2, <1>2
      <4> QED
        BY <4>2, <1>1, <1>2, <3>2
    <3> QED
      BY <3>1, <3>2
  <2>3. s # << >> => s[1] \in Pointers
    BY <1>2 DEF Pointers
  <2>4. [head_ |-> IF s = << >> THEN ptr ELSE s[1], tail_ |-> ptr] \in [head_ : Pointers, tail_ : Pointers]
    BY <2>1, <2>3
  <2> QED
    BY <2>2, <2>4, <1>0
<1>5. /\ chain' \in [Objects -> Seq(Addresses)]
      /\ chain'[l] = Append(s, ptr)
      /\ Len(chain'[l]) = Len(s) + 1
      /\ \A i \in 1..Len(s) : chain'[l][i] = s[i]
      /\ chain'[l][Len(s) + 1] = ptr
      /\ Len(s) \in Nat
      /\ \A r \in Objects \ {l} : chain'[r] = chain[r]
  <2>1. chain'[l] = Append(s, ptr) /\ \A r \in Objects \ {l} : chain'[r] = chain[r]
    BY <1>0, <1>1
  <2>2. Append(s, ptr) \in Seq(Addresses)
    BY <1>2
  <2>3. /\ Len(Append(s, ptr)) = Len(s) + 1
        /\ \A i \in 1..Len(s) : Append(s, ptr)[i] = s[i]
        /\ Append(s, ptr)[Len(s) + 1] = ptr
        /\ Len(s) \in Nat
    BY <1>2
  <2> QED
    BY <1>0, <1>1, <2>1, <2>2, <2>3
<1>6. ASSUME NEW r \in Objects, NEW i \in 1..Len(chain[r])
      PROVE  /\ chain[r][i] \in DOMAIN nodes
             /\ chain[r][i] # ptr
             /\ nodes[chain[r][i]].next = IF i = Len(chain[r]) THEN Null ELSE chain[r][i + 1]
  BY DEF Owned, Threaded
<1>7. ASSUME NEW r \in Objects
      PROVE  Threaded(r)'
  <2>1. CASE r = l
    <3>1. Entry(l)' = IF chain'[l] = << >> THEN Null ELSE chain'[l][1]
      <4>1. Entry(l)' = lists'[l].head_
        BY <1>0 DEF Entry
      <4>2. chain'[l] # << >>
        BY <1>5
      <4>3. chain'[l][1] = IF s = << >> THEN ptr ELSE s[1]
        BY <1>2, <1>5
      <4> QED
        BY <1>4, <4>1, <4>2, <4>3
    <3>2. ASSUME NEW i \in 1..Len(chain'[l])
          PROVE  /\ chain'[l][i] \in DOMAIN nodes'
                 /\ nodes'[chain'[l][i]].next =
                      IF i = Len(chain'[l]) THEN Null ELSE chain'[l][i + 1]
      <4>1. CASE i = Len(s) + 1
        BY <1>3, <1>5, <4>1
      <4>2. CASE i = Len(s)
        <5>1. i \in 1..Len(s) /\ s # << >>
          BY <4>2, <1>2, <1>5
        <5>2. chain'[l][i] = s[Len(s)] /\ chain'[l][i + 1] = ptr /\ i # Len(chain'[l])
          BY <4>2, <5>1, <1>5
        <5> QED
          BY <5>1, <5>2, <1>2, <1>3
      <4>3. CASE i < Len(s)
        <5>1. /\ i \in 1..Len(s) /\ i + 1 \in 1..Len(s) /\ i # Len(chain'[l])
              /\ i # Len(s) /\ Len(s) \in 1..Len(s)
          BY <4>3, <1>5
        <5>2. chain'[l][i] = s[i] /\ chain'[l][i + 1] = s[i + 1]
          BY <5>1, <1>5
        <5>3. s[i] # s[Len(s)]
          BY <5>1 DEF Owned, Apart
        <5>4. s[i] \in DOMAIN nodes /\ nodes[s[i]].next = s[i + 1]
          BY <5>1, <1>6
        <5> QED
          BY <5>1, <5>2, <5>3, <5>4, <1>3
      <4> QED
        BY <4>1, <4>2, <4>3, <1>5
    <3>3. lists'[l].tail_ = chain'[l][Len(chain'[l])] /\ chain'[l] # << >>
      BY <1>4, <1>5
    <3> QED
      BY <2>1, <3>1, <3>2, <3>3 DEF Threaded
  <2>2. CASE r # l
    <3>1. chain'[r] = chain[r] /\ lists'[r] = lists[r] /\ Entry(r)' = Entry(r)
      BY <2>2, <1>0, <1>4, <1>5 DEF Entry
    <3>2. ASSUME NEW i \in 1..Len(chain[r])
          PROVE  /\ chain[r][i] \in DOMAIN nodes'
                 /\ nodes'[chain[r][i]].next = nodes[chain[r][i]].next
      <4>1. chain[r][i] \in DOMAIN nodes
        BY <1>6
      <4>2. s # << >> => chain[r][i] # s[Len(s)]
        BY <2>2, <1>2 DEF Owned, Apart
      <4> QED
        BY <4>1, <4>2, <1>3
    <3>3. Threaded(r)
      BY DEF Owned
    <3> QED
      BY <3>1, <3>2, <3>3, <1>0 DEF Threaded
  <2> QED
    BY <2>1, <2>2
<1>8. Apart'
  <2> SUFFICES ASSUME NEW r \in Objects, NEW q \in Objects,
                      NEW i \in 1..Len(chain'[r]), NEW j \in 1..Len(chain'[q]),
                      chain'[r][i] = chain'[q][j]
               PROVE  r = q /\ i = j
    BY DEF Apart
  <2>1. ASSUME NEW o \in Objects, NEW k \in 1..Len(chain'[o])
        PROVE  \/ o = l /\ k = Len(s) + 1 /\ chain'[o][k] = ptr
               \/ k \in 1..Len(chain[o]) /\ chain'[o][k] = chain[o][k] /\ chain[o][k] # ptr
    <3>1. CASE o = l
      BY <3>1, <1>5, <1>6
    <3>2. CASE o # l
      BY <3>2, <1>5, <1>6
    <3> QED
      BY <3>1, <3>2
  <2>2. CASE chain'[r][i] = ptr
    <3>1. r = l /\ i = Len(s) + 1
      BY <2>1, <2>2
    <3>2. chain'[q][j] = ptr
      BY <2>2
    <3>3. q = l /\ j = Len(s) + 1
      BY <2>1, <3>2
    <3> QED
      BY <3>1, <3>3
  <2>3. CASE chain'[r][i] # ptr
    BY <2>1, <2>3 DEF Owned, Apart
  <2> QED
    BY <2>2, <2>3
<1>9. Covered'
  <2> SUFFICES ASSUME NEW p \in DOMAIN nodes'
               PROVE  \E r \in Objects : \E i \in 1..Len(chain'[r]) : chain'[r][i] = p
    BY DEF Covered
  <2>1. CASE p = ptr
    <3>1. Len(s) + 1 \in 1..Len(chain'[l])
      BY <1>5
    <3> QED
      BY <2>1, <3>1, <1>5
  <2>2. CASE p \in DOMAIN nodes
    <3>1. PICK r \in Objects : \E i \in 1..Len(chain[r]) : chain[r][i] = p
      BY <2>2 DEF Owned, Covered
    <3>2. PICK i \in 1..Len(chain[r]) : chain[r][i] = p
      BY <3>1
    <3>3. i \in 1..Len(chain'[r]) /\ chain'[r][i] = p
      <4>1. CASE r = l
        BY <4>1, <3>2, <1>5
      <4>2. CASE r # l
        BY <4>2, <3>2, <1>5
      <4> QED
        BY <4>1, <4>2
    <3> QED
      BY <3>3
  <2> QED
    BY <2>1, <2>2, <1>3
<1>10. DOMAIN nodes' \subseteq Addresses /\ \A p \in DOMAIN nodes' : nodes'[p] \in [elem : Elems, next : Pointers]
  BY <1>0, <1>3 DEF Pointers
<1>11. Owned'
  BY <1>7, <1>8, <1>9 DEF Owned
<1>12. ptr \in Addresses /\ nodes'[ptr].elem = e
  BY <1>3
<1>13. \A p \in DOMAIN nodes : p \in DOMAIN nodes' /\ nodes'[p].elem = nodes[p].elem
  BY <1>3
<1>14. \E q \in Addresses : /\ chain' = [chain EXCEPT ![l] = Append(chain[l], q)]
                           /\ nodes'[q].elem = e
  BY <1>1, <1>12
<1> QED
  BY <1>4, <1>5, <1>10, <1>11, <1>13, <1>14

\* Two lists exchange their nodes.
LEMMA SwappedStep ==
  ASSUME Typed, Owned, NEW l \in Objects, NEW r \in Objects,
         call.op # "delete", \A o \in Objects : Entry(o)' = lists'[o].head_,
         lists' = Swapped(lists, l, r), chain' = Swapped(chain, l, r), UNCHANGED nodes
  PROVE  /\ Owned'
         /\ lists' \in [Objects -> [head_ : Pointers, tail_ : Pointers]]
         /\ chain' \in [Objects -> Seq(Addresses)]
<1> DEFINE other(o) == IF o = l THEN r ELSE IF o = r THEN l ELSE o
<1>1. /\ lists' \in [Objects -> [head_ : Pointers, tail_ : Pointers]]
      /\ chain' \in [Objects -> Seq(Addresses)]
  BY DEF Typed, Swapped
<1>2. ASSUME NEW o \in Objects
      PROVE  /\ other(o) \in Objects
             /\ other(other(o)) = o
             /\ lists'[o] = lists[other(o)]
             /\ chain'[o] = chain[other(o)]
  BY DEF Typed, Swapped
<1> HIDE DEF other
<1>3. ASSUME NEW o \in Objects
      PROVE  Threaded(o)'
  <2>1. Threaded(other(o)) /\ ~ Dying(other(o))
    BY <1>2 DEF Owned, Dying
  <2> QED
    BY <1>2, <2>1 DEF Threaded, Entry
<1>4. Apart'
  <2> SUFFICES ASSUME NEW o \in Objects, NEW q \in Objects,
                      NEW i \in 1..Len(chain'[o]), NEW j \in 1..Len(chain'[q]),
                      chain'[o][i] = chain'[q][j]
               PROVE  o = q /\ i = j
    BY DEF Apart
  <2>1. other(o) = other(q) /\ i = j
    BY <1>2 DEF Owned, Apart
  <2> QED
    BY <1>2, <2>1
<1>5. Covered'
  <2> SUFFICES ASSUME NEW p \in DOMAIN nodes
               PROVE  \E o \in Objects : \E i \in 1..Len(chain'[o]) : chain'[o][i] = p
    BY DEF Covered
  <2>1. PICK o \in Objects : \E i \in 1..Len(chain[o]) : chain[o][i] = p
    BY DEF Owned, Covered
  <2>2. other(o) \in Objects /\ chain'[other(o)] = chain[o]
    BY <1>2
  <2> QED
    BY <2>1, <2>2
<1> QED
  BY <1>1, <1>3, <1>4, <1>5 DEF Owned

\* A step that changes no list, only what is about to be done.
LEMMA ListsKept ==
  ASSUME Owned, UNCHANGED <<nodes, lists, chain>>,
         \A o \in Objects : /\ Entry(o)' = Entry(o)
                            /\ Dying(o) => Dying(o)'
  PROVE  Owned'
<1>1. ASSUME NEW o \in Objects
      PROVE  Threaded(o)'
  BY DEF Owned, Threaded
<1>2. Apart' /\ Covered'
  BY DEF Owned, Apart, Covered
<1> QED
  BY <1>1, <1>2 DEF Owned

-----------------------------------------------------------------------------
\* push_back() by the user.
LEMMA PushBackKeeps ==
  ASSUME IndInv, NEW l \in Lists, NEW e \in Elems, push_back(l, e)
  PROVE  IndInv'
<1>1. call = NoCall /\ call' = call /\ PushBack(l, e) /\ l \in Objects /\ l # Temporary
  BY ObjectsAssumption DEF push_back, Objects
<1>2. call.op = "none" /\ call'.op = "none"
  BY <1>1 DEF NoCall
<1>3. /\ Owned'
      /\ DOMAIN nodes' \subseteq Addresses
      /\ \A p \in DOMAIN nodes' : nodes'[p] \in [elem : Elems, next : Pointers]
      /\ lists' \in [Objects -> [head_ : Pointers, tail_ : Pointers]]
      /\ chain' \in [Objects -> Seq(Addresses)]
      /\ \E ptr \in Addresses : chain' = [chain EXCEPT ![l] = Append(chain[l], ptr)]
  BY <1>1, <1>2, PushBackStep DEF IndInv
<1>4. Typed'
  BY <1>1, <1>3 DEF IndInv, Typed
<1>5. Spare'
  <2>1. Temporary \in Objects /\ chain[Temporary] = << >>
    BY <1>2 DEF IndInv, Spare, Dying, Objects
  <2>2. chain'[Temporary] = << >>
    BY <1>1, <1>3, <2>1 DEF IndInv, Typed
  <2> QED
    BY <1>1, <2>2 DEF Spare
<1> QED
  BY <1>2, <1>3, <1>4, <1>5 DEF IndInv, Copied, Window, NthFound

\* swap() by the user.
LEMMA SwapKeeps ==
  ASSUME IndInv, NEW l \in Lists, NEW r \in Lists, swap(l, r)
  PROVE  IndInv'
<1>1. /\ call = NoCall /\ call' = call /\ UNCHANGED nodes
      /\ lists' = Swapped(lists, l, r) /\ chain' = Swapped(chain, l, r)
      /\ l \in Objects /\ r \in Objects /\ Temporary \in Objects
      /\ l # Temporary /\ r # Temporary
  BY ObjectsAssumption DEF swap, Objects
<1>2. call.op = "none" /\ call'.op = "none"
  BY <1>1 DEF NoCall
<1>3. \A o \in Objects : Entry(o)' = lists'[o].head_
  BY <1>2 DEF Entry, Dying
<1>4. /\ Owned'
      /\ lists' \in [Objects -> [head_ : Pointers, tail_ : Pointers]]
      /\ chain' \in [Objects -> Seq(Addresses)]
  BY <1>1, <1>2, <1>3, SwappedStep DEF IndInv
<1>5. Typed'
  BY <1>1, <1>4 DEF IndInv, Typed
<1>6. Spare'
  <2>1. chain[Temporary] = << >>
    BY <1>2 DEF IndInv, Spare, Dying
  <2>2. chain'[Temporary] = << >>
    BY <1>1, <2>1 DEF IndInv, Typed, Swapped
  <2> QED
    BY <1>1, <2>2 DEF IndInv, Spare
<1> QED
  BY <1>2, <1>4, <1>5, <1>6 DEF IndInv, Copied, Window, NthFound

\* The call of operator=.
LEMMA AssignKeeps ==
  ASSUME IndInv, NEW l \in Lists, NEW r \in Lists, assign(l, r)
  PROVE  IndInv'
<1>0. /\ call = NoCall /\ UNCHANGED <<nodes, lists, chain>>
      /\ l \in Objects /\ r \in Objects /\ Temporary \in Objects
      /\ call' = [NoCall EXCEPT !.op = "copy", !.list = l, !.from = r, !.it = lists[r].head_]
  BY DEF assign, Objects
<1>1. /\ call.op = "none"
      /\ call'.op = "copy" /\ call'.list = l /\ call'.from = r /\ call'.it = lists[r].head_
      /\ call'.p1 = Null /\ call'.nth = 0 /\ call'.left = 0
  BY <1>0 DEF NoCall
<1>2. Typed'
  <2>1. lists[r].head_ \in Pointers /\ Null \in Pointers
    BY <1>0 DEF IndInv, Typed, Pointers
  <2>2. call' \in [op : {"none", "copy", "delete", "nth", "return"}, list : Objects,
                   from : Objects, it : Pointers, p1 : Pointers, nth : Nat, left : Nat]
    BY <1>0, <2>1 DEF NoCall
  <2> QED
    BY <1>0, <2>2 DEF IndInv, Typed
<1>3. \A o \in Objects : ~ Dying(o) /\ ~ Dying(o)' /\ Entry(o)' = Entry(o)
  BY <1>0, <1>1 DEF Entry, Dying
<1>4. Owned'
  BY <1>0, <1>3, ListsKept DEF IndInv
<1>5. Spare'
  BY <1>1 DEF Spare
<1>6. Copied'
  <2>1. chain[Temporary] = << >> /\ Len(chain[Temporary]) = 0
    BY <1>0, <1>1, <1>3 DEF IndInv, Spare
  <2>2. /\ chain[r] \in Seq(Addresses)
        /\ lists[r].head_ = IF chain[r] = << >> THEN Null ELSE chain[r][1]
    BY <1>0, <1>3, Ends DEF IndInv
  <2>3. Len(chain[r]) \in Nat /\ (Len(chain[r]) = 0 <=> chain[r] = << >>)
    BY <2>2
  <2> QED
    BY <1>0, <1>1, <2>1, <2>2, <2>3 DEF Copied
<1> QED
  BY <1>1, <1>2, <1>4, <1>5, <1>6 DEF IndInv, Window, NthFound

\* What the copy has to go on with.
LEMMA CopyFacts ==
  ASSUME IndInv, call.op = "copy"
  PROVE  /\ call.list \in Lists /\ call.from \in Lists
         /\ call.list \in Objects /\ call.from \in Objects /\ Temporary \in Objects
         /\ call.list # Temporary /\ call.from # Temporary
         /\ \A o \in Objects : ~ Dying(o)
         /\ Len(chain[Temporary]) \in Nat /\ Len(chain[call.from]) \in Nat
         /\ call.it # Null => /\ Len(chain[Temporary]) < Len(chain[call.from])
                              /\ call.it = chain[call.from][Len(chain[Temporary]) + 1]
                              /\ call.it \in DOMAIN nodes
                              /\ nodes[call.it].elem \in Elems
         /\ call.it = Null => Len(chain[Temporary]) = Len(chain[call.from])
<1>1. /\ call.list \in Lists /\ call.from \in Lists
      /\ call.list \in Objects /\ call.from \in Objects /\ Temporary \in Objects
      /\ call.list # Temporary /\ call.from # Temporary
      /\ \A o \in Objects : ~ Dying(o)
  BY ObjectsAssumption DEF IndInv, Copied, Objects, Dying
<1>2. /\ chain[Temporary] \in Seq(Addresses) /\ chain[call.from] \in Seq(Addresses)
      /\ Len(chain[Temporary]) \in Nat /\ Len(chain[call.from]) \in Nat
  BY <1>1 DEF IndInv, Typed
<1>3. /\ Len(chain[Temporary]) <= Len(chain[call.from])
      /\ call.it = IF Len(chain[Temporary]) = Len(chain[call.from]) THEN Null
                   ELSE chain[call.from][Len(chain[Temporary]) + 1]
  BY DEF IndInv, Copied
<1>4. ASSUME Len(chain[Temporary]) # Len(chain[call.from])
      PROVE  /\ Len(chain[Temporary]) < Len(chain[call.from])
             /\ call.it = chain[call.from][Len(chain[Temporary]) + 1]
             /\ call.it \in DOMAIN nodes
             /\ nodes[call.it].elem \in Elems
             /\ call.it # Null
  <2>1. Len(chain[Temporary]) + 1 \in 1..Len(chain[call.from])
    BY <1>2, <1>3, <1>4
  <2>2. call.it = chain[call.from][Len(chain[Temporary]) + 1]
    BY <1>3, <1>4
  <2>3. call.it \in DOMAIN nodes /\ call.it \in Addresses
    BY <1>1, <1>2, <2>1, <2>2 DEF IndInv, Owned, Threaded
  <2>4. nodes[call.it].elem \in Elems
    BY <2>3 DEF IndInv, Typed
  <2> QED
    BY <1>2, <1>3, <1>4, <2>2, <2>3, <2>4, ObjectsAssumption
<1> QED
  BY <1>1, <1>2, <1>3, <1>4

\* One element of the copy.
LEMMA CopyElementKeeps ==
  ASSUME IndInv, CopyElement
  PROVE  IndInv'
<1> DEFINE t == chain[Temporary]
           s == chain[call.from]
<1>0. /\ call.op = "copy" /\ call.it # Null
      /\ PushBack(Temporary, nodes[call.it].elem)
      /\ call' = [call EXCEPT !.it = nodes[call.it].next]
  BY DEF CopyElement
<1>1. /\ call.list \in Lists /\ call.from \in Lists
      /\ call.from \in Objects /\ Temporary \in Objects /\ call.from # Temporary
      /\ Len(t) \in Nat /\ Len(s) \in Nat /\ Len(t) < Len(s)
      /\ call.it = s[Len(t) + 1]
      /\ call.it \in DOMAIN nodes
      /\ nodes[call.it].elem \in Elems
      /\ t \in Seq(Addresses) /\ s \in Seq(Addresses)
  BY <1>0, CopyFacts DEF IndInv, Typed
<1>2. /\ call'.op = "copy" /\ call'.list = call.list /\ call'.from = call.from
      /\ call'.it = nodes[call.it].next
      /\ call' \in [op : {"none", "copy", "delete", "nth", "return"}, list : Objects,
                    from : Objects, it : Pointers, p1 : Pointers, nth : Nat, left : Nat]
  <2>1. nodes[call.it].next \in Pointers
    BY <1>1 DEF IndInv, Typed
  <2> QED
    BY <1>0, <2>1 DEF IndInv, Typed
<1>3. /\ Owned'
      /\ DOMAIN nodes' \subseteq Addresses
      /\ \A p \in DOMAIN nodes' : nodes'[p] \in [elem : Elems, next : Pointers]
      /\ lists' \in [Objects -> [head_ : Pointers, tail_ : Pointers]]
      /\ chain' \in [Objects -> Seq(Addresses)]
      /\ \A p \in DOMAIN nodes : p \in DOMAIN nodes' /\ nodes'[p].elem = nodes[p].elem
      /\ \E ptr \in Addresses : /\ chain' = [chain EXCEPT ![Temporary] = Append(t, ptr)]
                                /\ nodes'[ptr].elem = nodes[call.it].elem
  <2>1. PICK e \in Elems : e = nodes[call.it].elem
    BY <1>1
  <2>2. PushBack(Temporary, e) /\ call.op # "delete" /\ call'.op # "delete"
    BY <1>0, <1>2, <2>1
  <2> QED
    BY <1>1, <2>1, <2>2, PushBackStep DEF IndInv
<1>4. PICK ptr \in Addresses : /\ chain' = [chain EXCEPT ![Temporary] = Append(t, ptr)]
                               /\ nodes'[ptr].elem = nodes[call.it].elem
  BY <1>3
<1>5. /\ chain'[Temporary] = Append(t, ptr) /\ chain'[call.from] = s
  BY <1>1, <1>4 DEF IndInv, Typed
<1>6. /\ Len(Append(t, ptr)) = Len(t) + 1
      /\ \A i \in 1..Len(t) : Append(t, ptr)[i] = t[i]
      /\ Append(t, ptr)[Len(t) + 1] = ptr
  BY <1>1
<1>7. Typed'
  BY <1>2, <1>3 DEF Typed
<1>8. Copied'
  <2>1. nodes[call.it].next = IF Len(t) + 1 = Len(s) THEN Null ELSE s[Len(t) + 2]
    <3>1. Len(t) + 1 \in 1..Len(s) /\ (Len(t) + 1) + 1 = Len(t) + 2
      BY <1>1
    <3> QED
      BY <1>1, <3>1 DEF IndInv, Owned, Threaded
  <2>2. ASSUME NEW i \in 1..(Len(t) + 1)
        PROVE  nodes'[Append(t, ptr)[i]].elem = nodes'[s[i]].elem
    <3>1. i \in 1..Len(s) /\ s[i] \in DOMAIN nodes
      BY <1>1 DEF IndInv, Owned, Threaded
    <3>2. CASE i = Len(t) + 1
      BY <3>1, <3>2, <1>1, <1>3, <1>4, <1>6
    <3>3. CASE i \in 1..Len(t)
      <4>1. nodes[t[i]].elem = nodes[s[i]].elem /\ t[i] \in DOMAIN nodes
        BY <3>3, <1>0, <1>1 DEF IndInv, Copied, Owned, Threaded
      <4> QED
        BY <3>1, <3>3, <4>1, <1>3, <1>6
    <3> QED
      BY <3>2, <3>3, <1>1
  <2>3. Len(t) + 1 <= Len(s) /\ (Len(t) + 1) + 1 = Len(t) + 2
    BY <1>1
  <2> QED
    BY <1>1, <1>2, <1>5, <1>6, <2>1, <2>2, <2>3 DEF Copied
<1> QED
  BY <1>2, <1>3, <1>7, <1>8 DEF IndInv, Spare, Window, NthFound

\* A destructor is about to run on a list.
LEMMA DestructorStep ==
  ASSUME Typed, Owned, UNCHANGED <<nodes, lists, chain>>, NEW l \in Objects,
         \A o \in Objects : ~ Dying(o),
         call' = Destructor(l, lists[l].head_)
  PROVE  /\ Typed' /\ Owned'
         /\ call'.op = "delete" /\ call'.list = l
         /\ Copied' /\ Window' /\ NthFound'
<1>1. /\ call'.op = "delete" /\ call'.list = l /\ call'.it = lists[l].head_
  BY DEF Destructor, NoCall
<1>2. Typed'
  <2>1. lists[l].head_ \in Pointers /\ Null \in Pointers /\ Temporary \in Objects
    BY DEF Typed, Pointers, Objects
  <2>2. call' \in [op : {"none", "copy", "delete", "nth", "return"}, list : Objects,
                   from : Objects, it : Pointers, p1 : Pointers, nth : Nat, left : Nat]
    BY <2>1 DEF Destructor, NoCall
  <2> QED
    BY <2>2 DEF Typed
<1>3. \A o \in Objects : Entry(o)' = Entry(o)
  BY <1>1 DEF Entry, Dying
<1>4. Owned'
  BY <1>3, ListsKept
<1> QED
  BY <1>1, <1>2, <1>4 DEF Copied, Window, NthFound

\* The copy throws.
LEMMA CopyThrowsKeeps ==
  ASSUME IndInv, CopyThrows
  PROVE  IndInv'
<1>1. /\ call.op = "copy" /\ UNCHANGED <<nodes, lists, chain>>
      /\ call' = Destructor(Temporary, lists[Temporary].head_)
      /\ Temporary \in Objects
  BY DEF CopyThrows, Objects
<1>2. \A o \in Objects : ~ Dying(o)
  BY <1>1 DEF Dying
<1>3. /\ Typed' /\ Owned' /\ call'.op = "delete" /\ call'.list = Temporary
      /\ Copied' /\ Window' /\ NthFound'
  BY <1>1, <1>2, DestructorStep DEF IndInv
<1> QED
  BY <1>3 DEF IndInv, Spare, Dying

\* A list's scope ends.
LEMMA RenewKeeps ==
  ASSUME IndInv, NEW l \in Lists, renew(l)
  PROVE  IndInv'
<1>1. /\ call = NoCall /\ UNCHANGED <<nodes, lists, chain>>
      /\ call' = Destructor(l, lists[l].head_)
      /\ l \in Objects /\ Temporary \in Objects
  BY DEF renew, Objects
<1>2. call.op = "none" /\ \A o \in Objects : ~ Dying(o)
  BY <1>1 DEF Dying, NoCall
<1>3. /\ Typed' /\ Owned' /\ call'.op = "delete" /\ call'.list = l
      /\ Copied' /\ Window' /\ NthFound'
  BY <1>1, <1>2, DestructorStep DEF IndInv
<1>4. chain'[Temporary] = << >>
  BY <1>1, <1>2 DEF IndInv, Spare
<1> QED
  BY <1>3, <1>4 DEF IndInv, Spare

\* The copy takes the place of the old nodes.
LEMMA ReplaceKeeps ==
  ASSUME IndInv, Replace
  PROVE  IndInv'
<1>1. /\ call.op = "copy" /\ UNCHANGED nodes
      /\ lists' = Swapped(lists, call.list, Temporary)
      /\ chain' = Swapped(chain, call.list, Temporary)
      /\ call' = Destructor(Temporary, lists[call.list].head_)
  BY DEF Replace
<1>2. /\ call.list \in Objects /\ Temporary \in Objects /\ call.list # Temporary
      /\ \A o \in Objects : ~ Dying(o)
  BY <1>1, CopyFacts
<1>3. /\ call'.op = "delete" /\ call'.list = Temporary /\ call'.it = lists[call.list].head_
  BY <1>1 DEF Destructor, NoCall
<1>4. lists'[Temporary] = lists[call.list]
  BY <1>1, <1>2 DEF IndInv, Typed, Swapped
<1>5. \A o \in Objects : Entry(o)' = lists'[o].head_
  BY <1>3, <1>4 DEF Entry, Dying
<1>6. /\ Owned'
      /\ lists' \in [Objects -> [head_ : Pointers, tail_ : Pointers]]
      /\ chain' \in [Objects -> Seq(Addresses)]
  BY <1>1, <1>2, <1>5, SwappedStep DEF IndInv
<1>7. Typed'
  <2>1. lists[call.list].head_ \in Pointers /\ Null \in Pointers
    BY <1>2 DEF IndInv, Typed, Pointers
  <2>2. call' \in [op : {"none", "copy", "delete", "nth", "return"}, list : Objects,
                   from : Objects, it : Pointers, p1 : Pointers, nth : Nat, left : Nat]
    BY <1>1, <1>2, <2>1 DEF Destructor, NoCall
  <2> QED
    BY <1>1, <1>6, <2>2 DEF IndInv, Typed
<1> QED
  BY <1>3, <1>6, <1>7 DEF IndInv, Spare, Dying, Copied, Window, NthFound

\* What a destructor finds.
LEMMA DeleteFacts ==
  ASSUME IndInv, call.op = "delete"
  PROVE  /\ call.list \in Objects
         /\ chain[call.list] \in Seq(Addresses)
         /\ call.it = Null <=> chain[call.list] = << >>
         /\ chain[call.list] # << >> => /\ call.it = chain[call.list][1]
                                        /\ call.it \in DOMAIN nodes
                                        /\ 1 \in 1..Len(chain[call.list])
         /\ \A o \in Objects : Dying(o) <=> o = call.list
<1>1. /\ call.list \in Objects
      /\ chain[call.list] \in Seq(Addresses)
      /\ \A o \in Objects : Dying(o) <=> o = call.list
  BY DEF IndInv, Typed, Dying
<1>2. call.it = IF chain[call.list] = << >> THEN Null ELSE chain[call.list][1]
  BY <1>1 DEF IndInv, Owned, Threaded, Entry
<1>3. chain[call.list] # << >> => /\ 1 \in 1..Len(chain[call.list])
                                  /\ chain[call.list][1] \in Addresses
  BY <1>1
<1>4. chain[call.list] # << >> => chain[call.list][1] \in DOMAIN nodes
  BY <1>1, <1>3 DEF IndInv, Owned, Threaded
<1> QED
  BY <1>1, <1>2, <1>3, <1>4, ObjectsAssumption

\* A sequence without its first element.
LEMMA TailFacts ==
  ASSUME NEW S, NEW s \in Seq(S), s # << >>
  PROVE  /\ Len(s) \in Nat \ {0}
         /\ Tail(s) \in Seq(S)
         /\ Len(Tail(s)) = Len(s) - 1
         /\ \A i \in 1..(Len(s) - 1) : Tail(s)[i] = s[i + 1]
         /\ Tail(s) = << >> <=> Len(s) = 1
<1>1. Len(s) \in Nat \ {0}
  BY EmptySeq
<1>2. Tail(s) \in Seq(S) /\ Len(Tail(s)) = Len(s) - 1
  BY HeadTailProperties
<1>3. \A i \in 1..(Len(s) - 1) : Tail(s)[i] = s[i + 1]
  BY <1>1
<1>4. Tail(s) = << >> <=> Len(Tail(s)) = 0
  BY <1>2, EmptySeq
<1> QED
  BY <1>1, <1>2, <1>3, <1>4

\* One node is deleted, the first that is left.
LEMMA DeleteNodeKeeps ==
  ASSUME IndInv, DeleteNode
  PROVE  IndInv'
<1> DEFINE l == call.list
           s == chain[l]
<1>0. /\ call.op = "delete" /\ call.it # Null /\ UNCHANGED lists
      /\ nodes' = [p \in DOMAIN nodes \ {call.it} |-> nodes[p]]
      /\ chain' = [chain EXCEPT ![l] = Tail(s)]
      /\ call' = [call EXCEPT !.it = nodes[call.it].next]
  BY DEF DeleteNode
<1>1. /\ l \in Objects /\ s \in Seq(Addresses) /\ s # << >>
      /\ call.it = s[1] /\ call.it \in DOMAIN nodes /\ 1 \in 1..Len(s)
      /\ \A o \in Objects : Dying(o) <=> o = l
  BY <1>0, DeleteFacts
<1>2. /\ Len(Tail(s)) = Len(s) - 1
      /\ Len(s) \in Nat \ {0}
      /\ Tail(s) \in Seq(Addresses)
      /\ \A i \in 1..(Len(s) - 1) : Tail(s)[i] = s[i + 1]
      /\ Tail(s) = << >> <=> Len(s) = 1
  <2> HIDE DEF s
  <2> QED
    BY <1>1, TailFacts
<1>3. /\ chain' \in [Objects -> Seq(Addresses)]
      /\ chain'[l] = Tail(s)
      /\ \A o \in Objects \ {l} : chain'[o] = chain[o]
  BY <1>0, <1>1, <1>2 DEF IndInv, Typed
<1>4. /\ call'.op = "delete" /\ call'.list = l /\ call'.it = nodes[call.it].next
      /\ call' \in [op : {"none", "copy", "delete", "nth", "return"}, list : Objects,
                    from : Objects, it : Pointers, p1 : Pointers, nth : Nat, left : Nat]
  <2>1. nodes[call.it].next \in Pointers
    BY <1>1 DEF IndInv, Typed
  <2> QED
    BY <1>0, <2>1 DEF IndInv, Typed
<1>5. Typed'
  BY <1>0, <1>3, <1>4 DEF IndInv, Typed
<1>6. ASSUME NEW o \in Objects, NEW i \in 1..Len(chain[o]), o # l \/ i # 1
      PROVE  /\ chain[o][i] \in DOMAIN nodes'
             /\ nodes'[chain[o][i]] = nodes[chain[o][i]]
             /\ nodes'[chain[o][i]].next = IF i = Len(chain[o]) THEN Null ELSE chain[o][i + 1]
  <2>1. chain[o][i] # call.it
    BY <1>1, <1>6 DEF IndInv, Owned, Apart
  <2>2. /\ chain[o][i] \in DOMAIN nodes
        /\ nodes[chain[o][i]].next = IF i = Len(chain[o]) THEN Null ELSE chain[o][i + 1]
    BY DEF IndInv, Owned, Threaded
  <2> QED
    BY <2>1, <2>2, <1>0
<1>7. ASSUME NEW o \in Objects
      PROVE  Threaded(o)'
  <2>1. CASE o = l
    <3>1. Dying(o)' /\ Entry(o)' = nodes[call.it].next
      BY <2>1, <1>4 DEF Dying, Entry
    <3>2. nodes[call.it].next = IF Len(s) = 1 THEN Null ELSE s[2]
      <4>1. nodes[s[1]].next = IF 1 = Len(s) THEN Null ELSE s[1 + 1]
        BY <1>1 DEF IndInv, Owned, Threaded
      <4>2. 1 + 1 = 2
        OBVIOUS
      <4> HIDE DEF s
      <4> QED
        BY <1>1, <4>1, <4>2
    <3>3. Entry(o)' = IF Tail(s) = << >> THEN Null ELSE Tail(s)[1]
      BY <3>1, <3>2, <1>2
    <3>4. ASSUME NEW i \in 1..Len(Tail(s))
          PROVE  /\ Tail(s)[i] \in DOMAIN nodes'
                 /\ nodes'[Tail(s)[i]].next = IF i = Len(Tail(s)) THEN Null ELSE Tail(s)[i + 1]
      <4>1. /\ i + 1 \in 1..Len(s) /\ i + 1 # 1 /\ Tail(s)[i] = s[i + 1]
            /\ i = Len(Tail(s)) <=> i + 1 = Len(s)
            /\ i # Len(Tail(s)) => Tail(s)[i + 1] = s[(i + 1) + 1]
        BY <1>2
      <4> QED
        BY <4>1, <1>1, <1>6
    <3> QED
      BY <2>1, <3>1, <3>3, <3>4, <1>3 DEF Threaded
  <2>2. CASE o # l
    <3>1. ~ Dying(o) /\ ~ Dying(o)' /\ chain'[o] = chain[o] /\ Entry(o)' = Entry(o)
      BY <2>2, <1>0, <1>1, <1>3, <1>4 DEF Dying, Entry
    <3>2. Threaded(o)
      BY DEF IndInv, Owned
    <3>3. ASSUME NEW i \in 1..Len(chain[o])
          PROVE  /\ chain[o][i] \in DOMAIN nodes'
                 /\ nodes'[chain[o][i]].next = IF i = Len(chain[o]) THEN Null ELSE chain[o][i + 1]
      BY <2>2, <1>6
    <3> QED
      BY <3>1, <3>2, <3>3, <1>0 DEF Threaded
  <2> QED
    BY <2>1, <2>2
<1>8. ASSUME NEW o \in Objects, NEW i \in 1..Len(chain'[o])
      PROVE  LET k == IF o = l THEN i + 1 ELSE i
             IN  k \in 1..Len(chain[o]) /\ chain'[o][i] = chain[o][k]
  <2>1. CASE o = l
    BY <2>1, <1>2, <1>3
  <2>2. CASE o # l
    BY <2>2, <1>3
  <2> QED
    BY <2>1, <2>2
<1>9. Apart'
  <2> SUFFICES ASSUME NEW o \in Objects, NEW q \in Objects,
                      NEW i \in 1..Len(chain'[o]), NEW j \in 1..Len(chain'[q]),
                      chain'[o][i] = chain'[q][j]
               PROVE  o = q /\ i = j
    BY DEF Apart
  <2> DEFINE k == IF o = l THEN i + 1 ELSE i
             m == IF q = l THEN j + 1 ELSE j
  <2>1. /\ k \in 1..Len(chain[o]) /\ chain'[o][i] = chain[o][k]
        /\ m \in 1..Len(chain[q]) /\ chain'[q][j] = chain[q][m]
    BY <1>8
  <2>2. o = q /\ k = m
    <3>1. chain[o][k] = chain[q][m]
      BY <2>1
    <3>2. \A x, y \in Objects : \A a \in 1..Len(chain[x]), b \in 1..Len(chain[y]) :
            chain[x][a] = chain[y][b] => x = y /\ a = b
      BY DEF IndInv, Owned, Apart
    <3> HIDE DEF k, m
    <3> QED
      BY <2>1, <3>1, <3>2
  <2>3. i \in Nat /\ j \in Nat
    BY <1>3
  <2> QED
    BY <2>2, <2>3
<1>10. Covered'
  <2> SUFFICES ASSUME NEW p \in DOMAIN nodes'
               PROVE  \E o \in Objects : \E i \in 1..Len(chain'[o]) : chain'[o][i] = p
    BY DEF Covered
  <2>1. p \in DOMAIN nodes /\ p # call.it
    BY <1>0
  <2>2. PICK o \in Objects : \E i \in 1..Len(chain[o]) : chain[o][i] = p
    BY <2>1 DEF IndInv, Owned, Covered
  <2>3. PICK i \in 1..Len(chain[o]) : chain[o][i] = p
    BY <2>2
  <2>4. CASE o = l
    <3>1. i # 1 /\ i - 1 \in 1..Len(Tail(s)) /\ (i - 1) + 1 = i
      BY <2>1, <2>3, <2>4, <1>1, <1>2
    <3>2. Tail(s)[i - 1] = p
      BY <3>1, <2>3, <2>4, <1>2
    <3> QED
      BY <3>1, <3>2, <1>1, <1>3
  <2>5. CASE o # l
    BY <2>3, <2>5, <1>3
  <2> QED
    BY <2>4, <2>5
<1>11. Owned'
  BY <1>7, <1>9, <1>10 DEF Owned
<1>12. Spare'
  <2>1. Temporary \in Objects
    BY DEF Objects
  <2>2. CASE l = Temporary
    BY <2>2, <1>4 DEF Spare, Dying
  <2>3. CASE l # Temporary
    BY <2>1, <2>3, <1>0, <1>1, <1>3, <1>4 DEF IndInv, Spare
  <2> QED
    BY <2>2, <2>3
<1> QED
  BY <1>4, <1>5, <1>11, <1>12 DEF IndInv, Copied, Window, NthFound

\* The list whose nodes are gone is replaced by an empty one.
LEMMA DestroyedKeeps ==
  ASSUME IndInv, Destroyed
  PROVE  IndInv'
<1>0. /\ call.op = "delete" /\ call.it = Null /\ call' = NoCall /\ UNCHANGED <<nodes, chain>>
      /\ lists' = [lists EXCEPT ![call.list] = NewList]
  BY DEF Destroyed
<1>1. /\ call.list \in Objects /\ chain[call.list] = << >>
      /\ \A o \in Objects : Dying(o) <=> o = call.list
      /\ Temporary \in Objects /\ Null \in Pointers
  BY <1>0, DeleteFacts DEF Objects, Pointers
<1>2. call'.op = "none" /\ \A o \in Objects : ~ Dying(o)'
  BY <1>0 DEF NoCall, Dying
<1>3. /\ lists' \in [Objects -> [head_ : Pointers, tail_ : Pointers]]
      /\ lists'[call.list] = [head_ |-> Null, tail_ |-> Null]
      /\ \A o \in Objects \ {call.list} : lists'[o] = lists[o]
  <2>1. lists \in [Objects -> [head_ : Pointers, tail_ : Pointers]]
    BY DEF IndInv, Typed
  <2>2. [head_ |-> Null, tail_ |-> Null] \in [head_ : Pointers, tail_ : Pointers]
    BY <1>1
  <2>3. lists' = [lists EXCEPT ![call.list] = [head_ |-> Null, tail_ |-> Null]]
    BY <1>0 DEF NewList
  <2> QED
    BY <1>1, <2>1, <2>2, <2>3
<1>4. Typed'
  <2>1. NoCall \in [op : {"none", "copy", "delete", "nth", "return"}, list : Objects,
                    from : Objects, it : Pointers, p1 : Pointers, nth : Nat, left : Nat]
    BY <1>1 DEF NoCall
  <2> QED
    BY <1>0, <1>3, <2>1 DEF IndInv, Typed
<1>5. ASSUME NEW o \in Objects
      PROVE  Threaded(o)'
  <2>1. Threaded(o) /\ Entry(o)' = lists'[o].head_
    BY <1>2 DEF IndInv, Owned, Entry
  <2>2. CASE o = call.list
    <3>1. chain'[o] = << >> /\ lists'[o].head_ = Null /\ lists'[o].tail_ = Null
      BY <2>2, <1>0, <1>1, <1>3
    <3>2. 1..Len(chain'[o]) = {}
      BY <3>1
    <3> QED
      BY <2>1, <3>1, <3>2 DEF Threaded
  <2>3. CASE o # call.list
    <3>1. chain'[o] = chain[o] /\ lists'[o] = lists[o] /\ Entry(o) = lists[o].head_ /\ ~ Dying(o)
      BY <2>3, <1>0, <1>1, <1>3 DEF Entry
    <3> QED
      BY <2>1, <3>1, <1>0 DEF Threaded
  <2> QED
    BY <2>2, <2>3
<1>6. Owned'
  BY <1>0, <1>5 DEF IndInv, Owned, Apart, Covered
<1>7. Spare'
  <2>1. chain'[Temporary] = << >>
    BY <1>0, <1>1 DEF IndInv, Spare
  <2> QED
    BY <1>0, <2>1 DEF Spare
<1> QED
  BY <1>2, <1>4, <1>6, <1>7 DEF IndInv, Copied, Window, NthFound

-----------------------------------------------------------------------------
\* Following next from a node of a list.
LEMMA NextNode ==
  ASSUME IndInv, NEW l \in Objects, NEW i \in 1..Len(chain[l])
  PROVE  /\ chain[l][i] \in DOMAIN nodes
         /\ chain[l][i] \in Addresses
         /\ After(chain[l][i]) \in Pointers
         /\ After(chain[l][i]) = Null <=> i = Len(chain[l])
         /\ i # Len(chain[l]) => /\ i + 1 \in 1..Len(chain[l])
                                 /\ After(chain[l][i]) = chain[l][i + 1]
<1>1. chain[l] \in Seq(Addresses) /\ Len(chain[l]) \in Nat
  BY DEF IndInv, Typed
<1>2. /\ chain[l][i] \in DOMAIN nodes
      /\ nodes[chain[l][i]].next = IF i = Len(chain[l]) THEN Null ELSE chain[l][i + 1]
  BY DEF IndInv, Owned, Threaded
<1>3. nodes[chain[l][i]].next \in Pointers /\ chain[l][i] \in Addresses
  BY <1>2 DEF IndInv, Typed
<1>4. i # Len(chain[l]) => i + 1 \in 1..Len(chain[l]) /\ chain[l][i + 1] \in Addresses
  BY <1>1
<1> QED
  BY <1>2, <1>3, <1>4, ObjectsAssumption DEF After

\* A step of get_nth_to_last() changes only its local variables.
LEMMA WalkKeeps ==
  ASSUME IndInv, UNCHANGED <<nodes, lists, chain>>,
         call.op \in {"none", "nth", "return"},
         call'.op \in {"nth", "return"} \/ call' = NoCall,
         call' \in [op : {"none", "copy", "delete", "nth", "return"}, list : Objects,
                    from : Objects, it : Pointers, p1 : Pointers, nth : Nat, left : Nat],
         Window', NthFound'
  PROVE  IndInv'
<1>1. call'.op \in {"none", "nth", "return"}
  BY DEF NoCall
<1>2. \A o \in Objects : ~ Dying(o) /\ Entry(o)' = Entry(o)
  BY <1>1 DEF Dying, Entry
<1>3. Typed' /\ Owned'
  BY <1>2, ListsKept DEF IndInv, Typed
<1>4. Spare'
  <2>1. chain'[Temporary] = << >>
    BY <1>2 DEF IndInv, Spare, Objects
  <2> QED
    BY <2>1 DEF Spare
<1> QED
  BY <1>1, <1>3, <1>4 DEF IndInv, Copied

\* The call of get_nth_to_last().
LEMMA NthKeeps ==
  ASSUME IndInv, NEW l \in Lists, NEW nth \in Nths, get_nth_to_last(l, nth)
  PROVE  IndInv'
<1> DEFINE head == lists[l].head_
           s == chain[l]
<1>1. /\ call = NoCall /\ UNCHANGED <<nodes, lists, chain>> /\ l \in Objects
      /\ nth \in Nat /\ nth > 1 /\ nth - 1 \in Nat /\ nth - 1 > 0
  BY NthsAssumption DEF get_nth_to_last, Objects
<1>2. call.op = "none" /\ ~ Dying(l)
  BY <1>1 DEF NoCall, Dying
<1>3. /\ s \in Seq(Addresses) /\ (s = << >> <=> head = Null) /\ head \in Pointers
      /\ s # << >> => head = s[1]
  BY <1>1, <1>2, Ends DEF IndInv, Typed
<1>4. call' = [op |-> IF head = Null THEN "return" ELSE "nth", list |-> l, from |-> Temporary,
               it |-> head, p1 |-> head, nth |-> nth, left |-> nth - 1]
  BY DEF get_nth_to_last, NoCall
<1>5. call' \in [op : {"none", "copy", "delete", "nth", "return"}, list : Objects,
                 from : Objects, it : Pointers, p1 : Pointers, nth : Nat, left : Nat]
  BY <1>1, <1>3, <1>4 DEF Objects
<1>6. /\ call'.op = IF head = Null THEN "return" ELSE "nth"
      /\ call'.list = l /\ call'.it = head /\ call'.p1 = head
      /\ call'.nth = nth /\ call'.left = nth - 1
  BY <1>4
<1>7. CASE head = Null
  <2>1. call'.op = "return" /\ s = << >>
    BY <1>3, <1>6, <1>7
  <2>2. call'.nth > Len(s) /\ chain'[call'.list] = s
    BY <2>1, <1>1, <1>6
  <2>3. NthFound' /\ Window'
    BY <2>1, <2>2, <1>6, <1>7 DEF NthFound, Window
  <2> QED
    BY <2>1, <2>3, <1>1, <1>2, <1>5, WalkKeeps
<1>8. CASE head # Null
  <2>1. call'.op = "nth" /\ 1 \in 1..Len(s) /\ head = s[1] /\ chain'[call'.list] = s
    BY <1>1, <1>3, <1>6, <1>8
  <2>2. 1 - (call'.nth - 1 - call'.left) = 1 /\ 1 = call'.nth - call'.left /\ call'.left < call'.nth
    BY <1>1, <1>6
  <2>3. NthFound' /\ Window'
    <3> HIDE DEF head, s
    <3> QED
      BY <2>1, <2>2, <1>1, <1>6 DEF NthFound, Window
  <2> QED
    BY <2>1, <2>3, <1>1, <1>2, <1>5, WalkKeeps
<1> QED
  BY <1>7, <1>8

\* The window opens.
LEMMA WidenKeeps ==
  ASSUME IndInv, Widen
  PROVE  IndInv'
<1> DEFINE s == chain[call.list]
<1>0. /\ call.op = "nth" /\ call.left > 0 /\ UNCHANGED <<nodes, lists, chain>>
      /\ call' = IF After(call.it) = Null THEN [call EXCEPT !.op = "return", !.p1 = Null]
                 ELSE [call EXCEPT !.it = After(call.it), !.left = call.left - 1]
  BY DEF Widen
<1>1. /\ call \in [op : {"none", "copy", "delete", "nth", "return"}, list : Objects,
                   from : Objects, it : Pointers, p1 : Pointers, nth : Nat, left : Nat]
      /\ s \in Seq(Addresses) /\ Len(s) \in Nat
  BY DEF IndInv, Typed
<1>2. PICK i \in 1..Len(s) :
        /\ i = call.nth - call.left
        /\ call.it = s[i]
        /\ call.p1 = s[i - (call.nth - 1 - call.left)]
  BY <1>0 DEF IndInv, Window
<1>3. /\ After(call.it) \in Pointers
      /\ After(call.it) = Null <=> i = Len(s)
      /\ i # Len(s) => i + 1 \in 1..Len(s) /\ After(call.it) = s[i + 1]
  <2>1. call.list \in Objects
    BY <1>1
  <2>2. /\ After(s[i]) \in Pointers
        /\ After(s[i]) = Null <=> i = Len(s)
        /\ i # Len(s) => i + 1 \in 1..Len(s) /\ After(s[i]) = s[i + 1]
    BY <2>1, NextNode
  <2> QED
    BY <1>2, <2>2
<1>4. call.nth > 1 /\ call.left < call.nth
  BY <1>0 DEF IndInv, Window
<1>5. CASE After(call.it) = Null
  <2>1. /\ call'.op = "return" /\ call'.p1 = Null /\ call'.list = call.list /\ call'.nth = call.nth
        /\ call' \in [op : {"none", "copy", "delete", "nth", "return"}, list : Objects,
                      from : Objects, it : Pointers, p1 : Pointers, nth : Nat, left : Nat]
    BY <1>0, <1>1, <1>5 DEF Pointers
  <2>2. call.nth > Len(s)
    BY <1>0, <1>1, <1>2, <1>3, <1>5
  <2>3. NthFound' /\ Window'
    BY <2>1, <2>2, <1>0 DEF NthFound, Window
  <2> QED
    BY <2>1, <2>3, <1>0, WalkKeeps
<1>6. CASE After(call.it) # Null
  <2>1. /\ call'.op = "nth" /\ call'.p1 = call.p1 /\ call'.list = call.list /\ call'.nth = call.nth
        /\ call'.it = s[i + 1] /\ call'.left = call.left - 1 /\ i + 1 \in 1..Len(s)
        /\ call.left - 1 \in Nat
        /\ call' \in [op : {"none", "copy", "delete", "nth", "return"}, list : Objects,
                      from : Objects, it : Pointers, p1 : Pointers, nth : Nat, left : Nat]
    <3>1. call.left - 1 \in Nat
      BY <1>0, <1>1
    <3>2. call' = [call EXCEPT !.it = After(call.it), !.left = call.left - 1]
      BY <1>0, <1>6
    <3>3. i # Len(s) /\ i + 1 \in 1..Len(s) /\ After(call.it) = s[i + 1] /\ After(call.it) \in Pointers
      BY <1>3, <1>6
    <3> HIDE DEF s
    <3> QED
      BY <1>0, <1>1, <3>1, <3>2, <3>3
  <2>2. /\ i + 1 = call.nth - (call.left - 1)
        /\ (i + 1) - (call.nth - 1 - (call.left - 1)) = i - (call.nth - 1 - call.left)
        /\ call.left - 1 < call.nth
    <3>1. call.nth \in Nat /\ call.left \in Nat /\ i \in Nat
      BY <1>1
    <3> QED
      BY <3>1, <1>2, <1>4
  <2>3. NthFound' /\ Window'
    <3> DEFINE j == i + 1
    <3>1. /\ j \in 1..Len(s) /\ j >= call'.nth - call'.left /\ j = call'.nth - call'.left
          /\ call'.it = s[j] /\ call'.p1 = s[j - (call'.nth - 1 - call'.left)]
          /\ chain'[call'.list] = s /\ call'.nth > 1 /\ call'.left < call'.nth
      <4>1. chain'[call'.list] = s
        BY <2>1, <1>0
      <4>2. i + 1 \in Nat
        BY <2>1
      <4>3. j = call'.nth - call'.left /\ j >= call'.nth - call'.left
        BY <4>2, <2>1, <2>2
      <4>4. j - (call'.nth - 1 - call'.left) = i - (call.nth - 1 - call.left)
        BY <2>1, <2>2
      <4>5. call'.p1 = s[j - (call'.nth - 1 - call'.left)]
        BY <4>4, <2>1, <1>2
      <4>6. call'.it = s[j] /\ j \in 1..Len(s) /\ call'.nth > 1 /\ call'.left < call'.nth
        BY <2>1, <2>2, <1>4
      <4> QED
        BY <4>1, <4>3, <4>5, <4>6
    <3> HIDE DEF j, s
    <3> QED
      BY <2>1, <3>1 DEF NthFound, Window
  <2> QED
    BY <2>1, <2>3, <1>0, WalkKeeps
<1> QED
  BY <1>5, <1>6

\* The open window moves.
LEMMA SlideKeeps ==
  ASSUME IndInv, Slide
  PROVE  IndInv'
<1> DEFINE s == chain[call.list]
<1>0. /\ call.op = "nth" /\ call.left = 0 /\ UNCHANGED <<nodes, lists, chain>>
      /\ call' = IF After(call.it) = Null THEN [call EXCEPT !.op = "return"]
                 ELSE [call EXCEPT !.it = After(call.it), !.p1 = After(call.p1)]
  BY DEF Slide
<1>1. /\ call \in [op : {"none", "copy", "delete", "nth", "return"}, list : Objects,
                   from : Objects, it : Pointers, p1 : Pointers, nth : Nat, left : Nat]
      /\ s \in Seq(Addresses) /\ Len(s) \in Nat
  BY DEF IndInv, Typed
<1>2. PICK i \in 1..Len(s) :
        /\ i >= call.nth - call.left
        /\ call.it = s[i]
        /\ call.p1 = s[i - (call.nth - 1 - call.left)]
  BY <1>0 DEF IndInv, Window
<1>3. call.nth > 1 /\ call.nth \in Nat
  BY <1>0, <1>1 DEF IndInv, Window
<1> DEFINE k == i - (call.nth - 1)
<1>4. k \in 1..Len(s) /\ k < i /\ call.p1 = s[k]
  BY <1>0, <1>2, <1>3
<1>5. /\ After(call.it) \in Pointers
      /\ After(call.it) = Null <=> i = Len(s)
      /\ i # Len(s) => i + 1 \in 1..Len(s) /\ After(call.it) = s[i + 1]
  <2>1. call.list \in Objects
    BY <1>1
  <2>2. /\ After(s[i]) \in Pointers
        /\ After(s[i]) = Null <=> i = Len(s)
        /\ i # Len(s) => i + 1 \in 1..Len(s) /\ After(s[i]) = s[i + 1]
    BY <2>1, NextNode
  <2> QED
    BY <1>2, <2>2
<1>6. /\ After(call.p1) \in Pointers
      /\ k # Len(s) => After(call.p1) = s[k + 1]
  <2> HIDE DEF k
  <2> QED
    BY <1>1, <1>4, NextNode
<1>7. CASE After(call.it) = Null
  <2>1. /\ call'.op = "return" /\ call'.p1 = call.p1 /\ call'.list = call.list /\ call'.nth = call.nth
        /\ call' \in [op : {"none", "copy", "delete", "nth", "return"}, list : Objects,
                      from : Objects, it : Pointers, p1 : Pointers, nth : Nat, left : Nat]
    BY <1>0, <1>1, <1>7
  <2>2. ~ (call.nth > Len(s)) /\ k = Len(s) - call.nth + 1
    <3>1. i = Len(s) /\ i \in Nat
      BY <1>1, <1>5, <1>7
    <3>2. i >= call.nth
      BY <1>0, <1>2, <1>3
    <3> HIDE DEF s
    <3> QED
      BY <3>1, <3>2, <1>3
  <2>3. NthFound' /\ Window'
    <3> HIDE DEF k
    <3> QED
      BY <2>1, <2>2, <1>0, <1>4 DEF NthFound, Window
  <2> QED
    BY <2>1, <2>3, <1>0, WalkKeeps
<1>8. CASE After(call.it) # Null
  <2>1. /\ call'.op = "nth" /\ call'.p1 = After(call.p1) /\ call'.list = call.list
        /\ call'.nth = call.nth /\ call'.left = 0 /\ call'.it = s[i + 1] /\ i + 1 \in 1..Len(s)
        /\ call' \in [op : {"none", "copy", "delete", "nth", "return"}, list : Objects,
                      from : Objects, it : Pointers, p1 : Pointers, nth : Nat, left : Nat]
    BY <1>0, <1>1, <1>5, <1>6, <1>8
  <2>2. k # Len(s) /\ k + 1 = (i + 1) - (call.nth - 1 - 0) /\ i + 1 >= call.nth - 0
    BY <1>0, <1>1, <1>2, <1>3, <1>4
  <2>3. NthFound' /\ Window'
    <3> DEFINE j == i + 1
    <3>1. /\ j \in 1..Len(s) /\ j >= call'.nth - call'.left /\ ~ (call'.left > 0)
          /\ call'.it = s[j] /\ call'.p1 = s[j - (call'.nth - 1 - call'.left)]
          /\ chain'[call'.list] = s /\ call'.nth > 1 /\ call'.left < call'.nth
      BY <2>1, <2>2, <1>0, <1>3, <1>6
    <3> HIDE DEF j, s
    <3> QED
      BY <2>1, <3>1 DEF NthFound, Window
  <2> QED
    BY <2>1, <2>3, <1>0, WalkKeeps
<1> QED
  BY <1>7, <1>8

\* The answer is given.
LEMMA ReturnKeeps ==
  ASSUME IndInv, Return
  PROVE  IndInv'
<1>1. call.op = "return" /\ call' = NoCall /\ UNCHANGED <<nodes, lists, chain>>
  BY DEF Return
<1>2. NoCall \in [op : {"none", "copy", "delete", "nth", "return"}, list : Objects,
                  from : Objects, it : Pointers, p1 : Pointers, nth : Nat, left : Nat]
  BY DEF NoCall, Objects, Pointers
<1>3. Window' /\ NthFound'
  BY <1>1 DEF NoCall, Window, NthFound
<1> QED
  BY <1>1, <1>2, <1>3, WalkKeeps

-----------------------------------------------------------------------------
\* At the start no list has a node.
LEMMA InitOwned == ListInit => IndInv
<1> SUFFICES ASSUME ListInit PROVE IndInv
  OBVIOUS
<1>1. /\ nodes = << >> /\ DOMAIN nodes = {} /\ call = NoCall /\ call.op = "none"
      /\ lists = [l \in Objects |-> [head_ |-> Null, tail_ |-> Null]]
      /\ chain = [l \in Objects |-> << >>]
  BY DEF ListInit, NoCall, NewList
<1>2. Typed
  <2>1. NoCall \in [op : {"none", "copy", "delete", "nth", "return"}, list : Objects,
                    from : Objects, it : Pointers, p1 : Pointers, nth : Nat, left : Nat]
    BY DEF NoCall, Objects, Pointers
  <2>2. [head_ |-> Null, tail_ |-> Null] \in [head_ : Pointers, tail_ : Pointers]
    BY DEF Pointers
  <2>3. << >> \in Seq(Addresses)
    OBVIOUS
  <2> QED
    BY <1>1, <2>1, <2>2, <2>3 DEF Typed
<1>3. \A l \in Objects : /\ chain[l] = << >> /\ 1..Len(chain[l]) = {} /\ ~ Dying(l)
                         /\ Entry(l) = Null /\ lists[l].tail_ = Null
  BY <1>1 DEF Entry, Dying
<1>4. Owned
  <2>1. \A l \in Objects : Threaded(l)
    BY <1>3 DEF Threaded
  <2>2. Apart /\ Covered
    BY <1>1, <1>3 DEF Apart, Covered
  <2> QED
    BY <2>1, <2>2 DEF Owned
<1> QED
  BY <1>1, <1>2, <1>3, <1>4 DEF IndInv, Spare, Copied, Window, NthFound, Objects

\* Every step keeps the invariant.
LEMMA NextOwned == IndInv /\ [ListNext]_listVars => IndInv'
<1> SUFFICES ASSUME IndInv, [ListNext]_listVars PROVE IndInv'
  OBVIOUS
<1>1. ASSUME NEW l \in Lists, NEW e \in Elems, push_back(l, e) PROVE IndInv'
  BY <1>1, PushBackKeeps
<1>2. ASSUME NEW l \in Lists, NEW r \in Lists, swap(l, r) \/ assign(l, r) PROVE IndInv'
  BY <1>2, SwapKeeps, AssignKeeps
<1>3. ASSUME CopyElement \/ CopyThrows \/ Replace PROVE IndInv'
  BY <1>3, CopyElementKeeps, CopyThrowsKeeps, ReplaceKeeps
<1>4. ASSUME NEW l \in Lists, renew(l) PROVE IndInv'
  BY <1>4, RenewKeeps
<1>5. ASSUME DeleteNode \/ Destroyed PROVE IndInv'
  BY <1>5, DeleteNodeKeeps, DestroyedKeeps
<1>6. ASSUME NEW l \in Lists, NEW nth \in Nths, get_nth_to_last(l, nth) PROVE IndInv'
  BY <1>6, NthKeeps
<1>7. ASSUME Widen \/ Slide \/ Return PROVE IndInv'
  BY <1>7, WidenKeeps, SlideKeeps, ReturnKeeps
<1>8. ASSUME UNCHANGED listVars PROVE IndInv'
  BY <1>8 DEF listVars, IndInv, Typed, Owned, Threaded, Entry, Dying, Apart, Covered,
              Spare, Copied, Window, NthFound
<1> QED
  BY <1>1, <1>2, <1>3, <1>4, <1>5, <1>6, <1>7, <1>8 DEF ListNext

\* crack_code_lists.cc:54-223: the nodes of every list, the progress of a copy
\* and the window of get_nth_to_last() stay as IndInv says.
THEOREM ListInvariant == ListSpec => []IndInv
BY InitOwned, NextOwned, PTL DEF ListSpec

\* crack_code_lists.cc:217: no node leaks and none is deleted twice, for any
\* lists and memory, wherever a copy throws; get_nth_to_last() finds its node.
THEOREM ListMemoryOwned == ListSpec => []MemoryOwned
<1>1. IndInv => MemoryOwned
  BY DEF IndInv, Owned, Spare, MemoryOwned, NoCall, Dying
<1> QED
  BY <1>1, ListInvariant, PTL

-----------------------------------------------------------------------------
\* The elements of a list, in order.
LEMMA ElementsType ==
  ASSUME IndInv, NEW l \in Objects
  PROVE  /\ chain[l] \in Seq(Addresses) /\ Len(chain[l]) \in Nat
         /\ Elements(l) \in Seq(Elems)
         /\ Len(Elements(l)) = Len(chain[l])
         /\ \A i \in 1..Len(chain[l]) : /\ chain[l][i] \in DOMAIN nodes
                                        /\ Elements(l)[i] = nodes[chain[l][i]].elem
<1>1. chain[l] \in Seq(Addresses) /\ Len(chain[l]) \in Nat
  BY DEF IndInv, Typed
<1>2. \A i \in 1..Len(chain[l]) : chain[l][i] \in DOMAIN nodes
  BY DEF IndInv, Owned, Threaded
<1>3. \A i \in 1..Len(chain[l]) : nodes[chain[l][i]].elem \in Elems
  BY <1>2 DEF IndInv, Typed
<1>4. Elements(l) \in [1..Len(chain[l]) -> Elems]
  BY <1>3 DEF Elements
<1>5. \A i \in 1..Len(chain[l]) : Elements(l)[i] = nodes[chain[l][i]].elem
  BY DEF Elements
<1> HIDE DEF Elements
<1> QED
  BY <1>1, <1>2, <1>4, <1>5, SeqDef, LenProperties

\* A step that neither changes a list's nodes nor their elements.
LEMMA ElementsKept ==
  ASSUME IndInv, NEW l \in Objects, NEW r \in Objects, chain'[r] = chain[l],
         \A i \in 1..Len(chain[l]) : nodes'[chain[l][i]].elem = nodes[chain[l][i]].elem
  PROVE  Elements(r)' = Elements(l)
BY DEF Elements

\* What the user sees of a list.
LEMMA ContentsOf ==
  ASSUME NEW l \in Lists
  PROVE  /\ l \in Objects /\ l # Temporary
         /\ Contents[l] = IF Dying(l) THEN << >> ELSE Elements(l)
         /\ Contents'[l] = IF Dying(l)' THEN << >> ELSE Elements(l)'
BY ObjectsAssumption DEF Contents, Objects

\* A step that nobody sees.
LEMMA NothingSeen ==
  ASSUME \A l \in Lists : Contents'[l] = Contents[l]
  PROVE  UNCHANGED Contents
BY DEF Contents

\* A step that one list's user sees.
LEMMA OneSeen ==
  ASSUME NEW l \in Lists, NEW v, Contents'[l] = v,
         \A r \in Lists \ {l} : Contents'[r] = Contents[r]
  PROVE  Contents' = [Contents EXCEPT ![l] = v]
<1>1. /\ Contents = [r \in Lists |-> Contents[r]]
      /\ Contents' = [r \in Lists |-> Contents'[r]]
  BY DEF Contents
<1> HIDE DEF Contents
<1> QED
  BY <1>1

\* push_back() appends its element.
LEMMA PushBackRefines ==
  ASSUME IndInv, IndInv', NEW l \in Lists, NEW e \in Elems, push_back(l, e)
  PROVE  Sequence!PushBack(l, e)
<1>1. call = NoCall /\ call' = call /\ PushBack(l, e) /\ l \in Objects
  BY DEF push_back, Objects
<1>2. call.op = "none" /\ call'.op = "none" /\ \A o \in Objects : ~ Dying(o) /\ ~ Dying(o)'
  BY <1>1 DEF NoCall, Dying
<1>3. /\ chain \in [Objects -> Seq(Addresses)]
      /\ \A p \in DOMAIN nodes : p \in DOMAIN nodes' /\ nodes'[p].elem = nodes[p].elem
      /\ \E ptr \in Addresses : /\ chain' = [chain EXCEPT ![l] = Append(chain[l], ptr)]
                                /\ nodes'[ptr].elem = e
  BY <1>1, <1>2, PushBackStep DEF IndInv, Typed
<1>4. PICK ptr \in Addresses : /\ chain' = [chain EXCEPT ![l] = Append(chain[l], ptr)]
                               /\ nodes'[ptr].elem = e
  BY <1>3
<1> DEFINE s == chain[l]
           a == Elements(l)
           b == Append(a, e)
           c == Elements(l)'
<1>5. /\ s \in Seq(Addresses) /\ Len(s) \in Nat
      /\ a \in Seq(Elems) /\ Len(a) = Len(s)
      /\ \A i \in 1..Len(s) : s[i] \in DOMAIN nodes /\ a[i] = nodes[s[i]].elem
  BY <1>1, ElementsType
<1>6. /\ chain'[l] = Append(s, ptr)
      /\ \A r \in Objects \ {l} : chain'[r] = chain[r]
  BY <1>1, <1>3, <1>4
<1>7. /\ Len(Append(s, ptr)) = Len(s) + 1
      /\ \A i \in 1..Len(s) : Append(s, ptr)[i] = s[i]
      /\ Append(s, ptr)[Len(s) + 1] = ptr
  BY <1>5
<1>8. /\ c \in Seq(Elems) /\ Len(c) = Len(s) + 1
      /\ \A i \in 1..(Len(s) + 1) : c[i] = nodes'[Append(s, ptr)[i]].elem
  <2>1. /\ Elements(l)' \in Seq(Elems)
        /\ Len(Elements(l)') = Len(chain'[l])
        /\ \A i \in 1..Len(chain'[l]) : Elements(l)'[i] = nodes'[chain'[l][i]].elem
    <3>1. /\ chain'[l] \in Seq(Addresses)
          /\ \A i \in 1..Len(chain'[l]) : nodes'[chain'[l][i]].elem \in Elems
      <4>1. \A i \in 1..Len(chain'[l]) : chain'[l][i] \in DOMAIN nodes'
        BY <1>1 DEF IndInv, Owned, Threaded
      <4> QED
        BY <4>1, <1>1 DEF IndInv, Typed
    <3> DEFINE d == Elements(l)'
               q == chain'[l]
    <3>2. /\ d \in [1..Len(q) -> Elems] /\ q \in Seq(Addresses)
          /\ \A i \in 1..Len(q) : d[i] = nodes'[q[i]].elem
      BY <3>1 DEF Elements
    <3>3. d \in Seq(Elems) /\ Len(d) = Len(q)
      <4> HIDE DEF d, q
      <4> QED
        BY <3>2, SeqDef, LenProperties
    <3> QED
      BY <3>2, <3>3
  <2> HIDE DEF c, s
  <2> QED
    BY <2>1, <1>6, <1>7 DEF c
<1>9. /\ b \in Seq(Elems) /\ Len(b) = Len(s) + 1
      /\ \A i \in 1..Len(s) : b[i] = a[i]
      /\ b[Len(s) + 1] = e
  <2> HIDE DEF a
  <2> QED
    BY <1>5, AppendProperties
<1> HIDE DEF b, c, s, a
<1>10. ASSUME NEW i \in 1..(Len(s) + 1) PROVE c[i] = b[i]
  <2>1. CASE i = Len(s) + 1
    BY <2>1, <1>4, <1>7, <1>8, <1>9
  <2>2. CASE i \in 1..Len(s)
    <3>1. c[i] = nodes'[s[i]].elem
      BY <2>2, <1>7, <1>8
    <3>2. s[i] \in DOMAIN nodes /\ a[i] = nodes[s[i]].elem
      BY <2>2, <1>5
    <3> QED
      BY <2>2, <3>1, <3>2, <1>3, <1>9
  <2> QED
    BY <2>1, <2>2, <1>5
<1>11. c = b
  BY <1>8, <1>9, <1>10, SeqEqual
<1>12. Contents[l] = a /\ Contents'[l] = Append(Contents[l], e)
  BY <1>1, <1>2, <1>11, ContentsOf DEF a, b, c
<1>13. ASSUME NEW r \in Lists \ {l} PROVE Contents'[r] = Contents[r]
  <2>1. r \in Objects /\ chain'[r] = chain[r]
    BY <1>6, ContentsOf
  <2>2. \A i \in 1..Len(chain[r]) : nodes'[chain[r][i]].elem = nodes[chain[r][i]].elem
    BY <2>1, <1>3, ElementsType
  <2> QED
    BY <2>1, <2>2, <1>2, ElementsKept, ContentsOf
<1> QED
  BY <1>12, <1>13, OneSeen DEF Sequence!PushBack

\* swap() exchanges the contents.
LEMMA SwapRefines ==
  ASSUME IndInv, NEW l \in Lists, NEW r \in Lists, swap(l, r)
  PROVE  Sequence!Swap(l, r)
<1>1. /\ call = NoCall /\ call' = call /\ UNCHANGED nodes /\ chain' = Swapped(chain, l, r)
      /\ l \in Objects /\ r \in Objects
      /\ \A o \in Objects : ~ Dying(o) /\ ~ Dying(o)'
  BY DEF swap, Objects, NoCall, Dying
<1>2. ASSUME NEW o \in Lists
      PROVE  Contents'[o] = Contents[IF o = r THEN l ELSE IF o = l THEN r ELSE o]
  <2> DEFINE q == IF o = r THEN l ELSE IF o = l THEN r ELSE o
  <2>1. q \in Lists /\ q \in Objects /\ o \in Objects /\ chain'[o] = chain[q]
    BY <1>1 DEF IndInv, Typed, Swapped, Objects
  <2> HIDE DEF q
  <2>2. Elements(o)' = Elements(q)
    BY <2>1, <1>1, ElementsKept
  <2>3. Contents'[o] = Contents[q]
    BY <2>1, <2>2, <1>1, ContentsOf
  <2> QED
    BY <2>3 DEF q
<1>3. /\ Contents = [o \in Lists |-> Contents[o]]
      /\ Contents' = [o \in Lists |-> Contents'[o]]
  BY DEF Contents
<1>4. Contents' = [Contents EXCEPT ![l] = Contents[r], ![r] = Contents[l]]
  <2> HIDE DEF Contents
  <2> QED
    BY <1>2, <1>3
<1> QED
  BY <1>4 DEF Sequence!Swap

\* The complete copy is equal to the original.
LEMMA ReplaceRefines ==
  ASSUME IndInv, Replace
  PROVE  Sequence!Assign(call.list, call.from) /\ call.list \in Lists /\ call.from \in Lists
<1>1. /\ call.op = "copy" /\ call.it = Null /\ UNCHANGED nodes
      /\ chain' = Swapped(chain, call.list, Temporary)
      /\ call' = Destructor(Temporary, lists[call.list].head_)
  BY DEF Replace
<1>2. /\ call.list \in Lists /\ call.from \in Lists
      /\ call.list \in Objects /\ call.from \in Objects /\ Temporary \in Objects
      /\ call.list # Temporary
      /\ \A o \in Objects : ~ Dying(o)
      /\ Len(chain[Temporary]) = Len(chain[call.from])
  BY <1>1, CopyFacts
<1>3. call'.op = "delete" /\ call'.list = Temporary
  BY <1>1 DEF Destructor, NoCall
<1>4. \A o \in Lists : ~ Dying(o)'
  BY <1>3, ObjectsAssumption DEF Dying
<1>5. /\ chain'[call.list] = chain[Temporary]
      /\ \A o \in Objects \ {call.list, Temporary} : chain'[o] = chain[o]
  BY <1>1, <1>2 DEF IndInv, Typed, Swapped
<1>a. PICK l \in Lists : l = call.list
  BY <1>2
<1>6. Elements(l)' = Elements(Temporary)
  BY <1>1, <1>2, <1>5, <1>a, ElementsKept
<1>7. Elements(Temporary) = Elements(call.from)
  <2>1. \A i \in 1..Len(chain[Temporary]) :
          nodes[chain[Temporary][i]].elem = nodes[chain[call.from][i]].elem
    BY <1>1 DEF IndInv, Copied
  <2> QED
    BY <2>1, <1>2 DEF Elements
<1>8. Contents'[l] = Contents[call.from]
  <2>1. Contents'[l] = Elements(l)'
    BY <1>4, ContentsOf
  <2>2. Contents[call.from] = Elements(call.from)
    BY <1>2, ContentsOf
  <2> QED
    BY <2>1, <2>2, <1>6, <1>7
<1>9. ASSUME NEW o \in Lists \ {l} PROVE Contents'[o] = Contents[o]
  <2>1. o \in Objects /\ o # Temporary /\ chain'[o] = chain[o]
    BY <1>5, <1>a, ContentsOf
  <2>2. Elements(o)' = Elements(o)
    BY <2>1, <1>1, ElementsKept
  <2> QED
    BY <2>1, <2>2, <1>2, <1>4, ContentsOf
<1>10. Contents' = [Contents EXCEPT ![l] = Contents[call.from]]
  BY <1>8, <1>9, OneSeen
<1> QED
  BY <1>2, <1>10, <1>a DEF Sequence!Assign

\* A list whose scope ends is replaced by an empty one.
LEMMA RenewRefines ==
  ASSUME IndInv, NEW l \in Lists, renew(l)
  PROVE  Sequence!Clear(l)
<1>1. /\ call = NoCall /\ UNCHANGED <<nodes, lists, chain>>
      /\ call' = Destructor(l, lists[l].head_)
      /\ call.op = "none"
  BY DEF renew, NoCall
<1>2. call'.op = "delete" /\ call'.list = l
  BY <1>1 DEF Destructor, NoCall
<1>3. Contents'[l] = << >>
  BY <1>2, ContentsOf DEF Dying
<1>4. ASSUME NEW o \in Lists \ {l} PROVE Contents'[o] = Contents[o]
  <2>1. o \in Objects /\ ~ Dying(o) /\ ~ Dying(o)' /\ chain'[o] = chain[o]
    BY <1>1, <1>2, ContentsOf DEF Dying
  <2>2. Elements(o)' = Elements(o)
    BY <2>1, <1>1, ElementsKept
  <2> QED
    BY <2>1, <2>2, ContentsOf
<1> QED
  BY <1>3, <1>4, OneSeen DEF Sequence!Clear

\* While the copy is made only the temporary list grows.
LEMMA CopyElementRefines ==
  ASSUME IndInv, IndInv', CopyElement
  PROVE  UNCHANGED Contents
<1>1. /\ call.op = "copy" /\ call.it # Null
      /\ PushBack(Temporary, nodes[call.it].elem)
      /\ call' = [call EXCEPT !.it = nodes[call.it].next]
  BY DEF CopyElement
<1>2. Temporary \in Objects /\ nodes[call.it].elem \in Elems /\ call'.op = "copy"
  BY <1>1, CopyFacts DEF IndInv, Typed
<1>3. /\ \A p \in DOMAIN nodes : nodes'[p].elem = nodes[p].elem
      /\ \E ptr \in Addresses : chain' = [chain EXCEPT ![Temporary] = Append(chain[Temporary], ptr)]
  <2>1. PICK e \in Elems : e = nodes[call.it].elem
    BY <1>2
  <2>2. PushBack(Temporary, e) /\ call.op # "delete" /\ call'.op # "delete"
    BY <1>1, <1>2, <2>1
  <2> QED
    BY <1>2, <2>1, <2>2, PushBackStep DEF IndInv
<1>4. ASSUME NEW o \in Lists PROVE Contents'[o] = Contents[o]
  <2>1. o \in Objects /\ ~ Dying(o) /\ ~ Dying(o)' /\ chain'[o] = chain[o]
    BY <1>1, <1>2, <1>3, ContentsOf DEF Dying, IndInv, Typed
  <2>2. \A i \in 1..Len(chain[o]) : nodes'[chain[o][i]].elem = nodes[chain[o][i]].elem
    BY <2>1, <1>3, ElementsType
  <2> QED
    BY <2>1, <2>2, ElementsKept, ContentsOf
<1> QED
  BY <1>4, NothingSeen

\* While a destructor runs its list is already empty, and no other changes.
LEMMA DestructorRefines ==
  ASSUME IndInv, DeleteNode \/ Destroyed
  PROVE  UNCHANGED Contents
<1>1. call.op = "delete"
  BY DEF DeleteNode, Destroyed
<1>2. /\ call.list \in Objects
      /\ \A o \in Objects : Dying(o) <=> o = call.list
      /\ call.it = Null <=> chain[call.list] = << >>
      /\ call.it # Null => call.it = chain[call.list][1] /\ 1 \in 1..Len(chain[call.list])
  BY <1>1, DeleteFacts
<1>3. ASSUME NEW o \in Lists PROVE Contents'[o] = Contents[o]
  <2>0. o \in Objects
    BY ContentsOf
  <2>1. CASE DeleteNode
    <3>1. /\ call.it # Null
          /\ nodes' = [p \in DOMAIN nodes \ {call.it} |-> nodes[p]]
          /\ chain' = [chain EXCEPT ![call.list] = Tail(chain[call.list])]
          /\ call' = [call EXCEPT !.it = nodes[call.it].next]
      BY <2>1 DEF DeleteNode
    <3>2. call'.op = "delete" /\ call'.list = call.list /\ (Dying(o)' <=> Dying(o))
      BY <1>1, <3>1 DEF Dying, IndInv, Typed
    <3>3. CASE o = call.list
      <4>1. Dying(o) /\ Dying(o)'
        BY <1>2, <2>0, <3>2, <3>3
      <4> QED
        BY <4>1, ContentsOf
    <3>4. CASE o # call.list
      <4>1. chain'[o] = chain[o] /\ ~ Dying(o) /\ ~ Dying(o)'
        <5>1. chain'[o] = chain[o]
          BY <1>2, <2>0, <3>1, <3>4 DEF IndInv, Typed
        <5>2. ~ Dying(o) /\ ~ Dying(o)'
          BY <1>2, <2>0, <3>2, <3>4 DEF Dying
        <5> QED
          BY <5>1, <5>2
      <4>2. ASSUME NEW i \in 1..Len(chain[o])
            PROVE  nodes'[chain[o][i]].elem = nodes[chain[o][i]].elem
        <5>1. chain[o][i] # call.it
          BY <1>2, <2>0, <3>1, <3>4 DEF IndInv, Owned, Apart
        <5>2. chain[o][i] \in DOMAIN nodes
          BY <2>0, ElementsType
        <5> QED
          BY <5>1, <5>2, <3>1
      <4> QED
        BY <2>0, <4>1, <4>2, ElementsKept, ContentsOf
    <3> QED
      BY <3>3, <3>4
  <2>2. CASE Destroyed
    <3>1. call.it = Null /\ call'.op = "none" /\ ~ Dying(o)' /\ UNCHANGED <<nodes, chain>>
      BY <2>2 DEF Destroyed, NoCall, Dying
    <3>2. Elements(o)' = Elements(o)
      BY <2>0, <3>1, ElementsKept
    <3>3. CASE o = call.list
      <4>1. Elements(o) = << >>
        <5>1. Elements(o) \in Seq(Elems) /\ Len(Elements(o)) = 0
          BY <3>1, <3>3, <1>2, <2>0, ElementsType
        <5> HIDE DEF Elements
        <5> QED
          BY <5>1, EmptySeq
      <4> QED
        BY <4>1, <3>1, <3>2, <3>3, <1>2, ContentsOf
    <3>4. CASE o # call.list
      BY <3>1, <3>2, <3>4, <1>2, <2>0, ContentsOf
    <3> QED
      BY <3>3, <3>4
  <2> QED
    BY <2>1, <2>2
<1> QED
  BY <1>3, NothingSeen

\* The start of an operator=, its failure, and get_nth_to_last() change no list.
LEMMA QuietRefines ==
  ASSUME IndInv, UNCHANGED <<nodes, chain>>, \A o \in Lists : Dying(o)' <=> Dying(o)
  PROVE  UNCHANGED Contents
<1>1. ASSUME NEW o \in Lists PROVE Contents'[o] = Contents[o]
  <2>1. o \in Objects /\ Elements(o)' = Elements(o)
    BY ContentsOf, ElementsKept
  <2> QED
    BY <2>1, ContentsOf
<1> QED
  BY <1>1, NothingSeen

\* At the start every list is empty.
LEMMA ListInitRefines == ListInit => Sequence!Init
<1> SUFFICES ASSUME ListInit PROVE Sequence!Init
  OBVIOUS
<1>1. ASSUME NEW o \in Lists PROVE Contents[o] = << >>
  <2>1. o \in Objects /\ ~ Dying(o) /\ chain[o] = << >> /\ IndInv
    BY ContentsOf, InitOwned DEF ListInit, NoCall, Dying
  <2>2. Elements(o) \in Seq(Elems) /\ Len(Elements(o)) = 0
    BY <2>1, ElementsType
  <2>3. Elements(o) = << >>
    <3> HIDE DEF Elements
    <3> QED
      BY <2>2, EmptySeq
  <2> QED
    BY <2>1, <2>3, ContentsOf
<1> QED
  BY <1>1 DEF Sequence!Init, Contents

\* Every step is an operation on the sequences, or none that is seen.
LEMMA ListNextRefines ==
  IndInv /\ IndInv' /\ [ListNext]_listVars => [Sequence!Next]_Contents
<1> SUFFICES ASSUME IndInv, IndInv', [ListNext]_listVars
             PROVE  [Sequence!Next]_Contents
  OBVIOUS
<1>1. ASSUME NEW l \in Lists, NEW e \in Elems, push_back(l, e) PROVE Sequence!Next
  BY <1>1, PushBackRefines DEF Sequence!Next
<1>2. ASSUME NEW l \in Lists, NEW r \in Lists, swap(l, r) PROVE Sequence!Next
  BY <1>2, SwapRefines DEF Sequence!Next
<1>3. ASSUME NEW l \in Lists, NEW r \in Lists, assign(l, r) PROVE UNCHANGED Contents
  <2>1. /\ UNCHANGED <<nodes, chain>>
        /\ \A o \in Lists : Dying(o)' <=> Dying(o)
    BY <1>3 DEF assign, NoCall, Dying
  <2> QED
    BY <2>1, QuietRefines
<1>4. ASSUME CopyThrows PROVE UNCHANGED Contents
  <2>1. /\ UNCHANGED <<nodes, chain>>
        /\ \A o \in Lists : Dying(o)' <=> Dying(o)
    BY <1>4, ObjectsAssumption DEF CopyThrows, Destructor, NoCall, Dying
  <2> QED
    BY <2>1, QuietRefines
<1>5. ASSUME Replace PROVE Sequence!Next
  BY <1>5, ReplaceRefines DEF Sequence!Next
<1>6. ASSUME NEW l \in Lists, renew(l) PROVE Sequence!Next
  BY <1>6, RenewRefines DEF Sequence!Next
<1>7. ASSUME NEW l \in Lists, NEW nth \in Nths, get_nth_to_last(l, nth) PROVE UNCHANGED Contents
  <2>1. /\ UNCHANGED <<nodes, chain>>
        /\ \A o \in Lists : Dying(o)' <=> Dying(o)
    BY <1>7 DEF get_nth_to_last, NoCall, Dying
  <2> QED
    BY <2>1, QuietRefines
<1>8. ASSUME Widen \/ Slide \/ Return PROVE UNCHANGED Contents
  <2>1. UNCHANGED <<nodes, chain>>
    BY <1>8 DEF Widen, Slide, Return
  <2>2. call \in [op : {"none", "copy", "delete", "nth", "return"}, list : Objects,
                   from : Objects, it : Pointers, p1 : Pointers, nth : Nat, left : Nat]
    BY DEF IndInv, Typed
  <2>3. call.op # "delete" /\ call'.op # "delete"
    <3>1. CASE Widen
      BY <3>1, <2>2 DEF Widen
    <3>2. CASE Slide
      BY <3>2, <2>2 DEF Slide
    <3>3. CASE Return
      BY <3>3 DEF Return, NoCall
    <3> QED
      BY <3>1, <3>2, <3>3, <1>8
  <2> QED
    BY <2>1, <2>3, QuietRefines DEF Dying
<1>9. ASSUME UNCHANGED listVars PROVE UNCHANGED Contents
  BY <1>9, QuietRefines DEF listVars, Dying
<1> QED
  BY <1>1, <1>2, <1>3, <1>4, <1>5, <1>6, <1>7, <1>8, <1>9,
     CopyElementRefines, DestructorRefines DEF ListNext

\* crack_code_lists.cc:180: for any lists, elements and memory, lists are
\* sequences to their user: an assignment takes effect at once, when the copy
\* is complete, and one that throws changes nothing.
THEOREM ListImplementsValueLists == ListSpec => ListsAreValues
BY ListInvariant, ListInitRefines, ListNextRefines, PTL
   DEF ListSpec, ListsAreValues, Sequence!Spec
=============================================================================
