---------------------------- MODULE ForwardList -----------------------------
(***************************************************************************)
(* own_forward_list of edu/train/crack_code_lists.cc: a chain of nodes on  *)
(* the heap behind a pointer to the first and one to the last.  Making a   *)
(* node can throw, in the allocation or in the element's copy.             *)
(*                                                                         *)
(* The functions that walk along the nodes do so a node per step: the copy *)
(* constructor, the destructor and get_nth_to_last().  One runs at a time. *)
(***************************************************************************)
EXTENDS Integers, Sequences

CONSTANTS Lists,       \* the list objects
          Temporary,   \* the list that operator= builds and destroys
          Elems,
          Addresses,   \* of nodes; bound: as many as can be alive at once
          Null,
          Nths         \* the arguments of get_nth_to_last()

ASSUME ObjectsAssumption == Temporary \notin Lists /\ Null \notin Addresses

ASSUME NthsAssumption == Nths \subseteq Nat \ {0, 1}   \* assert(nth > 1)

Objects == Lists \cup {Temporary}

VARIABLES nodes,       \* the heap: [elem, next] by address
          lists,       \* [head_, tail_] of every list
          call,        \* the function that walks, and its local pointers
          chain        \* history: the nodes pushed on every list and not deleted

listVars == <<nodes, lists, call, chain>>

NewList == [head_ |-> Null, tail_ |-> Null]

NoCall == [op |-> "none", list |-> Temporary, from |-> Temporary,
           it |-> Null, p1 |-> Null, nth |-> 0, left |-> 0]

ListInit == /\ nodes = << >>
            /\ lists = [l \in Objects |-> NewList]
            /\ call = NoCall
            /\ chain = [l \in Objects |-> << >>]

-----------------------------------------------------------------------------
\* last->next = ptr
Linked(mem, last, ptr) ==
  [p \in DOMAIN mem |-> IF p = last THEN [mem[p] EXCEPT !.next = ptr] ELSE mem[p]]

\* new node(elem, 0)
Made(mem, ptr, e) ==
  [p \in DOMAIN mem \cup {ptr} |-> IF p = ptr THEN [elem |-> e, next |-> Null] ELSE mem[p]]

\* Mutant: tail_ stays where it was.
ForgetTail(l, e) ==
  \E ptr \in Addresses \ DOMAIN nodes :
    /\ IF lists[l].head_ # Null
         THEN /\ nodes' = Linked(Made(nodes, ptr, e), lists[l].tail_, ptr)
              /\ UNCHANGED lists
         ELSE /\ nodes' = Made(nodes, ptr, e)
              /\ lists' = [lists EXCEPT ![l] = [head_ |-> ptr, tail_ |-> ptr]]
    /\ chain' = [chain EXCEPT ![l] = Append(@, ptr)]

\* push_back() on a list, when nothing throws.
PushBack(l, e) ==
  \E ptr \in Addresses \ DOMAIN nodes :
    /\ IF lists[l].head_ # Null
         THEN /\ nodes' = Linked(Made(nodes, ptr, e), lists[l].tail_, ptr)
              /\ lists' = [lists EXCEPT ![l] = [@ EXCEPT !.tail_ = ptr]]
         ELSE /\ nodes' = Made(nodes, ptr, e)
              /\ lists' = [lists EXCEPT ![l] = [head_ |-> ptr, tail_ |-> ptr]]
    /\ chain' = [chain EXCEPT ![l] = Append(@, ptr)]

Swapped(f, l, r) == [f EXCEPT ![l] = f[r], ![r] = f[l]]

\* A call of ~own_forward_list().
Destructor(l, head) == [NoCall EXCEPT !.op = "delete", !.list = l, !.it = head]

-----------------------------------------------------------------------------
push_back(l, e) == /\ call = NoCall
                   /\ PushBack(l, e)
                   /\ UNCHANGED call

swap(l, r) == /\ call = NoCall
              /\ lists' = Swapped(lists, l, r)
              /\ chain' = Swapped(chain, l, r)
              /\ UNCHANGED <<nodes, call>>

\* operator=: its parameter is a copy of the right side, which may be the left.
assign(l, r) ==
  /\ call = NoCall
  /\ call' = [NoCall EXCEPT !.op = "copy", !.list = l, !.from = r, !.it = lists[r].head_]
  /\ UNCHANGED <<nodes, lists, chain>>

\* Mutant: the loop ends before the last node.
CopyElement_NotLast ==
  /\ call.op = "copy"
  /\ call.it # Null
  /\ IF nodes[call.it].next # Null THEN PushBack(Temporary, nodes[call.it].elem)
                                  ELSE UNCHANGED <<nodes, lists, chain>>
  /\ call' = [call EXCEPT !.it = nodes[@].next]

\* The loop of the copy constructor: tmp.push_back(it->elem).
CopyElement ==
  /\ call.op = "copy"
  /\ call.it # Null
  /\ PushBack(Temporary, nodes[call.it].elem)
  /\ call' = [call EXCEPT !.it = nodes[@].next]

\* It throws: tmp is destroyed with what it has.
CopyThrows ==
  /\ call.op = "copy"
  /\ call.it # Null
  /\ call' = Destructor(Temporary, lists[Temporary].head_)
  /\ UNCHANGED <<nodes, lists, chain>>

\* The copy is complete: it is swapped with the left side and takes the old
\* nodes with it.
Replace ==
  /\ call.op = "copy"
  /\ call.it = Null
  /\ lists' = Swapped(lists, call.list, Temporary)
  /\ chain' = Swapped(chain, call.list, Temporary)
  /\ call' = Destructor(Temporary, lists[call.list].head_)
  /\ UNCHANGED nodes

\* A list's scope ends.
renew(l) == /\ call = NoCall
            /\ call' = Destructor(l, lists[l].head_)
            /\ UNCHANGED <<nodes, lists, chain>>

\* The loop of the destructor: the node goes once its next is known.
DeleteNode ==
  /\ call.op = "delete"
  /\ call.it # Null
  /\ nodes' = [p \in DOMAIN nodes \ {call.it} |-> nodes[p]]
  /\ chain' = [chain EXCEPT ![call.list] = Tail(@)]
  /\ call' = [call EXCEPT !.it = nodes[@].next]
  /\ UNCHANGED lists

\* The list is gone; another one begins in its place.
Destroyed ==
  /\ call.op = "delete"
  /\ call.it = Null
  /\ lists' = [lists EXCEPT ![call.list] = NewList]
  /\ call' = NoCall
  /\ UNCHANGED <<nodes, chain>>

-----------------------------------------------------------------------------
get_nth_to_last(l, nth) ==
  LET head == lists[l].head_
  IN  /\ call = NoCall
      /\ call' = [NoCall EXCEPT !.op = IF head = Null THEN "return" ELSE "nth", !.list = l,
                                !.it = head, !.p1 = head, !.nth = nth, !.left = nth - 1]
      /\ UNCHANGED <<nodes, lists, chain>>

After(ptr) == nodes[ptr].next

\* The window opens: p2 goes ahead, or there are not so many nodes.
Widen ==
  /\ call.op = "nth"
  /\ call.left > 0
  /\ call' = IF After(call.it) = Null THEN [call EXCEPT !.op = "return", !.p1 = Null]
             ELSE [call EXCEPT !.it = After(@), !.left = @ - 1]
  /\ UNCHANGED <<nodes, lists, chain>>

\* The open window moves until p2 is at the last node.
Slide ==
  /\ call.op = "nth"
  /\ call.left = 0
  /\ call' = IF After(call.it) = Null THEN [call EXCEPT !.op = "return"]
             ELSE [call EXCEPT !.it = After(@), !.p1 = After(@)]
  /\ UNCHANGED <<nodes, lists, chain>>

\* The answer is p1.
Return == /\ call.op = "return"
          /\ call' = NoCall
          /\ UNCHANGED <<nodes, lists, chain>>

ListNext == \/ \E l \in Lists, e \in Elems : push_back(l, e)
            \/ \E l, r \in Lists : swap(l, r) \/ assign(l, r)
            \/ CopyElement \/ CopyThrows \/ Replace
            \/ \E l \in Lists : renew(l)
            \/ DeleteNode \/ Destroyed
            \/ \E l \in Lists, nth \in Nths : get_nth_to_last(l, nth)
            \/ Widen \/ Slide \/ Return

ListSpec == ListInit /\ [][ListNext]_listVars

-----------------------------------------------------------------------------
Dying(l) == call.op = "delete" /\ call.list = l

\* The pointer by which a list's nodes are reached.
Entry(l) == IF Dying(l) THEN call.it ELSE lists[l].head_

\* The nodes of a list follow each other from its entry to a null pointer, and
\* tail_ is the last.
Threaded(l) ==
  LET s == chain[l]
  IN  /\ Entry(l) = IF s = << >> THEN Null ELSE s[1]
      /\ \A i \in 1..Len(s) :
           /\ s[i] \in DOMAIN nodes
           /\ nodes[s[i]].next = IF i = Len(s) THEN Null ELSE s[i + 1]
      /\ Dying(l) \/ lists[l].tail_ = IF s = << >> THEN Null ELSE s[Len(s)]

\* No node is in two places.
Apart == \A l, r \in Objects : \A i \in 1..Len(chain[l]), j \in 1..Len(chain[r]) :
           chain[l][i] = chain[r][j] => l = r /\ i = j

\* Every node is in some list.
Covered == \A p \in DOMAIN nodes :
             \E l \in Objects : \E i \in 1..Len(chain[l]) : chain[l][i] = p

\* get_nth_to_last() finds the node it names, and a null pointer when the list
\* is shorter.
NthFound ==
  call.op = "return" =>
    LET s == chain[call.list]
    IN  call.p1 = IF call.nth > Len(s) THEN Null ELSE s[Len(s) - call.nth + 1]

\* crack_code_lists.cc:217: every node that is alive is in one place of one
\* list, also while a copy throws half way and while a destructor runs: nothing
\* leaks and nothing is deleted twice; and the window of get_nth_to_last()
\* stops where it should.
MemoryOwned ==
  /\ \A l \in Objects : Threaded(l)
  /\ Apart
  /\ Covered
  /\ call = NoCall => chain[Temporary] = << >>
  /\ NthFound

Elements(l) == [i \in 1..Len(chain[l]) |-> nodes[chain[l][i]].elem]

Contents == [l \in Lists |-> IF Dying(l) THEN << >> ELSE Elements(l)]

Sequence == INSTANCE ValueLists WITH contents <- Contents

\* crack_code_lists.cc:180: lists behave as values: an assignment takes effect
\* at once and completely, or, when it throws, not at all.
ListsAreValues == Sequence!Spec
=============================================================================
