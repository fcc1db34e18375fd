----------------------------- MODULE Documents ------------------------------
(***************************************************************************)
(* The polymorphic value object_t of edu/talks/sean_parent and the         *)
(* documents and histories made of it.  An object_t is a handle: self_     *)
(* points to a model on the heap that holds the data, here a leaf or a     *)
(* document of handles.  The versions differ in what a copy and a move do, *)
(* in what an object can hold, and in whether there is a history.          *)
(***************************************************************************)
EXTENDS Integers, Sequences, SequencesExt, FiniteSets, FiniteSetsExt, TLC

CONSTANTS Leaves,
          MaxModels,     \* bound: models alive at once
          MaxHistory,    \* bound: documents in the history
          MaxDocument    \* bound: objects in the current document

-----------------------------------------------------------------------------
\* A version's class: whether a copy shares the model with the original, and
\* whether a move empties its source (else it is a copy); whether an object
\* holds documents too; and whether commit() and undo() exist.
Class(shares, moves, nests, undoes) ==
  [shares |-> shares, moves |-> moves, nests |-> nests, undoes |-> undoes]

c98              == Class(FALSE, FALSE, TRUE, FALSE)    \* scoped_ptr
step2            == Class(FALSE, FALSE, FALSE, FALSE)   \* unique_ptr; ints only
step3            == Class(FALSE, TRUE, FALSE, FALSE)
step4            == Class(FALSE, TRUE, FALSE, FALSE)    \* ints and strings
step5            == Class(FALSE, TRUE, TRUE, FALSE)     \* anything that can be drawn
ps_sample        == Class(FALSE, TRUE, TRUE, TRUE)
ps_sample_shared == Class(TRUE, TRUE, TRUE, TRUE)       \* shared_ptr to const

Versions == {c98, step2, step3, step4, step5, ps_sample, ps_sample_shared}

VARIABLES version, heap, history

vars == <<version, heap, history>>

H == INSTANCE Histories WITH documents <- << >>

Empty == 0     \* a self_ that owns nothing

-----------------------------------------------------------------------------
\* new model<T>(x)
NewModel(mem, data) ==
  LET self == Min((1..Cardinality(DOMAIN mem) + 1) \ DOMAIN mem)
  IN  [mem |-> mem @@ (self :> data), self |-> self]

\* The pointer alone is copied.  As copy_() it would be a mutant of the
\* versions with a unique owner.
ShallowCopy(mem, self) == [mem |-> mem, self |-> self]

\* copy_(): a new model with a copy of the data, down to the leaves.  Copying
\* a shared pointer leaves the model where it is.
RECURSIVE copy_(_, _)
copy_(mem, self) ==
  LET Copy(acc, s) ==
        LET c == copy_(acc.mem, s) IN [mem |-> c.mem, doc |-> Append(acc.doc, c.self)]
      all == FoldLeft(Copy, [mem |-> mem, doc |-> << >>], mem[self].document)
  IN  IF version.shares THEN ShallowCopy(mem, self)
      ELSE IF H!IsLeaf(mem[self]) THEN NewModel(mem, mem[self])
      ELSE NewModel(all.mem, H!Nested(all.doc))

CopyDocument(mem, doc) ==
  FoldLeft(LAMBDA acc, s : LET c == copy_(acc.mem, s)
                           IN  [mem |-> c.mem, doc |-> Append(acc.doc, c.self)],
           [mem |-> mem, doc |-> << >>], doc)

\* The models that a handle keeps alive.
RECURSIVE Held(_, _)
Held(mem, self) ==
  IF self \notin DOMAIN mem THEN {}
  ELSE {self} \union (IF H!IsLeaf(mem[self]) THEN {}
                      ELSE UNION {Held(mem, s) : s \in ToSet(mem[self].document)})

HeldBy(mem, hist) == UNION {UNION {Held(mem, s) : s \in ToSet(d)} : d \in ToSet(hist)}

\* The destructor of the last owner frees a model.  A unique owner is the
\* last one by definition; a shared model goes when nothing holds it any more.
Destroy(mem, handles, hist) ==
  LET gone == IF version.shares THEN DOMAIN mem \ HeldBy(mem, hist)
              ELSE UNION {Held(mem, s) : s \in handles}
  IN  [s \in DOMAIN mem \ gone |-> mem[s]]

\* operator=(const object_t&): a copy is made first, then its model is taken
\* over by a move or a swap, and the old one dies.
CopyAssign(mem, doc, i, from) ==
  LET tmp == copy_(mem, from)
      new == [doc EXCEPT ![i] = tmp.self]
  IN  [mem |-> Destroy(tmp.mem, {doc[i]}, Append(Front(history), new)), doc |-> new]

\* The three moves of std::swap, by which std::reverse exchanges two elements:
\* out of a, b to a, and back to b.
MoveSwap(mem, doc, i, j) ==
  LET taken == [doc EXCEPT ![i] = Empty]
      over  == [taken EXCEPT ![i] = doc[j], ![j] = Empty]
  IN  [mem |-> mem, doc |-> [over EXCEPT ![j] = doc[i]]]

\* The same with copies, where nothing can be moved.
CopySwap(mem, doc, i, j) ==
  LET tmp  == copy_(mem, doc[i])
      over == CopyAssign(tmp.mem, doc, i, doc[j])
      back == CopyAssign(over.mem, over.doc, j, tmp.self)
  IN  [mem |-> Destroy(back.mem, {tmp.self}, Append(Front(history), back.doc)),
       doc |-> back.doc]

-----------------------------------------------------------------------------
Init == /\ version \in Versions
        /\ heap = << >>
        /\ history = << << >> >>

current == Last(history)

Becomes(mem, hist) == /\ Cardinality(DOMAIN mem) <= MaxModels
                      /\ Len(hist) <= MaxHistory
                      /\ hist # << >> => Len(Last(hist)) <= MaxDocument
                      /\ heap' = mem
                      /\ history' = hist
                      /\ UNCHANGED version

Edited(doc) == Append(Front(history), doc)

EmplaceLeaf(x) ==
  LET new == NewModel(heap, H!Leaf(x))
  IN  Becomes(new.mem, Edited(Append(current, new.self)))

\* current(h).emplace_back(current(h)): the copy is complete before it is added.
EmplaceCurrent ==
  LET doc == CopyDocument(heap, current)
      new == NewModel(doc.mem, H!Nested(doc.doc))
  IN  /\ version.nests
      /\ Becomes(new.mem, Edited(Append(current, new.self)))

\* current(h)[i] = x: from a temporary object.
AssignLeaf(i, x) ==
  LET new == NewModel(heap, H!Leaf(x))
      doc == [current EXCEPT ![i] = new.self]
  IN  Becomes(Destroy(new.mem, {current[i]}, Edited(doc)), Edited(doc))

AssignObject(i, j) ==
  LET done == CopyAssign(heap, current, i, current[j])
  IN  Becomes(done.mem, Edited(done.doc))

Exchange(i, j) ==
  LET done == IF version.moves THEN MoveSwap(heap, current, i, j) ELSE CopySwap(heap, current, i, j)
  IN  /\ i < j
      /\ Becomes(done.mem, Edited(done.doc))

commit ==
  LET doc == CopyDocument(heap, current)
  IN  /\ version.undoes
      /\ Becomes(doc.mem, Append(history, doc.doc))

undo == /\ version.undoes
        /\ Becomes(Destroy(heap, ToSet(current), Front(history)), Front(history))

Next == /\ history # << >>            \* assert(x.size())
        /\ \/ \E x \in Leaves : EmplaceLeaf(x)
           \/ EmplaceCurrent
           \/ \E i \in DOMAIN current, x \in Leaves : AssignLeaf(i, x)
           \/ \E i, j \in DOMAIN current : AssignObject(i, j)
           \/ \E i, j \in DOMAIN current : Exchange(i, j)
           \/ commit
           \/ undo

Spec == Init /\ [][Next]_vars

-----------------------------------------------------------------------------
\* What a handle shows; freed memory shows no value.
RECURSIVE Value(_)
Value(self) ==
  IF self \notin DOMAIN heap THEN [freed |-> TRUE]
  ELSE IF H!IsLeaf(heap[self]) THEN heap[self]
  ELSE H!Nested([i \in DOMAIN heap[self].document |-> Value(heap[self].document[i])])

Shown == [k \in DOMAIN history |-> [i \in DOMAIN history[k] |-> Value(history[k][i])]]
=============================================================================
