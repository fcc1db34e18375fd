----------------------------- MODULE Histories ------------------------------
(***************************************************************************)
(* What a history of documents promises: documents are values.  A document *)
(* is a sequence of objects, each a leaf or a document again; edits change *)
(* the last document only, commit() copies it and undo() drops it.         *)
(***************************************************************************)
EXTENDS Naturals, Sequences, SequencesExt

CONSTANT Leaves

VARIABLE documents

Leaf(x)   == [leaf |-> x]
Nested(d) == [document |-> d]
IsLeaf(o) == "leaf" \in DOMAIN o

Current == Last(documents)

Edit(d) == documents' = Append(Front(documents), d)

Init == documents = << << >> >>

Add(object)  == Edit(Append(Current, object))
Set(i, x)    == Edit([Current EXCEPT ![i] = Leaf(x)])
Assign(i, j) == Edit([Current EXCEPT ![i] = Current[j]])
Swap(i, j)   == Edit([Current EXCEPT ![i] = Current[j], ![j] = Current[i]])
Commit       == documents' = Append(documents, Current)
Undo         == documents' = Front(documents)

Next == /\ documents # << >>
        /\ \/ \E x \in Leaves : Add(Leaf(x))
           \/ Add(Nested(Current))
           \/ \E i \in DOMAIN Current, x \in Leaves : Set(i, x)
           \/ \E i, j \in DOMAIN Current : Assign(i, j) \/ Swap(i, j)
           \/ Commit
           \/ Undo

Spec == Init /\ [][Next]_documents
=============================================================================
