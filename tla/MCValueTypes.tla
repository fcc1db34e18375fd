---------------------------- MODULE MCValueTypes ----------------------------
(***************************************************************************)
(* The containers that manage memory of their own, one per behaviour:      *)
(* documents and histories of objects, forward lists, and the first LRU    *)
(* set.  A behaviour picks one and leaves the others in their initial      *)
(* state.                                                                  *)
(***************************************************************************)
EXTENDS LruV1, ForwardList

CONSTANTS Leaves, MaxModels, MaxHistory, MaxDocument

VARIABLES container, version, heap, history

D == INSTANCE Documents

documentVars == <<version, heap, history>>
allVars      == <<container, vars, documentVars, listVars>>

MCInit == /\ container \in {"documents", "lists", "lru"}
          /\ D!Init /\ ListInit /\ Init
          /\ container = "documents" \/ version = D!c98

MCNext == \/ /\ container = "documents"
             /\ D!Next
             /\ UNCHANGED <<container, vars, listVars>>
          \/ /\ container = "lists"
             /\ ListNext
             /\ UNCHANGED <<container, vars, documentVars>>
          \/ /\ container = "lru"
             /\ Next
             /\ UNCHANGED <<container, documentVars, listVars>>

MCSpec == MCInit /\ [][MCNext]_allVars

-----------------------------------------------------------------------------
Values == INSTANCE Histories WITH documents <- D!Shown

(***************************************************************************)
(* Documents are values in every version: an edit of the current document, *)
(* an exchange of two objects, a document added to itself, commit() and    *)
(* undo() show what they would show if nothing were shared, moved or freed *)
(* (inh_evil_reduce_c11_apps.cc, inh_evil_reduce_c98_apps.cc); and no      *)
(* model outlives the handles to it.                                       *)
(***************************************************************************)
DocumentsAreValues == Values!Spec /\ [](DOMAIN heap = D!HeldBy(heap, history))
=============================================================================
