---------------------------- MODULE GraphDetails ----------------------------
(***************************************************************************)
(* edu/courses/my-cs/details/graph_details.cc: the graph that the records  *)
(* of a file describe.  Node 0 is in no file and stands for nothing; it    *)
(* makes the numbers of the others their indices.                          *)
(***************************************************************************)
EXTENDS Integers, Sequences, SequencesExt, FiniteSets

CONSTANT USE_TBB     \* whether the macro is defined

R == INSTANCE Records WITH Junk <- -1, NoFile <- -2

\* RawYieldFunctor: one record parsed.
RawYield(line) == LET node == R!parse_node_data(line)
                  IN  [first |-> node.root, second |-> node.arrows.list]

process_serial(records) == [k \in DOMAIN records |-> RawYield(records[k])]

\* Without USE_TBB the nodes stay as they were constructed.
process_parallel(records) ==
  IF USE_TBB THEN process_serial(records)
  ELSE [k \in DOMAIN records |-> [first |-> 0, second |-> << >>]]

\* The assertions of build_graph(): there are nodes, and they are unique.
Asserted(records) ==
  LET raw_nodes == process_parallel(records)
  IN  /\ raw_nodes # << >>
      /\ Cardinality({raw_nodes[k].first : k \in DOMAIN raw_nodes}) = Len(raw_nodes)

\* What it does not assert and graph[elem.first] needs: the records of n nodes
\* number them up to n.  For other files the store is past the vector.
Numbered(records) ==
  LET raw_nodes == process_parallel(records)
  IN  \A k \in DOMAIN raw_nodes : raw_nodes[k].first \in 0..Len(raw_nodes)

\* The graph of records that are Asserted and Numbered.
build_graph(records) ==
  LET raw_nodes == process_parallel(records)
      Put(g, elem) == [g EXCEPT ![elem.first] = elem.second]
  IN  FoldLeft(Put, [v \in 0..Len(raw_nodes) |-> << >>], raw_nodes)
=============================================================================
