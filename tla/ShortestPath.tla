---------------------------- MODULE ShortestPath ----------------------------
(***************************************************************************)
(* edu/courses/stanford1/cc/shortest_path.cc: Dijkstra's algorithm from    *)
(* node 1 without a queue.  One step looks for the least node that is not  *)
(* visited, and leaves the loop or turns to the neighbours of the node;    *)
(* every neighbour is a step of its own.                                   *)
(***************************************************************************)
EXTENDS Integers, Sequences

CONSTANT kMaxVal

ASSUME MaxValAssumption == kMaxVal \in Nat

VARIABLES graph,      \* the arrows of every node: sequences of <<end, weight>>
          track,      \* [d, visited] of every node
          idx,        \* the node whose neighbours the inner loop goes through
          walked,     \* the number of those it has seen
          finished    \* the outer loop has been left

pathVars == <<graph, track, idx, walked, finished>>

PathInit(g) ==
  /\ graph = g
  /\ track = [v \in DOMAIN g |-> [d |-> IF v = 1 THEN 0 ELSE kMaxVal, visited |-> FALSE]]
  /\ idx = 0
  /\ walked = Len(g[0])
  /\ finished = FALSE

\* What the comparison of min_element() sees.
Seen(v) == IF track[v].visited THEN kMaxVal ELSE track[v].d

\* The first of the smallest.
min_element(at) == /\ \A u \in DOMAIN track : Seen(at) <= Seen(u)
                   /\ \A u \in DOMAIN track : u < at => Seen(at) < Seen(u)

\* No neighbour is left, and the outer loop goes on.
AtTop == ~finished /\ walked = Len(graph[idx])

Leave(at) == /\ AtTop
             /\ min_element(at)
             /\ track[at].d = kMaxVal
             /\ finished' = TRUE
             /\ UNCHANGED <<graph, track, idx, walked>>

Visit(at) == /\ AtTop
             /\ min_element(at)
             /\ track[at].d # kMaxVal
             /\ track' = [track EXCEPT ![at].visited = TRUE]
             /\ idx' = at
             /\ walked' = 0
             /\ UNCHANGED <<graph, finished>>

\* Mutant: the first way to a node is kept.
RelaxFirst ==
  /\ walked < Len(graph[idx])
  /\ LET v     == graph[idx][walked + 1][1]
         new_d == track[idx].d + graph[idx][walked + 1][2]
     IN  track' = IF ~track[v].visited /\ track[v].d = kMaxVal
                    THEN [track EXCEPT ![v].d = new_d] ELSE track
  /\ walked' = walked + 1
  /\ UNCHANGED <<graph, idx, finished>>

\* One neighbour.
Relax ==
  /\ walked < Len(graph[idx])
  /\ LET v     == graph[idx][walked + 1][1]
         new_d == track[idx].d + graph[idx][walked + 1][2]
     IN  track' = IF ~track[v].visited /\ track[v].d > new_d
                    THEN [track EXCEPT ![v].d = new_d] ELSE track
  /\ walked' = walked + 1
  /\ UNCHANGED <<graph, idx, finished>>

PathNext == \/ \E at \in DOMAIN track : Leave(at) \/ Visit(at)
            \/ Relax

PathSpec(g) == PathInit(g) /\ [][PathNext]_pathVars

-----------------------------------------------------------------------------
\* The k-th arrow of a node that was visited.
Used(u, k) == track[u].visited /\ k \in 1..Len(graph[u])

\* shortest_path.cc:87: when the loop is left no arrow of a node that was
\* reached offers a shorter way, every distance is that of a way over such an
\* arrow, and the nodes not reached are those at kMaxVal.
ShortestDistances ==
  finished =>
    /\ track[1].d = 0
    /\ \A v \in DOMAIN track : track[v].visited <=> track[v].d # kMaxVal
    /\ \A u \in DOMAIN graph : \A k \in 1..Len(graph[u]) :
         Used(u, k) => track[graph[u][k][1]].d <= track[u].d + graph[u][k][2]
    /\ \A v \in DOMAIN track \ {1} :
         track[v].visited =>
           \E u \in DOMAIN graph : \E k \in 1..Len(graph[u]) :
             /\ Used(u, k)
             /\ graph[u][k][1] = v
             /\ track[v].d = track[u].d + graph[u][k][2]
=============================================================================
