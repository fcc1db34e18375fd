----------------------------- MODULE MCParallel -----------------------------
(***************************************************************************)
(* The programs that run until they have an answer, or a client is served: *)
(* Dijkstra's rounds, the knapsack's tasks, the threads of atomic_race and *)
(* the handlers of the server.  `part' says which one runs.                *)
(***************************************************************************)
EXTENDS ShortestPath, ParallelKnapsack, AtomicRace, EchoServer

VARIABLE part

vars == <<part, pathVars, taskVars, raceVars, echoVars>>

\* The third item is too heavy: both of its subproblems are the same.
Items == <<[v |-> 3, w |-> 1], [v |-> 4, w |-> 2], [v |-> 2, w |-> 4]>>

K == INSTANCE Knapsack

\* What the serial program computes.
SerialOptimum == [id \in Ids |-> K!knapSackExp(id.w_bound, id.idx, items)]

G == INSTANCE GraphDetails WITH USE_TBB <- TRUE

-----------------------------------------------------------------------------
Nodes     == 1..3
MaxWeight == 3

\* A record of a file for every node; the weight 0 stands for no arrow.
Record(v, weight) ==
  FoldLeft(LAMBDA line, u : IF weight[u] = 0 THEN line ELSE line \o <<u, weight[u]>>,
           <<v>>, SetToSortSeq(Nodes \ {v}, <))

Weights(v) == [Nodes \ {v} -> 0..MaxWeight]

Init ==
  /\ part \in {"paths", "knapsack", "race", "echo"}
  /\ IF part = "paths"
       THEN \E w1 \in Weights(1), w2 \in Weights(2), w3 \in Weights(3) :
              LET records == <<Record(1, w1), Record(2, w2), Record(3, w3)>>
              IN  \E file \in {records, Reverse(records)} :
                    G!Asserted(file) /\ G!Numbered(file) /\ PathInit(G!build_graph(file))
       ELSE PathInit(G!build_graph(<< <<1>> >>))
  /\ TaskInit /\ (part # "knapsack" => serial)
  /\ RaceInit
  /\ EchoInit

Paths    == part = "paths" /\ PathNext /\ UNCHANGED <<part, taskVars, raceVars, echoVars>>
Tasks    == part = "knapsack" /\ TaskNext /\ UNCHANGED <<part, pathVars, raceVars, echoVars>>
Race     == part = "race" /\ RaceNext /\ UNCHANGED <<part, pathVars, taskVars, echoVars>>
Server   == part = "echo" /\ EchoNext /\ UNCHANGED <<part, pathVars, taskVars, raceVars>>
Served(c) == part = "echo" /\ Handler(c) /\ UNCHANGED <<part, pathVars, taskVars, raceVars>>

Next == Paths \/ Tasks \/ Race \/ Server

\* A loop goes on, a thread that can run does, and so does every handler.
Fairness == /\ WF_vars(Paths) /\ WF_vars(Tasks) /\ WF_vars(Race)
            /\ \A c \in Clients : WF_vars(Served(c))

Spec == Init /\ [][Next]_vars /\ Fairness

-----------------------------------------------------------------------------
(***************************************************************************)
(* Everything comes to its end: the loop of shortest_path.cc, which relies *)
(* on node 0 to stop; the knapsack's tasks, with both kinds of waiting; the *)
(* three threads; and every session of async_tcp_echo_server.cc whose      *)
(* client closes, which has then counted all that the client sent.         *)
(***************************************************************************)
WorkEnds ==
  /\ part = "paths" ~> finished
  /\ part = "knapsack" ~> (result # Unsolved /\ tasks = << >>)
  /\ part = "race" ~> Joined
  /\ \A c \in Clients :
       client[c] = "closed" ~> /\ c \notin reading \union backlog
                               /\ client[c] = "closed" => l[c] = sent[c]
=============================================================================
