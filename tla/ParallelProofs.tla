--------------------------- MODULE ParallelProofs ---------------------------
(***************************************************************************)
(* The programs that run until they have an answer, or a client is served: *)
(* the knapsack's tasks (ParallelKnapsack), the three threads of           *)
(* atomic_race (AtomicRace), Dijkstra's loop (ShortestPath) and the        *)
(* handlers of the server (EchoServer), for every value of their           *)
(* constants.                                                              *)
(*                                                                         *)
(* MemoOptimal is about what one task leaves for another, and a task sees  *)
(* only its own fields.  The invariant ties a task to its parent: as long  *)
(* as it lives the parent waits, has no answer in its place and a          *)
(* subproblem of which this one is a part.                                 *)
(*                                                                         *)
(* ShortestDistances rests on the order of the visits, which is that of    *)
(* the distances: an arrow back to a visited node, which the code skips,   *)
(* never offers a shorter way.                                             *)
(***************************************************************************)
EXTENDS ParallelKnapsack, AtomicRace, ShortestPath, EchoServer, TLAPS

-----------------------------------------------------------------------------
Ways == Seq({"x", "y"})

Tasks == [id : Ids, is : {"spawned", "waiting", "inserted"},
          x : Nat \cup {Unsolved}, y : Nat \cup {Unsolved}, delta : Nat]

TasksTyped == \A p \in DOMAIN tasks : p \in Ways /\ tasks[p] \in Tasks

Typed == /\ TasksTyped
         /\ DOMAIN store \subseteq Ids
         /\ stacks \in [Threads -> Seq(Ways)]

Divisible(id) == id.idx # 0 /\ id.w_bound # 0

\* A task that was split knows what its item is worth.
Divided == \A p \in DOMAIN tasks :
             tasks[p].is # "spawned" => /\ Divisible(tasks[p].id)
                                        /\ tasks[p].delta = WorkId(tasks[p].id).delta

Fresh == \A p \in DOMAIN tasks :
           tasks[p].is = "spawned" => tasks[p].x = Unsolved /\ tasks[p].y = Unsolved

\* The entry of a task that is "inserted" is in the map, and both answers are there.
Inserted == \A p \in DOMAIN tasks :
              tasks[p].is = "inserted" => /\ tasks[p].id \in DOMAIN store
                                          /\ tasks[p].x # Unsolved
                                          /\ tasks[p].y # Unsolved

Answer(task, e) == IF e = "x" THEN task.x ELSE task.y

ChildOf(q, p) == q # Root /\ Front(q) = p

Childless(p) == \A q \in DOMAIN tasks : ~ ChildOf(q, p)

\* The parent of a live task waits for it.
Awaited == \A q \in DOMAIN tasks :
             q # Root =>
               /\ Front(q) \in DOMAIN tasks
               /\ tasks[Front(q)].is = "waiting"
               /\ Answer(tasks[Front(q)], Last(q)) = Unsolved
               /\ tasks[q].id = ChildId(tasks[Front(q)].id, Last(q))

Rooted == Root \in DOMAIN tasks => tasks[Root].id = TaskId(W, Len(items))

\* A thread has begun with what is on its stack, and nobody else has it there.
Stacked == \A t \in Threads : \A i \in 1..Len(stacks[t]) :
             /\ stacks[t][i] \in DOMAIN tasks
             /\ tasks[stacks[t][i]].is # "spawned"
             /\ ~serial => tasks[stacks[t][i]].is = "inserted"

Alone == \A t, u \in Threads : \A i \in 1..Len(stacks[t]), j \in 1..Len(stacks[u]) :
           stacks[t][i] = stacks[u][j] => t = u /\ i = j

\* The three parts of MemoOptimal.
Entries == \A id \in DOMAIN store \ locked : store[id] = Optimum[id]

Answers ==
  \A p \in DOMAIN tasks : \A e \in {"x", "y"} :
    Answer(tasks[p], e) # Unsolved => Answer(tasks[p], e) = Optimum[ChildId(tasks[p].id, e)]

Outcome == result # Unsolved => result = Optimum[TaskId(W, Len(items))]

\* What the steps that change tasks have to keep of them.
TasksInv == /\ TasksTyped /\ Divided /\ Fresh /\ Inserted /\ Awaited /\ Rooted
            /\ Answers /\ Outcome

IndInv == /\ Typed
          /\ TasksInv
          /\ Stacked /\ Alone
          /\ Entries

-----------------------------------------------------------------------------
\* A way that is not the root's is that of a parent and a last step.
LEMMA WayBack ==
  ASSUME NEW q \in Ways, q # Root
  PROVE  /\ Front(q) \in Ways
         /\ Last(q) \in {"x", "y"}
         /\ q = Append(Front(q), Last(q))
BY DEF Ways, Root, Front, Last

\* And one step down leads to a way of that kind.
LEMMA WayDown ==
  ASSUME NEW p \in Ways, NEW e \in {"x", "y"}
  PROVE  /\ Append(p, e) \in Ways
         /\ Append(p, e) # Root
         /\ Front(Append(p, e)) = p
         /\ Last(Append(p, e)) = e
         /\ Append(p, e) # p
<1>1. /\ Append(p, e) \in Ways
      /\ Len(Append(p, e)) = Len(p) + 1
      /\ Append(p, e)[Len(p) + 1] = e
      /\ Len(p) \in Nat
  BY DEF Ways
<1>2. Append(p, e) # Root /\ Append(p, e) # p
  BY <1>1 DEF Root
<1>3. Last(Append(p, e)) = e
  BY <1>1 DEF Last
<1>4. Front(Append(p, e)) = p
  BY DEF Ways, Front
<1> QED
  BY <1>1, <1>2, <1>3, <1>4

\* The subproblems of a subproblem are subproblems (WorkId: the item is
\* taken only if it fits).
LEMMA ChildIds ==
  ASSUME NEW id \in Ids, Divisible(id), NEW e \in {"x", "y"}
  PROVE  /\ ChildId(id, e) \in Ids
         /\ WorkId(id).delta \in Nat
<1>1. /\ id.w_bound \in 0..W /\ id.idx \in 1..Len(items)
      /\ items[id.idx] \in [v : Nat, w : Nat]
      /\ W \in Nat
  <2>1. Len(items) \in Nat /\ W \in Nat
    BY ItemsAssumption
  <2>2. id.w_bound \in 0..W /\ id.idx \in 0..Len(items)
    BY DEF Ids
  <2>3. id.idx \in 1..Len(items)
    BY <2>1, <2>2 DEF Divisible
  <2>4. ASSUME NEW S, items \in Seq(S), NEW i \in 1..Len(items)
        PROVE  items[i] \in S
    BY <2>4
  <2>5. items[id.idx] \in [v : Nat, w : Nat]
    BY <2>3, <2>4, ItemsAssumption
  <2> QED
    BY <2>1, <2>2, <2>3, <2>5
<1>2. TaskId(id.w_bound, id.idx - 1) \in Ids
  BY <1>1 DEF TaskId, Ids
<1>3. ASSUME ~(items[id.idx].w > id.w_bound)
      PROVE  TaskId(id.w_bound - items[id.idx].w, id.idx - 1) \in Ids
  BY <1>1, <1>3 DEF TaskId, Ids
<1>4. WorkId(id).id \in Ids
  BY <1>2, <1>3 DEF WorkId
<1>5. WorkId(id).delta \in Nat
  BY <1>1 DEF WorkId
<1> QED
  BY <1>2, <1>4, <1>5 DEF ChildId

\* The optimum of a subproblem from those of its parts, and its type.
LEMMA Equation ==
  ASSUME NEW id \in Ids
  PROVE  /\ Optimum[id] \in Nat
         /\ ~Divisible(id) => Optimum[id] = 0
         /\ Divisible(id) =>
              Optimum[id] = Larger(Optimum[ChildId(id, "x")] + WorkId(id).delta,
                                   Optimum[ChildId(id, "y")])
BY OptimumAssumption DEF Divisible

-----------------------------------------------------------------------------
\* *r_ = value, by a task that has nothing left to wait for.
LEMMA ReturnKeeps ==
  ASSUME TasksInv, DOMAIN store \subseteq DOMAIN store',
         NEW path \in DOMAIN tasks, Childless(path), Return(path, Optimum[tasks[path].id])
  PROVE  /\ TasksInv'
         /\ DOMAIN tasks' = DOMAIN tasks \ {path}
         /\ \A p \in DOMAIN tasks' : tasks'[p].is = tasks[p].is
<1> DEFINE value == Optimum[tasks[path].id]
           parent(p) == path # Root /\ p = Front(path)
<1>0. /\ path \in Ways
      /\ tasks[path] \in Tasks
      /\ tasks[path].id \in Ids
      /\ value \in Nat
  <2>1. path \in Ways /\ tasks[path] \in Tasks
    BY DEF TasksInv, TasksTyped
  <2>2. tasks[path].id \in Ids
    BY <2>1 DEF Tasks
  <2> QED
    BY <2>1, <2>2, Equation
<1>1. DOMAIN tasks' = DOMAIN tasks \ {path}
  BY DEF Return
<1>2. ASSUME NEW p \in DOMAIN tasks'
      PROVE  /\ p \in DOMAIN tasks /\ p \in Ways /\ p # path
             /\ tasks'[p] \in Tasks
             /\ tasks'[p].id = tasks[p].id
             /\ tasks'[p].is = tasks[p].is
             /\ tasks'[p].delta = tasks[p].delta
             /\ tasks'[p].x = IF parent(p) /\ Last(path) = "x" THEN value ELSE tasks[p].x
             /\ tasks'[p].y = IF parent(p) /\ Last(path) # "x" THEN value ELSE tasks[p].y
  <2>1. p \in DOMAIN tasks /\ p \in Ways /\ p # path /\ tasks[p] \in Tasks
    BY <1>1 DEF TasksInv, TasksTyped
  <2>2. tasks'[p] = IF parent(p) THEN Answered(tasks[p], Last(path), value) ELSE tasks[p]
    BY <2>1 DEF Return
  <2> QED
    BY <2>1, <2>2, <1>0 DEF Tasks, Answered
<1>3. TasksTyped'
  BY <1>2 DEF TasksTyped
<1>4. Divided'
  BY <1>2 DEF Divided, TasksInv
<1>5. path # Root => /\ Front(path) \in DOMAIN tasks
                     /\ tasks[Front(path)].is = "waiting"
                     /\ tasks[path].id = ChildId(tasks[Front(path)].id, Last(path))
                     /\ Last(path) \in {"x", "y"}
  BY <1>0, WayBack DEF TasksInv, Awaited
<1>6. Fresh'
  BY <1>2, <1>5 DEF Fresh, TasksInv
<1>7. Inserted'
  BY <1>2, <1>5 DEF Inserted, TasksInv
<1>8. Awaited'
  <2> SUFFICES ASSUME NEW q \in DOMAIN tasks', q # Root
               PROVE  /\ Front(q) \in DOMAIN tasks'
                      /\ tasks'[Front(q)].is = "waiting"
                      /\ Answer(tasks'[Front(q)], Last(q)) = Unsolved
                      /\ tasks'[q].id = ChildId(tasks'[Front(q)].id, Last(q))
    BY DEF Awaited
  <2>1. q \in DOMAIN tasks /\ q \in Ways /\ q # path /\ tasks'[q].id = tasks[q].id
    BY <1>2
  <2>2. /\ Front(q) \in DOMAIN tasks
        /\ tasks[Front(q)].is = "waiting"
        /\ Answer(tasks[Front(q)], Last(q)) = Unsolved
        /\ tasks[q].id = ChildId(tasks[Front(q)].id, Last(q))
    BY <2>1 DEF TasksInv, Awaited
  <2>3. Front(q) # path
    BY <2>1 DEF Childless, ChildOf
  <2>4. Front(q) \in DOMAIN tasks'
    BY <1>1, <2>2, <2>3
  <2>5. /\ tasks'[Front(q)].is = "waiting"
        /\ tasks'[q].id = ChildId(tasks'[Front(q)].id, Last(q))
    BY <2>1, <2>2, <2>4, <1>2
  <2>6. ~(parent(Front(q)) /\ Last(q) = Last(path))
    BY <2>1, <1>0, WayBack
  <2>7. Last(q) \in {"x", "y"}
    BY <2>1, WayBack
  <2>8. Answer(tasks'[Front(q)], Last(q)) = Unsolved
    BY <2>2, <2>4, <2>6, <2>7, <1>2, <1>5 DEF Answer
  <2> QED
    BY <2>4, <2>5, <2>8
<1>9. Rooted'
  BY <1>2 DEF Rooted, TasksInv
<1>10. Answers'
  <2> SUFFICES ASSUME NEW p \in DOMAIN tasks', NEW e \in {"x", "y"},
                      Answer(tasks'[p], e) # Unsolved
               PROVE  Answer(tasks'[p], e) = Optimum[ChildId(tasks'[p].id, e)]
    BY DEF Answers
  <2>1. CASE parent(p) /\ Last(path) = e
    BY <2>1, <1>2, <1>5 DEF Answer
  <2>2. CASE ~(parent(p) /\ Last(path) = e)
    <3>1. Answer(tasks'[p], e) = Answer(tasks[p], e)
      BY <2>2, <1>2, <1>5 DEF Answer
    <3> QED
      BY <3>1, <1>2 DEF TasksInv, Answers
  <2> QED
    BY <2>1, <2>2
<1>11. Outcome'
  <2>1. CASE path = Root
    BY <2>1 DEF Return, Outcome, TasksInv, Rooted
  <2>2. CASE path # Root
    BY <2>2 DEF Return, Outcome, TasksInv
  <2> QED
    BY <2>1, <2>2
<1> QED
  BY <1>1, <1>2, <1>3, <1>4, <1>6, <1>7, <1>8, <1>9, <1>10, <1>11 DEF TasksInv

\* A task is split in two.
LEMMA SpawnKeeps ==
  ASSUME TasksInv, UNCHANGED <<store, result>>,
         NEW path \in DOMAIN tasks, tasks[path].is = "spawned", Divisible(tasks[path].id),
         Spawn(path)
  PROVE  /\ TasksInv'
         /\ DOMAIN tasks \subseteq DOMAIN tasks'
         /\ tasks'[path].is = "waiting"
         /\ \A p \in DOMAIN tasks : p # path => tasks'[p] = tasks[p]
<1> DEFINE id == tasks[path].id
           kids == {Append(path, "x"), Append(path, "y")}
<1>0. /\ path \in Ways
      /\ tasks[path] \in Tasks
      /\ id \in Ids
  <2>1. path \in Ways /\ tasks[path] \in Tasks
    BY DEF TasksInv, TasksTyped
  <2> QED
    BY <2>1 DEF Tasks
<1>1. ASSUME NEW q \in kids
      PROVE  /\ q \in Ways /\ q # Root /\ q # path
             /\ Front(q) = path
             /\ Last(q) \in {"x", "y"}
  BY <1>0, WayDown
<1>2. ASSUME NEW q \in DOMAIN tasks, q # Root
      PROVE  Front(q) # path
  BY <1>2 DEF TasksInv, Awaited
<1>3. /\ DOMAIN tasks' = DOMAIN tasks \cup kids
      /\ path \notin kids
  BY <1>1 DEF Spawn
<1>4. ASSUME NEW q \in kids
      PROVE  tasks'[q] = Task(ChildId(id, Last(q)))
  BY <1>4 DEF Spawn
<1>5. /\ tasks'[path] \in Tasks
      /\ tasks'[path].id = id
      /\ tasks'[path].is = "waiting"
      /\ tasks'[path].delta = WorkId(id).delta
      /\ tasks'[path].x = tasks[path].x
      /\ tasks'[path].y = tasks[path].y
  <2>1. tasks'[path] = [tasks[path] EXCEPT !.is = "waiting", !.delta = WorkId(id).delta]
    BY <1>3 DEF Spawn
  <2>2. WorkId(id).delta \in Nat
    BY <1>0, ChildIds
  <2> QED
    BY <2>1, <2>2, <1>0 DEF Tasks
<1>6. ASSUME NEW p \in DOMAIN tasks, p # path
      PROVE  p \notin kids /\ tasks'[p] = tasks[p]
  <2>1. p \notin kids
    BY <1>1, <1>2
  <2> QED
    BY <2>1, <1>6 DEF Spawn
<1>7. ASSUME NEW q \in kids
      PROVE  /\ tasks'[q] \in Tasks
             /\ tasks'[q].id = ChildId(id, Last(q))
             /\ tasks'[q].is = "spawned"
             /\ tasks'[q].x = Unsolved
             /\ tasks'[q].y = Unsolved
  <2>1. ChildId(id, Last(q)) \in Ids
    BY <1>0, <1>1, ChildIds
  <2>2. ASSUME NEW i \in Ids
        PROVE  /\ Task(i) \in Tasks
               /\ Task(i).id = i
               /\ Task(i).is = "spawned"
               /\ Task(i).x = Unsolved
               /\ Task(i).y = Unsolved
    BY DEF Task, Tasks
  <2>3. tasks'[q] = Task(ChildId(id, Last(q)))
    BY <1>4
  <2> QED
    BY <2>1, <2>2, <2>3
<1>8. ASSUME NEW p \in DOMAIN tasks'
      PROVE  p \in kids \/ p = path \/ (p \in DOMAIN tasks /\ p # path)
  BY <1>3
<1> HIDE DEF kids
<1>9. TasksTyped'
  <2>1. ASSUME NEW p \in DOMAIN tasks'
        PROVE  p \in Ways /\ tasks'[p] \in Tasks
    BY <1>0, <1>1, <1>5, <1>6, <1>7, <1>8 DEF TasksInv, TasksTyped
  <2> QED
    BY <2>1 DEF TasksTyped
<1>10. Divided'
  <2>1. ASSUME NEW p \in DOMAIN tasks', tasks'[p].is # "spawned"
        PROVE  Divisible(tasks'[p].id) /\ tasks'[p].delta = WorkId(tasks'[p].id).delta
    BY <2>1, <1>5, <1>6, <1>7, <1>8 DEF TasksInv, Divided
  <2> QED
    BY <2>1 DEF Divided
<1>11. Fresh'
  <2>1. ASSUME NEW p \in DOMAIN tasks', tasks'[p].is = "spawned"
        PROVE  tasks'[p].x = Unsolved /\ tasks'[p].y = Unsolved
    BY <2>1, <1>5, <1>6, <1>7, <1>8 DEF TasksInv, Fresh
  <2> QED
    BY <2>1 DEF Fresh
<1>12. Inserted'
  <2>1. ASSUME NEW p \in DOMAIN tasks', tasks'[p].is = "inserted"
        PROVE  tasks'[p].id \in DOMAIN store /\ tasks'[p].x # Unsolved /\ tasks'[p].y # Unsolved
    BY <2>1, <1>5, <1>6, <1>7, <1>8 DEF TasksInv, Inserted
  <2> QED
    BY <2>1 DEF Inserted
<1>13. Awaited'
  <2> SUFFICES ASSUME NEW q \in DOMAIN tasks', q # Root
               PROVE  /\ Front(q) \in DOMAIN tasks'
                      /\ tasks'[Front(q)].is = "waiting"
                      /\ Answer(tasks'[Front(q)], Last(q)) = Unsolved
                      /\ tasks'[q].id = ChildId(tasks'[Front(q)].id, Last(q))
    BY DEF Awaited
  <2>1. CASE q \in kids
    <3>1. tasks[path].x = Unsolved /\ tasks[path].y = Unsolved
      BY DEF TasksInv, Fresh
    <3> QED
      BY <2>1, <3>1, <1>1, <1>3, <1>5, <1>7 DEF Answer
  <2>2. CASE q \in DOMAIN tasks
    <3>1. /\ Front(q) \in DOMAIN tasks /\ Front(q) # path
          /\ tasks[Front(q)].is = "waiting"
          /\ Answer(tasks[Front(q)], Last(q)) = Unsolved
          /\ tasks[q].id = ChildId(tasks[Front(q)].id, Last(q))
      BY <2>2, <1>2 DEF TasksInv, Awaited
    <3>2. tasks'[q].id = tasks[q].id
      BY <2>2, <1>5, <1>6
    <3> QED
      BY <3>1, <3>2, <1>3, <1>6
  <2> QED
    BY <2>1, <2>2, <1>3
<1>14. Rooted'
  <2>1. Root \in DOMAIN tasks' => Root \in DOMAIN tasks /\ tasks'[Root].id = tasks[Root].id
    BY <1>1, <1>5, <1>6, <1>8
  <2> QED
    BY <2>1 DEF Rooted, TasksInv
<1>15. Answers'
  <2> SUFFICES ASSUME NEW p \in DOMAIN tasks', NEW e \in {"x", "y"},
                      Answer(tasks'[p], e) # Unsolved
               PROVE  Answer(tasks'[p], e) = Optimum[ChildId(tasks'[p].id, e)]
    BY DEF Answers
  <2>1. CASE p \in kids
    BY <2>1, <1>7 DEF Answer
  <2>2. CASE p \in DOMAIN tasks
    <3>1. /\ Answer(tasks'[p], e) = Answer(tasks[p], e)
          /\ tasks'[p].id = tasks[p].id
      BY <2>2, <1>5, <1>6 DEF Answer
    <3> QED
      BY <2>2, <3>1 DEF TasksInv, Answers
  <2> QED
    BY <2>1, <2>2, <1>3
<1>16. Outcome'
  BY DEF Outcome, TasksInv
<1>17. TasksInv'
  BY <1>9, <1>10, <1>11, <1>12, <1>13, <1>14, <1>15, <1>16 DEF TasksInv
<1> QED
  BY <1>3, <1>5, <1>6, <1>17

\* insert() made an entry: the task has now to assign its value.
LEMMA InsertKeeps ==
  ASSUME TasksInv, UNCHANGED result,
         NEW path \in DOMAIN tasks, tasks[path].is = "waiting",
         tasks[path].x # Unsolved, tasks[path].y # Unsolved,
         DOMAIN store' = DOMAIN store \cup {tasks[path].id},
         tasks' = [tasks EXCEPT ![path].is = "inserted"]
  PROVE  /\ TasksInv'
         /\ DOMAIN tasks' = DOMAIN tasks
         /\ tasks'[path].is = "inserted"
         /\ \A p \in DOMAIN tasks : p # path => tasks'[p] = tasks[p]
<1>1. /\ path \in Ways
      /\ tasks[path] \in Tasks
  BY DEF TasksInv, TasksTyped
<1>2. DOMAIN tasks' = DOMAIN tasks
  OBVIOUS
<1>3. /\ tasks'[path] \in Tasks
      /\ tasks'[path].is = "inserted"
      /\ tasks'[path].id = tasks[path].id
      /\ tasks'[path].delta = tasks[path].delta
      /\ tasks'[path].x = tasks[path].x
      /\ tasks'[path].y = tasks[path].y
  BY <1>1 DEF Tasks
<1>4. ASSUME NEW p \in DOMAIN tasks, p # path
      PROVE  tasks'[p] = tasks[p]
  BY <1>4
<1>5. ASSUME NEW q \in DOMAIN tasks, q # Root
      PROVE  Front(q) # path
  <2>1. Last(q) \in {"x", "y"}
    BY <1>5, WayBack DEF TasksInv, TasksTyped
  <2> QED
    BY <1>5, <2>1 DEF TasksInv, Awaited, Answer
<1>6. TasksTyped'
  BY <1>2, <1>3, <1>4 DEF TasksInv, TasksTyped
<1>7. Divided'
  BY <1>2, <1>3, <1>4 DEF TasksInv, Divided
<1>8. Fresh'
  BY <1>2, <1>3, <1>4 DEF TasksInv, Fresh
<1>9. Inserted'
  BY <1>2, <1>3, <1>4 DEF TasksInv, Inserted
<1>10. Awaited'
  BY <1>2, <1>3, <1>4, <1>5 DEF TasksInv, Awaited
<1>11. Rooted'
  BY <1>2, <1>3, <1>4 DEF TasksInv, Rooted
<1>12. Answers'
  BY <1>2, <1>3, <1>4 DEF TasksInv, Answers, Answer
<1>13. Outcome'
  BY DEF TasksInv, Outcome
<1>14. TasksInv'
  BY <1>6, <1>7, <1>8, <1>9, <1>10, <1>11, <1>12, <1>13 DEF TasksInv
<1> QED
  BY <1>2, <1>3, <1>4, <1>14

-----------------------------------------------------------------------------
\* Both answers are there: no child is left and their sum is the optimum.
LEMMA SumIsBest ==
  ASSUME TasksInv, NEW path \in DOMAIN tasks,
         tasks[path].is # "spawned", tasks[path].x # Unsolved, tasks[path].y # Unsolved
  PROVE  /\ Childless(path)
         /\ Sum(tasks[path]) = Optimum[tasks[path].id]
<1>1. Childless(path)
  <2> SUFFICES ASSUME NEW q \in DOMAIN tasks, q # Root, Front(q) = path
               PROVE  FALSE
    BY DEF Childless, ChildOf
  <2> QED
    BY DEF TasksInv, Awaited, Answer
<1>2. /\ tasks[path].id \in Ids
      /\ Divisible(tasks[path].id)
      /\ tasks[path].delta = WorkId(tasks[path].id).delta
  BY DEF TasksInv, TasksTyped, Tasks, Divided
<1>3. /\ tasks[path].x = Optimum[ChildId(tasks[path].id, "x")]
      /\ tasks[path].y = Optimum[ChildId(tasks[path].id, "y")]
  <2>1. ASSUME NEW e \in {"x", "y"}
        PROVE  Answer(tasks[path], e) # Unsolved =>
                 Answer(tasks[path], e) = Optimum[ChildId(tasks[path].id, e)]
    BY DEF TasksInv, Answers
  <2> QED
    BY <2>1 DEF Answer
<1> QED
  BY <1>1, <1>2, <1>3, Equation DEF Sum

\* A task that was not split has no children either.
LEMMA SpawnedIsChildless ==
  ASSUME TasksInv, NEW path \in DOMAIN tasks, tasks[path].is = "spawned"
  PROVE  Childless(path)
BY DEF Childless, ChildOf, TasksInv, Awaited

\* Stacks that stay as they are keep what is said of them as long as their
\* tasks live and keep their places.
LEMMA StacksKeep ==
  ASSUME Stacked, Alone, UNCHANGED <<serial, stacks>>,
         \A t \in Threads : \A i \in 1..Len(stacks[t]) :
            /\ stacks[t][i] \in DOMAIN tasks'
            /\ \/ tasks'[stacks[t][i]].is = tasks[stacks[t][i]].is
               \/ tasks'[stacks[t][i]].is = "inserted"
  PROVE  Stacked' /\ Alone'
BY DEF Stacked, Alone

\* What Front and Last take from a sequence.
LEMMA LastOff ==
  ASSUME NEW S, NEW s \in Seq(S), s # << >>
  PROVE  /\ Len(s) \in Nat /\ Len(s) # 0
         /\ Last(s) = s[Len(s)]
         /\ Front(s) \in Seq(S)
         /\ Len(Front(s)) = Len(s) - 1
         /\ \A i \in 1..(Len(s) - 1) : Front(s)[i] = s[i]
<1>1. Len(s) \in Nat /\ Len(s) # 0
  OBVIOUS
<1>2. Last(s) = s[Len(s)]
  BY DEF Last
<1>3. Front(s) \in Seq(S) /\ Len(Front(s)) = Len(s) - 1
  <2>1. \A i \in 1..(Len(s) - 1) : s[i] \in S
    BY <1>1
  <2>2. Len(Front(s)) = Len(s) - 1
    <3>1. CASE Len(s) = 1
      BY <3>1 DEF Front
    <3>2. CASE Len(s) # 1
      <4>1. ASSUME NEW n \in 1..Len(s)
            PROVE  Len(SubSeq(s, 1, n)) = n
        OBVIOUS
      <4>2. Len(s) - 1 \in 1..Len(s)
        BY <3>2, <1>1
      <4> QED
        BY <4>1, <4>2 DEF Front
    <3> QED
      BY <3>1, <3>2
  <2>3. Front(s) \in Seq(S)
    BY <2>1, <1>1 DEF Front
  <2> QED
    BY <2>2, <2>3
<1>4. \A i \in 1..(Len(s) - 1) : Front(s)[i] = s[i]
  BY <1>1 DEF Front
<1> QED
  BY <1>1, <1>2, <1>3, <1>4

\* A task comes on a stack.
LEMMA PushKeeps ==
  ASSUME Stacked, Alone, stacks \in [Threads -> Seq(Ways)], UNCHANGED serial,
         NEW t \in Threads, NEW path \in Ways,
         stacks' = [stacks EXCEPT ![t] = Append(stacks[t], path)],
         path \in DOMAIN tasks', tasks'[path].is # "spawned",
         ~serial => tasks'[path].is = "inserted",
         \A u \in Threads : \A i \in 1..Len(stacks[u]) :
            /\ stacks[u][i] # path
            /\ stacks[u][i] \in DOMAIN tasks'
            /\ tasks'[stacks[u][i]].is = tasks[stacks[u][i]].is
  PROVE  stacks' \in [Threads -> Seq(Ways)] /\ Stacked' /\ Alone'
<1>1. stacks' \in [Threads -> Seq(Ways)]
  OBVIOUS
<1>2. ASSUME NEW u \in Threads, NEW i \in 1..Len(stacks'[u])
      PROVE  \/ u = t /\ i = Len(stacks[t]) + 1 /\ stacks'[u][i] = path
             \/ i \in 1..Len(stacks[u]) /\ stacks'[u][i] = stacks[u][i]
  <2>1. CASE u = t
    <3>1. /\ stacks[t] \in Seq(Ways)
          /\ stacks'[t] = Append(stacks[t], path)
      OBVIOUS
    <3> QED
      BY <2>1, <3>1
  <2>2. CASE u # t
    BY <2>2
  <2> QED
    BY <2>1, <2>2
<1>3. Stacked'
  <2> SUFFICES ASSUME NEW u \in Threads, NEW i \in 1..Len(stacks'[u])
               PROVE  /\ stacks'[u][i] \in DOMAIN tasks'
                      /\ tasks'[stacks'[u][i]].is # "spawned"
                      /\ ~serial => tasks'[stacks'[u][i]].is = "inserted"
    BY DEF Stacked
  <2> QED
    BY <1>2 DEF Stacked
<1>4. Alone'
  <2> SUFFICES ASSUME NEW u \in Threads, NEW v \in Threads,
                      NEW i \in 1..Len(stacks'[u]), NEW j \in 1..Len(stacks'[v]),
                      stacks'[u][i] = stacks'[v][j]
               PROVE  u = v /\ i = j
    BY DEF Alone
  <2>1. \/ u = t /\ i = Len(stacks[t]) + 1 /\ stacks'[u][i] = path
        \/ i \in 1..Len(stacks[u]) /\ stacks'[u][i] = stacks[u][i]
    BY <1>2
  <2>2. \/ v = t /\ j = Len(stacks[t]) + 1 /\ stacks'[v][j] = path
        \/ j \in 1..Len(stacks[v]) /\ stacks'[v][j] = stacks[v][j]
    BY <1>2
  <2> QED
    BY <2>1, <2>2 DEF Alone
<1> QED
  BY <1>1, <1>3, <1>4

\* The last task of a stack leaves it, and its thread is done with it.
LEMMA PopKeeps ==
  ASSUME Stacked, Alone, stacks \in [Threads -> Seq(Ways)], UNCHANGED serial,
         NEW t \in Threads, stacks[t] # << >>,
         stacks' = [stacks EXCEPT ![t] = Front(stacks[t])],
         DOMAIN tasks' = DOMAIN tasks \ {Last(stacks[t])},
         \A p \in DOMAIN tasks' : tasks'[p].is = tasks[p].is
  PROVE  stacks' \in [Threads -> Seq(Ways)] /\ Stacked' /\ Alone'
<1> DEFINE n == Len(stacks[t])
<1>1. /\ stacks[t] \in Seq(Ways)
      /\ n \in Nat /\ n # 0
      /\ Last(stacks[t]) = stacks[t][n]
      /\ Front(stacks[t]) \in Seq(Ways)
      /\ Len(Front(stacks[t])) = n - 1
      /\ \A i \in 1..(n - 1) : Front(stacks[t])[i] = stacks[t][i]
  BY LastOff
<1>2. stacks' \in [Threads -> Seq(Ways)]
  BY <1>1
<1>3. ASSUME NEW u \in Threads, NEW i \in 1..Len(stacks'[u])
      PROVE  /\ i \in 1..Len(stacks[u])
             /\ stacks'[u][i] = stacks[u][i]
             /\ ~(u = t /\ i = n)
  <2>1. CASE u = t
    <3>1. stacks'[t] = Front(stacks[t])
      OBVIOUS
    <3> QED
      BY <2>1, <3>1, <1>1
  <2>2. CASE u # t
    BY <2>2
  <2> QED
    BY <2>1, <2>2
<1>4. Stacked'
  <2> SUFFICES ASSUME NEW u \in Threads, NEW i \in 1..Len(stacks'[u])
               PROVE  /\ stacks'[u][i] \in DOMAIN tasks'
                      /\ tasks'[stacks'[u][i]].is # "spawned"
                      /\ ~serial => tasks'[stacks'[u][i]].is = "inserted"
    BY DEF Stacked
  <2>1. stacks[u][i] # stacks[t][n]
    BY <1>1, <1>3 DEF Alone
  <2>2. /\ stacks[u][i] \in DOMAIN tasks
        /\ tasks[stacks[u][i]].is # "spawned"
        /\ ~serial => tasks[stacks[u][i]].is = "inserted"
    BY <1>3 DEF Stacked
  <2> QED
    BY <2>1, <2>2, <1>1, <1>3
<1>5. Alone'
  <2> SUFFICES ASSUME NEW u \in Threads, NEW v \in Threads,
                      NEW i \in 1..Len(stacks'[u]), NEW j \in 1..Len(stacks'[v]),
                      stacks'[u][i] = stacks'[v][j]
               PROVE  u = v /\ i = j
    BY DEF Alone
  <2>1. i \in 1..Len(stacks[u]) /\ stacks'[u][i] = stacks[u][i]
    BY <1>3
  <2>2. j \in 1..Len(stacks[v]) /\ stacks'[v][j] = stacks[v][j]
    BY <1>3
  <2>3. stacks[u][i] = stacks[v][j]
    BY <2>1, <2>2
  <2> QED
    BY <2>1, <2>2, <2>3 DEF Alone
<1> QED
  BY <1>2, <1>4, <1>5

-----------------------------------------------------------------------------
\* execute(): found in the map, a base case, or split.
LEMMA ExecuteKeeps ==
  ASSUME IndInv, NEW t \in Threads, NEW path \in DOMAIN tasks,
         Execute(t, path)
  PROVE  IndInv'
<1> DEFINE id == tasks[path].id
<1>0. /\ tasks[path].is = "spawned"
      /\ UNCHANGED <<serial, store, locked>>
      /\ TasksInv /\ Stacked /\ Alone
      /\ stacks \in [Threads -> Seq(Ways)]
      /\ DOMAIN store \subseteq Ids
      /\ path \in Ways
      /\ id \in Ids
  BY DEF Execute, IndInv, Typed, TasksInv, TasksTyped, Tasks
<1>1. \A u \in Threads : \A i \in 1..Len(stacks[u]) :
         /\ stacks[u][i] # path
         /\ stacks[u][i] \in DOMAIN tasks
  BY <1>0 DEF Stacked
<1>2. Entries'
  BY <1>0 DEF IndInv, Entries
<1>3. ASSUME Return(path, Optimum[id]), UNCHANGED stacks
      PROVE  IndInv'
  <2>1. /\ TasksInv'
        /\ DOMAIN tasks' = DOMAIN tasks \ {path}
        /\ \A p \in DOMAIN tasks' : tasks'[p].is = tasks[p].is
    BY <1>0, <1>3, ReturnKeeps, SpawnedIsChildless
  <2>2. Stacked' /\ Alone'
    BY <2>1, <1>0, <1>1, <1>3, StacksKeep
  <2>3. Typed'
    BY <2>1, <1>0, <1>3 DEF Typed, TasksInv
  <2> QED
    BY <2>1, <2>2, <2>3, <1>2 DEF IndInv
<1>4. CASE id \in DOMAIN store /\ Return(path, store[id]) /\ UNCHANGED stacks
  <2>1. store[id] = Optimum[id]
    BY <1>4 DEF Execute, Free, IndInv, Entries
  <2> QED
    BY <2>1, <1>3, <1>4
<1>5. CASE (id.idx = 0 \/ id.w_bound = 0) /\ Return(path, 0) /\ UNCHANGED stacks
  <2>1. Optimum[id] = 0
    BY <1>0, <1>5, Equation DEF Divisible
  <2> QED
    BY <2>1, <1>3, <1>5
<1>6. CASE /\ ~(id.idx = 0 \/ id.w_bound = 0)
           /\ Spawn(path)
           /\ stacks' = IF serial THEN [stacks EXCEPT ![t] = Append(@, path)] ELSE stacks
           /\ UNCHANGED result
  <2>1. /\ TasksInv'
        /\ DOMAIN tasks \subseteq DOMAIN tasks'
        /\ tasks'[path].is = "waiting"
        /\ \A p \in DOMAIN tasks : p # path => tasks'[p] = tasks[p]
    BY <1>0, <1>6, SpawnKeeps DEF Divisible
  <2>2. \A u \in Threads : \A i \in 1..Len(stacks[u]) :
           /\ stacks[u][i] # path
           /\ stacks[u][i] \in DOMAIN tasks'
           /\ tasks'[stacks[u][i]].is = tasks[stacks[u][i]].is
    BY <2>1, <1>1
  <2>3. CASE serial
    <3>1. stacks' = [stacks EXCEPT ![t] = Append(stacks[t], path)]
      BY <2>3, <1>6
    <3>2. stacks' \in [Threads -> Seq(Ways)] /\ Stacked' /\ Alone'
      BY <2>1, <2>2, <2>3, <3>1, <1>0, PushKeeps
    <3> QED
      BY <2>1, <3>2, <1>0, <1>2 DEF IndInv, Typed, TasksInv
  <2>4. CASE ~serial
    <3>1. UNCHANGED stacks
      BY <2>4, <1>6
    <3>2. Stacked' /\ Alone'
      BY <2>2, <3>1, <1>0, StacksKeep
    <3> QED
      BY <2>1, <3>1, <3>2, <1>0, <1>2 DEF IndInv, Typed, TasksInv
  <2> QED
    BY <2>3, <2>4
<1> QED
  BY <1>4, <1>5, <1>6 DEF Execute

\* Both children are done: a task solved in vain returns, another one makes
\* the entry.
LEMMA CombineKeeps ==
  ASSUME IndInv, NEW t \in Threads, NEW path \in DOMAIN tasks,
         Combine(t, path)
  PROVE  IndInv'
<1> DEFINE task == tasks[path]
<1>0. /\ task.is = "waiting" /\ task.x # Unsolved /\ task.y # Unsolved
      /\ UNCHANGED serial
      /\ TasksInv /\ Stacked /\ Alone
      /\ stacks \in [Threads -> Seq(Ways)]
      /\ DOMAIN store \subseteq Ids
      /\ path \in Ways
      /\ task.id \in Ids
  BY DEF Combine, IndInv, Typed, TasksInv, TasksTyped, Tasks
<1>1. Childless(path) /\ Sum(task) = Optimum[task.id]
  BY <1>0, SumIsBest
<1>2. CASE /\ task.id \in DOMAIN store
           /\ Return(path, Sum(task))
           /\ stacks' = IF serial THEN [stacks EXCEPT ![t] = Front(@)] ELSE stacks
           /\ UNCHANGED <<store, locked>>
  <2>1. /\ TasksInv'
        /\ DOMAIN tasks' = DOMAIN tasks \ {path}
        /\ \A p \in DOMAIN tasks' : tasks'[p].is = tasks[p].is
    BY <1>0, <1>1, <1>2, ReturnKeeps
  <2>2. Entries'
    BY <1>2 DEF IndInv, Entries
  <2>3. CASE serial
    <3>1. /\ stacks[t] # << >>
          /\ Last(stacks[t]) = path
          /\ stacks' = [stacks EXCEPT ![t] = Front(stacks[t])]
      BY <2>3, <1>2 DEF Combine
    <3>2. stacks' \in [Threads -> Seq(Ways)] /\ Stacked' /\ Alone'
      BY <2>1, <3>1, <1>0, PopKeeps
    <3> QED
      BY <2>1, <2>2, <3>2, <1>0, <1>2 DEF IndInv, Typed, TasksInv
  <2>4. CASE ~serial
    <3>1. UNCHANGED stacks
      BY <2>4, <1>2
    <3>2. \A u \in Threads : \A i \in 1..Len(stacks[u]) :
             stacks[u][i] \in DOMAIN tasks /\ stacks[u][i] # path
      BY <2>4, <1>0 DEF Stacked
    <3>3. Stacked' /\ Alone'
      BY <2>1, <3>1, <3>2, <1>0, StacksKeep
    <3> QED
      BY <2>1, <2>2, <3>1, <3>3, <1>0, <1>2 DEF IndInv, Typed, TasksInv
  <2> QED
    BY <2>3, <2>4
<1>3. CASE /\ task.id \notin DOMAIN store
           /\ store' = [id \in DOMAIN store \cup {task.id} |->
                          IF id = task.id THEN 0 ELSE store[id]]
           /\ locked' = locked \union {task.id}
           /\ tasks' = [tasks EXCEPT ![path].is = "inserted"]
           /\ stacks' = IF serial THEN stacks ELSE [stacks EXCEPT ![t] = <<path>>]
           /\ UNCHANGED result
  <2>0. DOMAIN store' = DOMAIN store \cup {task.id}
    BY <1>3
  <2>1. /\ TasksInv'
        /\ DOMAIN tasks' = DOMAIN tasks
        /\ tasks'[path].is = "inserted"
        /\ \A p \in DOMAIN tasks : p # path => tasks'[p] = tasks[p]
    BY <2>0, <1>0, <1>3, InsertKeeps
  <2>2. Entries'
    BY <1>3 DEF IndInv, Entries
  <2>3. CASE serial
    <3>1. UNCHANGED stacks
      BY <2>3, <1>3
    <3>2. Stacked' /\ Alone'
      <4>1. \A u \in Threads : \A i \in 1..Len(stacks[u]) : stacks[u][i] \in DOMAIN tasks
        BY <1>0 DEF Stacked
      <4> QED
        BY <2>1, <3>1, <4>1, <1>0, StacksKeep
    <3> QED
      BY <2>0, <2>1, <2>2, <3>1, <3>2, <1>0 DEF IndInv, Typed, TasksInv
  <2>4. CASE ~serial
    <3>1. \A u \in Threads : \A i \in 1..Len(stacks[u]) :
             /\ stacks[u][i] # path
             /\ stacks[u][i] \in DOMAIN tasks'
             /\ tasks'[stacks[u][i]].is = tasks[stacks[u][i]].is
      BY <2>1, <2>4, <1>0 DEF Stacked
    <3>2. /\ stacks[t] = << >>
          /\ stacks' = [stacks EXCEPT ![t] = <<path>>]
      BY <2>4, <1>3 DEF Combine
    <3>3. stacks' = [stacks EXCEPT ![t] = Append(stacks[t], path)]
      BY <3>2
    <3>4. stacks' \in [Threads -> Seq(Ways)] /\ Stacked' /\ Alone'
      BY <2>1, <3>1, <3>3, <1>0, PushKeeps
    <3> QED
      BY <2>0, <2>1, <2>2, <3>4, <1>0 DEF IndInv, Typed, TasksInv
  <2> QED
    BY <2>3, <2>4
<1> QED
  BY <1>2, <1>3 DEF Combine

\* a->second = *r_: the entry has its value before its accessor goes.
LEMMA EnterKeeps ==
  ASSUME IndInv, NEW t \in Threads, Enter(t)
  PROVE  IndInv'
<1>1. PICK path : path = Last(stacks[t])
  OBVIOUS
<1>2. /\ stacks[t] # << >>
      /\ tasks[path].is = "inserted"
      /\ store' = [store EXCEPT ![tasks[path].id] = Sum(tasks[path])]
      /\ locked' = locked \ {tasks[path].id}
      /\ stacks' = [stacks EXCEPT ![t] = Front(stacks[t])]
      /\ Return(path, Sum(tasks[path]))
      /\ UNCHANGED serial
  BY <1>1 DEF Enter
<1>3. /\ TasksInv /\ Stacked /\ Alone
      /\ stacks \in [Threads -> Seq(Ways)]
      /\ DOMAIN store \subseteq Ids
  BY DEF IndInv, Typed
<1>4. path \in DOMAIN tasks
  <2>1. Last(stacks[t]) = stacks[t][Len(stacks[t])] /\ Len(stacks[t]) \in 1..Len(stacks[t])
    BY <1>2, <1>3, LastOff
  <2> QED
    BY <2>1, <1>1, <1>3 DEF Stacked
<1>5. /\ tasks[path].id \in DOMAIN store
      /\ tasks[path].x # Unsolved /\ tasks[path].y # Unsolved
  BY <1>2, <1>3, <1>4 DEF TasksInv, Inserted
<1>6. Childless(path) /\ Sum(tasks[path]) = Optimum[tasks[path].id]
  BY <1>2, <1>3, <1>4, <1>5, SumIsBest
<1>7. DOMAIN store' = DOMAIN store
  BY <1>2
<1>8. /\ TasksInv'
      /\ DOMAIN tasks' = DOMAIN tasks \ {path}
      /\ \A p \in DOMAIN tasks' : tasks'[p].is = tasks[p].is
  BY <1>2, <1>3, <1>4, <1>6, <1>7, ReturnKeeps
<1>9. stacks' \in [Threads -> Seq(Ways)] /\ Stacked' /\ Alone'
  BY <1>1, <1>2, <1>3, <1>8, PopKeeps
<1>10. Entries'
  <2> SUFFICES ASSUME NEW id \in DOMAIN store', id \notin locked'
               PROVE  store'[id] = Optimum[id]
    BY DEF Entries
  <2>1. CASE id = tasks[path].id
    BY <2>1, <1>2, <1>5, <1>6
  <2>2. CASE id # tasks[path].id
    BY <2>2, <1>2, <1>7 DEF IndInv, Entries
  <2> QED
    BY <2>1, <2>2
<1> QED
  BY <1>3, <1>7, <1>8, <1>9, <1>10 DEF IndInv, Typed, TasksInv

\* The inductive invariant of the tasks, for any items, capacity and threads.
THEOREM TasksInvariant == TaskSpec => []IndInv
<1>1. TaskInit => IndInv
  <2> SUFFICES ASSUME TaskInit
               PROVE  IndInv
    OBVIOUS
  <2>1. /\ tasks = [path \in {Root} |-> Task(TaskId(W, Len(items)))]
        /\ store = << >>
        /\ stacks = [u \in Threads |-> << >>]
        /\ result = Unsolved
    BY DEF TaskInit
  <2>2. TaskId(W, Len(items)) \in Ids
    BY ItemsAssumption DEF TaskId, Ids
  <2>3. /\ DOMAIN tasks = {Root}
        /\ tasks[Root] \in Tasks
        /\ tasks[Root].id = TaskId(W, Len(items))
        /\ tasks[Root].is = "spawned"
        /\ tasks[Root].x = Unsolved
        /\ tasks[Root].y = Unsolved
    <3>1. ASSUME NEW i \in Ids
          PROVE  /\ Task(i) \in Tasks
                 /\ Task(i).id = i
                 /\ Task(i).is = "spawned"
                 /\ Task(i).x = Unsolved
                 /\ Task(i).y = Unsolved
      BY DEF Task, Tasks
    <3>2. DOMAIN tasks = {Root} /\ tasks[Root] = Task(TaskId(W, Len(items)))
      BY <2>1
    <3> QED
      BY <2>2, <3>1, <3>2
  <2>4. Root \in Ways
    BY DEF Root, Ways
  <2>5. TasksInv
    BY <2>1, <2>3, <2>4 DEF TasksInv, TasksTyped, Divided, Fresh, Inserted, Awaited, Rooted,
                            Answers, Answer, Outcome
  <2>6. stacks \in [Threads -> Seq(Ways)] /\ \A u \in Threads : Len(stacks[u]) = 0
    BY <2>1
  <2>7. Stacked /\ Alone
    BY <2>6 DEF Stacked, Alone
  <2>8. DOMAIN store = {}
    BY <2>1
  <2> QED
    BY <2>5, <2>6, <2>7, <2>8 DEF IndInv, Typed, TasksInv, Entries
<1>2. IndInv /\ [TaskNext]_taskVars => IndInv'
  <2> SUFFICES ASSUME IndInv, [TaskNext]_taskVars
               PROVE  IndInv'
    OBVIOUS
  <2>1. CASE TaskNext
    BY <2>1, ExecuteKeeps, CombineKeeps, EnterKeeps DEF TaskNext
  <2>2. CASE UNCHANGED taskVars
    BY <2>2 DEF taskVars, IndInv, Typed, TasksInv, TasksTyped, Divided, Fresh, Inserted,
                Awaited, Rooted, Answers, Outcome, Stacked, Alone, Entries
  <2> QED
    BY <2>1, <2>2
<1> QED
  BY <1>1, <1>2, PTL DEF TaskSpec

\* w3_dyn_pro_parallel.cc: whoever enters a subproblem first, what can be
\* found in the map, what a task got and the result are the optimum, the
\* function that satisfies the equation of the problem.
THEOREM TasksMemoOptimal == TaskSpec => []MemoOptimal
<1>1. IndInv => MemoOptimal
  <2> SUFFICES ASSUME IndInv
               PROVE  MemoOptimal
    OBVIOUS
  <2>1. ASSUME NEW p \in DOMAIN tasks, NEW e \in {"x", "y"}
        PROVE  Answer(tasks[p], e) # Unsolved =>
                 Answer(tasks[p], e) = Optimum[ChildId(tasks[p].id, e)]
    BY DEF IndInv, TasksInv, Answers
  <2>2. ASSUME NEW p \in DOMAIN tasks
        PROVE  /\ tasks[p].x # Unsolved => tasks[p].x = Optimum[ChildId(tasks[p].id, "x")]
               /\ tasks[p].y # Unsolved => tasks[p].y = Optimum[ChildId(tasks[p].id, "y")]
    BY <2>1 DEF Answer
  <2> QED
    BY <2>2 DEF IndInv, TasksInv, Entries, Outcome, MemoOptimal
<1> QED
  BY <1>1, TasksInvariant, PTL

-----------------------------------------------------------------------------
Inside == {"load", "store", "unlock"}

\* One of two threads has the mutex, and only it is between lock and unlock.
Owned == /\ at \in [{"t1", "t2", "t3"} -> {"start", "end"} \cup Inside]
         /\ \A t \in {"t1", "t2"} : at[t] \in Inside <=> mtx = t

Happened(e) == e \in DOMAIN past

\* Which accesses have happened is known from where the threads are; only
\* the first thread may have passed its store without making it.
Placed == /\ \A f \in DOMAIN past : past[f] \subseteq DOMAIN past
          /\ Happened("store3") <=> at["t3"] = "end"
          /\ Happened("load2") <=> at["t2"] \in {"store", "unlock", "end"}
          /\ Happened("store1") => at["t1"] \in {"unlock", "end"}

\* The flag is up from the store of the first thread to the next one, and the
\* state is untouched until the second thread has loaded.  If that was first,
\* its 2 keeps the first thread from storing.
Raised == /\ flag <=> /\ Happened("store1")
                      /\ ~ Before("store1", "store3")
                      /\ at["t2"] \notin {"unlock", "end"}
          /\ state = IF Happened("load2") /\ ~ FlagReachesT2 THEN 2 ELSE 0
          /\ at["t1"] = "store" => ~ Happened("load2")
          /\ at["t1"] \in {"unlock", "end"} => Happened("store1") \/ Happened("load2")

RaceInv == Owned /\ Placed /\ Raised

\* An access that happens is behind those that have, and changes no order.
LEMMA HappensProperties ==
  ASSUME NEW e, Happens(e)
  PROVE  /\ DOMAIN past' = DOMAIN past \cup {e}
         /\ past'[e] = DOMAIN past
         /\ \A x \in DOMAIN past : x # e => past'[x] = past[x]
BY DEF Happens

\* atomic_race.cpp:43,63-65: whatever the order of the three threads, the flag
\* is down at the end, and the state is 0 if the second thread saw the flag of
\* the first, and 2 if it was too early or the store without the mutex took
\* the flag away.
THEOREM RaceOutcomeByOrder == RaceSpec => []RaceOutcome
<1>1. RaceInit => RaceInv
  BY DEF RaceInit, RaceInv, Owned, Placed, Raised, Inside, Happened, Before, FlagReachesT2
<1>2. RaceInv /\ [RaceNext]_raceVars => RaceInv'
  <2> SUFFICES ASSUME RaceInv, [RaceNext]_raceVars
               PROVE  RaceInv'
    OBVIOUS
  <2> USE DEF RaceInv, Owned, Placed, Raised, Inside, Happened, Before, FlagReachesT2
  <2>1. ASSUME NEW t \in {"t1", "t2"}, Lock(t)
        PROVE  RaceInv'
    BY <2>1 DEF Lock, Goto
  <2>2. ASSUME NEW t \in {"t1", "t2"}, Unlock(t)
        PROVE  RaceInv'
    BY <2>2 DEF Unlock, Goto
  <2>3. CASE Load1
    BY <2>3 DEF Load1, Goto
  <2>4. CASE Load2
    <3>1. /\ DOMAIN past' = DOMAIN past \cup {"load2"}
          /\ past'["load2"] = DOMAIN past
          /\ \A x \in DOMAIN past : x # "load2" => past'[x] = past[x]
      BY <2>4, HappensProperties DEF Load2
    <3>2. Owned' /\ "load2" \notin DOMAIN past
      BY <2>4 DEF Load2, Goto
    <3>3. Placed'
      BY <2>4, <3>1, <3>2 DEF Load2, Goto
    <3>4. Raised'
      BY <2>4, <3>1, <3>2 DEF Load2, Goto
    <3> QED
      BY <3>2, <3>3, <3>4
  <2>5. CASE Store1
    <3>1. /\ DOMAIN past' = DOMAIN past \cup {"store1"}
          /\ past'["store1"] = DOMAIN past
          /\ \A x \in DOMAIN past : x # "store1" => past'[x] = past[x]
      BY <2>5, HappensProperties DEF Store1
    <3>2. Owned' /\ "store1" \notin DOMAIN past
      BY <2>5 DEF Store1, Goto
    <3>3. Placed'
      BY <2>5, <3>1, <3>2 DEF Store1, Goto
    <3>4. Raised'
      BY <2>5, <3>1, <3>2 DEF Store1, Goto
    <3> QED
      BY <3>2, <3>3, <3>4
  <2>6. CASE Store2
    BY <2>6 DEF Store2, Goto
  <2>7. CASE Store3
    <3>1. /\ DOMAIN past' = DOMAIN past \cup {"store3"}
          /\ past'["store3"] = DOMAIN past
          /\ \A x \in DOMAIN past : x # "store3" => past'[x] = past[x]
      BY <2>7, HappensProperties DEF Store3
    <3>2. Owned' /\ "store3" \notin DOMAIN past
      BY <2>7 DEF Store3, Goto
    <3>3. Placed'
      BY <2>7, <3>1, <3>2 DEF Store3, Goto
    <3>4. Raised'
      BY <2>7, <3>1, <3>2 DEF Store3, Goto
    <3> QED
      BY <3>2, <3>3, <3>4
  <2>8. CASE UNCHANGED raceVars
    BY <2>8 DEF raceVars
  <2> QED
    BY <2>1, <2>2, <2>3, <2>4, <2>5, <2>6, <2>7, <2>8 DEF RaceNext
<1>3. RaceInv => RaceOutcome
  BY DEF RaceInv, Owned, Placed, Raised, RaceOutcome, Joined, Happened
<1> QED
  BY <1>1, <1>2, <1>3, PTL DEF RaceSpec

-----------------------------------------------------------------------------
\* A graph of build_graph(): node 0 and the nodes 1..n of the file, of which
\* the arrows speak.
WellFormed(g) == \E n \in Nat \ {0} : g \in [0..n -> Seq((1..n) \X Nat)]

\* What the proof uses of it.
Shape == /\ DOMAIN graph \subseteq Nat
         /\ 0 \in DOMAIN graph /\ 1 \in DOMAIN graph
         /\ \A u \in DOMAIN graph : /\ Len(graph[u]) \in Nat
                                    /\ \A k \in 1..Len(graph[u]) :
                                         /\ graph[u][k][1] \in DOMAIN graph \ {0}
                                         /\ graph[u][k][2] \in Nat

PathsTyped == /\ track \in [DOMAIN graph -> [d : 0..kMaxVal, visited : BOOLEAN]]
              /\ idx \in DOMAIN graph
              /\ walked \in 0..Len(graph[idx])
              /\ finished \in BOOLEAN

\* The way out of the loop is always there, and the source is at 0.
Ends == /\ track[0].d = kMaxVal
        /\ track[1].d = 0

Reached == \A v \in DOMAIN graph : track[v].visited => track[v].d < kMaxVal

Current == /\ track[idx].visited \/ walked = Len(graph[idx])
           /\ finished => walked = Len(graph[idx])

\* The node being visited is the farthest of those visited, and the others
\* are not nearer.
Ordered == \A u, v \in DOMAIN graph :
             track[u].visited =>
               /\ ~track[v].visited => track[u].d <= track[v].d
               /\ track[idx].visited /\ track[u].d <= track[idx].d

\* The arrows that the inner loop has seen.
Done(u, k) == track[u].visited /\ (u # idx \/ k <= walked)

Relaxed == \A u \in DOMAIN graph : \A k \in 1..Len(graph[u]) :
             Done(u, k) => track[graph[u][k][1]].d <= track[u].d + graph[u][k][2]

\* The arrow a distance was taken from.
Source(v) == \E u \in DOMAIN graph : \E k \in 1..Len(graph[u]) :
               /\ track[u].visited
               /\ graph[u][k][1] = v
               /\ track[v].d = track[u].d + graph[u][k][2]

Justified == \A v \in DOMAIN graph \ {1} : track[v].d # kMaxVal => Source(v)

Exhausted == finished => \A v \in DOMAIN graph : track[v].visited \/ track[v].d = kMaxVal

PathsInv == Shape /\ PathsTyped /\ Ends /\ Reached /\ Current /\ Ordered /\ Relaxed /\ Justified /\ Exhausted

-----------------------------------------------------------------------------
\* Before the loop only node 1 has a distance, and nothing is visited.
LEMMA InitHolds ==
  ASSUME NEW g, WellFormed(g), PathInit(g)
  PROVE  PathsInv
<1> USE MaxValAssumption
<1>1. PICK n \in Nat \ {0} : g \in [0..n -> Seq((1..n) \X Nat)]
  BY DEF WellFormed
<1>2. /\ graph = g /\ DOMAIN graph = 0..n
      /\ track = [v \in 0..n |-> [d |-> IF v = 1 THEN 0 ELSE kMaxVal, visited |-> FALSE]]
      /\ idx = 0 /\ walked = Len(graph[idx]) /\ finished = FALSE
  BY <1>1 DEF PathInit
<1>3. Shape
  <2>1. 0..n \subseteq Nat /\ 0 \in 0..n /\ 1 \in 0..n
    BY <1>1
  <2>2. ASSUME NEW u \in 0..n
        PROVE  Len(graph[u]) \in Nat
    BY <1>1, <1>2
  <2>3. ASSUME NEW u \in 0..n, NEW k \in 1..Len(graph[u])
        PROVE  graph[u][k][1] \in 0..n \ {0} /\ graph[u][k][2] \in Nat
    <3>1. graph[u] \in Seq((1..n) \X Nat)
      BY <1>1, <1>2
    <3>2. graph[u][k] \in (1..n) \X Nat
      BY <3>1
    <3> QED
      BY <3>2, <1>1
  <2> QED
    BY <2>1, <2>2, <2>3, <1>2 DEF Shape
<1>4. \A v \in DOMAIN graph : /\ track[v].d = IF v = 1 THEN 0 ELSE kMaxVal
                              /\ ~track[v].visited
  BY <1>2
<1>5. PathsTyped
  <2>1. track \in [0..n -> [d : 0..kMaxVal, visited : BOOLEAN]]
    BY <1>2
  <2>2. idx \in DOMAIN graph /\ Len(graph[idx]) \in Nat
    BY <1>2, <1>3 DEF Shape
  <2>3. walked \in 0..Len(graph[idx]) /\ finished \in BOOLEAN
    <3>1. walked = Len(graph[idx])
      BY <1>2
    <3>2. walked \in 0..Len(graph[idx])
      BY <2>2, <3>1
    <3>3. finished \in BOOLEAN
      BY <1>2
    <3> QED
      BY <3>2, <3>3
  <2>4. track \in [DOMAIN graph -> [d : 0..kMaxVal, visited : BOOLEAN]]
    BY <2>1, <1>2
  <2> QED
    BY <2>2, <2>3, <2>4 DEF PathsTyped
<1>6. Ends
  BY <1>3, <1>4 DEF Ends, Shape
<1>7. Reached /\ Current /\ Ordered /\ Exhausted
  BY <1>2, <1>4 DEF Reached, Current, Ordered, Exhausted
<1>8. Relaxed
  BY <1>4 DEF Relaxed, Done
<1>9. Justified
  BY <1>4 DEF Justified
<1> QED
  BY <1>3, <1>5, <1>6, <1>7, <1>8, <1>9 DEF PathsInv

\* The loop is left when the least distance is kMaxVal.
LEMMA LeaveKeeps ==
  ASSUME PathsInv, NEW near \in DOMAIN track, Leave(near)
  PROVE  PathsInv'
<1> USE MaxValAssumption
<1>1. /\ DOMAIN track = DOMAIN graph
      /\ \A v \in DOMAIN graph : track[v].d \in 0..kMaxVal
      /\ UNCHANGED <<graph, track, idx, walked>>
      /\ finished' = TRUE
      /\ walked = Len(graph[idx])
  BY DEF PathsInv, PathsTyped, Leave, AtTop
<1>2. Exhausted'
  <2> SUFFICES ASSUME NEW v \in DOMAIN graph, ~track[v].visited
               PROVE  track[v].d = kMaxVal
    BY <1>1 DEF Exhausted
  <2>1. Seen(near) = kMaxVal
    BY DEF Leave, Seen
  <2>2. Seen(near) <= Seen(v)
    BY <1>1 DEF Leave, min_element
  <2>3. Seen(v) = track[v].d
    BY DEF Seen
  <2> QED
    BY <2>1, <2>2, <2>3, <1>1
<1>3. Shape' /\ PathsTyped' /\ Ends' /\ Reached' /\ Current'
  BY <1>1 DEF PathsInv, Shape, PathsTyped, Ends, Reached, Current
<1>4. Ordered' /\ Relaxed' /\ Justified'
  BY <1>1 DEF PathsInv, Ordered, Relaxed, Done, Justified, Source
<1> QED
  BY <1>2, <1>3, <1>4 DEF PathsInv

\* The least node that is not visited: all arrows of the others are relaxed.
LEMMA VisitKeeps ==
  ASSUME PathsInv, NEW near \in DOMAIN track, Visit(near)
  PROVE  PathsInv'
<1> USE MaxValAssumption
<1>1. /\ track \in [DOMAIN graph -> [d : 0..kMaxVal, visited : BOOLEAN]]
      /\ near \in DOMAIN graph
      /\ UNCHANGED <<graph, finished>>
      /\ idx' = near /\ walked' = 0 /\ finished = FALSE
      /\ walked = Len(graph[idx])
      /\ track' = [track EXCEPT ![near].visited = TRUE]
  BY DEF PathsInv, PathsTyped, Visit, AtTop
<1>2. \A v \in DOMAIN graph : track[v].d \in 0..kMaxVal
  BY <1>1
<1>3. /\ track' \in [DOMAIN graph -> [d : 0..kMaxVal, visited : BOOLEAN]]
      /\ \A v \in DOMAIN graph : track'[v].d = track[v].d
      /\ \A v \in DOMAIN graph : track'[v].visited <=> track[v].visited \/ v = near
  BY <1>1
<1>4. /\ ~track[near].visited
      /\ track[near].d < kMaxVal
      /\ near # 0
      /\ \A v \in DOMAIN graph : ~track[v].visited => track[near].d <= track[v].d
  <2>0. track[near].d # kMaxVal /\ min_element(near)
    BY DEF Visit
  <2>1. track[near].d < kMaxVal
    BY <2>0, <1>1, <1>2
  <2>2. near # 0
    BY <2>0 DEF PathsInv, Ends
  <2>3. 0 \in DOMAIN track /\ 0 < near /\ Seen(0) = kMaxVal
    BY <2>2, <1>1 DEF PathsInv, Ends, Shape, Seen
  <2>4. Seen(near) < kMaxVal
    BY <2>0, <2>3, <1>1, <1>2 DEF min_element
  <2>5. ~track[near].visited
    BY <2>4 DEF Seen
  <2>6. ASSUME NEW v \in DOMAIN graph, ~track[v].visited
        PROVE  track[near].d <= track[v].d
    <3>1. Seen(near) <= Seen(v)
      BY <2>0, <1>1 DEF min_element
    <3> QED
      BY <3>1, <2>5, <2>6 DEF Seen
  <2> QED
    BY <2>1, <2>2, <2>5, <2>6
<1>5. Shape'
  BY <1>1 DEF PathsInv, Shape
<1>6. PathsTyped'
  <2>1. Len(graph[near]) \in Nat
    BY <1>1 DEF PathsInv, Shape
  <2>2. 0 \in 0..Len(graph[near])
    BY <2>1
  <2> QED
    BY <2>2, <1>1, <1>3 DEF PathsTyped
<1>7. Ends'
  BY <1>3 DEF PathsInv, Ends, Shape
<1>8. Reached'
  BY <1>1, <1>3, <1>4 DEF PathsInv, Reached
<1>9. Current'
  BY <1>1, <1>3 DEF Current
<1>10. Ordered'
  <2> SUFFICES ASSUME NEW u \in DOMAIN graph, NEW v \in DOMAIN graph, track'[u].visited
               PROVE  /\ ~track'[v].visited => track'[u].d <= track'[v].d
                      /\ track'[idx'].visited /\ track'[u].d <= track'[idx'].d
    BY <1>1 DEF Ordered
  <2>1. CASE u = near
    BY <2>1, <1>1, <1>2, <1>3, <1>4
  <2>2. CASE u # near
    BY <2>2, <1>1, <1>2, <1>3, <1>4 DEF PathsInv, Ordered
  <2> QED
    BY <2>1, <2>2
<1>11. Relaxed'
  <2> SUFFICES ASSUME NEW u \in DOMAIN graph, NEW k \in 1..Len(graph[u]), Done(u, k)'
               PROVE  track'[graph[u][k][1]].d <= track'[u].d + graph[u][k][2]
    BY <1>1 DEF Relaxed, Done
  <2>1. u # near
    BY <1>1 DEF Done
  <2>2. track[u].visited
    BY <2>1, <1>3 DEF Done
  <2>3. Done(u, k)
    BY <2>2, <1>1 DEF Done
  <2>4. track[graph[u][k][1]].d <= track[u].d + graph[u][k][2]
    BY <2>3 DEF PathsInv, Relaxed
  <2> QED
    BY <2>4, <1>3 DEF PathsInv, Shape
<1>12. Justified'
  <2>1. ASSUME NEW v \in DOMAIN graph \ {1}, track'[v].d # kMaxVal
        PROVE  Source(v)'
    <3>1. Source(v)
      BY <2>1, <1>3 DEF PathsInv, Justified
    <3> QED
      BY <3>1, <1>1, <1>3 DEF Source
  <2> QED
    BY <2>1, <1>1 DEF Justified
<1>13. Exhausted'
  BY <1>1 DEF Exhausted
<1> QED
  BY <1>5, <1>6, <1>7, <1>8, <1>9, <1>10, <1>11, <1>12, <1>13 DEF PathsInv

\* One neighbour: its distance may fall, but not below that of the node.
LEMMA RelaxKeeps ==
  ASSUME PathsInv, Relax
  PROVE  PathsInv'
<1> USE MaxValAssumption
<1>1. PICK end, weight : /\ end = graph[idx][walked + 1][1]
                         /\ weight = graph[idx][walked + 1][2]
  OBVIOUS
<1>2. /\ track \in [DOMAIN graph -> [d : 0..kMaxVal, visited : BOOLEAN]]
      /\ \A v \in DOMAIN graph : track[v].d \in 0..kMaxVal
      /\ idx \in DOMAIN graph
      /\ walked \in Nat /\ walked + 1 \in 1..Len(graph[idx]) /\ walked < Len(graph[idx])
      /\ end \in DOMAIN graph /\ end # 0 /\ weight \in Nat
      /\ track[idx].visited
      /\ finished = FALSE
  <2>1. /\ track \in [DOMAIN graph -> [d : 0..kMaxVal, visited : BOOLEAN]]
        /\ idx \in DOMAIN graph
        /\ walked \in 0..Len(graph[idx]) /\ walked < Len(graph[idx])
        /\ Len(graph[idx]) \in Nat
    BY DEF PathsInv, PathsTyped, Shape, Relax
  <2>2. walked \in Nat /\ walked + 1 \in 1..Len(graph[idx])
    BY <2>1
  <2>3. end \in DOMAIN graph /\ end # 0 /\ weight \in Nat
    BY <2>1, <2>2, <1>1 DEF PathsInv, Shape
  <2>4. track[idx].visited /\ finished = FALSE
    BY <2>1 DEF PathsInv, Current, PathsTyped
  <2> QED
    BY <2>1, <2>2, <2>3, <2>4
<1> DEFINE new_d == track[idx].d + weight
           falls == ~track[end].visited /\ track[end].d > new_d
<1>3. /\ UNCHANGED <<graph, idx, finished>>
      /\ walked' = walked + 1
      /\ track' = IF falls THEN [track EXCEPT ![end].d = new_d] ELSE track
  BY <1>1 DEF Relax
<1>4. falls => new_d \in 0..kMaxVal
  BY <1>2
<1>5. /\ track' \in [DOMAIN graph -> [d : 0..kMaxVal, visited : BOOLEAN]]
      /\ \A v \in DOMAIN graph : track'[v].d = IF falls /\ v = end THEN new_d ELSE track[v].d
      /\ \A v \in DOMAIN graph : track'[v].visited = track[v].visited
  <2>1. CASE falls
    BY <2>1, <1>2, <1>3, <1>4
  <2>2. CASE ~falls
    BY <2>2, <1>2, <1>3
  <2> QED
    BY <2>1, <2>2
<1>6. \A v \in DOMAIN graph : track[v].visited => track'[v].d = track[v].d
  BY <1>5
<1>7. falls => end # 1
  BY <1>2 DEF PathsInv, Ends
<1>8. Shape'
  BY <1>3 DEF PathsInv, Shape
<1>9. PathsTyped'
  BY <1>2, <1>3, <1>5, <1>8 DEF PathsInv, PathsTyped
<1>10. Ends'
  BY <1>2, <1>5, <1>7 DEF PathsInv, Ends, Shape
<1>11. Reached'
  BY <1>3, <1>5, <1>6 DEF PathsInv, Reached
<1>12. Current'
  BY <1>2, <1>3, <1>5 DEF Current
<1>13. Ordered'
  <2> SUFFICES ASSUME NEW u \in DOMAIN graph, NEW v \in DOMAIN graph, track[u].visited
               PROVE  /\ ~track[v].visited => track'[u].d <= track'[v].d
                      /\ track[idx].visited /\ track'[u].d <= track'[idx].d
    BY <1>2, <1>3, <1>5 DEF Ordered
  <2>1. track'[u].d = track[u].d /\ track'[idx].d = track[idx].d
    BY <1>2, <1>6
  <2>2. /\ track[u].d <= track[idx].d
        /\ ~track[v].visited => track[u].d <= track[v].d
    BY DEF PathsInv, Ordered
  <2>3. track[u].d <= new_d
    BY <2>2, <1>2
  <2> QED
    BY <2>1, <2>2, <2>3, <1>2, <1>5
<1>14. Relaxed'
  <2> SUFFICES ASSUME NEW u \in DOMAIN graph, NEW k \in 1..Len(graph[u]), Done(u, k)'
               PROVE  track'[graph[u][k][1]].d <= track'[u].d + graph[u][k][2]
    BY <1>3 DEF Relaxed, Done
  <2>0. /\ track[u].visited /\ track'[u].d = track[u].d
        /\ graph[u][k][1] \in DOMAIN graph /\ graph[u][k][2] \in Nat
    BY <1>5, <1>6 DEF Done, PathsInv, Shape
  <2>1. CASE Done(u, k)
    <3>1. track[graph[u][k][1]].d <= track[u].d + graph[u][k][2]
      BY <2>1 DEF PathsInv, Relaxed
    <3>2. track'[graph[u][k][1]].d <= track[graph[u][k][1]].d
      <4>1. ASSUME NEW e \in DOMAIN graph
            PROVE  track'[e].d <= track[e].d
        BY <1>2, <1>5
      <4> QED
        BY <4>1, <2>0
    <3>3. /\ track'[graph[u][k][1]].d \in Nat /\ track[graph[u][k][1]].d \in Nat
          /\ track[u].d \in Nat
      BY <2>0, <1>2, <1>5
    <3> QED
      BY <2>0, <3>1, <3>2, <3>3
  <2>2. CASE ~Done(u, k)
    <3>1. u = idx /\ k = walked + 1
      BY <2>0, <2>2, <1>2, <1>3 DEF Done
    <3>2. graph[u][k][1] = end /\ graph[u][k][2] = weight
      BY <3>1, <1>1
    <3>3. track'[end].d <= new_d
      <4>1. CASE track[end].visited
        <5>1. track[end].d <= track[idx].d
          BY <4>1, <1>2 DEF PathsInv, Ordered
        <5> QED
          BY <4>1, <5>1, <1>2, <1>6
      <4>2. CASE ~track[end].visited
        BY <4>2, <1>2, <1>5
      <4> QED
        BY <4>1, <4>2
    <3> QED
      BY <2>0, <3>1, <3>2, <3>3
  <2> QED
    BY <2>1, <2>2
<1>15. Justified'
  <2> SUFFICES ASSUME NEW v \in DOMAIN graph \ {1}, track'[v].d # kMaxVal
               PROVE  Source(v)'
    BY <1>3 DEF Justified
  <2>1. CASE falls /\ v = end
    <3>1. track'[v].d = track'[idx].d + weight
      BY <2>1, <1>2, <1>5, <1>6
    <3> QED
      BY <2>1, <3>1, <1>1, <1>2, <1>3, <1>5 DEF Source
  <2>2. CASE ~(falls /\ v = end)
    <3>1. track'[v].d = track[v].d
      BY <2>2, <1>5
    <3>2. Source(v)
      BY <3>1 DEF PathsInv, Justified
    <3> QED
      BY <3>1, <3>2, <1>3, <1>5, <1>6 DEF Source
  <2> QED
    BY <2>1, <2>2
<1>16. Exhausted'
  BY <1>2, <1>3 DEF Exhausted
<1> QED
  BY <1>8, <1>9, <1>10, <1>11, <1>12, <1>13, <1>14, <1>15, <1>16 DEF PathsInv

\* The inductive invariant of the loop, for every well-formed graph.
THEOREM PathsInvariant ==
  ASSUME NEW CONSTANT g, WellFormed(g)
  PROVE  PathSpec(g) => []PathsInv
<1>1. PathInit(g) => PathsInv
  BY InitHolds
<1>2. PathsInv /\ [PathNext]_pathVars => PathsInv'
  <2> SUFFICES ASSUME PathsInv, [PathNext]_pathVars
               PROVE  PathsInv'
    OBVIOUS
  <2>1. CASE PathNext
    BY <2>1, LeaveKeeps, VisitKeeps, RelaxKeeps DEF PathNext
  <2>2. CASE UNCHANGED pathVars
    <3>1. Shape' /\ PathsTyped' /\ Ends' /\ Reached' /\ Current'
      BY <2>2 DEF pathVars, PathsInv, Shape, PathsTyped, Ends, Reached, Current
    <3>2. Ordered' /\ Relaxed' /\ Justified' /\ Exhausted'
      BY <2>2 DEF pathVars, PathsInv, Ordered, Relaxed, Done, Justified, Source, Exhausted
    <3> QED
      BY <3>1, <3>2 DEF PathsInv
  <2> QED
    BY <2>1, <2>2
<1> QED
  BY <1>1, <1>2, PTL DEF PathSpec

\* shortest_path.cc:86: when the loop is left no arrow of a node it reached
\* offers a shorter way and every distance is taken over such an arrow, for
\* every graph without negative weights and every kMaxVal.
THEOREM PathsShortestDistances ==
  ASSUME NEW CONSTANT g, WellFormed(g)
  PROVE  PathSpec(g) => []ShortestDistances
<1> USE MaxValAssumption
<1>1. PathsInv => ShortestDistances
  <2> SUFFICES ASSUME PathsInv, finished
               PROVE  /\ track[1].d = 0
                      /\ \A v \in DOMAIN track : track[v].visited <=> track[v].d # kMaxVal
                      /\ \A u \in DOMAIN graph : \A k \in 1..Len(graph[u]) :
                           Used(u, k) => track[graph[u][k][1]].d <= track[u].d + graph[u][k][2]
                      /\ \A v \in DOMAIN track \ {1} :
                           track[v].visited =>
                             \E u \in DOMAIN graph : \E k \in 1..Len(graph[u]) :
                               /\ Used(u, k)
                               /\ graph[u][k][1] = v
                               /\ track[v].d = track[u].d + graph[u][k][2]
    BY DEF ShortestDistances
  <2>1. DOMAIN track = DOMAIN graph /\ \A v \in DOMAIN graph : track[v].d \in 0..kMaxVal
    BY DEF PathsInv, PathsTyped
  <2>2. track[1].d = 0
    BY DEF PathsInv, Ends
  <2>3. ASSUME NEW v \in DOMAIN graph
        PROVE  track[v].visited <=> track[v].d # kMaxVal
    BY <2>1 DEF PathsInv, Reached, Exhausted
  <2>4. ASSUME NEW u \in DOMAIN graph, NEW k \in 1..Len(graph[u]), Used(u, k)
        PROVE  track[graph[u][k][1]].d <= track[u].d + graph[u][k][2]
    <3>1. Done(u, k)
      BY <2>4 DEF Done, Used, PathsInv, Current
    <3> QED
      BY <3>1 DEF PathsInv, Relaxed
  <2>5. ASSUME NEW v \in DOMAIN graph \ {1}, track[v].visited
        PROVE  \E u \in DOMAIN graph : \E k \in 1..Len(graph[u]) :
                 /\ Used(u, k)
                 /\ graph[u][k][1] = v
                 /\ track[v].d = track[u].d + graph[u][k][2]
    BY <2>3, <2>5 DEF PathsInv, Justified, Source, Used
  <2> QED
    BY <2>1, <2>2, <2>3, <2>4, <2>5
<1> QED
  BY <1>1, PathsInvariant, PTL

-----------------------------------------------------------------------------
\* The types of the server's sessions; a client that never connected has none.
SessionsTyped ==
  /\ client \in [Clients -> {"idle", "open", "closed", "reset"}]
  /\ sent \in [Clients -> Nat]
  /\ l \in [Clients -> Nat]
  /\ \A c \in Clients : client[c] = "idle" => c \notin backlog \cup reading

\* What SessionsKept says of one client.
Kept(c) == /\ l[c] <= sent[c]
           /\ c \notin backlog \cap reading
           /\ \/ client[c] \in {"idle", "reset"}
              \/ c \in backlog \cup reading
              \/ client[c] = "closed" /\ l[c] = sent[c]

SessionsInv == SessionsTyped /\ \A c \in Clients : Kept(c)

\* A step about one client leaves the others as they were.
LEMMA OtherClients ==
  ASSUME SessionsTyped, NEW c \in Clients,
         Connect(c) \/ Send(c) \/ Finish(c) \/ Handler(c),
         NEW d \in Clients, d # c
  PROVE  /\ client'[d] = client[d] /\ sent'[d] = sent[d] /\ l'[d] = l[d]
         /\ d \in backlog' <=> d \in backlog
         /\ d \in reading' <=> d \in reading
<1>1. CASE Connect(c) \/ Send(c) \/ Finish(c)
  BY <1>1 DEF SessionsTyped, Connect, Send, Finish, Become
<1>2. CASE Handler(c)
  BY <1>2 DEF SessionsTyped, Handler, do_accept, do_read, Release, Become
<1> QED
  BY <1>1, <1>2

\* A step keeps what is known of its own client.
LEMMA OwnClient ==
  ASSUME SessionsInv, NEW c \in Clients,
         Connect(c) \/ Send(c) \/ Finish(c) \/ Handler(c)
  PROVE  /\ client' \in [Clients -> {"idle", "open", "closed", "reset"}]
         /\ sent' \in [Clients -> Nat]
         /\ l' \in [Clients -> Nat]
         /\ client'[c] = "idle" => c \notin backlog' \cup reading'
         /\ Kept(c)'
<1> USE LengthsAssumption
<1>0. SessionsTyped /\ Kept(c) /\ l[c] \in Nat /\ sent[c] \in Nat
  BY DEF SessionsInv, SessionsTyped
<1>1. CASE Connect(c)
  BY <1>0, <1>1 DEF SessionsTyped, Kept, Connect, Become
<1>2. CASE Send(c)
  <2>1. PICK n \in 1..MaxSend - sent[c] : sent' = [sent EXCEPT ![c] = sent[c] + n]
    BY <1>2 DEF Send
  <2>2. n \in Nat /\ sent[c] + n \in Nat /\ l[c] <= sent[c] + n /\ client[c] = "open"
    BY <1>0, <1>2, <2>1 DEF Kept, Send
  <2> QED
    BY <1>0, <1>2, <2>1, <2>2 DEF SessionsTyped, Kept, Send
<1>3. CASE Finish(c)
  BY <1>0, <1>3 DEF SessionsTyped, Kept, Finish, Become
<1>4. CASE do_accept(c)
  BY <1>0, <1>4 DEF SessionsTyped, Kept, do_accept, Become
<1>5. CASE do_read(c)
  <2>1. PICK length \in 1..max_length : /\ length <= sent[c] - l[c]
                                        /\ l' = [l EXCEPT ![c] = l[c] + length]
    BY <1>5 DEF do_read
  <2>2. length \in Nat /\ l[c] + length \in Nat /\ l[c] + length <= sent[c]
    BY <1>0, <2>1
  <2>3. c \in reading /\ UNCHANGED <<client, backlog, sent, reading>>
    BY <1>5 DEF do_read
  <2> QED
    BY <1>0, <2>1, <2>2, <2>3 DEF SessionsTyped, Kept
<1>6. CASE Release(c)
  BY <1>0, <1>6 DEF SessionsTyped, Kept, Release
<1> QED
  BY <1>1, <1>2, <1>3, <1>4, <1>5, <1>6 DEF Handler

\* async_tcp_echo_server.cc:28: for any clients and lengths, a session lives
\* until its client is reset, or has closed and everything is counted.
THEOREM ServerKeepsSessions == EchoSpec => []SessionsKept
<1>1. EchoInit => SessionsInv
  BY DEF EchoInit, SessionsInv, SessionsTyped, Kept
<1>2. SessionsInv /\ [EchoNext]_echoVars => SessionsInv'
  <2> SUFFICES ASSUME SessionsInv, [EchoNext]_echoVars
               PROVE  SessionsInv'
    OBVIOUS
  <2>1. CASE UNCHANGED echoVars
    BY <2>1 DEF echoVars, SessionsInv, SessionsTyped, Kept
  <2>2. ASSUME NEW c \in Clients, Connect(c) \/ Send(c) \/ Finish(c) \/ Handler(c)
        PROVE  SessionsInv'
    <3>1. /\ client' \in [Clients -> {"idle", "open", "closed", "reset"}]
          /\ sent' \in [Clients -> Nat]
          /\ l' \in [Clients -> Nat]
          /\ client'[c] = "idle" => c \notin backlog' \cup reading'
          /\ Kept(c)'
      BY <2>2, OwnClient
    <3>2. ASSUME NEW d \in Clients, d # c
          PROVE  /\ client'[d] = "idle" => d \notin backlog' \cup reading'
                 /\ Kept(d)'
      <4>1. /\ client'[d] = client[d] /\ sent'[d] = sent[d] /\ l'[d] = l[d]
            /\ d \in backlog' <=> d \in backlog
            /\ d \in reading' <=> d \in reading
        BY <2>2, <3>2, OtherClients DEF SessionsInv
      <4>2. Kept(d) /\ (client[d] = "idle" => d \notin backlog \cup reading)
        BY DEF SessionsInv, SessionsTyped
      <4> QED
        BY <4>1, <4>2 DEF Kept
    <3> QED
      BY <3>1, <3>2 DEF SessionsInv, SessionsTyped
  <2> QED
    BY <2>1, <2>2 DEF EchoNext
<1>3. SessionsInv => SessionsKept
  BY DEF SessionsInv, Kept, SessionsKept
<1> QED
  BY <1>1, <1>2, <1>3, PTL DEF EchoSpec
=============================================================================
