-------------------------- MODULE ParallelKnapsack --------------------------
(***************************************************************************)
(* edu/courses/stanford2/cc/w3_dyn_pro_parallel.cc: a knapsack by TBB      *)
(* tasks that share a concurrent hash map of solved subproblems.  A task   *)
(* that does not find its subproblem splits in two; when both are done     *)
(* their results are combined and entered in the map.                      *)
(*                                                                         *)
(* KnapsackTaskSerial waits for its children inside execute(), on the      *)
(* stack of its thread, which meanwhile runs other tasks on top;           *)
(* KnapsackTaskFuture leaves a continuation (Future) behind instead.  An   *)
(* entry is inserted and given its value under an accessor, which keeps    *)
(* find() and insert() of the same key waiting.                            *)
(***************************************************************************)
EXTENDS Integers, Sequences, SequencesExt

CONSTANTS Threads,
          items,       \* a sequence of [v, w]
          W,           \* the capacity
          Unsolved,    \* no value yet
          Optimum      \* what every subproblem is worth

VARIABLES serial,      \* KnapsackTaskSerial or KnapsackTaskFuture
          tasks,       \* the live tasks, each by its way down from the root
          store,       \* the map: TaskId -> value
          locked,      \* the keys under an accessor
          stacks,      \* the tasks inside execute() on every thread
          result

taskVars == <<serial, tasks, store, locked, stacks, result>>

TaskId(w_bound, idx) == [w_bound |-> w_bound, idx |-> idx]

Task(id) == [id |-> id, is |-> "spawned", x |-> Unsolved, y |-> Unsolved, delta |-> 0]

Root == << >>

TaskInit ==
  /\ serial \in BOOLEAN
  /\ tasks = [path \in {Root} |-> Task(TaskId(W, Len(items)))]
  /\ store = << >>
  /\ locked = {}
  /\ stacks = [t \in Threads |-> << >>]
  /\ result = Unsolved

\* A thread takes a task when it has none, or while its last one waits.
MayTake(t) == stacks[t] # << >> => tasks[Last(stacks[t])].is = "waiting"

Answered(task, e, value) == IF e = "x" THEN [task EXCEPT !.x = value]
                                       ELSE [task EXCEPT !.y = value]

\* *r_ = value: the x or y of the parent, or the result.
Return(path, value) ==
  /\ tasks' = [p \in DOMAIN tasks \ {path} |->
                  IF path # Root /\ p = Front(path) THEN Answered(tasks[p], Last(path), value)
                                                   ELSE tasks[p]]
  /\ result' = IF path = Root THEN value ELSE result

\* The two subproblems: with the item, if it fits, and without it.
WorkId(id) ==
  LET item == items[id.idx]
  IN  IF ~(item.w > id.w_bound)
        THEN [id |-> TaskId(id.w_bound - item.w, id.idx - 1), delta |-> item.v]
        ELSE [id |-> TaskId(id.w_bound, id.idx - 1), delta |-> 0]

ChildId(id, e) == IF e = "x" THEN WorkId(id).id ELSE TaskId(id.w_bound, id.idx - 1)

Spawn(path) ==
  LET id       == tasks[path].id
      children == {Append(path, "x"), Append(path, "y")}
  IN  tasks' = [p \in DOMAIN tasks \cup children |->
                  IF p \in children THEN Task(ChildId(id, Last(p)))
                  ELSE IF p = path THEN [tasks[p] EXCEPT !.is = "waiting",
                                                         !.delta = WorkId(id).delta]
                  ELSE tasks[p]]

\* Mutant: nobody waits for an accessor.
AnyTime(id) == TRUE

\* find() and insert() wait for whoever has an accessor to the key.
Free(id) == id \notin locked

Execute(t, path) ==
  LET id == tasks[path].id
  IN  /\ tasks[path].is = "spawned"
      /\ MayTake(t)
      /\ Free(id)
      /\ \/ /\ id \in DOMAIN store
            /\ Return(path, store[id])
            /\ UNCHANGED stacks
         \/ /\ id \notin DOMAIN store
            /\ id.idx = 0 \/ id.w_bound = 0
            /\ Return(path, 0)
            /\ UNCHANGED stacks
         \/ /\ id \notin DOMAIN store
            /\ ~(id.idx = 0 \/ id.w_bound = 0)
            /\ Spawn(path)
            /\ stacks' = IF serial THEN [stacks EXCEPT ![t] = Append(@, path)] ELSE stacks
            /\ UNCHANGED result
      /\ UNCHANGED <<serial, store, locked>>

Larger(a, b) == IF a < b THEN b ELSE a

Sum(task) == Larger(task.x + task.delta, task.y)

\* Both children are done: store_->insert(a, id).
Combine(t, path) ==
  LET task == tasks[path]
  IN  /\ task.is = "waiting"
      /\ Unsolved \notin {task.x, task.y}
      /\ IF serial THEN stacks[t] # << >> /\ Last(stacks[t]) = path ELSE stacks[t] = << >>
      /\ Free(task.id)
      /\ \/ /\ task.id \in DOMAIN store          \* solved in vain
            /\ Return(path, Sum(task))
            /\ stacks' = IF serial THEN [stacks EXCEPT ![t] = Front(@)] ELSE stacks
            /\ UNCHANGED <<store, locked>>
         \/ /\ task.id \notin DOMAIN store
            /\ store' = [id \in DOMAIN store \cup {task.id} |->
                           IF id = task.id THEN 0 ELSE store[id]]
            /\ locked' = locked \union {task.id}
            /\ tasks' = [tasks EXCEPT ![path].is = "inserted"]
            /\ stacks' = IF serial THEN stacks ELSE [stacks EXCEPT ![t] = <<path>>]
            /\ UNCHANGED result
      /\ UNCHANGED serial

\* a->second = *r_, and the accessor goes.
Enter(t) ==
  /\ stacks[t] # << >>
  /\ LET path == Last(stacks[t])
         task == tasks[path]
     IN  /\ task.is = "inserted"
         /\ store' = [store EXCEPT ![task.id] = Sum(task)]
         /\ locked' = locked \ {task.id}
         /\ stacks' = [stacks EXCEPT ![t] = Front(@)]
         /\ Return(path, Sum(task))
         /\ UNCHANGED serial

TaskNext == \E t \in Threads :
  \/ \E path \in DOMAIN tasks : Execute(t, path) \/ Combine(t, path)
  \/ Enter(t)

TaskSpec == TaskInit /\ [][TaskNext]_taskVars

-----------------------------------------------------------------------------
\* The subproblems.
Ids == [w_bound : 0..W, idx : 0..Len(items)]

ASSUME ItemsAssumption == /\ items \in Seq([v : Nat, w : Nat])
                          /\ W \in Nat

\* The equation that the optimum satisfies.
ASSUME OptimumAssumption ==
  /\ Optimum \in [Ids -> Nat]
  /\ \A id \in Ids :
       Optimum[id] = IF id.idx = 0 \/ id.w_bound = 0 THEN 0
                     ELSE Larger(Optimum[ChildId(id, "x")] + WorkId(id).delta,
                                 Optimum[ChildId(id, "y")])

\* w3_dyn_pro_parallel.cc:78: the tasks race to enter what they solved.
\* Whoever wins, an entry that find() can return is the optimum of its
\* subproblem, and so are what a task got from its children and the result.
MemoOptimal ==
  /\ \A id \in DOMAIN store \ locked : store[id] = Optimum[id]
  /\ \A path \in DOMAIN tasks :
       LET task == tasks[path]
       IN  /\ task.x # Unsolved => task.x = Optimum[ChildId(task.id, "x")]
           /\ task.y # Unsolved => task.y = Optimum[ChildId(task.id, "y")]
  /\ result # Unsolved => result = Optimum[TaskId(W, Len(items))]
=============================================================================
