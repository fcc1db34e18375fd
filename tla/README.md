# A verification project for cpp-tricks

The repository is a collection of C++ studies: small data structures, locks,
caches, exercises of courses and language demonstrations, each in a file or two
of its own. There is no single program. What carries logic of its own falls in
four groups: the synchronisation primitives and queues of `projects/high_perf`;
caches and containers that own memory; programs that run in parallel or until an
answer is found; and sequential algorithms with a definition to be compared with.
They are modelled here in TLA+, one module each, and checked with TLC on small
instances; everything with threads, both caches, the stack, the forward list, the
server and Dijkstra's loop are proved correct with TLAPS for every number of threads,
objects and elements.

## The parts of the system

| Part | State | Operations | What is hard | Correct when |
|---|---|---|---|---|
| `rw_semaphore` (`rw_semaphore.h`) | one 32-bit word: reader count and write flag | `lock_shared`, `unlock_shared`, `lock`, `unlock` | races of CAS loops over one word, a blind store | a writer is alone, the word counts who is inside, a flagged writer gets in |
| `message_queue` (`safe_queue_cc11.h`) | queue, mutex, condition variable | `enqueue`, `dequeue` | spent, stolen and spurious wake-ups | order is kept, no item is left with sleepers |
| `concurent_bounded_try_queue` (`concurent_queues.h` and two copies over boost) | list, separate count, mutex | `try_push`, `try_pop`, `size`, `empty` | two statements that must agree, copies that throw under the lock | the count is exact, the bound holds, nothing is lost |
| class `A` (`ds_safe_assign_test.cc`) | vector and mutex per object | `operator=` | two mutexes at once, in opposite orders | no deadlock, assignment in one step |
| `lru_cache_v2` (`caching_lru_test.cc`) | list of keys, map with iterators into it | `get` (with `evict`, `put`) | five places that throw between the two containers | list and map stay linked, the oldest key goes |
| `Stack` (`sutter_stack_test.cc`) | owned array, size, used | construct, copy, assign, destroy, `Push`, `Pop`, `Pop_better_but`, `Pop_nosafe`, `Top` | exceptions in the middle of a copy, or after the state has changed | one owner per array; a call that throws changes nothing, except `Pop_nosafe` |
| `v1::Lru` (`lru_benchmark.cc`) | list of keys, map of iterators | `Has`, `Put` | a node is replaced under its iterator | as `lru_cache_v2` |
| `object_t`, documents, histories (`inh_evil_reduce_*.cc`) | models behind handles | edit, exchange, nest, `commit`, `undo` | sharing, moved-from objects, a document added to itself | they behave as values, nothing leaks |
| `own_forward_list` (`crack_code_lists.cc`) | nodes, `head_`, `tail_` | `push_back`, copy, assign, `swap`, `get_nth_to_last` | a copy that throws half way | every node has one owner, `tail_` is the last |
| parallel knapsack (`w3_dyn_pro_parallel.cc`) | tasks, shared memo table | TBB tasks, waiting or with continuations | duplicated work, half-made entries | the optimum in any order, and an end |
| shortest path (`shortest_path.cc`, `graph_details.cc`) | distance and mark per node | rounds of Dijkstra's loop | the loop leaves by way of an unused node | least distances, and an end |
| `atomic_race` | flag, state, mutex | three threads | a store outside the mutex | the outcome depends on the order in one known way |
| echo server (`async_tcp_echo_server.cc`) | sessions, each with a read pending | `do_accept`, `do_read` | pieces of any length, lifetime by callbacks | all is counted, every session is released |
| zigzag (`zigzag.hpp`) | buffers | six conversions | writing over what is still read | all agree |
| knapsack and independent set (`w3_dyn_pro.cc`, `w3_lession_code.cc`) | tables | seven programs | boundaries, memo keys | the optimum |
| readers (`io_details.cc`) | stream and its bits | `get_dyn_items`, `get_jobs`, `extract_records`, `parse_node_data` | the end of the file, broken lines | all records or none |
| Kaleidoscope (`mem_in_deep/main.cpp`) | current token | lexer, parser, main loop | precedence, going on after an error | the right tree, in step after an error |
| `DataLeafNode` (`bit_masking.cc`) | bit mask, values | `setActive`, `traverse` | word and shift | finds what was set |
| random matrix (`intel-competition-2010`) | matrix | `parse`, `fill` | off by one, rounding | the generator's sequence, around 0 |
| course exercises | | `slide`, `gather`, `compact`, medians, two-sum, connectivity... | off by one | their definitions |
| `lru_cache`, `StackInh`, `task_system`, `BankAccount`, `RecyclableQueue` | | | | not modelled |

The graph's nodes come from the readers' `parse_node_data`: `GraphDetails`
uses the module `Records`, and `ShortestPath` begins with the graph that was built. Otherwise the parts do not call each other.
They meet only through the standard library's
mutexes, condition variables and containers, which the modules model from how
the code uses them. `PROJECT.json` lists the components that are not modelled,
with the reason, and the hazards, each at its line.

## Modules

| Component | Module | Abstract module | Proofs |
|---|---|---|---|
| `rw_semaphore` | `RwSemaphore` | `RwLock` | `RwSemaphoreProofs` |
| `message_queue` | `MessageQueue` | | `MessageQueueProofs` |
| `concurent_bounded_try_queue` | `BoundedTryQueue` | | `BoundedTryQueueProofs` |
| class `A` | `SafeAssign` | `Registers` | `SafeAssignProofs` |
| `lru_cache_v2` | `LruCacheV2` | `Lru` | `LruProofs` |
| `Stack` | `SutterStack` | `ValueStacks` | `SutterStackProofs` |
| `v1::Lru` | `LruV1` | `Lru` | `LruProofs` |
| documents and histories | `Documents` | `Histories` | |
| `own_forward_list` | `ForwardList` | `ValueLists` | `ForwardListProofs` |
| parallel knapsack | `ParallelKnapsack` | | `ParallelProofs` |
| shortest path | `GraphDetails` (over `Records`), `ShortestPath` | | `ParallelProofs` |
| `atomic_race` | `AtomicRace` | | `ParallelProofs` |
| echo server | `EchoServer` | | `ParallelProofs` |
| zigzag | `ZigZag` | | |
| knapsack, independent set | `Knapsack` | | |
| readers | `Records` | | |
| Kaleidoscope | `Kaleidoscope` | | |
| `DataLeafNode` | `LeafNode` | | |
| random matrix | `RandomMatrix` | | |
| exercises | `Exercises` | | |

Each `MC*` module and its `.cfg` give the constants small values. `MCValueTypes`,
`MCParallel` and `MCAlgorithms` hold several components each: a behaviour picks one
of them in its initial state and leaves the others alone. They extend modules with
theorems, whose `Init` and `Next` therefore have names of their own (`TaskInit`,
`RaceInit`, `PathInit`, `EchoInit`, `ListInit`). Operators whose
comment begins with *Mutant* are variants of the definition after them with one
plausible mistake; the specifications do not use them. They show that the
properties notice such mistakes.

**RwSemaphore.** `state_` is the word and `cur_state` each thread's local copy.
`LockShared`, `UnlockShared` and `Lock` are the loads that begin an operation,
the actions named `...Cas` one turn of its loop, `WaitPendingReaders` the load that
ends the writer's wait, `Unlock` the store of 0. The word is
`0 .. 2 * kNumReadersMask + 1` and sums wrap. `RwLock` says what the class
comment says: readers share, a writer is alone, no reader enters while a writer
waits. A reader reads from the CAS that counts it to the CAS that uncounts it.

**MessageQueue.** `m` is the owner of the mutex, `pc` tells who is blocked on
it, in the critical section or asleep in `c.wait()`. A critical section is one
step once the mutex is owned, because nothing in it is visible outside;
`Enqueue` picks the sleeper that `notify_one()` wakes. `SpuriousWakeup` may
happen at any time. `sent` and `taken` are histories.

**BoundedTryQueue.** The change of the list and the change of `m_current_size`
are separate steps under the lock (`TryPush`/`TryPop`, then `Count`), so that a
reader of the count outside the lock would be noticed. `PushCopy` is the copy
before the lock, which may throw. `ReturnUnchanged` is every way out that
changes nothing: full, empty, an observer, or a throwing copy in `try_pop()`.

**SafeAssign.** Each thread repeats one assignment `Lhs[t] = Rhs[t]`, as
`task1()` does. The two-lock algorithm is `boost::lock`'s: lock one
(`LockFirst`), try the other (`TryLockSecond`), on failure release and begin
with the one that was busy (`BackOff`). `Awaited` is the mutex a thread cannot go on
without: the first one only, while the variant that the code calls V0 would also
wait for the second. The vector is copied an element per step.
`Registers` is assignment in one step. Its value of an object being assigned is
already the right side's: the abstract assignment happens when the second mutex
is taken.

**LruCacheV2.** One action per way through `get()`: a hit, a miss, and the misses
that end in an exception, in `evict()` (`EvictThrows`), in the loader or the list
insertion (`LoadThrows`), or in the map insertion (`PutThrows`). The list is a
sequence of nodes with addresses, so that an iterator in the map that points to
the wrong node is a different state. `Lru` is the order of use alone.

**SutterStack.** One call at a time, followed through `NewCopy()` step by step;
`heap` maps live arrays to their elements, and every allocation and element copy
may throw. `ended` is what the caller sees of the last call: which one it was, and whether it
returned or threw. The three popping functions are three actions, because
they fail differently: `Pop()` throws on an empty stack only; `Pop_better_but()` copies the
element out first, and when that throws nothing has changed; `Pop_nosafe()` copies
it once before `--vused_` and once more when it returns, and a throw there comes when the
state has changed (the comment at lines 149 and 150 says so). `ValueStacks`
is what the operations mean to the caller: a call that throws (`Throw`) changes nothing there, and
losing the popped element (`Lose`) is a step of its own that only `pop_nosafe` may
take.

**LruV1.** As `LruCacheV2`, without a loader: `Has` and `Put` replace the node of a
known key by a new one at the end, whose address may be the freed one.

**Documents.** An `object_t` is a handle (`self_`) to a model on the `heap`. The
seven versions of the talk differ in four facts (a copy shares, a move empties,
documents nest, there is a history), and `version` is one of them. The actions
are the edits the tests make. `Histories` has no heap: documents are values there,
and `Shown`, what `draw()` prints, is the refinement mapping.

**ForwardList.** `nodes` is the heap, `lists` the `head_` and `tail_` of every list
object. The functions that walk do so a node per step, and `call` holds the local pointers
of the one that runs: the copy of `operator=` into a temporary (`CopyElement`, and
`CopyThrows` when making a node throws), the destructor (`DeleteNode`), the two loops of
`get_nth_to_last()` (`Widen`, `Slide`). `Replace` is the swap of the complete copy with the
left side, whose old nodes the destructor of the temporary then deletes. `chain` is
a history: the nodes pushed on a list and not deleted, in order, against which the
pointers are checked. `ValueLists` has no nodes: a list is a sequence there.

**ParallelKnapsack.** A task is named by its way down from the root. `Execute` is
`execute()` up to its return or its wait, `Combine` the maximum of both results with
the `insert()`, and `Enter` the assignment to the new entry, before which the
accessor keeps the key locked. A thread runs tasks on top of one that waits.
The constant `Optimum` is what every subproblem is worth, and `OptimumAssumption` the
equation of the problem that it satisfies. `MCParallel` gives the value the serial
program computes (`SerialOptimum`), and TLC checks the equation.

**GraphDetails, ShortestPath.** `build_graph()` makes the graph from the records; `Asserted`
is its two assertions, and `Numbered` what it takes for granted when it stores to
`graph[elem.first]`. The
loop in `main()` has three steps: the least node not visited is taken and marked
(`Visit`), a neighbour of it is looked at (`Relax`), or the loop is left (`Leave`).
`idx` and `walked` are the places of the two loops.

**AtomicRace.** One action per access to the flag. `past` is a history of the order of
the three accesses that matter: the first thread's store, the second thread's load and the
third thread's store.

**EchoServer.** One action per handler that `io_service.run()` calls. The clients and the
network are external: they send in pieces, close or reset. An accept can fail in two ways, and
`do_accept()` starts the next one after both: the connection is lost, or it stays in the
queue, which is a step that changes nothing.

**ZigZag, Knapsack, Records, Kaleidoscope, LeafNode, RandomMatrix, Exercises** are operators
with the functions' names. Loops are folds, or recursion where the code recurses
or leaves the loop early. What carries the risk is kept: write and read
index of the conversions in place, what lies in front of the vector in `Wis`
(`stray`), the eof and fail bits and the unchanged line of a failing `getline`,
the place of `CurTok` after each parsing function, word and shift in the mask.

## What the runs check

| Run | Distinct states | Shows |
|---|---|---|
| `rw_semaphore` | 2966 | `MutualExclusion`, `WordAgrees` (also the blind store of `unlock()` loses nobody), `DChecksHold`, `ImplementsRwLock`, `PendingWriterEnters` |
| `rw_semaphore_starvation` | violation | `WriterNotStarved` fails: see Findings |
| `message_queue` | 6864 | `Fifo`, `NoLostWakeup`, `QueuedItemTaken` |
| `bounded_try_queue` | 9626 | `SizeExact`, `Fifo`, `EveryCallReturns` |
| `safe_assign` | 52092 | `NoDeadlock`, `Whole`, `ImplementsRegisters`, `AloneReturns` |
| `lru_cache_v2` | 1449 | `Linked`, `ImplementsLru` |
| `sutter_stack` | 124596 | `OneOwner`, `ImplementsValueStacks` |
| `sutter_stack_top` | violation | `TopIsLastPushed` fails: see Findings |
| `value_types` | 1131764 | `DocumentsAreValues` (a refinement of `Histories`, and no model leaks), `ListsAreValues` (of `ValueLists`), `LruV1Ordered` (of `Lru`), `MemoryOwned` (of the lists, with the answers of `get_nth_to_last()`) |
| `parallel` | 51176 | `ShortestDistances`, `MemoOptimal`, `RaceOutcome`, `SessionsKept`, and the liveness property `WorkEnds` |
| `algorithms` | 408201 | `ZigZagAgree`, `TablesOptimal`, `ParserTree`, `ParserInStep`, `RecordsAllOrNone`, `LeafTraversal`, `ExerciseAnswers` |
| `broken_file` | violation | `BrokenFileRefused` fails: see Findings |

Every run of a single component also checks its `TypeOK`, except `lru_cache_v2`, for which it
is proved.

### Bounds, and why they are enough

* `rw_semaphore`: three threads and a mask of 3. Two readers and a writer, or two
  writers and a reader, are the races there are; the mask is the smallest that
  counts all threads (`ReadersFitAssumption`). The safety properties are proved
  for any number, so the bound matters only to the liveness property.
* `message_queue`: two producers of two items (`MaxItems`), three consumers. A
  lost wake-up needs two items, two sleepers and a late caller who steals. Safety is
  proved for any number.
* `bounded_try_queue`: capacity 2, two threads of three calls (`MaxCalls`): the
  queue fills, refuses, drains, and both threads race for its last place and
  last element. Safety is proved for any number and capacity. The run has no deadlock check because the threads stop after
  their calls.
* `safe_assign`: opposite assignments, a circle of three, a self-assignment, and
  vectors of two elements. Safety is proved for all.
* `lru_cache_v2`: four keys in a cache of three (two in the code), so that a hit
  in the middle of the list, an eviction and a failed load come in every order.
  Two values tell an entry from another's. Safety and the refinement are proved for any
  capacity and keys.
* `sutter_stack`: arrays of one element instead of ten, so that they grow within
  three pushes (`MaxUsed`), and two stacks to copy and assign. Stacks and values are
  not told apart (`Symmetry`), and no liveness is checked here. Safety and the
  refinement are proved for any size, stacks and values.
* `value_types`: five models alive (`MaxModels`), two documents in the history, two
  objects in the current one and two kinds of leaves: a document inside a document,
  shared by two places of the history, can be edited on either side. Two lists of
  five nodes altogether (`Addresses`): a copy of two into a list of one can fail after
  each element, and lists of up to five nodes are searched for the second, third and
  fourth from the end. Four keys in a set of three, as for `lru_cache_v2`; `LruV1Ordered`,
  `MemoryOwned` and `ListsAreValues` are proved for any.
* `parallel`: every graph of three nodes with weights up to 3, where the way over
  the third node can be shorter or as long, and the records in either order, with
  `kMaxVal` at 5 so that a way can be as long as what stands for none; three
  items of which one never fits, so that both subproblems of a task are the same and
  two threads race for one entry; two clients that send three bytes, read two
  at most at a time. The four invariants are proved for any graph, items, capacity,
  threads and clients, so the bounds matter only to `WorkEnds`.
* `algorithms`: every input up to a length (`MaxInput`), chosen so that each
  algorithm wraps its pattern at least twice: 14 letters over up to 7 rows (more
  than one stride of each width up to 7, and rows that stay empty), four items, nine
  tokens of operators and names or any five tokens, files of four lines with every
  kind of broken line, leaves of side 2, 4 and 8 (the code has 8) with up to three
  points, six elements to slide, four nodes and four pairs to connect,
  matrices of up to three by three.

The last three runs have no deadlock check: lists and inputs are bounded, and the
programs of `parallel` end.

### Fairness

Weak fairness of each thread that is *inside* an operation: the operating system
runs every runnable thread. No thread has to call anything. In detail:

* `RwSemaphore`: a thread that holds the lock releases it. The CAS loops get no
  more than weak fairness, which is why `WriterNotStarved` fails and
  `PendingWriterEnters` holds.
* `MessageQueue`: a free mutex goes to somebody who wants it, not to a particular
  thread, and sleepers wake only when notified: spurious wake-ups are not relied on.
* `BoundedTryQueue`: calls are finite in number, so no thread is kept from the
  mutex for ever.
* `SafeAssign`: under weak fairness two threads may back off in step for ever. No
  liveness under contention is claimed: `AloneReturns` speaks of an
  assignment that the others leave alone.
* `parallel`: a loop of one thread goes on (`Paths`); some thread that can run a
  task does (`Tasks`), and so do the three threads of the race, whose steps are
  finite in number; `io_service.run()` calls the handler of every completed
  operation (`Served`), and an accept that leaves its connection in the queue does not
  fail for ever: what fairness speaks of is a step that changes something. Clients need not do anything: `WorkEnds` speaks of a client that
  closed.

### Findings

* **Write starvation in `rw_semaphore`.** The comment (lines 16 and 17) says the
  class avoids write starvation. It does for a writer whose flag is up. A writer
  in its CAS loop has no flag up, and one reader that enters and leaves between
  the writer's attempts makes each of them fail.
* **`Stack::Top()` reads the slot after the top.** `Push()` leaves `vused_` as a
  "pointer to next" (line 133), and `Top()`, `Pop_better_but()` and `Pop_nosafe()`
  read `v_[vused_]`. After the first `Push()` that is a default element; with a full
  array it is past the end. The run `sutter_stack` models the popping functions' change of
  state and their exits, and leaves out the value they hand out.
* **`get_dyn_items()` reads the last line twice.** The loop tests the stream before
  `getline()`. When the last line has no newline, the `getline()` that reads it meets the
  end without failing, the next one fails and leaves `line` as it was, and its record
  is added again. Line 96 throws "brocken file" when the count is not the
  declared one; a file that lacks one record and the newline passes it, with the
  last item doubled, and a whole file without the newline is refused. `get_jobs()`
  has the same loop. `RecordsAllOrNone` therefore speaks of files whose last line is
  ended.

What `atomic_race` leaves behind is no finding: its own notes (lines 63 to 65) say that the
interleaving decides. `RaceOutcome` says how: the first thread and then the second
leave state 0; with the third thread's store between them, or the second thread first, it is 2.
It is never 1, and the flag is down at the end.

Three more facts came up and are part of the models, not of a run of their own: the
bottom-up table in `BigKnapsackProblem` forgets `A[i - 1][x]` (its author marks the line
with "BUG: looks like"), so `TablesOptimal` says of it only that it does not
exceed the optimum; the reconstruction in `TEST(W3, Wis)` reads in front of the vector, so
that its set can lack the first vertex; and `process_parallel()` does nothing unless
`USE_TBB` is defined, which no build file does.

## What is proved

All proofs are checked by TLAPS from the assumptions named in the modules.

**`RwSemaphoreProofs`**, from: the threads are finitely many and fit the reader
count. `MutualExclusion` is not inductive: a CAS is safe only if the word tells
who is inside. The invariant `IndInv` adds `WordAgrees` (the word is the number of
counted threads plus the flag) and `OneWriter`. Most of the proof is about how
`Cardinality(Counted)` changes when a thread moves, and that a successful CAS
against a masked word means the flag was down. Theorems: `SemaphoreInvariant`
and its consequences, and `SemaphoreImplementsRwLock`.

**`MessageQueueProofs`**, from: consumers are finitely many, roles are disjoint.
`IndInv` adds that the mutex's owner is the one thread in a critical section and
that only consumers sleep. `NoLostWakeup` is preserved by a push because it
wakes a sleeper, if there is one; by a pop because the popping consumer takes an
item with it; by a new sleeper because the queue is empty then. Theorems:
`QueueInvariant`, `QueueTypeOK`, `QueueFifo`, `QueueNoLostWakeup`.

**`BoundedTryQueueProofs`**, from: the capacity and the number of calls are
natural numbers. `SizeExact` is about a count and a list that may differ; `Lag` says by how much, from the owner's place and operation,
and that a push still to be counted found room. Theorems: `TryQueueInvariant`,
`TryQueueTypeOK`, `TryQueueSizeExact`, `TryQueueFifo`.

**`SafeAssignProofs`**, for any threads, objects and lengths. `IndInv` adds to
`Whole` that the owners of the mutexes follow from the places of the threads
(`OwnersAgree`), that a thread inside has two different sides (`SidesAgree`), and
that the elements copied so far agree (`CopyAgrees`). While a thread copies, no
other copy touches either side; so when it ends, its left side equals a whole
right side. `NoDeadlock` says of a thread that waits that it waits for one that does
not: with `OwnersAgree` the owner of the mutex is past its first lock, and there nobody
waits, because the second mutex is only tried. It is stated without `ENABLED`, with the
mutexes a thread waits for (`Awaited`), which the guards of the lock actions use.
Theorems: `AssignInvariant`, `AssignTypeOK`, `AssignWhole`, `AssignNoDeadlock`,
`AssignImplementsRegisters`.

**`LruProofs`**, from: the capacity is not 0 (`MaxSizeAssumption`) and there is
an address for every node (`AddressesAssumption`). The two caches have the same
invariant over list and map: nodes have addresses of their own (`Apart`), an entry of
the map points to the node of its key (`Points`), every node has its entry
(`Covers`), and the list fits the capacity. `Linked` alone is not inductive,
because it does not keep a new node from getting an address in use. That keys
are not repeated follows from it, and so do the steps of the abstract `Lru`: a hit moves
the one node of a key, the front node is the oldest key. In `PutThrows` the
rollback removes exactly the node that was inserted. Theorems: `CacheInvariant`,
`CacheTypeOK`, `CacheLinked`, `CacheImplementsLru` for `lru_cache_v2`, `V1Invariant` and
`V1ImplementsLru` for `v1::Lru`.

**`SutterStackProofs`**, for any stacks, values and initial size, from: null is no
address and no sequence of elements (`DistinctAssumption`). To `OneOwner` the invariant adds that
the used part fits the size (`Typed`) and the array has the size its object believes
(`Sized`), that only `NewCopy()` has an array of its own and a `Push()` that comes to
its element has a place for it (`Settled`), that the array to copy from is an object's
and the new one large enough (`Planned`), and that the elements copied so far are those
of the original (`Copied`). The last two are what makes a new array in `Replace` hold the right
elements. In the refinement `Replace` is the abstract copy, or changes nothing when
it only grows an array; `Store` is the push; an exception in `NewCopy()`, in an assignment
of an element or on an empty stack changes nothing (`ThrowRefines`), and the one in the return of
`Pop_nosafe()` is `Lose` (`PopRefines`).
Theorems: `StackInvariant`, `StackTypeOK`, `StackOneOwner`,
`StackImplementsValueStacks`.

**`ForwardListProofs`**, for any lists, elements and memory, from: null is no address,
the temporary is no list of the user (`ObjectsAssumption`), and the arguments of
`get_nth_to_last()` satisfy its assertion (`NthsAssumption`). `MemoryOwned` is nearly
inductive: that no node is in two places (`Apart`) is why writing `next` of one list's
last node, or deleting the first of another, disturbs nobody else. The invariant adds
that the temporary has nodes only while it is built or destroyed (`Spare`), that
the copy so far equals the beginning of the original and `it` is at the first node not
copied (`Copied`), also when a list is assigned to itself, and that the two pointers of
`get_nth_to_last()` are as far apart as the window is open (`Window`). In the refinement `Replace`
is the assignment, the call of the destructor empties the list, and every other
step of a walk changes nothing; `Copied` with `it` at the end makes the contents equal.
Theorems: `ListInvariant`, `ListMemoryOwned`, `ListImplementsValueLists`.

**`ParallelProofs`** has four parts.

*The knapsack*, from: values, weights and capacity are not negative (`ItemsAssumption`), and
`Optimum` satisfies the equation (`OptimumAssumption`). `MemoOptimal` is not
inductive, because a task writes into its parent, which it never reads. The invariant
adds that the parent of a live task waits for it, lacks exactly this answer and
has the subproblem of which this one is a part (`Awaited`); that a split task knows the
worth of its item (`Divided`); and that no task is on two stacks (`Alone`), so that
`Enter` finds its task alive. Nothing is said about who comes first, and two tasks may
solve the same subproblem. Theorems: `TasksInvariant`, `TasksMemoOptimal`.

*`atomic_race`*: the owner of the mutex follows from the places of the threads (`Owned`), and so
does which accesses have happened (`Placed`); the flag is up from the first thread's store to
the next store, whoever makes it, and the state tells whether the second thread saw
it (`Raised`). The first thread is between its load and its store only if the second has not loaded
yet, which is what the mutex is for. Theorem: `RaceOutcomeByOrder`.

*Dijkstra's loop*, for every graph of nodes 0 to n with weights that are not
negative and arrows that do not lead to node 0, and any `kMaxVal` in `Nat`
(`MaxValAssumption`). The code never looks at a visited node again. That this is right is
the invariant `Ordered`: the node being visited is the farthest of those visited, and the
others are not nearer. With it `Relaxed` (no arrow seen so far offers a shorter way)
survives both a new node and a neighbour's fall, and `Justified` keeps the arrow each
distance was taken from. `Ends` says that node 0 stays at `kMaxVal`, by which the loop is
left. Theorems: `PathsInvariant`, `PathsShortestDistances`. `ShortestDistances` is stated
with arrows, not with ways: that its equations have one solution, the lengths of
shortest ways, for positive weights is the usual induction along a way, which is not
part of the proof.

*The server*, for any clients, from: a buffer holds something (`LengthsAssumption`).
`SessionsKept` needs only that a client that never connected has neither a
connection nor a session (`SessionsTyped`). Theorem: `ServerKeepsSessions`.

**Only model-checked**: everything about fairness (`PendingWriterEnters`,
`QueuedItemTaken`, `EveryCallReturns`, `AloneReturns`, `WorkEnds`), which is out of the
prover's reach. `DocumentsAreValues` and the invariants of `algorithms` stay with TLC: what
their recursive definitions compute for every input needs induction over data, which no
installed prover does, and the prover cannot use modules with `RECURSIVE` operators.
The library's induction theorems take an operator as a parameter, which the provers
cannot instantiate either.

## What is left out

* Weak memory. All models are sequentially consistent; the barriers of
  `rw_semaphore` are not examined.
* Items of `message_queue` whose copy throws, loaders that call the cache again,
  and arguments of `Push()` that live in the stack itself: see the hazards.
* The private blocking operations of `concurent_bounded_try_queue`: nothing calls
  them, and `wait_and_push()` cannot be instantiated, because `std::list` has no
  `push()`. The copies of the class over boost and pthreads are the same code.
* Class `B` of `ds_safe_assign_test.cc` and the first `lru_cache`, which nothing
  instantiates; `task_system` and `future`, which are inside `#if 0`.
* `StackInh`: its copy constructor writes through a null pointer.
* `codegen()` of Kaleidoscope, which is declared and defined nowhere.
* `edu/courses/adv_cpp_study/top.cpp` (it does not compile) and the panels in
  `goal_no_raw_loops_app.cc` (inside a comment).
* Overflow of the sum in `intel-competition-2010` (its documented bounds allow it) and
  lines of other than six numbers.
* Allocation failures in `v1::Lru`, and a capacity of 0 (`MaxSizeAssumption`): `Put()`
  would read the front of an empty list.
* Vendored code (`3rdparty`, the CUDA book), course data, and the language
  demonstrations, which keep no state.

## Plan

1. Done: the primitives, queues, caches and containers with their abstract
   specifications; proofs for the four concurrent ones.
2. Done: the remaining caches and containers (`LruV1`, `Documents`, `ForwardList`),
   the programs that run in parallel or to an end, and the sequential algorithms
   against reference definitions.
3. Done: proofs for both caches, the stack, the knapsack's tasks, the race and Dijkstra's
   loop.
4. Done: proofs of `NoDeadlock`, of the forward list with its refinement, and of the
   sessions of the server. Every invariant of the project is now proved, except
   those over recursive definitions.
5. Candidates for further modules: `RecyclableQueue`, `BankAccount`, and a model of
   the design of `task_system`.
