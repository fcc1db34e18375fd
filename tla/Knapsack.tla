------------------------------ MODULE Knapsack ------------------------------
(***************************************************************************)
(* The dynamic programs of edu/courses/stanford2/cc/w3_lession_code.cc and *)
(* w3_dyn_pro.cc: the 0/1 knapsack by plain recursion, with two kinds of   *)
(* memo table and by two bottom-up tables, and the heaviest set of         *)
(* vertices of a path no two of which are neighbours.                      *)
(*                                                                         *)
(* An item is a record of a value v and a weight w; items[n - 1] of the    *)
(* code is items[n] here.  The argument of std::max that is evaluated      *)
(* first is unspecified in C++; here it is the one with the item, and      *)
(* either order leaves the same tables.                                    *)
(***************************************************************************)
EXTENDS Integers, Sequences, SequencesExt, TLC

Item(v, w) == [v |-> v, w |-> w]

TaskId(w_bound, idx) == [w_bound |-> w_bound, idx |-> idx]

\* The instance all the small tests use; its first item is a guard.
get_test_items ==
  [W |-> 6, items |-> <<Item(0, 0), Item(3, 4), Item(2, 3), Item(4, 2), Item(4, 3)>>]

Larger(a, b) == IF a < b THEN b ELSE a

\* Mutant: off by one.
LooseFit(item, w_bound) == item.w <= w_bound + 1

Fits(item, w_bound) == ~(item.w > w_bound)

-----------------------------------------------------------------------------
RECURSIVE knapSackExp(_, _, _)
knapSackExp(w_bound, n, items) ==
  IF n = 0 \/ w_bound = 0 THEN 0
  ELSE IF ~Fits(items[n], w_bound) THEN knapSackExp(w_bound, n - 1, items)
  ELSE Larger(knapSackExp(w_bound - items[n].w, n - 1, items) + items[n].v,
              knapSackExp(w_bound, n - 1, items))

\* The same over an array of weights and one of values.
RECURSIVE knapSack(_, _, _, _)
knapSack(W, wt, val, n) ==
  IF n = 0 \/ W = 0 THEN 0
  ELSE IF wt[n] > W THEN knapSack(W, wt, val, n - 1)
  ELSE Larger(knapSack(W - wt[n], wt, val, n - 1) + val[n], knapSack(W, wt, val, n - 1))

\* KeyEqual: the table tells tasks apart by both fields, whatever their hash.
KeyEqual(lhs, rhs) == lhs.idx = rhs.idx /\ lhs.w_bound = rhs.w_bound

Solved(store, id) == \E key \in DOMAIN store : KeyEqual(key, id)

\* store.insert() keeps the entry that is there.
RECURSIVE knapSack_hashtable(_, _, _)
knapSack_hashtable(id, items, store) ==
  IF Solved(store, id) THEN [sum |-> store[id], store |-> store]
  ELSE IF id.idx = 0 \/ id.w_bound = 0 THEN [sum |-> 0, store |-> store]
  ELSE LET item    == items[id.idx]
           without == TaskId(id.w_bound, id.idx - 1)
       IN  IF ~Fits(item, id.w_bound) THEN knapSack_hashtable(without, items, store)
           ELSE LET one == knapSack_hashtable(TaskId(id.w_bound - item.w, id.idx - 1),
                                              items, store)
                    two == knapSack_hashtable(without, items, one.store)
                    sum == Larger(one.sum + item.v, two.sum)
                IN  [sum |-> sum, store |-> two.store @@ (id :> sum)]

\* One table of indices for every bound, made when a bound is first solved.
RECURSIVE knapSack_hashtable_2d(_, _, _)
knapSack_hashtable_2d(id, items, store) ==
  IF id.w_bound \in DOMAIN store /\ id.idx \in DOMAIN store[id.w_bound]
    THEN [sum |-> store[id.w_bound][id.idx], store |-> store]
  ELSE IF id.idx = 0 \/ id.w_bound = 0 THEN [sum |-> 0, store |-> store]
  ELSE LET item    == items[id.idx]
           without == TaskId(id.w_bound, id.idx - 1)
       IN  IF ~Fits(item, id.w_bound) THEN knapSack_hashtable_2d(without, items, store)
           ELSE LET one  == knapSack_hashtable_2d(TaskId(id.w_bound - item.w, id.idx - 1),
                                                  items, store)
                    two  == knapSack_hashtable_2d(without, items, one.store)
                    sum  == Larger(one.sum + item.v, two.sum)
                    made == two.store @@ (id.w_bound :> << >>)
                IN  [sum   |-> sum,
                     store |-> [made EXCEPT ![id.w_bound] = @ @@ (id.idx :> sum)]]

-----------------------------------------------------------------------------
\* A bottom-up table is filled row by row; the first item is a guard.
Row0(W) == [x \in 0..W |-> 0]

KnapsackProblem(items, W) ==
  LET NextRow(A, item) ==
        [x \in 0..W |->
           LET fits == x - item.w >= 0
           IN  Larger(A[x], A[IF fits THEN x - item.w ELSE x] + (IF fits THEN item.v ELSE 0))]
  IN  FoldLeft(NextRow, Row0(W), Tail(items))[W]

\* Where the item fits, A[i][x] is still 0: A[i - 1][x] is not looked at.
BigKnapsackProblem(items, W) ==
  LET NextRow(A, item) ==
        [x \in 0..W |-> IF x - item.w < 0 THEN A[x] ELSE Larger(0, A[x - item.w] + item.v)]
  IN  FoldLeft(NextRow, Row0(W), Tail(items))[W]

-----------------------------------------------------------------------------
(***************************************************************************)
(* TEST(W3, Wis).  W[i] is the weight of vertex i and the guard W[0] is    *)
(* left out.  The reconstruction reads A[-1] for vertex 1: stray is what   *)
(* lies in front of the vector.                                            *)
(***************************************************************************)
WisTable(W) ==
  LET Fill(A, i) == Append(A, Larger(A[i], A[i - 1] + W[i]))
  IN  FoldLeft(Fill, <<0, W[1]>>, [i \in 1..Len(W) - 1 |-> i + 1])  \* A[i] is at i + 1

RECURSIVE WisChosen(_, _, _, _)
WisChosen(W, A, stray, i) ==
  IF i < 1 THEN {}
  ELSE IF A[i] >= (IF i = 1 THEN stray ELSE A[i - 1]) + W[i]
         THEN WisChosen(W, A, stray, i - 1)
         ELSE {i} \union WisChosen(W, A, stray, i - 2)
=============================================================================
