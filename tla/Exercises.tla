------------------------------ MODULE Exercises -----------------------------
(***************************************************************************)
(* Algorithms on sequences: slide() and gather() of the talk on loops      *)
(* (edu/talks/sean_parent), compact() of common/std_own_ext.h, the course  *)
(* questions of stanford1 (w6.cc) and stanford2 (w1_greedy.cc), the        *)
(* removal of duplicates from a list (edu/train/crack_code_lists.cc), and  *)
(* the two connectivity programs (edu/courses/my-cs).                      *)
(*                                                                         *)
(* Iterators are places from 0 on: place k is between v[k] and v[k + 1].   *)
(***************************************************************************)
EXTENDS Integers, Sequences, SequencesExt, FiniteSets

\* std::rotate(f, m, l): the part from m on comes first.
rotate(v, f, m, l) ==
  SubSeq(v, 1, f) \o SubSeq(v, m + 1, l) \o SubSeq(v, f + 1, m) \o SubSeq(v, l + 1, Len(v))

\* std::stable_partition(f, l, s), where S is what satisfies s: the sequence,
\* and the end of S in it.
stable_partition(v, f, l, S) ==
  LET part == SubSeq(v, f + 1, l)
      yes  == SelectSeq(part, LAMBDA e : e \in S)
      no   == SelectSeq(part, LAMBDA e : e \notin S)
  IN  [seq |-> SubSeq(v, 1, f) \o yes \o no \o SubSeq(v, l + 1, Len(v)),
       at  |-> f + Len(yes)]

\* Mutant: the wrong middle of the rotation.
slideBack(v, f, l, p) ==
  IF p < f THEN rotate(v, p, f, l) ELSE IF l < p THEN rotate(v, f, p - l + f, p) ELSE v

\* The block [f, l) goes to p.
slide(v, f, l, p) ==
  IF p < f THEN rotate(v, p, f, l) ELSE IF l < p THEN rotate(v, f, l, p) ELSE v

\* The elements of S come together around p.
gather(v, f, l, p, S) ==
  LET before == stable_partition(v, f, p, ToSet(v) \ S)
      behind == stable_partition(before.seq, p, l, S)
  IN  [seq |-> behind.seq, first |-> before.at, last |-> behind.at]

\* The elements whose mask is set; the mask's length is not looked at.
compact(in, mask) ==
  LET Copy(out, k) == IF mask[k] THEN Append(out, in[k]) ELSE out
  IN  FoldLeft(Copy, << >>, [k \in 1..Len(in) |-> k])

-----------------------------------------------------------------------------
\* Positions that find a partner from themselves on, themselves included.
_2sum_naive(in, target) ==
  Cardinality({at \in 1..Len(in) : \E k \in at..Len(in) : in[k] + in[at] = target})

\* Targets of low..high that are the sum of two distinct numbers.
q1(in, low, high) ==
  LET htbl == {in[k] : k \in {k \in 1..Len(in) : in[k] < high + 1}}
  IN  IF ~(Cardinality(htbl) < Len(in) /\ htbl # {}) THEN "abort"
      ELSE Cardinality({t \in low..high : \E x \in htbl : t - x \in htbl /\ x # t - x})

\* std::nth_element puts at place nth what a sort would put there.
nth_element(cursor, nth) == SortSeq(cursor, LAMBDA a, b : a < b)[nth + 1]

\* The place of the median, from 0 on; the lower one of two.
Nth(size) == IF size % 2 = 1 THEN (size + 1) \div 2 - 1 ELSE size \div 2 - 1

\* The sum of the medians of every prefix.
q2_nth(in) ==
  LET Add(mean, size) == mean + nth_element(SubSeq(in, 1, size), Nth(size))
  IN  FoldLeft(Add, 0, [size \in 1..Len(in) |-> size])

-----------------------------------------------------------------------------
Job(weight, length) == [weight |-> weight, length |-> length]

get_delta(job) == job.weight - job.length

JobDecreaseWeightCompator(j1, j2) == j1.weight > j2.weight

JobDecreaseDeltaCompator(j1, j2) == get_delta(j1) > get_delta(j2)

\* std::stable_sort: every element goes behind the ones it does not precede.
stable_sort(v, Before) ==
  LET Insert(out, e) ==
        LET k == Cardinality({i \in 1..Len(out) : <<e, out[i]>> \notin Before})
        IN  SubSeq(out, 1, k) \o <<e>> \o SubSeq(out, k + 1, Len(out))
  IN  FoldLeft(Insert, << >>, v)

\* Decreasing weights, then, stably, decreasing differences.  std::sort leaves
\* the order of equal weights open; what follows does not depend on it.
ScheduleJobs(jobs) ==
  LET pairs    == ToSet(jobs) \X ToSet(jobs)
      byWeight == {p \in pairs : JobDecreaseWeightCompator(p[1], p[2])}
      byDelta  == {p \in pairs : JobDecreaseDeltaCompator(p[1], p[2])}
  IN  stable_sort(stable_sort(jobs, byWeight), byDelta)

-----------------------------------------------------------------------------
\* The erased element's successor takes its place, and is looked at next.
RECURSIVE RemoveDuplicates(_, _)
RemoveDuplicates(l, forward) ==
  IF forward > Len(l) THEN l
  ELSE IF \E k \in 1..forward - 1 : l[k] = l[forward]
    THEN RemoveDuplicates(SubSeq(l, 1, forward - 1) \o SubSeq(l, forward + 1, Len(l)), forward)
    ELSE RemoveDuplicates(l, forward + 1)

-----------------------------------------------------------------------------
\* Both programs read pairs and print the ones that connect what was apart.
\* Here everything is its own component, and nothing is printed.
Apart(N) == [id |-> [i \in 0..N - 1 |-> i], result |-> << >>]

\* id names the component: a union renames all of p's.
quick_find(vpq, N) ==
  LET Read(st, pq) ==
        LET t == st.id[pq[1]]
            u == st.id[pq[2]]
        IN  IF t = u THEN st
            ELSE [id     |-> [i \in DOMAIN st.id |-> IF st.id[i] = t THEN u ELSE st.id[i]],
                  result |-> Append(st.result, pq)]
  IN  FoldLeft(Read, Apart(N), vpq).result

RECURSIVE Root(_, _)
Root(id, i) == IF i = id[i] THEN i ELSE Root(id, id[i])

\* id leads to the root: a union hangs p's root under q's.
quick_union(vpq, N) ==
  LET Read(st, pq) ==
        LET i == Root(st.id, pq[1])
            j == Root(st.id, pq[2])
        IN  IF i = j THEN st
            ELSE [id |-> [st.id EXCEPT ![i] = j], result |-> Append(st.result, pq)]
  IN  FoldLeft(Read, Apart(N), vpq).result
=============================================================================
