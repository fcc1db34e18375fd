---------------------------- MODULE RandomMatrix ----------------------------
(***************************************************************************)
(* edu/competitions/intel-competition-2010: every test of a file is a line *)
(* of six numbers, from which a matrix of random numbers around 0 is made. *)
(*                                                                         *)
(* A line is a sequence of words and Spaces; a word stands for its value.  *)
(* The sums are small enough here for an int and for a float.              *)
(***************************************************************************)
EXTENDS Integers, Sequences, SequencesExt

CONSTANT Space

PRNG(seed, a, b, m) == (a * seed + b) % m

\* Every space, and the end of the line, completes a number; atoi() of an
\* empty buffer is 0.
Numbers(s) ==
  LET Read(st, c) == IF c = Space THEN [rez |-> Append(st.rez, st.temp), temp |-> 0]
                     ELSE [st EXCEPT !.temp = c]
  IN  FoldLeft(Read, [rez |-> << >>, temp |-> 0], Append(s, Space)).rez

\* For lines of six numbers; rez has no room for more.
parse(s) ==
  LET rez == Numbers(s)
  IN  [M |-> rez[1], N |-> rez[2], seed0 |-> rez[3], a |-> rez[4], b |-> rez[5], m |-> rez[6]]

\* (int)((float)sum / count + 0.5), of a sum that is not negative
Mean(sum, count) == (2 * sum + count) \div (2 * count)

\* The numbers are drawn row after row; then their mean is taken off.
fill(M, N, a, b, m, seed0) ==
  LET Draw(A, k) == Append(A, PRNG(IF k = 1 THEN seed0 ELSE Last(A), a, b, m))
      drawn      == FoldLeft(Draw, << >>, [k \in 1..M * N |-> k])
      mean       == Mean(FoldLeft(+, 0, drawn), M * N)
  IN  [i \in 0..M - 1 |-> [j \in 0..N - 1 |-> drawn[i * N + j + 1] - mean]]

\* main(): the matrices of a file whose first line is the number of tests.
Matrices(file) ==
  [k \in 1..file.C |-> LET p == parse(file.lines[k])
                       IN  fill(p.M, p.N, p.a, p.b, p.m, p.seed0)]
=============================================================================
