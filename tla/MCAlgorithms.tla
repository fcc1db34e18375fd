---------------------------- MODULE MCAlgorithms ----------------------------
(***************************************************************************)
(* The sequential algorithms on every input up to a bound.  A behaviour    *)
(* picks an algorithm and a parameter and then writes its input one        *)
(* element at a time; the invariants compare what the algorithm makes of   *)
(* the input so far with a reference definition.                           *)
(***************************************************************************)
EXTENDS Integers, Sequences, SequencesExt, FiniteSetsExt, TLC

VARIABLES task, param, input

vars == <<task, param, input>>

Z == INSTANCE ZigZag
K == INSTANCE Knapsack
L == INSTANCE LeafNode
E == INSTANCE Exercises
I == INSTANCE RandomMatrix WITH Space <- -1
R == INSTANCE Records WITH Junk <- -1, NoFile <- [lines |-> << >>, newline |-> FALSE]
P == INSTANCE Kaleidoscope WITH
       Letters <- {"d"}, Digits <- {"1"}, Spaces <- {" ", "\n"}, NewLines <- {"\n"},
       DefWord <- <<"d">>, ExternWord <- <<"d", "d">>

-----------------------------------------------------------------------------
Params ==
  [zigzag |-> 1..7, knapsack |-> 0..5, wis |-> -1..2, file |-> BOOLEAN, node |-> {0},
   text |-> {0}, tokens |-> {0}, operators |-> {0}, leaf |-> 1..3, places |-> {0},
   numbers |-> 0..5, jobs |-> {0}, pairs |-> {4},
   matrix |-> {0}]

MaxInput ==
  [zigzag |-> 14, knapsack |-> 4, wis |-> 6, file |-> 4, node |-> 6,
   text |-> 6, tokens |-> 5, operators |-> 9, leaf |-> 3, places |-> 6,
   numbers |-> 4, jobs |-> 4, pairs |-> 4,
   matrix |-> 11]

Name == <<"identifier", "x">>

Next_ == Len(input) + 1

\* What may be written next.
Alphabet ==
  CASE task \in {"zigzag", "places"} -> {Next_}          \* letters all different
    [] task = "knapsack"  -> {K!Item(v, w) : v \in {1, 3}, w \in 1..3}
    [] task = "wis"       -> 1..3
    [] task = "file"      -> IF Next_ = 1 THEN {<<count, count>> : count \in 0..3}
                             ELSE {<< >>, <<-1>>, <<2>>, <<4, -1>>, <<5, 6>>, <<7, 8>>}
    [] task = "node"      -> {-1, 1, 2}
    [] task = "text"      -> {"d", "1", ".", "#", " ", "\n", "("}
    [] task = "tokens"    -> {Name, <<"number", "1">>, <<"def">>, <<"extern">>}
                             \union {<<c>> : c \in {"(", ")", ",", "+", "*", "<", ";"}}
    [] task = "operators" -> IF Next_ % 2 = 1 THEN {Name}
                             ELSE {<<c>> : c \in {"<", "+", "-", "*"}}
    [] task = "leaf"      -> LET side == 0..L!DIM(param) - 1
                             IN  IF param > 1 /\ Len(input) = 1 THEN {} ELSE side \X side \X side
    [] task = "numbers"   -> 0..3
    [] task = "jobs"      -> {E!Job(w, l) : w \in 1..3, l \in 1..2}
    [] task = "pairs"     -> (0..param - 1) \X (0..param - 1)
    [] task = "matrix"    -> IF Next_ % 2 = 0 THEN {-1} ELSE 1..3

Init == /\ task \in DOMAIN Params
        /\ param \in Params[task]
        /\ input = << >>

Write == /\ Len(input) < MaxInput[task]
         /\ \E e \in Alphabet : input' = Append(input, e)
         /\ UNCHANGED <<task, param>>

Spec == Init /\ [][Write]_vars

-----------------------------------------------------------------------------
(***************************************************************************)
(* zigzag.hpp: the five faster conversions return what convert_ref()       *)
(* returns, for every text and number of rows; the ones in place never     *)
(* overwrite a letter they still have to read.                             *)
(***************************************************************************)
ZigZagAgree ==
  task = "zigzag" =>
    \A text \in {Z!convert_base(input, param), Z!convert_best(input, param),
                 Z!convert_forge(input, param), Z!convert_arena(input, param),
                 Z!convert_best1(input, param)} : text = Z!convert_ref(input, param)

-----------------------------------------------------------------------------
Total(Of(_), S) == FoldSet(LAMBDA i, sum : sum + Of(i), 0, S)

\* The best value of a subset of the first n items that weighs at most w.
Best(n, w) ==
  LET Weight(i) == input[i].w
      Value(i)  == input[i].v
  IN  Max({Total(Value, S) : S \in {S \in SUBSET (1..n) : Total(Weight, S) <= w}})

(***************************************************************************)
(* w3_dyn_pro.cc, w3_lession_code.cc: with positive weights all knapsack   *)
(* programs return the best value of a subset, every entry either memo     *)
(* table keeps is the optimum of its own task, and the table that forgets  *)
(* A[i - 1][x] promises no value a subset cannot reach.                    *)
(***************************************************************************)
KnapsackOptimal ==
  task = "knapsack" =>
    LET n       == Len(input)
        root    == K!TaskId(param, n)
        memo    == K!knapSack_hashtable(root, input, << >>)
        memo2d  == K!knapSack_hashtable_2d(root, input, << >>)
        guarded == <<K!Item(0, 0)>> \o input
    IN  /\ {K!knapSackExp(param, n, input), memo.sum, memo2d.sum,
            K!knapSack(param, [i \in 1..n |-> input[i].w], [i \in 1..n |-> input[i].v], n),
            K!KnapsackProblem(guarded, param)} = {Best(n, param)}
        /\ \A id \in DOMAIN memo.store : memo.store[id] = Best(id.idx, id.w_bound)
        /\ \A w \in DOMAIN memo2d.store : \A i \in DOMAIN memo2d.store[w] :
             memo2d.store[w][i] = Best(i, w)
        /\ K!BigKnapsackProblem(guarded, param) <= Best(n, param)

(***************************************************************************)
(* TEST(W3, Wis): the last entry of the table is the weight of the best    *)
(* set without neighbours.  Whatever lies in front of the vector, the set  *)
(* that is printed has no neighbours and lacks at most the first vertex,   *)
(* and nothing when what is read there does not cancel its weight.         *)
(***************************************************************************)
WisIndependent ==
  task = "wis" /\ input # << >> =>
    LET n         == Len(input)
        A         == K!WisTable(input)
        Weight(i) == input[i]
        Apart(S)  == \A i \in S : i + 1 \notin S
        chosen    == K!WisChosen(input, A, param, n)
    IN  /\ A[n + 1] = Max({Total(Weight, S) : S \in {S \in SUBSET (1..n) : Apart(S)}})
        /\ Apart(chosen)
        /\ Total(Weight, chosen) \in {A[n + 1], A[n + 1] - input[1]}
        /\ param + input[1] > 0 => Total(Weight, chosen) = A[n + 1]

(***************************************************************************)
(* w3_dyn_pro.cc, w3_lession_code.cc: the programs of the third week, both *)
(* the knapsacks and the independent set, find the optimum.                *)
(***************************************************************************)
TablesOptimal == KnapsackOptimal /\ WisIndependent

-----------------------------------------------------------------------------
Depth(toks, i) ==
  Cardinality({j \in 1..i : toks[j] = <<"(">>}) - Cardinality({j \in 1..i : toks[j] = <<")">>})

\* The places outside parentheses that hold one of the kinds.
Outside(toks, kinds) ==
  {i \in 1..Len(toks) : toks[i][1] \in kinds /\ Depth(toks, i) = 0}

IllFormed == [node |-> "ill-formed"]

\* The tree of an expression, from its lowest operator: the last one outside
\* parentheses of those that bind least.
RECURSIVE Tree(_)
Tree(toks) ==
  LET n        == Len(toks)
      ops      == Outside(toks, DOMAIN P!BinopPrecedence)
      Binds(i) == P!BinopPrecedence[toks[i][1]]
      root     == Max({i \in ops : \A j \in ops : Binds(i) <= Binds(j)})
      inside   == SubSeq(toks, 3, n - 1)
      commas   == Outside(inside, {","}) \union {0, Len(inside) + 1}
      bounds   == SetToSortSeq(commas, <)
      args     == [k \in 1..Len(bounds) - 1 |->
                     Tree(SubSeq(inside, bounds[k] + 1, bounds[k + 1] - 1))]
      closed   == n > 1 /\ toks[n] = <<")">>
  IN  CASE ops # {} ->
             LET lhs == Tree(SubSeq(toks, 1, root - 1))
                 rhs == Tree(SubSeq(toks, root + 1, n))
             IN  IF IllFormed \in {lhs, rhs} THEN IllFormed
                 ELSE P!BinaryExprAST(toks[root][1], lhs, rhs)
        [] ops = {} /\ n = 1 /\ toks[1][1] = "number"     -> P!NumberExprAST(toks[1][2])
        [] ops = {} /\ n = 1 /\ toks[1][1] = "identifier" -> P!VariableExprAST(toks[1][2])
        [] ops = {} /\ closed /\ toks[1] = <<"(">>        -> Tree(SubSeq(toks, 2, n - 1))
        [] ops = {} /\ closed /\ n > 2 /\ toks[1][1] = "identifier" /\ toks[2] = <<"(">> ->
             IF n = 3 THEN P!CallExprAST(toks[1][2], << >>)
             ELSE IF \E k \in DOMAIN args : args[k] = IllFormed THEN IllFormed
             ELSE P!CallExprAST(toks[1][2], args)
        [] OTHER -> IllFormed

(***************************************************************************)
(* main.cpp, ParseBinOpRHS(): the parser accepts exactly the well-formed   *)
(* expressions and builds the tree that precedences and left associativity *)
(* demand, across parentheses and calls.                                   *)
(***************************************************************************)
ParserTree ==
  task \in {"tokens", "operators"} /\ input # << >> /\ ~Contains(input, <<";">>) =>
    \E report \in {P!Reports(input)}, tree \in {Tree(input)} :
      IF Len(report) = 1 /\ report[1].as = "expr"
        THEN tree = report[1].ast.Body
        ELSE tree = IllFormed

Whole     == input
Before(i) == SubSeq(input, 1, i - 1)
Behind(i) == SubSeq(input, i + 1, Len(input))

(***************************************************************************)
(* main.cpp, the Handle functions and gettok(): whatever came before, the  *)
(* parser is in step again behind a semicolon, and so is the lexer behind  *)
(* a newline: both report for the two parts what they report for each.     *)
(***************************************************************************)
ParserInStep ==
  /\ task = "tokens" => \A i \in 1..Len(input) :
       input[i] = <<";">> =>
         \E reports \in {[part \in {Whole, Before(i), Behind(i)} |-> P!Reports(part)]} :
           reports[Whole] = reports[Before(i)] \o reports[Behind(i)]
  /\ task = "text" => \A i \in 1..Len(input) :
       input[i] = "\n" =>
         \E tokens \in {[part \in {Whole, Before(i), Behind(i)} |-> P!TokensFrom(part, 1)]} :
           tokens[Whole] = tokens[Before(i)] \o tokens[Behind(i)]

-----------------------------------------------------------------------------
Numeric(line) == Cardinality({k \in 1..Len(line) : \A j \in 1..k : line[j] # -1})

File == [lines |-> input, newline |-> param]

Pairs(lines) == [k \in 1..Len(lines) |-> <<lines[k][1], lines[k][2]>>]

(***************************************************************************)
(* io_details.cc: of a file whose last line is ended the readers return    *)
(* all records or none: the lines before the first one that starts with no *)
(* number, if they are as many as the first line says and each is whole.   *)
(* extract_records() returns one number for every line, ended or not, and  *)
(* parse_node_data() the pairs of the numbers before any junk.             *)
(***************************************************************************)
RecordsAllOrNone ==
  /\ task = "file" /\ input # << >> =>
       LET body  == Tail(input)
           k     == Cardinality({i \in 1..Len(body) : \A j \in 1..i : Numeric(body[j]) > 0})
           whole == \A i \in 1..k : Numeric(body[i]) > 1
       IN  /\ param => /\ R!get_dyn_items(File) =
                           IF ~whole THEN R!Fails("invalid_argument")
                           ELSE IF k # input[1][2] THEN R!Fails("runtime_error")
                           ELSE R!Items(Pairs(SubSeq(body, 1, k)))
                       /\ R!get_jobs(File).outcome = "items"
                            <=> R!get_dyn_items(File).outcome = "items"
           /\ (param \/ input[Len(input)] # << >>) =>
                R!extract_records(File).list =
                  [i \in 1..Len(input) |-> IF Numeric(input[i]) > 0 THEN input[i][1] ELSE 0]
  /\ task = "node" =>
       LET m    == Numeric(input)
           node == R!parse_node_data(input)
       IN  IF m = 0 THEN node.root = 0 /\ node.arrows = R!Items(<< >>)
           ELSE /\ node.root = input[1]
                /\ node.arrows = IF m % 2 = 0 THEN R!Fails("invalid_argument")
                                 ELSE R!Items([k \in 1..m \div 2 |->
                                                 <<input[2 * k], input[2 * k + 1]>>])

(***************************************************************************)
(* io_details.cc:95: the count of the items is compared with the one the   *)
(* file declares, so that a broken file is refused.  What is returned then *)
(* comes from as many lines as the file has behind the first.              *)
(***************************************************************************)
BrokenFileRefused ==
  task = "file" /\ Len(input) > 1 /\ input[Len(input)] # << >> =>
    Len(R!get_dyn_items(File).list) <= Len(input) - 1

-----------------------------------------------------------------------------
\* The leaf after the points were made active, each with its number as value.
Leaf == FoldLeft(LAMBDA leaf, k : L!setActive(param, leaf, input[k][1], input[k][2], input[k][3], k),
                 L!NewLeaf(param), [k \in 1..Len(input) |-> k])

(***************************************************************************)
(* bit_masking.cc: traverse() finds in ascending order exactly the offsets *)
(* of the points that were made active, fromOffset() leads back to them,   *)
(* and the value at each is the last one written.                          *)
(***************************************************************************)
LeafTraversal ==
  task = "leaf" =>
    LET offsets == L!traverse(param, Leaf)
    IN  /\ \A i, j \in 1..Len(offsets) : i < j => offsets[i] < offsets[j]
        /\ {L!fromOffset(param, offset) : offset \in ToSet(offsets)} = ToSet(input)
        /\ Len(offsets) = Cardinality(ToSet(input))
        /\ \A offset \in ToSet(offsets) :
             Leaf.data_buffer[offset] =
               Max({k \in 1..Len(input) : input[k] = L!fromOffset(param, offset)})

(***************************************************************************)
(* goal_no_raw_loops_app.cc: slide() takes the block out and puts it back  *)
(* at p, keeping the order of the block and of the rest.  gather() makes   *)
(* the selected elements a contiguous block that p lies in, and keeps the  *)
(* order of both kinds.  compact() copies the masked elements, in order.   *)
(***************************************************************************)
SlideAndGather ==
  task = "places" =>
    LET n          == Len(input)
        Without(S) == SelectSeq(input, LAMBDA e : e \notin S)
        Only(S)    == SelectSeq(input, LAMBDA e : e \in S)
    IN  /\ \A f, l, p \in 0..n : f <= l =>
             LET rest == Without(f + 1..l)
                 at   == CASE p < f -> p [] l < p -> p - (l - f) [] OTHER -> f
             IN  E!slide(input, f, l, p) =
                   SubSeq(rest, 1, at) \o SubSeq(input, f + 1, l) \o SubSeq(rest, at + 1, Len(rest))
        /\ \A p \in 0..n, S \in SUBSET (1..n) :
             LET g == E!gather(input, 0, n, p, S)
             IN  /\ g.first <= p /\ p <= g.last
                 /\ SubSeq(g.seq, g.first + 1, g.last) = Only(S)
                 /\ SubSeq(g.seq, 1, g.first) \o SubSeq(g.seq, g.last + 1, n) = Without(S)
                 /\ E!compact(input, [k \in 1..n |-> k \in S]) = Only(S)

(***************************************************************************)
(* w6.cc: _2sum_naive() on numbers all different counts the pairs that add *)
(* up to the target, a number with itself included; q1() the targets that  *)
(* two different numbers reach; q2_nth() adds for every prefix the element *)
(* half of the others are not above.  crack_code_lists.cc: the list keeps  *)
(* the first of every value, in order.  w1_greedy.cc: the jobs are ordered *)
(* by difference and among equals by weight.                               *)
(***************************************************************************)
CourseAnswers ==
  /\ task = "numbers" =>
       LET n     == Len(input)
           set   == ToSet(input)
           first == SelectSeq([k \in 1..n |-> k], LAMBDA k : \A j \in 1..k - 1 : input[j] # input[k])
           Median(m) == CHOOSE x \in set :
             /\ 2 * Cardinality({k \in 1..m : input[k] < x}) < m
             /\ 2 * Cardinality({k \in 1..m : input[k] <= x}) >= m
       IN  /\ Cardinality(set) = n =>
                E!_2sum_naive(input, param) =
                  Cardinality({S \in {{x, y} : x, y \in set} :
                                 \E x, y \in S : x + y = param /\ S = {x, y}})
           /\ E!q1(input, 1, param) =
                LET low == {x \in set : x <= param}
                IN  IF low = {} \/ Cardinality(low) = n THEN "abort"
                    ELSE Cardinality({t \in 1..param : \E x, y \in low : x # y /\ x + y = t})
           /\ E!q2_nth(input) = Total(Median, 1..n)
           /\ E!RemoveDuplicates(input, 1) = [k \in 1..Len(first) |-> input[first[k]]]
  /\ task = "jobs" =>
       LET out == E!ScheduleJobs(input)
       IN  /\ \A job \in ToSet(input) : Cardinality({k \in 1..Len(out) : out[k] = job})
                                         = Cardinality({k \in 1..Len(input) : input[k] = job})
           /\ \A i, j \in 1..Len(out) : i < j =>
                \/ E!get_delta(out[i]) > E!get_delta(out[j])
                \/ /\ E!get_delta(out[i]) = E!get_delta(out[j])
                   /\ out[i].weight >= out[j].weight

(***************************************************************************)
(* connectivity_problem_test.cc: both programs print a pair exactly when   *)
(* some set of nodes that no earlier pair leaves holds the one and not the *)
(* other; the trees of quick_union() have no circle to follow for ever.    *)
(***************************************************************************)
PairsConnect ==
  task = "pairs" =>
    LET News(k) == \E S \in SUBSET (0..param - 1) :
                     /\ input[k][1] \in S /\ input[k][2] \notin S
                     /\ \A j \in 1..k - 1 : input[j][1] \in S <=> input[j][2] \in S
        news    == SelectSeq([k \in 1..Len(input) |-> k], News)
    IN  {E!quick_find(input, param), E!quick_union(input, param)}
          = {[k \in 1..Len(news) |-> input[news[k]]]}

(***************************************************************************)
(* intel-competition-2010: of a line of six numbers every test of a file   *)
(* makes the same matrix.  Read row after row it goes on from number to    *)
(* number as the generator does, also from one row to the next, but for a  *)
(* constant; and it adds up to no more than half its size to either side.  *)
(***************************************************************************)
MatrixCentred ==
  task = "matrix" /\ Len(input) = 11 =>
    \E matrices \in {I!Matrices([C |-> 2, lines |-> <<input, input>>])} :
      LET M == input[1]
          N == input[3]
          m == input[11]
          Cell(k) == matrices[1][k \div N][k % N]
          Follows(k, shift) ==
            LET seed == IF k = 0 THEN input[5] ELSE Cell(k - 1) + shift
            IN  Cell(k) + shift = (input[7] * seed + input[9]) % m
          sum == Total(Cell, 0..M * N - 1)
      IN  /\ matrices[1] = matrices[2]
          /\ \E shift \in 0..m - 1 : \A k \in 0..M * N - 1 : Follows(k, shift)
          /\ -(M * N) <= 2 * sum /\ 2 * sum <= M * N

(***************************************************************************)
(* goal_no_raw_loops_app.cc, std_own_ext.h, w6.cc, w1_greedy.cc,           *)
(* crack_code_lists.cc, connectivity_problem_test.cc and the competition's *)
(* addons.cc: the exercises do what their definitions say.                 *)
(***************************************************************************)
ExerciseAnswers == SlideAndGather /\ CourseAnswers /\ PairsConnect /\ MatrixCentred
=============================================================================
