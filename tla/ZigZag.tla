------------------------------- MODULE ZigZag -------------------------------
(***************************************************************************)
(* The zigzag conversions of edu/train/zigzag.hpp.  A text is written down *)
(* and up over numRows rows and read row by row.  convert_ref is the plain *)
(* version; the others trade clarity for speed: they walk the text in      *)
(* strides of one way down and one way up, and two of them keep the first  *)
(* row in the text they are still reading.                                 *)
(*                                                                         *)
(* Letters are opaque, rows are numbered from 0 as in the code, and s[i]   *)
(* of the code is s[i + 1] here.  Reservations change no contents and are  *)
(* left out.                                                               *)
(***************************************************************************)
EXTENDS Integers, Sequences, SequencesExt

NoRows(n) == [i \in 0..n-1 |-> <<>>]

Joined(rows, from, n) == FlattenSeq([i \in 1..n-from |-> rows[from + i - 1]])

kStride(numRows) == (numRows - 1) * 2

\* Strides that hold the whole text, the last one possibly cut short.
Strides(ssz, numRows) ==
  ssz \div kStride(numRows) + (IF ssz % kStride(numRows) = 0 THEN 0 ELSE 1)

-----------------------------------------------------------------------------
\* The reference: one row at a time, turning at the first and the last.
convert_ref(s, numRows) ==
  LET Put(st, c) ==
        LET down == IF st.curRow \in {0, numRows - 1}
                      THEN ~st.goingDown ELSE st.goingDown
        IN  [rows      |-> [st.rows EXCEPT ![st.curRow] = Append(@, c)],
             curRow    |-> st.curRow + (IF down THEN 1 ELSE -1),
             goingDown |-> down]
      size == IF numRows < Len(s) THEN numRows ELSE Len(s)
      end  == FoldLeft(Put, [rows |-> NoRows(size), curRow |-> 0, goingDown |-> FALSE], s)
  IN  IF numRows = 1 THEN s ELSE Joined(end.rows, 0, size)

\* Where a walk through a stride stands.
StrideStart == [subidx |-> 0, counter |-> 0, direction |-> 1]

\* Mutant: the walk turns one row late.
LateTurn(walk, numRows) ==
  IF walk.subidx = numRows + 1
    THEN [walk EXCEPT !.counter = @ - 2, !.direction = -1]
    ELSE walk

\* The last row is behind: go back over the one above it.
Turn(walk, numRows) ==
  IF walk.subidx = numRows
    THEN [walk EXCEPT !.counter = @ - 2, !.direction = -1]
    ELSE walk

Advance(walk) ==
  [walk EXCEPT !.subidx = @ + 1, !.counter = @ + walk.direction]

\* Stride by stride over a copy of the text, one string per row.
convert_base(s, numRows) ==
  LET stride == kStride(numRows)
      Put(st, i) ==
        LET at == Turn(st.walk, numRows)
        IN  [rows |-> [st.rows EXCEPT ![at.counter] = Append(@, s[i])],
             walk |-> Advance(at)]
      End(iter) == IF (iter + 1) * stride < Len(s) THEN (iter + 1) * stride ELSE Len(s)
      Box(rows, iter) ==
        FoldLeft(Put, [rows |-> rows, walk |-> StrideStart],
                 [k \in 1..End(iter) - iter * stride |-> iter * stride + k]).rows
  IN  IF numRows = 1 THEN s
      ELSE Joined(FoldLeft(Box, NoRows(numRows),
                           [k \in 1..Strides(Len(s), numRows) |-> k - 1]), 0, numRows)

\* One loop over the letters that starts a new stride by itself.  The rows
\* are the strings of convert_forge or the arena strings of convert_arena.
Deal(s, numRows) ==
  LET Put(st, c) ==
        LET at   == Turn(st.walk, numRows)
            next == Advance(at)
        IN  [rows |-> [st.rows EXCEPT ![at.counter] = Append(@, c)],
             walk |-> IF next.subidx >= kStride(numRows) THEN StrideStart ELSE next]
  IN  FoldLeft(Put, [rows |-> NoRows(numRows), walk |-> StrideStart], s).rows

\* The rows are appended to the first one.
convert_forge(s, numRows) ==
  IF numRows = 1 THEN s
  ELSE LET rows == Deal(s, numRows) IN rows[0] \o Joined(rows, 1, numRows)

\* The rows are assigned back to the cleared text.
convert_arena(s, numRows) ==
  IF numRows = 1 THEN s ELSE Joined(Deal(s, numRows), 0, numRows)

-----------------------------------------------------------------------------
(***************************************************************************)
(* The two conversions in place.  The letter that is read comes from the   *)
(* text as it is by now: siter reads what s[in_place_counter] may have     *)
(* overwritten.                                                            *)
(***************************************************************************)
WriteLetter(st, row, c) ==
  IF row = 0
    THEN [st EXCEPT !.s[st.in_place_counter + 1] = c, !.in_place_counter = @ + 1]
    ELSE [st EXCEPT !.rows[row - 1] = Append(@, c)]

\* s.replace(pos, row.size(), row): the tail behind the replaced part stays.
Replace(s, pos, row) ==
  SubSeq(s, 1, pos) \o row \o SubSeq(s, pos + Len(row) + 1, Len(s))

\* The other rows go behind the first one, each at the place the counter says.
PutRowsBehind(st, numRows) ==
  LET Put(acc, row) == [s   |-> Replace(acc.s, acc.pos, row),
                        pos |-> acc.pos + Len(row)]
  IN  FoldLeft(Put, [s |-> st.s, pos |-> st.in_place_counter],
               [i \in 1..numRows - 1 |-> st.rows[i - 1]]).s

InPlace(s, numRows) ==
  [s |-> s, rows |-> NoRows(numRows - 1), in_place_counter |-> 0]

convert_best(s, numRows) ==
  LET Put(st, i) ==     \* i = siter; the walk restarts with every stride
        LET at == Turn(IF (i - 1) % kStride(numRows) = 0 THEN StrideStart ELSE st.walk,
                       numRows)
        IN  [text |-> WriteLetter(st.text, at.counter, st.text.s[i]),
             walk |-> Advance(at)]
      end == FoldLeft(Put, [text |-> InPlace(s, numRows), walk |-> StrideStart],
                      [i \in 1..Len(s) |-> i])
  IN  IF numRows = 1 THEN s ELSE PutRowsBehind(end.text, numRows)

\* The two inner loops: down over every row, up over the ones between.
RowOrder(numRows) ==
  [i \in 1..kStride(numRows) |-> IF i <= numRows THEN i - 1 ELSE kStride(numRows) + 1 - i]

convert_best1(s, numRows) ==
  LET Put(st, i) ==
        WriteLetter(st, RowOrder(numRows)[((i - 1) % kStride(numRows)) + 1], st.s[i])
  IN  IF numRows = 1 THEN s
      ELSE PutRowsBehind(FoldLeft(Put, InPlace(s, numRows), [i \in 1..Len(s) |-> i]),
                         numRows)
=============================================================================
