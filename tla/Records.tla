------------------------------- MODULE Records ------------------------------
(***************************************************************************)
(* The readers of edu/courses/my-cs/details/io_details.cc.  A file is a    *)
(* sequence of lines and says whether the last one ends with a newline; a  *)
(* line is the sequence of its fields, each a number or Junk.  Splitters   *)
(* and trimming only separate fields and are left out.                     *)
(***************************************************************************)
EXTENDS Integers, Sequences, SequencesExt

CONSTANTS Junk,      \* a field that is no number
          NoFile     \* a name that cannot be opened

\* ss >> i for the field at place k: fails at the end of the line and on junk.
Extracts(line, k) == k <= Len(line) /\ line[k] # Junk

\* The number that is extracted; a failed extraction stores 0.
Extracted(line, k) == IF Extracts(line, k) THEN line[k] ELSE 0

Items(list) == [outcome |-> "items", list |-> list]
Fails(how)  == [outcome |-> how, list |-> << >>]

-----------------------------------------------------------------------------
Opened == [at |-> 1, line |-> << >>, eof |-> FALSE, fail |-> FALSE]

\* std::getline.  On a stream whose end was met by the previous call it only
\* sets the fail bit: the line keeps what it held.  An end met right away
\* clears the line and fails; one met behind the last line does not fail.
getline(stream, file) ==
  IF stream.eof THEN [stream EXCEPT !.fail = TRUE]
  ELSE IF stream.at > Len(file.lines)
    THEN [stream EXCEPT !.line = << >>, !.eof = TRUE, !.fail = TRUE]
    ELSE [stream EXCEPT !.line = file.lines[stream.at], !.at = @ + 1,
                        !.eof  = stream.at = Len(file.lines) /\ ~file.newline]

\* The loop of get_dyn_items() and get_jobs(): two numbers a line, until a
\* line does not start with one.
RECURSIVE ReadPairs(_, _, _)
ReadPairs(file, stream, pairs) ==
  LET next == getline(stream, file)
  IN  IF stream.fail \/ ~Extracts(next.line, 1) THEN Items(pairs)
      ELSE IF ~Extracts(next.line, 2) THEN Fails("invalid_argument")
      ELSE ReadPairs(file, next, Append(pairs, <<next.line[1], next.line[2]>>))

\* Mutant: the number of items is not compared with the declared one.
get_dyn_items_uncounted(file) ==
  IF file = NoFile THEN Fails("runtime_error")
  ELSE ReadPairs(file, getline(Opened, file), << >>)

\* The first line holds the capacity and the number of items.  (count_items
\* has no initial value, so files whose first line lacks it are left out.)
get_dyn_items(file) ==
  IF file = NoFile THEN Fails("runtime_error")
  ELSE LET header == getline(Opened, file)
           read   == ReadPairs(file, header, << >>)
       IN  IF read.outcome = "items" /\ Len(read.list) # Extracted(header.line, 2)
             THEN Fails("runtime_error") ELSE read

\* The first line holds the number of jobs; the count is only asserted.
get_jobs(file) ==
  IF file = NoFile THEN Fails("runtime_error")
  ELSE LET header == getline(Opened, file)
           read   == ReadPairs(file, header, << >>)
       IN  IF read.outcome = "items" /\ Len(read.list) # Extracted(header.line, 1)
             THEN Fails("abort") ELSE read

\* One number a line.  The loop tests getline(), so no line is read twice; a
\* line that holds none gives 0, since nothing throws bad_lexical_cast.
RECURSIVE ReadNumbers(_, _, _)
ReadNumbers(file, stream, records) ==
  LET next == getline(stream, file)
  IN  IF next.fail THEN Items(records)
      ELSE ReadNumbers(file, next, Append(records, Extracted(next.line, 1)))

extract_records(file) ==
  IF file = NoFile THEN Fails("runtime_error") ELSE ReadNumbers(file, Opened, << >>)

-----------------------------------------------------------------------------
\* A node and its arrows, two numbers each.  A stream that failed on the node
\* extracts nothing more.
RECURSIVE ReadArrows(_, _, _)
ReadArrows(line, k, arrows) ==
  IF ~Extracts(line, k) THEN Items(arrows)
  ELSE IF ~Extracts(line, k + 1) THEN Fails("invalid_argument")
  ELSE ReadArrows(line, k + 2, Append(arrows, <<line[k], line[k + 1]>>))

parse_node_data(line) ==
  [root   |-> Extracted(line, 1),
   arrows |-> IF Extracts(line, 1) THEN ReadArrows(line, 2, << >>) ELSE Items(<< >>)]
=============================================================================
