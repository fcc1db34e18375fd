SPECIFICATION Spec
INVARIANTS ZigZagAgree TablesOptimal ParserTree ParserInStep RecordsAllOrNone LeafTraversal ExerciseAnswers
CHECK_DEADLOCK FALSE
