---------------------------- MODULE Kaleidoscope ----------------------------
(***************************************************************************)
(* The lexer and the recursive-descent parser of                           *)
(* projects/high_perf/mem_in_deep/main.cpp.                                *)
(*                                                                         *)
(* The lexer reads characters, the parser the tokens.  A token is a tuple  *)
(* that starts with its kind; a name or a number carries its text          *)
(* (IdentifierStr, NumVal).  Every parsing function takes the tokens and   *)
(* the place of CurTok and returns the place it leaves CurTok at, whether  *)
(* it succeeded (a non-null pointer) and the tree.                         *)
(***************************************************************************)
EXTENDS Integers, Sequences, SequencesExt

CONSTANTS Letters, Digits, Spaces,   \* isalpha, isdigit, isspace
          NewLines,                  \* the characters that end a comment
          DefWord, ExternWord        \* the spelling of the keywords

-----------------------------------------------------------------------------
\* LastChar is the character at the place a call starts from.
EOF == "EOF"

CharAt(text, at) == IF at > Len(text) THEN EOF ELSE text[at]

\* The first place from at on whose character is not in the set.
Past(set, text, at) ==
  CHOOSE k \in at..Len(text) + 1 :
    /\ CharAt(text, k) \notin set
    /\ \A j \in at..k - 1 : text[j] \in set

\* The newline behind a comment is read as LastChar by the next call.
CommentEnd(text, at) ==
  CHOOSE k \in at + 1..Len(text) + 1 :
    /\ CharAt(text, k) \in NewLines \union {EOF}
    /\ \A j \in at + 1..k - 1 : text[j] \notin NewLines

Word(str) ==
  IF str = DefWord THEN <<"def">>
  ELSE IF str = ExternWord THEN <<"extern">> ELSE <<"identifier", str>>

\* gettok(): a token and the place of LastChar behind it.
RECURSIVE gettok(_, _)
gettok(text, from) ==
  LET at   == Past(Spaces, text, from)
      c    == CharAt(text, at)
      word == Past(Letters \union Digits, text, at)
      num  == Past(Digits \union {"."}, text, at)
      line == CommentEnd(text, at)
  IN  IF c \in Letters THEN [tok |-> Word(SubSeq(text, at, word - 1)), at |-> word]
      ELSE IF c \in Digits \union {"."}
        THEN [tok |-> <<"number", SubSeq(text, at, num - 1)>>, at |-> num]
      ELSE IF c = "#" /\ CharAt(text, line) # EOF THEN gettok(text, line)
      ELSE IF c \in {"#", EOF} THEN [tok |-> <<"eof">>, at |-> Len(text) + 1]
      ELSE [tok |-> <<c>>, at |-> at + 1]

RECURSIVE TokensFrom(_, _)
TokensFrom(text, at) ==
  LET next == gettok(text, at)
  IN  IF next.tok = <<"eof">> THEN << >> ELSE <<next.tok>> \o TokensFrom(text, next.at)

-----------------------------------------------------------------------------
\* CurTok, by its kind; behind the last token the lexer keeps returning eof.
CurTok(toks, at) == IF at > Len(toks) THEN "eof" ELSE Head(toks[at])

Ptr(ast, at)  == [ok |-> TRUE, ast |-> ast, at |-> at]
LogError(at)  == [ok |-> FALSE, at |-> at]

NumberExprAST(val)         == [node |-> "number", Val |-> val]
VariableExprAST(name)      == [node |-> "variable", Name |-> name]
BinaryExprAST(op, lhs, rhs) == [node |-> "binary", Op |-> op, LHS |-> lhs, RHS |-> rhs]
CallExprAST(callee, args)  == [node |-> "call", Callee |-> callee, Args |-> args]
PrototypeAST(name, args)   == [node |-> "prototype", Name |-> name, Args |-> args]
FunctionAST(proto, body)   == [node |-> "function", Proto |-> proto, Body |-> body]

BinopPrecedence == [op \in {"<", "+", "-", "*"} |->
                      CASE op = "<" -> 10 [] op \in {"+", "-"} -> 20 [] op = "*" -> 40]

GetTokPrecedence(toks, at) ==
  IF CurTok(toks, at) \in DOMAIN BinopPrecedence THEN BinopPrecedence[CurTok(toks, at)] ELSE -1

RECURSIVE ParseExpression(_, _), ParseBinOpRHS(_, _, _), ParseArgs(_, _, _)

ParseNumberExpr(toks, at) == Ptr(NumberExprAST(toks[at][2]), at + 1)

ParseParenExpr(toks, at) ==
  LET V == ParseExpression(toks, at + 1)
  IN  IF V.ok /\ CurTok(toks, V.at) # ")" THEN LogError(V.at)
      ELSE [V EXCEPT !.at = IF V.ok THEN @ + 1 ELSE @]

\* The loop over the arguments of a call; it ends on the closing parenthesis.
ParseArgs(toks, at, args) ==
  LET arg == ParseExpression(toks, at)
  IN  IF ~arg.ok THEN arg
      ELSE CASE CurTok(toks, arg.at) = ")" -> Ptr(Append(args, arg.ast), arg.at)
             [] CurTok(toks, arg.at) = "," -> ParseArgs(toks, arg.at + 1, Append(args, arg.ast))
             [] OTHER -> LogError(arg.at)

ParseIdentifierExpr(toks, at) ==
  IF CurTok(toks, at + 1) # "(" THEN Ptr(VariableExprAST(toks[at][2]), at + 1)
  ELSE LET args == IF CurTok(toks, at + 2) = ")" THEN Ptr(<< >>, at + 2)
                   ELSE ParseArgs(toks, at + 2, << >>)
       IN  IF args.ok THEN Ptr(CallExprAST(toks[at][2], args.ast), args.at + 1) ELSE args

ParsePrimary(toks, at) ==
  CASE CurTok(toks, at) = "identifier" -> ParseIdentifierExpr(toks, at)
    [] CurTok(toks, at) = "number"     -> ParseNumberExpr(toks, at)
    [] CurTok(toks, at) = "("          -> ParseParenExpr(toks, at)
    [] OTHER                           -> LogError(at)

\* Mutant: operators of the same precedence go to the right side.
SameClimb(TokPrec) == TokPrec

\* What binds at least as tightly as the operator's right side must.
Climb(TokPrec) == TokPrec + 1

ParseBinOpRHS(toks, ExprPrec, LHS) ==
  LET TokPrec == GetTokPrecedence(toks, LHS.at)
      primary == ParsePrimary(toks, LHS.at + 1)
      RHS     == IF primary.ok /\ TokPrec < GetTokPrecedence(toks, primary.at)
                   THEN ParseBinOpRHS(toks, Climb(TokPrec), primary) ELSE primary
  IN  IF TokPrec < ExprPrec THEN LHS
      ELSE IF ~RHS.ok THEN RHS
      ELSE ParseBinOpRHS(toks, ExprPrec,
             Ptr(BinaryExprAST(CurTok(toks, LHS.at), LHS.ast, RHS.ast), RHS.at))

ParseExpression(toks, at) ==
  LET LHS == ParsePrimary(toks, at)
  IN  IF LHS.ok THEN ParseBinOpRHS(toks, 0, LHS) ELSE LHS

ParsePrototype(toks, at) ==
  LET close == CHOOSE k \in at + 2..Len(toks) + 2 :       \* behind the names
                 /\ CurTok(toks, k) # "identifier"
                 /\ \A j \in at + 2..k - 1 : CurTok(toks, j) = "identifier"
  IN  IF CurTok(toks, at) # "identifier" THEN LogError(at)
      ELSE IF CurTok(toks, at + 1) # "(" THEN LogError(at + 1)
      ELSE IF CurTok(toks, close) # ")" THEN LogError(close)
      ELSE Ptr(PrototypeAST(toks[at][2], SubSeq(toks, at + 2, close - 1)), close + 1)

ParseDefinition(toks, at) ==
  LET Proto == ParsePrototype(toks, at + 1)
      E     == ParseExpression(toks, Proto.at)
  IN  IF ~Proto.ok THEN Proto
      ELSE IF E.ok THEN Ptr(FunctionAST(Proto.ast, E.ast), E.at) ELSE E

ParseTopLevelExpr(toks, at) ==
  LET E == ParseExpression(toks, at)
  IN  IF E.ok THEN Ptr(FunctionAST(PrototypeAST("__anon_expr", << >>), E.ast), E.at) ELSE E

ParseExtern(toks, at) == ParsePrototype(toks, at + 1)

-----------------------------------------------------------------------------
\* Mutant: two tokens are skipped after an error.
SkipTwo(parsed, as) ==
  IF parsed.ok THEN [report |-> <<[as |-> as, ast |-> parsed.ast]>>, at |-> parsed.at]
  ELSE [report |-> <<[as |-> "error"]>>, at |-> parsed.at + 2]

\* One round of MainLoop: what is reported, and where CurTok is afterwards.
\* After an error one token is skipped.
Handled(parsed, as) ==
  IF parsed.ok THEN [report |-> <<[as |-> as, ast |-> parsed.ast]>>, at |-> parsed.at]
  ELSE [report |-> <<[as |-> "error"]>>, at |-> parsed.at + 1]

HandleDefinition(toks, at)         == Handled(ParseDefinition(toks, at), "definition")
HandleExtern(toks, at)             == Handled(ParseExtern(toks, at), "extern")
HandleTopLevelExpression(toks, at) == Handled(ParseTopLevelExpr(toks, at), "expr")

RECURSIVE MainLoop(_, _)
MainLoop(toks, at) ==
  IF CurTok(toks, at) = "eof" THEN << >>
  ELSE LET round == CASE CurTok(toks, at) = ";"      -> [report |-> << >>, at |-> at + 1]
                      [] CurTok(toks, at) = "def"    -> HandleDefinition(toks, at)
                      [] CurTok(toks, at) = "extern" -> HandleExtern(toks, at)
                      [] OTHER                       -> HandleTopLevelExpression(toks, at)
       IN  round.report \o MainLoop(toks, round.at)

\* main(): the first token is read before the loop.
Reports(toks) == MainLoop(toks, 1)
=============================================================================
