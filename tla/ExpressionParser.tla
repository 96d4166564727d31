-------------------------- MODULE ExpressionParser --------------------------
(***************************************************************************)
(* How horsec reads an inline expression: the parser splits the tokens at  *)
(* the operator that is applied last and parses both sides (astparser.c,   *)
(* ast_ParseExprInlineOperator_Recurse), or reads a name, a literal,       *)
(* brackets, a container, "given" or an inline function.  An index without *)
(* its closing bracket counts as failed, though the parser goes on after   *)
(* its message.  "unpack" and the limit on the depth of nesting are left   *)
(* out.                                                                    *)
(***************************************************************************)
EXTENDS Tokens, FiniteSets, FiniteSetsExt, TLC

-----------------------------------------------------------------------------
(* Where an expression ends and which operator is applied last *)

Opens(t) == t.op \in {"(", "[", "{"}
Depth(tokens, i) ==
  Cardinality({j \in 1 .. i - 1 : Opens(tokens[j])})
    - Cardinality({j \in 1 .. i - 1 : tokens[j].kind = "close"})

\* A token belongs to the condition of a "given" outside of brackets.
Count(tokens, last, word) ==
  Cardinality({j \in 1 .. last : tokens[j].op = word /\ Depth(tokens, j) = 0})
InCondition(tokens, i) == Count(tokens, i, "given") > Count(tokens, i - 1, "then")

EndsBefore(tokens, i) ==
  \/ tokens[i].kind = "close"
  \/ /\ i > 1 /\ ~InCondition(tokens, i)
     /\ \/ tokens[i].kind \in {"assign", "comma", "arrow", "colon", "inlinefunc"}
        \/ tokens[i].op = "then"
        \/ StartsStatement(tokens, i)
ExpressionEnd(tokens) ==
  FirstOf(1, Len(tokens) + 1, LAMBDA i : Depth(tokens, i) = 0 /\ EndsBefore(tokens, i))

\* Operators that are not inside a bracket or a condition.
OperatorsBefore(tokens, end) ==
  {i \in 1 .. end - 1 :
     /\ tokens[i].kind \in {"unary", "binary", "assign"}
     /\ Depth(tokens, i) = 0 /\ ~InCondition(tokens, i)}
Operators(tokens) == OperatorsBefore(tokens, ExpressionEnd(tokens))
\* A unary operator behind a binary one belongs to the right operand.
Candidates(tokens, operators) == {i \in operators : tokens[i].kind = "binary" \/ i = 1}

Misplaced(tokens, operators) ==
  LET candidates == Candidates(tokens, operators)
  IN \/ tokens[1].kind \in {"binary", "assign"}
     \/ \E i \in operators \ candidates : \A j \in candidates : j > i
     \/ Depth(tokens, ExpressionEnd(tokens)) > 0

AppliedAfterOrFirst(tokens, i, j) ==
  \/ Precedence(tokens[i].op) > Precedence(tokens[j].op)
  \/ Precedence(tokens[i].op) = Precedence(tokens[j].op) /\ i <= j
AppliedAfter(tokens, i, j) ==
  \/ Precedence(tokens[i].op) > Precedence(tokens[j].op)
  \/ Precedence(tokens[i].op) = Precedence(tokens[j].op) /\ i >= j
Root(tokens, among) == CHOOSE i \in among : \A j \in among : AppliedAfter(tokens, i, j)

-----------------------------------------------------------------------------
(* Parsing *)

RECURSIVE ParseInline(_), ParseAmong(_, _), ParseUnary(_), ParseBinary(_, _), ParseOperand(_), ParseBracket(_),
          ParseArgument(_, _, _), ParseArguments(_, _, _), ParseInlineParams(_), ParseInlineFunc(_),
          ParseCall(_, _, _), ParseRight(_, _, _, _), ParseAt(_, _), ParseBranches(_), ParseGiven(_),
          ParseLabelled(_, _), ParsePair(_), ParseItem(_, _, _), ParseItems(_, _, _), ParseContainer(_)

\* One argument or parameter: a name with a value, a value, or a plain parameter.
ParseArgument(tokens, isCall, declared) ==
  LET named == TokenKind(tokens, 1) = "name" /\ Op(tokens, 2) = "="
      plain == ~isCall /\ TokenKind(tokens, 1) = "name" /\ Op(tokens, 2) \in {",", ")"}
  IN IF ~isCall /\ ((~named /\ ~plain) \/ tokens[1].op \in declared) THEN Failed
     ELSE IF plain THEN Parsed(NameOf(tokens[1].op), 1)
     ELSE IF named THEN
       Then(ParseInline(From(tokens, 3)),
            LAMBDA value : Parsed(Tree("=", <<NameOf(tokens[1].op), value.tree>>), value.used + 2))
     ELSE ParseInline(tokens)

\* What follows the opening bracket of a call or of parameters, up to the closing one.
ParseArguments(tokens, isCall, declared) ==
  IF tokens = <<>> THEN Failed
  ELSE IF tokens[1].op = ")" THEN ParsedAll(<<>>, 1)
  ELSE Then(ParseArgument(tokens, isCall, declared),
            LAMBDA first :
              LET comma == IF Op(tokens, first.used + 1) = "," THEN 1 ELSE 0
              IN Followed([first EXCEPT !.used = @ + comma],
                          ParseArguments(From(tokens, first.used + comma + 1), isCall, declared \cup {tokens[1].op})))

\* ast_ParseFuncDefArgs, behind the opening bracket.
ParseParameters(tokens) == ParseArguments(tokens, FALSE, {})

\* The operand of a unary operator may end earlier than the tokens.
ParseUnary(tokens) ==
  Then(ParseInline(SubSeq(tokens, 2, ExpressionEnd(tokens) - 1)),
       LAMBDA operand : Parsed(Tree(tokens[1].op, <<operand.tree>>), 1 + operand.used))

\* What is behind the operator, up to the end of the expression.
ParseCall(left, root, after) ==
  Then(ParseArguments(after, TRUE, {}),
       LAMBDA call : Parsed(Tree("(", <<left.tree>> \o call.trees), root + call.used))
ParseRight(op, left, root, after) ==
  Then(ParseInline(after),
       LAMBDA right :
         LET close == IF op = "[" THEN 1 ELSE 0
         IN IF close = 1 /\ Op(after, right.used + 1) # "]" THEN Failed
            ELSE Parsed(Tree(op, <<left.tree, right.tree>>), root + right.used + close))

\* The left operand has to reach up to the operator.
ParseBinary(tokens, root) ==
  Then(ParseInline(SubSeq(tokens, 1, root - 1)),
       LAMBDA left :
         LET after == SubSeq(tokens, root + 1, ExpressionEnd(tokens) - 1)
         IN IF left.used # root - 1 THEN Failed
            ELSE IF tokens[root].op = "(" THEN ParseCall(left, root, after)
            ELSE ParseRight(tokens[root].op, left, root, after))

ParseAt(tokens, root) == IF tokens[root].kind = "unary" THEN ParseUnary(tokens) ELSE ParseBinary(tokens, root)

ParseBracket(tokens) ==
  Then(ParseInline(Tail(tokens)),
       LAMBDA inner : IF Op(tokens, inner.used + 2) # ")" THEN Failed ELSE Parsed(inner.tree, inner.used + 2))

-----------------------------------------------------------------------------
(* Inline functions, "given" and containers *)

\* The bracket that closes the first one, when calls and indexing are not counted.
PlainDepth(tokens, i) ==
  Cardinality({j \in 1 .. i - 1 : tokens[j].kind = "open"}) - Cardinality({j \in 1 .. i : tokens[j].kind = "close"})
IsInlineFunc(tokens) ==
  \/ tokens[1].kind = "name" /\ TokenKind(tokens, 2) = "inlinefunc"
  \/ /\ tokens[1].kind = "open" /\ tokens[1].op = "("
     /\ \E i \in DOMAIN tokens :
          /\ PlainDepth(tokens, i) = 0 /\ \A j \in 1 .. i - 1 : j > 1 => PlainDepth(tokens, j) > 0
          /\ tokens[i].op = ")" /\ TokenKind(tokens, i + 1) = "inlinefunc"

ParseInlineParams(tokens) ==
  IF tokens[1].kind = "name" THEN ParsedAll(<<NameOf(tokens[1].op)>>, 1)
  ELSE Then(ParseParameters(Tail(tokens)), LAMBDA args : ParsedAll(args.trees, args.used + 1))

\* parameters => ( value )
ParseInlineFunc(tokens) ==
  Then(ParseInlineParams(tokens),
       LAMBDA params :
         IF TokenKind(tokens, params.used + 1) # "inlinefunc" \/ Op(tokens, params.used + 2) # "(" THEN Failed
         ELSE Then(ParseInline(From(tokens, params.used + 3)),
                   LAMBDA value :
                     LET used == params.used + value.used + 3
                     IN IF Op(tokens, used) # ")" THEN Failed
                        ELSE Parsed(Tree("=>", params.trees \o <<value.tree>>), used)))

\* ( yes else no )
ParseBranches(tokens) ==
  IF Op(tokens, 1) # "(" THEN Failed
  ELSE Then(ParseInline(From(tokens, 2)),
            LAMBDA yes :
              IF Op(tokens, yes.used + 2) # "else" THEN Failed
              ELSE Then(ParseInline(From(tokens, yes.used + 3)),
                        LAMBDA no :
                          LET close == yes.used + no.used + 3
                          IN IF Op(tokens, close) # ")" THEN Failed ELSE ParsedAll(<<yes.tree, no.tree>>, close)))

\* given condition then branches
ParseGiven(tokens) ==
  Then(ParseInline(Tail(tokens)),
       LAMBDA condition :
         IF Op(tokens, condition.used + 2) # "then" THEN Failed
         ELSE Then(ParseBranches(From(tokens, condition.used + 3)),
                   LAMBDA branches : Parsed(Tree("given", <<condition.tree>> \o branches.trees),
                                            condition.used + branches.used + 2)))

\* Whether an arrow is met before a comma; closing square brackets and the opening
\* brackets of calls and indexing are not counted.
RECURSIVE ArrowFirst(_, _, _)
ArrowFirst(tokens, i, depth) ==
  CASE i > Len(tokens) -> FALSE
    [] i <= Len(tokens) /\ depth = 0 /\ tokens[i].kind \in {"comma", "arrow"} -> tokens[i].kind = "arrow"
    [] OTHER -> ArrowFirst(tokens, i + 1,
                  IF tokens[i].kind = "open" THEN depth + 1
                  ELSE IF tokens[i].op \in {")", "}"} /\ depth > 0 THEN depth - 1 ELSE depth)

IsVector(tokens) == tokens[1].op = "[" /\ Op(tokens, 2) \in {"x", "1"} /\ TokenKind(tokens, 3) = "colon"
ContainerOf(tokens) ==
  IF IsVector(tokens) THEN IF tokens[2].op = "x" THEN "letters" ELSE "numbers"
  ELSE IF tokens[1].op = "[" THEN "list"
  ELSE IF ArrowFirst(tokens, 2, 0) THEN "map" ELSE "set"

\* The label of the vector's entry behind n others.
Label(container, n) ==
  IF container = "numbers" THEN ToString(n) ELSE IF n < 4 THEN <<"x", "y", "z", "w">>[n + 1] ELSE "none"

\* An item, with its label in a vector and its key in a map; n items were before it.
ParseLabelled(tokens, label) ==
  IF Op(tokens, 1) # label \/ TokenKind(tokens, 2) # "colon" THEN Failed
  ELSE Then(ParseInline(From(tokens, 3)), LAMBDA value : [value EXCEPT !.used = @ + 2])
ParsePair(tokens) ==
  Then(ParseInline(tokens),
       LAMBDA key :
         IF TokenKind(tokens, key.used + 1) # "arrow" THEN Failed
         ELSE Then(ParseInline(From(tokens, key.used + 2)),
                   LAMBDA value : Parsed(Tree("->", <<key.tree, value.tree>>), key.used + 1 + value.used)))
ParseItem(tokens, container, n) ==
  IF container \in {"letters", "numbers"} THEN ParseLabelled(tokens, Label(container, n))
  ELSE IF container = "map" THEN ParsePair(tokens)
  ELSE ParseInline(tokens)

ParseItems(tokens, container, n) ==
  LET comma == IF Op(tokens, 1) = "," THEN 1 ELSE 0
      rest  == From(tokens, comma + 1)
  IN IF Op(rest, 1) = (IF container \in {"set", "map"} THEN "}" ELSE "]") THEN ParsedAll(<<>>, comma + 1)
     ELSE IF n > 0 /\ comma = 0 THEN Failed
     ELSE IF container = "map" /\ n = 0 /\ Op(rest, 1) = "->" /\ Op(rest, 2) = "}" THEN ParsedAll(<<>>, comma + 2)
     ELSE Then(ParseItem(rest, container, n),
               LAMBDA item : Followed([item EXCEPT !.used = @ + comma],
                                      ParseItems(From(rest, item.used + 1), container, n + 1)))

ParseContainer(tokens) ==
  LET container == ContainerOf(tokens)
      op == IF container \in {"letters", "numbers"} THEN "vector" ELSE container
  IN Then(ParseItems(Tail(tokens), container, 0), LAMBDA items : Parsed(Tree(op, items.trees), items.used + 1))

ParseOperand(tokens) ==
  IF IsInlineFunc(tokens) THEN ParseInlineFunc(tokens)
  ELSE IF tokens[1].kind \in {"name", "const"} THEN Parsed(NameOf(tokens[1].op), 1)
  ELSE IF tokens[1].op = "given" THEN ParseGiven(tokens)
  ELSE IF tokens[1].kind # "open" THEN Nothing
  ELSE IF tokens[1].op = "(" THEN ParseBracket(tokens)
  ELSE ParseContainer(tokens)

ParseAmong(tokens, operators) ==
  IF Misplaced(tokens, operators) THEN Failed
  ELSE IF Candidates(tokens, operators) = {} THEN ParseOperand(tokens)
  ELSE ParseAt(tokens, Root(tokens, Candidates(tokens, operators)))
ParseInline(tokens) == IF tokens = <<>> THEN Nothing ELSE ParseAmong(tokens, Operators(tokens))

=============================================================================
