------------------------------- MODULE Tokens -------------------------------
(***************************************************************************)
(* The tokens horsec's lexer makes (lexer.c) and what its parsers make of   *)
(* them.  The lexer tells an operator before its operand from one between  *)
(* two operands, and a call from a bracket, by the token before it.        *)
(*                                                                         *)
(* A tree is [op |-> o, kids |-> <<...>>]; a name has no kids, a call has  *)
(* the called value and its arguments, an inline function its parameters   *)
(* and its value.  A parse says how many tokens it used: 0 when there is   *)
(* no expression, -1 after an error, whose message is left out.            *)
(***************************************************************************)
EXTENDS Integers, Sequences

Literals == {"0", "1", "2"}
UnaryKeywords == {"return", "if", "async", "await", "elseif", "while", "for", "then"}
Keywords == UnaryKeywords \cup
  {"var", "const", "func", "class", "extends", "do", "rescue", "finally", "as", "import", "from", "raise",
   "break", "continue", "with", "else", "in", "given", "deprecated", "protect", "equals", "parallel", "noparallel"}

Symbols ==
  {"(", ")", "[", "]", "{", "}", ",", ":", "->", "=>", "=", "+=", ".", "*", "-", "==", "and", "or", "not", "new"}
\* An identifier is whatever else is read, but for the names trees use for what has
\* no operator.
IsName(w) == w \notin Literals \cup Keywords \cup Symbols \cup {"list", "set", "map", "vector", "end"}

NameOf(n) == [op |-> n, kids |-> <<>>]
Tree(o, kids) == [op |-> o, kids |-> kids]

From(tokens, i) == SubSeq(tokens, i, Len(tokens))
\* The first of the numbers from i to n that passes, or n.
FirstOf(i, n, Passes(_)) == CHOOSE k \in i .. n : (k = n \/ Passes(k)) /\ \A j \in i .. k - 1 : ~Passes(j)

-----------------------------------------------------------------------------
(* Tokens *)

\* What was read to the left does not end an operand.
CouldBeUnary(words, i) ==
  \/ i = 1
  \/ ~IsName(words[i - 1]) /\ words[i - 1] \notin Literals \cup {")", "]", "}"} \cup (Keywords \ UnaryKeywords)

\* "func" was the last token but for names: a bracket opens parameters.
LikelyFunc(words, i) ==
  \E j \in 1 .. i - 1 : words[j] = "func" /\ \A k \in j + 1 .. i - 1 : IsName(words[k])

Kind(words, i) ==
  LET w == words[i]
  IN CASE IsName(w) -> "name"
       [] w \in Literals -> "const"
       [] w \in Keywords -> "keyword"
       [] w \in {")", "]", "}"} -> "close"
       [] w = "{" -> "open"
       [] w = "," -> "comma"
       [] w = ":" -> "colon"
       [] w = "->" -> "arrow"
       [] w = "=>" -> "inlinefunc"
       [] w \in {"=", "+="} -> "assign"
       [] w \in {"not", "new"} -> "unary"
       [] w = "(" -> IF CouldBeUnary(words, i) \/ LikelyFunc(words, i) THEN "open" ELSE "binary"
       [] w = "[" -> IF CouldBeUnary(words, i) THEN "open" ELSE "binary"
       [] w = "-" -> IF CouldBeUnary(words, i) THEN "unary" ELSE "binary"
       [] OTHER -> "binary"

Lex(words) == [i \in DOMAIN words |-> [kind |-> Kind(words, i), op |-> words[i]]]

\* operator_PrecedenceByType. A minus sign before its operand is given the type of
\* the subtraction by the lexer, so it has that operator's precedence.
Precedence(op) ==
  CASE op \in {".", "[", "("} -> 0
    [] op = "new" -> 1
    [] op = "*" -> 6
    [] op = "-" -> 7
    [] op = "==" -> 10
    [] op = "not" -> 11
    [] op = "and" -> 12

-----------------------------------------------------------------------------
(* What the parsers look at and return *)

Op(tokens, i) == IF i \in DOMAIN tokens THEN tokens[i].op ELSE "end"
TokenKind(tokens, i) == IF i \in DOMAIN tokens THEN tokens[i].kind ELSE "end"

\* ast_TokenStartsStatementOutsideOfBrackets
NameFollows ==
  {"async", "extends", "await", "var", "const", "func", "class", "as", "rescue", "import", "if", "while",
   "for", "return", "raise"}
StartsStatement(tokens, i) ==
  /\ i > 1
  /\ \/ /\ tokens[i].kind = "name" \/ tokens[i].op = "async"
        /\ tokens[i - 1].kind \notin {"unary", "binary", "assign", "comma", "arrow", "inlinefunc"}
        /\ tokens[i - 1].op \notin NameFollows
        /\ ~(i > 2 /\ tokens[i - 1].op = "parallel" /\ tokens[i - 2].op = "async")
     \/ tokens[i].op \in {"while", "for", "func", "if", "do", "const", "import", "var", "continue", "break",
                          "return", "await", "raise"}

Nothing == [used |-> 0]
Failed == [used |-> -1]
Parsed(tree, used) == [tree |-> tree, used |-> used]
ParsedAll(trees, used) == [trees |-> trees, used |-> used]

\* What is read behind a part, unless the part is not there.
Then(part, Rest(_)) == IF part.used < 1 THEN Failed ELSE Rest(part)
\* The trees of one item after the other.
Followed(item, rest) == Then(rest, LAMBDA more : ParsedAll(<<item.tree>> \o more.trees, item.used + more.used))
=============================================================================
