------------------------------ MODULE MCLibrary ------------------------------
(***************************************************************************)
(* The small instances of the parts that work on their own: the pool       *)
(* allocator, the sorter, the lists and the check for parallel functions   *)
(* as state machines, and the algorithms that have no state between their  *)
(* calls, which are checked over all the inputs listed here.  A behaviour  *)
(* is one of one part; the others stay as they start.                      *)
(***************************************************************************)
EXTENDS PoolAlloc, ItemSort, ListBlocks, ThreadableChecker, SocketPair, NetConnect, SocketWaits,
        StatementParser, FolderTree

VARIABLES part,   \* the part this behaviour is of
          given,  \* the input of an algorithm without state, once it is chosen
          proj    \* the project that is resolved

vars == <<part, given, pool, sort, list, starved, check, pair, conn, socks, proj, disk>>

C == INSTANCE CallArguments WITH Unspecified <- "unspecified", ArgumentError <- <<"ArgumentError">>
N == INSTANCE Numbers WITH Width <- 5, Precision <- 3, Scale <- 2
T == INSTANCE SourceText
R == INSTANCE MCNames
P == INSTANCE MCProject
I == INSTANCE MCImports
F == INSTANCE MCFolders
X == INSTANCE ExpressionCode WITH Locals <- <<"x", "y">>

-----------------------------------------------------------------------------
(* Sorting: 9 cannot be compared with the other values. *)

SortInputs == UNION {[1 .. n -> 1 .. 3] : n \in 0 .. 5} \cup UNION {[1 .. n -> {1, 2, 9}] : n \in 2 .. 4}
SortComparable(a, b) == (a = 9) <=> (b = 9)
SortBelow(a, b) == a < b

-----------------------------------------------------------------------------
(* Parallel functions: every function calls one other at most; function 0 may use the
   class of its own number. *)

CheckPrograms ==
  LET funcs == 0 .. 2
      calls == {c \in [funcs -> SUBSET funcs] : \A f \in funcs : f \notin c[f] /\ Cardinality(c[f]) <= 1}
  IN {p \in [calls : calls, uses : [funcs -> SUBSET {0}], class : [funcs -> {-1, 0}],
             essential : SUBSET funcs, start : SUBSET funcs, async : {{}, {1}}] :
        /\ p.async \subseteq p.start /\ p.uses[2] = {}
        /\ \A f \in p.essential : p.class[f] # -1}
SomeProgram == CHOOSE p \in CheckPrograms : TRUE

-----------------------------------------------------------------------------
(* The random key of a pair of sockets arrives in two pieces. *)

PairKey == <<"first half", "second half">>

-----------------------------------------------------------------------------
(* Calls: the keyword arguments in any order and with any of them left out. *)

Arrangements(names) ==
  UNION {{s \in [1 .. n -> names] : Cardinality({s[i] : i \in 1 .. n}) = n} : n \in 0 .. Cardinality(names)}
CallFunctions ==
  {[pos |-> n, kw |-> k, bound |-> b] :
      n \in 0 .. 2, k \in Arrangements({4, 5, 8}), b \in {<<>>, <<"bound">>}}
CallsOf(f) ==
  {[i \in 1 .. n + Len(k) |->
      IF i <= n THEN [name |-> C!NoName, value |-> <<"argument", i>>]
      ELSE [name |-> k[i - n], value |-> <<"argument", i>>]] :
        n \in 0 .. 3, k \in Arrangements({f.kw[i] : i \in DOMAIN f.kw})}
CallDefaults(f) == [k \in DOMAIN f.kw |-> <<"default", k>>]
CallInputs ==
  UNION {{[f |-> f, call |-> c] : c \in CallsOf(f)} : f \in {g \in CallFunctions : C!DeclaredInNameOrder(g)}}

\* Every argument reaches the parameter the reference names, and parameters without
\* one get their default: the sorting of keyword arguments by the compiler and
\* their placement by CALL fit together, with and without a closure's values
\* (codegen.c:546-841, vmexec.c:2072-2460).
ArgumentsReachTheirParameters ==
  part = "call" => \A input \in given :
    C!Parameters(input.f, input.call, CallDefaults(input.f))
      = C!Documented(input.f, input.call, CallDefaults(input.f))

-----------------------------------------------------------------------------
(* Numbers *)

Doubles == {f \in (N!MinInt * 2) .. N!MaxDouble : N!Rounded(f, 1) = f}
NumberInputs ==
  LET numbers == {N!Whole(v) : v \in N!MinInt .. N!MaxInt} \cup {N!Fraction(f) : f \in Doubles}
  IN {[op |-> o, a |-> a, b |-> b] : o \in {"+", "-", "*", "/", "%"}, a \in numbers, b \in numbers}
Amount(x) == IF x.type = "int" THEN 2 * x.v ELSE x.v

\* Operations of two integers give the exact integer or an error when that is none, and a
\* division that leaves a rest gives the double on its side of the result.
Exact(op, a, b, results) ==
  IF op \in {"/", "%"} /\ b = 0 THEN results = {N!MathError}
  ELSE IF op = "/" /\ a % N!Abs(b) # 0
    THEN \A r \in results : N!IsNumber(r) /\ N!Abs(Amount(r) * b - a * 2) < N!Abs(b) * 2
  ELSE results = {N!ExactInteger(op, a, b)}

\* "Avoid unexpected jumps in the opposite direction of the operation" (:364): adding or
\* subtracting never moves a number against the sign of what is added. Two kinds of
\* subtraction do so in the code: of an integer from a double, whose limit is the wrong
\* operand (:380-394), and of a double from an integer when the result is 2^63, which
\* clamped_round hides from the comparison (:368-378).
LimitsWrongOperand(op, a, b) == op = "-" /\ a.type = "float" /\ b.type = "int"
ClampHidesTheJump(op, a, b, r) ==
  op = "-" /\ a.type = "int" /\ b.type = "float" /\ Amount(r) = N!MaxDouble
KeepsItsDirection(op, a, b, r) ==
  LET Moves(x, by) == (by > 0 => Amount(r) >= Amount(x)) /\ (by < 0 => Amount(r) <= Amount(x))
  IN /\ op = "+" => Moves(a, b.v) /\ Moves(b, a.v)
     /\ op = "-" => Moves(a, -b.v)

\* Integers stay exact, and sums and differences keep their direction however the double
\* in between was rounded, but for the two kinds of subtraction above and the operands the
\* division instruction traps on (vmexec_inst_unopbinop_INCLUDE.c:56-525,
\* docs/Specification/Horse64.md:684-700).
IntegersAreExact ==
  part = "numbers" => \A input \in given :
    LET results == N!Apply(input.op, input.a, input.b)
    IN /\ input.a.type = "int" /\ input.b.type = "int" /\ ~N!Traps(input.op, input.a.v, input.b.v) =>
            Exact(input.op, input.a.v, input.b.v, results)
       /\ \A r \in results : \/ ~N!IsNumber(r)
                             \/ LimitsWrongOperand(input.op, input.a, input.b)
                             \/ ClampHidesTheJump(input.op, input.a, input.b, r)
                             \/ KeepsItsDirection(input.op, input.a, input.b, r)

-----------------------------------------------------------------------------
(* Expressions: every operation on operands that are operations themselves. *)

Var(v) == [k |-> "var", v |-> v]
Failure == [k |-> "fail"]
Ops(A, B) ==
  [k : {"plus", "equal", "and", "or"}, a : A, b : B]
  \cup [k : {"list", "call"}, items : {<<a, b>> : a \in A, b \in B}]
Over(A) ==
  Ops(A, A) \cup [k : {"not"}, a : A] \cup [k : {"given"}, a : A, b : A, c : A]
  \cup [k : {"list"}, items : {<<a>> : a \in A}]
Leaves == {Var("x"), Var("y"), Var("g"), [k |-> "const", c |-> X!True], Failure}
Expressions ==
  LET inner == Over({Var("x"), Var("g")})
      side  == {Var("x"), Failure}
  IN Leaves \cup Over(Leaves) \cup Ops(inner, side) \cup Ops(side, inner)
     \cup [k : {"not"}, a : inner] \cup [k : {"given"}, a : inner, b : side, c : side]
     \cup [k : {"given"}, a : {Var("x")}, b : inner, c : side]
     \cup [k : {"given"}, a : {Var("x")}, b : side, c : inner]
ExpressionInputs ==
  {[to |-> x, op |-> o, e |-> e, inloop |-> l] :
      x \in {"x", "g"}, o \in {"=", "+="}, e \in Expressions, l \in BOOLEAN}

\* The machine has stopped at end, documented is what the reference expects.
StoppedAs(end, documented, to, env) ==
  LET Now(v) == IF v = "g" THEN end.g ELSE end.slots[X!Slot(v)]
  IN IF X!Fails(documented)
     THEN end.error = documented[1] /\ \A v \in DOMAIN env \ {to} : Now(v) = env[v]
     ELSE end.error = "" /\ \A v \in DOMAIN env : Now(v) = documented[v]
MeansTheSame(code, to, op, e) ==
  \A env \in [{"x", "y", "g"} -> {X!True, X!False, X!Num(1)}] :
    StoppedAs(X!Run(X!Start(env), code), X!Assigned(to, op, e, env), to, env)

\* The code of an assignment gives the variable the value its expression has when it
\* is read from left to right, changes no other variable, and fails with the error
\* the reading meets first: values in temporaries, in variables and in the slot the
\* statement wants do not overwrite each other (codegen.c:87-225, 1231-2865).
CompiledExpressionsMean ==
  part = "expression" => \A input \in given : ~X!ListHoldsItself(input.to, input.op, input.e) =>
    MeansTheSame(X!GenAssign(input.to, input.op, input.e, input.inloop), input.to, input.op, input.e)

-----------------------------------------------------------------------------
(* Parsing of expressions *)

A == NameOf("a")
TreesOf(Left, Right) ==
  {Tree(o, <<a, b>>) : o \in {"*", "-", "==", "and", "[", "("}, a \in Left, b \in Right}
  \cup {Tree(".", <<a, NameOf("b")>>) : a \in Left} \cup {Tree("(", <<a>>) : a \in Left}
  \cup {Tree(o, <<b>>) : o \in {"-", "not"}, b \in Right}
OperatorTrees ==
  LET name  == {A}
      small == name \cup TreesOf(name, name)
      left  == TreesOf(small, name)
  IN small \cup TreesOf(small, small) \cup {Tree("(", <<a, b, a>>) : a \in small, b \in name}
     \cup {Tree(o, <<a, A>>) : o \in {"*", "-", "("}, a \in left}
     \cup {Tree(o, <<A, b>>) : o \in {"*", "-", "and"}, b \in left}

\* What an operator, a call or a container can be inside of.
Around(v) ==
  {Tree("list", <<v>>), Tree("list", <<A, v>>), Tree("list", <<v, A>>), Tree("set", <<v, A>>),
   Tree("vector", <<v, A>>), Tree("map", <<Tree("->", <<A, v>>)>>),
   Tree("map", <<Tree("->", <<v, A>>)>>), Tree("map", <<Tree("->", <<A, v>>), Tree("->", <<v, A>>)>>),
   Tree("=>", <<Tree("=", <<NameOf("b"), v>>), A>>),
   Tree("=>", <<A, v>>), Tree("=>", <<A, NameOf("b"), v>>), Tree("=>", <<v>>),
   Tree("=>", <<Tree("=", <<NameOf("b"), A>>), v>>), Tree("new", <<Tree("(", <<A, v>>)>>),
   Tree("given", <<v, A, A>>), Tree("given", <<A, v, A>>), Tree("given", <<A, A, v>>),
   Tree("(", <<A, Tree("=", <<NameOf("b"), v>>)>>), Tree("(", <<A, v, A>>), Tree("[", <<A, v>>),
   Tree("-", <<A, v>>), Tree("not", <<v>>)}
Values1 ==
  UNION {Around(v) : v \in {A, NameOf("0"), Tree("-", <<A, A>>), Tree("(", <<A>>), Tree("[", <<A, A>>)}}
    \cup {Tree("list", <<>>), Tree("set", <<>>), NameOf("0")}
ContainerTrees ==
  Values1 \cup UNION {Around(v) : v \in Around(A) \cup Around(Tree("-", <<A, A>>)) \cup {Tree("set", <<>>)}}

\* What the parser does not read as it is written: a minus sign in front of a product
\* is applied to the product, not to its first factor; a bracket behind "given" is
\* taken for an index or a call, and so is one behind "else"; the search for the end
\* of an inline function's parameters does not count the brackets of calls and
\* indexing, and that for a map's first arrow neither those nor the end of a list; an
\* empty set as a key is taken for an empty map.
RECURSIVE Mentions(_, _)
Mentions(t, ops) == t.op \in ops \/ \E i \in DOMAIN t.kids : Mentions(t.kids[i], ops)
RECURSIVE Misread(_)
Misread(t) ==
  \/ t.op = "*" /\ T!IsMinus(t.kids[1])
  \/ t.op = "given" /\ T!Written(t.kids[1])[1] \in {"(", "[", "-"}
  \/ t.op = "given" /\ T!Written(t.kids[3])[1] # "a" /\ Len(T!Written(t.kids[3])) > 1
  \/ t.op = "=>" /\ \E i \in 1 .. Len(t.kids) - 1 : Mentions(t.kids[i], {"(", "["})
  \/ t.op = "map" /\ Mentions(t.kids[1].kids[1], {"(", "list", "vector"})
  \/ t.op = "->" /\ t.kids[1] = Tree("set", <<>>)
  \/ \E i \in DOMAIN t.kids : Misread(t.kids[i])

\* An expression is read as the tree it was written from: with the operator applied
\* last at its root, operators of the same precedence from left to right, containers
\* and inline functions with all they hold, and nothing left over
\* (astparser.c:373-2916, lexer.c:562-592).
ExpressionsAreReadAsWritten ==
  part = "parser" => \A input \in given : ~Misread(input) =>
    ParseInline(Lex(T!Written(input))) = Parsed(input, Len(T!Written(input)))

-----------------------------------------------------------------------------
(* Parsing of files *)

B == NameOf("b")
Value == Tree("[", <<A, NameOf("0")>>)
Calling == Tree("(", <<A, B>>)
AVar(name, marks, value) == [k |-> "var", word |-> "var", name |-> name, marks |-> marks, value |-> value]
AFunc(name, params, body) == [k |-> "func", name |-> name, params |-> params, marks |-> {}, body |-> body]
AnAssignment(op) == [k |-> "assign", to |-> Tree(".", <<A, B>>), op |-> op, value |-> Value]
SimpleStatements ==
  {AVar("b", {}, <<>>), AVar("b", {"protect"}, <<Value>>), AVar("p", {}, <<Calling>>),
   [AVar("c", {}, <<Value>>) EXCEPT !.word = "const"], AVar("self", {}, <<>>),
   AFunc("b", <<>>, <<>>), AFunc("b", <<NameOf("q")>>, <<AVar("p", {}, <<>>)>>),
   AnAssignment("="), AnAssignment("+="), [k |-> "call", call |-> Calling],
   [k |-> "return", value |-> <<Value>>], [k |-> "raise", value |-> <<Calling>>],
   [k |-> "await", value |-> <<A>>], [k |-> "async", value |-> <<Calling>>],
   [k |-> "break"], [k |-> "continue"]}
BlocksOf(bodies, other) ==
  [k : {"for"}, name : {"b", "p"}, over : {Value}, body : bodies]
  \cup {[k |-> w, clauses |-> <<[condition |-> <<Calling>>, body |-> s]>>] : w \in {"if", "while"}, s \in bodies}
  \cup {[k |-> "if", clauses |-> <<[condition |-> <<A>>, body |-> other], [condition |-> <<Value>>, body |-> s],
                                   [condition |-> <<>>, body |-> s]>>] : s \in bodies}
  \cup {[k |-> "do", body |-> other, rescue |-> <<[errors |-> <<A, Value>>, as |-> n, body |-> s]>>,
         finally |-> f] : n \in {<<>>, <<"b">>}, s \in bodies, f \in {<<>>, <<other>>}}
  \cup {[k |-> "do", body |-> s, rescue |-> <<>>, finally |-> <<other>>] : s \in bodies}
  \cup {[k |-> "with", clauses |-> <<Tree("as", <<Calling, NameOf("x")>>)>>, body |-> other]}
SmallBlocks == BlocksOf({<<>>}, <<AnAssignment("=")>>)
Statements ==
  LET inner == {<<>>, <<AVar("b", {}, <<>>)>>, <<AVar("p", {}, <<Value>>)>>}
      blocks == BlocksOf(inner, <<AnAssignment("=")>>)
  IN SimpleStatements \cup blocks
     \cup BlocksOf({<<b, AVar("b", {}, <<>>)>> : b \in BlocksOf({<<>>}, <<>>)}, <<>>)
ImportOf(path, from, as) == [k |-> "import", path |-> path, from |-> from, as |-> as]
TopStatements ==
  {ImportOf(<<"m", "a">>, <<>>, <<>>), ImportOf(<<"m", "b">>, <<"x">>, <<>>), ImportOf(<<"a">>, <<>>, <<"m">>),
   AVar("m", {}, <<Value>>), AVar("c", {"equals"}, <<>>), AFunc("c", <<NameOf("p")>>, <<>>)}
  \cup {[k |-> "class", name |-> "c", base |-> e, marks |-> {"parallel"}, vars |-> v, funcs |-> f] :
          e \in {<<>>, <<Tree(".", <<A, B>>)>>}, v \in {<<>>, <<AVar("b", {}, <<Value>>)>>},
          f \in {<<>>, <<AFunc("b", <<NameOf("p")>>, <<AnAssignment("=")>>)>>}}
FileOf(body) == <<AFunc("f", <<NameOf("p"), Tree("=", <<NameOf("q"), Value>>)>>, body)>>

\* "class" is not among the words the search for an operator stops at: the operators
\* of a value are looked for in the base of the class behind it.
HidesClass(a, b) ==
  /\ b.k = "class" /\ b.base # <<>>
  /\ (a.k = "var" /\ a.value # <<>>) \/ (a.k = "class" /\ a.base # <<>>)
Files ==
  {FileOf(<<a, b>>) : a \in {s \in SimpleStatements : s.k \in {"var", "func", "assign", "call"}},
                      b \in SimpleStatements \cup SmallBlocks}
  \cup {FileOf(<<a>>) : a \in Statements}
  \cup UNION {{<<a, b>> : b \in {t \in TopStatements : ~HidesClass(a, t)}} : a \in TopStatements}

\* Without its callee or its only argument a call is still a value, and without its
\* only parameter a function has an empty list: these are written in another way.
Droppable(words) ==
  {i \in DOMAIN words : i < Len(words) => /\ words[i + 1] # "("
                                          /\ i > 1 /\ words[i - 1] = "(" => words[i + 1] # ")"}
WithoutWord(words, i) == SubSeq(words, 1, i - 1) \o SubSeq(words, i + 1, Len(words))
Broken(file) ==
  LET words == T!WrittenStatements(file) IN {[file |-> file, words |-> WithoutWord(words, i)] : i \in Droppable(words)}
FileInputs ==
  {[file |-> f, words |-> T!WrittenStatements(f)] : f \in Files}
  \cup UNION {Broken(FileOf(<<a>>)) : a \in SimpleStatements \cup SmallBlocks} \cup UNION {Broken(<<a>>) : a \in TopStatements}

ReadAsWritten(read, file, words) ==
  IF words = T!WrittenStatements(file)
  THEN read.stmts = file /\ (read.errors = <<>> <=> ~T!NamesClash(file))
  ELSE read.errors = <<>> => T!WrittenStatements(read.stmts) = words

\* A file is read as the statements it was written from, each in the block it was
\* written in, with an error exactly when names clash; and when a word is missing
\* there is an error, or what was read holds every word that is left: going on behind
\* an error never drops a statement in silence (astparser.c:205-6020, scope.c:74-235).
FilesAreReadAsWritten ==
  part = "file" => \A input \in given : ReadAsWritten(ParseFile(input.words), input.file, input.words)

-----------------------------------------------------------------------------
(* Names *)

\* Every value a function keeps has a slot of its own; a use of a name of the function
\* itself reads the slot of the definition it stands for, and one of any other name is a
\* global exactly when no function owns it; a closure binds the variables used in it that
\* are another function's, though not that one's parameters, iterators and labels; and a
\* reference to another file is to the import that says most of it. A compiler with
\* assertions stops at a nested function that uses its own variable, and at nothing else
\* (scoperesolver.c:729-1458, varstorage.c:21-437).
NamesReachTheirStorage ==
  /\ part = "names" => \A input \in given : R!NamesOfTableResolve(input)
  /\ part = "reference" => \A input \in given : R!ReferenceIsLongest(input.chain, input.imports)

-----------------------------------------------------------------------------
(* Projects *)

\* In whatever order the files of a project are resolved, a name refers to the item it
\* names; code is generated only when all files the main file needs were found, entered
\* and resolved without an error, and there is an error only when something is wrong in
\* one of them. Excepted are references below the imports of the main file: they may lack
\* storage or stop the compiler (compileproject.c:317-458, 1802-1993,
\* scoperesolver.c:92-633, 1472-2345, bytecode.c:309-450, 799-1315).
ProjectIsResolved == part = "project" => P!ProjectHolds

\* An import stands for the file of the module it names, wherever the project lies and
\* however its path is written: normalising, joining and making a path relative never
\* lead to another place, apart from the cases listed in MCImports.  That imports without
\* a library and modules that are only packed are found at all is not claimed, as they
\* are not (compileproject.c:120-1800, scoperesolver.c:1493-1699, filesys32.c:1160-3377).
ImportsAreFound == part = "import" => \A input \in given : I!ImportsHold(input)

-----------------------------------------------------------------------------
(* All parts *)

InputsOf(name) ==
  CASE name = "call" -> CallInputs
    [] name = "numbers" -> NumberInputs
    [] name = "expression" -> ExpressionInputs
    [] name = "parser" -> OperatorTrees \cup ContainerTrees
    [] name = "file" -> FileInputs
    [] name = "names" -> R!NameTables
    [] name = "reference" -> R!ReferenceInputs
    [] name = "import" -> I!ImportInputs
StatelessParts == {"names", "reference", "import", "file", "call", "numbers", "expression", "parser"}

Init ==
  /\ part \in StatelessParts \cup {"pool", "sort", "list", "check", "pair", "connect", "waits", "project", "folders"}
  /\ given = {}
  /\ PoolInit
  /\ ListInit
  /\ PairInit
  /\ SocksInit
  /\ IF part = "sort" THEN SortInit ELSE sort = SortOf(<<>>)
  /\ IF part = "check" THEN CheckInit ELSE check = CheckOf(SomeProgram)
  /\ IF part = "connect" THEN ConnectInit ELSE conn = ConnOf({}, FALSE)
  /\ IF part = "project" THEN P!ProjectInit ELSE proj = P!NewProject(P!SomeProject)
  /\ IF part = "folders" THEN F!DiskInit ELSE disk = NewDisk(F!Empty, {}, 0, <<>>)

ChooseInput ==
  /\ part \in StatelessParts /\ given = {}
  /\ \E input \in InputsOf(part) : given' = {input}
  /\ UNCHANGED <<part, pool, sort, listVars, check, pair, conn, socks, proj, disk>>

Next ==
  \/ ChooseInput
  \/ part = "pool" /\ PoolNext /\ UNCHANGED <<part, given, sort, listVars, check, pair, conn, socks, proj, disk>>
  \/ part = "sort" /\ SortNext /\ UNCHANGED <<part, given, pool, listVars, check, pair, conn, socks, proj, disk>>
  \/ part = "list" /\ ListNext /\ UNCHANGED <<part, given, pool, sort, check, pair, conn, socks, proj, disk>>
  \/ part = "check" /\ CheckNext /\ UNCHANGED <<part, given, pool, sort, listVars, pair, conn, socks, proj, disk>>
  \/ part = "pair" /\ PairNext /\ UNCHANGED <<part, given, pool, sort, listVars, check, conn, socks, proj, disk>>
  \/ part = "connect" /\ ConnectNext /\ UNCHANGED <<part, given, pool, sort, listVars, check, pair, socks, proj, disk>>
  \/ part = "waits" /\ SocksNext /\ UNCHANGED <<part, given, pool, sort, listVars, check, pair, conn, proj, disk>>
  \/ part = "project" /\ P!ProjectNext /\ UNCHANGED <<part, given, pool, sort, listVars, check, pair, conn, socks, disk>>
  \/ part = "folders" /\ DiskNext /\ UNCHANGED <<part, given, pool, sort, listVars, check, pair, conn, socks, proj>>

Spec == Init /\ [][Next]_vars
=============================================================================
