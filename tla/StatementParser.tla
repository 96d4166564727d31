--------------------------- MODULE StatementParser ---------------------------
(***************************************************************************)
(* How horsec reads a file (astparser.c): one statement after the other,   *)
(* with blocks inside, declaring names in the scope the statement is in,   *)
(* and going on at the next statement after an error.                      *)
(*                                                                         *)
(* A parser is given the rest of the file from its first token on.  Its    *)
(* result says how many tokens it used, 0 when no statement begins there   *)
(* and -1 after an error, with the statement and with env: the scopes      *)
(* around it, the innermost last, the kinds of error reported so far, and  *)
(* the number of tokens of the file.  Where a part of a statement may be   *)
(* missing it is a sequence of one or none.  Warnings are left out.        *)
(***************************************************************************)
EXTENDS ExpressionParser, SequencesExt

Ok(stmt, used, env) == [used |-> used, stmt |-> stmt, env |-> env]
NoStatement(env) == [used |-> 0, env |-> env]
Fail(env) == [used |-> -1, env |-> env]

-----------------------------------------------------------------------------
(* Scopes *)

Scope(class, level, names) == [class |-> class, level |-> level, names |-> names]
NoNames == [n \in {} |-> {}]
Top(env) == Last(env.scopes)
Push(env, scope) == [env EXCEPT !.scopes = Append(@, scope)]
Pop(env) == [env EXCEPT !.scopes = Front(@)]
InnerScopeAtLevel0(env, names) == Scope(FALSE, 0, names)
InnerScope(env, names) == Scope(FALSE, Top(env).level, names)
Report(env, kind) == [env EXCEPT !.errors = Append(@, kind)]

\* A declaration: the paths of imports, whether a function declares the name as a
\* parameter, and whether it is a name of its own, not just a parameter.
NameEntry(paths, param, own) == [paths |-> paths, param |-> param, own |-> own]
Plain == NameEntry({}, FALSE, TRUE)

\* ast_CanAddNameToScopeCheck: what stands against a name in the innermost scope.
Objection(env, name, paths) ==
  LET here  == Top(env).names
      homes == {i \in DOMAIN env.scopes : ~env.scopes[i].class /\ name \in DOMAIN env.scopes[i].names}
      home  == env.scopes[Max(homes)]
  IN IF name \in {"self", "base"} THEN "reserved"
     ELSE IF name \in DOMAIN here /\ here[name].own THEN
       IF paths # {} /\ here[name].paths # {} /\ paths \cap here[name].paths = {} THEN "none" ELSE "duplicate"
     ELSE IF homes # {} /\ home.names[name].param /\ home.level = Top(env).level THEN "parameter"
     ELSE "none"
ReportUnlessNone(objection, env) == IF objection = "none" THEN env ELSE Report(env, objection)
Checked(env, name, paths) == ReportUnlessNone(Objection(env, name, paths), env)

With(names, name, entry) ==
  [n \in DOMAIN names \cup {name} |->
     IF n # name THEN names[n]
     ELSE IF name \in DOMAIN names THEN [names[n] EXCEPT !.paths = @ \cup entry.paths] ELSE entry]
\* Names go to the innermost scope, or are left undeclared.
DeclareUnless(objection, env, name, entry) ==
  IF objection = "none" THEN [env EXCEPT !.scopes[Len(env.scopes)].names = With(@, name, entry)]
  ELSE Report(env, objection)
Declare(env, name, entry) == DeclareUnless(Objection(env, name, entry.paths), env, name, entry)
\* Names of an inner scope are checked against the one around it.
NamesOfInner(env, name) ==
  IF Objection(env, name, {}) = "none" THEN With(NoNames, name, Plain) ELSE NoNames

\* scope_RemoveItem goes by the name, whoever declared it.
Undeclare(env, name) ==
  [env EXCEPT !.scopes[Len(env.scopes)].names = [n \in DOMAIN @ \ {name} |-> @[n]]]

-----------------------------------------------------------------------------
(* Going on after an error *)

\* The depth in brackets of a token as the recovery counts it, never below 0: call
\* and index brackets count when they close only.
DepthFrom(t, first, i) ==
  FoldLeft(LAMBDA depth, k : IF t[k].kind = "open" THEN depth + 1
                             ELSE IF t[k].kind = "close" /\ depth > 0 THEN depth - 1 ELSE depth,
           0, [n \in 1 .. i - first |-> first + n - 1])

\* ast_ParseRecover_FindNextStatement: the token where the next statement is taken
\* to begin, from token first on.
SureStarts ==
  {"await", "raise", "while", "do", "if", "for", "class", "func", "const", "var", "continue", "break", "return"}
FindNext(t, first, env) ==
  LET Outside(i) == DepthFrom(t, first, i) = 0
      Closed(i) == t[i].kind = "close" /\ DepthFrom(t, first, i + 1) = 0 /\ t[i].op # "]"
      Starts(i) == t[i].kind # "close" /\ t[i].kind # "open" /\ i > first
                     /\ ((StartsStatement(t, i) /\ Outside(i)) \/ t[i].op \in SureStarts)
      AfterClose(i) == i > first /\ Closed(i - 1) /\ (t[i].kind = "name" \/ t[i].op = "}")
      AfterValue(i) == i > first /\ t[i - 1].kind \in {"name", "const"} /\ Outside(i - 1)
                         /\ t[i].kind = "name" /\ i < env.total
  IN IF first > Len(t) THEN first
     ELSE FirstOf(first, Len(t) + 1, LAMBDA i : Starts(i) \/ AfterClose(i) \/ AfterValue(i))

-----------------------------------------------------------------------------
(* Blocks *)

RECURSIVE ParseStatement(_, _, _), ParseBody(_, _, _, _, _), ParseOnFrom(_, _, _, _, _),
          ParseBehind(_, _, _, _, _, _), ParseBlock(_, _, _, _),
          ParseFunc(_, _, _), ParseClass(_, _, _), ParseDo(_, _, _), ParseRescue(_, _, _), ParseFinally(_, _, _),
          ParseWith(_, _, _), ParseFor(_, _, _), ParseClauses(_, _, _), ParseIfOrWhile(_, _, _)

Block(stmts, used, env) == [used |-> used, stmts |-> stmts, env |-> env]

\* Neither a statement nor the end of the block was found: next is where the next
\* statement seems to begin.
ParseOnFrom(t, next, mode, env, stmts) ==
  IF Op(t, next) = "}" THEN Block(stmts, next, env)
  ELSE IF next > Len(t) THEN Block(stmts, Len(t), env)
  ELSE ParseBody(t, next, mode, env, stmts)

\* s is what was read at token i.
ParseBehind(s, t, i, mode, env, stmts) ==
  IF s.used > 0 THEN ParseBody(t, i + s.used, mode, s.env, Append(stmts, s.stmt))
  ELSE IF s.used = -1 THEN ParseBody(t, FindNext(t, i, env), mode, s.env, stmts)
  ELSE ParseOnFrom(t, FindNext(t, i, env), mode, Report(s.env, "statement or end"), stmts)

ParseBody(t, i, mode, env, stmts) ==
  IF i > Len(t) THEN ParseOnFrom(t, i, mode, Report(env, "statement or end"), stmts)
  ELSE IF t[i].op = "}" THEN Block(stmts, i, env)
  ELSE ParseBehind(ParseStatement(From(t, i), mode, env), t, i, mode, env, stmts)

\* Where the body begins when the opening bracket is not where it should be.
BodyStart(t) ==
  LET k == FirstOf(1, Len(t) + 1, LAMBDA i : t[i].kind \in {"open", "close", "keyword"})
  IN CASE Op(t, k) = "{" -> k + 1
       [] Op(t, k) \in {"while", "do", "with", "if", "async"} -> k
       [] OTHER -> 0

\* ast_ParseCodeBlock in a scope of its own.
ParseBlock(t, mode, env, scope) ==
  LET found == IF Op(t, 1) = "{" THEN env ELSE Report(env, "block")
  IN IF BodyStart(t) = 0 THEN Fail(found)
     ELSE [ParseBody(t, BodyStart(t), mode, Push(found, scope), <<>>) EXCEPT !.env = Pop(@)]

\* The statement that has the block and what came before it.
WithBlock(body, before, Stmt(_)) ==
  IF body.used < 1 THEN Fail(body.env) ELSE Ok(Stmt(body.stmts), before + body.used, body.env)
\* A name that was declared before the block goes when there is no block.
OrUndeclare(result, name) == IF result.used < 1 THEN Fail(Undeclare(result.env, name)) ELSE result

-----------------------------------------------------------------------------
(* Declarations *)

\* The first token behind the marks, which may be required to differ.
MarksEnd(t, first, marks, differ) ==
  FirstOf(first, Len(t) + 1,
          LAMBDA i : t[i].op \notin marks \/ (differ /\ \E k \in first .. i - 1 : t[k].op = t[i].op))
Marks(t, first, end) == {t[i].op : i \in first .. end - 1}
Unless(wrong, env, kind) == IF wrong THEN Report(env, kind) ELSE env

\* A wrong or missing value is left out, and reading goes on behind it.
ReadVar(head, value, used, env) == Ok([head EXCEPT !.value = value], used, env)
VarOf(t, end, head, value, env) ==
  IF value.used = -1 THEN ReadVar(head, <<>>, end, Report(env, "expression"))
  ELSE IF value.used = 0 THEN ReadVar(head, <<>>, FindNext(t, end + 1, env) - 1, Report(env, "expression"))
  ELSE ReadVar(head, <<value.tree>>, end + value.used, env)
ParseVar(t, env) ==
  LET name  == t[2].op
      end   == MarksEnd(t, 3, {"deprecated", "protect", "equals"}, FALSE)
      marks == Marks(t, 3, end)
      wrong == "protect" \in marks /\ ("equals" \in marks \/ t[1].op = "const")
      marked == Unless(wrong, Declare(env, name, Plain), "marks")
      head  == [k |-> "var", word |-> t[1].op, name |-> name, marks |-> marks, value |-> <<>>]
  IN IF TokenKind(t, 2) # "name" THEN Fail(Report(env, "name"))
     ELSE IF TokenKind(t, end) # "assign" THEN ReadVar(head, <<>>, end - 1, marked)
     ELSE IF t[end].op # "=" THEN ReadVar(head, <<>>, FindNext(t, end, env) - 1, Report(marked, "assignment"))
     ELSE VarOf(t, end, head, ParseInline(From(t, end + 1)), marked)

FuncMode(mode) == IF mode \in {"class", "classfunc"} THEN "classfunc" ELSE "func"
ParamName(tree) == IF tree.op = "=" THEN tree.kids[1].op ELSE tree.op
FuncOf(t, first, args, mode, env) ==
  LET name   == t[2].op
      params == {ParamName(args[i]) : i \in DOMAIN args}
      end    == MarksEnd(t, first, {"parallel", "noparallel", "deprecated"}, TRUE)
      marks  == Marks(t, first, end)
      declared == Declare(env, name, NameEntry({}, name \in params, TRUE))
      checked == Unless({"parallel", "noparallel"} \subseteq marks, declared, "marks")
      scope  == Scope(FALSE, Top(env).level + 1, [p \in params |-> NameEntry({}, TRUE, p = name)])
  IN OrUndeclare(WithBlock(ParseBlock(From(t, end), FuncMode(mode), checked, scope), end - 1,
       LAMBDA body : [k |-> "func", name |-> name, params |-> args, marks |-> marks, body |-> body]), name)
FuncBehind(args, t, mode, env) ==
  IF args.used = -1 THEN Fail(Undeclare(Report(Declare(env, t[2].op, Plain), "parameters"), t[2].op))
  ELSE FuncOf(t, 4 + args.used, args.trees, mode, env)
ParseFunc(t, mode, env) ==
  IF TokenKind(t, 2) # "name" THEN Fail(Report(env, "name"))
  ELSE IF TokenKind(t, 3) = "open" /\ Op(t, 3) = "(" THEN FuncBehind(ParseParameters(From(t, 4)), t, mode, env)
  ELSE FuncOf(t, 3, <<>>, mode, env)

\* ast_CanBeClassRef
RECURSIVE CanBeClassRef(_)
CanBeClassRef(tree) ==
  \/ tree.kids = <<>> /\ IsName(tree.op)
  \/ tree.op = "." /\ Len(tree.kids) = 2 /\ CanBeClassRef(tree.kids[1]) /\ IsName(tree.kids[2].op)

OfKind(stmts, k) == SelectSeq(stmts, LAMBDA s : s.k = k)
ClassOf(body, name, base, marks, before) ==
  LET others == body.used > 0 /\ \E i \in DOMAIN body.stmts : body.stmts[i].k \notin {"var", "func"}
  IN WithBlock([body EXCEPT !.env = Unless(others, @, "assertion")], before,
       LAMBDA s : [k |-> "class", name |-> name, base |-> base, marks |-> marks,
                   vars |-> OfKind(s, "var"), funcs |-> OfKind(s, "func")])
ClassBehind(t, first, base, env) ==
  LET end   == MarksEnd(t, first, {"deprecated", "parallel", "noparallel"}, TRUE)
      scope == Scope(TRUE, Top(env).level + 1, NoNames)
  IN OrUndeclare(ClassOf(ParseBlock(From(t, end), "class", Declare(env, t[2].op, Plain), scope), t[2].op, base,
                         Marks(t, first, end), end - 1), t[2].op)
ExtendingClass(base, t, env) ==
  IF base.used >= 1 /\ CanBeClassRef(base.tree) THEN ClassBehind(t, 4 + base.used, <<base.tree>>, env)
  ELSE Fail(Undeclare(Report(Declare(env, t[2].op, Plain), "base"), t[2].op))
ParseClass(t, mode, env) ==
  IF mode # "top" THEN Fail(Report(env, "place"))
  ELSE IF TokenKind(t, 2) # "name" THEN Fail(Report(env, "name"))
  ELSE IF Op(t, 3) = "extends" THEN ExtendingClass(ParseInline(From(t, 4)), t, env)
  ELSE ClassBehind(t, 3, <<>>, env)

ParseImport(t, mode, env) ==
  LET dots  == FirstOf(3, Len(t) + 2, LAMBDA i : i % 2 = 1 /\ Op(t, i) # ".")
      named == \A i \in 2 .. dots - 1 : i % 2 = 0 => TokenKind(t, i) = "name"
      path  == [i \in 1 .. (dots - 1) \div 2 |-> Op(t, 2 * i)]
      from  == Op(t, dots) = "from"
      as    == IF from THEN dots + 2 ELSE dots
      renamed == Op(t, as) = "as"
      name  == IF renamed THEN t[as + 1].op ELSE path[1]
      placed == Unless(mode # "top", env, "place")
  IN IF ~named \/ (from /\ TokenKind(t, dots + 1) # "name") \/ (renamed /\ TokenKind(t, as + 1) # "name")
     THEN Fail(Report(placed, "name"))
     ELSE Ok([k |-> "import", path |-> path, from |-> IF from THEN <<t[dots + 1].op>> ELSE <<>>,
              as |-> IF renamed THEN <<name>> ELSE <<>>],
             IF renamed THEN as + 1 ELSE as - 1,
             IF mode = "top" THEN Declare(env, name, NameEntry({path}, FALSE, TRUE)) ELSE placed)

-----------------------------------------------------------------------------
(* Statements with blocks *)

\* The errors a rescue clause names.
RECURSIVE ParseErrors(_)
ParseErrors(t) ==
  Then(ParseInline(t),
       LAMBDA first :
         IF Op(t, first.used + 1) # "," THEN ParsedAll(<<first.tree>>, first.used)
         ELSE Followed([first EXCEPT !.used = @ + 1], ParseErrors(From(t, first.used + 2))))

\* What is read behind an expression, or an error where there is none.
Behind(value, env, kind, Rest(_)) == IF value.used < 1 THEN Fail(Report(env, kind)) ELSE Rest(value)

\* errors as name body, or without a name.
RescueOf(t, errors, as, start, mode, env) ==
  LET named == as # <<>>
      checked == IF named THEN Checked(env, as[1], {}) ELSE env
      scope  == InnerScope(env, IF named THEN NamesOfInner(env, as[1]) ELSE NoNames)
  IN WithBlock(ParseBlock(From(t, start), mode, checked, scope), start - 1,
               LAMBDA body : <<[errors |-> errors, as |-> as, body |-> body]>>)
ParseRescue(t, mode, env) ==
  Behind(ParseErrors(Tail(t)), env, "expression",
    LAMBDA errors :
      LET next == errors.used + 2
      IN IF Op(t, next) = "as" /\ TokenKind(t, next + 1) # "name" THEN Fail(Report(env, "name"))
         ELSE IF Op(t, next) = "as" THEN RescueOf(t, errors.trees, <<t[next + 1].op>>, next + 2, mode, env)
         ELSE IF Op(t, next) = "{" THEN RescueOf(t, errors.trees, <<>>, next, mode, env)
         ELSE Fail(Report(env, "rescue")))

ParseFinally(t, mode, env) ==
  WithBlock(ParseBlock(Tail(t), mode, env, InnerScope(env, NoNames)), 1, LAMBDA body : <<body>>)

\* A clause that is there when its keyword is.
Optional(t, word, Parse(_, _, _), mode, env) ==
  IF Op(t, 1) = word THEN Parse(t, mode, env) ELSE Ok(<<>>, 0, env)

DoOf(body, rescue, finally) ==
  IF finally.used = -1 THEN finally
  ELSE Ok([k |-> "do", body |-> body.stmts, rescue |-> rescue.stmt, finally |-> finally.stmt],
          1 + body.used + rescue.used + finally.used, finally.env)
ParseDoFinally(t, mode, body, rescue) ==
  IF rescue.used = -1 THEN rescue
  ELSE DoOf(body, rescue, Optional(From(t, 2 + body.used + rescue.used), "finally", ParseFinally, mode, rescue.env))
ParseDoRescue(t, mode, body) ==
  IF body.used < 1 THEN Fail(body.env)
  ELSE ParseDoFinally(t, mode, body, Optional(From(t, 2 + body.used), "rescue", ParseRescue, mode, body.env))
ParseDo(t, mode, env) == ParseDoRescue(t, mode, ParseBlock(Tail(t), mode, env, InnerScope(env, NoNames)))

\* expression as name, ...
RECURSIVE ParseWithClauses(_, _)
ParseWithClauses(t, names) ==
  Then(ParseInline(t),
       LAMBDA value :
         LET name == t[value.used + 2].op
             used == value.used + 2
             clause == Tree("as", <<value.tree, NameOf(name)>>)
         IN IF Op(t, value.used + 1) # "as" \/ TokenKind(t, value.used + 2) # "name" THEN Failed
            ELSE IF name \in names THEN Failed
            ELSE IF Op(t, used + 1) # "," THEN ParsedAll(<<clause>>, used)
            ELSE Followed(Parsed(clause, used + 1), ParseWithClauses(From(t, used + 2), names \cup {name})))

\* The scope of the block is never given the level of the function.
ParseWith(t, mode, env) ==
  Behind(ParseWithClauses(Tail(t), {}), env, "with",
    LAMBDA clauses :
      LET names == {clauses.trees[i].kids[2].op : i \in DOMAIN clauses.trees}
          scope == Scope(FALSE, 0, [n \in names |-> Plain])
      IN WithBlock(ParseBlock(From(t, 2 + clauses.used), mode, env, scope), 1 + clauses.used,
                   LAMBDA body : [k |-> "with", clauses |-> clauses.trees, body |-> body]))

ParseFor(t, mode, env) ==
  LET name == t[2].op
      scope == InnerScope(env, NamesOfInner(env, name))
  IN IF TokenKind(t, 2) # "name" \/ Op(t, 3) # "in" THEN Fail(Report(env, "iterator"))
     ELSE Behind(ParseInline(From(t, 4)), env, "expression",
            LAMBDA over :
              WithBlock(ParseBlock(From(t, 4 + over.used), mode, Checked(env, name, {}), scope), 3 + over.used,
                        LAMBDA body : [k |-> "for", name |-> name, over |-> over.tree, body |-> body]))

\* The clause that begins with the first token and those behind it: an elseif may
\* follow whatever there was, an else anything but an else.
ClauseBefore(clause, rest) ==
  IF rest.used = -1 THEN rest ELSE Ok(<<clause.stmt>> \o rest.stmt, clause.used + rest.used, rest.env)
ClausesFrom(clause, t, mode) ==
  LET next == Op(t, clause.used + 1)
      more == next = "elseif" \/ (next = "else" /\ t[1].op # "else")
  IN IF clause.used = -1 THEN clause
     ELSE IF t[1].op = "while" \/ ~more THEN [clause EXCEPT !.stmt = <<@>>]
     ELSE ClauseBefore(clause, ParseClauses(From(t, clause.used + 1), mode, clause.env))
\* The clause behind its condition of so many tokens, which is none for an else.
ParseClause(t, condition, used, mode, env) ==
  WithBlock(ParseBlock(From(t, 2 + used), mode, env, InnerScope(env, NoNames)), 1 + used,
            LAMBDA body : [condition |-> condition, body |-> body])
ParseClauses(t, mode, env) ==
  ClausesFrom(IF t[1].op = "else" THEN ParseClause(t, <<>>, 0, mode, env)
              ELSE Behind(ParseInline(Tail(t)), env, "expression",
                     LAMBDA condition : ParseClause(t, <<condition.tree>>, condition.used, mode, env)),
              t, mode)

IfOrWhile(clauses, word) ==
  IF clauses.used = -1 THEN clauses ELSE [clauses EXCEPT !.stmt = [k |-> word, clauses |-> @]]
ParseIfOrWhile(t, mode, env) == IfOrWhile(ParseClauses(t, mode, env), t[1].op)

-----------------------------------------------------------------------------
(* Statements without blocks *)

ParseRaise(t, env) ==
  Behind(ParseInline(Tail(t)), env, "expression",
         LAMBDA value : Ok([k |-> "raise", value |-> <<value.tree>>], 1 + value.used, env))

\* Nothing to return is no error.
ReturnOf(value, env) ==
  IF value.used = 0 THEN Ok([k |-> "return", value |-> <<>>], 1, env)
  ELSE Behind(value, env, "expression",
              LAMBDA v : Ok([k |-> "return", value |-> <<v.tree>>], 1 + v.used, env))
ParseReturn(t, env) == ReturnOf(ParseInline(Tail(t)), env)

ParseAwaitOrAsync(t, env) ==
  LET May(op) == op = "(" \/ (t[1].op = "await" /\ (IsName(op) \/ op \in {"[", "."}))
  IN Behind(ParseInline(Tail(t)), env, "expression",
       LAMBDA value : IF May(value.tree.op) THEN Ok([k |-> t[1].op, value |-> <<value.tree>>], 1 + value.used, env)
                      ELSE Fail(Report(env, "operand")))

\* ast_CanBeLValue: what a call returns is none.
RECURSIVE CanBeLValue(_)
CanBeLValue(tree) ==
  \/ tree.kids = <<>> /\ IsName(tree.op)
  \/ tree.op \in {".", "["} /\ CanBeLValue(tree.kids[1])

ParseAssignment(t, to, env) ==
  LET checked == Unless(~CanBeLValue(to.tree), env, "target")
  IN Behind(ParseInline(From(t, to.used + 2)), checked, "expression",
       LAMBDA value : Ok([k |-> "assign", to |-> to.tree, op |-> t[to.used + 1].op, value |-> value.tree],
                         to.used + 1 + value.used, checked))
AssignmentOrCall(to, t, env) ==
  IF to.used = 0 THEN NoStatement(env)
  ELSE Behind(to, env, "expression",
         LAMBDA value :
           IF TokenKind(t, value.used + 1) = "assign" THEN ParseAssignment(t, value, env)
           ELSE IF value.tree.op = "(" THEN Ok([k |-> "call", call |-> value.tree], value.used, env)
           ELSE NoStatement(env))
ParseAssignmentOrCall(t, env) == AssignmentOrCall(ParseInline(t), t, env)

InFunctions == {"do", "break", "continue", "await", "async", "return", "if", "while", "for"}

\* ast_ParseExprStmt; mode says what the statement is in.
ParseStatement(t, mode, env) ==
  LET word == t[1].op
      outside == mode \notin {"func", "classfunc"}
  IN IF outside /\ (word \in InFunctions \/ (t[1].kind = "name" /\ Len(t) > 1)) THEN Fail(Report(env, "place"))
     ELSE CASE word \in {"var", "const"} -> ParseVar(t, env)
            [] word = "func" -> ParseFunc(t, mode, env)
            [] word = "class" -> ParseClass(t, mode, env)
            [] word = "do" -> ParseDo(t, mode, env)
            [] word = "import" -> ParseImport(t, mode, env)
            [] word = "raise" -> ParseRaise(t, env)
            [] word \in {"break", "continue"} -> Ok([k |-> word], 1, env)
            [] word \in {"await", "async"} -> ParseAwaitOrAsync(t, env)
            [] word = "return" -> ParseReturn(t, env)
            [] word = "with" -> ParseWith(t, mode, env)
            [] word \in {"if", "while"} -> ParseIfOrWhile(t, mode, env)
            [] word = "for" -> ParseFor(t, mode, env)
            [] t[1].kind = "name" /\ Len(t) > 1 -> ParseAssignmentOrCall(t, env)
            [] OTHER -> NoStatement(env)

\* ast_ParseFromTokens from token i on, behind the statements read so far.
RECURSIVE ParseFileFrom(_, _, _, _), ParseFileBehind(_, _, _, _, _)
ParseFileBehind(s, t, i, env, stmts) ==
  IF s.used > 0 THEN ParseFileFrom(t, i + s.used, s.env, Append(stmts, s.stmt))
  ELSE ParseFileFrom(t, FindNext(t, i, env), IF s.used = 0 THEN Report(s.env, "statement") ELSE s.env, stmts)

ParseFileFrom(t, i, env, stmts) ==
  IF i > Len(t) THEN [stmts |-> stmts, errors |-> env.errors]
  ELSE ParseFileBehind(ParseStatement(From(t, i), "top", env), t, i, env, stmts)

ParseFile(words) ==
  ParseFileFrom(Lex(words), 1,
    [scopes |-> <<Scope(FALSE, 0, NoNames)>>, errors |-> <<>>, total |-> Len(words)], <<>>)
=============================================================================
