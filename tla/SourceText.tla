----------------------------- MODULE SourceText -----------------------------
(***************************************************************************)
(* How trees and statements are written down, with the brackets that the   *)
(* precedences of the language reference ask for                           *)
(* (docs/Specification/Horse64.md:958-990), and which names of a file may  *)
(* not be declared twice.                                                  *)
(***************************************************************************)
EXTENDS Sequences, SequencesExt

\* The elements with a separator in between.
Separated(parts, separator) ==
  FoldLeft(LAMBDA text, i : text \o (IF i = 1 THEN <<>> ELSE <<separator>>) \o parts[i],
           <<>>, [i \in DOMAIN parts |-> i])

-----------------------------------------------------------------------------
(* Expressions *)

IsMinus(t) == t.op = "-" /\ Len(t.kids) = 1
Binding(t) ==
  CASE t.kids = <<>> \/ t.op \in {"list", "set", "map", "vector"} -> -1
    [] t.op \in {".", "[", "("} -> 0
    [] t.op = "new" -> 1
    [] IsMinus(t) -> 2
    [] t.op = "*" -> 6
    [] t.op = "-" /\ ~IsMinus(t) -> 7
    [] t.op = "==" -> 10
    [] t.op = "not" -> 11
    [] t.op = "and" -> 12
    [] t.op \in {"given", "=>"} -> 13

RECURSIVE Written(_)
WrittenAll(trees) == [i \in DOMAIN trees |-> Written(trees[i])]
WrittenVector(kids) ==
  Separated([i \in DOMAIN kids |-> <<<<"x", "y", "z", "w">>[i], ":">> \o Written(kids[i])], ",")
Written(t) ==
  LET Bracketed(kid, needed) == IF needed THEN <<"(">> \o Written(kid) \o <<")">> ELSE Written(kid)
      Inner(i) == Written(t.kids[i])
      n     == Len(t.kids)
      first == Bracketed(t.kids[1], Binding(t.kids[1]) > Binding(t))
      Kids(from, to) == Separated(WrittenAll(SubSeq(t.kids, from, to)), ",")
  IN CASE t.op = "list" -> <<"[">> \o Kids(1, n) \o <<"]">>
       [] t.op = "vector" -> <<"[">> \o WrittenVector(t.kids) \o <<"]">>
       [] t.op \in {"set", "map"} -> <<"{">> \o Kids(1, n) \o <<"}">>
       [] t.kids = <<>> /\ t.op \notin {"list", "set", "map"} -> <<t.op>>
       [] t.op \in {"->", "=", "as"} -> Inner(1) \o <<t.op>> \o Inner(2)
       [] t.op = "given" -> <<"given">> \o Inner(1) \o <<"then", "(">> \o Inner(2) \o <<"else">> \o Inner(3) \o <<")">>
       [] t.op = "=>" -> (IF n = 2 /\ t.kids[1].kids = <<>> THEN Inner(1) ELSE <<"(">> \o Kids(1, n - 1) \o <<")">>)
                           \o <<"=>", "(">> \o Inner(n) \o <<")">>
       [] t.op = "(" -> first \o <<"(">> \o Kids(2, n) \o <<")">>
       [] t.op = "[" -> first \o <<"[">> \o Inner(2) \o <<"]">>
       [] n = 1 /\ t.op \in {"-", "not", "new"} -> <<t.op>> \o first
       [] OTHER -> first \o <<t.op>> \o Bracketed(t.kids[2], Binding(t.kids[2]) >= Binding(t))

-----------------------------------------------------------------------------
(* Statements *)

RECURSIVE WrittenStatement(_)
WrittenStatements(stmts) == FlattenSeq([i \in DOMAIN stmts |-> WrittenStatement(stmts[i])])
WrittenBlock(stmts) == <<"{">> \o WrittenStatements(stmts) \o <<"}">>
Maybe(word, part) == IF part = <<>> THEN <<>> ELSE <<word>> \o part
MaybeTree(word, part) == IF part = <<>> THEN <<>> ELSE <<word>> \o Written(part[1])
WrittenClauses(clauses, word) ==
  FlattenSeq([i \in DOMAIN clauses |->
    (CASE i = 1 -> <<word>> [] clauses[i].condition = <<>> -> <<"else">> [] OTHER -> <<"elseif">>)
      \o (IF clauses[i].condition = <<>> THEN <<>> ELSE Written(clauses[i].condition[1]))
      \o WrittenBlock(clauses[i].body)])

WrittenStatement(s) ==
  CASE s.k = "var" -> <<s.word, s.name>> \o SetToSeq(s.marks) \o MaybeTree("=", s.value)
    [] s.k = "func" -> <<"func", s.name>>
         \o (IF s.params = <<>> THEN <<>> ELSE <<"(">> \o Separated(WrittenAll(s.params), ",") \o <<")">>)
         \o SetToSeq(s.marks) \o WrittenBlock(s.body)
    [] s.k = "class" -> <<"class", s.name>> \o MaybeTree("extends", s.base) \o SetToSeq(s.marks)
         \o WrittenBlock(s.vars \o s.funcs)
    [] s.k = "import" -> <<"import">> \o Separated([i \in DOMAIN s.path |-> <<s.path[i]>>], ".")
         \o Maybe("from", s.from) \o Maybe("as", s.as)
    [] s.k = "do" -> <<"do">> \o WrittenBlock(s.body)
         \o (IF s.rescue = <<>> THEN <<>>
             ELSE <<"rescue">> \o Separated(WrittenAll(s.rescue[1].errors), ",")
                    \o Maybe("as", s.rescue[1].as) \o WrittenBlock(s.rescue[1].body))
         \o (IF s.finally = <<>> THEN <<>> ELSE <<"finally">> \o WrittenBlock(s.finally[1]))
    [] s.k = "with" -> <<"with">> \o Separated(WrittenAll(s.clauses), ",") \o WrittenBlock(s.body)
    [] s.k = "for" -> <<"for", s.name, "in">> \o Written(s.over) \o WrittenBlock(s.body)
    [] s.k \in {"if", "while"} -> WrittenClauses(s.clauses, s.k)
    [] s.k \in {"raise", "return", "await", "async"} -> <<s.k>> \o (IF s.value = <<>> THEN <<>> ELSE Written(s.value[1]))
    [] s.k \in {"break", "continue"} -> <<s.k>>
    [] s.k = "assign" -> Written(s.to) \o <<s.op>> \o Written(s.value)
    [] s.k = "call" -> Written(s.call)

-----------------------------------------------------------------------------
(* Declarations *)

\* A declaration: the block the name is known in, the one where it must be new, the
\* function around it, and whether it is a parameter of that function.
Declaration(name, home, check, fn) ==
  [name |-> name, home |-> home, check |-> check, fn |-> fn, param |-> FALSE, paths |-> {}]

\* In the order of the text; at and fn are where the statements are, a block has the
\* place of its statement and a number.
RECURSIVE DeclaredBy(_, _, _, _)
DeclaredIn(stmts, at, fn) ==
  FlattenSeq([i \in DOMAIN stmts |-> DeclaredBy(stmts[i], at, fn, Append(at, i))])
DeclaredBy(s, at, fn, place) ==
  LET Here(name) == <<Declaration(name, at, at, fn)>>
      Inner(names, block) ==
        [i \in DOMAIN names |-> Declaration(names[i], Append(place, block), at, fn)]
      Within(stmts, block) == DeclaredIn(stmts, Append(place, block), fn)
      Param(tree) == IF tree.op = "=" THEN tree.kids[1].op ELSE tree.op
  IN CASE s.k = "var" -> Here(s.name)
       [] s.k = "import" ->
            <<[Declaration(IF s.as = <<>> THEN s.path[1] ELSE s.as[1], at, at, fn) EXCEPT !.paths = {s.path}]>>
       [] s.k = "func" -> Here(s.name)
            \o [i \in DOMAIN s.params |-> [Declaration(Param(s.params[i]), place, place, place) EXCEPT !.param = TRUE]]
            \o DeclaredIn(s.body, place, place)
       [] s.k = "class" -> Here(s.name) \o DeclaredIn(s.vars \o s.funcs, place, place)
       [] s.k = "do" -> Within(s.body, 1)
            \o (IF s.rescue = <<>> THEN <<>> ELSE Inner(s.rescue[1].as, 2) \o Within(s.rescue[1].body, 2))
            \o (IF s.finally = <<>> THEN <<>> ELSE Within(s.finally[1], 3))
       [] s.k = "for" -> Inner(<<s.name>>, 1) \o Within(s.body, 1)
       [] s.k = "with" -> Within(s.body, 1)
       [] s.k \in {"if", "while"} -> FlattenSeq([i \in DOMAIN s.clauses |-> Within(s.clauses[i].body, i)])
       [] OTHER -> <<>>

\* A name may not be declared again in its block, but for imports of different paths,
\* nor anywhere in the function it is a parameter of; self and base not at all.
Clash(d, e) ==
  /\ d.name = e.name /\ ~e.param
  /\ \/ d.home = e.check /\ (d.paths = {} \/ e.paths = {} \/ d.paths = e.paths)
     \/ d.param /\ d.fn = e.fn
NamesClash(stmts) ==
  LET all == DeclaredIn(stmts, <<>>, <<>>)
  IN \/ \E j \in DOMAIN all : all[j].name \in {"self", "base"} \/ \E i \in 1 .. j - 1 : Clash(all[i], all[j])
=============================================================================
