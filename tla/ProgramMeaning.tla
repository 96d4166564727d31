--------------------------- MODULE ProgramMeaning ---------------------------
(***************************************************************************)
(* What the language reference (docs/Specification/Horse64.md) promises of *)
(* the statements Codegen compiles: which C functions a program calls, in  *)
(* which order, and the error it ends with.  Raised errors go to the first *)
(* enclosing do statement that rescues their class; a finally block runs   *)
(* always and last, and an error that is not rescued goes on at its end; a *)
(* with statement closes every value it has opened.  Suspending is not     *)
(* visible to the program.                                                 *)
(***************************************************************************)
EXTENDS Integers, Sequences, SequencesExt

CONSTANTS Effect(_),     \* what a C function does, "none" for other functions
          Extends(_, _), \* Extends(c, b): error class c is b or extends it
          Failure        \* the class of the error a failing C function returns

\* What a statement sequence comes to so far: the calls made, the conditions left
\* and how it goes on: "go", "break", "continue", "return", or an error's class.
Start(oracle) == [trace |-> <<>>, oracle |-> oracle, out |-> "go"]
Plain         == {"go", "break", "continue", "return"}
Raised(e)     == e.out \notin Plain

Fails(f) == Effect(f) \in {"fail", "workfail"}
CallOf(e, f) == [e EXCEPT !.trace = Append(@, f), !.out = IF Fails(f) THEN Failure ELSE @]

Condition(e) == e.oracle # <<>> /\ Head(e.oracle)
Tested(e)    == [e EXCEPT !.oracle = IF @ = <<>> THEN @ ELSE Tail(@)]
GoingOn(e)   == [e EXCEPT !.out = "go"]

\* What is left pending after a block that must run: its own end, if it has one.
Then(before, after) == IF after.out = "go" THEN [after EXCEPT !.out = before.out] ELSE after

RECURSIVE Do(_, _, _)
DoAll(funcs, e, stmts) ==
    FoldLeft(LAMBDA acc, s : IF acc.out = "go" THEN Do(funcs, acc, s) ELSE acc, e, stmts)

RECURSIVE Loop(_, _, _)
Loop(funcs, e, body) ==
    IF ~Condition(e) THEN Tested(e)
    ELSE LET b == DoAll(funcs, Tested(e), body)
         IN  CASE b.out \in {"go", "continue"} -> Loop(funcs, GoingOn(b), body)
               [] b.out = "break"              -> GoingOn(b)
               [] OTHER                        -> b

RECURSIVE Choose(_, _, _, _)
Choose(funcs, e, s, i) ==
    CASE i > Len(s.bodies)                  -> e
      [] i = Len(s.bodies) /\ s.haselse     -> DoAll(funcs, e, s.bodies[i])
      [] Condition(e)                       -> DoAll(funcs, Tested(e), s.bodies[i])
      [] OTHER                              -> Choose(funcs, Tested(e), s, i + 1)

DoStatement(funcs, e, s) ==
    LET body    == DoAll(funcs, e, s.body)
        rescued == IF Raised(body) /\ \E t \in s.types : Extends(body.out, t)
                   THEN DoAll(funcs, GoingOn(body), s.rescue) ELSE body
    IN  IF s.fin THEN Then(rescued, DoAll(funcs, GoingOn(rescued), s.finally))
                 ELSE rescued

WithStatement(funcs, e, s) ==
    LET Open(acc, i) == IF acc.e.out # "go" THEN acc
                        ELSE LET c == CallOf(acc.e, s.clauses[i].open)
                             IN  [e |-> c, open |-> IF Raised(c) THEN i - 1 ELSE i]
        opened == FoldLeft(Open, [e |-> e, open |-> 0], [i \in DOMAIN s.clauses |-> i])
        body   == IF opened.e.out = "go" THEN DoAll(funcs, opened.e, s.body) ELSE opened.e
        Close(acc, i) == Then(acc, CallOf(GoingOn(acc), s.clauses[i].close))
    IN  FoldLeft(Close, body, [i \in 1..opened.open |-> i])

CallStatement(funcs, e, s) ==
    IF s.f \notin DOMAIN funcs THEN CallOf(e, s.f)
    ELSE LET r == DoAll(funcs, e, funcs[s.f].body)
         IN  IF Raised(r) THEN r ELSE GoingOn(r)

Do(funcs, e, s) ==
    CASE s.k = "call"               -> CallStatement(funcs, e, s)
      [] s.k = "raise"              -> [e EXCEPT !.out = s.c]
      [] s.k \in {"return", "break", "continue"} -> [e EXCEPT !.out = s.k]
      [] s.k = "if"                 -> Choose(funcs, e, s, 1)
      [] s.k \in {"while", "for"}   -> Loop(funcs, e, s.body)
      [] s.k = "do"                 -> DoStatement(funcs, e, s)
      [] s.k = "with"               -> WithStatement(funcs, e, s)

\* The documented end of a program: its calls, and the error's class if it raised.
Meaning(funcs, main, oracle, noerror) ==
    LET r == DoAll(funcs, Start(oracle), funcs[main].body)
    IN  [trace |-> r.trace, error |-> IF Raised(r) THEN r.out ELSE noerror]
==============================================================================
