------------------------------ MODULE MCVmExec ------------------------------
(***************************************************************************)
(* Programs for the code generator and the interpreter: main and a         *)
(* function f, put together from do statements two deep with every mix of  *)
(* clauses, calls that fail, suspend or leave work in the background,      *)
(* loops, conditionals, recursion and with statements.                     *)
(***************************************************************************)
EXTENDS VmExec, Codegen

Classes == {"Error", "A", "B"}
MCAncestorsOf == [c \in Classes |-> {c, "Error"}]
MCCFunction ==
    [p |-> "ok", q |-> "ok", r |-> "ok", bad |-> "fail", nap |-> "sleep",
     job |-> "work", badjob |-> "workfail", open |-> "open", close |-> "ok",
     badclose |-> "fail"]
MCOracles == {<<>>, <<TRUE>>, <<FALSE, TRUE>>, <<TRUE, TRUE, TRUE>>}

Args(f)    == CASE f = "f" -> 1 [] f \in {"bad", "badjob"} -> 2 [] OTHER -> 0
CallS(f)   == [k |-> "call", f |-> f, args |-> Args(f)]
RaiseS(c)  == [k |-> "raise", c |-> c]
JustS(k)   == [k |-> k]
IfS(b)     == [k |-> "if", bodies |-> <<b>>, haselse |-> FALSE]
IfElseS(b1, b2) == [k |-> "if", bodies |-> <<b1, b2>>, haselse |-> TRUE]
WhileS(b)  == [k |-> "while", body |-> b]
ForS(b)    == [k |-> "for", body |-> b]
DoS(b, ts, r, fin, f) ==
    [k |-> "do", body |-> b, types |-> ts, rescue |-> r, fin |-> fin, finally |-> f]
WithS(cs, b) == [k |-> "with", clauses |-> cs, body |-> b]
Clause(o, c) == [open |-> o, close |-> c]

\* One statement that may go wrong.
Risky == <<CallS("p"), RaiseS("B"), CallS("bad"), CallS("nap"), CallS("job"),
           CallS("badjob"), CallS("f"), JustS("return")>>
\* The clauses of a do statement.
Clauses(b, i) ==
    LET q == <<CallS("q")>>  r == <<CallS("r")>>
    IN  CASE i = 1 -> DoS(b, {"A"}, q, FALSE, <<>>)
          [] i = 2 -> DoS(b, {"Error"}, q, TRUE, r)
          [] i = 3 -> DoS(b, {}, <<>>, TRUE, r)
          [] i = 4 -> DoS(b, {"A", "B"}, <<RaiseS("B")>>, TRUE, r)
          [] i = 5 -> DoS(b, {"A"}, <<CallS("job")>>, TRUE, <<RaiseS("A")>>)
          [] i = 6 -> DoS(b, {"B"}, <<CallS("badjob")>>, FALSE, <<>>)
\* Where an inner do statement stands in an outer one.
Nested(d, i, j) ==
    CASE j = 1 -> <<Clauses(<<d, CallS("p")>>, i)>>
      [] j = 2 -> <<DoS(<<CallS("bad")>>, {"A"}, <<d>>, TRUE, <<CallS("r")>>)>>
      [] j = 3 -> <<DoS(<<RaiseS("B")>>, {"A"}, <<CallS("q")>>, TRUE, <<d>>)>>
      [] j = 4 -> <<WhileS(<<IfS(<<JustS("continue")>>), d, CallS("p")>>)>>
      [] j = 5 -> <<ForS(<<d, IfElseS(<<CallS("p")>>, <<JustS("break")>>)>>), CallS("q")>>
\* The bodies of f: each ends in a way the caller sees.
BodyF(i) ==
    CASE i = 1 -> <<CallS("q")>>
      [] i = 2 -> <<DoS(<<RaiseS("A")>>, {"B"}, <<>>, TRUE, <<CallS("r")>>)>>
      [] i = 3 -> <<IfS(<<CallS("f")>>), CallS("badjob")>>
      [] i = 4 -> <<DoS(<<IfS(<<CallS("f")>>), CallS("bad")>>, {}, <<>>, TRUE, <<CallS("r")>>)>>
      [] i = 5 -> <<IfS(<<JustS("return")>>), CallS("job"), RaiseS("B")>>
      [] i = 6 -> <<DoS(<<JustS("return")>>, {"A"}, <<CallS("q")>>, TRUE, <<CallS("r")>>)>>

\* Programs with a with statement.
Withs ==
    <<<<Clause("open", "close")>>, <<Clause("open", "badclose"), Clause("open", "close")>>,
      <<Clause("open", "close"), Clause("bad", "close")>>,
      <<Clause("open", "badclose"), Clause("open", "badclose")>>>>

Function(a, l, b) == [args |-> a, locals |-> l, body |-> b]
Source(m, f) == [main |-> Function(0, 3, m), f |-> Function(1, 1, f)]


\* A program is known by how it is put together: the risky statement, the do
\* statement around it, the one around that (or, from 7 on, the with statement
\* inside it), where the inner one stands, and the body of f.
MCPrograms ==
    {<<x, i, o, j, f>> \in (1..8) \X (1..6) \X (1..10) \X (1..5) \X (1..6) :
        /\ x # 7 => f = 1
        /\ j > 1 => o = 1
        /\ o > 6 => i <= 3}
MCSource(m) ==
    LET x == <<Risky[m[1]]>>
    IN  Source(IF m[3] <= 6
               THEN Nested(Clauses(x, m[2]), m[3], m[4])
               ELSE <<Clauses(<<WithS(Withs[m[3] - 6], x), CallS("p")>>, m[2]), CallS("p")>>,
               BodyF(m[5]))
MCImage ==
    [m \in MCPrograms |-> [main |-> CompileFunc(MCSource(m).main),
                           f |-> CompileFunc(MCSource(m).f)]]
ASSUME ProgramsArePrepared == StackIsPrepared

\* The documented end of each program under each oracle.
Doc == INSTANCE ProgramMeaning WITH
          Effect  <- LAMBDA f : IF f \in DOMAIN CFunction THEN CFunction[f] ELSE "none",
          Extends <- LAMBDA c, b : b \in AncestorsOf[c],
          Failure <- FailClass

\* The statements in a block, those in their blocks included.
Blocks(s) ==
    CASE s.k = "if"              -> Range(s.bodies)
      [] s.k \in {"while", "for", "with"} -> {s.body}
      [] s.k = "do"              -> {s.body, s.rescue, s.finally}
      [] OTHER                   -> {}
RECURSIVE Within(_)
Within(b) == Range(b) \cup UNION {UNION {Within(c) : c \in Blocks(s)} : s \in Range(b)}

\* Programs that stay clear of what the generated code is known to get wrong:
\* leaving a do or with statement by break, continue or return, an error in the
\* finally block of a statement that rescues, and a finally block of f that ends
\* at the offset at which a block of main that takes its error starts.
Leaves(s)   == s.k \in {"break", "continue", "return"}
MayRaise(s) == s.k = "raise" \/ (s.k = "call" /\ s.f \in {"bad", "badjob", "f"})
Collide(main, f) ==
    \E i \in DOMAIN main, j \in DOMAIN f :
        /\ main[i].op = "pushrescueframe" /\ f[j].op = "poprescueframe"
        /\ j - 1 \in {i - 1 + main[i].rescue, i - 1 + main[i].finally}
Tame ==
    LET all == Within(MCSource(prog).main.body) \cup Within(MCSource(prog).f.body)
    IN  /\ \A s \in all : s.k \in {"do", "with"} =>
              ~\E x \in UNION {Within(c) : c \in Blocks(s)} : Leaves(x)
        /\ \A s \in all : s.k = "do" /\ s.types # {} =>
              ~\E x \in Within(s.finally) : MayRaise(x)
        /\ ~Collide(image.main.code, image.f.code)

EndsAsDocumented ==
    phase \in {"done", "lost"} /\ Tame =>
        /\ phase = "done"
        /\ LET m == Doc!Meaning(MCSource(prog), Main, oracle, NoError)
           IN  trace = m.trace /\ outcome = m.error

\* The language reference on the finally block: "Runs ALWAYS, no matter if an error
\* occurred or not" (docs/Specification/Horse64.md:515), so a return inside a do
\* statement runs it on the way out.
ReturnRunsFinally ==
    phase = "done" /\ prog[1] = 8 =>
        trace = Doc!Meaning(MCSource(prog), Main, oracle, NoError).trace
=============================================================================
