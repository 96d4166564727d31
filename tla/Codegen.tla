------------------------------ MODULE Codegen ------------------------------
(***************************************************************************)
(* The statement half of the compiler's code generator                     *)
(* (compiler/codegen.c).  A function body is a sequence of statements; the *)
(* generator walks it once, numbers jump targets and do statements with    *)
(* the counters of the function's _storageinfo, and appends instructions.  *)
(* The final transform takes the target markers out of the code, turns     *)
(* jump ids into offsets and makes sure the function ends in a return.     *)
(*                                                                         *)
(* Statements are records with a field "k":                                *)
(*   call     a call of function f with args arguments                     *)
(*   raise    a raise of an error of class c                               *)
(*   return, break, continue                                               *)
(*   if       bodies, one per clause; the last one is an else when         *)
(*            haselse holds                                                *)
(*   while, for   body                                                     *)
(*   do       body, types (the classes rescued, {} without a rescue        *)
(*            clause), rescue, fin (whether there is a finally), finally   *)
(*   with     clauses (the function that opens and the one that closes     *)
(*            each value), body                                            *)
(* Expressions are left out: a condition is a value the machine reads, and *)
(* temporaries are only counted as far as the sizes of the stack need.     *)
(***************************************************************************)
EXTENDS Integers, Sequences, SequencesExt

NoTarget == -1

\* The instructions (bytecode.h). Offsets count instructions from 0.
Target(j)         == [op |-> "target", id |-> j]
Jump(j)           == [op |-> "jump", to |-> j]
CondJump(j)       == [op |-> "condjump", to |-> j]
NewIterator       == [op |-> "newiterator"]
Iterate(j)        == [op |-> "iterate", to |-> j]
PushFrame(i, ts, r, f) ==
    [op |-> "pushrescueframe", id |-> i, types |-> ts, rescue |-> r, finally |-> f]
PopFrame(i)       == [op |-> "poprescueframe", id |-> i]
JumpToFinally(i)  == [op |-> "jumptofinally", id |-> i]
RaiseInst(c)      == [op |-> "raise", c |-> c]
CallSetTop(n)     == [op |-> "callsettop", top |-> n]
Call(f, n, s)     == [op |-> "call", f |-> f, args |-> n, returnto |-> s]
SetNone(s)        == [op |-> "setnone", slot |-> s]
HasAttrJump(s, j) == [op |-> "hasattrjump", slot |-> s, to |-> j]
ReturnValue       == [op |-> "returnvalue"]

NoSlot == 0

\* The generator's state for one function: the code so far, the counters of
\* _storageinfo, the loops it is inside of (start and end target), the local
\* slot last given to a value of a with statement, the slots below the call
\* arguments, and the most arguments a call has.
NewFunction(args, locals) ==
    [code |-> <<>>, jumps |-> 0, dos |-> 0, loops |-> <<>>,
     slots |-> args, fixed |-> args + locals, extra |-> 0]

Emit(g, insts) == [g EXCEPT !.code = @ \o insts]
EnterLoop(g) ==
    [g EXCEPT !.loops = Append(@, [start |-> g.jumps, end |-> g.jumps + 1]),
              !.jumps = @ + 2]
LeaveLoop(g) == [g EXCEPT !.loops = Front(@)]

RECURSIVE GenStmt(_, _)
GenStmts(g, stmts) == FoldLeft(GenStmt, g, stmts)

\* _codegen_call_to: the arguments are copied on top of the slots in use.
GenCall(g, s) ==
    [Emit(g, <<CallSetTop(g.fixed + s.args), Call(s.f, s.args, NoSlot)>>)
        EXCEPT !.extra = IF s.args > @ THEN s.args ELSE @]

GenBreak(g)    == Emit(g, <<Jump(Last(g.loops).end)>>)
GenContinueAtEnd(g) == Emit(g, <<Jump(Last(g.loops).end)>>)
GenContinue(g) == Emit(g, <<Jump(Last(g.loops).start)>>)

GenWhile(g, s) ==
    LET lp   == [start |-> g.jumps, end |-> g.jumps + 1]
        head == Emit(EnterLoop(g), <<Target(lp.start), CondJump(lp.end)>>)
        body == GenStmts(head, s.body)
    IN  LeaveLoop(Emit(body, <<Jump(lp.start), Target(lp.end)>>))

GenFor(g, s) ==
    LET lp   == [start |-> g.jumps, end |-> g.jumps + 1]
        head == Emit(EnterLoop(g), <<NewIterator, Target(lp.start), Iterate(lp.end)>>)
        body == GenStmts(head, s.body)
    IN  LeaveLoop(Emit(body, <<Jump(lp.start), Target(lp.end)>>))

\* Each clause but the last jumps to the end; the last one falls through.
GenIf(g, s) ==
    LET n    == Len(s.bodies)
        end  == g.jumps
        Clause(h, i) ==
            LET last  == i = n
                next  == IF last THEN end ELSE h.jumps
                numd  == IF last THEN h ELSE [h EXCEPT !.jumps = @ + 1]
                tests == IF last /\ s.haselse THEN <<>> ELSE <<CondJump(next)>>
                body  == GenStmts(Emit(numd, tests), s.bodies[i])
            IN  Emit(body, (IF last THEN <<>> ELSE <<Jump(end)>>) \o <<Target(next)>>)
    IN  FoldLeft(Clause, [g EXCEPT !.jumps = @ + 1], [i \in 1..n |-> i])

\* What ends the body and the rescue clause of a do statement.
LeaveDo(s, id) == IF s.fin THEN <<JumpToFinally(id)>> ELSE <<PopFrame(id)>>

\* A do statement: the finally block is entered through JUMPTOFINALLY even
\* when it is the next instruction, and without one the rescue frame is popped
\* at the end of the body and again at the end of the rescue clause.
GenDo(g, s) ==
    LET id      == g.dos
        rescues == s.types # {}
        end     == g.jumps
        catch   == IF rescues THEN g.jumps + 1 ELSE NoTarget
        fin     == IF s.fin THEN g.jumps + 1 + (IF rescues THEN 1 ELSE 0) ELSE NoTarget
        numd    == [g EXCEPT !.dos = @ + 1,
                             !.jumps = @ + 1 + (IF rescues THEN 1 ELSE 0)
                                             + (IF s.fin THEN 1 ELSE 0)]
        leave   == LeaveDo(s, id)
        past    == IF ~s.fin /\ rescues THEN <<Jump(end)>> ELSE <<>>
        body    == Emit(GenStmts(Emit(numd, <<PushFrame(id, s.types, catch, fin)>>),
                                 s.body),
                        leave \o past)
        rescued == IF rescues
                   THEN Emit(GenStmts(Emit(body, <<Target(catch)>>), s.rescue), leave)
                   ELSE body
        final   == IF s.fin
                   THEN Emit(GenStmts(Emit(rescued, <<Target(fin)>>), s.finally),
                             <<PopFrame(id)>>)
                   ELSE rescued
    IN  Emit(final, <<Target(end)>>)

\* A with statement: every value's slot is cleared before the frame is pushed,
\* the values are opened inside it, and the finally block closes them in
\* order, each close but the last in a do/finally of its own. The call of
\* close has no CALLSETTOP.
GenWith(g, s) ==
    LET n      == Len(s.clauses)
        Slot(i) == g.slots + i
        fin    == g.jumps
        id     == g.dos
        clear  == Emit([g EXCEPT !.jumps = @ + 1, !.dos = @ + 1, !.slots = @ + n],
                       [i \in 1..n |-> SetNone(Slot(i))]
                       \o <<PushFrame(id, {"Error"}, NoTarget, fin)>>)
        Open(h, i) == Emit(h, <<CallSetTop(h.fixed),
                                Call(s.clauses[i].open, 0, Slot(i))>>)
        opened == FoldLeft(Open, clear, [i \in 1..n |-> i])
        body   == Emit(GenStmts(opened, s.body), <<JumpToFinally(id), Target(fin)>>)
        Close(h, i) ==
            LET inner == h.dos
                after == h.jumps
                skip  == IF i < n THEN h.jumps + 1 ELSE h.jumps
                test  == <<HasAttrJump(Slot(i), skip),
                           Call(s.clauses[i].close, 0, NoSlot),
                           Target(skip)>>
            IN  IF i < n
                THEN Emit([h EXCEPT !.dos = @ + 1, !.jumps = @ + 2],
                          <<PushFrame(inner, {"Error"}, NoTarget, after)>> \o test
                          \o <<JumpToFinally(inner), Target(after)>>)
                ELSE Emit([h EXCEPT !.jumps = @ + 1], test)
        closed == FoldLeft(Close, body, [i \in 1..n |-> i])
        pops   == [i \in 1..(n - 1) |-> PopFrame(body.dos + n - 1 - i)]
    IN  Emit(closed, pops \o <<PopFrame(id)>>)

GenStmt(g, s) ==
    CASE s.k = "call"     -> GenCall(g, s)
      [] s.k = "raise"    -> Emit(g, <<RaiseInst(s.c)>>)
      [] s.k = "return"   -> Emit(g, <<ReturnValue>>)
      [] s.k = "break"    -> GenBreak(g)
      [] s.k = "continue" -> GenContinue(g)
      [] s.k = "if"       -> GenIf(g, s)
      [] s.k = "while"    -> GenWhile(g, s)
      [] s.k = "for"      -> GenFor(g, s)
      [] s.k = "do"       -> GenDo(g, s)
      [] s.k = "with"     -> GenWith(g, s)

------------------------------------------------------------------------------
\* codegen_FinalBytecodeTransform, first loop: the targets leave the code and
\* a jump id becomes the distance from the jump to its target.
IsTarget(i) == i.op = "target"
OffsetOf(code, j) ==
    LET at == CHOOSE k \in 1..Len(code) : IsTarget(code[k]) /\ code[k].id = j
    IN  Len(SelectSeq(SubSeq(code, 1, at), LAMBDA i : ~IsTarget(i)))

Resolve(code) ==
    LET kept == SelectSeq(code, LAMBDA i : ~IsTarget(i))
        Rel(j, k) == OffsetOf(code, j) - (k - 1)
        Fix(i, k) ==
            CASE i.op \in {"jump", "condjump", "iterate", "hasattrjump"} ->
                   [i EXCEPT !.to = Rel(@, k)]
              [] i.op = "pushrescueframe" ->
                   [i EXCEPT !.rescue  = IF @ = NoTarget THEN 0 ELSE Rel(@, k),
                             !.finally = IF @ = NoTarget THEN 0 ELSE Rel(@, k)]
              [] OTHER -> i
    IN  [k \in 1..Len(kept) |-> Fix(kept[k], k)]

\* ... second loop: a return is added unless the last instruction is one.
EndInReturn(code) ==
    IF code # <<>> /\ Last(code).op = "returnvalue"
    THEN code
    ELSE code \o <<SetNone(NoSlot), ReturnValue>>

\* codegen_CalculateFinalFuncStack: the arguments, the local slots, and the most
\* a call needs above them.
CompileFunc(f) ==
    LET g == GenStmts(NewFunction(f.args, f.locals), f.body)
    IN  [code |-> EndInReturn(Resolve(g.code)), args |-> f.args,
         space |-> g.fixed + g.extra]
==============================================================================
