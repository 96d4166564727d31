--------------------------- MODULE ExpressionCode ---------------------------
(***************************************************************************)
(* The code generated for an assignment and the expression assigned        *)
(* (codegen.c), run by the instructions of vmexec.c.  Every expression has *)
(* the slot its value is in: that of the variable for a local variable,    *)
(* the one the statement asks for, that of an operand, or a new temporary  *)
(* above the variables.                                                    *)
(*                                                                         *)
(* Expressions are records: [k |-> "var", v], [k |-> "const", c],          *)
(* "plus", "equal", "and", "or" with a and b, "not" with a, "given" with   *)
(* a, b, c (given a then b else c), "list" and "call" with items (a call   *)
(* returns the list of its arguments) and "fail", a call that raises an    *)
(* error.  The variable "g" is global; the others are local.  Attributes,  *)
(* indexing, maps, vectors, new and await are left out.                    *)
(***************************************************************************)
EXTENDS Integers, Sequences

CONSTANT Locals   \* the local variables, in the order of their slots

True  == <<"true">>
False == <<"false">>
None  == <<"none">>
Num(n)   == <<"number", n % 3>>
IsBool(v) == v \in {True, False}
Bool(b)  == IF b THEN True ELSE False
ListOf(s) == <<"list">> \o s

Slot(v)   == (CHOOSE i \in DOMAIN Locals : Locals[i] = v) - 1
FirstTemp == Len(Locals)   \* lowest_guaranteed_free_temp
NoSlot    == -1

\* What the generator keeps: the temporaries in use, the code, the labels handed out.
Emit(c, i) == [c EXCEPT !.code = Append(@, i)]
NewLabels(c, n) == [c EXCEPT !.labels = @ + n]

\* new1linetemp, for the value of an expression and for anything else.
LowestFree(c) == CHOOSE t \in FirstTemp..(FirstTemp + 30) :
                    t \notin c.used /\ \A u \in FirstTemp..(t - 1) : u \in c.used
NewTemp(c) == [slot |-> LowestFree(c), c |-> [c EXCEPT !.used = @ \cup {LowestFree(c)}]]
StoreOr(store, c) == IF store # NoSlot THEN [slot |-> store, c |-> c] ELSE NewTemp(c)
ReuseAny(store, operands, c) ==
    IF store = NoSlot /\ operands # <<>> THEN [slot |-> operands[1], c |-> c]
    ELSE StoreOr(store, c)
OrReuse(store, operands, c) ==
    LET temps == SelectSeq(operands, LAMBDA s : s >= FirstTemp)
    IN  IF store = NoSlot /\ temps # <<>> THEN [slot |-> temps[1], c |-> c]
        ELSE StoreOr(store, c)

\* funccurrentstacktop: above all temporaries in use.
StackTop(c) == CHOOSE t \in FirstTemp..(FirstTemp + 30) :
                  /\ \A u \in c.used : u < t
                  /\ t = FirstTemp \/ t - 1 \in c.used

Copy(from, to)       == [op |-> "valuecopy", to |-> to, a |-> from]
SetConst(to, v)      == [op |-> "setconst", to |-> to, v |-> v]
Binop(f, to, a, b)   == [op |-> "binop", f |-> f, to |-> to, a |-> a, b |-> b]
CondJump(a, on, l)   == [op |-> "condjump", a |-> a, on |-> on, label |-> l]
Jump(l)              == [op |-> "jump", label |-> l]
JumpTarget(l)        == [op |-> "jumptarget", label |-> l]

\* Gen(e, store, c): the code for e, whose value the statement wants in store.
RECURSIVE Gen(_, _, _), GenAll(_, _, _)
GenAll(es, slots, c) ==
    IF es = <<>> THEN [slots |-> slots, c |-> c]
    ELSE LET h == Gen(Head(es), NoSlot, c) IN GenAll(Tail(es), Append(slots, h.slot), h.c)

GenVar(e, store, c) ==
    IF e.v # "g" THEN [slot |-> Slot(e.v), c |-> c]
    ELSE LET t == StoreOr(store, c)
         IN  [t EXCEPT !.c = Emit(@, [op |-> "getglobal", to |-> t.slot])]

GenConst(e, store, c) ==
    LET t == StoreOr(store, c) IN [t EXCEPT !.c = Emit(@, SetConst(t.slot, e.c))]

ApplyTo(e, slots, t) ==
    LET i == IF e.k = "not" THEN [op |-> "unop", to |-> t.slot, a |-> slots[1]]
             ELSE Binop(e.k, t.slot, slots[1], slots[2])
    IN  [t EXCEPT !.c = Emit(@, i)]
GenStrict(e, store, c) ==
    LET args == GenAll(IF e.k = "not" THEN <<e.a>> ELSE <<e.a, e.b>>, <<>>, c)
    IN  ApplyTo(e, args.slots, OrReuse(store, args.slots, args.c))

\* The right operand is skipped when the left one decides.
AfterLeft(e, to, n, left) ==
    LET c1 == Emit(left.c, CondJump(left.slot, Bool(e.k = "and"), n))
        c2 == Emit(Emit(c1, SetConst(to, Bool(e.k = "or"))), Jump(n + 1))
        right == Gen(e.b, NoSlot, Emit(c2, JumpTarget(n)))
        c3 == Emit(right.c, Binop(e.k, to, left.slot, right.slot))
    IN  [slot |-> to, c |-> Emit(c3, JumpTarget(n + 1))]
GenCond(e, store, c) ==
    LET t == StoreOr(store, c)
    IN  AfterLeft(e, t.slot, t.c.labels, Gen(e.a, NoSlot, NewLabels(t.c, 2)))

Into(to, g) == IF g.slot = to THEN g.c ELSE Emit(g.c, Copy(g.slot, to))
AfterCond(e, to, n, cond) ==
    LET yes == Into(to, Gen(e.b, NoSlot, Emit(cond.c, CondJump(cond.slot, False, n))))
        no  == Into(to, Gen(e.c, NoSlot, Emit(Emit(yes, Jump(n + 1)), JumpTarget(n))))
    IN  [slot |-> to, c |-> Emit(no, JumpTarget(n + 1))]
GenGiven(e, store, c) ==
    LET t == StoreOr(store, c)
    IN  AfterCond(e, t.slot, t.c.labels, Gen(e.a, NoSlot, NewLabels(t.c, 2)))

\* A list is made empty and the items are added by calls of its add function.
RECURSIVE AddItems(_, _, _, _)
AddItems(slots, to, floor, c) ==
    IF slots = <<>> THEN c
    ELSE AddItems(Tail(slots), to, floor,
                  Emit(Emit(c, Copy(Head(slots), floor)),
                       [op |-> "add", to |-> to, a |-> floor]))
ListInto(slots, t) ==
    LET c1  == Emit(t.c, SetConst(t.slot, ListOf(<<>>)))
        add == IF slots = <<>> THEN c1 ELSE NewTemp(c1).c
    IN  [slot |-> t.slot, c |-> AddItems(slots, t.slot, StackTop(add), add)]
GenList(e, store, c) ==
    LET items == GenAll(e.items, <<>>, c)
    IN  ListInto(items.slots, StoreOr(store, items.c))

\* The arguments go above all temporaries, the result where the statement wants it.
RECURSIVE PushArgs(_, _, _)
PushArgs(slots, at, c) ==
    IF slots = <<>> THEN c
    ELSE PushArgs(Tail(slots), at + 1, Emit(c, Copy(Head(slots), at)))
CallInto(e, slots, t, floor) ==
    [t EXCEPT !.c = Emit(PushArgs(slots, floor, @),
                         [op |-> e.k, to |-> t.slot, a |-> floor, n |-> Len(slots)])]
GenCall(e, store, c) ==
    LET args == GenAll(IF e.k = "call" THEN e.items ELSE <<>>, <<>>, NewTemp(c).c)
        t    == StoreOr(store, args.c)
    IN  CallInto(e, args.slots, t, StackTop(t.c))

Gen(e, store, c) ==
    CASE e.k = "var"                      -> GenVar(e, store, c)
      [] e.k = "const"                    -> GenConst(e, store, c)
      [] e.k \in {"plus", "equal", "not"} -> GenStrict(e, store, c)
      [] e.k \in {"and", "or"}            -> GenCond(e, store, c)
      [] e.k = "given"                    -> GenGiven(e, store, c)
      [] e.k = "list"                     -> GenList(e, store, c)
      [] e.k \in {"call", "fail"}         -> GenCall(e, store, c)

\* An assignment to x, "=" or "+=". inloop: the iterator of a for loop around it
\* holds the first temporary.
Store(x, from) ==
    IF x = "g" THEN Emit(from.c, [op |-> "setglobal", a |-> from.slot]).code
    ELSE IF from.slot = Slot(x) THEN from.c.code
    ELSE Emit(from.c, Copy(from.slot, Slot(x))).code
Old(x, c) ==
    IF x # "g" THEN [slot |-> Slot(x), c |-> c]
    ELSE LET t == NewTemp(c)
         IN  [t EXCEPT !.c = Emit(@, [op |-> "getglobal", to |-> t.slot])]
AddTo(old, value) == [old EXCEPT !.c = Emit(@, Binop("plus", old.slot, old.slot, value.slot))]
AssignValue(x, op, value) ==
    Store(x, IF op = "=" THEN value ELSE AddTo(Old(x, value.c), value))
GenAssign(x, op, e, inloop) ==
    LET c0 == [used |-> IF inloop THEN {FirstTemp} ELSE {}, code |-> <<>>, labels |-> 0]
    IN  AssignValue(x, op, Gen(e, IF x # "g" /\ op = "=" THEN Slot(x) ELSE NoSlot, c0))

------------------------------------------------------------------------------
\* The machine: [slots, g, pc, error]. A failed operation has emptied the slot it
\* was to write unless it reads it too.
Binary(f, a, b) ==
    CASE f = "plus"  -> IF a[1] = "number" /\ b[1] = "number" THEN Num(a[2] + b[2])
                        ELSE <<"TypeError">>
      [] f = "equal" -> Bool(a = b)
      [] f = "and"   -> IF a = False THEN False
                        ELSE IF IsBool(a) /\ IsBool(b) THEN b ELSE <<"TypeError">>
      [] f = "or"    -> IF a = True THEN True
                        ELSE IF IsBool(a) /\ IsBool(b) THEN b ELSE <<"TypeError">>
Negation(a) == IF IsBool(a) THEN Bool(a = False) ELSE <<"TypeError">>

Write(m, to, reads, v) ==
    IF v # <<"TypeError">> THEN [m EXCEPT !.slots[to] = v, !.pc = @ + 1]
    ELSE [m EXCEPT !.error = "TypeError",
                   !.slots[to] = IF to \in reads THEN @ ELSE None]
JumpTo(m, code, l) ==
    [m EXCEPT !.pc = CHOOSE p \in DOMAIN code : code[p] = JumpTarget(l)]

Exec(m, code) ==
    LET i == code[m.pc]
        s == m.slots
        next == [m EXCEPT !.pc = @ + 1]
    IN  CASE i.op = "setconst"   -> [next EXCEPT !.slots[i.to] = i.v]
          [] i.op = "valuecopy"  -> [next EXCEPT !.slots[i.to] = s[i.a]]
          [] i.op = "getglobal"  -> [next EXCEPT !.slots[i.to] = m.g]
          [] i.op = "setglobal"  -> [next EXCEPT !.g = s[i.a]]
          [] i.op = "binop"      -> Write(m, i.to, {i.a, i.b}, Binary(i.f, s[i.a], s[i.b]))
          [] i.op = "unop"       -> Write(m, i.to, {i.a}, Negation(s[i.a]))
          [] i.op = "add"        -> [next EXCEPT !.slots[i.to] = Append(@, s[i.a])]
          [] i.op = "call"       -> [next EXCEPT !.slots[i.to] =
                                        ListOf([k \in 1..i.n |-> s[i.a + k - 1]])]
          [] i.op = "fail"       -> [m EXCEPT !.error = "Error"]
          [] i.op = "jump"       -> JumpTo(m, code, i.label)
          [] i.op = "jumptarget" -> next
          [] i.op = "condjump"   ->
               IF ~IsBool(s[i.a]) THEN [m EXCEPT !.error = "TypeError"]
               ELSE IF s[i.a] = i.on THEN JumpTo(m, code, i.label) ELSE next

RECURSIVE Run(_, _)
Run(m, code) == IF m.error # "" \/ m.pc > Len(code) THEN m ELSE Run(Exec(m, code), code)

Start(env) == [slots |-> [i \in 0..(FirstTemp + 30) |->
                             IF i < FirstTemp THEN env[Locals[i + 1]] ELSE None],
               g |-> env["g"], pc |-> 1, error |-> ""]

------------------------------------------------------------------------------
\* What the expressions mean: operands from left to right, and only those needed.
Fails(v) == v \in {<<"TypeError">>, <<"Error">>}
RECURSIVE Meaning(_, _), Meanings(_, _)
Meanings(es, env) ==   \* a list
    IF es = <<>> THEN ListOf(<<>>)
    ELSE LET rest == Meanings(SubSeq(es, 1, Len(es) - 1), env)
             last == Meaning(es[Len(es)], env)
         IN  IF Fails(rest) THEN rest ELSE IF Fails(last) THEN last ELSE Append(rest, last)
Meaning(e, env) ==
    LET a == Meaning(e.a, env)
        Both == Meanings(<<e.a, e.b>>, env)
    IN  CASE e.k = "var"   -> env[e.v]
          [] e.k = "const" -> e.c
          [] e.k = "fail"  -> <<"Error">>
          [] e.k \in {"plus", "equal"} -> IF Fails(Both) THEN Both ELSE Binary(e.k, Both[2], Both[3])
          [] e.k = "not"   -> IF Fails(a) THEN a ELSE Negation(a)
          [] e.k \in {"and", "or"} ->
               IF Fails(a) THEN a ELSE IF ~IsBool(a) THEN <<"TypeError">>
               ELSE IF a = Bool(e.k = "or") THEN a
               ELSE LET b == Meaning(e.b, env)
                    IN  IF Fails(b) \/ IsBool(b) THEN b ELSE <<"TypeError">>
          [] e.k = "given" ->
               IF Fails(a) THEN a ELSE IF ~IsBool(a) THEN <<"TypeError">>
               ELSE IF a = True THEN Meaning(e.b, env) ELSE Meaning(e.c, env)
          [] e.k \in {"list", "call"} -> Meanings(e.items, env)

Assigned(x, op, e, env) ==
    LET v == Meaning(e, env)
        w == IF op = "=" \/ Fails(v) THEN v ELSE Binary("plus", env[x], v)
    IN  IF Fails(w) THEN w ELSE [env EXCEPT ![x] = w]

\* A list that is assigned to a local variable is made in the variable's slot: it
\* must not have the variable itself as an item.
ListHoldsItself(x, op, e) ==
    /\ x # "g" /\ op = "=" /\ e.k = "list"
    /\ \E i \in DOMAIN e.items : e.items[i] = [k |-> "var", v |-> x]
==============================================================================
