--------------------------- MODULE CallArguments ---------------------------
(***************************************************************************)
(* How the arguments of a call reach the parameters of the function: the   *)
(* code generator lays them out on top of the stack, keyword arguments     *)
(* sorted by the number of their name (codegen.c), and CALL moves them     *)
(* into the slots of the function it enters (vmexec.c).                    *)
(*                                                                         *)
(* A function is a record: pos, the number of its parameters without a     *)
(* default, kw, the name numbers of those with one as they are declared,   *)
(* and bound, the values a closure brings along.  A call is the sequence   *)
(* of its arguments, [name |-> a name number or NoName, value |-> v].      *)
(* unpack is left out: CALL looks for the list to unpack in the slot of    *)
(* the function that is called, so no such call gets through.              *)
(***************************************************************************)
EXTENDS Integers, Sequences, SequencesExt

CONSTANTS Unspecified, ArgumentError

NoName == -1

\* The arguments from the first keyword argument on are sorted by name number.
FirstKeyword(call) ==
    LET at == {i \in DOMAIN call : call[i].name # NoName}
    IN  IF at = {} THEN Len(call) + 1 ELSE CHOOSE i \in at : \A j \in at : i <= j
InWrittenOrder(call) == call
InOrder(call) ==
    LET k == FirstKeyword(call)
    IN  SubSeq(call, 1, k - 1)
        \o SortSeq(SubSeq(call, k, Len(call)), LAMBDA a, b : a.name < b.name)

\* _codegen_call_to: what is on the stack above the temporaries at the CALL.  A
\* positional argument is copied from the place it has after sorting.
Layout(call) ==
    LET args == InOrder(call)
        Push(l, i) ==
            IF args[i].name = NoName /\ l.kwargs = 0
            THEN [l EXCEPT !.posargs = @ + 1, !.stack = Append(@, call[i].value)]
            ELSE [l EXCEPT !.kwargs = @ + 1,
                           !.stack = @ \o <<args[i].name, args[i].value>>]
    IN  FoldLeft(Push, [posargs |-> 0, kwargs |-> 0, stack |-> <<>>],
                 [i \in DOMAIN call |-> i])

\* h64program_RegisterCFunction: the keyword names of a function are kept sorted.
KwargNameIndexes(f) == SortSeq(f.kw, <)

\* kwarg_index_track_map: the keyword parameter each keyword argument is for. The
\* search goes on from the number of the argument, as both are sorted.
TrackMap(f, l) ==
    [i \in 1..l.kwargs |->
        LET name == l.stack[l.posargs + 2 * i - 1]
        IN  CHOOSE k \in i..Len(f.kw) : KwargNameIndexes(f)[k] = name]

\* No argument moves: only the name numbers are taken out.
StripNames(l) ==
    SubSeq(l.stack, 1, l.posargs) \o [i \in 1..l.kwargs |-> l.stack[l.posargs + 2 * i]]

\* The keyword arguments are put aside, each in its parameter's place, and
\* copied back above the positional ones.
Reorder(f, l) ==
    LET map == TrackMap(f, l)
        At(k) == {i \in 1..l.kwargs : map[i] = k}
    IN  SubSeq(l.stack, 1, l.posargs)
        \o [k \in 1..Len(f.kw) |->
              IF At(k) = {} THEN Unspecified
              ELSE l.stack[l.posargs + 2 * (CHOOSE i \in At(k) : TRUE)]]

\* The function's slots as CALL leaves them, or the error it raises.
EnterCall(f, l) ==
    IF l.posargs # f.pos THEN ArgumentError
    ELSE (IF l.kwargs = Len(f.kw) THEN StripNames(l) ELSE Reorder(f, l)) \o f.bound

\* The head of the function fills in what was left out. Its parameters are in the
\* slots in the order they are declared.
FillDefaults(f, slots, defaults) ==
    [i \in DOMAIN slots |->
        IF i \in (f.pos + 1)..(f.pos + Len(f.kw)) /\ slots[i] = Unspecified
        THEN defaults[i - f.pos] ELSE slots[i]]

Parameters(f, call, defaults) ==
    LET slots == EnterCall(f, Layout(call))
    IN  IF slots = ArgumentError THEN ArgumentError ELSE FillDefaults(f, slots, defaults)

------------------------------------------------------------------------------
\* What the language reference says (docs/Specification/Horse64.md:91-110): a
\* positional argument goes by its place, a keyword argument by its name.
Documented(f, call, defaults) ==
    LET posargs == SelectSeq(call, LAMBDA a : a.name = NoName)
        Given(n) == {i \in DOMAIN call : call[i].name = n}
        Value(k) == IF Given(f.kw[k]) = {} THEN defaults[k]
                    ELSE call[CHOOSE i \in Given(f.kw[k]) : TRUE].value
    IN  IF Len(posargs) # f.pos THEN ArgumentError
        ELSE [i \in DOMAIN posargs |-> posargs[i].value]
             \o [k \in DOMAIN f.kw |-> Value(k)] \o f.bound

\* Keyword parameters are declared in the order of their name numbers. For other
\* functions CALL and the head of the function disagree on the slots.
DeclaredInNameOrder(f) == \A i, j \in DOMAIN f.kw : i < j => f.kw[i] < f.kw[j]
==============================================================================
