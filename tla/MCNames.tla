------------------------------- MODULE MCNames -------------------------------
(***************************************************************************)
(* The files and references whose names are resolved, and what has to hold *)
(* of the result.                                                          *)
(***************************************************************************)
EXTENDS NameResolution, Functions

Node(k, up, name, params) == [k |-> k, up |-> up, name |-> name, params |-> params]
DefinitionNodes ==
  {Node("var", up, n, <<>>) : up \in 1 .. 4, n \in {"a", "b"}} \cup {Node("for", up, "a", <<>>) : up \in 1 .. 4}
  \cup {Node("func", up, "", <<>>) : up \in 1 .. 4} \cup {Node("func", up, "b", <<"a">>) : up \in 1 .. 4}
UseNodes == {Node("use", up, n, <<>>) : up \in 1 .. 6, n \in {"a", "b", "self"}}

\* Names are declared once in a block, and the name of a parameter nowhere else in
\* its function: the parser reports the other files.
OpenNodes(t) == {u \in Above(t)[Len(t)] \cup {Len(t)} : u # 0 /\ t[u].k \in {"func", "for"}}
MayFollow(t, node) ==
  LET f == Max({g \in FuncsAbove(t, Len(t)) \cup {Len(t)} : g <= node.up /\ t[g].k = "func"})
  IN \/ node.k = "use"
     \/ /\ node.name = "" \/ node.k = "for" \/ ~Declares(t, node.up, node.name)
        /\ node.name \notin ToSet(t[f].params)
Grown(tables, nodes) ==
  UNION {{Append(t, node) : node \in {n \in nodes : n.up \in OpenNodes(t) /\ MayFollow(t, n)}} : t \in tables}
NameTables ==
  LET first == {<<Node("class", 0, "c", <<>>), Node("func", 1, "f", <<"a">>)>>, <<Node("func", 0, "f", <<>>)>>}
      one   == Grown(first, DefinitionNodes)
      two   == Grown(one, DefinitionNodes)
  IN {t \in Grown(Grown(one \cup two, UseNodes), UseNodes) : Errors(t) = {}}

ReferenceInputs ==
  LET paths == {<<"m">>, <<"m", "a">>, <<"m", "a", "b">>, <<"m", "b">>}
      lists == UNION {{s \in [1 .. n -> paths] : IsInjective(s)} : n \in 1 .. 3}
  IN {[chain |-> <<"m">> \o c, imports |-> [j \in DOMAIN l |-> [path |-> l[j], items |-> {"a", "b"}]]] :
        c \in UNION {[1 .. n -> {"a", "b"}] : n \in 0 .. 3}, l \in lists}
ReferenceLimit == 2

-----------------------------------------------------------------------------
(* What has to hold *)

IsDefinedIn(t, d, name) == IF IsParam(t, d, name) THEN d ELSE SurroundingFunc(t, d)
LocalsOf(t, f) == {d \in DOMAIN t : IsLocal(t, d) /\ SurroundingFunc(t, d) = f}
SlotsOf(t, slots, f) ==
  [n \in DOMAIN t[f].params |-> ParamSlot(t, f, t[f].params[n])]
  \o (IF SelfCount(t, f) = 0 THEN <<>> ELSE <<SelfSlot(t, f)>>)
  \o [n \in DOMAIN ClosureBoundVars(t, f) |-> BoundSlot(t, f, n)]
  \o LET locals == SetToSortSeq(LocalsOf(t, f), <) IN [n \in DOMAIN locals |-> slots[locals[n]]]
Needed(t, f) ==
  {d \in DOMAIN t : /\ t[d].k = "var" /\ SurroundingFunc(t, d) \in FuncsAbove(t, f)
                    /\ \E i \in DOMAIN t : IsUse(t, i) /\ f \in FuncsAbove(t, i)
                                           /\ QueryItem(t, i, t[i].name) = d}

\* Every value a function keeps has a slot of its own.
ValuesKeptApart(t, slots, f) == LocalsOf(t, f) \subseteq DOMAIN slots /\ IsInjective(SlotsOf(t, slots, f))
\* Of the names of an outer function only the variables are bound (Needed); that a use
\* of its parameters, iterators and labels reaches their values is not so in the code, and
\* nothing more is said of it than that it is not taken for a global.
UseReadsItsDefinition(t, slots, i) ==
  LET d == QueryItem(t, i, t[i].name)
      f == SurroundingFunc(t, i)
  IN IF IsDefinedIn(t, d, t[i].name) = f
     THEN StorageOf(t, slots, i) =
            [in |-> "stack", id |-> IF IsParam(t, d, t[i].name) THEN ParamSlot(t, f, t[i].name) ELSE slots[d]]
     ELSE StorageOf(t, slots, i).in = "global" <=> IsDefinedIn(t, d, t[i].name) = 0
\* The case a compiler with assertions does not survive (scoperesolver.c:922).
UsesOwnVar(t, f) ==
  \E i, d \in DOMAIN t : /\ t[d].k = "var" /\ SurroundingFunc(t, d) = f
                        /\ IsUse(t, i) /\ SurroundingFunc(t, i) = f /\ QueryItem(t, i, t[i].name) = d
NestedFuncUsesOwnVar(t) ==
  \E f \in DOMAIN t : t[f].k = "func" /\ FuncsAbove(t, f) # {} /\ UsesOwnVar(t, f)

\* The slots are those of a compiler without assertions; one with them gives the same
\* slots or stops.
NamesOfTableResolve(t) ==
  LET slots == AssignLocalStorage(t)
      funcs == {f \in DOMAIN t : t[f].k = "func"}
  IN /\ AssertionFails(t) => NestedFuncUsesOwnVar(t)
     /\ \A f \in funcs : ValuesKeptApart(t, slots, f) /\ Range(ClosureBoundVars(t, f)) = Needed(t, f)
     /\ \A i \in DOMAIN t : IsUse(t, i) => UseReadsItsDefinition(t, slots, i)

\* A reference is to the import with the longest path that leaves an item over.
ReferenceIsLongest(chain, imports) ==
  LET found == ReferenceTo(chain, imports, ReferenceLimit)
      Prefix(j) == imports[j].path # chain /\ IsPrefix(imports[j].path, chain)
  IN /\ "import" \in DOMAIN found =>
          /\ Append(imports[found.import].path, found.item) = SubSeq(chain, 1, Len(imports[found.import].path) + 1)
          /\ \A j \in DOMAIN imports : Prefix(j) => Len(imports[j].path) <= Len(imports[found.import].path)
     /\ "error" \in DOMAIN found /\ Len(chain) \in 2 .. ReferenceLimit + 1 =>
          ~\E j \in DOMAIN imports : Prefix(j)
=============================================================================
