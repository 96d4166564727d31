--------------------------- MODULE NameResolution ---------------------------
(***************************************************************************)
(* What the names of a file stand for, and where their values are kept     *)
(* (compiler/scoperesolver.c:729-1458, compiler/varstorage.c,              *)
(* compiler/asthelpers.h).                                                 *)
(*                                                                         *)
(* A file is a table of nodes, each behind the one it is in: up is the     *)
(* number of that one, 0 for the file.  Only what names depend on is a     *)
(* node: functions (a closure without a name has the name ""), classes,    *)
(* blocks, the statements that declare a name, and the uses of names,      *)
(* where "self" is a use as well.                                          *)
(***************************************************************************)
EXTENDS Naturals, Sequences, SequencesExt, FiniteSetsExt

ScopeKinds == {"func", "block", "for", "with", "rescue"}  \* classes are left out of the search for a name
OwnNameKinds == {"for", "with", "rescue"}
LocalKinds == {"var", "func", "for", "with", "rescue"}

-----------------------------------------------------------------------------
(* What is around a node *)

Above(t) ==
  LET above[i \in 0 .. Len(t)] == IF i = 0 THEN {} ELSE {t[i].up} \cup above[t[i].up] IN above
FuncsAbove(t, i) == {j \in Above(t)[i] \ {0} : t[j].k = "func"}
SurroundingFunc(t, i) == Max(FuncsAbove(t, i) \cup {0})
ClassesAbove(t, i) == {j \in Above(t)[i] \ {0} : t[j].k = "class"}
\* The class a method is directly in.
OwnerClass(t, i) == Max({j \in ClassesAbove(t, i) : j > SurroundingFunc(t, i)} \cup {0})
InsideClosure(t, i) == Cardinality(FuncsAbove(t, i)) > 1

\* Children are visited before what they are in.
VisitedOut(t) ==
  SetToSortSeq(DOMAIN t, LAMBDA i, j : j \in Above(t)[i] \/ (i < j /\ i \notin Above(t)[j]))

-----------------------------------------------------------------------------
(* What a name stands for *)

DeclaresItself(t, s, name) == name \in ToSet(t[s].params) \/ (t[s].k \in OwnNameKinds /\ t[s].name = name)
Declares(t, s, name) ==
  \/ s # 0 /\ DeclaresItself(t, s, name)
  \/ \E i \in DOMAIN t : t[i].up = s /\ t[i].k \in {"var", "func", "class"} /\ t[i].name = name
DeclarationIn(t, s, name) ==
  IF s # 0 /\ DeclaresItself(t, s, name) THEN s
  ELSE CHOOSE i \in DOMAIN t : t[i].up = s /\ t[i].k \in {"var", "func", "class"} /\ t[i].name = name
QueryItem(t, i, name) ==
  LET scopes == {s \in Above(t)[i] : (s = 0 \/ t[s].k \in ScopeKinds) /\ Declares(t, s, name)}
  IN IF scopes = {} THEN 0 ELSE DeclarationIn(t, Max(scopes), name)
IsUse(t, i) == t[i].k = "use" /\ t[i].name # "self"

IsParam(t, d, name) == t[d].k = "func" /\ name \in ToSet(t[d].params)
Errors(t) ==
  {i \in DOMAIN t : /\ t[i].k = "use"
                    /\ IF t[i].name = "self" THEN ClassesAbove(t, i) = {} ELSE QueryItem(t, i, t[i].name) = 0}

\* A use inside a closure of a variable that belongs to a function.
BindsVar(t, i) ==
  LET d == QueryItem(t, i, t[i].name)
  IN InsideClosure(t, i) /\ d # 0 /\ t[d].k = "var" /\ SurroundingFunc(t, d) # 0
\* The closures that bind the variable for it: those around the use and within the
\* function the variable is in.
Binding(t, i) ==
  IF BindsVar(t, i)
  THEN {f \in FuncsAbove(t, i) : f > SurroundingFunc(t, QueryItem(t, i, t[i].name))} ELSE {}
\* "assert(closure != NULL && closure != localvarfunc)": where it is compiled in, which is
\* the default, the compiler stops at a use of the closure's own variable.
AssertionFails(t) ==
  \E i \in DOMAIN t :
    IsUse(t, i) /\ BindsVar(t, i) /\ SurroundingFunc(t, i) = SurroundingFunc(t, QueryItem(t, i, t[i].name))
\* A variable is bound again for each use of it.
ClosureBoundVars(t, f) ==
  LET uses == SetToSortSeq({i \in DOMAIN t : IsUse(t, i) /\ f \in Binding(t, i)}, <)
  IN [n \in DOMAIN uses |-> QueryItem(t, uses[n], t[uses[n]].name)]
ClosureWithSelf(t, f) == \E i \in DOMAIN t : t[i].k = "use" /\ t[i].name = "self" /\ SurroundingFunc(t, i) = f

-----------------------------------------------------------------------------
(* Where values are kept *)

SelfCount(t, f) == IF OwnerClass(t, f) # 0 \/ ClosureWithSelf(t, f) THEN 1 ELSE 0
\* As if the slot of self had been forgotten.
ParamUsedTempsWithoutSelf(t, f) == Len(ClosureBoundVars(t, f)) + Len(t[f].params)
ParamUsedTemps(t, f) == Len(ClosureBoundVars(t, f)) + Len(t[f].params) + SelfCount(t, f)
BoundSlot(t, f, n) == ParamUsedTemps(t, f) + n - 1
FirstFreeTemp(t, f) == ParamUsedTemps(t, f) + Len(ClosureBoundVars(t, f))

\* Definitions get the next free slot of their function, once: when they are left,
\* or before at a use of theirs.
IsLocal(t, d) == t[d].k \in LocalKinds /\ t[d].name # "" /\ SurroundingFunc(t, d) # 0
EnsureLocalDefStorage(t, slots, d) ==
  IF d = 0 \/ d \in DOMAIN slots THEN slots
  ELSE IF ~IsLocal(t, d) THEN slots
  ELSE LET f == SurroundingFunc(t, d)
           taken == {e \in DOMAIN slots : SurroundingFunc(t, e) = f}
       IN [e \in DOMAIN slots \cup {d} |-> IF e = d THEN FirstFreeTemp(t, f) + Cardinality(taken) ELSE slots[e]]
Mentioned(t, i) ==
  IF ~IsUse(t, i) THEN i
  ELSE LET d == QueryItem(t, i, t[i].name) IN IF d # 0 /\ IsParam(t, d, t[i].name) THEN 0 ELSE d
AssignLocalStorage(t) ==
  FoldLeft(LAMBDA slots, i : EnsureLocalDefStorage(t, slots, Mentioned(t, i)), <<>>, VisitedOut(t))

ParamSlot(t, f, name) == (CHOOSE n \in DOMAIN t[f].params : t[f].params[n] = name) - 1
SelfSlot(t, f) == Len(t[f].params)
StorageOf(t, slots, i) ==
  LET d == QueryItem(t, i, t[i].name)
  IN IF t[i].name = "self" THEN [in |-> "stack", id |-> SelfSlot(t, SurroundingFunc(t, i))]
     ELSE IF IsParam(t, d, t[i].name) THEN [in |-> "stack", id |-> ParamSlot(t, d, t[i].name)]
     ELSE IF d \in DOMAIN slots THEN [in |-> "stack", id |-> slots[d]]
     ELSE [in |-> "global", id |-> d]

-----------------------------------------------------------------------------
(* Uses of what other files define: a chain of names, the last of which is *)
(* never part of the module's own name.                                    *)

NoImport == 0
Fits(chain, path, accessed) == Len(path) <= accessed /\ path = SubSeq(chain, 1, Len(path))
AccessedCount(chain) == Max({1, Len(chain) - 1})
\* The statement that leaves the fewest elements over, the first of these.
MapTo(chain, imports) ==
  FoldLeft(LAMBDA best, j :
             IF /\ Fits(chain, imports[j].path, AccessedCount(chain))
                /\ best = NoImport \/ Len(imports[j].path) > Len(imports[best].path)
             THEN j ELSE best,
           NoImport, [j \in DOMAIN imports |-> j])
ReferenceTo(chain, imports, limit) ==
  LET j == MapTo(chain, imports)
  IN IF Len(chain) = 1 THEN [error |-> "import used on its own"]
     ELSE IF AccessedCount(chain) > limit THEN [error |-> "chain too long"]
     ELSE IF j = NoImport THEN [error |-> "not imported"]
     ELSE LET item == chain[Len(imports[j].path) + 1]
          IN IF item \notin imports[j].items THEN [error |-> "not in module"]
             ELSE [import |-> j, item |-> item]
=============================================================================
