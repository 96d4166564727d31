--------------------------- MODULE ProjectResolve ---------------------------
(***************************************************************************)
(* How the files of a project are found, entered into the program and      *)
(* resolved before code is generated (compiler/compileproject.c:317-458,   *)
(* 1802-1993, compiler/scoperesolver.c:92-633, 1472-2345, bytecode.c:      *)
(* 309-450, 799-1315).                                                     *)
(*                                                                         *)
(* A file has imports, definitions in the order they are left by a walk    *)
(* over the tree, a class behind what is in it, and references to its own  *)
(* items (via 0) or to those of one of its imports, no two of which start  *)
(* with the same name.  Passes go over the files in the order of a hash    *)
(* map with a random key.  Memory never runs out.                          *)
(***************************************************************************)
EXTENDS Naturals, Sequences, SequencesExt, FiniteSetsExt, TLC

CONSTANTS
  Projects,        \* [main, files], files a function from names to files
  VarAttrLimit,    \* H64LIMIT_MAX_CLASS_VARATTRS
  FuncAttrLimit    \* H64LIMIT_MAX_CLASS_FUNCATTRS

VARIABLE proj

Nowhere == "nowhere"     \* an import no file is found for
CModule == "C module"    \* an import of functions written in C
NoClass == 0
Unset == [type |-> "unset", id |-> 0]

NewProject(p) ==
  [files |-> p.files, mainfile |-> p.main, phase |-> "resolve",
   loaded |-> {p.main}, built |-> {}, resolved |-> {}, checked |-> {},
   todo |-> {p.main}, known |-> {p.main}, mainseen |-> FALSE,
   errors |-> IF p.files[p.main].parses THEN {} ELSE {p.main},
   vars |-> <<>>, classes |-> <<>>, funcs |-> <<[item |-> <<CModule, "f">>, class |-> NoClass]>>,
   storage |-> (<<CModule, "f">> :> [type |-> "func", id |-> 1]), main |-> 0, refs |-> {}]
ProjectInit == proj \in {NewProject(p) : p \in Projects}

Failed(s, f) == [s EXCEPT !.errors = @ \cup {f}]
Stored(s, item, type, id) == [s EXCEPT !.storage = (item :> [type |-> type, id |-> id]) @@ @]

-----------------------------------------------------------------------------
(* The items of a file in the program *)

AddGlobalvar(s, f, d) ==
  Stored([s EXCEPT !.vars = Append(@, <<f, d.name>>)], <<f, d.name>>, "var", Len(s.vars) + 1)
AddClass(s, f, name) ==
  IF <<f, name>> \in DOMAIN s.storage THEN s
  ELSE Stored([s EXCEPT !.classes = Append(@, [item |-> <<f, name>>, vars |-> <<>>, funcs |-> <<>>, varinit |-> 0])],
              <<f, name>>, "class", Len(s.classes) + 1)
ClassId(s, f, name) == s.storage[<<f, name>>].id
RegisterMethod(s, class, id) == [s EXCEPT !.classes[class].funcs = Append(@, id)]
RegisterFunction(s, item, class) ==
  LET t == [s EXCEPT !.funcs = Append(@, [item |-> item, class |-> class])]
  IN IF class = NoClass THEN t ELSE RegisterMethod(t, class, Len(t.funcs))
EnsureVarInit(s, f, class) ==
  IF s.classes[class].varinit # 0 THEN s
  ELSE IF Len(s.classes[class].funcs) = FuncAttrLimit THEN [s EXCEPT !.phase = "internal error"]
  ELSE [RegisterFunction(s, <<f, "$$varinit">>, class) EXCEPT !.classes[class].varinit = Len(s.funcs) + 1]

AddClassVar(s, f, d) ==
  LET t     == AddClass(s, f, d.owner)
      class == ClassId(t, f, d.owner)
      vars  == Append(t.classes[class].vars, d.name)
      added == Stored([t EXCEPT !.classes[class].vars = vars], <<f, d.owner, d.name>>, "varattr", Len(vars))
  IN IF Len(vars) > VarAttrLimit THEN Failed(t, f)
     ELSE IF d.value THEN EnsureVarInit(added, f, class) ELSE added
AddMethod(s, f, d) ==
  LET t     == AddClass(s, f, d.owner)
      class == ClassId(t, f, d.owner)
      item  == <<f, d.owner, d.name>>
  IN IF Len(t.classes[class].funcs) + 1 > FuncAttrLimit THEN Failed(t, f)
     ELSE Stored(RegisterFunction(t, item, class), item, "func", Len(t.funcs) + 1)
AddGlobalFunc(s, f, d, extractmain) ==
  LET t == Stored(RegisterFunction(s, <<f, d.name>>, NoClass), <<f, d.name>>, "func", Len(s.funcs) + 1)
  IN IF d.name = "main" /\ extractmain THEN [t EXCEPT !.main = Len(t.funcs)] ELSE t
ComputeItemStorage(s, f, d, extractmain) ==
  CASE d.k = "class" -> AddClass(s, f, d.name)
    [] d.k = "var" /\ d.owner = "" -> AddGlobalvar(s, f, d)
    [] d.k = "var" /\ d.owner # "" -> AddClassVar(s, f, d)
    [] d.k = "func" /\ d.owner = "" -> AddGlobalFunc(s, f, d, extractmain)
    [] d.k = "func" /\ d.owner # "" -> AddMethod(s, f, d)
    [] d.k = "closure" -> RegisterFunction(s, <<f, "closure">>, NoClass)

-----------------------------------------------------------------------------
(* A file and its imports *)

GetAST(s, g) ==
  IF g \in s.loaded THEN s
  ELSE [s EXCEPT !.loaded = @ \cup {g}, !.errors = IF s.files[g].parses THEN @ ELSE @ \cup {g}]
LoadImports(s, f) ==
  FoldSet(LAMBDA j, t : LET g == s.files[f].imports[j].of
                        IN IF g = CModule THEN t ELSE IF g = Nowhere THEN Failed(t, f) ELSE GetAST(t, g),
          s, DOMAIN s.files[f].imports)
BuildOwnStorage(s, f, extractmain) ==
  IF f \in s.built THEN s
  ELSE FoldLeft(LAMBDA t, d : ComputeItemStorage(t, f, d, extractmain),
                LoadImports([s EXCEPT !.built = @ \cup {f}], f), s.files[f].defs)
FilesOfImports(s, f) ==
  {s.files[f].imports[j].of : j \in DOMAIN s.files[f].imports} \cap s.loaded
\* As if only the file itself had been entered.
BuildASTGlobalStorageAlone(s, f, extractmain) == BuildOwnStorage(s, f, extractmain)
\* The storage of what a file imports is built with its own, or not at all when that is there.
BuildASTGlobalStorage(s, f, extractmain) ==
  IF f \in s.built THEN s
  ELSE LET t == BuildOwnStorage(s, f, extractmain)
       IN FoldSet(LAMBDA g, u : BuildOwnStorage(u, g, FALSE), t, FilesOfImports(t, f))

ReferredFile(file, r, f) == IF r.via = 0 THEN f ELSE file.imports[r.via].of
IsIn(s, g, name) ==
  IF g = CModule THEN name = "f" ELSE \E i \in DOMAIN s.files[g].defs : s.files[g].defs[i].owner = "" /\ s.files[g].defs[i].name = name
StorageNow(s, item) == IF item \in DOMAIN s.storage THEN s.storage[item] ELSE Unset
ReferencesFound(s, f) ==
  {r \in s.files[f].refs : IsIn(s, ReferredFile(s.files[f], r, f), r.item)}
StorageOfReference(s, f, r) == StorageNow(s, <<ReferredFile(s.files[f], r, f), r.item>>)
ResolveIdentifiers(s, f) ==
  LET t == [s EXCEPT !.refs = @ \cup {[file |-> f, to |-> <<ReferredFile(s.files[f], r, f), r.item>>,
                                       storage |-> StorageOfReference(s, f, r)] : r \in ReferencesFound(s, f)}]
  IN IF ReferencesFound(s, f) = s.files[f].refs THEN [t EXCEPT !.checked = @ \cup {f}] ELSE Failed(t, f)
BuiltForResolving(s, f) == BuildASTGlobalStorage([s EXCEPT !.resolved = @ \cup {f}], f, f = s.mainfile)
ResolveAST(s, f) ==
  IF f \in s.resolved \/ s.errors # {} THEN s
  ELSE LET t == BuiltForResolving(s, f)
       IN IF t.errors # {} THEN t
          ELSE LET lacksmain == f = s.mainfile /\ t.main = 0
                   u == ResolveIdentifiers(t, f)
               IN IF lacksmain THEN [Failed(u, f) EXCEPT !.checked = @ \ {f}] ELSE u

\* An item that has no storage is an error of some file, an assertion says: a compiler
\* that has assertions stops at a reference to it when nothing was reported before.
AssertionFails(s, f) ==
  /\ f \notin s.resolved /\ s.errors = {}
  /\ LET t == BuiltForResolving(s, f)
     IN t.errors = {} /\ \E r \in ReferencesFound(t, f) : StorageOfReference(t, f, r) = Unset

-----------------------------------------------------------------------------
(* All files *)

\* _resolveallcb, for the next file of the pass
ResolveNext ==
  /\ proj.phase = "resolve"
  /\ \E f \in proj.todo :
       proj' = [ResolveAST(proj, f) EXCEPT !.todo = @ \ {f}, !.mainseen = @ \/ f = proj.mainfile]
ResolveAborts ==
  /\ proj.phase = "resolve"
  /\ \E f \in proj.todo : AssertionFails(proj, f)
  /\ proj' = [proj EXCEPT !.phase = "aborted"]
\* New files make another pass over all files.
NextPassOfFiles ==
  /\ proj.phase = "resolve" /\ proj.todo = {} /\ proj.known # proj.loaded
  /\ proj' = [proj EXCEPT !.known = proj.loaded, !.todo = proj.loaded, !.mainseen = FALSE]
FinishFiles ==
  /\ proj.phase = "resolve" /\ proj.todo = {} /\ proj.known = proj.loaded
  /\ proj' = [proj EXCEPT !.phase = IF ~proj.mainseen THEN "internal error"
                                    ELSE IF proj.errors # {} THEN "error" ELSE "generate"]
ProjectNext == ResolveNext \/ ResolveAborts \/ NextPassOfFiles \/ FinishFiles
=============================================================================
