------------------------------ MODULE MCProject ------------------------------
(***************************************************************************)
(* Projects of four files, and what has to hold when they are resolved.    *)
(***************************************************************************)
EXTENDS Naturals, Sequences, SequencesExt, FiniteSets, TLC

VARIABLE proj

Def(k, owner, name, value) == [k |-> k, owner |-> owner, name |-> name, value |-> value]
Import(of) == [of |-> of]
ItemOf == [m |-> "main", a |-> "x", b |-> "x", c |-> "K"] @@ ("C module" :> "f") @@ ("nowhere" :> "x")
DefsOf ==
  [m |-> <<Def("closure", "", "", FALSE), Def("func", "", "main", FALSE), Def("var", "K", "v", TRUE),
           Def("func", "K", "h", FALSE), Def("class", "", "K", FALSE)>>,
   a |-> <<Def("var", "", "x", TRUE)>>,
   b |-> <<Def("func", "", "main", FALSE), Def("func", "", "x", FALSE), Def("var", "", "y", FALSE)>>,
   c |-> <<Def("func", "K", "h", FALSE), Def("var", "K", "v", FALSE), Def("var", "K", "w", TRUE),
           Def("class", "", "K", FALSE), Def("class", "", "E", FALSE)>>]
FileNames == {"m", "a", "b", "c"}
FileOf(f, targets) ==
  [imports |-> [j \in DOMAIN targets |-> Import(targets[j])], defs |-> DefsOf[f], parses |-> TRUE,
   refs |-> {[via |-> j, item |-> ItemOf[targets[j]]] : j \in DOMAIN targets} \cup {[via |-> 0, item |-> ItemOf[f]]}]

\* The main file imports one or two files, the others one at most.
ImportsOfOthers ==
  {t \in [{"a", "b", "c"} -> {<<>>} \cup {<<g>> : g \in FileNames}] : \A f \in {"a", "b", "c"} : t[f] # <<f>>}
ProjectOf(targets) == [main |-> "m", files |-> [f \in FileNames |-> FileOf(f, targets[f])]]
SoundProjects == {ProjectOf(("m" :> o) @@ t) : o \in {<<"a">>, <<"a", "b">>}, t \in ImportsOfOthers}

\* One thing is wrong in one file, or it uses a function written in C.
WithImport(file, of) ==
  [file EXCEPT !.imports = Append(@, Import(of)), !.refs = @ \cup {[via |-> Len(file.imports) + 1, item |-> ItemOf[of]]}]
ChangesOf(file) ==
  {[file EXCEPT !.parses = FALSE], WithImport(file, "nowhere"), WithImport(file, "C module"),
   [file EXCEPT !.refs = @ \cup {[via |-> 0, item |-> "z"]}]}
  \cup {[file EXCEPT !.defs = <<d>> \o @] :
           d \in {Def("func", "K", "g", FALSE), Def("var", "K", "u", FALSE)}}
ChangedProjects ==
  {ProjectOf([m |-> <<"a">>, a |-> <<g>>, b |-> <<"c">>, c |-> t]) : g \in {"b", "c"}, t \in {<<>>, <<"a">>}}
Projects ==
  SoundProjects
  \cup UNION {UNION {{[p EXCEPT !.files[f] = x] : x \in ChangesOf(p.files[f])} : f \in FileNames} : p \in ChangedProjects}
  \cup {[p EXCEPT !.files["m"].defs = Tail(Tail(@)), !.files["m"].refs = {}] : p \in ChangedProjects}
SomeProject == CHOOSE p \in SoundProjects : TRUE

INSTANCE ProjectResolve WITH VarAttrLimit <- 2, FuncAttrLimit <- 2

-----------------------------------------------------------------------------
(* What has to hold *)

ImportedBy(files, f) == {g \in FileNames : \E j \in DOMAIN files[f].imports : files[f].imports[j].of = g}
Reached(files) ==
  LET reached[n \in 0 .. 3] ==
        IF n = 0 THEN {"m"} ELSE reached[n - 1] \cup UNION {ImportedBy(files, f) : f \in reached[n - 1]}
  IN reached[3]
Members(file, k) == {i \in DOMAIN file.defs : file.defs[i].owner = "K" /\ file.defs[i].k = k}
Initialised(file) == \E i \in Members(file, "var") : file.defs[i].value
Crowded(file) == Cardinality(Members(file, "func")) = 2 /\ Initialised(file)
Faulty(f, file) ==
  \/ ~file.parses
  \/ \E j \in DOMAIN file.imports : file.imports[j].of = "nowhere"
  \/ \E r \in file.refs : r.item = "z"
  \/ f = "m" /\ file.refs = {}
  \/ Cardinality(Members(file, "var")) > 2

Held(s, storage) ==
  IF storage.type = "var" THEN s.vars[storage.id]
  ELSE IF storage.type = "class" THEN s.classes[storage.id].item ELSE s.funcs[storage.id].item
ClassHolds(s, f) ==
  LET class == s.classes[s.storage[<<f, "K">>].id]
      file  == s.files[f]
  IN /\ \A i \in Members(file, "var") : class.vars[s.storage[<<f, "K", file.defs[i].name>>].id] = file.defs[i].name
     /\ \A i \in Members(file, "func") :
          s.storage[<<f, "K", file.defs[i].name>>].id \in ToSet(class.funcs)
     /\ Len(class.funcs) = Cardinality(Members(file, "func")) + (IF Initialised(file) THEN 1 ELSE 0)
ProgramHoldsFile(s, f) ==
  /\ \A i \in DOMAIN s.files[f].defs :
       LET d == s.files[f].defs[i]
       IN d.owner = "" /\ d.k # "closure" => Held(s, s.storage[<<f, d.name>>]) = <<f, d.name>>
  /\ f \in {"m", "c"} => ClassHolds(s, f)

\* The main file's imports have storage when the references to them are resolved, and so
\* do the imports of the file that refers to them, unless it was entered as an import
\* itself: what such a file imports may come too late, against the comments and the
\* assertion of scoperesolver.c:1363-1399 and :1922-1925.
IsBelowImports(files, f, g) == f # "m" /\ g \notin {"m", f} \cup ImportedBy(files, "m")
RefersBelowImports(files) ==
  \E f \in Reached(files) : \E g \in ImportedBy(files, f) : IsBelowImports(files, f, g)
HaveStorage(refs) == \A r \in refs : r.storage # Unset

\* What a resolved name refers to is its item; a name stays without storage, or stops a
\* compiler with assertions, only below the imports of the main file.
ReferencesMeanTheirItems ==
  /\ \A r \in proj.refs : IF r.storage = Unset THEN IsBelowImports(proj.files, r.file, r.to[1])
                          ELSE Held(proj, r.storage) = r.to
  /\ proj.phase = "aborted" => RefersBelowImports(proj.files)
GeneratesWhenResolved ==
  LET reached == Reached(proj.files)
      faulty  == {f \in reached : Faulty(f, proj.files[f])}
      crowded == {f \in reached : Crowded(proj.files[f])}
  IN /\ proj.phase = "generate" /\ HaveStorage(proj.refs) =>
          /\ proj.loaded = reached /\ proj.resolved = reached /\ proj.built = reached /\ proj.checked = reached
          /\ faulty \cup crowded = {} /\ proj.funcs[proj.main].item = <<"m", "main">>
          /\ \A f \in reached : ProgramHoldsFile(proj, f)
     /\ proj.phase = "error" => faulty \cup crowded # {}
     /\ proj.phase = "internal error" => crowded # {}
ProjectHolds == ReferencesMeanTheirItems /\ GeneratesWhenResolved
=============================================================================
