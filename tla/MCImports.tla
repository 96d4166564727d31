------------------------------ MODULE MCImports ------------------------------
(***************************************************************************)
(* Paths of up to four components, worlds of a few files, and what paths   *)
(* and imports have to mean in them.                                       *)
(***************************************************************************)
EXTENDS ImportPaths

-----------------------------------------------------------------------------
(* Paths *)

Path(components) == FlattenSeq([i \in DOMAIN components |-> IF i = 1 THEN components[i] ELSE <<"/">> \o components[i]])
Up == <<".", ".">>
PathsOf(names, n) == UNION {{Path(c) : c \in [1 .. k -> names]} : k \in 0 .. n}
ManyPaths ==
  LET relative == PathsOf({<<"a">>, <<"b">>, <<".">>, Up, <<>>}, 4) IN relative \cup {<<"/">> \o p : p \in relative}
SomePaths == LET relative == PathsOf({<<"a">>, <<".">>, Up}, 2) IN relative \cup {<<"/">> \o p : p \in relative}
Folders == {<<"/">> \o p : p \in PathsOf({<<"a">>, <<"b">>, <<"a", "b">>}, 3)} \ {<<"/">>}

\* What a path means: where it starts, how far up it goes, and the way down
Components(p) ==
  FoldLeft(LAMBDA r, c : IF c = "/" THEN Append(r, <<>>) ELSE Append(Front(r), Append(Last(r), c)), <<<<>>>>, p)
Place(p) ==
  FoldLeft(LAMBDA a, c : IF c \in {<<>>, <<".">>} THEN a
                         ELSE IF c # Up THEN [a EXCEPT !.names = Append(@, c)]
                         ELSE IF a.names # <<>> THEN [a EXCEPT !.names = Front(@)]
                         ELSE IF a.root THEN a ELSE [a EXCEPT !.ups = @ + 1],
           [root |-> IsAbsolutePath(p), ups |-> 0, names |-> <<>>], Components(p))

\* Normalising a relative path takes "./.." for nothing, and a second ".." that takes
\* a name away leaves a letter of it; the root becomes the empty path.
Misnormalized(p) ==
  /\ ~IsAbsolutePath(p)
  /\ LET c == Components(RemoveDoubleSlashes(p))
     IN \/ c[1] = <<".">> /\ Len(c) > 1 /\ c[2] = Up
        \/ /\ Cardinality({i \in DOMAIN c : c[i] = Up}) > 1
           /\ \E i \in DOMAIN c : c[i] = Up /\ i > 1 /\ c[i - 1] # Up
PathKeepsItsPlace(p) ==
  /\ ~Misnormalized(p) =>
       Place(Normalize[p]) = Place(p) \/ (Place(p) = Place(<<"/">>) /\ Normalize[p] = <<>>)
  /\ DOMAIN p # Slashes(p) => Place(ParentdirOfItem(p) \o Basename(p)) = Place(p)
  /\ Dirname(p) # <<>> => Place(InFolder(Dirname(p), Basename(p))) = Place(p)
JoinedPathIsBehind(p, q) ==
  ~(At(q, 1) = "." /\ At(q, 2) = "/") /\ (p = <<>> => ~IsAbsolutePath(q)) =>
    Place(Join(p, q)) = Place(IF p = <<>> THEN q ELSE InFolder(p, q))

\* A path under the base leads there from the base.  One that is not may be given as
\* if it were, unless it has fewer components.
RelativePathLeadsThere(base, p) ==
  LET rel == TurnIntoPathRelativeTo(p, base, <<"/", "c">>)
  IN /\ IsPrefix(base \o <<"/">>, p) => Place(Join(base, rel)) = Place(p) /\ ~UpAt(rel, 1)
     /\ GetComponentCount(p) < GetComponentCount(base) => UpAt(rel, 1)

-----------------------------------------------------------------------------
(* Imports *)

Base == <<"/", "p">>
Source == <<"/", "p", "/", "s", "/", "t", "/", "main", ".h64">>
Libraries == {<<"l">>, <<"my", ".", "l">>}
ElementLists == {<<"m">>, <<"n", "m">>}
LibraryFiles == {InFolder(Base, InLibrary("horse_modules", l, e)) : l \in Libraries, e \in ElementLists}
OwnFiles == {Source, InFolder(Base, <<"s", "/", "m", ".h64">>), InFolder(Base, <<"m", ".h64">>)}
VfsFiles == {InLibrary(f, <<"l">>, <<"m">>) : f \in {"horse_modules_builtin", "horse_modules"}}
CModules ==
  {[path |-> <<"n", ".", "m">>, library |-> <<"l">>, functions |-> c + h, cfunctions |-> c] : c \in 0 .. 2, h \in 0 .. 1}
World(cwd, disk, vfs, cmodules) ==
  [base |-> Base, cwd |-> cwd, disk |-> disk \cup OwnFiles, vfs |-> vfs, cmodules |-> cmodules]
Worlds ==
  {World(cwd, disk, vfs, {}) : cwd \in {Base, <<"/", "q">>}, disk \in SUBSET LibraryFiles, vfs \in SUBSET VfsFiles}

\* A module that only a packed horse_modules has: its path is given up before it is used
\* and memory is said to be short (compileproject.c:1177-1200), though such a module was
\* to be found (961-966).
LostWhenFound(w, elements, library) ==
  /\ InLibrary("horse_modules_builtin", library, elements) \notin w.vfs
  /\ InLibrary("horse_modules", library, elements) \in w.vfs
\* The file of an import from a library is one of a module of that name in that library,
\* and the one that comes with the compiler if there is one.  An import without a library
\* is the file of that name in a folder from the importing file's up to the project's, if
\* it finds one at all: that it finds none (compileproject.c:1401, 1412) is not asked for.
NamesItsModule(w, elements, library, file, own) ==
  LET builtin == InLibrary("horse_modules_builtin", library, elements)
      ondisk  == InFolder(Base, InLibrary("horse_modules", library, elements))
      above   == {URI("file", InFolder(f, RelPath(elements))) : f \in {Base, InFolder(Base, <<"s">>), Dirname(Source)}}
  IN /\ \/ LostWhenFound(w, elements, library)
        \/ file = IF builtin \in w.vfs THEN URI("vfs", builtin)
                  ELSE IF ondisk \in w.disk THEN URI("file", ondisk) ELSE None
     /\ file.protocol \in {"file", "vfs"} =>
          ModuleOf(w, file) = [path |-> JoinedBy(elements, "."), library |-> library]
     /\ own \in above \cup {None}
ImportNamesItsModule(w, elements, library) ==
  NamesItsModule(w, elements, library,
    ResolveImportToFile(w, URI("file", Source), elements, library),
    ResolveImportToFile(w, URI("file", Source), elements, <<>>))
\* The files of a project are different modules, but for those replaced by the compiler's.
ModulesDiffer(w) ==
  LET lm       == InLibrary("horse_modules_builtin", <<"l">>, <<"m">>)
      packed   == w.vfs \ {InLibrary("horse_modules", <<"l">>, <<"m">>)}
      replaced == IF lm \in w.vfs THEN {InFolder(Base, InLibrary("horse_modules", <<"l">>, <<"m">>))} ELSE {}
      files    == {URI("file", f) : f \in w.disk \ replaced} \cup {URI("vfs", f) : f \in packed}
  IN Cardinality({ModuleOf(w, f) : f \in files}) = Cardinality(files)
CImportIsOfC(w) ==
  DoesImportMapToCFuncs(w, <<"n", "m">>, <<"l">>) <=> \E m \in w.cmodules : m.functions = m.cfunctions /\ m.functions > 0

-----------------------------------------------------------------------------
(* The folder of a project *)

Marks == {<<>>, <<"p">>, <<"p", "/", "s">>}
MarkIn(folder, mark) == (IF folder = <<>> THEN <<>> ELSE <<"/">> \o folder) \o <<"/", mark, "/", "x">>
GuessWorlds ==
  {World(cwd, {MarkIn(f, ".git") : f \in git} \cup {MarkIn(f, "horse_modules") : f \in modules}, {}, {}) :
     cwd \in {Base, <<"/", "q", "/", "r">>}, git \in SUBSET Marks, modules \in SUBSET Marks}
\* The innermost folder above the file that has either mark is the project's, and the
\* working directory if none has one and the file is in it.  Nothing is asked for when
\* that folder has horse_modules only: its path is returned without a length
\* (MarkedFolder); nor when the file is not in the working directory, which may be
\* taken all the same, only the lengths of the two paths being compared.
IsInnermost(w, fallback, guess, given) ==
  LET Has(f, mark) == MarkIn(f, mark) \in w.disk
      marked == {f \in Marks : Has(f, ".git") \/ Has(f, "horse_modules")}
      inner  == CHOOSE f \in marked : \A g \in marked : Len(g) <= Len(f)
  IN /\ marked # {} /\ Has(inner, ".git") => ProjectFolder(w, guess) = Normalize[<<"/">> \o inner]
     /\ marked = {} /\ ~fallback => guess = Never
     /\ marked = {} /\ fallback /\ w.cwd = Base => guess = w.cwd
     /\ w.cwd = Base => given = guess
GuessIsInnermost(w, fallback) ==
  /\ IsInnermost(w, fallback, FolderGuess(w, URI("", Source), fallback),
       FolderGuess(w, URI("", TurnIntoPathRelativeTo(Source, w.cwd, w.cwd)), fallback))
  /\ FolderGuess(w, URI("", InFolder(Base, <<"no", ".h64">>)), fallback) = Never

-----------------------------------------------------------------------------
ImportInputs ==
  {[q |-> "path", p |-> p] : p \in ManyPaths}
  \cup {[q |-> "join", p |-> p, to |-> t] : p \in SomePaths, t \in SomePaths}
  \cup {[q |-> "relative", p |-> p, to |-> b] : p \in Folders, b \in Folders}
  \cup {[q |-> "import", w |-> w, of |-> e, from |-> l] : w \in Worlds, e \in ElementLists, l \in Libraries}
  \cup {[q |-> "modules", w |-> w] : w \in Worlds \cup {World(Base, {}, {}, {m}) : m \in CModules}}
  \cup {[q |-> "guess", w |-> w, fallback |-> b] : w \in GuessWorlds, b \in BOOLEAN}
ImportsHold(input) ==
  CASE input.q = "path" -> PathKeepsItsPlace(input.p)
    [] input.q = "join" -> JoinedPathIsBehind(input.p, input.to)
    [] input.q = "relative" -> RelativePathLeadsThere(input.to, input.p)
    [] input.q = "import" -> ImportNamesItsModule(input.w, input.of, input.from)
    [] input.q = "modules" -> ModulesDiffer(input.w) /\ CImportIsOfC(input.w)
    [] input.q = "guess" -> GuessIsInnermost(input.w, input.fallback)
=============================================================================
