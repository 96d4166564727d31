----------------------------- MODULE ImportPaths -----------------------------
(***************************************************************************)
(* Which file an import means, which module a file is, and which folder a  *)
(* project (compiler/compileproject.c:121-315, 525-1800, compiler/         *)
(* scoperesolver.c:1488-1698, vfs.c:451-570).                              *)
(*                                                                         *)
(* A URI is a protocol ("" when only a path is given) and a path.  The     *)
(* world w has a project folder, a working directory, the files on the     *)
(* disk and those packed in the program (vfs), by their paths.  Memory     *)
(* never runs out, and the assertions and checks of debug builds are on.   *)
(***************************************************************************)
EXTENDS FilePaths

URI(protocol, path) == [protocol |-> protocol, path |-> path]
None == URI("none", <<>>)
OutOfMemory == URI("out of memory", <<>>)
InFolder(folder, path) == folder \o <<"/">> \o path

OnDisk(w, p) == \E f \in w.disk : f = p \/ IsPrefix(p \o <<"/">>, f)
InVfs(w, p) == \E f \in w.vfs : f = p \/ IsPrefix(p \o <<"/">>, f)
VfsNormalizePath(w, p) ==
  Normalize[IF IsAbsolutePath(p) THEN TurnIntoPathRelativeTo(p, w.cwd, w.cwd) ELSE p]
ExistsEx(w, abspath, relpath) == InVfs(w, VfsNormalizePath(w, relpath)) \/ OnDisk(w, abspath)
ExistsPacked(w, p) == InVfs(w, VfsNormalizePath(w, p))

ParseURI(uri, default) ==
  URI(IF uri.protocol # "" THEN uri.protocol ELSE IF IsAbsolutePath(uri.path) THEN "file" ELSE default,
      Normalize[uri.path])
\* A relative path is one in the program, or one from the working directory.
RelativeFileURI(w, given, path, makeabs) ==
  IF given = "" /\ ExistsPacked(w, path) THEN URI("vfs", path)
  ELSE URI("file", IF makeabs THEN Normalize[ToAbsolutePath(path, w.cwd)] ELSE path)
Located(w, given, u, makeabs) ==
  IF u.protocol = "file" /\ ~IsAbsolutePath(u.path) THEN RelativeFileURI(w, given, u.path, makeabs) ELSE u
FilePathToURI(w, uri, makeabs) == Located(w, uri.protocol, ParseURI(uri, "file"), makeabs)

Escapes(rel) == UpAt(rel, 1) /\ At(rel, 3) = "/"
IfInside(u) == IF Escapes(u.path) THEN None ELSE u
FromBase(w, base, u) ==
  IF (u.protocol = "vfs") = IsAbsolutePath(base) THEN None
  ELSE IfInside(URI(u.protocol, Normalize[TurnIntoPathRelativeTo(u.path, base, w.cwd)]))
URIRelPathToBase(w, base, uri) == FromBase(w, base, FilePathToURI(w, uri, TRUE))
ToProjectRelPathURI(w, uri) ==
  URIRelPathToBase(w, IF ParseURI(uri, "file").protocol = "vfs" THEN <<>> ELSE w.base, uri)

-----------------------------------------------------------------------------
(* The project or library a file is of, and its module *)

LibraryFolders(protocol) ==
  IF protocol = "vfs" THEN {"horse_modules_builtin", "horse_modules"} ELSE {"horse_modules"}
\* Where the name of the library ends, when the file is in one.
EndOfLibrary(path) == LastOf({i \in Slashes(path) : Cardinality({j \in Slashes(path) : j <= i}) = 2})
IsOfLibrary(u) ==
  At(u.path, 1) \in LibraryFolders(u.protocol) /\ At(u.path, 2) = "/" /\ EndOfLibrary(u.path) > 3
SubProject(root, library) == [root |-> root, library |-> library]
LibraryProject(w, protocol, folder) ==
  SubProject(URI(protocol, Normalize[IF protocol = "vfs" THEN folder ELSE Join(w.base, folder)]), From(folder, 3))
ProjectOf(w, protocol, u) ==
  IF u = None THEN SubProject(None, <<>>)
  ELSE IF IsOfLibrary(u) THEN LibraryProject(w, protocol, SubSeq(u.path, 1, EndOfLibrary(u.path) - 1))
  ELSE SubProject(URI(protocol, IF protocol = "vfs" THEN <<>> ELSE Normalize[w.base]), <<>>)
ProjectOfParsed(w, u) ==
  ProjectOf(w, u.protocol, IF u.protocol = "vfs" THEN u ELSE ToProjectRelPathURI(w, URI("", u.path)))
GetFileSubProjectURI(w, uri) == ProjectOfParsed(w, ParseURI(uri, "file"))

\* The module path of a file, with dots between its elements, and its library
Module(path, library) == [path |-> path, library |-> library]
NoModule(why) == Module(<<why>>, <<>>)
ModuleNamed(name, library) ==
  IF "." \in Range(name) THEN NoModule("dots in name")
  ELSE Module([i \in DOMAIN name |-> IF name[i] = "/" THEN "." ELSE name[i]], library)
ModuleOfFile(u, library) ==
  IF u = None THEN NoModule("outside of its project")
  ELSE IF Len(u.path) < 2 \/ Last(u.path) # ".h64" THEN NoModule("not .h64")
  ELSE ModuleNamed(Normalize[Front(u.path)], library)
ModuleInProject(w, uri, project) ==
  IF project.root = None THEN NoModule("no project")
  ELSE ModuleOfFile(URIRelPathToBase(w, project.root.path, uri), project.library)
ModuleOf(w, uri) == ModuleInProject(w, uri, GetFileSubProjectURI(w, uri))

-----------------------------------------------------------------------------
(* The file of an import *)

JoinedBy(elements, separator) ==
  FlattenSeq([i \in DOMAIN elements |-> IF i = 1 THEN <<elements[i]>> ELSE <<separator, elements[i]>>])
\* Whether the program has a module for it, of functions written in C only
DoesImportMapToCFuncs(w, elements, library) ==
  \E m \in w.cmodules :
    /\ m.path = JoinedBy(elements, ".") /\ m.library = library
    /\ m.functions > 0 /\ m.cfunctions >= m.functions

RelPath(elements) == JoinedBy(elements, "/") \o <<".h64">>
InLibrary(folder, library, elements) == InFolder(<<folder>>, InFolder(library, RelPath(elements)))
\* The path of a packed module of horse_modules was given up before it is used.
ResolveInModulesFolder(w, rel, full) ==
  IF ~ExistsEx(w, full, rel) THEN None
  ELSE IF ExistsPacked(w, rel) THEN OutOfMemory
  ELSE ParseURI(URI("file", full), "file")
ResolveInModules(w, rel) == ResolveInModulesFolder(w, rel, Join(w.base, rel))
\* As if a library in the project's folder came before the compiler's own.
ResolveInLibraryOfProject(w, library, elements) ==
  IF ResolveInModules(w, InLibrary("horse_modules", library, elements)) # None
  THEN ResolveInModules(w, InLibrary("horse_modules", library, elements))
  ELSE URI("vfs", Normalize[InLibrary("horse_modules_builtin", library, elements)])
ResolveInLibrary(w, library, elements) ==
  IF ExistsPacked(w, InLibrary("horse_modules_builtin", library, elements))
  THEN URI("vfs", Normalize[InLibrary("horse_modules_builtin", library, elements)])
  ELSE ResolveInModules(w, InLibrary("horse_modules", library, elements))

\* The name of the imported file, in bytes, is copied as if it were in wide characters:
\* no file has the name that results.
CopiedRelPath(elements) == <<"unreadable">>
\* Every folder from that of the importing file up to the project's
FoldersUpFrom(folder) ==
  LET ends == SetToSortSeq({0, Len(folder)} \cup {i - 1 : i \in Slashes(folder)}, >)
  IN [k \in DOMAIN ends |-> SubSeq(folder, 1, ends[k])]
FirstFound(w, root, rels) ==
  LET found == {k \in DOMAIN rels : ExistsEx(w, Join(root, rels[k]), rels[k])}
  IN IF found = {} THEN None
     ELSE URI("", IF ExistsPacked(w, rels[Min(found)]) THEN rels[Min(found)] ELSE Join(root, rels[Min(found)]))
SearchUp(w, root, folders, file) ==
  FirstFound(w, root, [k \in DOMAIN folders |-> InFolder(folders[k], file)])
ResolveFrom(w, project, own, elements) ==
  IF project = None \/ own = None THEN None
  ELSE SearchUp(w, project.path, FoldersUpFrom(Dirname(own.path)), CopiedRelPath(elements))
ResolveInProject(w, source, elements) ==
  ResolveFrom(w, GetFileSubProjectURI(w, source).root, ToProjectRelPathURI(w, source), elements)
ResolveImportToFile(w, source, elements, library) ==
  IF library # <<>> THEN ResolveInLibrary(w, library, elements) ELSE ResolveInProject(w, source, elements)

-----------------------------------------------------------------------------
(* The folder of a project *)

\* A folder found by its horse_modules is returned without its length, which the
\* caller has set to 0: it is taken for the working directory.
MarkedFolder(w, s) ==
  IF OnDisk(w, Join(s, <<".git">>)) THEN s ELSE IF OnDisk(w, Join(s, <<"horse_modules">>)) THEN <<>> ELSE Never
Above(s) == LET up == ParentdirOfItem(s) IN IF up = <<"/">> THEN up ELSE WithoutTrailingSlashes(up)
GuessUpFrom(w, file) ==
  LET guess[s \in Paths] ==
        IF Above(s) = s THEN Never
        ELSE LET found == MarkedFolder(w, Above(s)) IN IF found # Never THEN found ELSE guess[Above(s)]
  IN guess[file]
GuessForFile(w, full, found, cwdfallback) ==
  IF full \notin w.disk THEN Never
  ELSE IF found # Never THEN found
  ELSE IF cwdfallback /\ FolderContainsPath(w.cwd, full) THEN Normalize[w.cwd] ELSE Never
GuessFrom(w, full, cwdfallback) == GuessForFile(w, full, GuessUpFrom(w, full), cwdfallback)
FolderGuess(w, uri, cwdfallback) ==
  IF uri.protocol \notin {"", "file"} THEN Never
  ELSE GuessFrom(w, Normalize[ToAbsolutePath(Normalize[uri.path], w.cwd)], cwdfallback)
ProjectFolder(w, guessed) == Normalize[ToAbsolutePath(guessed, w.cwd)]
=============================================================================
