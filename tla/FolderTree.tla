----------------------------- MODULE FolderTree ------------------------------
(***************************************************************************)
(* Removing and creating folders with all they hold: RemoveFileOrEmptyDir, *)
(* ListFolderEx, RemoveFolderRecursively, CreateDirectory, TargetExists    *)
(* and CreateDirectoryRecursively of filesys32.c (397-1077, 1210-1395,     *)
(* 2968-3079), as built for Linux.                                         *)
(*                                                                         *)
(* A path is the sequence of its components, of the root or the working    *)
(* directory.  The calls run at the same time and share the disk; a step   *)
(* is one call of the operating system with what is decided after it.      *)
(* Reading all entries of an open folder is one step, and memory never     *)
(* runs out.                                                               *)
(***************************************************************************)
EXTENDS Integers, Sequences, FiniteSets, SequencesExt, Functions

VARIABLE disk   \* tree: what lies where; start: the same at the start
                \* denied: entries the process may not remove
                \* descriptors: how many can still be opened
                \* calls: the calls that run

-----------------------------------------------------------------------------
(* The operating system: each call has an errno, "OK" when it did what it was asked. *)

\* open and make: the errno of opening it, and of creating a folder in it, as its
\* permissions or a file system that is read-only give it.
FolderWith(open, make) == [k |-> "dir", open |-> open, make |-> make]
FileWith(open) == [k |-> "file", open |-> open]
AnyFolder == {FolderWith(open, make) : open \in {"OK", "EACCES"}, make \in {"OK", "EACCES", "EROFS"}}
AnyFile == {FileWith(open) : open \in {"OK", "EACCES"}}
Dir == FolderWith("OK", "OK")
File == FileWith("OK")
LinkTo(path) == [k |-> "link", to |-> path]

KindAt(tree, at) == IF at = <<>> THEN "dir" ELSE IF at \in DOMAIN tree THEN tree[at].k ELSE "none"
Follow(tree, at) == IF KindAt(tree, at) = "link" THEN tree[at].to ELSE at
\* Where a path leads, with all links on the way followed
Leads(tree, path) ==
  LET way[n \in 0 .. Len(path)] ==
        IF n = 0 THEN <<>>
        ELSE IF KindAt(tree, way[n - 1]) = "dir" THEN Follow(tree, Append(way[n - 1], path[n]))
        ELSE way[n - 1]
  IN way[Len(path)]
EntryAt(tree, path) == Append(Leads(tree, Front(path)), Last(path))
WayError(tree, path) ==
  CASE KindAt(tree, Leads(tree, Front(path))) = "dir" -> "OK"
    [] KindAt(tree, Leads(tree, Front(path))) = "file" -> "ENOTDIR"
    [] OTHER -> "ENOENT"
Names(tree, folder) == {p \in DOMAIN tree : Len(p) = Len(folder) + 1 /\ IsPrefix(folder, p)}

RemoveErrno(d, path) ==
  LET entry == EntryAt(d.tree, path)
  IN IF WayError(d.tree, path) # "OK" THEN WayError(d.tree, path)
     ELSE IF KindAt(d.tree, entry) = "none" THEN "ENOENT"
     ELSE IF entry \in d.denied THEN "EACCES"
     ELSE IF KindAt(d.tree, entry) = "dir" /\ Names(d.tree, entry) # {} THEN "ENOTEMPTY"
     ELSE "OK"
AfterRemove(d, path) ==
  IF RemoveErrno(d, path) = "OK"
  THEN [d EXCEPT !.tree = Restrict(@, DOMAIN @ \ {EntryAt(d.tree, path)})] ELSE d
OpenErrno(d, path) ==
  IF d.descriptors = 0 THEN "EMFILE"
  ELSE IF WayError(d.tree, path) # "OK" THEN WayError(d.tree, path)
  ELSE IF KindAt(d.tree, EntryAt(d.tree, path)) = "none" THEN "ENOENT"
  ELSE IF KindAt(d.tree, EntryAt(d.tree, path)) = "link" THEN "ELOOP"
  ELSE d.tree[EntryAt(d.tree, path)].open
Refusal(tree, folder) == IF folder = <<>> THEN "OK" ELSE tree[folder].make
MkdirErrno(d, path) ==
  IF WayError(d.tree, path) # "OK" THEN WayError(d.tree, path)
  ELSE IF KindAt(d.tree, EntryAt(d.tree, path)) # "none" THEN "EEXIST"
  ELSE Refusal(d.tree, Leads(d.tree, Front(path)))
WithDir(tree, at) == [p \in DOMAIN tree \cup {at} |-> IF p = at THEN Dir ELSE tree[p]]
AfterMkdir(d, path) ==
  IF MkdirErrno(d, path) = "OK" THEN [d EXCEPT !.tree = WithDir(@, EntryAt(d.tree, path))] ELSE d

-----------------------------------------------------------------------------
(* What filesys32.c makes of it *)

RemoveFileOrEmptyDir(d, path) ==
  CASE RemoveErrno(d, path) = "OK" -> "SUCCESS"
    [] RemoveErrno(d, path) = "EACCES" -> "NOPERMISSION"
    [] RemoveErrno(d, path) = "ENOTEMPTY" -> "NONEMPTYDIRECTORY"
    [] OTHER -> "NOSUCHTARGET"
\* A path that is not there is OTHERERROR.  The descriptor of a file is not closed
\* when it turns out not to be a folder.
ListFolder(d, path) ==
  CASE OpenErrno(d, path) = "EMFILE" -> "OUTOFFDS"
    [] OpenErrno(d, path) = "EACCES" -> "NOPERMISSION"
    [] OpenErrno(d, path) = "ELOOP" -> "SYMLINKSWEREEXCLUDED"
    [] OpenErrno(d, path) \in {"ENOENT", "ENOTDIR"} -> "OTHERERROR"
    [] OTHER -> IF KindAt(d.tree, EntryAt(d.tree, path)) = "file" THEN "TARGETNOTADIRECTORY" ELSE "SUCCESS"
AfterList(d, path) ==
  IF ListFolder(d, path) = "TARGETNOTADIRECTORY" THEN [d EXCEPT !.descriptors = @ - 1] ELSE d
\* The entries in any order, under the path that was given
Listings(d, path) ==
  {[i \in DOMAIN s |-> Append(path, Last(s[i]))] : s \in SetToSeqs(Names(d.tree, EntryAt(d.tree, path)))}
CreateDirectory(d, path) ==
  CASE MkdirErrno(d, path) = "OK" -> "SUCCESS"
    [] MkdirErrno(d, path) = "EACCES" -> "NOPERMISSION"
    [] MkdirErrno(d, path) = "EEXIST" -> "TARGETALREADYEXISTS"
    [] MkdirErrno(d, path) = "ENOENT" -> "PARENTSDONTEXIST"
    [] OTHER -> "OTHERERROR"
TargetExists(d, path) == KindAt(d.tree, Leads(d.tree, path)) # "none" /\ (path = <<>> \/ WayError(d.tree, path) = "OK")

-----------------------------------------------------------------------------
(* RemoveFolderRecursively: at "scan" and "item" with the item of the       *)
(* queue before scan, or the target itself when that is 0; at "rest" with  *)
(* the last k of the queue done; at "target".                              *)

Remover(path) ==
  [what |-> "remove", path |-> path, at |-> "scan", queue |-> <<>>, scan |-> 0, k |-> 0, error |-> "SUCCESS"]
ScanNext(c) == IF c.scan = 0 THEN c.path ELSE c.queue[c.scan]
Ended(c, error) == [c EXCEPT !.at = "done", !.error = error]
\* The first error is kept, but one that something is not there is not.
Noting(c, error) ==
  IF c.error = "SUCCESS" /\ error # "NOSUCHTARGET" THEN [c EXCEPT !.error = error] ELSE c
ToRest(c) == [c EXCEPT !.at = IF c.queue = <<>> THEN "target" ELSE "rest", !.k = Len(c.queue)]
ToNext(c) == IF c.scan < Len(c.queue) THEN [c EXCEPT !.at = "scan", !.scan = @ + 1] ELSE ToRest(c)
\* As if the search went on behind the item that takes its place.
UnqueuedWithoutStepBack(c) ==
  IF c.scan \in 1 .. Len(c.queue) - 1 THEN [c EXCEPT !.queue = RemoveAt(@, c.scan)] ELSE c
\* What is removed leaves the queue, unless it is the last in it.
Unqueued(c) ==
  IF c.scan \in 1 .. Len(c.queue) - 1 THEN [c EXCEPT !.queue = RemoveAt(@, c.scan), !.scan = @ - 1] ELSE c

ScanResults(d, c) ==
  LET result == ListFolder(d, ScanNext(c))
  IN CASE result = "SUCCESS" -> {ToNext([c EXCEPT !.queue = @ \o more]) : more \in Listings(d, ScanNext(c))}
       [] result = "TARGETNOTADIRECTORY" /\ c.scan = 0 -> {Ended(c, result)}
       [] (result = "TARGETNOTADIRECTORY" /\ c.scan # 0) \/ result = "SYMLINKSWEREEXCLUDED" ->
            {[c EXCEPT !.at = "item"]}
       [] OTHER -> {ToNext(Noting(c, result))}
Set(d, i, c) == [d EXCEPT !.calls[i] = c]
ScanItem(i) ==
  LET c == disk.calls[i]
  IN /\ c.at = "scan"
     /\ \E next \in ScanResults(disk, c) : disk' = Set(AfterList(disk, ScanNext(c)), i, next)
RemoveItem(i) ==
  LET c == disk.calls[i]
  IN /\ c.at = "item"
     /\ disk' = Set(AfterRemove(disk, ScanNext(c)), i,
                    ToNext(Unqueued(Noting(c, RemoveFileOrEmptyDir(disk, ScanNext(c))))))
RemoveRest(i) ==
  LET c == disk.calls[i]
      noted == Noting(c, RemoveFileOrEmptyDir(disk, c.queue[c.k]))
  IN /\ c.at = "rest"
     /\ disk' = Set(AfterRemove(disk, c.queue[c.k]), i,
                    [noted EXCEPT !.k = @ - 1, !.at = IF c.k = 1 THEN "target" ELSE "rest"])
RemoveTarget(i) ==
  LET c == disk.calls[i]
  IN /\ c.at = "target"
     /\ disk' = Set(AfterRemove(disk, c.path), i,
                    Ended(c, Noting(c, RemoveFileOrEmptyDir(disk, c.path)).error))

-----------------------------------------------------------------------------
(* CreateDirectoryRecursively: at "look" whether the first k components    *)
(* are there, at "make" to create the folder of the first k.               *)

Creator(path) == [what |-> "create", path |-> path, at |-> "look", k |-> Len(path), error |-> "SUCCESS"]
Part(c) == SubSeq(c.path, 1, c.k)
ToMake(c) == IF c.k = Len(c.path) THEN Ended(c, "SUCCESS") ELSE [c EXCEPT !.at = "make", !.k = @ + 1]
Look(i) ==
  LET c == disk.calls[i]
  IN /\ c.at = "look"
     /\ disk' = Set(disk, i, IF TargetExists(disk, Part(c)) THEN ToMake(c) ELSE [c EXCEPT !.k = @ - 1])
Make(i) ==
  LET c == disk.calls[i]
      result == CreateDirectory(disk, Part(c))
  IN /\ c.at = "make"
     /\ disk' = Set(AfterMkdir(disk, Part(c)), i,
                    IF result \in {"SUCCESS", "TARGETALREADYEXISTS"} THEN ToMake(c) ELSE Ended(c, result))

-----------------------------------------------------------------------------
NewDisk(tree, denied, descriptors, calls) ==
  [tree |-> tree, start |-> tree, denied |-> denied, descriptors |-> descriptors, calls |-> calls]
DiskNext ==
  \E i \in DOMAIN disk.calls :
    ScanItem(i) \/ RemoveItem(i) \/ RemoveRest(i) \/ RemoveTarget(i) \/ Look(i) \/ Make(i)
-----------------------------------------------------------------------------
(* What the calls may start from: a tree, in which everything lies in a     *)
(* folder, and calls that have done nothing yet.                            *)

Component == STRING
Paths == Seq(Component)
IsTree(tree) ==
  /\ tree = [p \in DOMAIN tree |-> tree[p]] /\ IsFiniteSet(DOMAIN tree)
  /\ \A p \in DOMAIN tree :
        /\ p \in Paths \ {<<>>} /\ KindAt(tree, Front(p)) = "dir"
        /\ \/ tree[p] \in AnyFolder \cup AnyFile
           \/ tree[p] = LinkTo(tree[p].to) /\ tree[p].to \in Paths
IsStart(d) ==
  /\ d = NewDisk(d.tree, d.denied, d.descriptors, d.calls)
  /\ IsTree(d.tree)
  /\ d.calls = [i \in DOMAIN d.calls |-> d.calls[i]]
  /\ \A i \in DOMAIN d.calls :
        /\ d.calls[i].path \in Paths \ {<<>>}
        /\ d.calls[i] \in {Remover(d.calls[i].path), Creator(d.calls[i].path)}
DiskSpec == IsStart(disk) /\ [][DiskNext]_disk

Calls == {disk.calls[i] : i \in DOMAIN disk.calls}
Beneath(p, q) == IsPrefix(q, p)
NoLinkAbove(tree, path) == \A n \in 1 .. Len(path) - 1 : KindAt(tree, SubSeq(path, 1, n)) # "link"
Removed == {c.path : c \in {d \in Calls : d.what = "remove"}}
Created == UNION {{SubSeq(c.path, 1, n) : n \in 1 .. Len(c.path)} : c \in {d \in Calls : d.what = "create"}}
Denied == disk.denied \cap DOMAIN disk.start
\* What cannot be opened; and what a call that removes path cannot take: what may not be
\* removed, and what lies in a folder that cannot be listed.
Unreadable(d) == {p \in DOMAIN d.start : d.start[p].k # "link" /\ d.start[p].open # "OK"}
ShutIn(d, path) ==
  {p \in DOMAIN d.start : \E f \in Unreadable(d) : Beneath(f, path) /\ Beneath(p, f) /\ p # f}
Lasting(d, path) == (d.denied \cap DOMAIN d.start) \cup ShutIn(d, path)
Keeps(d, path) == {p \in DOMAIN d.start : Beneath(p, path) /\ \E q \in Lasting(d, path) : Beneath(q, p)}

\* No link is on the way to what is to be removed, or made: it would lead elsewhere.
RemovedUnlinked == \A r \in Removed : NoLinkAbove(disk.start, r)
CreatedUnlinked == \A c \in Calls : c.what = "create" => NoLinkAbove(disk.start, c.path)

\* A call takes only what is at or beneath its path, and never follows a link down; nor
\* does it take what may not be removed.
NothingElseIsTaken ==
  \A p \in DOMAIN disk.start :
    (\A r \in Removed : ~Beneath(p, r)) => p \in DOMAIN disk.tree /\ disk.tree[p] = disk.start[p]
DeniedStays == \A p \in Denied : p \in DOMAIN disk.tree /\ disk.tree[p] = disk.start[p]
NothingElseIsMade ==
  \A p \in DOMAIN disk.tree :
    \/ p \in DOMAIN disk.start /\ disk.tree[p] = disk.start[p]
    \/ disk.tree[p] = Dir /\ \E c \in Created : p \in {c, EntryAt(disk.start, c)}

\* A call that ends with success has done it: nothing is left at or beneath the path, or
\* something is there.
DoneWhenSaid ==
  [][\A i \in DOMAIN disk.calls :
       LET c == disk.calls[i]
       IN c.at # "done" /\ disk'.calls[i].at = "done" /\ disk'.calls[i].error = "SUCCESS" =>
            /\ c.what = "remove" => \A p \in DOMAIN disk'.tree : ~Beneath(p, c.path)
            /\ c.what = "create" => /\ WayError(disk'.tree, c.path) = "OK"
                                    /\ KindAt(disk'.tree, EntryAt(disk'.tree, c.path)) # "none"]_disk
\* So it stays while no folders are made.
SaidIsGone ==
  Created = {} =>
    \A c \in Calls : c.what = "remove" /\ c.at = "done" /\ c.error = "SUCCESS" =>
      \A p \in DOMAIN disk.tree : ~Beneath(p, c.path)

\* With descriptors left, a call that removes leaves nothing of what was there, but what
\* may not be removed, what lies in folders that cannot be listed, and the folders these
\* lie in; whatever else runs meanwhile.
AllIsTaken ==
  disk.descriptors # 0 =>
    \A c \in Calls : c.what = "remove" /\ c.at = "done" /\ KindAt(disk.start, c.path) # "file" =>
      \A p \in DOMAIN disk.tree :
        Beneath(p, c.path) => p \in Created \/ \E q \in Lasting(disk, c.path) : Beneath(q, p)

\* Alone, it also leaves all of that, and says so, as it does when a file or an empty
\* folder could not be opened, though it is removed.  A target that is not there is an
\* error; which one is left open, as it is not the one meant (931-935, io.c:1963-1968).
\* A target that is a file is refused, unless it cannot be opened: it is then removed.
EndsAlone(c) ==
  LET below == {p \in DOMAIN disk.start : Beneath(p, c.path)}
      kept  == Keeps(disk, c.path)
  IN CASE KindAt(disk.start, c.path) = "none" -> disk.tree = disk.start /\ c.error # "SUCCESS"
       [] KindAt(disk.start, c.path) = "file" ->
            IF c.path \in Unreadable(disk) THEN c.error = "NOPERMISSION"
            ELSE disk.tree = disk.start /\ c.error = "TARGETNOTADIRECTORY"
       [] OTHER ->
            /\ DOMAIN disk.tree = (DOMAIN disk.start \ below) \cup kept
            /\ c.error = (IF kept \cup (below \cap Unreadable(disk)) = {} THEN "SUCCESS" ELSE "NOPERMISSION")
RemovesAlone ==
  \A i \in DOMAIN disk.calls :
    LET c == disk.calls[i]
    IN DOMAIN disk.calls = {i} /\ c.what = "remove" /\ c.at = "done" =>
         /\ c.error = "OUTOFFDS" => disk.descriptors = 0
         /\ disk.descriptors # 0 \/ (disk.denied = {} /\ Unreadable(disk) = {} /\ c.error # "OUTOFFDS")
              => EndsAlone(c)
\* A folder is left as not empty only for what was created in it.
NonEmptyIsCreated ==
  \A i \in DOMAIN disk.calls :
    LET c == disk.calls[i]
    IN c.what = "remove" /\ c.at = "done" /\ c.error = "NONEMPTYDIRECTORY" =>
         /\ Created # {}
         /\ (\A j \in DOMAIN disk.calls \ {i} : disk.calls[j].what # "remove") =>
               KindAt(disk.tree, c.path) = "dir"

\* A file or a link to nothing in the way is taken for a folder that is there.
Blocked(c) ==
  \E n \in 1 .. Len(c.path) :
    LET p == SubSeq(c.path, 1, n)
    IN KindAt(disk.start, EntryAt(disk.start, p)) # "none" /\ KindAt(disk.start, Leads(disk.start, p)) # "dir"
\* Else a call that creates fails only when something on its way is removed meanwhile, or
\* as a folder on its way lets nothing be created in it.
Refused(c) ==
  {f \in DOMAIN disk.start : disk.start[f] \in AnyFolder /\ disk.start[f].make # "OK"
      /\ \E n \in 1 .. Len(c.path) : f = Leads(disk.start, SubSeq(c.path, 1, n))}
CreatesUndisturbed ==
  \A c \in Calls : c.what = "create" /\ c.at = "done" /\ ~Blocked(c) =>
    \/ Refused(c) # {} /\ c.error \in {"NOPERMISSION", "OTHERERROR"}
    \/ Removed # {} /\ c.error = "PARENTSDONTEXIST"
    \/ c.error = "SUCCESS" /\ (Removed = {} => KindAt(disk.tree, Leads(disk.tree, c.path)) = "dir")

\* Removing a folder takes all it held and nothing else, whatever links are in it, with
\* other calls removing and creating in it at the same time; what cannot be removed is
\* left and reported; and calls that create the same folders all succeed
\* (filesys32.c:397-1077, 1210-1395, 2968-3079).
FoldersEndAsAsked ==
  /\ IsTree(disk.tree) /\ DeniedStays /\ SaidIsGone /\ CreatesUndisturbed
  /\ RemovedUnlinked => NothingElseIsTaken
  /\ CreatedUnlinked => NothingElseIsMade
  /\ RemovedUnlinked /\ CreatedUnlinked => AllIsTaken /\ RemovesAlone /\ NonEmptyIsCreated
=============================================================================
