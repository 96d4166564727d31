------------------------------ MODULE MCFolders ------------------------------
(***************************************************************************)
(* A folder t with two entries at most, and what one or two calls that     *)
(* remove or create folders leave of it.                                   *)
(***************************************************************************)
EXTENDS FolderTree, FiniteSetsExt

T == <<"t">>
Elsewhere == <<"o">> :> Dir @@ <<"o", "x">> :> File
\* What may lie at a path: all that is put there
Leaf(p) == {p :> File, p :> Dir, p :> LinkTo(<<"o">>), p :> LinkTo(<<"o", "nothing">>)}
Items(p) ==
  Leaf(p) \cup {p :> Dir @@ item : item \in {Append(p, "c") :> File, Append(p, "c") :> Dir, Append(p, "c") :> LinkTo(<<"o">>)}}
A == <<"t", "a">>
B == <<"t", "b">>
Empty == T :> Dir @@ Elsewhere
Trees ==
  {Elsewhere} \cup {t @@ Elsewhere : t \in Leaf(T)} \cup {a @@ Empty : a \in Items(A)}
  \cup {a @@ b @@ Empty : a \in Items(A), b \in {B :> File, B :> Dir, B :> Dir @@ Append(B, "c") :> File}}

Alone == {<<Remover(T)>>, <<Remover(A)>>, <<Creator(Append(A, "c"))>>}
Together ==
  {<<Remover(T), Remover(T)>>, <<Remover(T), Remover(A)>>, <<Remover(T), Creator(Append(A, "c"))>>, <<Creator(Append(A, "c")), Creator(Append(A, "d"))>>,
   <<Creator(A), Creator(Append(A, "c"))>>}
SmallTrees == {Elsewhere, Empty} \cup {a @@ Empty : a \in Items(A)} \cup {a @@ B :> File @@ Empty : a \in Items(A)}
\* With files and folders that cannot be opened, and folders that let nothing be created
\* in them: nothing is removed from those either.
Shut == FolderWith("EACCES", "OK")
Refusing(errno) == FolderWith("OK", errno)
ShutTrees ==
  {A :> a @@ b @@ Empty : a \in {Shut, FileWith("EACCES")}, b \in {B :> File, B :> Dir @@ Append(B, "c") :> FileWith("EACCES")}}
  \cup {A :> Shut @@ Append(A, "c") :> c @@ b @@ Empty : c \in {File, Shut}, b \in {B :> File, B :> LinkTo(<<"o">>)}}
  \cup {T :> t @@ Elsewhere : t \in {Shut, FileWith("EACCES")}} \cup {T :> Shut @@ A :> File @@ Elsewhere}
RefusingTrees ==
  {T :> Refusing(errno) @@ t @@ Elsewhere : errno \in {"EACCES", "EROFS"}, t \in {A :> Dir, B :> Dir}}
  \cup {A :> Refusing(errno) @@ Empty : errno \in {"EACCES", "EROFS"}}
Enough == 9
Disks ==
  {NewDisk(t, {}, Enough, c) : t \in Trees, c \in Alone}
  \cup {NewDisk(t, {}, Enough, c) : t \in SmallTrees, c \in Together}
  \cup {NewDisk(t, {p}, Enough, <<Remover(T)>>) : t \in Trees, p \in {T, A, Append(A, "c")}}
  \cup {NewDisk(t, {}, n, c) : t \in ShutTrees, n \in {1, Enough}, c \in {<<Remover(T)>>, <<Remover(A)>>, <<Remover(T), Remover(A)>>}}
  \cup {NewDisk(t, {A}, Enough, <<Remover(T)>>) : t \in ShutTrees}
  \cup {NewDisk(t, {p \in DOMAIN t : Len(p) > 1 /\ t[Front(p)] \in AnyFolder \ {Dir}}, Enough, c) :
           t \in RefusingTrees, c \in {<<Creator(Append(A, "c"))>>, <<Creator(A), Creator(Append(A, "c"))>>, <<Remover(A), Creator(Append(A, "c"))>>}}
  \cup {NewDisk(t, {}, n, <<Remover(T)>>) : t \in Trees, n \in 0 .. 2}
DiskInit == disk \in Disks
=============================================================================
