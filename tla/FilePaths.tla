------------------------------ MODULE FilePaths ------------------------------
(***************************************************************************)
(* The operations on file paths of filesys32.c (1160-1207, 1397-1693,      *)
(* 1884-2022, 2291-2317, 3081-3377), as built for Linux.                   *)
(*                                                                         *)
(* A path is a sequence of "/", "." and names; a name stands for one or    *)
(* more letters.  What lies in memory behind the end of a path, where      *)
(* NormalizeEx looks ahead, is taken to be neither "/" nor ".".            *)
(***************************************************************************)
EXTENDS Integers, Sequences, SequencesExt, FiniteSetsExt

Paths == Seq(STRING)
At(p, i) == IF i \in DOMAIN p THEN p[i] ELSE "end"
From(p, i) == SubSeq(p, i, Len(p))
Slashes(p) == {i \in DOMAIN p : p[i] = "/"}
LastOf(S) == IF S = {} THEN 0 ELSE Max(S)
WithoutTrailingSlashes(p) == SubSeq(p, 1, LastOf(DOMAIN p \ Slashes(p)))
WithoutLeadingSlashes(p) ==
  IF DOMAIN p = Slashes(p) THEN <<>> ELSE From(p, Min(DOMAIN p \ Slashes(p)))

IsAbsolutePath(p) == At(p, 1) = "/"
GetComponentCount(p) == Cardinality({i \in DOMAIN p : i > 1 /\ p[i] # "/" /\ p[i - 1] = "/"})
ParentdirOfItem(p) ==
  IF p = <<"/">> THEN p
  ELSE LET item == WithoutTrailingSlashes(p) IN SubSeq(item, 1, LastOf(Slashes(item)))
Dirname(p) == WithoutTrailingSlashes(SubSeq(p, 1, LastOf(Slashes(WithoutTrailingSlashes(p)))))
Basename(p) ==
  LET item == WithoutTrailingSlashes(p) IN From(item, LastOf(Slashes(item)) + 1)

-----------------------------------------------------------------------------
(* Normalising *)

RemoveDoubleSlashes(p) ==
  LET single == FoldLeft(LAMBDA r, c : IF c = "/" /\ r # <<>> /\ Last(r) = "/" THEN r ELSE Append(r, c), <<>>, p)
  IN IF Len(single) > 1 /\ Last(single) = "/" THEN Front(single) ELSE single

UpAt(p, i) == At(p, i) = "." /\ At(p, i + 1) = "."
\* A "/.." at i takes the component behind last with it.
Collapses(p, i, last) ==
  /\ p[i] = "/" /\ UpAt(p, i + 1) /\ At(p, i + 3) \in {"/", "end"}
  /\ i > last /\ i > 1
  /\ ~(UpAt(p, last + 1) /\ At(p, last + 3) = "/")
\* It starts over as if the path had a slash in front, as absolute ones have.
NormalizeStep(s) ==
  LET p == s.path
      i == s.at
  IN IF Collapses(p, i, s.last)
     THEN [path |-> SubSeq(p, 1, s.last) \o From(p, i + 4), at |-> 1, last |-> 1]
     ELSE IF p[i] = "/" /\ At(p, i + 1) = "." /\ At(p, i + 2) = "/"
     THEN [path |-> SubSeq(p, 1, i - 1) \o From(p, i + 2), at |-> i, last |-> i]
     ELSE IF p[i] = "/"
     THEN [path |-> SubSeq(p, 1, i) \o WithoutLeadingSlashes(From(p, i + 1)), at |-> i + 1, last |-> i]
     ELSE [s EXCEPT !.at = i + 1]
CollapseDots[s \in [path : Paths, at : Nat, last : Nat]] ==
  IF s.at > Len(s.path) THEN s.path ELSE CollapseDots[NormalizeStep(s)]
WithoutLeadingDots[p \in Paths] ==
  IF At(p, 1) = "." /\ At(p, 2) = "/" THEN WithoutLeadingDots[From(p, 3)] ELSE p
Normalize[p \in Paths] ==
  WithoutTrailingSlashes(WithoutLeadingDots[
    CollapseDots[[path |-> RemoveDoubleSlashes(p), at |-> 1, last |-> 0]]])

-----------------------------------------------------------------------------
(* Two paths *)

\* A "./" in front is removed, but not from the length: the end stays there twice.
\* Where only such are left the code does not come to an end.
Never == <<"never">>
PathToAppend[p \in Paths] ==
  IF At(p, 1) = "." /\ At(p, 2) = "/"
  THEN LET moved == From(p, 3) \o From(p, Len(p) - 1) IN IF moved = p THEN Never ELSE PathToAppend[moved]
  ELSE p
Join(p, q) ==
  IF q \in {<<>>, <<".">>} THEN p
  ELSE LET tail == PathToAppend[q]
       IN IF tail = Never THEN Never
          ELSE IF p = <<>> THEN IF At(tail, 1) = "/" THEN Tail(tail) ELSE tail
          ELSE IF Last(p) # "/" /\ At(tail, 1) # "/" THEN p \o <<"/">> \o tail ELSE p \o tail
ToAbsolutePath(p, cwd) == IF IsAbsolutePath(p) THEN p ELSE Join(cwd, p)

\* How much of two paths is the same, up to a slash behind a component of both.
SameStart(p, q) ==
  LET same == LastOf({n \in 1 .. Min({Len(p), Len(q)}) : SubSeq(p, 1, n) = SubSeq(q, 1, n)} \cup {0})
      ends == (same = Len(q) /\ At(p, same + 1) = "/") \/ (same = Len(p) /\ At(q, same + 1) = "/")
      slash == IF ends THEN same + 1 ELSE LastOf({i \in Slashes(p) : i <= same})
  IN Min({same, slash})
\* The ways up are counted against all of the path, not against what it has in common
\* with the other one.
UpBy(n) == FlattenSeq([i \in 1 .. n |-> <<".", ".", "/">>])
DownBehind(p, same) == WithoutLeadingSlashes(IF same > 1 THEN From(p, same + 1) ELSE p)
FromBaseTo(q, p) ==
  UpBy(Max({0, GetComponentCount(q) - GetComponentCount(p)})) \o DownBehind(p, SameStart(p, q))
\* Of paths that are normalized already.
TurnIntoPathRelativeTo(path, base, cwd) ==
  FromBaseTo(Normalize[ToAbsolutePath(base, cwd)], Normalize[ToAbsolutePath(path, cwd)])
\* Only the lengths are compared.
FolderContainsPath(folder, path) == At(Normalize[path], Len(Normalize[folder]) + 1) = "/"
=============================================================================
