-------------------------- MODULE FolderTree_proofs --------------------------
(***************************************************************************)
(* Proofs about removing and creating folders: for every tree, whatever    *)
(* links and files are in it and whatever may not be removed, any number   *)
(* of descriptors and of calls that run at the same time.                  *)
(*                                                                         *)
(* A tree is finite, and so is a queue, but no proof goes over the tree or *)
(* counts it.  Where nothing may be left, what is doomed (it is beneath    *)
(* the path, was not created, and an error or an entry that stays does not *)
(* keep it) is covered: it is still in what the call will search or try.   *)
(***************************************************************************)
EXTENDS FolderTree, FiniteSetTheorems, SequenceTheorems, WellFoundedInduction, TLAPS

(* Induction over the natural numbers, with a set for the formula.         *)
LEMMA Induction ==
  ASSUME NEW S, 0 \in S, \A n \in Nat : n \in S => n + 1 \in S
  PROVE  Nat \subseteq S
<1> DEFINE Less == OpToRel(<, Nat)
<1>1. SUFFICES ASSUME ~(Nat \subseteq S) PROVE FALSE
  OBVIOUS
<1>2. IsWellFoundedOn(Less, Nat)
  BY NatLessThanWellFounded
<1>3. Nat \ S # {} /\ Nat \ S \subseteq Nat
  BY <1>1
<1>4. \A x, y \in Nat : y < x => <<y, x>> \in Less
  BY DEF OpToRel
<1> HIDE DEF Less
<1>5. PICK n \in Nat \ S : \A m \in Nat \ S : ~(<<m, n>> \in Less)
  BY <1>2, <1>3, WFMin, Zenon
<1>6. n # 0 /\ n - 1 \in Nat /\ n - 1 < n /\ (n - 1) + 1 = n
  BY <1>5
<1>7. n - 1 \in S
  BY <1>4, <1>5, <1>6
<1> QED
  BY <1>5, <1>6, <1>7

-----------------------------------------------------------------------------
(* Paths *)

\* The components of a path.
LEMMA PathFacts ==
  ASSUME NEW p \in Paths
  PROVE  /\ Len(p) \in Nat /\ DOMAIN p = 1 .. Len(p)
         /\ \A i \in 1 .. Len(p) : p[i] \in Component
         /\ Len(p) = 0 => p = <<>>
         /\ <<>> \in Paths /\ Len(<<>>) = 0
<1>1. p \in Seq(Component)
  BY DEF Paths
<1>2. Len(p) \in Nat /\ DOMAIN p = 1 .. Len(p)
  BY <1>1, LenProperties
<1>3. \A i \in 1 .. Len(p) : p[i] \in Component
  BY <1>1, ElementOfSeq
<1>4. p # <<>> => Len(p) # 0
  BY <1>1, EmptySeq
<1>5. <<>> \in Paths /\ Len(<<>>) = 0
  BY EmptySeq DEF Paths
<1> QED
  BY <1>2, <1>3, <1>4, <1>5

\* Two paths are the same when their components are.
LEMMA PathEqual ==
  ASSUME NEW p \in Paths, NEW q \in Paths, Len(p) = Len(q), \A i \in 1 .. Len(p) : p[i] = q[i]
  PROVE  p = q
BY SeqEqual DEF Paths

\* The first components of a path.
LEMMA PartFacts ==
  ASSUME NEW p \in Paths, NEW n \in 0 .. Len(p)
  PROVE  /\ SubSeq(p, 1, n) \in Paths /\ Len(SubSeq(p, 1, n)) = n
         /\ \A i \in 1 .. n : SubSeq(p, 1, n)[i] = p[i]
         /\ n = 0 => SubSeq(p, 1, n) = <<>>
         /\ n = Len(p) => SubSeq(p, 1, n) = p
<1>1. Len(p) \in Nat /\ \A i \in 1 .. Len(p) : p[i] \in Component
  BY PathFacts
<1>2. \A i \in 1 .. n : p[i] \in Component
  BY <1>1
<1>3. n \in Int /\ 1 \in Int /\ n - 1 + 1 = n /\ n \in Nat /\ (n < 1 => n = 0)
  BY <1>1
<1>4. /\ SubSeq(p, 1, n) \in Seq(Component)
      /\ Len(SubSeq(p, 1, n)) = (IF 1 <= n THEN n - 1 + 1 ELSE 0)
      /\ \A i \in 1 .. n - 1 + 1 : SubSeq(p, 1, n)[i] = p[1 + i - 1]
  BY <1>2, <1>3, SubSeqProperties
<1>5. Len(SubSeq(p, 1, n)) = n
  BY <1>3, <1>4
<1>6. \A i \in 1 .. n : SubSeq(p, 1, n)[i] = p[i]
  BY <1>3, <1>4
<1>7. SubSeq(p, 1, n) \in Paths
  BY <1>4 DEF Paths
<1>8. n = 0 => SubSeq(p, 1, n) = <<>>
  BY <1>5, <1>7, PathFacts
<1>9. n = Len(p) => SubSeq(p, 1, n) = p
  BY <1>5, <1>6, <1>7, PathEqual
<1> QED
  BY <1>5, <1>6, <1>7, <1>8, <1>9

\* A path without its last component.
LEMMA FrontFacts ==
  ASSUME NEW p \in Paths, p # <<>>
  PROVE  /\ Front(p) \in Paths /\ Len(Front(p)) = Len(p) - 1 /\ Len(p) \in Nat \ {0}
         /\ \A i \in 1 .. Len(p) - 1 : Front(p)[i] = p[i]
         /\ Last(p) \in Component /\ Last(p) = p[Len(p)]
         /\ Front(p) = SubSeq(p, 1, Len(p) - 1)
<1>1. Len(p) \in Nat \ {0}
  BY PathFacts
<1>2. Len(p) - 1 \in 0 .. Len(p) /\ Len(p) \in 1 .. Len(p)
  BY <1>1
<1>3. Front(p) = SubSeq(p, 1, Len(p) - 1)
  BY DEF Front
<1>4. Last(p) = p[Len(p)] /\ Last(p) \in Component
  BY <1>2, PathFacts DEF Last
<1>5. LET f == SubSeq(p, 1, Len(p) - 1)
      IN  f \in Paths /\ Len(f) = Len(p) - 1 /\ \A i \in 1 .. Len(p) - 1 : f[i] = p[i]
  BY <1>2, PartFacts
<1> QED
  BY <1>1, <1>3, <1>4, <1>5

\* A name in a folder.
LEMMA AppendFacts ==
  ASSUME NEW f \in Paths, NEW name \in Component
  PROVE  /\ Append(f, name) \in Paths \ {<<>>} /\ Len(Append(f, name)) = Len(f) + 1
         /\ \A i \in 1 .. Len(f) : Append(f, name)[i] = f[i]
         /\ Front(Append(f, name)) = f /\ Last(Append(f, name)) = name
<1> DEFINE p == Append(f, name)
<1>0. f \in Seq(Component) /\ Len(f) \in Nat
  BY PathFacts DEF Paths
<1>1. /\ p \in Seq(Component) /\ Len(p) = Len(f) + 1
      /\ \A i \in 1 .. Len(f) : p[i] = f[i]
      /\ p[Len(f) + 1] = name
  BY <1>0, AppendProperties
<1> HIDE DEF p
<1>2. p \in Paths /\ p # <<>>
  BY <1>0, <1>1, PathFacts DEF Paths
<1>3. Len(Front(p)) = Len(f) /\ Front(p) \in Paths /\ \A i \in 1 .. Len(f) : Front(p)[i] = f[i]
  <2>1. /\ Front(p) \in Paths /\ Len(Front(p)) = Len(p) - 1
        /\ \A i \in 1 .. Len(p) - 1 : Front(p)[i] = p[i]
    BY <1>2, FrontFacts
  <2>2. Len(p) - 1 = Len(f)
    BY <1>0, <1>1
  <2> QED
    BY <1>1, <2>1, <2>2
<1>4. Front(p) = f
  BY <1>3, PathEqual
<1>5. Last(p) = name
  BY <1>1, <1>2, FrontFacts
<1> QED
  BY <1>1, <1>2, <1>4, <1>5 DEF p

LEMMA FrontAndLast ==
  ASSUME NEW p \in Paths, p # <<>>
  PROVE  Append(Front(p), Last(p)) = p
<1> DEFINE q == Append(Front(p), Last(p))
<1>1. Front(p) \in Paths /\ Last(p) \in Component /\ Len(Front(p)) = Len(p) - 1
      /\ Len(p) \in Nat \ {0}
  BY FrontFacts
<1>2. q \in Paths /\ q # <<>> /\ Len(q) = Len(p) /\ Front(q) = Front(p) /\ Last(q) = Last(p)
  BY <1>1, AppendFacts
<1> HIDE DEF q
<1>3. \A i \in 1 .. Len(p) - 1 : q[i] = p[i]
  BY <1>1, <1>2, FrontFacts
<1>4. q[Len(p)] = p[Len(p)]
  BY <1>2, FrontFacts
<1>5. \A i \in 1 .. Len(p) : i \in 1 .. Len(p) - 1 \/ i = Len(p)
  BY <1>1
<1>6. q = p
  BY <1>2, <1>3, <1>4, <1>5, PathEqual
<1> QED
  BY <1>6 DEF q

\* The parts of a path are those of its folder, and the path.
LEMMA PartOfFront ==
  ASSUME NEW p \in Paths, p # <<>>, NEW n \in 0 .. Len(p) - 1
  PROVE  SubSeq(Front(p), 1, n) = SubSeq(p, 1, n)
<1>1. Front(p) \in Paths /\ Len(Front(p)) = Len(p) - 1 /\ Len(p) \in Nat \ {0}
  BY FrontFacts
<1>2. n \in 0 .. Len(p) /\ n \in 0 .. Len(Front(p)) /\ n \in Nat /\ n <= Len(p) - 1
  BY <1>1
<1> DEFINE a == SubSeq(Front(p), 1, n)
           b == SubSeq(p, 1, n)
<1>3. a \in Paths /\ Len(a) = n /\ \A i \in 1 .. n : a[i] = Front(p)[i]
  BY <1>1, <1>2, PartFacts
<1>4. b \in Paths /\ Len(b) = n /\ \A i \in 1 .. n : b[i] = p[i]
  BY <1>2, PartFacts
<1>5. \A i \in 1 .. n : Front(p)[i] = p[i]
  <2>1. \A i \in 1 .. Len(p) - 1 : Front(p)[i] = p[i]
    BY FrontFacts
  <2> QED
    BY <1>1, <1>2, <2>1
<1> HIDE DEF a, b
<1>6. a = b
  BY <1>3, <1>4, <1>5, PathEqual
<1> QED
  BY <1>6 DEF a, b

\* Induction over the length of a path.
LEMMA PathInduction ==
  ASSUME NEW S, <<>> \in S, \A p \in Paths \ {<<>>} : Front(p) \in S => p \in S
  PROVE  Paths \subseteq S
<1> DEFINE N == {n \in Nat : \A p \in Paths : Len(p) = n => p \in S}
<1>1. 0 \in N
  BY PathFacts
<1>2. ASSUME NEW n \in Nat, n \in N PROVE n + 1 \in N
  <2> SUFFICES ASSUME NEW p \in Paths, Len(p) = n + 1 PROVE p \in S
    OBVIOUS
  <2>1. p # <<>>
    BY PathFacts
  <2>2. Front(p) \in Paths /\ Len(Front(p)) = n
    BY <2>1, FrontFacts
  <2> QED
    BY <1>2, <2>1, <2>2
<1>3. Nat \subseteq N
  BY <1>1, <1>2, Induction
<1> QED
  BY <1>3, PathFacts

\* What is beneath a folder is the folder, or lies in something beneath it.
LEMMA BeneathFacts ==
  ASSUME NEW p \in Paths, NEW q \in Paths
  PROVE  /\ Beneath(p, q) <=> Len(q) <= Len(p) /\ SubSeq(p, 1, Len(q)) = q
         /\ Beneath(p, p)
         /\ p # <<>> => (Beneath(p, q) <=> p = q \/ Beneath(Front(p), q))
         /\ p # <<>> => ~Beneath(Front(p), p)
<1>1. Len(p) \in Nat /\ Len(q) \in Nat
  BY PathFacts
<1>2. SubSeq(q, 1, Len(q)) = q /\ SubSeq(p, 1, Len(p)) = p
  BY <1>1, PartFacts
<1>3. Beneath(p, q) <=> Len(q) <= Len(p) /\ SubSeq(p, 1, Len(q)) = q
  BY <1>2 DEF Beneath, IsPrefix
<1>4. Beneath(p, p)
  BY <1>1, <1>2 DEF Beneath, IsPrefix
<1>5. ASSUME p # <<>>
      PROVE  (Beneath(p, q) <=> p = q \/ Beneath(Front(p), q)) /\ ~Beneath(Front(p), p)
  <2>1. Front(p) \in Paths /\ Len(Front(p)) = Len(p) - 1 /\ Len(p) \in Nat \ {0}
    BY <1>5, FrontFacts
  <2>2. Beneath(Front(p), q) <=> Len(q) <= Len(p) - 1 /\ SubSeq(Front(p), 1, Len(q)) = q
    BY <1>2, <2>1 DEF Beneath, IsPrefix
  <2>3. Len(q) <= Len(p) - 1 => SubSeq(Front(p), 1, Len(q)) = SubSeq(p, 1, Len(q))
    <3>1. Len(q) <= Len(p) - 1 => Len(q) \in 0 .. Len(p) - 1
      BY <1>1
    <3> QED
      BY <1>5, <3>1, PartOfFront
  <2>4. Len(q) <= Len(p) /\ ~(Len(q) <= Len(p) - 1) => Len(q) = Len(p)
    BY <1>1
  <2>5. ~Beneath(Front(p), p)
    BY <1>1, <2>1 DEF Beneath, IsPrefix
  <2>6. CASE Len(q) <= Len(p) - 1
    BY <1>1, <1>3, <1>4, <2>2, <2>3, <2>5, <2>6
  <2>7. CASE ~(Len(q) <= Len(p) - 1)
    BY <1>1, <1>2, <1>3, <1>4, <2>2, <2>4, <2>5, <2>7
  <2> QED
    BY <2>6, <2>7
<1> QED
  BY <1>3, <1>4, <1>5
-----------------------------------------------------------------------------
(* Where a path leads *)

\* One name further, from where the names before it lead; and the way in Leads.
Onward(tree, at, name) ==
  IF KindAt(tree, at) = "dir" THEN Follow(tree, Append(at, name)) ELSE at
WayStep(tree, path, w, n) == IF n = 0 THEN <<>> ELSE Onward(tree, w[n - 1], path[n])

LEMMA WayExists ==
  ASSUME NEW tree, NEW path, NEW n \in Nat
  PROVE  \E w : w = [k \in 0 .. n |-> WayStep(tree, path, w, k)]
<1> DEFINE S == {m \in Nat : \E w : w = [k \in 0 .. m |-> WayStep(tree, path, w, k)]}
<1>1. 0 \in S
  <2> DEFINE g == [k \in 0 .. 0 |-> <<>>]
  <2>1. g = [k \in 0 .. 0 |-> WayStep(tree, path, g, k)]
    BY DEF WayStep
  <2> QED
    BY <2>1
<1>2. ASSUME NEW m \in Nat, m \in S PROVE m + 1 \in S
  <2>1. PICK w : w = [k \in 0 .. m |-> WayStep(tree, path, w, k)]
    BY <1>2
  <2> DEFINE x == Onward(tree, w[m], path[m + 1])
             g == [k \in 0 .. m + 1 |-> IF k = m + 1 THEN x ELSE w[k]]
  <2>2. \A k \in 0 .. m : w[k] = WayStep(tree, path, w, k)
    BY <2>1
  <2>3. \A k \in 0 .. m + 1 : g[k] = WayStep(tree, path, g, k)
    <3> SUFFICES ASSUME NEW k \in 0 .. m + 1 PROVE g[k] = WayStep(tree, path, g, k)
      OBVIOUS
    <3>1. CASE k = m + 1
      <4>1. k # 0 /\ k - 1 = m /\ m \in 0 .. m + 1 /\ m # m + 1
        BY <3>1
      <4>2. g[k] = x /\ g[k - 1] = w[m]
        BY <3>1, <4>1
      <4> HIDE DEF g
      <4> QED
        BY <3>1, <4>1, <4>2 DEF WayStep
    <3>2. CASE k # m + 1
      <4>1. k \in 0 .. m /\ (k # 0 => k - 1 \in 0 .. m + 1 /\ k - 1 # m + 1)
        BY <3>2
      <4>2. g[k] = w[k] /\ (k # 0 => g[k - 1] = w[k - 1])
        BY <3>2, <4>1
      <4> HIDE DEF g
      <4> QED
        BY <2>2, <4>1, <4>2 DEF WayStep
    <3> QED
      BY <3>1, <3>2
  <2>4. g = [k \in 0 .. m + 1 |-> WayStep(tree, path, g, k)]
    <3>1. g = [k \in 0 .. m + 1 |-> g[k]]
      OBVIOUS
    <3> HIDE DEF g
    <3> QED
      BY <2>3, <3>1
  <2> HIDE DEF g
  <2> QED
    BY <2>4
<1>3. n \in S
  BY <1>1, <1>2, Induction
<1> QED
  BY <1>3 DEF S

\* Where a path leads, step by step; so without the function it is defined with.
LEMMA LeadsDef ==
  ASSUME NEW tree, NEW path, Len(path) \in Nat
  PROVE  \E w : /\ \A k \in 0 .. Len(path) : w[k] = WayStep(tree, path, w, k)
                /\ Leads(tree, path) = w[Len(path)]
<1> DEFINE IsIt(w) ==
      w = [n \in 0 .. Len(path) |->
             IF n = 0 THEN <<>>
             ELSE IF KindAt(tree, w[n - 1]) = "dir" THEN Follow(tree, Append(w[n - 1], path[n]))
             ELSE w[n - 1]]
    way == CHOOSE w : IsIt(w)
<1>1. \E w : IsIt(w)
  <2>1. \E w : w = [n \in 0 .. Len(path) |-> WayStep(tree, path, w, n)]
    BY WayExists
  <2> QED
    BY <2>1, Zenon DEF WayStep, Onward
<1>2. IsIt(way)
  BY <1>1, Zenon
<1>3. Leads(tree, path) = way[Len(path)]
  BY Zenon DEF Leads
<1>4. way = [n \in 0 .. Len(path) |-> WayStep(tree, path, way, n)]
  BY <1>2, Zenon DEF WayStep, Onward
<1> HIDE DEF way
<1> QED
  BY <1>3, <1>4

\* The way of a path is that of its folder and one name more.
LEMMA LeadsStep ==
  ASSUME NEW tree, NEW p \in Paths
  PROVE  Leads(tree, p) = IF p = <<>> THEN <<>> ELSE Onward(tree, Leads(tree, Front(p)), Last(p))
<1>0. Len(p) \in Nat
  BY PathFacts
<1>1. PICK w : /\ \A k \in 0 .. Len(p) : w[k] = WayStep(tree, p, w, k)
               /\ Leads(tree, p) = w[Len(p)]
  BY <1>0, LeadsDef
<1>2. CASE p = <<>>
  <2>1. Len(p) = 0
    BY <1>2, PathFacts
  <2> QED
    BY <1>1, <1>2, <2>1 DEF WayStep
<1>3. CASE p # <<>>
  <2> DEFINE f == Front(p)
  <2>1. /\ f \in Paths /\ Len(f) = Len(p) - 1 /\ Len(p) \in Nat \ {0} /\ Last(p) = p[Len(p)]
        /\ \A i \in 1 .. Len(p) - 1 : f[i] = p[i]
    BY <1>3, FrontFacts
  <2> HIDE DEF f
  <2>2. Len(f) \in Nat
    BY <2>1
  <2>3. PICK v : /\ \A k \in 0 .. Len(f) : v[k] = WayStep(tree, f, v, k)
                 /\ Leads(tree, f) = v[Len(f)]
    BY <2>2, LeadsDef
  <2> DEFINE S == {n \in Nat : n <= Len(f) => v[n] = w[n]}
  <2>4. 0 \in S
    BY <1>0, <1>1, <2>2, <2>3 DEF WayStep
  <2>5. ASSUME NEW n \in Nat, n \in S PROVE n + 1 \in S
    <3> SUFFICES ASSUME n + 1 <= Len(f) PROVE v[n + 1] = w[n + 1]
      OBVIOUS
    <3>1. /\ n + 1 \in 0 .. Len(f) /\ n + 1 \in 0 .. Len(p) /\ n + 1 # 0 /\ (n + 1) - 1 = n
          /\ n <= Len(f) /\ n + 1 \in 1 .. Len(p) - 1
      BY <2>1
    <3>2. v[n] = w[n] /\ f[n + 1] = p[n + 1]
      BY <2>1, <2>5, <3>1
    <3>3. v[n + 1] = WayStep(tree, f, v, n + 1) /\ w[n + 1] = WayStep(tree, p, w, n + 1)
      BY <1>1, <2>3, <3>1
    <3>4. WayStep(tree, f, v, n + 1) = Onward(tree, v[n], f[n + 1])
      BY <3>1 DEF WayStep
    <3>5. WayStep(tree, p, w, n + 1) = Onward(tree, w[n], p[n + 1])
      BY <3>1 DEF WayStep
    <3> QED
      BY <3>2, <3>3, <3>4, <3>5
  <2>6. Len(f) \in S
    BY <2>2, <2>4, <2>5, Induction
  <2>7. v[Len(f)] = w[Len(f)]
    BY <2>2, <2>6
  <2>8. Len(p) \in 0 .. Len(p) /\ Len(p) # 0 /\ Len(p) - 1 = Len(f)
    BY <2>1
  <2>9. w[Len(p)] = Onward(tree, w[Len(f)], Last(p))
    BY <1>1, <2>1, <2>8 DEF WayStep
  <2> QED
    BY <1>1, <1>3, <2>3, <2>7, <2>9 DEF f
<1> QED
  BY <1>2, <1>3
-----------------------------------------------------------------------------
(* Trees *)

Without(tree, at) == Restrict(tree, DOMAIN tree \ {at})
WayOpen(tree, path) == KindAt(tree, Leads(tree, Front(path))) = "dir"

\* What a tree has beside links.
LEMMA NoLinkFacts ==
  /\ Dir \in AnyFolder /\ Dir.k = "dir" /\ Dir.open = "OK" /\ Dir.make = "OK"
  /\ \A f \in AnyFolder \cup AnyFile :
       /\ f.k \in {"dir", "file"} /\ (f.k = "dir" <=> f \in AnyFolder) /\ f.open \in {"OK", "EACCES"}
       /\ f \in AnyFolder => f.make \in {"OK", "EACCES", "EROFS"}
<1>1. Dir \in AnyFolder /\ Dir.k = "dir" /\ Dir.open = "OK" /\ Dir.make = "OK"
  BY DEF Dir, FolderWith, AnyFolder
<1>2. ASSUME NEW f \in AnyFolder
      PROVE  f.k = "dir" /\ f.open \in {"OK", "EACCES"} /\ f.make \in {"OK", "EACCES", "EROFS"}
  <2>1. PICK open \in {"OK", "EACCES"}, make \in {"OK", "EACCES", "EROFS"} : f = FolderWith(open, make)
    BY <1>2 DEF AnyFolder
  <2>2. /\ FolderWith(open, make).k = "dir" /\ FolderWith(open, make).open = open
        /\ FolderWith(open, make).make = make
    BY DEF FolderWith
  <2> QED
    BY <2>1, <2>2
<1>3. ASSUME NEW f \in AnyFile PROVE f.k = "file" /\ f.open \in {"OK", "EACCES"}
  <2>1. PICK open \in {"OK", "EACCES"} : f = FileWith(open)
    BY <1>3 DEF AnyFile
  <2>2. FileWith(open).k = "file" /\ FileWith(open).open = open
    BY DEF FileWith
  <2> QED
    BY <2>1, <2>2
<1> QED
  BY <1>1, <1>2, <1>3

\* What a link is.
LEMMA LinkFacts ==
  ASSUME NEW to
  PROVE  LinkTo(to).k = "link" /\ LinkTo(to).to = to
BY DEF LinkTo

\* What lies where, in a tree.
LEMMA KindFacts ==
  ASSUME NEW tree, IsTree(tree), NEW p \in Paths
  PROVE  /\ KindAt(tree, <<>>) = "dir" /\ <<>> \notin DOMAIN tree
         /\ KindAt(tree, p) # "none" <=> p = <<>> \/ p \in DOMAIN tree
         /\ p \in DOMAIN tree => p # <<>> /\ KindAt(tree, p) = tree[p].k
         /\ p \in DOMAIN tree => (KindAt(tree, p) = "dir" <=> tree[p] \in AnyFolder)
         /\ KindAt(tree, p) = "link" => p \in DOMAIN tree /\ tree[p].to \in Paths
         /\ KindAt(tree, p) = "file" => p \in DOMAIN tree /\ tree[p] \in AnyFile
<1>1. KindAt(tree, <<>>) = "dir" /\ <<>> \notin DOMAIN tree
  BY DEF KindAt, IsTree
<1>2. CASE p \in DOMAIN tree
  <2>1. p # <<>> /\ KindAt(tree, p) = tree[p].k
    BY <1>1, <1>2 DEF KindAt
  <2>2. \/ tree[p] \in AnyFolder \cup AnyFile
        \/ tree[p] = LinkTo(tree[p].to) /\ tree[p].to \in Paths
    BY <1>2 DEF IsTree
  <2>4. /\ tree[p].k \in {"dir", "file", "link"}
        /\ tree[p].k = "dir" <=> tree[p] \in AnyFolder
        /\ tree[p].k = "link" => tree[p].to \in Paths
        /\ tree[p].k = "file" => tree[p] \in AnyFile
    <3>1. CASE tree[p] \in AnyFolder \cup AnyFile
      BY <3>1, NoLinkFacts
    <3>2. CASE tree[p] = LinkTo(tree[p].to) /\ tree[p].to \in Paths
      <4>1. LinkTo(tree[p].to).k = "link"
        BY DEF LinkTo
      <4>2. tree[p].k = "link"
        BY <3>2, <4>1
      <4> QED
        BY <3>2, <4>2, NoLinkFacts
    <3> QED
      BY <2>2, <3>1, <3>2
  <2> QED
    BY <1>1, <1>2, <2>1, <2>4
<1>3. CASE p \notin DOMAIN tree
  <2>1. KindAt(tree, p) = IF p = <<>> THEN "dir" ELSE "none"
    BY <1>3 DEF KindAt
  <2> QED
    BY <1>1, <1>3, <2>1
<1> QED
  BY <1>2, <1>3

LEMMA FollowIsPath ==
  ASSUME NEW tree, IsTree(tree), NEW p \in Paths
  PROVE  Follow(tree, p) \in Paths
BY KindFacts, Zenon DEF Follow, KindAt

LEMMA LeadsIsPath ==
  ASSUME NEW tree, IsTree(tree)
  PROVE  \A p \in Paths : Leads(tree, p) \in Paths
<1> DEFINE S == {p \in Paths : Leads(tree, p) \in Paths}
<1>0. <<>> \in Paths
  BY EmptySeq DEF Paths
<1>1. <<>> \in S
  BY <1>0, LeadsStep
<1>2. ASSUME NEW p \in Paths \ {<<>>}, Front(p) \in S PROVE p \in S
  <2>1. Last(p) \in Component /\ Leads(tree, Front(p)) \in Paths
    BY <1>2, FrontFacts
  <2>2. Append(Leads(tree, Front(p)), Last(p)) \in Paths
    BY <2>1, AppendFacts
  <2>3. Follow(tree, Append(Leads(tree, Front(p)), Last(p))) \in Paths
    BY <2>2, FollowIsPath
  <2>4. Leads(tree, p) = Onward(tree, Leads(tree, Front(p)), Last(p))
    BY LeadsStep
  <2> QED
    BY <2>1, <2>3, <2>4 DEF Onward
<1>3. Paths \subseteq S
  BY <1>1, <1>2, PathInduction
<1> QED
  BY <1>3

\* The entry a path names lies in the folder its front leads to.
LEMMA EntryFacts ==
  ASSUME NEW tree, IsTree(tree), NEW path \in Paths \ {<<>>}
  PROVE  /\ EntryAt(tree, path) \in Paths \ {<<>>}
         /\ Front(EntryAt(tree, path)) = Leads(tree, Front(path))
         /\ WayError(tree, path) = "OK" <=> WayOpen(tree, path)
         /\ WayError(tree, path) \in {"OK", "ENOTDIR", "ENOENT"}
<1>1. Front(path) \in Paths /\ Last(path) \in Component
  BY FrontFacts
<1>2. Leads(tree, Front(path)) \in Paths
  BY <1>1, LeadsIsPath
<1>3. /\ EntryAt(tree, path) \in Paths \ {<<>>}
      /\ Front(EntryAt(tree, path)) = Leads(tree, Front(path))
  BY <1>1, <1>2, AppendFacts DEF EntryAt
<1> QED
  BY <1>3 DEF WayError, WayOpen

\* A folder of the tree is found under its own path, and so is what lies in it.
LEMMA FolderLeads ==
  ASSUME NEW tree, IsTree(tree)
  PROVE  \A p \in Paths : KindAt(tree, p) = "dir" => Leads(tree, p) = p
<1> DEFINE S == {p \in Paths : KindAt(tree, p) = "dir" => Leads(tree, p) = p}
<1>0. <<>> \in Paths
  BY EmptySeq DEF Paths
<1>1. <<>> \in S
  BY <1>0, LeadsStep
<1>2. ASSUME NEW p \in Paths \ {<<>>}, Front(p) \in S PROVE p \in S
  <2> SUFFICES ASSUME KindAt(tree, p) = "dir" PROVE Leads(tree, p) = p
    OBVIOUS
  <2>1. p \in DOMAIN tree
    BY KindFacts
  <2>2. KindAt(tree, Front(p)) = "dir"
    BY <2>1 DEF IsTree
  <2>3. Leads(tree, Front(p)) = Front(p) /\ Append(Front(p), Last(p)) = p
    BY <1>2, <2>2, FrontAndLast
  <2>4. Follow(tree, p) = p
    BY DEF Follow
  <2>5. Leads(tree, p) = Onward(tree, Leads(tree, Front(p)), Last(p))
    BY LeadsStep
  <2> QED
    BY <2>2, <2>3, <2>4, <2>5 DEF Onward
<1>3. Paths \subseteq S
  BY <1>1, <1>2, PathInduction
<1> QED
  BY <1>3

\* What lies in the tree is its own entry.
LEMMA EntryInTree ==
  ASSUME NEW tree, IsTree(tree), NEW p \in DOMAIN tree
  PROVE  p \in Paths \ {<<>>} /\ WayOpen(tree, p) /\ WayError(tree, p) = "OK" /\ EntryAt(tree, p) = p
<1>1. p \in Paths \ {<<>>} /\ KindAt(tree, Front(p)) = "dir"
  BY DEF IsTree
<1>2. Front(p) \in Paths
  BY <1>1, FrontFacts
<1>3. Leads(tree, Front(p)) = Front(p)
  BY <1>1, <1>2, FolderLeads
<1>4. Append(Front(p), Last(p)) = p
  BY <1>1, FrontAndLast
<1> QED
  BY <1>1, <1>3, <1>4 DEF WayOpen, WayError, EntryAt

\* Where no link is on the way, a path leads to nothing but its own folder.
Unlinked(tree, p) == \A n \in 1 .. Len(p) : KindAt(tree, SubSeq(p, 1, n)) # "link"

LEMMA UnlinkedFacts ==
  ASSUME NEW tree, NEW p \in Paths \ {<<>>}
  PROVE  /\ Unlinked(tree, p) <=> Unlinked(tree, Front(p)) /\ KindAt(tree, p) # "link"
         /\ NoLinkAbove(tree, p) <=> Unlinked(tree, Front(p))
<1>1. Front(p) \in Paths /\ Len(Front(p)) = Len(p) - 1 /\ Len(p) \in Nat \ {0}
  BY FrontFacts
<1>2. \A n \in 1 .. Len(p) - 1 : SubSeq(Front(p), 1, n) = SubSeq(p, 1, n)
  <2> SUFFICES ASSUME NEW n \in 1 .. Len(p) - 1
               PROVE  SubSeq(Front(p), 1, n) = SubSeq(p, 1, n)
    OBVIOUS
  <2>1. n \in 0 .. Len(p) - 1
    BY <1>1
  <2> QED
    BY <2>1, PartOfFront
<1>3. NoLinkAbove(tree, p) <=> Unlinked(tree, Front(p))
  BY <1>1, <1>2 DEF NoLinkAbove, Unlinked
<1>4. \A n \in 1 .. Len(p) : n \in 1 .. Len(p) - 1 \/ n = Len(p)
  BY <1>1
<1>5. \A n \in 1 .. Len(p) - 1 : n \in 1 .. Len(p)
  BY <1>1
<1>6. SubSeq(p, 1, Len(p)) = p /\ Len(p) \in 1 .. Len(p)
  BY <1>1, PartFacts
<1>7. Unlinked(tree, p) <=> NoLinkAbove(tree, p) /\ KindAt(tree, p) # "link"
  BY <1>4, <1>5, <1>6 DEF Unlinked, NoLinkAbove
<1> QED
  BY <1>3, <1>7

\* Without links on it a path leads to itself, or ends where no folder is.
LEMMA PlainWay ==
  ASSUME NEW tree
  PROVE  \A p \in Paths :
           Unlinked(tree, p) => Leads(tree, p) = p \/ KindAt(tree, Leads(tree, p)) # "dir"
<1> DEFINE Good(p) ==
      Unlinked(tree, p) => Leads(tree, p) = p \/ KindAt(tree, Leads(tree, p)) # "dir"
           S == {p \in Paths : Good(p)}
<1>0. <<>> \in Paths
  BY EmptySeq DEF Paths
<1>1. <<>> \in S
  BY <1>0, LeadsStep
<1>2. ASSUME NEW p \in Paths \ {<<>>}, Front(p) \in S PROVE p \in S
  <2> SUFFICES ASSUME Unlinked(tree, p), KindAt(tree, Leads(tree, p)) = "dir"
               PROVE  Leads(tree, p) = p
    OBVIOUS
  <2>1. Unlinked(tree, Front(p)) /\ KindAt(tree, p) # "link"
    BY UnlinkedFacts
  <2>2. Leads(tree, p) = Onward(tree, Leads(tree, Front(p)), Last(p))
    BY LeadsStep
  <2>3. KindAt(tree, Leads(tree, Front(p))) = "dir"
    BY <2>2 DEF Onward
  <2>4. Leads(tree, Front(p)) = Front(p)
    BY <1>2, <2>1, <2>3
  <2>5. Append(Front(p), Last(p)) = p
    BY FrontAndLast
  <2>6. Leads(tree, p) = Follow(tree, p)
    BY <2>2, <2>3, <2>4, <2>5 DEF Onward
  <2> QED
    BY <2>1, <2>6 DEF Follow
<1>3. Paths \subseteq S
  BY <1>1, <1>2, PathInduction
<1> QED
  BY <1>3

LEMMA PlainEntry ==
  ASSUME NEW tree, NEW path \in Paths \ {<<>>}, NoLinkAbove(tree, path), WayOpen(tree, path)
  PROVE  EntryAt(tree, path) = path
<1>1. Front(path) \in Paths /\ Unlinked(tree, Front(path)) /\ Append(Front(path), Last(path)) = path
  BY FrontFacts, UnlinkedFacts, FrontAndLast
<1>2. Leads(tree, Front(path)) = Front(path)
  BY <1>1, PlainWay DEF WayOpen
<1> QED
  BY <1>1, <1>2 DEF EntryAt

\* All folders on the way to what is in the tree are in it.
LEMMA PartsInTree ==
  ASSUME NEW tree, IsTree(tree), NEW q \in Paths \ {<<>>}
  PROVE  \A p \in Paths : p \in DOMAIN tree /\ Beneath(p, q) => q \in DOMAIN tree
<1> DEFINE S == {p \in Paths : p \in DOMAIN tree /\ Beneath(p, q) => q \in DOMAIN tree}
<1>0. <<>> \in Paths
  BY EmptySeq DEF Paths
<1>1. <<>> \in S
  BY <1>0, KindFacts
<1>2. ASSUME NEW p \in Paths \ {<<>>}, Front(p) \in S PROVE p \in S
  <2> SUFFICES ASSUME p \in DOMAIN tree, Beneath(p, q), p # q PROVE q \in DOMAIN tree
    OBVIOUS
  <2>1. Front(p) \in Paths /\ Beneath(Front(p), q)
    BY FrontFacts, BeneathFacts
  <2>2. KindAt(tree, Front(p)) = "dir"
    BY DEF IsTree
  <2>3. Front(p) # <<>>
    <3>1. Len(q) \in Nat \ {0} /\ Len(<<>>) = 0
      BY PathFacts
    <3>2. Len(q) <= Len(Front(p))
      BY <2>1, BeneathFacts
    <3> QED
      BY <3>1, <3>2
  <2>4. Front(p) \in DOMAIN tree
    BY <2>1, <2>2, <2>3, KindFacts
  <2> QED
    BY <1>2, <2>1, <2>4
<1>3. Paths \subseteq S
  BY <1>1, <1>2, PathInduction
<1> QED
  BY <1>3

\* What may be taken leaves a tree.
LEMMA TreeWithout ==
  ASSUME NEW tree, IsTree(tree), NEW e \in Paths \ {<<>>},
         KindAt(tree, e) = "dir" => Names(tree, e) = {}
  PROVE  /\ IsTree(Without(tree, e)) /\ DOMAIN Without(tree, e) = DOMAIN tree \ {e}
         /\ \A p \in DOMAIN tree \ {e} : Without(tree, e)[p] = tree[p]
<1> DEFINE t == Without(tree, e)
<1>1. /\ t = [p \in DOMAIN tree \ {e} |-> tree[p]]
      /\ DOMAIN t = DOMAIN tree \ {e}
      /\ \A p \in DOMAIN tree \ {e} : t[p] = tree[p]
  BY DEF Without, Restrict
<1>2. t = [p \in DOMAIN t |-> t[p]]
  BY <1>1
<1>0. IsFiniteSet(DOMAIN t)
  BY <1>1, FS_Subset DEF IsTree
<1> HIDE DEF t
<1>3. ASSUME NEW p \in DOMAIN t
      PROVE  /\ p \in Paths \ {<<>>} /\ KindAt(t, Front(p)) = "dir"
             /\ \/ t[p] \in AnyFolder \cup AnyFile
                \/ t[p] = LinkTo(t[p].to) /\ t[p].to \in Paths
  <2>1. p \in DOMAIN tree /\ p # e /\ t[p] = tree[p]
    BY <1>1
  <2>2. /\ p \in Paths \ {<<>>} /\ KindAt(tree, Front(p)) = "dir"
        /\ \/ tree[p] \in AnyFolder \cup AnyFile
           \/ tree[p] = LinkTo(tree[p].to) /\ tree[p].to \in Paths
    BY <2>1 DEF IsTree
  <2>3. Front(p) \in Paths /\ Len(p) = Len(Front(p)) + 1 /\ Beneath(p, Front(p))
    <3>1. Front(p) \in Paths /\ Len(Front(p)) = Len(p) - 1 /\ Len(p) \in Nat \ {0}
      BY <2>2, FrontFacts
    <3> QED
      BY <2>2, <3>1, BeneathFacts
  <2>4. Front(p) # e
    <3> SUFFICES ASSUME Front(p) = e PROVE FALSE
      OBVIOUS
    <3>1. p \in Names(tree, e)
      BY <2>1, <2>3 DEF Names, Beneath
    <3> QED
      BY <2>2, <3>1
  <2>5. KindAt(t, Front(p)) = "dir"
    BY <1>1, <2>2, <2>4 DEF KindAt
  <2> QED
    BY <2>1, <2>2, <2>5
<1>4. IsTree(t)
  BY <1>0, <1>2, <1>3 DEF IsTree
<1> QED
  BY <1>1, <1>4 DEF t

\* A folder made in a folder leaves a tree.
LEMMA TreeWithDir ==
  ASSUME NEW tree, IsTree(tree), NEW e \in Paths \ {<<>>},
         KindAt(tree, e) = "none", KindAt(tree, Front(e)) = "dir"
  PROVE  /\ IsTree(WithDir(tree, e)) /\ DOMAIN WithDir(tree, e) = DOMAIN tree \cup {e}
         /\ e \notin DOMAIN tree /\ WithDir(tree, e)[e] = Dir
         /\ \A p \in DOMAIN tree : WithDir(tree, e)[p] = tree[p]
<1> DEFINE t == WithDir(tree, e)
<1>0. e \notin DOMAIN tree
  BY KindFacts
<1>1. /\ DOMAIN t = DOMAIN tree \cup {e}
      /\ t[e] = Dir
      /\ \A p \in DOMAIN tree : t[p] = tree[p]
  BY <1>0 DEF WithDir
<1>2. t = [p \in DOMAIN t |-> t[p]]
  BY DEF WithDir
<1> HIDE DEF t
<1>5. IsFiniteSet(DOMAIN t)
  BY <1>1, FS_AddElement DEF IsTree
<1>3. ASSUME NEW p \in DOMAIN t
      PROVE  /\ p \in Paths \ {<<>>} /\ KindAt(t, Front(p)) = "dir"
             /\ \/ t[p] \in AnyFolder \cup AnyFile
                \/ t[p] = LinkTo(t[p].to) /\ t[p].to \in Paths
  <2>1. \A q : KindAt(tree, q) = "dir" => KindAt(t, q) = "dir"
    <3> SUFFICES ASSUME NEW q, KindAt(tree, q) = "dir", q # <<>> PROVE KindAt(t, q) = "dir"
      BY DEF KindAt
    <3>1. q \in DOMAIN tree
      BY DEF KindAt
    <3> QED
      BY <1>1, <3>1 DEF KindAt
  <2>2. CASE p = e
    BY <1>1, <2>1, <2>2, NoLinkFacts
  <2>3. CASE p # e
    <3>1. p \in DOMAIN tree /\ t[p] = tree[p]
      BY <1>1, <2>3
    <3>2. /\ p \in Paths \ {<<>>} /\ KindAt(tree, Front(p)) = "dir"
          /\ \/ tree[p] \in AnyFolder \cup AnyFile
             \/ tree[p] = LinkTo(tree[p].to) /\ tree[p].to \in Paths
      BY <3>1 DEF IsTree
    <3> QED
      BY <2>1, <3>1, <3>2
  <2> QED
    BY <2>2, <2>3
<1>4. IsTree(t)
  BY <1>2, <1>3, <1>5 DEF IsTree
<1> QED
  BY <1>0, <1>1, <1>4 DEF t
-----------------------------------------------------------------------------
(* The invariant *)

IsDisk(d) ==
  d = [tree |-> d.tree, start |-> d.start, denied |-> d.denied,
       descriptors |-> d.descriptors, calls |-> d.calls]
IsRemover(c) ==
  /\ c.what = "remove"
  /\ c = [what |-> "remove", path |-> c.path, at |-> c.at, queue |-> c.queue, scan |-> c.scan,
          k |-> c.k, error |-> c.error]
IsCreator(c) ==
  /\ c.what = "create"
  /\ c = [what |-> "create", path |-> c.path, at |-> c.at, k |-> c.k, error |-> c.error]

\* All that the search has found lies beneath the folder to remove.
QueueSound(c) ==
  /\ IsRemover(c) /\ c.path \in Paths \ {<<>>}
  /\ c.queue \in Seq(Paths) /\ c.scan \in 0 .. Len(c.queue)
  /\ \A m \in 1 .. Len(c.queue) : c.queue[m] # c.path /\ Beneath(c.queue[m], c.path)
RemoverSound(c) ==
  /\ QueueSound(c)
  /\ c.at \in {"scan", "item", "rest", "target", "done"}
  /\ c.at = "rest" => c.k \in 1 .. Len(c.queue)
CreatorSound(c) ==
  /\ IsCreator(c) /\ c.path \in Paths \ {<<>>} /\ c.at \in {"look", "make", "done"}
  /\ c.k \in 0 .. Len(c.path) /\ (c.at = "make" => c.k # 0)

\* The folders the search went through are none that a link leads to.
SearchUnlinked(tree, c) ==
  \A m \in 1 .. Len(c.queue), f \in Paths :
    Beneath(f, c.path) /\ Beneath(c.queue[m], f) /\ f # c.queue[m] => KindAt(tree, f) # "link"
\* A link is never made.
OnlyFoldersMade(d) ==
  \A p \in DOMAIN d.tree : (p \in DOMAIN d.start /\ d.tree[p] = d.start[p]) \/ d.tree[p] = Dir

CallSound(tree, c) ==
  \/ RemoverSound(c) /\ SearchUnlinked(tree, c)
  \/ CreatorSound(c)
DiskSound(d) ==
  /\ IsDisk(d) /\ IsTree(d.tree) /\ IsTree(d.start) /\ OnlyFoldersMade(d)
  /\ d.calls = [i \in DOMAIN d.calls |-> d.calls[i]]
  /\ \A i \in DOMAIN d.calls : CallSound(d.tree, d.calls[i])
IInv == DiskSound(disk)

-----------------------------------------------------------------------------
(* The calls of the operating system *)

\* What q leads to is taken, or made.
Takes(old, new, q) ==
  /\ WayOpen(old, q) /\ EntryAt(old, q) \in DOMAIN old
  /\ DOMAIN new = DOMAIN old \ {EntryAt(old, q)}
  /\ \A p \in DOMAIN new : new[p] = old[p]
Makes(old, new, q) ==
  /\ WayOpen(old, q) /\ EntryAt(old, q) \notin DOMAIN old
  /\ DOMAIN new = DOMAIN old \cup {EntryAt(old, q)} /\ new[EntryAt(old, q)] = Dir
  /\ \A p \in DOMAIN old : new[p] = old[p]

\* What unlink and rmdir do to the disk.
LEMMA RemoveFacts ==
  ASSUME NEW d, IsDisk(d), IsTree(d.tree), NEW path \in Paths \ {<<>>}
  PROVE  LET e == AfterRemove(d, path)
             at == EntryAt(d.tree, path)
         IN /\ IsDisk(e) /\ IsTree(e.tree)
            /\ e.start = d.start /\ e.denied = d.denied /\ e.calls = d.calls
            /\ e.descriptors = d.descriptors
            /\ RemoveErrno(d, path) = "OK" =>
                  /\ e.tree = Without(d.tree, at) /\ DOMAIN e.tree = DOMAIN d.tree \ {at}
                  /\ \A p \in DOMAIN d.tree \ {at} : e.tree[p] = d.tree[p]
                  /\ WayOpen(d.tree, path) /\ at \in DOMAIN d.tree /\ at \notin d.denied
            /\ RemoveErrno(d, path) # "OK" => e.tree = d.tree
<1> DEFINE e == AfterRemove(d, path)
           at == EntryAt(d.tree, path)
<1>1. at \in Paths \ {<<>>} /\ (WayError(d.tree, path) = "OK" <=> WayOpen(d.tree, path))
  BY EntryFacts
<1>2. CASE RemoveErrno(d, path) = "OK"
  <2>1. /\ WayError(d.tree, path) = "OK" /\ KindAt(d.tree, at) # "none" /\ at \notin d.denied
        /\ ~(KindAt(d.tree, at) = "dir" /\ Names(d.tree, at) # {})
    BY <1>2, Zenon DEF RemoveErrno
  <2>2. at \in DOMAIN d.tree
    BY <1>1, <2>1, KindFacts
  <2>3. e = [d EXCEPT !.tree = Without(d.tree, at)]
    BY <1>2 DEF AfterRemove, Without
  <2>4. IsTree(Without(d.tree, at)) /\ DOMAIN Without(d.tree, at) = DOMAIN d.tree \ {at}
        /\ \A p \in DOMAIN d.tree \ {at} : Without(d.tree, at)[p] = d.tree[p]
    BY <1>1, <2>1, TreeWithout
  <2> HIDE DEF e, at
  <2>5. /\ e.tree = Without(d.tree, at) /\ e.start = d.start /\ e.denied = d.denied
        /\ e.calls = d.calls /\ e.descriptors = d.descriptors /\ IsDisk(e)
    BY <2>3 DEF IsDisk
  <2> QED
    BY <1>1, <1>2, <2>1, <2>2, <2>4, <2>5 DEF e, at
<1>3. CASE RemoveErrno(d, path) # "OK"
  BY <1>3 DEF AfterRemove
<1> QED
  BY <1>2, <1>3

\* What a folder refuses that something is to be made in.
LEMMA RefusalFacts ==
  ASSUME NEW tree, IsTree(tree), NEW path \in Paths \ {<<>>}, WayOpen(tree, path)
  PROVE  LET f == Leads(tree, Front(path))
         IN /\ Refusal(tree, f) \in {"OK", "EACCES", "EROFS"}
            /\ Refusal(tree, f) # "OK" => f \in DOMAIN tree /\ tree[f] \in AnyFolder /\ tree[f].make = Refusal(tree, f)
<1> DEFINE f == Leads(tree, Front(path))
<1>1. f \in Paths /\ KindAt(tree, f) = "dir"
  BY FrontFacts, LeadsIsPath DEF WayOpen
<1> HIDE DEF f
<1>2. CASE f = <<>>
  BY <1>2 DEF Refusal, f
<1>3. CASE f # <<>>
  <2>1. f \in DOMAIN tree /\ tree[f] \in AnyFolder
    BY <1>1, <1>3, KindFacts
  <2>2. Refusal(tree, f) = tree[f].make /\ tree[f].make \in {"OK", "EACCES", "EROFS"}
    BY <1>3, <2>1, NoLinkFacts DEF Refusal
  <2> QED
    BY <2>1, <2>2 DEF f
<1> QED
  BY <1>2, <1>3

\* What mkdir does to the disk.
LEMMA MkdirFacts ==
  ASSUME NEW d, IsDisk(d), IsTree(d.tree), NEW path \in Paths \ {<<>>}
  PROVE  LET e == AfterMkdir(d, path)
         IN /\ IsDisk(e) /\ IsTree(e.tree)
            /\ e.start = d.start /\ e.denied = d.denied /\ e.calls = d.calls
            /\ e.descriptors = d.descriptors
            /\ MkdirErrno(d, path) = "OK" => Makes(d.tree, e.tree, path)
            /\ MkdirErrno(d, path) # "OK" => e.tree = d.tree
<1> DEFINE e == AfterMkdir(d, path)
           at == EntryAt(d.tree, path)
<1>1. /\ at \in Paths \ {<<>>} /\ (WayError(d.tree, path) = "OK" <=> WayOpen(d.tree, path))
      /\ Front(at) = Leads(d.tree, Front(path))
  BY EntryFacts
<1>2. CASE MkdirErrno(d, path) = "OK"
  <2>1. WayError(d.tree, path) = "OK" /\ KindAt(d.tree, at) = "none"
    BY <1>2, Zenon DEF MkdirErrno
  <2>2. KindAt(d.tree, Front(at)) = "dir" /\ WayOpen(d.tree, path)
    BY <1>1, <2>1 DEF WayOpen
  <2>3. e = [d EXCEPT !.tree = WithDir(d.tree, at)]
    BY <1>2 DEF AfterMkdir
  <2>4. /\ IsTree(WithDir(d.tree, at)) /\ DOMAIN WithDir(d.tree, at) = DOMAIN d.tree \cup {at}
        /\ at \notin DOMAIN d.tree /\ WithDir(d.tree, at)[at] = Dir
        /\ \A p \in DOMAIN d.tree : WithDir(d.tree, at)[p] = d.tree[p]
    BY <1>1, <2>1, <2>2, TreeWithDir
  <2> HIDE DEF e, at
  <2>5. /\ e.tree = WithDir(d.tree, at) /\ e.start = d.start /\ e.denied = d.denied
        /\ e.calls = d.calls /\ e.descriptors = d.descriptors /\ IsDisk(e)
    BY <2>3 DEF IsDisk
  <2>6. Makes(d.tree, e.tree, path)
    BY <2>2, <2>4, <2>5 DEF Makes, at
  <2> QED
    BY <1>2, <2>4, <2>5, <2>6 DEF e
<1>3. CASE MkdirErrno(d, path) # "OK"
  BY <1>3 DEF AfterMkdir
<1> QED
  BY <1>2, <1>3

\* What listing a folder does to the disk.
LEMMA ListFacts ==
  ASSUME NEW d, IsDisk(d), NEW path
  PROVE  LET e == AfterList(d, path)
         IN /\ IsDisk(e) /\ e.tree = d.tree /\ e.start = d.start /\ e.denied = d.denied
            /\ e.calls = d.calls /\ e.descriptors \in {d.descriptors, d.descriptors - 1}
<1> DEFINE e == AfterList(d, path)
<1>1. CASE ListFolder(d, path) = "TARGETNOTADIRECTORY"
  <2>1. e = [d EXCEPT !.descriptors = d.descriptors - 1]
    BY <1>1 DEF AfterList
  <2> HIDE DEF e
  <2>2. /\ IsDisk(e) /\ e.tree = d.tree /\ e.start = d.start /\ e.denied = d.denied
        /\ e.calls = d.calls /\ e.descriptors = d.descriptors - 1
    BY <2>1 DEF IsDisk
  <2> QED
    BY <2>2 DEF e
<1>2. CASE ListFolder(d, path) # "TARGETNOTADIRECTORY"
  BY <1>2 DEF AfterList
<1> QED
  BY <1>1, <1>2

\* A call goes on.
LEMMA SetFacts ==
  ASSUME NEW d, IsDisk(d), d.calls = [i \in DOMAIN d.calls |-> d.calls[i]],
         NEW i \in DOMAIN d.calls, NEW c
  PROVE  LET e == Set(d, i, c)
         IN /\ IsDisk(e) /\ e.tree = d.tree /\ e.start = d.start /\ e.denied = d.denied
            /\ e.descriptors = d.descriptors
            /\ DOMAIN e.calls = DOMAIN d.calls /\ e.calls[i] = c
            /\ e.calls = [j \in DOMAIN d.calls |-> e.calls[j]]
            /\ \A j \in DOMAIN d.calls : j # i => e.calls[j] = d.calls[j]
<1> DEFINE e == Set(d, i, c)
           calls == [d.calls EXCEPT ![i] = c]
<1>1. e = [d EXCEPT !.calls = calls]
  BY DEF Set
<1>2. /\ DOMAIN calls = DOMAIN d.calls /\ calls[i] = c
      /\ calls = [j \in DOMAIN d.calls |-> calls[j]]
      /\ \A j \in DOMAIN d.calls : j # i => calls[j] = d.calls[j]
  OBVIOUS
<1> HIDE DEF e, calls
<1>3. /\ IsDisk(e) /\ e.tree = d.tree /\ e.start = d.start /\ e.denied = d.denied
      /\ e.descriptors = d.descriptors /\ e.calls = calls
  BY <1>1 DEF IsDisk
<1> QED
  BY <1>2, <1>3 DEF e
-----------------------------------------------------------------------------
(* The steps of a call *)

\* An error is noted.
LEMMA NotingFacts ==
  ASSUME NEW c, QueueSound(c), NEW error
  PROVE  LET r == Noting(c, error)
         IN /\ QueueSound(r) /\ r.path = c.path /\ r.at = c.at /\ r.queue = c.queue
            /\ r.scan = c.scan /\ r.k = c.k
            /\ r.error = IF c.error = "SUCCESS" /\ error # "NOSUCHTARGET" THEN error ELSE c.error
<1> DEFINE r == Noting(c, error)
           new == [c EXCEPT !.error = error]
<1>1. QueueSound(new) /\ new.path = c.path /\ new.at = c.at /\ new.queue = c.queue
      /\ new.scan = c.scan /\ new.k = c.k /\ new.error = error
  <2> DEFINE n == new
  <2>1. n = [c EXCEPT !.error = error]
    OBVIOUS
  <2> HIDE DEF n
  <2>2. /\ IsRemover(n) /\ n.path = c.path /\ n.at = c.at /\ n.queue = c.queue
        /\ n.scan = c.scan /\ n.k = c.k /\ n.error = error
    BY <2>1 DEF QueueSound, IsRemover
  <2>3. QueueSound(n)
    BY <2>2 DEF QueueSound
  <2> QED
    BY <2>2, <2>3 DEF n
<1>2. CASE c.error = "SUCCESS" /\ error # "NOSUCHTARGET"
  <2>1. r = new
    BY <1>2 DEF Noting
  <2> HIDE DEF r, new
  <2> QED
    BY <1>1, <1>2, <2>1 DEF r
<1>3. CASE ~(c.error = "SUCCESS" /\ error # "NOSUCHTARGET")
  <2>1. r = c
    BY <1>3 DEF Noting
  <2> HIDE DEF r
  <2> QED
    BY <1>3, <2>1 DEF r
<1> QED
  BY <1>2, <1>3

LEMMA EndedFacts ==
  ASSUME NEW c, QueueSound(c), NEW error
  PROVE  LET r == Ended(c, error)
         IN /\ QueueSound(r) /\ RemoverSound(r) /\ r.path = c.path /\ r.at = "done"
            /\ r.queue = c.queue /\ r.error = error
<1> DEFINE r == Ended(c, error)
<1>1. r = [c EXCEPT !.at = "done", !.error = error]
  BY DEF Ended
<1> HIDE DEF r
<1>2. /\ IsRemover(r) /\ r.path = c.path /\ r.at = "done" /\ r.queue = c.queue
      /\ r.scan = c.scan /\ r.error = error
  BY <1>1 DEF QueueSound, IsRemover
<1>3. QueueSound(r)
  BY <1>2 DEF QueueSound
<1> QED
  BY <1>2, <1>3 DEF r, RemoverSound

\* To the next item of the queue, or to the removal of what is left.
LEMMA ToNextFacts ==
  ASSUME NEW c, QueueSound(c)
  PROVE  LET r == ToNext(c)
         IN /\ RemoverSound(r) /\ r.path = c.path /\ r.queue = c.queue /\ r.error = c.error
            /\ \/ c.scan < Len(c.queue) /\ r.at = "scan" /\ r.scan = c.scan + 1
               \/ c.scan = Len(c.queue) /\ r.queue = <<>> /\ r.at = "target"
               \/ c.scan = Len(c.queue) /\ r.at = "rest" /\ r.k = Len(c.queue)
<1> DEFINE r == ToNext(c)
<1>0. Len(c.queue) \in Nat /\ c.scan \in 0 .. Len(c.queue) /\ (Len(c.queue) = 0 <=> c.queue = <<>>)
  BY LenProperties, EmptySeq DEF QueueSound
<1>1. CASE c.scan < Len(c.queue)
  <2>1. r = [c EXCEPT !.at = "scan", !.scan = c.scan + 1]
    BY <1>1 DEF ToNext
  <2> HIDE DEF r
  <2>2. /\ IsRemover(r) /\ r.path = c.path /\ r.at = "scan" /\ r.queue = c.queue
        /\ r.scan = c.scan + 1 /\ r.error = c.error
    BY <2>1 DEF QueueSound, IsRemover
  <2>3. QueueSound(r)
    BY <1>0, <1>1, <2>2 DEF QueueSound
  <2> QED
    BY <1>1, <2>2, <2>3 DEF r, RemoverSound
<1>2. CASE ~(c.scan < Len(c.queue))
  <2>1. r = [c EXCEPT !.at = IF c.queue = <<>> THEN "target" ELSE "rest", !.k = Len(c.queue)]
    BY <1>2 DEF ToNext, ToRest
  <2>2. c.scan = Len(c.queue)
    BY <1>0, <1>2
  <2> HIDE DEF r
  <2>3. /\ IsRemover(r) /\ r.path = c.path /\ r.queue = c.queue /\ r.k = Len(c.queue)
        /\ r.at = (IF c.queue = <<>> THEN "target" ELSE "rest")
        /\ r.scan = c.scan /\ r.error = c.error
    BY <2>1 DEF QueueSound, IsRemover
  <2>4. QueueSound(r)
    BY <2>3 DEF QueueSound
  <2> QED
    BY <1>0, <2>2, <2>3, <2>4 DEF r, RemoverSound
<1> QED
  BY <1>1, <1>2

\* Where an item of the queue was before the one at i went.
Passed(i, m) == IF m < i THEN m ELSE m + 1

\* A sequence without one of its items.
LEMMA RemovedAt ==
  ASSUME NEW S, NEW s \in Seq(S), NEW i \in 1 .. Len(s)
  PROVE /\ RemoveAt(s, i) \in Seq(S) /\ Len(RemoveAt(s, i)) = Len(s) - 1
        /\ \A k \in 1 .. Len(s) - 1 : RemoveAt(s, i)[k] = s[Passed(i, k)]
<1> DEFINE a == SubSeq(s, 1, i - 1)
           b == SubSeq(s, i + 1, Len(s))
<1>1. a \in Seq(S) /\ Len(a) = i - 1 /\ \A k \in 1 .. i - 1 : a[k] = s[k]
  BY SubSeqProperties
<1>2. b \in Seq(S) /\ Len(b) = Len(s) - i /\ \A k \in 1 .. Len(s) - i : b[k] = s[k + i]
  BY SubSeqProperties
<1> HIDE DEF a, b
<1>3. RemoveAt(s, i) = a \o b
  BY DEF RemoveAt, a, b
<1>4. Len(s) \in Nat /\ Len(a) + Len(b) = Len(s) - 1 /\ \A k \in Nat : k <= Len(a) <=> k < i
  BY <1>1, <1>2
<1>5. /\ a \o b \in Seq(S) /\ Len(a \o b) = Len(a) + Len(b)
      /\ \A k \in 1 .. Len(a) + Len(b) : (a \o b)[k] = IF k <= Len(a) THEN a[k] ELSE b[k - Len(a)]
  BY <1>1, <1>2, ConcatProperties
<1>6. ASSUME NEW k \in 1 .. Len(s) - 1 PROVE (a \o b)[k] = s[Passed(i, k)]
  <2>0. (a \o b)[k] = IF k < i THEN a[k] ELSE b[k - (i - 1)]
    BY <1>1, <1>4, <1>5
  <2>1. CASE k < i
    BY <1>1, <2>0, <2>1 DEF Passed
  <2>2. CASE ~(k < i)
    <3>1. k - (i - 1) \in 1 .. Len(s) - i /\ k - (i - 1) + i = k + 1
      BY <2>2
    <3> QED
      BY <1>2, <2>0, <2>2, <3>1 DEF Passed
  <2> QED
    BY <2>1, <2>2
<1> QED
  BY <1>3, <1>4, <1>5, <1>6

\* What leaves the queue, and what the rest is then.
LEMMA UnqueuedFacts ==
  ASSUME NEW c, QueueSound(c)
  PROVE  LET r == Unqueued(c)
         IN /\ QueueSound(r) /\ r.path = c.path /\ r.error = c.error
            /\ \/ ~(c.scan \in 1 .. Len(c.queue) - 1) /\ r = c
               \/ /\ c.scan \in 1 .. Len(c.queue) - 1 /\ r.scan = c.scan - 1
                  /\ Len(r.queue) = Len(c.queue) - 1
                  /\ \A m \in 1 .. Len(r.queue) :
                        r.queue[m] = c.queue[Passed(c.scan, m)]
                        /\ Passed(c.scan, m) \in 1 .. Len(c.queue)
<1> DEFINE r == Unqueued(c)
<1>0. Len(c.queue) \in Nat
  BY LenProperties DEF QueueSound
<1>1. CASE c.scan \in 1 .. Len(c.queue) - 1
  <2> DEFINE q == RemoveAt(c.queue, c.scan)
  <2>0. r = [c EXCEPT !.queue = q, !.scan = c.scan - 1]
    BY <1>1 DEF Unqueued
  <2>1. c.queue \in Seq(Paths) /\ c.scan \in 1 .. Len(c.queue)
    BY <1>0, <1>1 DEF QueueSound
  <2>2. /\ q \in Seq(Paths) /\ Len(q) = Len(c.queue) - 1
        /\ \A m \in 1 .. Len(c.queue) - 1 : q[m] = c.queue[Passed(c.scan, m)]
    BY <2>1, RemovedAt
  <2> HIDE DEF r, q
  <2>3. /\ IsRemover(r) /\ r.path = c.path /\ r.at = c.at /\ r.queue = q
        /\ r.scan = c.scan - 1 /\ r.k = c.k /\ r.error = c.error
    BY <2>0 DEF QueueSound, IsRemover
  <2>4. \A m \in 1 .. Len(c.queue) - 1 : Passed(c.scan, m) \in 1 .. Len(c.queue)
    BY <1>0 DEF Passed
  <2>5. QueueSound(r)
    <3>1. r.scan \in 0 .. Len(r.queue)
      BY <1>0, <1>1, <2>2, <2>3
    <3>2. ASSUME NEW m \in 1 .. Len(r.queue)
          PROVE  r.queue[m] # c.path /\ Beneath(r.queue[m], c.path)
      <4>1. m \in 1 .. Len(c.queue) - 1
        BY <2>2, <2>3
      <4>2. r.queue[m] = c.queue[Passed(c.scan, m)] /\ Passed(c.scan, m) \in 1 .. Len(c.queue)
        BY <2>2, <2>3, <2>4, <4>1
      <4> QED
        BY <4>2 DEF QueueSound
    <3> QED
      BY <2>2, <2>3, <3>1, <3>2 DEF QueueSound
  <2>6. \A m \in 1 .. Len(r.queue) : r.queue[m] = c.queue[Passed(c.scan, m)]
                                     /\ Passed(c.scan, m) \in 1 .. Len(c.queue)
    BY <2>2, <2>3, <2>4
  <2> QED
    BY <1>1, <2>2, <2>3, <2>5, <2>6 DEF r
<1>2. CASE ~(c.scan \in 1 .. Len(c.queue) - 1)
  BY <1>2 DEF Unqueued
<1> QED
  BY <1>1, <1>2
-----------------------------------------------------------------------------
(* The search *)

LEMMA ItemFacts ==
  ASSUME NEW c, QueueSound(c), NEW m \in 1 .. Len(c.queue)
  PROVE  c.queue[m] \in Paths \ {<<>>}
<1>1. c.queue[m] \in Paths /\ c.path \in Paths \ {<<>>} /\ Beneath(c.queue[m], c.path)
  BY ElementOfSeq DEF QueueSound
<1>2. Len(c.path) <= Len(c.queue[m]) /\ Len(c.path) \in Nat \ {0} /\ Len(<<>>) = 0
  BY <1>1, BeneathFacts, PathFacts
<1> QED
  BY <1>1, <1>2

\* What is searched lies beneath the folder to remove.
LEMMA ScanNextFacts ==
  ASSUME NEW c, QueueSound(c)
  PROVE  /\ ScanNext(c) \in Paths \ {<<>>} /\ Beneath(ScanNext(c), c.path)
         /\ c.scan # 0 => c.scan \in 1 .. Len(c.queue) /\ ScanNext(c) = c.queue[c.scan]
         /\ c.scan = 0 => ScanNext(c) = c.path
<1>0. Len(c.queue) \in Nat /\ c.path \in Paths \ {<<>>} /\ c.scan \in 0 .. Len(c.queue)
  BY LenProperties DEF QueueSound
<1>1. CASE c.scan = 0
  BY <1>0, <1>1, BeneathFacts DEF ScanNext
<1>2. CASE c.scan # 0
  <2>1. c.scan \in 1 .. Len(c.queue) /\ ScanNext(c) = c.queue[c.scan]
    BY <1>0, <1>2 DEF ScanNext
  <2> QED
    BY <1>2, <2>1, ItemFacts DEF QueueSound
<1> QED
  BY <1>1, <1>2

\* What a listing has: the names that lie in the folder, each under its path.
LEMMA ListingFacts ==
  ASSUME NEW d, IsTree(d.tree), NEW path \in Paths \ {<<>>}, NEW more \in Listings(d, path)
  PROVE  LET names == Names(d.tree, EntryAt(d.tree, path))
         IN /\ more \in Seq(Paths) /\ Len(more) \in Nat /\ Len(more) = Cardinality(names)
            /\ \E s \in [1 .. Len(more) -> names] :
                  /\ \A m, o \in 1 .. Len(more) : m # o => s[m] # s[o]
                  /\ \A m \in 1 .. Len(more) : more[m] = Append(path, Last(s[m]))
                                              /\ Last(s[m]) \in Component
<1> DEFINE names == Names(d.tree, EntryAt(d.tree, path))
           n == Cardinality(names)
<1>1. names \subseteq DOMAIN d.tree /\ IsFiniteSet(names)
  BY FS_Subset DEF Names, IsTree
<1>2. n \in Nat
  BY <1>1, FS_CardinalityType
<1>3. \A p \in names : Last(p) \in Component
  <2> SUFFICES ASSUME NEW p \in names PROVE Last(p) \in Component
    OBVIOUS
  <2>1. p \in Paths /\ p # <<>>
    BY <1>1 DEF IsTree
  <2> QED
    BY <2>1, FrontFacts
<1>4. PICK s \in SetToSeqs(names) : more = [i \in DOMAIN s |-> Append(path, Last(s[i]))]
  BY DEF Listings
<1>5. s \in [1 .. n -> names] /\ \A i, j \in 1 .. n : i # j => s[i] # s[j]
  BY <1>4 DEF SetToSeqs
<1> HIDE DEF names, n
<1>6. more = [i \in 1 .. n |-> Append(path, Last(s[i]))]
  BY <1>4, <1>5
<1>7. ASSUME NEW i \in 1 .. n PROVE Append(path, Last(s[i])) \in Paths
  <2>1. s[i] \in names
    BY <1>5
  <2>2. Last(s[i]) \in Component
    BY <1>3, <2>1
  <2> QED
    BY <2>2, AppendFacts
<1>8. more \in Seq(Paths) /\ Len(more) = n
  BY <1>2, <1>6, <1>7
<1>9. \A m \in 1 .. n : more[m] = Append(path, Last(s[m])) /\ Last(s[m]) \in Component
  <2> SUFFICES ASSUME NEW m \in 1 .. n
               PROVE  more[m] = Append(path, Last(s[m])) /\ Last(s[m]) \in Component
    OBVIOUS
  <2>1. s[m] \in names
    BY <1>5
  <2> QED
    BY <1>3, <1>6, <2>1
<1> QED
  BY <1>2, <1>5, <1>8, <1>9 DEF names, n

\* The queue with what a listing of the item at hand has found.
LEMMA ExtendedFacts ==
  ASSUME NEW c, QueueSound(c), NEW more \in Seq(Paths),
         \A m \in 1 .. Len(more) : \E name \in Component : more[m] = Append(ScanNext(c), name)
  PROVE  LET r == [c EXCEPT !.queue = @ \o more]
         IN /\ QueueSound(r) /\ r.path = c.path /\ r.error = c.error /\ r.scan = c.scan
            /\ r.queue = c.queue \o more /\ Len(r.queue) = Len(c.queue) + Len(more)
            /\ \A m \in 1 .. Len(c.queue) : r.queue[m] = c.queue[m]
            /\ \A m \in 1 .. Len(r.queue) : m > Len(c.queue) => m - Len(c.queue) \in 1 .. Len(more)
                                              /\ r.queue[m] = more[m - Len(c.queue)]
<1> DEFINE r == [c EXCEPT !.queue = @ \o more]
           q == c.queue \o more
<1>1. c.queue \in Seq(Paths) /\ Len(c.queue) \in Nat /\ Len(more) \in Nat
  BY LenProperties DEF QueueSound
<1>2. /\ q \in Seq(Paths) /\ Len(q) = Len(c.queue) + Len(more)
      /\ \A m \in 1 .. Len(c.queue) + Len(more) :
            q[m] = IF m <= Len(c.queue) THEN c.queue[m] ELSE more[m - Len(c.queue)]
  BY <1>1, ConcatProperties
<1>3. r = [c EXCEPT !.queue = q]
  OBVIOUS
<1> HIDE DEF r, q
<1>4. /\ IsRemover(r) /\ r.path = c.path /\ r.at = c.at /\ r.queue = q
      /\ r.scan = c.scan /\ r.k = c.k /\ r.error = c.error
  BY <1>3 DEF QueueSound, IsRemover
<1>5. \A m \in 1 .. Len(c.queue) : q[m] = c.queue[m]
  BY <1>1, <1>2
<1>6. \A m \in 1 .. Len(q) : m > Len(c.queue) => m - Len(c.queue) \in 1 .. Len(more)
                                               /\ q[m] = more[m - Len(c.queue)]
  <2> SUFFICES ASSUME NEW m \in 1 .. Len(q), m > Len(c.queue)
               PROVE  m - Len(c.queue) \in 1 .. Len(more) /\ q[m] = more[m - Len(c.queue)]
    OBVIOUS
  <2>1. m \in 1 .. Len(c.queue) + Len(more)
    BY <1>2
  <2>2. ~(m <= Len(c.queue)) /\ m - Len(c.queue) \in 1 .. Len(more)
    BY <1>1, <2>1
  <2> QED
    BY <1>2, <2>1, <2>2
<1>7. ASSUME NEW m \in 1 .. Len(q) PROVE q[m] # c.path /\ Beneath(q[m], c.path)
  <2>1. CASE m <= Len(c.queue)
    <3>1. m \in 1 .. Len(c.queue)
      BY <1>1, <2>1
    <3> QED
      BY <1>5, <3>1 DEF QueueSound
  <2>2. CASE m > Len(c.queue)
    <3> DEFINE f == ScanNext(c)
    <3>1. PICK name \in Component : q[m] = Append(f, name)
      BY <1>6, <2>2
    <3>2. f \in Paths /\ c.path \in Paths /\ Beneath(f, c.path)
      BY ScanNextFacts DEF QueueSound
    <3>3. q[m] \in Paths \ {<<>>} /\ Front(q[m]) = f
      BY <3>1, <3>2, AppendFacts
    <3> HIDE DEF f
    <3> QED
      BY <3>2, <3>3, BeneathFacts
  <2> QED
    BY <1>1, <1>2, <2>1, <2>2
<1>8. QueueSound(r)
  <2>1. c.scan \in 0 .. Len(q)
    BY <1>1, <1>2 DEF QueueSound
  <2>2. c.path \in Paths \ {<<>>}
    BY DEF QueueSound
  <2> QED
    BY <1>2, <1>4, <1>7, <2>1, <2>2 DEF QueueSound
<1> QED
  BY <1>2, <1>4, <1>5, <1>6, <1>8 DEF r, q

\* What was listed is a folder, and no link to one.
LEMMA ListedIsFolder ==
  ASSUME NEW d, IsTree(d.tree), NEW path \in Paths \ {<<>>}, ListFolder(d, path) = "SUCCESS"
  PROVE  /\ KindAt(d.tree, path) # "link" /\ d.descriptors # 0
         /\ KindAt(d.tree, EntryAt(d.tree, path)) = "dir" /\ WayOpen(d.tree, path)
         /\ d.tree[EntryAt(d.tree, path)].open = "OK"
<1> DEFINE at == EntryAt(d.tree, path)
<1>0. WayError(d.tree, path) \in {"OK", "ENOTDIR", "ENOENT"} /\ at \in Paths \ {<<>>}
      /\ (WayError(d.tree, path) = "OK" <=> WayOpen(d.tree, path))
  BY EntryFacts
<1>1. OpenErrno(d, path) \notin {"EMFILE", "EACCES", "ELOOP", "ENOENT", "ENOTDIR"}
      /\ KindAt(d.tree, at) # "file"
  BY DEF ListFolder
<1>2. /\ d.descriptors # 0 /\ WayError(d.tree, path) = "OK"
      /\ KindAt(d.tree, at) # "none" /\ KindAt(d.tree, at) # "link"
  BY <1>0, <1>1 DEF OpenErrno
<1>5. OpenErrno(d, path) = d.tree[at].open
  BY <1>2 DEF OpenErrno
<1>3. KindAt(d.tree, at) = "dir" /\ d.tree[at].open = "OK"
  <2>1. at \in DOMAIN d.tree
    BY <1>0, <1>2, KindFacts
  <2>2. KindAt(d.tree, at) = d.tree[at].k
    BY <1>0, <2>1, KindFacts
  <2>3. d.tree[at] \in AnyFolder \cup AnyFile \/ d.tree[at] = LinkTo(d.tree[at].to)
    BY <2>1 DEF IsTree
  <2>4. d.tree[at].k \in {"dir", "file", "link"} /\ (d.tree[at].k # "link" => d.tree[at].open \in {"OK", "EACCES"})
    BY <2>3, NoLinkFacts, LinkFacts
  <2> QED
    BY <1>1, <1>2, <1>5, <2>2, <2>4
<1>4. KindAt(d.tree, path) # "link"
  <2> SUFFICES ASSUME KindAt(d.tree, path) = "link" PROVE FALSE
    OBVIOUS
  <2>1. path \in DOMAIN d.tree
    BY KindFacts
  <2>2. at = path
    BY <2>1, EntryInTree
  <2> QED
    BY <1>2, <2>2
<1> QED
  BY <1>0, <1>2, <1>3, <1>4
\* The items of a listed folder lie behind no link.
LEMMA ExtendedUnlinked ==
  ASSUME NEW tree, NEW c, QueueSound(c), SearchUnlinked(tree, c), NEW more \in Seq(Paths),
         \A m \in 1 .. Len(more) : \E name \in Component : more[m] = Append(ScanNext(c), name),
         KindAt(tree, ScanNext(c)) # "link"
  PROVE  SearchUnlinked(tree, [c EXCEPT !.queue = @ \o more])
<1> DEFINE r == [c EXCEPT !.queue = @ \o more]
           f == ScanNext(c)
<1>1. /\ QueueSound(r) /\ r.path = c.path /\ Len(r.queue) = Len(c.queue) + Len(more)
      /\ \A m \in 1 .. Len(c.queue) : r.queue[m] = c.queue[m]
      /\ \A m \in 1 .. Len(r.queue) : m > Len(c.queue) => m - Len(c.queue) \in 1 .. Len(more)
                                                       /\ r.queue[m] = more[m - Len(c.queue)]
  BY ExtendedFacts
<1>2. /\ f \in Paths \ {<<>>} /\ Beneath(f, c.path)
      /\ c.scan # 0 => c.scan \in 1 .. Len(c.queue) /\ f = c.queue[c.scan]
      /\ c.scan = 0 => f = c.path
  BY ScanNextFacts
<1>3. KindAt(tree, f) # "link" /\ Len(c.queue) \in Nat /\ c.path \in Paths
  BY LenProperties DEF QueueSound
<1> HIDE DEF r
<1> SUFFICES ASSUME NEW m \in 1 .. Len(r.queue), NEW g \in Paths,
                    Beneath(g, r.path), Beneath(r.queue[m], g), g # r.queue[m]
             PROVE  KindAt(tree, g) # "link"
  BY DEF SearchUnlinked, r
<1>4. CASE m <= Len(c.queue)
  <2>1. m \in 1 .. Len(c.queue)
    BY <1>3, <1>4
  <2> QED
    BY <1>1, <2>1 DEF SearchUnlinked
<1>5. CASE m > Len(c.queue)
  <2>1. PICK name \in Component : r.queue[m] = Append(f, name)
    BY <1>1, <1>5
  <2> HIDE DEF f
  <2>2. Beneath(f, g)
    <3>1. r.queue[m] \in Paths \ {<<>>} /\ Front(r.queue[m]) = f
      BY <1>2, <2>1, AppendFacts
    <3> QED
      BY <3>1, BeneathFacts
  <2>3. CASE g = f
    BY <1>3, <2>3
  <2>4. CASE g # f /\ c.scan # 0
    BY <1>1, <1>2, <2>2, <2>4 DEF SearchUnlinked
  <2>5. CASE g # f /\ c.scan = 0
    <3>1. Len(g) <= Len(f) /\ Len(f) <= Len(g) /\ Len(g) \in Nat /\ Len(f) \in Nat
      BY <1>1, <1>2, <1>3, <2>2, <2>5, BeneathFacts, PathFacts
    <3>2. Len(g) = Len(f) /\ SubSeq(f, 1, Len(g)) = g /\ SubSeq(f, 1, Len(f)) = f
      BY <1>2, <2>2, <3>1, BeneathFacts, PartFacts
    <3> QED
      BY <2>5, <3>2
  <2> QED
    BY <2>3, <2>4, <2>5
<1> QED
  BY <1>3, <1>4, <1>5

\* Links do not come to be.
NoNewLinks(old, new) == \A p \in Paths : KindAt(new, p) = "link" => KindAt(old, p) = "link"

\* While no link comes to be, none is in the way.
LEMMA StaysUnlinked ==
  ASSUME NEW old, NEW new, NoNewLinks(old, new), NEW c, NEW r, r.path = c.path, r.queue = c.queue,
         SearchUnlinked(old, c)
  PROVE  SearchUnlinked(new, r)
BY Zenon DEF SearchUnlinked, NoNewLinks

LEMMA UnqueuedUnlinked ==
  ASSUME NEW tree, NEW c, QueueSound(c), SearchUnlinked(tree, c)
  PROVE  SearchUnlinked(tree, Unqueued(c))
<1> DEFINE r == Unqueued(c)
<1>1. /\ r.path = c.path
      /\ \/ ~(c.scan \in 1 .. Len(c.queue) - 1) /\ r = c
         \/ \A m \in 1 .. Len(r.queue) :
              r.queue[m] = c.queue[Passed(c.scan, m)] /\ Passed(c.scan, m) \in 1 .. Len(c.queue)
  BY UnqueuedFacts
<1> HIDE DEF r
<1>2. ASSUME NEW m \in 1 .. Len(r.queue), NEW f \in Paths,
             Beneath(f, r.path), Beneath(r.queue[m], f), f # r.queue[m]
      PROVE  KindAt(tree, f) # "link"
  <2>1. \E o \in 1 .. Len(c.queue) : r.queue[m] = c.queue[o]
    BY <1>1
  <2> QED
    BY <1>1, <1>2, <2>1 DEF SearchUnlinked
<1>3. SearchUnlinked(tree, r)
  BY <1>2 DEF SearchUnlinked
<1> QED
  BY <1>3 DEF r

-----------------------------------------------------------------------------
(* What a step does to the disk and to the call that makes it *)

CallMoves(d, e, i) ==
  /\ IsDisk(e) /\ e.start = d.start /\ e.denied = d.denied
  /\ DOMAIN e.calls = DOMAIN d.calls /\ e.calls = [j \in DOMAIN d.calls |-> e.calls[j]]
  /\ \A j \in DOMAIN d.calls : j # i => e.calls[j] = d.calls[j]
  /\ e.calls[i].what = d.calls[i].what /\ e.calls[i].path = d.calls[i].path

Sought(c) == {c.path} \cup {c.queue[m] : m \in 1 .. Len(c.queue)}
TreeMoves(old, new, c) ==
  /\ IsTree(new)
  /\ \/ new = old
     \/ c.what = "remove" /\ \E q \in Sought(c) : Takes(old, new, q)
     \/ c.what = "create" /\ \E n \in 1 .. Len(c.path) : Makes(old, new, SubSeq(c.path, 1, n))
StepSound(i) ==
  /\ CallMoves(disk, disk', i) /\ TreeMoves(disk.tree, disk'.tree, disk.calls[i])
  /\ CallSound(disk.tree, disk'.calls[i])

\* A call that is searching or removing is one that removes.
LEMMA RemoverAt ==
  ASSUME NEW tree, NEW c, CallSound(tree, c), c.at \in {"scan", "item", "rest", "target"}
  PROVE  RemoverSound(c) /\ SearchUnlinked(tree, c) /\ c.what = "remove"
BY DEF CallSound, CreatorSound, RemoverSound, QueueSound, IsRemover

\* A call that looks or makes is one that creates.
LEMMA CreatorAt ==
  ASSUME NEW tree, NEW c, CallSound(tree, c), c.at \in {"look", "make"}
  PROVE  CreatorSound(c) /\ c.what = "create"
<1>1. CreatorSound(c)
  BY DEF CallSound, RemoverSound
<1> QED
  BY <1>1 DEF CreatorSound, IsCreator

\* What a search leaves is a call that removes.
LEMMA ScanSteps ==
  ASSUME NEW d, IsTree(d.tree), NEW c, RemoverSound(c), SearchUnlinked(d.tree, c), c.at = "scan",
         NEW r \in ScanResults(d, c)
  PROVE  RemoverSound(r) /\ SearchUnlinked(d.tree, r) /\ r.path = c.path
<1> DEFINE result == ListFolder(d, ScanNext(c))
<1>0. QueueSound(c) /\ ScanNext(c) \in Paths \ {<<>>}
  BY ScanNextFacts DEF RemoverSound
<1>00. NoNewLinks(d.tree, d.tree)
  BY DEF NoNewLinks
<1>1. CASE result = "SUCCESS"
  <2>1. PICK more \in Listings(d, ScanNext(c)) : r = ToNext([c EXCEPT !.queue = @ \o more])
    BY <1>1 DEF ScanResults
  <2> DEFINE e == [c EXCEPT !.queue = @ \o more]
  <2>2. /\ more \in Seq(Paths)
        /\ \A m \in 1 .. Len(more) : \E name \in Component : more[m] = Append(ScanNext(c), name)
    BY <1>0, ListingFacts
  <2>3. KindAt(d.tree, ScanNext(c)) # "link"
    BY <1>0, <1>1, ListedIsFolder
  <2>4. QueueSound(e) /\ e.path = c.path
    BY <1>0, <2>2, ExtendedFacts
  <2>5. SearchUnlinked(d.tree, e)
    BY <1>0, <2>2, <2>3, ExtendedUnlinked
  <2> HIDE DEF e
  <2>6. r = ToNext(e)
    BY <2>1 DEF e
  <2>7. RemoverSound(r) /\ r.path = e.path /\ r.queue = e.queue
    BY <2>4, <2>6, ToNextFacts
  <2> QED
    BY <1>00, <2>4, <2>5, <2>7, StaysUnlinked
<1>2. CASE result = "TARGETNOTADIRECTORY" /\ c.scan = 0
  <2>1. r = Ended(c, result)
    BY <1>2 DEF ScanResults
  <2>2. RemoverSound(r) /\ r.path = c.path /\ r.queue = c.queue
    BY <1>0, <2>1, EndedFacts
  <2> QED
    BY <1>00, <2>2, StaysUnlinked
<1>3. CASE /\ result \in {"TARGETNOTADIRECTORY", "SYMLINKSWEREEXCLUDED"}
           /\ ~(result = "TARGETNOTADIRECTORY" /\ c.scan = 0)
  <2>1. r = [c EXCEPT !.at = "item"]
    BY <1>3 DEF ScanResults
  <2>2. /\ IsRemover(r) /\ r.path = c.path /\ r.queue = c.queue /\ r.scan = c.scan /\ r.at = "item"
    BY <1>0, <2>1 DEF QueueSound, IsRemover
  <2>3. RemoverSound(r)
    BY <1>0, <2>2 DEF RemoverSound, QueueSound
  <2> QED
    BY <1>00, <2>2, <2>3, StaysUnlinked
<1>4. CASE result \notin {"SUCCESS", "TARGETNOTADIRECTORY", "SYMLINKSWEREEXCLUDED"}
  <2> DEFINE e == Noting(c, result)
  <2>1. r = ToNext(e)
    BY <1>4 DEF ScanResults
  <2>2. QueueSound(e) /\ e.path = c.path /\ e.queue = c.queue
    BY <1>0, NotingFacts
  <2> HIDE DEF e
  <2>3. RemoverSound(r) /\ r.path = e.path /\ r.queue = e.queue
    BY <2>1, <2>2, ToNextFacts
  <2> QED
    BY <1>00, <2>2, <2>3, StaysUnlinked
<1> QED
  BY <1>1, <1>2, <1>3, <1>4
\* The disk after a step: what the call did to it, and where the call is now.
LEMMA StepOf ==
  ASSUME IInv, NEW i \in DOMAIN disk.calls, NEW e, NEW r,
         IsDisk(e), e.start = disk.start, e.denied = disk.denied, e.calls = disk.calls,
         TreeMoves(disk.tree, e.tree, disk.calls[i]), CallSound(disk.tree, r),
         r.what = disk.calls[i].what, r.path = disk.calls[i].path, disk' = Set(e, i, r)
  PROVE  StepSound(i)
<1>1. e.calls = [j \in DOMAIN e.calls |-> e.calls[j]] /\ i \in DOMAIN e.calls
  BY DEF IInv, DiskSound
<1>2. /\ IsDisk(disk') /\ disk'.tree = e.tree /\ disk'.start = e.start /\ disk'.denied = e.denied
      /\ DOMAIN disk'.calls = DOMAIN e.calls /\ disk'.calls[i] = r
      /\ disk'.calls = [j \in DOMAIN e.calls |-> disk'.calls[j]]
      /\ \A j \in DOMAIN e.calls : j # i => disk'.calls[j] = e.calls[j]
  BY <1>1, SetFacts
<1> QED
  BY <1>2 DEF StepSound, CallMoves

LEMMA SameTree ==
  ASSUME NEW tree, IsTree(tree), NEW c
  PROVE  TreeMoves(tree, tree, c)
BY DEF TreeMoves

\* What the invariant says of one call.
LEMMA CallOf ==
  ASSUME IInv, NEW i \in DOMAIN disk.calls
  PROVE  CallSound(disk.tree, disk.calls[i]) /\ IsDisk(disk) /\ IsTree(disk.tree)
BY DEF IInv, DiskSound

\* Each action makes a sound step.
LEMMA ScanSound ==
  ASSUME IInv, NEW i \in DOMAIN disk.calls, ScanItem(i)
  PROVE  StepSound(i)
<1> DEFINE c == disk.calls[i]
           e == AfterList(disk, ScanNext(c))
<1>1. c.at = "scan" /\ \E r \in ScanResults(disk, c) : disk' = Set(e, i, r)
  BY DEF ScanItem
<1>2. RemoverSound(c) /\ SearchUnlinked(disk.tree, c) /\ c.what = "remove"
  BY <1>1, CallOf, RemoverAt
<1>3. PICK r \in ScanResults(disk, c) : disk' = Set(e, i, r)
  BY <1>1
<1>4. RemoverSound(r) /\ SearchUnlinked(disk.tree, r) /\ r.path = c.path
  BY <1>1, <1>2, CallOf, ScanSteps
<1>5. CallSound(disk.tree, r) /\ r.what = "remove"
  BY <1>4 DEF CallSound, RemoverSound, QueueSound, IsRemover
<1>6. /\ IsDisk(e) /\ e.tree = disk.tree /\ e.start = disk.start /\ e.denied = disk.denied
      /\ e.calls = disk.calls
  BY CallOf, ListFacts
<1>7. TreeMoves(disk.tree, e.tree, c)
  BY <1>6, CallOf, SameTree
<1> HIDE DEF e
<1> QED
  BY <1>2, <1>3, <1>4, <1>5, <1>6, <1>7, StepOf

\* The part of the steps that try to remove something.
LEMMA RemoveMoves ==
  ASSUME IInv, NEW i \in DOMAIN disk.calls, RemoverSound(disk.calls[i]),
         NEW q \in Sought(disk.calls[i])
  PROVE  LET e == AfterRemove(disk, q)
         IN /\ IsDisk(e) /\ e.start = disk.start /\ e.denied = disk.denied /\ e.calls = disk.calls
            /\ TreeMoves(disk.tree, e.tree, disk.calls[i]) /\ q \in Paths \ {<<>>}
<1> DEFINE e == AfterRemove(disk, q)
           c == disk.calls[i]
<1>1. QueueSound(c) /\ c.what = "remove" /\ c.path \in Paths \ {<<>>}
  BY DEF RemoverSound, QueueSound, IsRemover
<1>2. q \in Paths \ {<<>>}
  BY <1>1, ItemFacts DEF Sought
<1>3. /\ IsDisk(e) /\ IsTree(e.tree)
      /\ e.start = disk.start /\ e.denied = disk.denied /\ e.calls = disk.calls
      /\ RemoveErrno(disk, q) = "OK" => Takes(disk.tree, e.tree, q)
      /\ RemoveErrno(disk, q) # "OK" => e.tree = disk.tree
  <2>1. /\ IsDisk(e) /\ IsTree(e.tree)
        /\ e.start = disk.start /\ e.denied = disk.denied /\ e.calls = disk.calls
        /\ RemoveErrno(disk, q) = "OK" =>
              /\ DOMAIN e.tree = DOMAIN disk.tree \ {EntryAt(disk.tree, q)}
              /\ \A p \in DOMAIN disk.tree \ {EntryAt(disk.tree, q)} : e.tree[p] = disk.tree[p]
              /\ WayOpen(disk.tree, q) /\ EntryAt(disk.tree, q) \in DOMAIN disk.tree
        /\ RemoveErrno(disk, q) # "OK" => e.tree = disk.tree
    BY <1>2, CallOf, RemoveFacts
  <2> QED
    BY <2>1 DEF Takes
<1> HIDE DEF e
<1>4. TreeMoves(disk.tree, e.tree, c)
  BY <1>1, <1>3 DEF TreeMoves
<1> QED
  BY <1>2, <1>3, <1>4 DEF e

LEMMA RemoveItemSound ==
  ASSUME IInv, NEW i \in DOMAIN disk.calls, RemoveItem(i)
  PROVE  StepSound(i)
<1> DEFINE c == disk.calls[i]
           q == ScanNext(c)
           e == AfterRemove(disk, q)
           noted == Noting(c, RemoveFileOrEmptyDir(disk, q))
           r == ToNext(Unqueued(noted))
<1>1. c.at = "item" /\ disk' = Set(e, i, r)
  BY DEF RemoveItem
<1>2. RemoverSound(c) /\ SearchUnlinked(disk.tree, c) /\ c.what = "remove" /\ QueueSound(c)
  BY <1>1, CallOf, RemoverAt DEF RemoverSound
<1>3. q \in Sought(c)
  BY <1>2, ScanNextFacts DEF Sought
<1>4. /\ IsDisk(e) /\ e.start = disk.start /\ e.denied = disk.denied /\ e.calls = disk.calls
      /\ TreeMoves(disk.tree, e.tree, c)
  BY <1>2, <1>3, RemoveMoves
<1>5. QueueSound(noted) /\ noted.path = c.path /\ noted.queue = c.queue
  BY <1>2, NotingFacts
<1>6. SearchUnlinked(disk.tree, noted)
  BY <1>2, <1>5, StaysUnlinked DEF NoNewLinks
<1>7. QueueSound(Unqueued(noted)) /\ Unqueued(noted).path = c.path
  BY <1>5, UnqueuedFacts
<1>8. SearchUnlinked(disk.tree, Unqueued(noted))
  BY <1>5, <1>6, UnqueuedUnlinked
<1>9. RemoverSound(r) /\ r.path = c.path /\ r.queue = Unqueued(noted).queue
  BY <1>7, ToNextFacts
<1>10. SearchUnlinked(disk.tree, r)
  BY <1>7, <1>8, <1>9, StaysUnlinked DEF NoNewLinks
<1>11. CallSound(disk.tree, r) /\ r.what = "remove"
  BY <1>9, <1>10 DEF CallSound, RemoverSound, QueueSound, IsRemover
<1> HIDE DEF e, r
<1> QED
  BY <1>1, <1>2, <1>4, <1>9, <1>11, StepOf

LEMMA RemoveRestSound ==
  ASSUME IInv, NEW i \in DOMAIN disk.calls, RemoveRest(i)
  PROVE  StepSound(i)
<1> DEFINE c == disk.calls[i]
           q == c.queue[c.k]
           e == AfterRemove(disk, q)
           noted == Noting(c, RemoveFileOrEmptyDir(disk, q))
           r == [noted EXCEPT !.k = @ - 1, !.at = IF c.k = 1 THEN "target" ELSE "rest"]
<1>1. c.at = "rest" /\ disk' = Set(e, i, r)
  BY DEF RemoveRest
<1>2. RemoverSound(c) /\ SearchUnlinked(disk.tree, c) /\ c.what = "remove" /\ QueueSound(c)
  BY <1>1, CallOf, RemoverAt DEF RemoverSound
<1>3. c.k \in 1 .. Len(c.queue) /\ q \in Sought(c)
  BY <1>1, <1>2 DEF Sought, RemoverSound
<1>4. /\ IsDisk(e) /\ e.start = disk.start /\ e.denied = disk.denied /\ e.calls = disk.calls
      /\ TreeMoves(disk.tree, e.tree, c)
  BY <1>2, <1>3, RemoveMoves
<1>5. /\ QueueSound(noted) /\ noted.path = c.path /\ noted.queue = c.queue /\ noted.k = c.k
      /\ noted.scan = c.scan
  BY <1>2, NotingFacts
<1> HIDE DEF noted
<1>6. /\ IsRemover(r) /\ r.path = c.path /\ r.queue = c.queue /\ r.k = c.k - 1
      /\ r.scan = c.scan /\ r.at = IF c.k = 1 THEN "target" ELSE "rest"
  <2> DEFINE n == r
  <2>1. n = [noted EXCEPT !.k = noted.k - 1, !.at = IF c.k = 1 THEN "target" ELSE "rest"]
    OBVIOUS
  <2> HIDE DEF n
  <2>2. /\ IsRemover(n) /\ n.path = noted.path /\ n.queue = noted.queue /\ n.k = noted.k - 1
        /\ n.scan = noted.scan /\ n.at = IF c.k = 1 THEN "target" ELSE "rest"
    BY <1>5, <2>1 DEF QueueSound, IsRemover
  <2> QED
    BY <1>5, <2>2 DEF n
<1> HIDE DEF r
<1>7. QueueSound(r)
  BY <1>2, <1>6 DEF QueueSound
<1>8. RemoverSound(r)
  <2>1. Len(c.queue) \in Nat
    BY <1>2, LenProperties DEF QueueSound
  <2> QED
    BY <1>3, <1>6, <1>7, <2>1 DEF RemoverSound
<1>9. SearchUnlinked(disk.tree, r)
  BY <1>2, <1>6, StaysUnlinked DEF NoNewLinks
<1>10. CallSound(disk.tree, r) /\ r.what = "remove"
  BY <1>6, <1>8, <1>9 DEF CallSound, IsRemover
<1> HIDE DEF e
<1> QED
  BY <1>1, <1>2, <1>4, <1>6, <1>10, StepOf

LEMMA RemoveTargetSound ==
  ASSUME IInv, NEW i \in DOMAIN disk.calls, RemoveTarget(i)
  PROVE  StepSound(i)
<1> DEFINE c == disk.calls[i]
           e == AfterRemove(disk, c.path)
           r == Ended(c, Noting(c, RemoveFileOrEmptyDir(disk, c.path)).error)
<1>1. c.at = "target" /\ disk' = Set(e, i, r)
  BY DEF RemoveTarget
<1>2. RemoverSound(c) /\ SearchUnlinked(disk.tree, c) /\ c.what = "remove" /\ QueueSound(c)
  BY <1>1, CallOf, RemoverAt DEF RemoverSound
<1>3. c.path \in Sought(c)
  BY DEF Sought
<1>4. /\ IsDisk(e) /\ e.start = disk.start /\ e.denied = disk.denied /\ e.calls = disk.calls
      /\ TreeMoves(disk.tree, e.tree, c)
  BY <1>2, <1>3, RemoveMoves
<1>5. RemoverSound(r) /\ r.path = c.path /\ r.queue = c.queue
  BY <1>2, EndedFacts
<1>6. SearchUnlinked(disk.tree, r)
  BY <1>2, <1>5, StaysUnlinked DEF NoNewLinks
<1>7. CallSound(disk.tree, r) /\ r.what = "remove"
  BY <1>5, <1>6 DEF CallSound, RemoverSound, QueueSound, IsRemover
<1> HIDE DEF e, r
<1> QED
  BY <1>1, <1>2, <1>4, <1>5, <1>7, StepOf
LEMMA ToMakeFacts ==
  ASSUME NEW c, CreatorSound(c), c.at # "done"
  PROVE  CreatorSound(ToMake(c)) /\ ToMake(c).path = c.path
<1> DEFINE r == ToMake(c)
<1>0. /\ Len(c.path) \in Nat \ {0} /\ c.k \in 0 .. Len(c.path) /\ c.path \in Paths \ {<<>>}
      /\ IsCreator(c)
  BY PathFacts DEF CreatorSound
<1>1. CASE c.k = Len(c.path)
  <2>1. r = [c EXCEPT !.at = "done", !.error = "SUCCESS"]
    BY <1>1 DEF ToMake, Ended
  <2> HIDE DEF r
  <2>2. IsCreator(r) /\ r.path = c.path /\ r.k = c.k /\ r.at = "done"
    BY <1>0, <2>1 DEF IsCreator
  <2> QED
    BY <1>0, <2>2 DEF CreatorSound, r
<1>2. CASE c.k # Len(c.path)
  <2>1. r = [c EXCEPT !.at = "make", !.k = c.k + 1]
    BY <1>2 DEF ToMake
  <2> HIDE DEF r
  <2>2. IsCreator(r) /\ r.path = c.path /\ r.k = c.k + 1 /\ r.at = "make"
    BY <1>0, <2>1 DEF IsCreator
  <2> QED
    BY <1>0, <1>2, <2>2 DEF CreatorSound, r
<1> QED
  BY <1>1, <1>2

LEMMA LookSound ==
  ASSUME IInv, NEW i \in DOMAIN disk.calls, Look(i)
  PROVE  StepSound(i)
<1> DEFINE c == disk.calls[i]
           there == TargetExists(disk, Part(c))
           r == IF there THEN ToMake(c) ELSE [c EXCEPT !.k = @ - 1]
<1>1. c.at = "look" /\ disk' = Set(disk, i, r)
  BY DEF Look
<1>2. CreatorSound(c) /\ c.what = "create"
  BY <1>1, CallOf, CreatorAt
<1>3. c.k \in 0 .. Len(c.path) /\ c.path \in Paths \ {<<>>} /\ IsCreator(c) /\ Len(c.path) \in Nat
  BY <1>2, PathFacts DEF CreatorSound
<1>4. CreatorSound(r) /\ r.path = c.path
  <2>1. CASE there
    <3>1. r = ToMake(c)
      BY <2>1
    <3> HIDE DEF r
    <3> QED
      BY <1>1, <1>2, <3>1, ToMakeFacts
  <2>2. CASE ~there
    <3>1. c.k # 0
      <4> SUFFICES ASSUME c.k = 0 PROVE FALSE
        OBVIOUS
      <4>1. Part(c) = <<>> /\ <<>> \in Paths
        BY <1>3, PartFacts, PathFacts DEF Part
      <4>2. Leads(disk.tree, <<>>) = <<>>
        BY <4>1, LeadsStep
      <4>3. there
        BY <4>1, <4>2 DEF TargetExists, KindAt
      <4> QED
        BY <2>2, <4>3
    <3>2. r = [c EXCEPT !.k = c.k - 1]
      BY <2>2
    <3> HIDE DEF r
    <3>3. IsCreator(r) /\ r.path = c.path /\ r.k = c.k - 1 /\ r.at = c.at
      BY <1>3, <3>2 DEF IsCreator
    <3> QED
      BY <1>1, <1>3, <3>1, <3>3 DEF CreatorSound
  <2> QED
    BY <2>1, <2>2
<1>5. CallSound(disk.tree, r) /\ r.what = "create"
  BY <1>4 DEF CallSound, CreatorSound, IsCreator
<1>6. TreeMoves(disk.tree, disk.tree, c)
  BY CallOf, SameTree
<1> HIDE DEF r
<1> QED
  BY <1>1, <1>2, <1>4, <1>5, <1>6, CallOf, StepOf

LEMMA MakeSound ==
  ASSUME IInv, NEW i \in DOMAIN disk.calls, Make(i)
  PROVE  StepSound(i)
<1> DEFINE c == disk.calls[i]
           q == Part(c)
           e == AfterMkdir(disk, q)
           result == CreateDirectory(disk, q)
           r == IF result \in {"SUCCESS", "TARGETALREADYEXISTS"} THEN ToMake(c)
                ELSE Ended(c, result)
<1>1. c.at = "make" /\ disk' = Set(e, i, r)
  BY DEF Make
<1>2. CreatorSound(c) /\ c.what = "create"
  BY <1>1, CallOf, CreatorAt
<1>3. c.k \in 1 .. Len(c.path) /\ c.path \in Paths \ {<<>>} /\ IsCreator(c) /\ Len(c.path) \in Nat
  BY <1>1, <1>2, PathFacts DEF CreatorSound
<1>4. CreatorSound(r) /\ r.path = c.path
  <2>1. CASE result \in {"SUCCESS", "TARGETALREADYEXISTS"}
    <3>1. r = ToMake(c)
      BY <2>1
    <3> HIDE DEF r
    <3> QED
      BY <1>1, <1>2, <3>1, ToMakeFacts
  <2>2. CASE result \notin {"SUCCESS", "TARGETALREADYEXISTS"}
    <3>1. r = [c EXCEPT !.at = "done", !.error = result]
      BY <2>2 DEF Ended
    <3> HIDE DEF r
    <3>2. IsCreator(r) /\ r.path = c.path /\ r.k = c.k /\ r.at = "done"
      BY <1>3, <3>1 DEF IsCreator
    <3> QED
      BY <1>3, <3>2 DEF CreatorSound
  <2> QED
    BY <2>1, <2>2
<1>5. CallSound(disk.tree, r) /\ r.what = "create"
  BY <1>4 DEF CallSound, CreatorSound, IsCreator
<1>6. q = SubSeq(c.path, 1, c.k) /\ q \in Paths \ {<<>>}
  <2>1. q \in Paths /\ Len(q) = c.k /\ Len(<<>>) = 0
    BY <1>3, PartFacts, PathFacts DEF Part
  <2> QED
    BY <1>3, <2>1 DEF Part
<1> HIDE DEF q, r
<1>7. /\ IsDisk(e) /\ IsTree(e.tree)
      /\ e.start = disk.start /\ e.denied = disk.denied /\ e.calls = disk.calls
      /\ MkdirErrno(disk, q) = "OK" => Makes(disk.tree, e.tree, q)
      /\ MkdirErrno(disk, q) # "OK" => e.tree = disk.tree
  BY <1>6, CallOf, MkdirFacts
<1> HIDE DEF e
<1>8. TreeMoves(disk.tree, e.tree, c)
  BY <1>2, <1>3, <1>6, <1>7 DEF TreeMoves
<1> QED
  BY <1>1, <1>2, <1>4, <1>5, <1>7, <1>8, StepOf

\* So does every step.
LEMMA StepsSound ==
  ASSUME IInv, DiskNext
  PROVE  \E i \in DOMAIN disk.calls : StepSound(i)
<1>1. PICK i \in DOMAIN disk.calls :
         ScanItem(i) \/ RemoveItem(i) \/ RemoveRest(i) \/ RemoveTarget(i) \/ Look(i) \/ Make(i)
  BY DEF DiskNext
<1> QED
  BY <1>1, ScanSound, RemoveItemSound, RemoveRestSound, RemoveTargetSound, LookSound, MakeSound

-----------------------------------------------------------------------------
(* The invariant holds *)

\* A step leaves or makes folders, and takes things; no link comes to be.
LEMMA TreeMovesFacts ==
  ASSUME NEW old, IsTree(old), NEW new, NEW c, TreeMoves(old, new, c)
  PROVE  /\ IsTree(new) /\ NoNewLinks(old, new)
         /\ \A p \in DOMAIN new : (p \in DOMAIN old /\ new[p] = old[p]) \/ new[p] = Dir
<1>1. IsTree(new)
  BY DEF TreeMoves
<1>2. ASSUME NEW p \in DOMAIN new
      PROVE  (p \in DOMAIN old /\ new[p] = old[p]) \/ new[p] = Dir
  <2>1. CASE new = old
    BY <2>1
  <2>2. CASE \E q \in Sought(c) : Takes(old, new, q)
    BY <2>2 DEF Takes
  <2>3. CASE \E n \in 1 .. Len(c.path) : Makes(old, new, SubSeq(c.path, 1, n))
    BY <2>3 DEF Makes
  <2> QED
    BY <2>1, <2>2, <2>3 DEF TreeMoves
<1>3. ASSUME NEW p \in Paths, KindAt(new, p) = "link" PROVE KindAt(old, p) = "link"
  <2>1. p \in DOMAIN new /\ new[p].k = "link" /\ p # <<>>
    BY <1>1, <1>3, KindFacts
  <2>2. new[p] # Dir
    BY <2>1, NoLinkFacts
  <2>3. p \in DOMAIN old /\ new[p] = old[p]
    BY <1>2, <2>1, <2>2
  <2> QED
    BY <2>1, <2>3 DEF KindAt
<1> QED
  BY <1>1, <1>2, <1>3 DEF NoNewLinks

LEMMA CallStaysSound ==
  ASSUME NEW old, NEW new, NoNewLinks(old, new), NEW c, CallSound(old, c)
  PROVE  CallSound(new, c)
BY StaysUnlinked DEF CallSound

\* A sound step keeps the invariant.
LEMMA StepIInv ==
  ASSUME IInv, NEW i \in DOMAIN disk.calls, StepSound(i)
  PROVE  IInv'
<1>1. CallMoves(disk, disk', i) /\ TreeMoves(disk.tree, disk'.tree, disk.calls[i])
      /\ CallSound(disk.tree, disk'.calls[i])
  BY DEF StepSound
<1>2. /\ IsTree(disk'.tree) /\ NoNewLinks(disk.tree, disk'.tree)
      /\ \A p \in DOMAIN disk'.tree :
            \/ p \in DOMAIN disk.tree /\ disk'.tree[p] = disk.tree[p]
            \/ disk'.tree[p] = Dir
  BY <1>1, CallOf, TreeMovesFacts
<1>3. OnlyFoldersMade(disk')
  BY <1>1, <1>2 DEF OnlyFoldersMade, CallMoves, IInv, DiskSound
<1>4. ASSUME NEW j \in DOMAIN disk'.calls PROVE CallSound(disk'.tree, disk'.calls[j])
  <2>1. j \in DOMAIN disk.calls
    BY <1>1 DEF CallMoves
  <2>2. CallSound(disk.tree, disk'.calls[j])
    <3>1. CASE j = i
      BY <1>1, <3>1
    <3>2. CASE j # i
      BY <1>1, <2>1, <3>2, CallOf DEF CallMoves
    <3> QED
      BY <3>1, <3>2
  <2> QED
    BY <1>2, <2>2, CallStaysSound
<1>5. DiskSound(disk')
  BY <1>1, <1>2, <1>3, <1>4 DEF DiskSound, CallMoves, IInv
<1> QED
  BY <1>5 DEF IInv

LEMMA StartIInv == ASSUME IsStart(disk) PROVE IInv
<1> DEFINE d == disk
<1>1. d = NewDisk(d.tree, d.denied, d.descriptors, d.calls) /\ IsTree(d.tree)
      /\ d.calls = [i \in DOMAIN d.calls |-> d.calls[i]]
  BY DEF IsStart
<1>2. IsDisk(d) /\ d.start = d.tree
  BY <1>1 DEF NewDisk, IsDisk
<1>3. OnlyFoldersMade(d) /\ IsTree(d.start)
  BY <1>1, <1>2 DEF OnlyFoldersMade
<1>4. ASSUME NEW i \in DOMAIN d.calls PROVE CallSound(d.tree, d.calls[i])
  <2> DEFINE c == d.calls[i]
  <2>1. c.path \in Paths \ {<<>>} /\ (c = Remover(c.path) \/ c = Creator(c.path))
    BY DEF IsStart
  <2> HIDE DEF c
  <2>2. CASE c = Remover(c.path)
    <3>1. /\ IsRemover(c) /\ c.queue = <<>> /\ c.scan = 0 /\ c.at = "scan"
      BY <2>2 DEF Remover, IsRemover
    <3>2. <<>> \in Seq(Paths) /\ Len(<<>>) = 0
      BY EmptySeq
    <3> QED
      BY <2>1, <3>1, <3>2 DEF CallSound, RemoverSound, QueueSound, SearchUnlinked, c
  <2>3. CASE c = Creator(c.path)
    <3>1. IsCreator(c) /\ c.at = "look" /\ c.k = Len(c.path)
      BY <2>3 DEF Creator, IsCreator
    <3>2. Len(c.path) \in Nat
      BY <2>1, PathFacts
    <3> QED
      BY <2>1, <3>1, <3>2 DEF CallSound, CreatorSound, c
  <2> QED
    BY <2>1, <2>2, <2>3
<1> QED
  BY <1>1, <1>2, <1>3, <1>4 DEF IInv, DiskSound

(***************************************************************************)
(* The tree stays one, in which only folders are made; each call keeps to  *)
(* what it found beneath its path, and to its steps (filesys32.c:397-1077, *)
(* 1210-1395, 2968-3079).                                                  *)
(***************************************************************************)
THEOREM Invariance == DiskSpec => []IInv
<1>1. IsStart(disk) => IInv
  BY StartIInv
<1>2. IInv /\ [DiskNext]_disk => IInv'
  <2> SUFFICES ASSUME IInv, [DiskNext]_disk PROVE IInv'
    OBVIOUS
  <2>1. CASE DiskNext
    BY <2>1, StepsSound, StepIInv
  <2>2. CASE UNCHANGED disk
    BY <2>2 DEF IInv
  <2> QED
    BY <2>1, <2>2
<1> QED
  BY <1>1, <1>2, PTL DEF DiskSpec

-----------------------------------------------------------------------------
(* Nothing else changes *)

LEMMA BeneathByNames ==
  ASSUME NEW p \in Paths, NEW q \in Paths
  PROVE  Beneath(p, q) <=> Len(q) <= Len(p) /\ \A i \in 1 .. Len(q) : p[i] = q[i]
<1>1. Len(p) \in Nat /\ Len(q) \in Nat
  BY PathFacts
<1>2. Beneath(p, q) <=> Len(q) <= Len(p) /\ SubSeq(p, 1, Len(q)) = q
  BY BeneathFacts
<1>3. CASE Len(q) <= Len(p)
  <2> DEFINE t == SubSeq(p, 1, Len(q))
  <2>1. Len(q) \in 0 .. Len(p)
    BY <1>1, <1>3
  <2>2. t \in Paths /\ Len(t) = Len(q) /\ \A i \in 1 .. Len(q) : t[i] = p[i]
    BY <2>1, PartFacts
  <2> HIDE DEF t
  <2>3. t = q <=> \A i \in 1 .. Len(q) : p[i] = q[i]
    <3>1. ASSUME \A i \in 1 .. Len(q) : p[i] = q[i] PROVE t = q
      BY <2>2, <3>1, PathEqual
    <3> QED
      BY <2>2, <3>1
  <2> QED
    BY <1>2, <1>3, <2>3 DEF t
<1>4. CASE ~(Len(q) <= Len(p))
  BY <1>2, <1>4
<1> QED
  BY <1>3, <1>4

\* What is beneath what is an order, and a tree.
LEMMA BeneathOrder ==
  ASSUME NEW p \in Paths, NEW q \in Paths, NEW r \in Paths
  PROVE  /\ Beneath(p, q) /\ Beneath(q, r) => Beneath(p, r)
         /\ Beneath(p, q) /\ Beneath(q, p) => p = q
         /\ Beneath(p, q) /\ Beneath(p, r) => Beneath(q, r) \/ Beneath(r, q)
<1>1. Len(p) \in Nat /\ Len(q) \in Nat /\ Len(r) \in Nat
  BY PathFacts
<1>2. /\ Beneath(p, q) <=> Len(q) <= Len(p) /\ \A i \in 1 .. Len(q) : p[i] = q[i]
      /\ Beneath(q, p) <=> Len(p) <= Len(q) /\ \A i \in 1 .. Len(p) : q[i] = p[i]
      /\ Beneath(q, r) <=> Len(r) <= Len(q) /\ \A i \in 1 .. Len(r) : q[i] = r[i]
      /\ Beneath(r, q) <=> Len(q) <= Len(r) /\ \A i \in 1 .. Len(q) : r[i] = q[i]
      /\ Beneath(p, r) <=> Len(r) <= Len(p) /\ \A i \in 1 .. Len(r) : p[i] = r[i]
  BY BeneathByNames
<1>3. Beneath(p, q) /\ Beneath(q, r) => Beneath(p, r)
  BY <1>1, <1>2
<1>4. Beneath(p, q) /\ Beneath(q, p) => p = q
  <2> SUFFICES ASSUME Beneath(p, q), Beneath(q, p) PROVE p = q
    OBVIOUS
  <2>1. Len(p) = Len(q) /\ \A i \in 1 .. Len(p) : p[i] = q[i]
    BY <1>1, <1>2
  <2> QED
    BY <2>1, PathEqual
<1>5. Beneath(p, q) /\ Beneath(p, r) => Beneath(q, r) \/ Beneath(r, q)
  BY <1>1, <1>2
<1> QED
  BY <1>3, <1>4, <1>5

\* No link is above a path: what a path goes through is none.
LEMMA AboveFacts ==
  ASSUME NEW tree, NEW p \in Paths \ {<<>>}
  PROVE  NoLinkAbove(tree, p) <=>
           \A f \in Paths \ {<<>>} : Beneath(p, f) /\ f # p => KindAt(tree, f) # "link"
<1>1. Len(p) \in Nat \ {0} /\ Len(<<>>) = 0
  BY PathFacts
<1>2. ASSUME NoLinkAbove(tree, p), NEW f \in Paths \ {<<>>}, Beneath(p, f), f # p
      PROVE  KindAt(tree, f) # "link"
  <2>1. Len(f) \in Nat \ {0} /\ Len(f) <= Len(p) /\ SubSeq(p, 1, Len(f)) = f
    BY <1>2, PathFacts, BeneathFacts
  <2>2. Len(f) # Len(p)
    BY <1>1, <1>2, <2>1, PartFacts
  <2>3. Len(f) \in 1 .. Len(p) - 1
    BY <1>1, <2>1, <2>2
  <2> QED
    BY <1>2, <2>1, <2>3 DEF NoLinkAbove
<1>3. ASSUME \A f \in Paths \ {<<>>} : Beneath(p, f) /\ f # p => KindAt(tree, f) # "link",
             NEW n \in 1 .. Len(p) - 1
      PROVE  KindAt(tree, SubSeq(p, 1, n)) # "link"
  <2> DEFINE f == SubSeq(p, 1, n)
  <2>1. n \in 0 .. Len(p) /\ n # 0 /\ n # Len(p) /\ n <= Len(p)
    BY <1>1
  <2>2. f \in Paths /\ Len(f) = n
    BY <2>1, PartFacts
  <2>5. SubSeq(p, 1, Len(f)) = f
    BY <2>2
  <2> HIDE DEF f
  <2>3. Beneath(p, f)
    BY <2>1, <2>2, <2>5, BeneathFacts
  <2>4. f # <<>> /\ f # p
    BY <1>1, <2>1, <2>2
  <2> QED
    BY <1>3, <2>2, <2>3, <2>4 DEF f
<1> QED
  BY <1>2, <1>3 DEF NoLinkAbove

\* Where no link was above at the start, none is now.
LEMMA StillUnlinked ==
  ASSUME IInv, NEW p \in Paths \ {<<>>}, NoLinkAbove(disk.start, p)
  PROVE  NoLinkAbove(disk.tree, p)
<1>1. ASSUME NEW f \in Paths \ {<<>>}, Beneath(p, f), f # p, KindAt(disk.tree, f) = "link"
      PROVE  FALSE
  <2>1. f \in DOMAIN disk.tree /\ disk.tree[f].k = "link"
    BY <1>1, CallOf, KindFacts DEF IInv, DiskSound
  <2>2. disk.tree[f] # Dir
    BY <2>1, NoLinkFacts
  <2>3. f \in DOMAIN disk.start /\ disk.start[f].k = "link"
    BY <2>1, <2>2 DEF IInv, DiskSound, OnlyFoldersMade
  <2>4. KindAt(disk.start, f) = "link"
    BY <1>1, <2>3 DEF KindAt
  <2> QED
    BY <1>1, <2>4, AboveFacts
<1> QED
  BY <1>1, AboveFacts

\* No link is on the way to what a call seeks.
LEMMA SoughtUnlinked ==
  ASSUME NEW tree, NEW c, QueueSound(c), SearchUnlinked(tree, c), NoLinkAbove(tree, c.path),
         NEW q \in Sought(c)
  PROVE  q \in Paths \ {<<>>} /\ Beneath(q, c.path) /\ NoLinkAbove(tree, q)
<1>0. c.path \in Paths \ {<<>>}
  BY DEF QueueSound
<1>1. CASE q = c.path
  BY <1>0, <1>1, BeneathFacts
<1>2. CASE q # c.path
  <2>1. PICK m \in 1 .. Len(c.queue) : q = c.queue[m]
    BY <1>2 DEF Sought
  <2>2. q \in Paths \ {<<>>} /\ Beneath(q, c.path)
    BY <2>1, ItemFacts DEF QueueSound
  <2>3. ASSUME NEW f \in Paths \ {<<>>}, Beneath(q, f), f # q PROVE KindAt(tree, f) # "link"
    <3>1. Beneath(f, c.path) \/ Beneath(c.path, f)
      BY <1>0, <2>2, <2>3, BeneathOrder
    <3>2. CASE Beneath(f, c.path)
      BY <2>1, <2>3, <3>2 DEF SearchUnlinked
    <3>3. CASE Beneath(c.path, f) /\ ~Beneath(f, c.path)
      <4>1. f # c.path
        BY <1>0, <3>3, BeneathFacts
      <4> QED
        BY <1>0, <3>3, <4>1, AboveFacts
    <3> QED
      BY <3>1, <3>2, <3>3
  <2> QED
    BY <2>2, <2>3, AboveFacts
<1> QED
  BY <1>1, <1>2

\* Which paths are to be removed and made does not change.
LEMMA SameRequests ==
  ASSUME NEW i \in DOMAIN disk.calls, CallMoves(disk, disk', i)
  PROVE  /\ Removed' = Removed /\ Created' = Created /\ disk'.start = disk.start
         /\ \A j \in DOMAIN disk.calls : disk'.calls[j].what = disk.calls[j].what
                                         /\ disk'.calls[j].path = disk.calls[j].path
<1>1. /\ DOMAIN disk'.calls = DOMAIN disk.calls /\ disk'.start = disk.start
      /\ \A j \in DOMAIN disk.calls : disk'.calls[j].what = disk.calls[j].what
                                      /\ disk'.calls[j].path = disk.calls[j].path
  <2> SUFFICES ASSUME NEW j \in DOMAIN disk.calls
               PROVE  disk'.calls[j].what = disk.calls[j].what
                      /\ disk'.calls[j].path = disk.calls[j].path
    BY DEF CallMoves
  <2>1. CASE j = i
    BY <2>1 DEF CallMoves
  <2>2. CASE j # i
    BY <2>2 DEF CallMoves
  <2> QED
    BY <2>1, <2>2
<1>2. \A r : r \in Removed <=> \E j \in DOMAIN disk.calls :
                                 disk.calls[j].what = "remove" /\ r = disk.calls[j].path
  BY DEF Removed, Calls
<1>3. \A r : r \in Removed' <=> \E j \in DOMAIN disk'.calls :
                                 disk'.calls[j].what = "remove" /\ r = disk'.calls[j].path
  BY DEF Removed, Calls
<1>8. \A r : r \in Removed' <=> r \in Removed
  BY <1>1, <1>2, <1>3
<1>4. Removed' = Removed
  BY <1>8
<1>5. \A r : r \in Created <=> \E j \in DOMAIN disk.calls :
                                 /\ disk.calls[j].what = "create"
                                 /\ \E n \in 1 .. Len(disk.calls[j].path) :
                                      r = SubSeq(disk.calls[j].path, 1, n)
  BY DEF Created, Calls
<1>6. \A r : r \in Created' <=> \E j \in DOMAIN disk'.calls :
                                 /\ disk'.calls[j].what = "create"
                                 /\ \E n \in 1 .. Len(disk'.calls[j].path) :
                                      r = SubSeq(disk'.calls[j].path, 1, n)
  BY DEF Created, Calls
<1>7. Created' = Created
  BY <1>1, <1>5, <1>6
<1> QED
  BY <1>1, <1>4, <1>7
\* What a call takes is at or beneath its path.
LEMMA TakenBeneath ==
  ASSUME IInv, RemovedUnlinked, NEW i \in DOMAIN disk.calls, disk.calls[i].what = "remove",
         NEW q \in Sought(disk.calls[i]), WayOpen(disk.tree, q)
  PROVE  /\ disk.calls[i].path \in Removed /\ Beneath(EntryAt(disk.tree, q), disk.calls[i].path)
         /\ EntryAt(disk.tree, q) = q
<1> DEFINE c == disk.calls[i]
<1>1. QueueSound(c) /\ SearchUnlinked(disk.tree, c) /\ c.path \in Paths \ {<<>>}
  <2>1. CallSound(disk.tree, c) /\ ~IsCreator(c)
    BY CallOf DEF IsCreator
  <2> QED
    BY <2>1 DEF CallSound, CreatorSound, RemoverSound, QueueSound
<1>2. c.path \in Removed
  BY DEF Removed, Calls
<1>3. NoLinkAbove(disk.tree, c.path)
  BY <1>1, <1>2, StillUnlinked DEF RemovedUnlinked
<1>4. q \in Paths \ {<<>>} /\ Beneath(q, c.path) /\ NoLinkAbove(disk.tree, q)
  BY <1>1, <1>3, SoughtUnlinked
<1>5. EntryAt(disk.tree, q) = q
  BY <1>4, PlainEntry
<1> QED
  BY <1>2, <1>4, <1>5

\* A step takes nothing else.
LEMMA TakenStep ==
  ASSUME IInv, RemovedUnlinked, NothingElseIsTaken, NEW i \in DOMAIN disk.calls, StepSound(i)
  PROVE  RemovedUnlinked' /\ NothingElseIsTaken'
<1>1. Removed' = Removed /\ disk'.start = disk.start
  BY SameRequests DEF StepSound
<1>2. RemovedUnlinked'
  BY <1>1 DEF RemovedUnlinked
<1>3. SUFFICES ASSUME NEW p \in DOMAIN disk.start, \A r \in Removed : ~Beneath(p, r)
               PROVE  p \in DOMAIN disk'.tree /\ disk'.tree[p] = disk.start[p]
  BY <1>1, <1>2 DEF NothingElseIsTaken
<1>4. p \in DOMAIN disk.tree /\ disk.tree[p] = disk.start[p]
  BY <1>3 DEF NothingElseIsTaken
<1>5. CASE disk'.tree = disk.tree
  BY <1>4, <1>5
<1>6. ASSUME disk.calls[i].what = "remove", NEW q \in Sought(disk.calls[i]),
             Takes(disk.tree, disk'.tree, q)
      PROVE  p \in DOMAIN disk'.tree /\ disk'.tree[p] = disk.start[p]
  <2>1. disk.calls[i].path \in Removed /\ Beneath(EntryAt(disk.tree, q), disk.calls[i].path)
    BY <1>6, TakenBeneath DEF Takes
  <2>2. p # EntryAt(disk.tree, q)
    BY <1>3, <2>1
  <2> QED
    BY <1>4, <1>6, <2>2 DEF Takes
<1>7. ASSUME NEW n \in 1 .. Len(disk.calls[i].path),
             Makes(disk.tree, disk'.tree, SubSeq(disk.calls[i].path, 1, n))
      PROVE  p \in DOMAIN disk'.tree /\ disk'.tree[p] = disk.start[p]
  BY <1>4, <1>7 DEF Makes
<1> QED
  BY <1>5, <1>6, <1>7 DEF StepSound, TreeMoves

(***************************************************************************)
(* Whatever the calls do at the same time, an entry stays as it was unless *)
(* it is at or beneath a path that one of them is to remove: no link is    *)
(* followed (filesys32.c:862-1077).                                        *)
(***************************************************************************)
THEOREM OnlyBeneathIsTaken == DiskSpec /\ RemovedUnlinked => []NothingElseIsTaken
<1> DEFINE Inv == IInv /\ RemovedUnlinked /\ NothingElseIsTaken
<1>1. IsStart(disk) /\ RemovedUnlinked => Inv
  <2>1. IsStart(disk) => disk.start = disk.tree
    BY DEF IsStart, NewDisk
  <2> QED
    BY <2>1, StartIInv DEF NothingElseIsTaken
<1>2. Inv /\ [DiskNext]_disk => Inv'
  <2> SUFFICES ASSUME Inv, [DiskNext]_disk PROVE Inv'
    OBVIOUS
  <2>1. CASE DiskNext
    <3>1. PICK i \in DOMAIN disk.calls : StepSound(i)
      BY <2>1, StepsSound
    <3> QED
      BY <3>1, StepIInv, TakenStep
  <2>2. CASE UNCHANGED disk
    <3>1. IInv'
      BY <2>2 DEF IInv
    <3>2. Removed' = Removed
      BY <2>2 DEF Removed, Calls
    <3> QED
      BY <2>2, <3>1, <3>2 DEF RemovedUnlinked, NothingElseIsTaken
  <2> QED
    BY <2>1, <2>2
<1> QED
  BY <1>1, <1>2, PTL DEF DiskSpec

LEMMA PartUnlinked ==
  ASSUME NEW tree, NEW path \in Paths \ {<<>>}, NoLinkAbove(tree, path), NEW n \in 1 .. Len(path)
  PROVE  SubSeq(path, 1, n) \in Paths \ {<<>>} /\ NoLinkAbove(tree, SubSeq(path, 1, n))
<1> DEFINE q == SubSeq(path, 1, n)
<1>1. n \in 0 .. Len(path) /\ Len(path) \in Nat /\ n # 0 /\ Len(<<>>) = 0
  BY PathFacts
<1>2. q \in Paths /\ Len(q) = n /\ (n = Len(path) => q = path)
  BY <1>1, PartFacts
<1>3. SubSeq(path, 1, Len(q)) = q
  BY <1>2
<1> HIDE DEF q
<1>4. q # <<>> /\ Beneath(path, q)
  BY <1>1, <1>2, <1>3, BeneathFacts
<1>5. ASSUME NEW f \in Paths \ {<<>>}, Beneath(q, f), f # q PROVE KindAt(tree, f) # "link"
  <2>1. Beneath(path, f)
    BY <1>2, <1>4, <1>5, BeneathOrder
  <2>2. f # path
    BY <1>2, <1>4, <1>5, BeneathOrder
  <2> QED
    BY <2>1, <2>2, AboveFacts
<1>6. NoLinkAbove(tree, q)
  BY <1>2, <1>4, <1>5, AboveFacts
<1> QED
  BY <1>2, <1>4, <1>6 DEF q

\* A step makes nothing else.
LEMMA MadeStep ==
  ASSUME IInv, CreatedUnlinked, NothingElseIsMade, NEW i \in DOMAIN disk.calls, StepSound(i)
  PROVE  CreatedUnlinked' /\ NothingElseIsMade'
<1>1. /\ Created' = Created /\ disk'.start = disk.start
      /\ DOMAIN disk'.calls = DOMAIN disk.calls
      /\ \A j \in DOMAIN disk.calls : disk'.calls[j].what = disk.calls[j].what
                                      /\ disk'.calls[j].path = disk.calls[j].path
  BY SameRequests DEF StepSound, CallMoves
<1>2. CreatedUnlinked'
  BY <1>1 DEF CreatedUnlinked, Calls
<1>3. SUFFICES ASSUME NEW p \in DOMAIN disk'.tree
               PROVE  \/ p \in DOMAIN disk.start /\ disk'.tree[p] = disk.start[p]
                      \/ disk'.tree[p] = Dir /\ \E c \in Created : p \in {c, EntryAt(disk.start, c)}
  BY <1>1, <1>2 DEF NothingElseIsMade
<1>4. CASE p \in DOMAIN disk.tree /\ disk'.tree[p] = disk.tree[p]
  BY <1>4 DEF NothingElseIsMade
<1>5. ASSUME disk.calls[i].what = "create", NEW n \in 1 .. Len(disk.calls[i].path),
             Makes(disk.tree, disk'.tree, SubSeq(disk.calls[i].path, 1, n)),
             p = EntryAt(disk.tree, SubSeq(disk.calls[i].path, 1, n))
      PROVE  disk'.tree[p] = Dir /\ \E c \in Created : p \in {c, EntryAt(disk.start, c)}
  <2> DEFINE c == disk.calls[i]
             q == SubSeq(c.path, 1, n)
  <2>1. c.path \in Paths \ {<<>>} /\ c \in Calls
    BY CallOf DEF CallSound, CreatorSound, RemoverSound, QueueSound, Calls
  <2>2. NoLinkAbove(disk.tree, c.path)
    BY <1>5, <2>1, StillUnlinked DEF CreatedUnlinked
  <2>3. q \in Paths \ {<<>>} /\ NoLinkAbove(disk.tree, q)
    BY <2>1, <2>2, PartUnlinked
  <2>4. WayOpen(disk.tree, q)
    BY <1>5 DEF Makes
  <2>5. q \in Created
    BY <1>5, <2>1 DEF Created
  <2>6. disk'.tree[p] = Dir
    BY <1>5 DEF Makes
  <2> HIDE DEF q
  <2>7. EntryAt(disk.tree, q) = q
    BY <2>3, <2>4, PlainEntry
  <2> QED
    BY <1>5, <2>5, <2>6, <2>7 DEF q
<1>6. CASE disk'.tree = disk.tree
  BY <1>4, <1>6
<1>7. CASE \E q \in Sought(disk.calls[i]) : Takes(disk.tree, disk'.tree, q)
  BY <1>4, <1>7 DEF Takes
<1>8. ASSUME disk.calls[i].what = "create", NEW n \in 1 .. Len(disk.calls[i].path),
             Makes(disk.tree, disk'.tree, SubSeq(disk.calls[i].path, 1, n))
      PROVE  \/ p \in DOMAIN disk.start /\ disk'.tree[p] = disk.start[p]
             \/ disk'.tree[p] = Dir /\ \E c \in Created : p \in {c, EntryAt(disk.start, c)}
  <2>1. CASE p \in DOMAIN disk.tree
    <3>1. disk'.tree[p] = disk.tree[p]
      BY <1>8, <2>1 DEF Makes
    <3> QED
      BY <1>4, <2>1, <3>1
  <2>2. CASE p \notin DOMAIN disk.tree
    <3>1. p = EntryAt(disk.tree, SubSeq(disk.calls[i].path, 1, n))
      BY <1>3, <1>8, <2>2 DEF Makes
    <3> QED
      BY <1>5, <1>8, <3>1
  <2> QED
    BY <2>1, <2>2
<1> QED
  BY <1>6, <1>7, <1>8 DEF StepSound, TreeMoves

(***************************************************************************)
(* What is new is a folder that a call was to create: at its path, or on   *)
(* the way to it (filesys32.c:1316-1395).                                  *)
(***************************************************************************)
THEOREM OnlyCreatedIsMade == DiskSpec /\ CreatedUnlinked => []NothingElseIsMade
<1> DEFINE Inv == IInv /\ CreatedUnlinked /\ NothingElseIsMade
<1>1. IsStart(disk) /\ CreatedUnlinked => Inv
  <2>1. IsStart(disk) => disk.start = disk.tree
    BY DEF IsStart, NewDisk
  <2> QED
    BY <2>1, StartIInv DEF NothingElseIsMade
<1>2. Inv /\ [DiskNext]_disk => Inv'
  <2> SUFFICES ASSUME Inv, [DiskNext]_disk PROVE Inv'
    OBVIOUS
  <2>1. CASE DiskNext
    <3>1. PICK i \in DOMAIN disk.calls : StepSound(i)
      BY <2>1, StepsSound
    <3> QED
      BY <3>1, StepIInv, MadeStep
  <2>2. CASE UNCHANGED disk
    <3>1. IInv'
      BY <2>2 DEF IInv
    <3>2. Created' = Created /\ Calls' = Calls
      BY <2>2 DEF Created, Calls
    <3> QED
      BY <2>2, <3>1, <3>2 DEF CreatedUnlinked, NothingElseIsMade
  <2> QED
    BY <2>1, <2>2
<1> QED
  BY <1>1, <1>2, PTL DEF DiskSpec

-----------------------------------------------------------------------------
(* A call that ends with success has done it *)

Fulfilled(tree, c) ==
  /\ c.what = "remove" => \A p \in DOMAIN tree : ~Beneath(p, c.path)
  /\ c.what = "create" => /\ WayError(tree, c.path) = "OK"
                          /\ KindAt(tree, EntryAt(tree, c.path)) # "none"
EndsSound(i) ==
  /\ disk.calls[i].at # "done"
  /\ disk'.calls[i].at = "done" /\ disk'.calls[i].error = "SUCCESS" =>
        Fulfilled(disk'.tree, disk.calls[i])

\* What a step leaves.
LEMMA StepIs ==
  ASSUME IInv, NEW i \in DOMAIN disk.calls, NEW e, NEW r, IsDisk(e), e.calls = disk.calls,
         disk' = Set(e, i, r)
  PROVE  disk'.calls[i] = r /\ disk'.tree = e.tree
<1>1. e.calls = [j \in DOMAIN e.calls |-> e.calls[j]] /\ i \in DOMAIN e.calls
  BY DEF IInv, DiskSound
<1>2. /\ IsDisk(disk') /\ disk'.tree = e.tree /\ disk'.start = e.start /\ disk'.denied = e.denied
      /\ DOMAIN disk'.calls = DOMAIN e.calls /\ disk'.calls[i] = r
      /\ disk'.calls = [j \in DOMAIN e.calls |-> disk'.calls[j]]
      /\ \A j \in DOMAIN e.calls : j # i => disk'.calls[j] = e.calls[j]
  BY <1>1, SetFacts
<1> QED
  BY <1>2

\* A search that ends the call does not end it with success.
LEMMA ScanEnds ==
  ASSUME NEW d, IsTree(d.tree), NEW c, QueueSound(c), NEW r \in ScanResults(d, c), r.at = "done"
  PROVE  r.error # "SUCCESS"
<1> DEFINE result == ListFolder(d, ScanNext(c))
<1>0. ScanNext(c) \in Paths \ {<<>>}
  BY ScanNextFacts
<1>1. CASE result = "SUCCESS"
  <2>1. PICK more \in Listings(d, ScanNext(c)) : r = ToNext([c EXCEPT !.queue = @ \o more])
    BY <1>1 DEF ScanResults
  <2> DEFINE e == [c EXCEPT !.queue = @ \o more]
  <2>2. /\ more \in Seq(Paths)
        /\ \A m \in 1 .. Len(more) : \E name \in Component : more[m] = Append(ScanNext(c), name)
    BY <1>0, ListingFacts
  <2>3. QueueSound(e)
    BY <2>2, ExtendedFacts
  <2> HIDE DEF e
  <2>4. r = ToNext(e)
    BY <2>1 DEF e
  <2>5. r.at # "done"
    BY <2>3, <2>4, ToNextFacts
  <2> QED
    BY <2>5
<1>2. CASE result = "TARGETNOTADIRECTORY" /\ c.scan = 0
  <2>1. r = Ended(c, result)
    BY <1>2 DEF ScanResults
  <2>2. r.error = result
    BY <2>1, EndedFacts
  <2> QED
    BY <1>2, <2>2
<1>3. CASE /\ result \in {"TARGETNOTADIRECTORY", "SYMLINKSWEREEXCLUDED"}
           /\ ~(result = "TARGETNOTADIRECTORY" /\ c.scan = 0)
  <2>1. r = [c EXCEPT !.at = "item"]
    BY <1>3 DEF ScanResults
  <2>2. r.at = "item"
    BY <2>1 DEF QueueSound, IsRemover
  <2> QED
    BY <2>2
<1>4. CASE result \notin {"SUCCESS", "TARGETNOTADIRECTORY", "SYMLINKSWEREEXCLUDED"}
  <2> DEFINE e == Noting(c, result)
  <2>1. r = ToNext(e)
    BY <1>4 DEF ScanResults
  <2>2. QueueSound(e)
    BY NotingFacts
  <2> HIDE DEF e
  <2>3. r.at # "done"
    BY <2>1, <2>2, ToNextFacts
  <2> QED
    BY <2>3
<1> QED
  BY <1>1, <1>2, <1>3, <1>4

LEMMA ScanEndsSound ==
  ASSUME IInv, NEW i \in DOMAIN disk.calls, ScanItem(i)
  PROVE  EndsSound(i)
<1> DEFINE c == disk.calls[i]
           e == AfterList(disk, ScanNext(c))
<1>1. c.at = "scan" /\ \E r \in ScanResults(disk, c) : disk' = Set(e, i, r)
  BY DEF ScanItem
<1>2. QueueSound(c) /\ IsTree(disk.tree)
  BY <1>1, CallOf, RemoverAt DEF RemoverSound
<1>3. PICK r \in ScanResults(disk, c) : disk' = Set(e, i, r)
  BY <1>1
<1>4. IsDisk(e) /\ e.calls = disk.calls
  BY CallOf, ListFacts
<1> HIDE DEF e
<1>5. disk'.calls[i] = r
  BY <1>3, <1>4, StepIs
<1>6. r.at = "done" => r.error # "SUCCESS"
  BY <1>2, ScanEnds
<1> QED
  BY <1>1, <1>5, <1>6 DEF EndsSound

LEMMA RemoveItemEndsSound ==
  ASSUME IInv, NEW i \in DOMAIN disk.calls, RemoveItem(i)
  PROVE  EndsSound(i)
<1> DEFINE c == disk.calls[i]
           q == ScanNext(c)
           e == AfterRemove(disk, q)
           noted == Noting(c, RemoveFileOrEmptyDir(disk, q))
           r == ToNext(Unqueued(noted))
<1>1. c.at = "item" /\ disk' = Set(e, i, r)
  BY DEF RemoveItem
<1>2. QueueSound(c) /\ RemoverSound(c)
  BY <1>1, CallOf, RemoverAt DEF RemoverSound
<1>3. q \in Sought(c)
  BY <1>2, ScanNextFacts DEF Sought
<1>4. IsDisk(e) /\ e.calls = disk.calls
  BY <1>2, <1>3, RemoveMoves
<1>5. QueueSound(noted)
  BY <1>2, NotingFacts
<1>6. QueueSound(Unqueued(noted))
  BY <1>5, UnqueuedFacts
<1>7. r.at # "done"
  BY <1>6, ToNextFacts
<1> HIDE DEF e, r
<1>8. disk'.calls[i] = r
  BY <1>1, <1>4, StepIs
<1> QED
  BY <1>1, <1>7, <1>8 DEF EndsSound

LEMMA RemoveRestEndsSound ==
  ASSUME IInv, NEW i \in DOMAIN disk.calls, RemoveRest(i)
  PROVE  EndsSound(i)
<1> DEFINE c == disk.calls[i]
           q == c.queue[c.k]
           e == AfterRemove(disk, q)
           noted == Noting(c, RemoveFileOrEmptyDir(disk, q))
           r == [noted EXCEPT !.k = @ - 1, !.at = IF c.k = 1 THEN "target" ELSE "rest"]
<1>1. c.at = "rest" /\ disk' = Set(e, i, r)
  BY DEF RemoveRest
<1>2. RemoverSound(c) /\ QueueSound(c)
  BY <1>1, CallOf, RemoverAt DEF RemoverSound
<1>3. q \in Sought(c)
  BY <1>1, <1>2 DEF Sought, RemoverSound
<1>4. IsDisk(e) /\ e.calls = disk.calls
  BY <1>2, <1>3, RemoveMoves
<1>5. QueueSound(noted)
  BY <1>2, NotingFacts
<1> HIDE DEF noted
<1>6. r.at # "done"
  BY <1>5 DEF QueueSound, IsRemover
<1> HIDE DEF e, r
<1>7. disk'.calls[i] = r
  BY <1>1, <1>4, StepIs
<1> QED
  BY <1>1, <1>6, <1>7 DEF EndsSound

\* With success, or when it was not there, what was at the path is gone, and so is all
\* that lay beneath it.
LEMMA RemovedIsGone ==
  ASSUME NEW d, IsDisk(d), IsTree(d.tree), NEW path \in Paths \ {<<>>},
         RemoveFileOrEmptyDir(d, path) \in {"SUCCESS", "NOSUCHTARGET"}
  PROVE  \A p \in DOMAIN AfterRemove(d, path).tree : ~Beneath(p, path)
<1> DEFINE e == AfterRemove(d, path)
           at == EntryAt(d.tree, path)
<1>1. /\ IsTree(e.tree)
      /\ RemoveErrno(d, path) = "OK" => DOMAIN e.tree = DOMAIN d.tree \ {at}
      /\ RemoveErrno(d, path) # "OK" => e.tree = d.tree
  BY RemoveFacts
<1>2. path \notin DOMAIN e.tree
  <2> SUFFICES ASSUME path \in DOMAIN e.tree PROVE FALSE
    OBVIOUS
  <2>1. path \in DOMAIN d.tree
    BY <1>1
  <2>2. WayError(d.tree, path) = "OK" /\ at = path /\ KindAt(d.tree, path) # "none"
    BY <2>1, EntryInTree, KindFacts
  <2>3. RemoveErrno(d, path) # "OK"
    BY <1>1, <2>2
  <2>4. RemoveErrno(d, path) \in {"EACCES", "ENOTEMPTY"}
    BY <2>2, <2>3 DEF RemoveErrno
  <2>5. RemoveFileOrEmptyDir(d, path) \in {"NOPERMISSION", "NONEMPTYDIRECTORY"}
    BY <2>4 DEF RemoveFileOrEmptyDir
  <2> QED
    BY <2>5
<1> HIDE DEF e
<1>3. ASSUME NEW p \in DOMAIN e.tree PROVE ~Beneath(p, path)
  <2>1. p \in Paths
    BY <1>1 DEF IsTree
  <2> QED
    BY <1>1, <1>2, <2>1, PartsInTree
<1> QED
  BY <1>3 DEF e

LEMMA RemoveTargetEndsSound ==
  ASSUME IInv, NEW i \in DOMAIN disk.calls, RemoveTarget(i)
  PROVE  EndsSound(i)
<1> DEFINE c == disk.calls[i]
           e == AfterRemove(disk, c.path)
           result == RemoveFileOrEmptyDir(disk, c.path)
           noted == Noting(c, result)
           r == Ended(c, noted.error)
<1>1. c.at = "target" /\ disk' = Set(e, i, r)
  BY DEF RemoveTarget
<1>2. RemoverSound(c) /\ QueueSound(c) /\ c.what = "remove" /\ c.path \in Paths \ {<<>>}
  BY <1>1, CallOf, RemoverAt DEF RemoverSound, QueueSound
<1>3. c.path \in Sought(c)
  BY DEF Sought
<1>4. IsDisk(e) /\ e.calls = disk.calls
  BY <1>2, <1>3, RemoveMoves
<1>5. noted.error = IF c.error = "SUCCESS" /\ result # "NOSUCHTARGET" THEN result ELSE c.error
  BY <1>2, NotingFacts
<1>6. r.error = noted.error
  BY <1>2, EndedFacts
<1>7. r.error = "SUCCESS" => result \in {"SUCCESS", "NOSUCHTARGET"}
  BY <1>5, <1>6
<1>8. r.error = "SUCCESS" => \A p \in DOMAIN e.tree : ~Beneath(p, c.path)
  BY <1>2, <1>7, CallOf, RemovedIsGone
<1> HIDE DEF e, r
<1>9. disk'.calls[i] = r /\ disk'.tree = e.tree
  BY <1>1, <1>4, StepIs
<1> QED
  BY <1>1, <1>2, <1>8, <1>9 DEF EndsSound, Fulfilled

\* More in a tree leaves where the paths lead that led to a folder.
LEMMA GrownLeads ==
  ASSUME NEW old, IsTree(old), NEW new, IsTree(new),
         \A p \in DOMAIN old : p \in DOMAIN new /\ new[p] = old[p]
  PROVE  /\ \A p \in Paths : KindAt(old, p) # "none" => KindAt(new, p) = KindAt(old, p)
         /\ \A p \in Paths : KindAt(old, Leads(old, p)) = "dir" => Leads(new, p) = Leads(old, p)
<1>1. \A p \in Paths : KindAt(old, p) # "none" => KindAt(new, p) = KindAt(old, p)
  BY DEF KindAt
<1> DEFINE S == {p \in Paths : KindAt(old, Leads(old, p)) = "dir" => Leads(new, p) = Leads(old, p)}
<1>0. <<>> \in Paths
  BY EmptySeq DEF Paths
<1>2. <<>> \in S
  BY <1>0, LeadsStep
<1>3. ASSUME NEW p \in Paths \ {<<>>}, Front(p) \in S PROVE p \in S
  <2> SUFFICES ASSUME KindAt(old, Leads(old, p)) = "dir" PROVE Leads(new, p) = Leads(old, p)
    OBVIOUS
  <2> DEFINE f == Leads(old, Front(p))
             x == Append(f, Last(p))
  <2>1. Front(p) \in Paths /\ Last(p) \in Component
    BY FrontFacts
  <2>2. f \in Paths
    BY <2>1, LeadsIsPath
  <2>3. x \in Paths
    BY <2>1, <2>2, AppendFacts
  <2>4. Leads(old, p) = Onward(old, f, Last(p))
        /\ Leads(new, p) = Onward(new, Leads(new, Front(p)), Last(p))
    BY LeadsStep
  <2>5. KindAt(old, f) = "dir"
    BY <2>4 DEF Onward
  <2>6. Leads(new, Front(p)) = f /\ KindAt(new, f) = "dir"
    BY <1>1, <1>3, <2>2, <2>5
  <2>7. Leads(old, p) = Follow(old, x) /\ Leads(new, p) = Follow(new, x)
    BY <2>4, <2>5, <2>6 DEF Onward
  <2>8. Follow(new, x) = Follow(old, x)
    <3>1. CASE KindAt(old, x) = "link"
      <4>1. KindAt(new, x) = "link" /\ x \in DOMAIN old
        BY <1>1, <2>3, <3>1, KindFacts
      <4>2. new[x] = old[x]
        BY <4>1
      <4> QED
        BY <3>1, <4>1, <4>2 DEF Follow
    <3>2. CASE KindAt(old, x) # "link"
      <4>1. Follow(old, x) = x
        BY <3>2 DEF Follow
      <4>2. KindAt(old, x) = "dir"
        BY <2>7, <4>1
      <4>3. KindAt(new, x) = "dir"
        BY <1>1, <2>3, <4>2
      <4> QED
        BY <4>1, <4>3 DEF Follow
    <3> QED
      BY <3>1, <3>2
  <2> QED
    BY <2>7, <2>8
<1>4. Paths \subseteq S
  BY <1>2, <1>3, PathInduction
<1> QED
  BY <1>1, <1>4

LEMMA ToMakeEnds ==
  ASSUME NEW c, CreatorSound(c), ToMake(c).at = "done", c.at # "done"
  PROVE  c.k = Len(c.path) /\ Part(c) = c.path /\ c.what = "create" /\ c.path \in Paths \ {<<>>}
<1>1. IsCreator(c) /\ c.path \in Paths \ {<<>>} /\ c.k \in 0 .. Len(c.path)
  BY DEF CreatorSound
<1>2. c.k = Len(c.path)
  <2> SUFFICES ASSUME c.k # Len(c.path) PROVE FALSE
    OBVIOUS
  <2>1. ToMake(c) = [c EXCEPT !.at = "make", !.k = c.k + 1]
    BY DEF ToMake
  <2>2. ToMake(c).at = "make"
    BY <1>1, <2>1 DEF IsCreator
  <2> QED
    BY <2>2
<1>3. Part(c) = c.path
  BY <1>1, <1>2, PartFacts DEF Part
<1> QED
  BY <1>1, <1>2, <1>3 DEF IsCreator

LEMMA LookEndsSound ==
  ASSUME IInv, NEW i \in DOMAIN disk.calls, Look(i)
  PROVE  EndsSound(i)
<1> DEFINE c == disk.calls[i]
           there == TargetExists(disk, Part(c))
           r == IF there THEN ToMake(c) ELSE [c EXCEPT !.k = @ - 1]
<1>1. c.at = "look" /\ disk' = Set(disk, i, r)
  BY DEF Look
<1>2. CreatorSound(c) /\ IsDisk(disk)
  BY <1>1, CallOf, CreatorAt
<1>3. ~there => r.at = "look"
  <2> SUFFICES ASSUME ~there PROVE r.at = "look"
    OBVIOUS
  <2>1. r = [c EXCEPT !.k = c.k - 1]
    OBVIOUS
  <2> HIDE DEF r
  <2> QED
    BY <1>1, <1>2, <2>1 DEF CreatorSound, IsCreator
<1>4. ASSUME there, r.at = "done" PROVE Fulfilled(disk.tree, c)
  <2>1. Part(c) = c.path /\ c.what = "create" /\ c.path \in Paths \ {<<>>}
    BY <1>1, <1>2, <1>4, ToMakeEnds
  <2>2. WayError(disk.tree, c.path) = "OK" /\ KindAt(disk.tree, Leads(disk.tree, c.path)) # "none"
    BY <1>4, <2>1 DEF TargetExists
  <2>3. WayOpen(disk.tree, c.path)
    BY <2>1, <2>2, CallOf, EntryFacts
  <2>4. Leads(disk.tree, c.path) = Follow(disk.tree, EntryAt(disk.tree, c.path))
    BY <2>1, <2>3, LeadsStep DEF Onward, EntryAt, WayOpen
  <2>5. KindAt(disk.tree, EntryAt(disk.tree, c.path)) # "none"
    BY <2>2, <2>4 DEF Follow
  <2> QED
    BY <2>1, <2>2, <2>5 DEF Fulfilled
<1> HIDE DEF r
<1>5. disk'.calls[i] = r /\ disk'.tree = disk.tree
  BY <1>1, <1>2, StepIs
<1> QED
  BY <1>1, <1>3, <1>4, <1>5 DEF EndsSound

\* A folder that was made, or was in the way, is there.
LEMMA MadeIsThere ==
  ASSUME NEW d, IsDisk(d), IsTree(d.tree), NEW path \in Paths \ {<<>>},
         CreateDirectory(d, path) \in {"SUCCESS", "TARGETALREADYEXISTS"}
  PROVE  LET tree == AfterMkdir(d, path).tree
         IN WayError(tree, path) = "OK" /\ KindAt(tree, EntryAt(tree, path)) # "none"
<1> DEFINE e == AfterMkdir(d, path)
           at == EntryAt(d.tree, path)
<1>1. /\ IsTree(e.tree)
      /\ MkdirErrno(d, path) = "OK" => Makes(d.tree, e.tree, path)
      /\ MkdirErrno(d, path) # "OK" => e.tree = d.tree
  BY MkdirFacts
<1> HIDE DEF e
<1>2. MkdirErrno(d, path) \in {"OK", "EEXIST"}
  BY DEF CreateDirectory
<1>6. WayOpen(d.tree, path) => Refusal(d.tree, Leads(d.tree, Front(path))) \in {"OK", "EACCES", "EROFS"}
  BY RefusalFacts
<1>3. at \in Paths \ {<<>>} /\ (WayError(d.tree, path) = "OK" <=> WayOpen(d.tree, path))
      /\ WayError(d.tree, path) \in {"OK", "ENOTDIR", "ENOENT"}
  BY EntryFacts
<1>4. CASE MkdirErrno(d, path) = "EEXIST"
  <2>1. WayError(d.tree, path) = "OK" /\ KindAt(d.tree, at) # "none"
    BY <1>3, <1>4, <1>6 DEF MkdirErrno
  <2> QED
    BY <1>1, <1>4, <2>1 DEF e
<1>5. CASE MkdirErrno(d, path) = "OK"
  <2>1. /\ WayOpen(d.tree, path) /\ DOMAIN e.tree = DOMAIN d.tree \cup {at} /\ e.tree[at] = Dir
        /\ \A p \in DOMAIN d.tree : p \in DOMAIN e.tree /\ e.tree[p] = d.tree[p]
    BY <1>1, <1>5 DEF Makes
  <2>2. Front(path) \in Paths /\ Leads(d.tree, Front(path)) \in Paths
    BY FrontFacts, LeadsIsPath
  <2>3. /\ Leads(e.tree, Front(path)) = Leads(d.tree, Front(path))
        /\ KindAt(e.tree, Leads(d.tree, Front(path))) = "dir"
    BY <1>1, <2>1, <2>2, GrownLeads DEF WayOpen
  <2>4. EntryAt(e.tree, path) = at /\ WayError(e.tree, path) = "OK"
    BY <2>3 DEF EntryAt, WayError
  <2>5. KindAt(e.tree, at) # "none"
    BY <1>1, <1>3, <2>1, KindFacts
  <2> QED
    BY <2>4, <2>5 DEF e
<1> QED
  BY <1>2, <1>4, <1>5

LEMMA MakeEndsSound ==
  ASSUME IInv, NEW i \in DOMAIN disk.calls, Make(i)
  PROVE  EndsSound(i)
<1> DEFINE c == disk.calls[i]
           q == Part(c)
           e == AfterMkdir(disk, q)
           result == CreateDirectory(disk, q)
           made == result \in {"SUCCESS", "TARGETALREADYEXISTS"}
           r == IF made THEN ToMake(c) ELSE Ended(c, result)
<1>1. c.at = "make" /\ disk' = Set(e, i, r)
  BY DEF Make
<1>2. CreatorSound(c) /\ IsDisk(disk) /\ IsTree(disk.tree)
  BY <1>1, CallOf, CreatorAt
<1>3. q \in Paths \ {<<>>}
  <2>1. /\ c.path \in Paths \ {<<>>} /\ Len(c.path) \in Nat /\ c.k \in 0 .. Len(c.path)
        /\ c.k # 0 /\ Len(<<>>) = 0
    BY <1>1, <1>2, PathFacts DEF CreatorSound
  <2>2. q \in Paths /\ Len(q) = c.k
    BY <2>1, PartFacts DEF Part
  <2> QED
    BY <2>1, <2>2
<1>4. IsDisk(e) /\ e.calls = disk.calls
  BY <1>2, <1>3, MkdirFacts
<1>5. ~made => r.error # "SUCCESS"
  <2> SUFFICES ASSUME ~made PROVE r.error # "SUCCESS"
    OBVIOUS
  <2>1. r = [c EXCEPT !.at = "done", !.error = result]
    BY DEF Ended
  <2> HIDE DEF r
  <2>2. r.error = result
    BY <1>2, <2>1 DEF CreatorSound, IsCreator
  <2> QED
    BY <2>2
<1>6. ASSUME made, r.at = "done" PROVE Fulfilled(e.tree, c)
  <2>1. q = c.path /\ c.what = "create"
    BY <1>1, <1>2, <1>6, ToMakeEnds
  <2>2. WayError(e.tree, q) = "OK" /\ KindAt(e.tree, EntryAt(e.tree, q)) # "none"
    BY <1>2, <1>3, <1>6, MadeIsThere
  <2> QED
    BY <2>1, <2>2 DEF Fulfilled
<1> HIDE DEF e, r
<1>7. disk'.calls[i] = r /\ disk'.tree = e.tree
  BY <1>1, <1>4, StepIs
<1> QED
  BY <1>1, <1>5, <1>6, <1>7 DEF EndsSound

LEMMA StepsEndSound ==
  ASSUME IInv, DiskNext
  PROVE  \E i \in DOMAIN disk.calls : StepSound(i) /\ EndsSound(i)
<1>1. PICK i \in DOMAIN disk.calls :
         ScanItem(i) \/ RemoveItem(i) \/ RemoveRest(i) \/ RemoveTarget(i) \/ Look(i) \/ Make(i)
  BY DEF DiskNext
<1>2. StepSound(i)
  BY <1>1, ScanSound, RemoveItemSound, RemoveRestSound, RemoveTargetSound, LookSound, MakeSound
<1>3. EndsSound(i)
  BY <1>1, ScanEndsSound, RemoveItemEndsSound, RemoveRestEndsSound, RemoveTargetEndsSound,
     LookEndsSound, MakeEndsSound
<1> QED
  BY <1>2, <1>3

(***************************************************************************)
(* Whatever other calls do meanwhile, with success the folder is gone with *)
(* all it held, or the folder to create is there (filesys32.c:1058-1076,   *)
(* 1316-1395).                                                             *)
(***************************************************************************)
THEOREM SuccessIsTrue == DiskSpec => DoneWhenSaid
<1> DEFINE Ends ==
      \A i \in DOMAIN disk.calls :
        LET c == disk.calls[i]
        IN c.at # "done" /\ disk'.calls[i].at = "done" /\ disk'.calls[i].error = "SUCCESS" =>
             /\ c.what = "remove" => \A p \in DOMAIN disk'.tree : ~Beneath(p, c.path)
             /\ c.what = "create" => /\ WayError(disk'.tree, c.path) = "OK"
                                     /\ KindAt(disk'.tree, EntryAt(disk'.tree, c.path)) # "none"
<1>1. IInv /\ DiskNext => Ends
  <2> SUFFICES ASSUME IInv, DiskNext, NEW j \in DOMAIN disk.calls,
                      disk.calls[j].at # "done", disk'.calls[j].at = "done",
                      disk'.calls[j].error = "SUCCESS"
               PROVE  Fulfilled(disk'.tree, disk.calls[j])
    BY DEF Fulfilled
  <2>1. PICK i \in DOMAIN disk.calls : StepSound(i) /\ EndsSound(i)
    BY StepsEndSound
  <2>2. j = i
    BY <2>1 DEF StepSound, CallMoves
  <2> QED
    BY <2>1, <2>2 DEF EndsSound
<1>2. IInv /\ [DiskNext]_disk => [Ends]_disk
  BY <1>1
<1>3. DiskSpec => []IInv
  BY Invariance
<1> HIDE DEF Ends
<1>4. DiskSpec => [][Ends]_disk
  BY <1>2, <1>3, PTL DEF DiskSpec
<1> QED
  BY <1>4 DEF DoneWhenSaid, Ends

\* What is gone stays gone.
LEMMA GoneStep ==
  ASSUME IInv, SaidIsGone, NEW i \in DOMAIN disk.calls, StepSound(i), EndsSound(i)
  PROVE  SaidIsGone'
<1>1. /\ CallMoves(disk, disk', i) /\ TreeMoves(disk.tree, disk'.tree, disk.calls[i])
      /\ Created' = Created
      /\ \A j \in DOMAIN disk.calls : disk'.calls[j].what = disk.calls[j].what
                                      /\ disk'.calls[j].path = disk.calls[j].path
  BY SameRequests DEF StepSound
<1> SUFFICES ASSUME Created = {}, NEW j \in DOMAIN disk'.calls,
                    disk'.calls[j].what = "remove", disk'.calls[j].at = "done",
                    disk'.calls[j].error = "SUCCESS"
             PROVE  \A p \in DOMAIN disk'.tree : ~Beneath(p, disk'.calls[j].path)
  BY <1>1 DEF SaidIsGone, Calls
<1>2. j \in DOMAIN disk.calls
  BY <1>1 DEF CallMoves
<1>3. disk.calls[i].what # "create"
  <2> SUFFICES ASSUME disk.calls[i].what = "create" PROVE FALSE
    OBVIOUS
  <2>1. disk.calls[i].path \in Paths \ {<<>>} /\ disk.calls[i] \in Calls
    BY CallOf DEF CallSound, CreatorSound, RemoverSound, QueueSound, Calls
  <2>2. 1 \in 1 .. Len(disk.calls[i].path)
    BY <2>1, PathFacts
  <2>3. SubSeq(disk.calls[i].path, 1, 1) \in Created
    BY <2>1, <2>2 DEF Created
  <2> QED
    BY <2>3
<1>4. DOMAIN disk'.tree \subseteq DOMAIN disk.tree
  BY <1>1, <1>3 DEF TreeMoves, Takes
<1>5. CASE j = i
  BY <1>1, <1>5 DEF EndsSound, Fulfilled
<1>6. CASE j # i
  <2>1. disk'.calls[j] = disk.calls[j] /\ disk.calls[j] \in Calls
    BY <1>1, <1>2, <1>6 DEF CallMoves, Calls
  <2> QED
    BY <1>4, <2>1 DEF SaidIsGone
<1> QED
  BY <1>5, <1>6

(***************************************************************************)
(* While no folders are created, what a call said it removed stays gone.   *)
(***************************************************************************)
THEOREM SuccessStays == DiskSpec => []SaidIsGone
<1>1. IsStart(disk) => SaidIsGone
  <2> SUFFICES ASSUME IsStart(disk), NEW i \in DOMAIN disk.calls PROVE disk.calls[i].at # "done"
    BY DEF SaidIsGone, Calls
  <2>1. \/ disk.calls[i] = Remover(disk.calls[i].path)
        \/ disk.calls[i] = Creator(disk.calls[i].path)
    BY DEF IsStart
  <2> QED
    BY <2>1 DEF Remover, Creator
<1>2. IInv /\ SaidIsGone /\ [DiskNext]_disk => SaidIsGone'
  <2> SUFFICES ASSUME IInv, SaidIsGone, [DiskNext]_disk PROVE SaidIsGone'
    OBVIOUS
  <2>1. CASE DiskNext
    BY <2>1, StepsEndSound, GoneStep
  <2>2. CASE UNCHANGED disk
    <3>1. Created' = Created /\ Calls' = Calls
      BY <2>2 DEF Created, Calls
    <3> QED
      BY <2>2, <3>1 DEF SaidIsGone
  <2> QED
    BY <2>1, <2>2
<1> QED
  BY <1>1, <1>2, Invariance, PTL DEF DiskSpec

-----------------------------------------------------------------------------
(* What may not be removed *)

\* A step removes nothing that may not be removed.
DeniedKept(i) == \A p \in disk.denied : p \in DOMAIN disk.tree => p \in DOMAIN disk'.tree

\* What may not be removed is not.
LEMMA DeniedKeptByRemove ==
  ASSUME NEW d, IsDisk(d), IsTree(d.tree), NEW q \in Paths \ {<<>>}
  PROVE  \A p \in d.denied : p \in DOMAIN d.tree => p \in DOMAIN AfterRemove(d, q).tree
<1> DEFINE e == AfterRemove(d, q)
<1>1. /\ RemoveErrno(d, q) = "OK" =>
             /\ e.tree = Without(d.tree, EntryAt(d.tree, q))
             /\ DOMAIN e.tree = DOMAIN d.tree \ {EntryAt(d.tree, q)}
             /\ EntryAt(d.tree, q) \notin d.denied
      /\ RemoveErrno(d, q) # "OK" => e.tree = d.tree
  BY RemoveFacts
<1> QED
  BY <1>1

LEMMA StepKeepsDenied ==
  ASSUME IInv, NEW i \in DOMAIN disk.calls,
         ScanItem(i) \/ RemoveItem(i) \/ RemoveRest(i) \/ RemoveTarget(i) \/ Look(i) \/ Make(i)
  PROVE  DeniedKept(i)
<1> DEFINE c == disk.calls[i]
<1>0. IsDisk(disk) /\ IsTree(disk.tree) /\ CallSound(disk.tree, c)
  BY CallOf
<1>1. ASSUME ScanItem(i) PROVE DeniedKept(i)
  <2> DEFINE e == AfterList(disk, ScanNext(c))
  <2>1. PICK r \in ScanResults(disk, c) : disk' = Set(e, i, r)
    BY <1>1 DEF ScanItem
  <2>2. IsDisk(e) /\ e.calls = disk.calls /\ e.tree = disk.tree
    BY <1>0, ListFacts
  <2> HIDE DEF e
  <2> QED
    BY <2>1, <2>2, StepIs DEF DeniedKept
<1>2. ASSUME NEW q \in Sought(c), NEW r, RemoverSound(c), disk' = Set(AfterRemove(disk, q), i, r)
      PROVE  DeniedKept(i)
  <2> DEFINE e == AfterRemove(disk, q)
  <2>1. IsDisk(e) /\ e.calls = disk.calls /\ q \in Paths \ {<<>>}
    BY <1>2, RemoveMoves
  <2>2. \A p \in disk.denied : p \in DOMAIN disk.tree => p \in DOMAIN e.tree
    BY <1>0, <2>1, DeniedKeptByRemove
  <2> HIDE DEF e
  <2>3. disk' = Set(e, i, r)
    BY <1>2 DEF e
  <2> QED
    BY <2>1, <2>2, <2>3, StepIs DEF DeniedKept
<1>3. ASSUME RemoveItem(i) PROVE DeniedKept(i)
  <2>1. c.at = "item" /\ \E r : disk' = Set(AfterRemove(disk, ScanNext(c)), i, r)
    BY <1>3 DEF RemoveItem
  <2>2. RemoverSound(c) /\ QueueSound(c)
    BY <1>0, <2>1, RemoverAt DEF RemoverSound
  <2>3. ScanNext(c) \in Sought(c)
    BY <2>2, ScanNextFacts DEF Sought
  <2> QED
    BY <1>2, <2>1, <2>2, <2>3
<1>4. ASSUME RemoveRest(i) PROVE DeniedKept(i)
  <2>1. c.at = "rest" /\ \E r : disk' = Set(AfterRemove(disk, c.queue[c.k]), i, r)
    BY <1>4 DEF RemoveRest
  <2>2. RemoverSound(c)
    BY <1>0, <2>1, RemoverAt
  <2>3. c.queue[c.k] \in Sought(c)
    BY <2>1, <2>2 DEF Sought, RemoverSound
  <2> QED
    BY <1>2, <2>1, <2>2, <2>3
<1>5. ASSUME RemoveTarget(i) PROVE DeniedKept(i)
  <2>1. c.at = "target" /\ \E r : disk' = Set(AfterRemove(disk, c.path), i, r)
    BY <1>5 DEF RemoveTarget
  <2>2. RemoverSound(c) /\ c.path \in Sought(c)
    BY <1>0, <2>1, RemoverAt DEF Sought
  <2> QED
    BY <1>2, <2>1, <2>2
<1>6. ASSUME c.what = "create", StepSound(i) PROVE DeniedKept(i)
  BY <1>6 DEF StepSound, TreeMoves, Makes, DeniedKept
<1>7. ASSUME Look(i) PROVE DeniedKept(i)
  <2>1. c.at = "look"
    BY <1>7 DEF Look
  <2> QED
    BY <1>0, <1>6, <1>7, <2>1, CreatorAt, LookSound
<1>8. ASSUME Make(i) PROVE DeniedKept(i)
  <2>1. c.at = "make"
    BY <1>8 DEF Make
  <2> QED
    BY <1>0, <1>6, <1>8, <2>1, CreatorAt, MakeSound
<1> QED
  BY <1>1, <1>3, <1>4, <1>5, <1>7, <1>8

\* A step changes nothing but what it takes and makes.
LEMMA StepKeepsValues ==
  ASSUME NEW old, IsTree(old), NEW new, NEW c, TreeMoves(old, new, c)
  PROVE  /\ \A p \in DOMAIN old : p \in DOMAIN new => new[p] = old[p]
         /\ c.what # "create" => DOMAIN new \subseteq DOMAIN old
         /\ c.what # "remove" => DOMAIN old \subseteq DOMAIN new
<1>1. CASE new = old
  BY <1>1
<1>2. ASSUME c.what = "remove", NEW q \in Sought(c), Takes(old, new, q)
      PROVE  /\ \A p \in DOMAIN old : p \in DOMAIN new => new[p] = old[p]
             /\ DOMAIN new \subseteq DOMAIN old
  BY <1>2 DEF Takes
<1>3. ASSUME NEW n \in 1 .. Len(c.path), Makes(old, new, SubSeq(c.path, 1, n))
      PROVE  /\ \A p \in DOMAIN old : p \in DOMAIN new => new[p] = old[p]
             /\ DOMAIN old \subseteq DOMAIN new
  BY <1>3 DEF Makes
<1> QED
  BY <1>1, <1>2, <1>3 DEF TreeMoves

\* So it stays, with what it is.
LEMMA DeniedStep ==
  ASSUME IInv, DeniedStays, NEW i \in DOMAIN disk.calls, StepSound(i), DeniedKept(i)
  PROVE  DeniedStays'
<1>1. disk'.denied = disk.denied /\ disk'.start = disk.start
  BY DEF StepSound, CallMoves
<1>2. IsTree(disk.tree) /\ TreeMoves(disk.tree, disk'.tree, disk.calls[i])
  BY CallOf DEF StepSound
<1>3. \A p \in DOMAIN disk.tree : p \in DOMAIN disk'.tree => disk'.tree[p] = disk.tree[p]
  BY <1>2, StepKeepsValues
<1> QED
  BY <1>1, <1>3 DEF DeniedStays, Denied, DeniedKept

-----------------------------------------------------------------------------
(* What lies in a folder *)

\* The entries of a folder.
LEMMA NamesFacts ==
  ASSUME NEW tree, IsTree(tree), NEW f \in Paths
  PROVE  \A g : g \in Names(tree, f) <=> g \in DOMAIN tree /\ Front(g) = f
<1> SUFFICES ASSUME NEW g \in DOMAIN tree
             PROVE  Len(g) = Len(f) + 1 /\ IsPrefix(f, g) <=> Front(g) = f
  BY DEF Names
<1>1. g \in Paths /\ g # <<>>
  BY DEF IsTree
<1>2. /\ Len(Front(g)) = Len(g) - 1 /\ Len(g) \in Nat \ {0} /\ Front(g) \in Paths
      /\ Front(g) = SubSeq(g, 1, Len(g) - 1)
  BY <1>1, FrontFacts
<1>3. Len(f) \in Nat
  BY PathFacts
<1>4. Beneath(g, f) <=> Len(f) <= Len(g) /\ SubSeq(g, 1, Len(f)) = f
  BY <1>1, BeneathFacts
<1>5. ASSUME Len(g) = Len(f) + 1, IsPrefix(f, g) PROVE Front(g) = f
  <2>1. Len(g) - 1 = Len(f)
    BY <1>2, <1>3, <1>5
  <2> QED
    BY <1>2, <1>4, <1>5, <2>1 DEF Beneath
<1>6. ASSUME Front(g) = f PROVE Len(g) = Len(f) + 1 /\ IsPrefix(f, g)
  <2>1. Len(g) = Len(f) + 1 /\ Len(f) <= Len(g) /\ Len(g) - 1 = Len(f)
    BY <1>2, <1>3, <1>6
  <2>2. SubSeq(g, 1, Len(f)) = f
    BY <1>2, <1>6, <2>1
  <2> QED
    BY <1>4, <2>1, <2>2 DEF Beneath
<1> QED
  BY <1>5, <1>6

\* What lies beneath something lies in what lies in it, which is a folder.
LEMMA ChildBetween ==
  ASSUME NEW tree, IsTree(tree), NEW f \in Paths
  PROVE  \A p \in Paths : p \in DOMAIN tree /\ Beneath(p, f) /\ p # f =>
           KindAt(tree, f) = "dir" /\ \E g \in Names(tree, f) : Beneath(p, g)
<1> DEFINE S == {p \in Paths : p \in DOMAIN tree /\ Beneath(p, f) /\ p # f =>
                   KindAt(tree, f) = "dir" /\ \E g \in Names(tree, f) : Beneath(p, g)}
<1>1. <<>> \in S
  BY PathFacts, KindFacts
<1>2. ASSUME NEW p \in Paths \ {<<>>}, Front(p) \in S PROVE p \in S
  <2> SUFFICES ASSUME p \in DOMAIN tree, Beneath(p, f), p # f
               PROVE  KindAt(tree, f) = "dir" /\ \E g \in Names(tree, f) : Beneath(p, g)
    OBVIOUS
  <2>1. Front(p) \in Paths /\ KindAt(tree, Front(p)) = "dir"
    BY FrontFacts DEF IsTree
  <2>2. Beneath(Front(p), f) /\ Beneath(p, p)
    BY BeneathFacts
  <2>3. CASE Front(p) = f
    BY <2>1, <2>2, <2>3, NamesFacts
  <2>4. CASE Front(p) # f
    <3>1. Front(p) # <<>>
      <4>1. Front(p) = <<>> => Len(f) <= 0 /\ Len(f) \in Nat
        BY <2>1, <2>2, PathFacts, BeneathFacts
      <4> QED
        BY <2>4, <4>1, PathFacts
    <3>2. Front(p) \in DOMAIN tree
      BY <2>1, <3>1, KindFacts
    <3>3. KindAt(tree, f) = "dir" /\ \E g \in Names(tree, f) : Beneath(Front(p), g)
      BY <1>2, <2>2, <2>4, <3>2
    <3>4. PICK g \in Names(tree, f) : Beneath(Front(p), g)
      BY <3>3
    <3>5. g \in DOMAIN tree
      BY <3>4, NamesFacts
    <3>6. g \in Paths
      BY <3>5 DEF IsTree
    <3>7. Beneath(p, g)
      BY <3>4, <3>6, BeneathFacts
    <3> QED
      BY <3>3, <3>7
  <2> QED
    BY <2>3, <2>4
<1> HIDE DEF S
<1>3. Paths \subseteq S
  BY <1>1, <1>2, PathInduction
<1> QED
  BY <1>3 DEF S

\* A listing has what lies in the folder, once each.
LEMMA ListingIsNames ==
  ASSUME NEW d, IsTree(d.tree), NEW path \in Paths \ {<<>>}, NEW more \in Listings(d, path),
         EntryAt(d.tree, path) = path
  PROVE  /\ \A m \in 1 .. Len(more) : more[m] \in Names(d.tree, path)
         /\ \A m, o \in 1 .. Len(more) : m # o => more[m] # more[o]
         /\ \A g \in Names(d.tree, path) : \E m \in 1 .. Len(more) : more[m] = g
<1> DEFINE names == Names(d.tree, path)
           n == Len(more)
<1>1. n \in Nat /\ n = Cardinality(names)
  BY ListingFacts
<1>2. PICK s \in [1 .. n -> names] :
         /\ \A m, o \in 1 .. n : m # o => s[m] # s[o]
         /\ \A m \in 1 .. n : more[m] = Append(path, Last(s[m])) /\ Last(s[m]) \in Component
  BY ListingFacts
<1>3. names \subseteq DOMAIN d.tree /\ IsFiniteSet(names)
  BY FS_Subset DEF Names, IsTree
<1>4. ASSUME NEW m \in 1 .. n PROVE more[m] = s[m]
  <2>1. s[m] \in names
    BY <1>2
  <2>2. s[m] \in Paths /\ s[m] # <<>> /\ Front(s[m]) = path
    BY <1>3, <2>1, NamesFacts DEF IsTree
  <2>3. Append(Front(s[m]), Last(s[m])) = s[m]
    BY <2>2, FrontAndLast
  <2> QED
    BY <1>2, <2>2, <2>3
<1> HIDE DEF names
<1>5. s \in Injection(1 .. n, names)
  BY <1>2 DEF Injection, IsInjective
<1>6. Cardinality(1 .. n) = n /\ IsFiniteSet(1 .. n)
  BY <1>1, FS_Interval
<1>7. s \in Surjection(1 .. n, names)
  BY <1>1, <1>3, <1>5, <1>6, FS_Injection
<1>8. \A g \in names : \E m \in 1 .. n : s[m] = g
  BY <1>7 DEF Surjection
<1> HIDE DEF n
<1>9. \A m \in 1 .. n : more[m] \in names
  BY <1>2, <1>4
<1>10. \A m, o \in 1 .. n : m # o => more[m] # more[o]
  BY <1>2, <1>4
<1>11. \A g \in names : \E m \in 1 .. n : more[m] = g
  BY <1>4, <1>8
<1> QED
  BY <1>9, <1>10, <1>11 DEF names, n

-----------------------------------------------------------------------------
(* What a call that removes still has before it *)

\* The queue has everything once, and what an item lies in was searched before it.
OrderedTo(c, n) ==
  /\ \A m, o \in 1 .. Len(c.queue) : m # o => c.queue[m] # c.queue[o]
  /\ \A o \in 1 .. Len(c.queue) :
       \/ Front(c.queue[o]) = c.path
       \/ \E m \in 1 .. Len(c.queue) : m < o /\ m <= n /\ c.queue[m] = Front(c.queue[o])
Searching(c) == c.at \in {"scan", "item"}
QueueOrdered(c) ==
  /\ OrderedTo(c, IF Searching(c) THEN c.scan - 1 ELSE Len(c.queue))
  /\ Searching(c) /\ c.scan = 0 => c.queue = <<>>

\* What the call found, and what lies beneath what is next in its queue.
Behind(c, p) ==
  \/ p = c.path
  \/ \E m \in 1 .. Len(c.queue) : p = c.queue[m] \/ (m > c.scan /\ Beneath(p, c.queue[m]))
Covers(c, p) ==
  \/ Searching(c) /\ (Behind(c, p) \/ Beneath(p, ScanNext(c)))
  \/ c.at = "rest" /\ (p = c.path \/ \E m \in 1 .. c.k : p = c.queue[m])
  \/ c.at = "target" /\ p = c.path
\* What the call must take yet: nothing keeps it from it.
Doomed(d, made, c) ==
  {p \in DOMAIN d.tree :
     /\ Beneath(p, c.path) /\ p \notin made
     /\ \/ c.error = "SUCCESS"
        \/ d.descriptors # 0 /\ \A q \in Lasting(d, c.path) : ~Beneath(q, p)}
Covered(d, made, c) ==
  \A p \in Doomed(d, made, c) :
    /\ Covers(c, p)
    /\ c.at = "item" /\ Beneath(p, ScanNext(c)) => p = ScanNext(c) /\ KindAt(d.tree, p) # "dir"

\* What is behind the item is covered when the search goes on behind it.
LEMMA ToNextCovers ==
  ASSUME NEW c, QueueSound(c), NEW p, Behind(c, p)
  PROVE  Covers(ToNext(c), p) /\ ToNext(c).at # "item"
<1> DEFINE r == ToNext(c)
<1>1. /\ RemoverSound(r) /\ r.path = c.path /\ r.queue = c.queue
      /\ \/ c.scan < Len(c.queue) /\ r.at = "scan" /\ r.scan = c.scan + 1
         \/ c.scan = Len(c.queue) /\ r.queue = <<>> /\ r.at = "target"
         \/ c.scan = Len(c.queue) /\ r.at = "rest" /\ r.k = Len(c.queue)
  BY ToNextFacts
<1>2. Len(c.queue) \in Nat /\ c.scan \in 0 .. Len(c.queue) /\ c.queue \in Seq(Paths)
  BY DEF QueueSound
<1> HIDE DEF r
<1>3. CASE c.scan < Len(c.queue) /\ r.at = "scan" /\ r.scan = c.scan + 1
  <2>1. r.scan \in 1 .. Len(r.queue) /\ ScanNext(r) = r.queue[r.scan]
    BY <1>1, <1>2, <1>3 DEF ScanNext
  <2>2. Searching(r)
    BY <1>3 DEF Searching
  <2>3. CASE p = c.path
    BY <1>1, <1>3, <2>2, <2>3 DEF Covers, Behind, r
  <2>4. ASSUME NEW m \in 1 .. Len(c.queue), p = c.queue[m] PROVE Covers(r, p)
    BY <1>1, <2>2, <2>4 DEF Covers, Behind
  <2>5. ASSUME NEW m \in 1 .. Len(c.queue), m > c.scan, Beneath(p, c.queue[m]) PROVE Covers(r, p)
    <3>1. CASE m = r.scan
      BY <1>1, <2>1, <2>2, <2>5, <3>1 DEF Covers
    <3>2. CASE m # r.scan
      <4>1. m > r.scan /\ m \in 1 .. Len(r.queue) /\ Beneath(p, r.queue[m])
        BY <1>1, <1>2, <1>3, <2>5, <3>2
      <4> QED
        BY <2>2, <4>1 DEF Covers, Behind
    <3> QED
      BY <3>1, <3>2
  <2> QED
    BY <1>3, <2>3, <2>4, <2>5 DEF Behind, r
<1>4. CASE c.scan = Len(c.queue) /\ r.queue = <<>> /\ r.at = "target"
  <2>1. Len(c.queue) = 0
    BY <1>1, <1>4
  <2>2. p = c.path
    BY <1>2, <2>1 DEF Behind
  <2> QED
    BY <1>1, <1>4, <2>2 DEF Covers, r
<1>5. CASE c.scan = Len(c.queue) /\ r.at = "rest" /\ r.k = Len(c.queue)
  <2>1. p = c.path \/ \E m \in 1 .. Len(c.queue) : p = c.queue[m]
    BY <1>2, <1>5 DEF Behind
  <2>2. p = r.path \/ \E m \in 1 .. r.k : p = r.queue[m]
    BY <1>1, <1>5, <2>1
  <2> QED
    BY <1>5, <2>2 DEF Covers, r
<1> QED
  BY <1>1, <1>3, <1>4, <1>5

\* The queue stays in order when the search goes on.
LEMMA ToNextOrdered ==
  ASSUME NEW c, QueueSound(c), OrderedTo(c, c.scan)
  PROVE  QueueOrdered(ToNext(c))
<1> DEFINE r == ToNext(c)
<1>1. /\ RemoverSound(r) /\ r.path = c.path /\ r.queue = c.queue
      /\ \/ c.scan < Len(c.queue) /\ r.at = "scan" /\ r.scan = c.scan + 1
         \/ c.scan = Len(c.queue) /\ r.queue = <<>> /\ r.at = "target"
         \/ c.scan = Len(c.queue) /\ r.at = "rest" /\ r.k = Len(c.queue)
  BY ToNextFacts
<1>2. /\ Len(c.queue) \in Nat /\ c.scan \in 0 .. Len(c.queue)
      /\ c.scan + 1 - 1 = c.scan /\ c.scan + 1 # 0
  BY DEF QueueSound
<1> HIDE DEF r
<1>3. OrderedTo(r, c.scan)
  BY <1>1 DEF OrderedTo
<1>4. CASE c.scan < Len(c.queue) /\ r.at = "scan" /\ r.scan = c.scan + 1
  BY <1>2, <1>3, <1>4 DEF QueueOrdered, Searching, r
<1>5. CASE c.scan = Len(c.queue) /\ r.at \in {"target", "rest"}
  BY <1>1, <1>3, <1>5 DEF QueueOrdered, Searching, r
<1> QED
  BY <1>1, <1>4, <1>5

\* What is before the call only gets less.
LEMMA DoomedShrinks ==
  ASSUME NEW d, NEW e, NEW made, NEW c, NEW r, DOMAIN e.tree \subseteq DOMAIN d.tree \cup made,
         e.start = d.start, e.denied = d.denied, e.descriptors # 0 => d.descriptors # 0,
         r.path = c.path, r.error = "SUCCESS" => c.error = "SUCCESS"
  PROVE  Doomed(e, made, r) \subseteq Doomed(d, made, c)
<1>1. Lasting(e, r.path) = Lasting(d, c.path)
  BY DEF Lasting, ShutIn, Unreadable
<1> QED
  BY <1>1 DEF Doomed

\* What stays was there at the start.
LEMMA LastingIsThere ==
  ASSUME NEW d, IsTree(d.start), NEW path
  PROVE  Lasting(d, path) \subseteq DOMAIN d.start /\ Lasting(d, path) \subseteq Paths \ {<<>>}
BY DEF Lasting, ShutIn, IsTree

\* All that lies beneath a doomed entry is doomed.
PartsClosed(made) ==
  \A p \in made, q \in Paths \ {<<>>} : Beneath(p, q) => p \in Paths /\ q \in made
\* What lies in something doomed is doomed with it.
LEMMA DoomedBelow ==
  ASSUME NEW d, IsTree(d.tree), NEW made, PartsClosed(made), NEW c, c.path \in Paths,
         NEW p \in Doomed(d, made, c), NEW g \in DOMAIN d.tree, Beneath(g, p),
         IsTree(d.start)
  PROVE  g \in Doomed(d, made, c)
<1>1. g \in Paths \ {<<>>} /\ p \in Paths \ {<<>>} /\ Beneath(p, c.path)
  BY DEF Doomed, IsTree
<1>2. Beneath(g, c.path)
  BY <1>1, BeneathOrder
<1>3. g \notin made
  BY <1>1 DEF Doomed, PartsClosed
<1>4. ASSUME NEW q \in Lasting(d, c.path), Beneath(q, g) PROVE Beneath(q, p)
  BY <1>1, <1>4, BeneathOrder, LastingIsThere
<1> QED
  BY <1>2, <1>3, <1>4 DEF Doomed

\* What was found in the item at hand is put behind all that was found before.
LEMMA ExtendedOrdered ==
  ASSUME NEW c, QueueSound(c), OrderedTo(c, c.scan - 1), c.scan = 0 => c.queue = <<>>,
         NEW more \in Seq(Paths),
         \A m \in 1 .. Len(more) : \E name \in Component : more[m] = Append(ScanNext(c), name),
         \A m, o \in 1 .. Len(more) : m # o => more[m] # more[o]
  PROVE  OrderedTo([c EXCEPT !.queue = @ \o more], c.scan)
<1> DEFINE r == [c EXCEPT !.queue = @ \o more]
           f == ScanNext(c)
           n == Len(c.queue)
<1>1. /\ QueueSound(r) /\ r.path = c.path /\ r.scan = c.scan /\ Len(r.queue) = n + Len(more)
      /\ \A m \in 1 .. n : r.queue[m] = c.queue[m]
      /\ \A m \in 1 .. Len(r.queue) : m > n => m - n \in 1 .. Len(more) /\ r.queue[m] = more[m - n]
  BY ExtendedFacts
<1>2. n \in Nat /\ Len(more) \in Nat /\ c.scan \in 0 .. n /\ f \in Paths \ {<<>>}
  BY ScanNextFacts DEF QueueSound
<1>3. /\ c.scan = 0 => f = c.path /\ n = 0
      /\ c.scan # 0 => c.scan \in 1 .. n /\ f = c.queue[c.scan] /\ f # c.path
  BY ScanNextFacts DEF QueueSound
<1>4. \A m \in 1 .. Len(more) : Front(more[m]) = f
  <2> SUFFICES ASSUME NEW m \in 1 .. Len(more) PROVE Front(more[m]) = f
    OBVIOUS
  <2>1. PICK name \in Component : more[m] = Append(f, name)
    OBVIOUS
  <2> QED
    BY <1>2, <2>1, AppendFacts
<1>5. \A m \in 1 .. n : Front(c.queue[m]) # f
  <2> SUFFICES ASSUME NEW m \in 1 .. n, Front(c.queue[m]) = f PROVE FALSE
    OBVIOUS
  <2>1. c.scan \in 1 .. n /\ f = c.queue[c.scan] /\ f # c.path
    BY <1>2, <1>3
  <2>2. PICK o \in 1 .. n : o <= c.scan - 1 /\ c.queue[o] = f
    BY <2>1 DEF OrderedTo
  <2>3. o # c.scan
    BY <2>1, <2>2
  <2> QED
    BY <2>1, <2>2, <2>3 DEF OrderedTo
<1> HIDE DEF r, f
<1>9. \A m \in 1 .. Len(r.queue) : m <= n \/ m > n
  BY <1>1, <1>2
<1> HIDE DEF n
<1>6. ASSUME NEW m \in 1 .. Len(r.queue), NEW o \in 1 .. Len(r.queue), m # o
      PROVE  r.queue[m] # r.queue[o]
  <2>1. CASE m <= n /\ o <= n
    <3>1. m \in 1 .. n /\ o \in 1 .. n
      BY <1>2, <2>1
    <3> QED
      BY <1>1, <1>6, <3>1 DEF OrderedTo, n
  <2>2. CASE m > n /\ o > n
    <3>1. m - n \in 1 .. Len(more) /\ o - n \in 1 .. Len(more) /\ m - n # o - n
      BY <1>1, <1>2, <1>6, <2>2
    <3>2. r.queue[m] = more[m - n] /\ r.queue[o] = more[o - n]
      BY <1>1, <2>2
    <3> QED
      BY <3>1, <3>2
  <2>3. CASE m <= n /\ o > n
    <3>1. m \in 1 .. n /\ o - n \in 1 .. Len(more) /\ r.queue[o] = more[o - n]
      BY <1>1, <1>2, <2>3
    <3>2. Front(r.queue[o]) = f /\ Front(r.queue[m]) # f
      BY <1>1, <1>4, <1>5, <3>1
    <3> QED
      BY <3>2
  <2>4. CASE m > n /\ o <= n
    <3>1. o \in 1 .. n /\ m - n \in 1 .. Len(more) /\ r.queue[m] = more[m - n]
      BY <1>1, <1>2, <2>4
    <3>2. Front(r.queue[m]) = f /\ Front(r.queue[o]) # f
      BY <1>1, <1>4, <1>5, <3>1
    <3> QED
      BY <3>2
  <2> QED
    BY <1>9, <2>1, <2>2, <2>3, <2>4
<1>7. ASSUME NEW o \in 1 .. Len(r.queue)
      PROVE  \/ Front(r.queue[o]) = r.path
             \/ \E m \in 1 .. Len(r.queue) :
                  m < o /\ m <= c.scan /\ r.queue[m] = Front(r.queue[o])
  <2>1. CASE o <= n
    <3>1. o \in 1 .. n
      BY <1>2, <2>1
    <3>2. \/ Front(c.queue[o]) = c.path
          \/ \E m \in 1 .. n : m < o /\ m <= c.scan - 1 /\ c.queue[m] = Front(c.queue[o])
      BY <3>1 DEF OrderedTo, n
    <3>3. CASE Front(c.queue[o]) = c.path
      BY <1>1, <3>1, <3>3
    <3>4. ASSUME NEW m \in 1 .. n, m < o, m <= c.scan - 1, c.queue[m] = Front(c.queue[o])
          PROVE  \E k \in 1 .. Len(r.queue) :
                   k < o /\ k <= c.scan /\ r.queue[k] = Front(r.queue[o])
      <4>1. m \in 1 .. Len(r.queue) /\ m <= c.scan /\ r.queue[m] = Front(r.queue[o])
        BY <1>1, <1>2, <3>1, <3>4
      <4> QED
        BY <3>4, <4>1
    <3> QED
      BY <3>2, <3>3, <3>4
  <2>2. CASE o > n
    <3>1. o - n \in 1 .. Len(more) /\ r.queue[o] = more[o - n]
      BY <1>1, <2>2
    <3>2. Front(r.queue[o]) = f
      BY <1>4, <3>1
    <3>3. CASE c.scan = 0
      BY <1>1, <1>3, <3>2, <3>3
    <3>4. CASE c.scan # 0
      <4>1. c.scan \in 1 .. Len(r.queue) /\ c.scan < o /\ r.queue[c.scan] = f
        BY <1>1, <1>2, <1>3, <2>2, <3>4
      <4> QED
        BY <1>2, <3>2, <4>1
    <3> QED
      BY <3>3, <3>4
  <2> QED
    BY <1>9, <2>1, <2>2
<1>8. OrderedTo(r, c.scan)
  BY <1>6, <1>7 DEF OrderedTo
<1> QED
  BY <1>8 DEF r

\* A search that went further knows no less.
LEMMA OrderedFurther ==
  ASSUME NEW c, QueueSound(c), NEW n \in Int, NEW k \in Int, n <= k, OrderedTo(c, n)
  PROVE  OrderedTo(c, k)
<1>1. \A m \in 1 .. Len(c.queue) : m <= n => m <= k
  BY DEF QueueSound
<1> QED
  BY <1>1 DEF OrderedTo

\* The links and folders that a call meets are found under their own paths.
Plain(tree, c) == \A q \in Sought(c) : WayOpen(tree, q) => EntryAt(tree, q) = q

\* A search keeps the queue in order.
LEMMA ScanOrdered ==
  ASSUME NEW d, IsTree(d.tree), NEW c, RemoverSound(c), c.at = "scan", Plain(d.tree, c),
         QueueOrdered(c), NEW r \in ScanResults(d, c)
  PROVE  QueueOrdered(r)
<1> DEFINE result == ListFolder(d, ScanNext(c))
<1>0. QueueSound(c) /\ ScanNext(c) \in Paths \ {<<>>} /\ ScanNext(c) \in Sought(c)
  BY ScanNextFacts DEF RemoverSound, Sought
<1>1. OrderedTo(c, c.scan - 1) /\ (c.scan = 0 => c.queue = <<>>)
  BY DEF QueueOrdered, Searching
<1>2. c.scan \in Int /\ c.scan - 1 \in Int /\ c.scan - 1 <= c.scan /\ c.scan <= Len(c.queue)
      /\ Len(c.queue) \in Int /\ c.scan - 1 <= Len(c.queue)
  BY <1>0 DEF QueueSound
<1>3. CASE result = "SUCCESS"
  <2>1. PICK more \in Listings(d, ScanNext(c)) : r = ToNext([c EXCEPT !.queue = @ \o more])
    BY <1>3 DEF ScanResults
  <2> DEFINE e == [c EXCEPT !.queue = @ \o more]
  <2>2. /\ more \in Seq(Paths)
        /\ \A m \in 1 .. Len(more) : \E name \in Component : more[m] = Append(ScanNext(c), name)
    BY <1>0, ListingFacts
  <2>3. EntryAt(d.tree, ScanNext(c)) = ScanNext(c)
    BY <1>0, <1>3, ListedIsFolder DEF Plain
  <2>4. \A m, o \in 1 .. Len(more) : m # o => more[m] # more[o]
    BY <1>0, <2>3, ListingIsNames
  <2>5. QueueSound(e) /\ e.scan = c.scan
    BY <1>0, <2>2, ExtendedFacts
  <2>6. OrderedTo(e, c.scan)
    BY <1>0, <1>1, <2>2, <2>4, ExtendedOrdered
  <2> HIDE DEF e
  <2>7. r = ToNext(e)
    BY <2>1 DEF e
  <2> QED
    BY <2>5, <2>6, <2>7, ToNextOrdered
<1>4. CASE result = "TARGETNOTADIRECTORY" /\ c.scan = 0
  <2>1. r = Ended(c, result)
    BY <1>4 DEF ScanResults
  <2>2. RemoverSound(r) /\ r.path = c.path /\ r.queue = c.queue /\ r.at = "done"
    BY <1>0, <2>1, EndedFacts
  <2>3. OrderedTo(c, Len(c.queue))
    BY <1>0, <1>1, <1>2, OrderedFurther
  <2> QED
    BY <2>2, <2>3 DEF QueueOrdered, Searching, OrderedTo
<1>5. CASE /\ result \in {"TARGETNOTADIRECTORY", "SYMLINKSWEREEXCLUDED"}
           /\ ~(result = "TARGETNOTADIRECTORY" /\ c.scan = 0)
  <2>1. r = [c EXCEPT !.at = "item"]
    BY <1>5 DEF ScanResults
  <2>2. /\ IsRemover(r) /\ r.path = c.path /\ r.queue = c.queue /\ r.scan = c.scan /\ r.at = "item"
    BY <1>0, <2>1 DEF QueueSound, IsRemover
  <2> QED
    BY <1>1, <2>2 DEF QueueOrdered, Searching, OrderedTo
<1>6. CASE result \notin {"SUCCESS", "TARGETNOTADIRECTORY", "SYMLINKSWEREEXCLUDED"}
  <2> DEFINE e == Noting(c, result)
  <2>1. r = ToNext(e)
    BY <1>6 DEF ScanResults
  <2>2. QueueSound(e) /\ e.path = c.path /\ e.queue = c.queue /\ e.scan = c.scan
    BY <1>0, NotingFacts
  <2>3. OrderedTo(c, c.scan)
    BY <1>0, <1>1, <1>2, OrderedFurther
  <2> HIDE DEF e
  <2>4. OrderedTo(e, e.scan)
    BY <2>2, <2>3 DEF OrderedTo
  <2> QED
    BY <2>1, <2>2, <2>4, ToNextOrdered
<1> QED
  BY <1>3, <1>4, <1>5, <1>6

\* What a path leads to cannot be opened.
Closed(tree, p) == p \in DOMAIN tree /\ tree[p] \in AnyFolder \cup AnyFile /\ tree[p].open # "OK"
Locked(tree, path) == WayOpen(tree, path) /\ Closed(tree, EntryAt(tree, path))

\* Why a folder was not listed.
LEMMA ListResults ==
  ASSUME NEW d, IsTree(d.tree), NEW path \in Paths \ {<<>>}
  PROVE  LET result == ListFolder(d, path)
             kind   == KindAt(d.tree, EntryAt(d.tree, path))
         IN /\ result \in {"TARGETNOTADIRECTORY", "SYMLINKSWEREEXCLUDED"} =>
                  WayOpen(d.tree, path) /\ d.descriptors # 0
            /\ result = "TARGETNOTADIRECTORY" =>
                  kind = "file" /\ d.tree[EntryAt(d.tree, path)].open = "OK"
            /\ result = "SYMLINKSWEREEXCLUDED" => kind = "link"
            /\ result \notin {"SUCCESS", "TARGETNOTADIRECTORY", "SYMLINKSWEREEXCLUDED"} =>
                  \/ result = "OUTOFFDS" /\ d.descriptors = 0
                  \/ /\ result = "OTHERERROR" /\ d.descriptors # 0
                     /\ WayError(d.tree, path) # "OK" \/ kind = "none"
                  \/ /\ result = "NOPERMISSION" /\ d.descriptors # 0 /\ Locked(d.tree, path)
<1>1. WayError(d.tree, path) = "OK" <=> WayOpen(d.tree, path)
  BY EntryFacts
<1>2. WayError(d.tree, path) \in {"OK", "ENOTDIR", "ENOENT"}
  BY EntryFacts
<1> DEFINE at == EntryAt(d.tree, path)
           kind == KindAt(d.tree, at)
<1>3. CASE d.descriptors = 0 \/ WayError(d.tree, path) # "OK" \/ kind \in {"none", "link"}
  BY <1>1, <1>2, <1>3 DEF ListFolder, OpenErrno
<1>4. CASE d.descriptors # 0 /\ WayError(d.tree, path) = "OK" /\ kind \notin {"none", "link"}
  <2>1. at \in Paths \ {<<>>}
    BY EntryFacts
  <2>2. at \in DOMAIN d.tree /\ d.tree[at].k = kind
    BY <1>4, <2>1, KindFacts
  <2>3. d.tree[at] \in AnyFolder \cup AnyFile
    <3>1. d.tree[at] \in AnyFolder \cup AnyFile \/ d.tree[at] = LinkTo(d.tree[at].to)
      BY <2>2 DEF IsTree
    <3> QED
      BY <1>4, <2>2, <3>1, LinkFacts
  <2>4. d.tree[at].open \in {"OK", "EACCES"} /\ kind \in {"dir", "file"}
    BY <2>2, <2>3, NoLinkFacts
  <2>5. OpenErrno(d, path) = d.tree[at].open
    BY <1>4 DEF OpenErrno
  <2>6. CASE d.tree[at].open = "OK"
    BY <1>1, <1>4, <2>4, <2>5, <2>6 DEF ListFolder
  <2>7. CASE d.tree[at].open = "EACCES"
    <3>1. Locked(d.tree, path)
      BY <1>1, <1>4, <2>2, <2>3, <2>7 DEF Locked, Closed
    <3>2. ListFolder(d, path) = "NOPERMISSION"
      BY <2>5, <2>7 DEF ListFolder
    <3> QED
      BY <1>4, <3>1, <3>2
  <2> QED
    BY <2>4, <2>6, <2>7
<1> QED
  BY <1>3, <1>4

\* Without descriptors nothing is opened, and none is lost.
LEMMA ListDescriptors ==
  ASSUME NEW d, NEW path
  PROVE  d.descriptors = 0 => AfterList(d, path) = d
BY DEF AfterList, ListFolder, OpenErrno

\* What the model of the disk always has: only folders are made, and only where they are
\* asked for.
Steady(d, made) ==
  /\ IsDisk(d) /\ IsTree(d.tree) /\ IsTree(d.start) /\ OnlyFoldersMade(d) /\ PartsClosed(made)
  /\ \A p \in DOMAIN d.tree : p \in DOMAIN d.start \/ p \in made

\* What was found stays found, and what lies in the folder at hand is behind it.
LEMMA ListedBehind ==
  ASSUME NEW d, IsTree(d.tree), NEW c, QueueSound(c), NEW more \in Listings(d, ScanNext(c)),
         EntryAt(d.tree, ScanNext(c)) = ScanNext(c),
         NEW p \in DOMAIN d.tree, Behind(c, p) \/ Beneath(p, ScanNext(c))
  PROVE  Behind([c EXCEPT !.queue = @ \o more], p)
<1> DEFINE r == [c EXCEPT !.queue = @ \o more]
           f == ScanNext(c)
           n == Len(c.queue)
<1>0. f \in Paths \ {<<>>} /\ p \in Paths
  BY ScanNextFacts DEF IsTree
<1>1. /\ more \in Seq(Paths)
      /\ \A m \in 1 .. Len(more) : \E name \in Component : more[m] = Append(f, name)
  BY <1>0, ListingFacts
<1>2. /\ QueueSound(r) /\ r.path = c.path /\ r.scan = c.scan /\ Len(r.queue) = n + Len(more)
      /\ \A m \in 1 .. n : r.queue[m] = c.queue[m]
      /\ \A m \in 1 .. Len(r.queue) : m > n => m - n \in 1 .. Len(more) /\ r.queue[m] = more[m - n]
  BY <1>1, ExtendedFacts
<1>3. n \in Nat /\ Len(more) \in Nat /\ c.scan \in 0 .. n
  BY <1>1 DEF QueueSound
<1>4. \A g \in Names(d.tree, f) : \E m \in 1 .. Len(more) : more[m] = g
  BY <1>0, ListingIsNames
<1>5. /\ c.scan = 0 => f = c.path
      /\ c.scan # 0 => c.scan \in 1 .. n /\ f = c.queue[c.scan]
  BY ScanNextFacts
<1> HIDE DEF r, f
<1>6. \A m \in 1 .. n : m \in 1 .. Len(r.queue) /\ r.queue[m] = c.queue[m]
  BY <1>2, <1>3
<1>7. CASE Behind(c, p)
  BY <1>2, <1>6, <1>7 DEF Behind, r
<1>8. CASE p = f
  BY <1>2, <1>5, <1>6, <1>8 DEF Behind, r
<1>9. CASE Beneath(p, f) /\ p # f
  <2>1. PICK g \in Names(d.tree, f) : Beneath(p, g)
    BY <1>0, <1>9, ChildBetween
  <2>2. PICK o \in 1 .. Len(more) : more[o] = g
    BY <1>4
  <2>3. n + o \in 1 .. Len(r.queue) /\ n + o > n /\ (n + o) - n = o /\ n + o > c.scan
    BY <1>2, <1>3
  <2>4. r.queue[n + o] = g
    BY <1>2, <2>2, <2>3
  <2> QED
    BY <1>2, <2>1, <2>3, <2>4 DEF Behind, r
<1> QED
  BY <1>7, <1>8, <1>9 DEF f

\* Nothing in a folder that cannot be listed is doomed after an error.
LEMMA LockedIsUnreadable ==
  ASSUME NEW d, OnlyFoldersMade(d), NEW f, Locked(d.tree, f), EntryAt(d.tree, f) = f
  PROVE  f \in Unreadable(d) /\ f \in DOMAIN d.tree /\ d.start[f] = d.tree[f]
<1>1. f \in DOMAIN d.tree /\ d.tree[f] \in AnyFolder \cup AnyFile /\ d.tree[f].open # "OK"
  BY DEF Locked, Closed
<1>2. f \in DOMAIN d.start /\ d.start[f] = d.tree[f] /\ d.start[f].k # "link"
  BY <1>1, NoLinkFacts DEF OnlyFoldersMade
<1> QED
  BY <1>1, <1>2 DEF Unreadable

LEMMA LockedKeeps ==
  ASSUME NEW d, NEW made, Steady(d, made), NEW c, QueueSound(c), NEW f \in Sought(c),
         Plain(d.tree, c), Locked(d.tree, f), NEW e, e.start = d.start, e.denied = d.denied,
         NEW r, r.path = c.path, r.error # "SUCCESS", NEW p \in Doomed(e, made, r), p \in DOMAIN d.tree,
         p # f
  PROVE  ~Beneath(p, f)
<1> SUFFICES ASSUME Beneath(p, f) PROVE FALSE
  OBVIOUS
<1>1. EntryAt(d.tree, f) = f
  BY DEF Plain, Locked
<1>2. f \in Unreadable(d)
  BY <1>1, LockedIsUnreadable DEF Steady
<1>3. Beneath(f, c.path)
  BY PathFacts, BeneathFacts DEF Sought, QueueSound
<1>4. p \in DOMAIN d.start /\ p \in Paths
  BY DEF Doomed, Steady, IsTree
<1>5. p \in Lasting(e, r.path)
  BY <1>2, <1>3, <1>4 DEF Lasting, ShutIn, Unreadable
<1>6. Beneath(p, p)
  BY <1>4, BeneathFacts
<1> QED
  BY <1>5, <1>6 DEF Doomed

\* What was covered before a search is covered after it.
LEMMA ScanCovers ==
  ASSUME NEW d, NEW made, Steady(d, made), NEW c, RemoverSound(c), c.at = "scan",
         Plain(d.tree, c), Covered(d, made, c), KindAt(d.start, c.path) # "file",
         NEW r \in ScanResults(d, c)
  PROVE  Covered(AfterList(d, ScanNext(c)), made, r)
<1> DEFINE f == ScanNext(c)
           result == ListFolder(d, f)
           e == AfterList(d, f)
<1>0. /\ QueueSound(c) /\ f \in Paths \ {<<>>} /\ f \in Sought(c)
      /\ IsDisk(d) /\ IsTree(d.tree)
  BY ScanNextFacts DEF RemoverSound, Sought, Steady
<1>1. e.tree = d.tree /\ e.start = d.start /\ e.denied = d.denied
  BY <1>0, ListFacts
<1>2. d.descriptors = 0 => e.descriptors = 0
  BY ListDescriptors
<1>3. ASSUME r.path = c.path, r.error = "SUCCESS" => c.error = "SUCCESS",
             NEW p \in Doomed(e, made, r)
      PROVE  p \in Doomed(d, made, c) /\ (Behind(c, p) \/ Beneath(p, f)) /\ p \in DOMAIN d.tree
  <2>1. p \in Doomed(d, made, c)
    <3>1. Doomed(e, made, r) \subseteq Doomed(d, made, c)
      BY <1>1, <1>2, <1>3, DoomedShrinks
    <3> QED
      BY <1>3, <3>1
  <2> QED
    BY <2>1 DEF Covered, Covers, Doomed
<1>4. /\ result \in {"TARGETNOTADIRECTORY", "SYMLINKSWEREEXCLUDED"} =>
            WayOpen(d.tree, f) /\ d.descriptors # 0
      /\ result = "TARGETNOTADIRECTORY" => KindAt(d.tree, EntryAt(d.tree, f)) = "file"
      /\ result = "SYMLINKSWEREEXCLUDED" => KindAt(d.tree, EntryAt(d.tree, f)) = "link"
      /\ result \notin {"SUCCESS", "TARGETNOTADIRECTORY", "SYMLINKSWEREEXCLUDED"} =>
            \/ result = "OUTOFFDS" /\ d.descriptors = 0
            \/ /\ result = "OTHERERROR" /\ d.descriptors # 0
               /\ WayError(d.tree, f) # "OK" \/ KindAt(d.tree, EntryAt(d.tree, f)) = "none"
            \/ result = "NOPERMISSION" /\ d.descriptors # 0 /\ Locked(d.tree, f)
  BY <1>0, ListResults
<1> HIDE DEF e
<1>5. CASE result = "SUCCESS"
  <2>1. PICK more \in Listings(d, f) : r = ToNext([c EXCEPT !.queue = @ \o more])
    BY <1>5 DEF ScanResults
  <2> DEFINE a == [c EXCEPT !.queue = @ \o more]
  <2>2. /\ more \in Seq(Paths)
        /\ \A m \in 1 .. Len(more) : \E name \in Component : more[m] = Append(f, name)
    BY <1>0, ListingFacts
  <2>3. EntryAt(d.tree, f) = f
    BY <1>0, <1>5, ListedIsFolder DEF Plain
  <2>4. QueueSound(a) /\ a.path = c.path /\ a.error = c.error
    BY <1>0, <2>2, ExtendedFacts
  <2>5. r = ToNext(a)
    BY <2>1
  <2>6. \A p \in DOMAIN d.tree : Behind(c, p) \/ Beneath(p, f) => Behind(a, p)
    BY <1>0, <2>3, ListedBehind
  <2> HIDE DEF a
  <2>7. r.path = c.path /\ r.error = c.error
    BY <2>4, <2>5, ToNextFacts
  <2>8. ASSUME NEW p \in Doomed(e, made, r) PROVE Covers(r, p) /\ r.at # "item"
    <3>1. p \in DOMAIN d.tree /\ (Behind(c, p) \/ Beneath(p, f))
      BY <1>3, <2>7, <2>8
    <3>2. Behind(a, p)
      BY <2>6, <3>1
    <3> QED
      BY <2>4, <2>5, <3>2, ToNextCovers
  <2> QED
    BY <2>8 DEF Covered, e
<1>6. CASE result = "TARGETNOTADIRECTORY" /\ c.scan = 0
  <2>1. f = c.path
    BY <1>0, <1>6, ScanNextFacts
  <2>2. EntryAt(d.tree, f) = f /\ KindAt(d.tree, f) = "file"
    BY <1>0, <1>4, <1>6 DEF Plain
  <2>3. f \in DOMAIN d.tree /\ d.tree[f].k = "file"
    BY <1>0, <2>2, KindFacts
  <2>4. f \in DOMAIN d.start /\ d.start[f].k = "file"
    BY <2>3, NoLinkFacts DEF Steady, OnlyFoldersMade
  <2>5. KindAt(d.start, f) = "file"
    BY <1>0, <2>4 DEF KindAt
  <2> QED
    BY <2>1, <2>5
<1>7. CASE /\ result \in {"TARGETNOTADIRECTORY", "SYMLINKSWEREEXCLUDED"}
           /\ ~(result = "TARGETNOTADIRECTORY" /\ c.scan = 0)
  <2>1. r = [c EXCEPT !.at = "item"]
    BY <1>7 DEF ScanResults
  <2>2. /\ r.path = c.path /\ r.queue = c.queue /\ r.scan = c.scan /\ r.at = "item"
        /\ r.error = c.error
    BY <1>0, <2>1 DEF QueueSound, IsRemover
  <2>3. ScanNext(r) = f /\ Searching(r)
    BY <2>2 DEF ScanNext, Searching
  <2>4. EntryAt(d.tree, f) = f /\ KindAt(d.tree, f) \in {"file", "link"}
    BY <1>0, <1>4, <1>7 DEF Plain
  <2>5. ASSUME NEW p \in Doomed(e, made, r)
        PROVE  Covers(r, p) /\ (Beneath(p, f) => p = f /\ KindAt(e.tree, p) # "dir")
    <3>1. p \in DOMAIN d.tree /\ (Behind(c, p) \/ Beneath(p, f))
      BY <1>3, <2>2, <2>5
    <3>2. p \in Paths
      BY <1>0, <3>1 DEF IsTree
    <3>3. Beneath(p, f) => p = f
      BY <1>0, <2>4, <3>1, <3>2, ChildBetween
    <3>4. Covers(r, p)
      BY <2>2, <2>3, <3>1 DEF Covers, Behind
    <3> QED
      BY <1>1, <2>4, <3>3, <3>4
  <2> QED
    BY <2>3, <2>5 DEF Covered, e
<1>8. CASE result \notin {"SUCCESS", "TARGETNOTADIRECTORY", "SYMLINKSWEREEXCLUDED"}
  <2> DEFINE a == Noting(c, result)
  <2>1. r = ToNext(a)
    BY <1>8 DEF ScanResults
  <2>2. /\ QueueSound(a) /\ a.path = c.path /\ a.queue = c.queue /\ a.scan = c.scan
        /\ a.error = IF c.error = "SUCCESS" /\ result # "NOSUCHTARGET" THEN result ELSE c.error
    BY <1>0, NotingFacts
  <2> HIDE DEF a
  <2>3. r.path = c.path /\ r.error = a.error /\ a.error # "SUCCESS"
    BY <1>4, <1>8, <2>1, <2>2, ToNextFacts
  <2>4. CASE d.descriptors = 0
    <3>1. Doomed(e, made, r) = {}
      BY <1>2, <2>3, <2>4 DEF Doomed
    <3> QED
      BY <3>1 DEF Covered, e
  <2>5. CASE WayError(d.tree, f) # "OK" \/ KindAt(d.tree, EntryAt(d.tree, f)) = "none"
    <3>1. ASSUME NEW p \in Doomed(e, made, r) PROVE Covers(r, p) /\ r.at # "item"
      <4>1. p \in DOMAIN d.tree /\ (Behind(c, p) \/ Beneath(p, f))
        BY <1>3, <2>3, <3>1
      <4>2. ~Beneath(p, f)
        <5>1. SUFFICES ASSUME Beneath(p, f) PROVE FALSE
          OBVIOUS
        <5>2. p \in Paths
          BY <1>0, <4>1 DEF IsTree
        <5>3. f \in DOMAIN d.tree
          BY <1>0, <4>1, <5>1, <5>2, PartsInTree
        <5>4. WayError(d.tree, f) = "OK" /\ EntryAt(d.tree, f) = f
          BY <1>0, <5>3, EntryInTree
        <5>5. KindAt(d.tree, f) # "none"
          BY <1>0, <5>3, KindFacts
        <5> QED
          BY <2>5, <5>4, <5>5
      <4>3. Behind(a, p)
        BY <2>2, <4>1, <4>2 DEF Behind
      <4> QED
        BY <2>1, <2>2, <4>3, ToNextCovers
    <3> QED
      BY <3>1 DEF Covered, e
  <2>6. CASE d.descriptors # 0 /\ Locked(d.tree, f)
    <3>1. ASSUME NEW p \in Doomed(e, made, r) PROVE Covers(r, p) /\ r.at # "item"
      <4>1. p \in DOMAIN d.tree /\ (Behind(c, p) \/ Beneath(p, f)) /\ p \notin made
        BY <1>3, <2>3, <3>1 DEF Doomed
      <4>2. p # f => ~Beneath(p, f)
        <5>1. e.start = d.start /\ e.denied = d.denied
          BY <1>1 DEF e
        <5> QED
          BY <1>0, <2>3, <2>6, <3>1, <4>1, <5>1, LockedKeeps
      <4>3. Behind(c, f)
        BY <1>0, ScanNextFacts DEF Behind
      <4>4. Behind(a, p)
        BY <2>2, <4>1, <4>2, <4>3 DEF Behind
      <4> QED
        BY <2>1, <2>2, <4>4, ToNextCovers
    <3> QED
      BY <3>1 DEF Covered, e
  <2> QED
    BY <1>4, <1>8, <2>4, <2>5, <2>6
<1> QED
  BY <1>5, <1>6, <1>7, <1>8

\* Removing takes things away, and changes nothing else.
LEMMA RemoveShrinks ==
  ASSUME NEW d, IsDisk(d), IsTree(d.tree), NEW f \in Paths \ {<<>>}
  PROVE  LET e == AfterRemove(d, f)
         IN /\ DOMAIN e.tree \subseteq DOMAIN d.tree /\ e.start = d.start /\ e.denied = d.denied
            /\ e.descriptors = d.descriptors /\ e.calls = d.calls
            /\ \A p \in DOMAIN e.tree : e.tree[p] = d.tree[p]
<1> DEFINE e == AfterRemove(d, f)
           at == EntryAt(d.tree, f)
<1>1. /\ e.start = d.start /\ e.denied = d.denied /\ e.calls = d.calls
      /\ e.descriptors = d.descriptors
      /\ RemoveErrno(d, f) = "OK" =>
            /\ DOMAIN e.tree = DOMAIN d.tree \ {at}
            /\ \A p \in DOMAIN d.tree \ {at} : e.tree[p] = d.tree[p]
      /\ RemoveErrno(d, f) # "OK" => e.tree = d.tree
  BY RemoveFacts
<1> QED
  BY <1>1

\* A doomed entry in which nothing is doomed is not before the call when it was tried.
LEMMA TriedIsGone ==
  ASSUME NEW d, NEW made, Steady(d, made), NEW c, QueueSound(c), NEW f \in Paths \ {<<>>},
         NEW r, r.path = c.path, r.error = Noting(c, RemoveFileOrEmptyDir(d, f)).error,
         f \in Doomed(d, made, c) => \A g \in Names(d.tree, f) : g \notin Doomed(d, made, c)
  PROVE  /\ f \notin Doomed(AfterRemove(d, f), made, r)
         /\ Doomed(AfterRemove(d, f), made, r) \subseteq Doomed(d, made, c)
<1> DEFINE e == AfterRemove(d, f)
           result == RemoveFileOrEmptyDir(d, f)
<1>0. IsDisk(d) /\ IsTree(d.tree) /\ IsTree(d.start) /\ PartsClosed(made) /\ c.path \in Paths
  BY DEF Steady, QueueSound
<1>1. /\ DOMAIN e.tree \subseteq DOMAIN d.tree /\ e.start = d.start /\ e.denied = d.denied
      /\ e.descriptors = d.descriptors
  BY <1>0, RemoveShrinks
<1>2. r.error = IF c.error = "SUCCESS" /\ result # "NOSUCHTARGET" THEN result ELSE c.error
  BY NotingFacts
<1>3. /\ RemoveErrno(d, f) = "OK" => DOMAIN e.tree = DOMAIN d.tree \ {EntryAt(d.tree, f)}
  BY <1>0, RemoveFacts
<1> HIDE DEF e
<1>4. Doomed(e, made, r) \subseteq Doomed(d, made, c)
  <2>1. r.error = "SUCCESS" => c.error = "SUCCESS"
    BY <1>2
  <2> QED
    BY <1>1, <2>1, DoomedShrinks
<1>5. f \notin Doomed(e, made, r)
  <2>1. SUFFICES ASSUME f \in Doomed(e, made, r) PROVE FALSE
    OBVIOUS
  <2>2. f \in Doomed(d, made, c) /\ f \in DOMAIN d.tree /\ f \in DOMAIN e.tree /\ f \notin made
    BY <1>4, <2>1 DEF Doomed
  <2>3. WayError(d.tree, f) = "OK" /\ EntryAt(d.tree, f) = f
    BY <1>0, <2>2, EntryInTree
  <2>4. KindAt(d.tree, f) # "none"
    BY <1>0, <2>2, KindFacts
  <2>5. ASSUME NEW g \in Names(d.tree, f) PROVE FALSE
    <3>1. g \in DOMAIN d.tree /\ Front(g) = f
      BY <1>0, <2>5, NamesFacts
    <3>2. g \in Paths \ {<<>>}
      BY <1>0, <3>1 DEF IsTree
    <3>3. Beneath(g, f)
      BY <3>1, <3>2, BeneathFacts
    <3>5. g \in Doomed(d, made, c)
      BY <1>0, <2>2, <3>1, <3>3, DoomedBelow
    <3> QED
      BY <2>2, <2>5, <3>5
  <2>6. Names(d.tree, f) = {}
    BY <2>5
  <2>7. RemoveErrno(d, f) = IF f \in d.denied THEN "EACCES" ELSE "OK"
    BY <2>3, <2>4, <2>6 DEF RemoveErrno
  <2>8. f \in d.denied
    BY <1>3, <2>2, <2>3, <2>7
  <2>9. result = "NOPERMISSION"
    BY <2>7, <2>8 DEF RemoveFileOrEmptyDir
  <2>10. r.error # "SUCCESS"
    BY <1>2, <2>9
  <2>11. f \in d.denied \cap DOMAIN d.start
    BY <2>2, <2>8 DEF Steady
  <2>12. ~Beneath(f, f)
    BY <1>1, <2>1, <2>10, <2>11 DEF Doomed, Lasting
  <2> QED
    BY <2>12, BeneathFacts
<1> QED
  BY <1>4, <1>5 DEF e

\* What stands behind in the queue stays there when the item at hand leaves it.
LEMMA UnqueuedBehind ==
  ASSUME NEW c, QueueSound(c), NEW p, Behind(c, p), p # ScanNext(c)
  PROVE  Behind(Unqueued(c), p)
<1> DEFINE r == Unqueued(c)
<1>1. /\ r.path = c.path
      /\ \/ ~(c.scan \in 1 .. Len(c.queue) - 1) /\ r = c
         \/ /\ c.scan \in 1 .. Len(c.queue) - 1 /\ r.scan = c.scan - 1
            /\ Len(r.queue) = Len(c.queue) - 1
            /\ \A m \in 1 .. Len(r.queue) :
                  r.queue[m] = c.queue[Passed(c.scan, m)]
                  /\ Passed(c.scan, m) \in 1 .. Len(c.queue)
  BY UnqueuedFacts
<1>2. Len(c.queue) \in Nat /\ c.scan \in 0 .. Len(c.queue)
  BY DEF QueueSound
<1>3. c.scan # 0 => ScanNext(c) = c.queue[c.scan]
  BY ScanNextFacts
<1> HIDE DEF r
<1>4. CASE ~(c.scan \in 1 .. Len(c.queue) - 1)
  BY <1>1, <1>4 DEF r
<1>5. CASE c.scan \in 1 .. Len(c.queue) - 1
  <2>1. /\ r.scan = c.scan - 1 /\ Len(r.queue) = Len(c.queue) - 1
        /\ \A m \in 1 .. Len(r.queue) : r.queue[m] = c.queue[Passed(c.scan, m)]
    BY <1>1, <1>5
  <2>2. ASSUME NEW m \in 1 .. Len(c.queue), m # c.scan
        PROVE  \E o \in 1 .. Len(r.queue) :
                 r.queue[o] = c.queue[m] /\ (m > c.scan => o > r.scan)
    <3>1. CASE m < c.scan
      <4>1. m \in 1 .. Len(r.queue) /\ Passed(c.scan, m) = m
        BY <1>2, <2>1, <1>5, <3>1 DEF Passed
      <4> QED
        BY <1>2, <2>1, <3>1, <4>1
    <3>2. CASE m > c.scan
      <4>1. m - 1 \in 1 .. Len(r.queue) /\ Passed(c.scan, m - 1) = m /\ m - 1 > r.scan
        BY <1>2, <2>1, <1>5, <3>2 DEF Passed
      <4>2. r.queue[m - 1] = c.queue[m]
        BY <2>1, <4>1
      <4> QED
        BY <4>1, <4>2
    <3> QED
      BY <1>2, <2>2, <3>1, <3>2
  <2>3. CASE p = c.path
    BY <1>1, <2>3 DEF Behind, r
  <2>4. ASSUME NEW m \in 1 .. Len(c.queue), p = c.queue[m] PROVE Behind(r, p)
    <3>1. m # c.scan
      BY <1>2, <1>3, <1>5, <2>4
    <3> QED
      BY <2>2, <2>4, <3>1 DEF Behind
  <2>5. ASSUME NEW m \in 1 .. Len(c.queue), m > c.scan, Beneath(p, c.queue[m]) PROVE Behind(r, p)
    <3>1. m # c.scan
      BY <1>2, <2>5
    <3>2. PICK o \in 1 .. Len(r.queue) : r.queue[o] = c.queue[m] /\ o > r.scan
      BY <2>2, <2>5, <3>1
    <3> QED
      BY <2>5, <3>2 DEF Behind
  <2> QED
    BY <2>3, <2>4, <2>5 DEF Behind, r
<1> QED
  BY <1>4, <1>5

\* The queue stays in order when an item leaves it.
LEMMA UnqueuedOrdered ==
  ASSUME NEW c, QueueSound(c), OrderedTo(c, c.scan - 1)
  PROVE  OrderedTo(Unqueued(c), Unqueued(c).scan)
<1> DEFINE r == Unqueued(c)
<1>1. /\ r.path = c.path /\ QueueSound(r)
      /\ \/ ~(c.scan \in 1 .. Len(c.queue) - 1) /\ r = c
         \/ /\ c.scan \in 1 .. Len(c.queue) - 1 /\ r.scan = c.scan - 1
            /\ Len(r.queue) = Len(c.queue) - 1
            /\ \A m \in 1 .. Len(r.queue) :
                  r.queue[m] = c.queue[Passed(c.scan, m)]
                  /\ Passed(c.scan, m) \in 1 .. Len(c.queue)
  BY UnqueuedFacts
<1>2. Len(c.queue) \in Nat /\ c.scan \in 0 .. Len(c.queue) /\ c.scan - 1 <= c.scan
      /\ c.scan \in Int /\ c.scan - 1 \in Int
  BY DEF QueueSound
<1> HIDE DEF r
<1>3. CASE ~(c.scan \in 1 .. Len(c.queue) - 1)
  <2>1. OrderedTo(c, c.scan)
    BY <1>2, OrderedFurther
  <2> QED
    BY <1>1, <1>3, <2>1 DEF r
<1>4. CASE c.scan \in 1 .. Len(c.queue) - 1
  <2>1. /\ r.scan = c.scan - 1 /\ Len(r.queue) = Len(c.queue) - 1
        /\ \A m \in 1 .. Len(r.queue) : /\ r.queue[m] = c.queue[Passed(c.scan, m)]
                                        /\ Passed(c.scan, m) \in 1 .. Len(c.queue)
    BY <1>1, <1>4
  <2>2. ASSUME NEW m \in 1 .. Len(r.queue), NEW o \in 1 .. Len(r.queue), m # o
        PROVE  r.queue[m] # r.queue[o]
    <3>1. Passed(c.scan, m) # Passed(c.scan, o)
      BY <1>2, <2>1, <2>2 DEF Passed
    <3>2. /\ Passed(c.scan, m) \in 1 .. Len(c.queue) /\ Passed(c.scan, o) \in 1 .. Len(c.queue)
          /\ r.queue[m] = c.queue[Passed(c.scan, m)] /\ r.queue[o] = c.queue[Passed(c.scan, o)]
      BY <2>1
    <3> QED
      BY <3>1, <3>2 DEF OrderedTo
  <2>3. ASSUME NEW o \in 1 .. Len(r.queue)
        PROVE  \/ Front(r.queue[o]) = r.path
               \/ \E m \in 1 .. Len(r.queue) :
                    m < o /\ m <= r.scan /\ r.queue[m] = Front(r.queue[o])
    <3> DEFINE b == Passed(c.scan, o)
    <3>1. b \in 1 .. Len(c.queue) /\ r.queue[o] = c.queue[b] /\ (o < c.scan => b = o)
      BY <2>1 DEF Passed
    <3> HIDE DEF b
    <3>2. CASE Front(c.queue[b]) = c.path
      BY <1>1, <3>1, <3>2
    <3>3. ASSUME NEW m \in 1 .. Len(c.queue), m < b, m <= c.scan - 1,
                 c.queue[m] = Front(c.queue[b])
          PROVE  \E k \in 1 .. Len(r.queue) :
                   k < o /\ k <= r.scan /\ r.queue[k] = Front(r.queue[o])
      <4>1. m \in 1 .. Len(r.queue) /\ m <= r.scan /\ Passed(c.scan, m) = m
        BY <1>2, <1>4, <2>1, <3>3 DEF Passed
      <4>2. m < o
        BY <1>2, <2>1, <3>1, <3>3
      <4>3. r.queue[m] = c.queue[m]
        BY <2>1, <4>1
      <4> QED
        BY <3>1, <3>3, <4>1, <4>2, <4>3
    <3> QED
      BY <3>1, <3>2, <3>3 DEF OrderedTo
  <2>4. OrderedTo(r, r.scan)
    BY <2>2, <2>3 DEF OrderedTo
  <2> QED
    BY <2>4 DEF r
<1> QED
  BY <1>3, <1>4

\* When it is tried to remove a doomed entry, nothing that lies in it is doomed.
Tried(d, made, c, f) ==
  f \in Doomed(d, made, c) => \A g \in Names(d.tree, f) : g \notin Doomed(d, made, c)

\* An item that is no folder holds nothing.
LEMMA ItemTried ==
  ASSUME NEW d, IsTree(d.tree), NEW made, NEW c, QueueSound(c), c.at = "item", Covered(d, made, c)
  PROVE  Tried(d, made, c, ScanNext(c))
<1> DEFINE f == ScanNext(c)
<1>0. f \in Paths \ {<<>>}
  BY ScanNextFacts
<1> SUFFICES ASSUME f \in Doomed(d, made, c), NEW g \in Names(d.tree, f) PROVE FALSE
  BY DEF Tried
<1>1. KindAt(d.tree, f) # "dir"
  BY <1>0, BeneathFacts DEF Covered
<1>2. g \in DOMAIN d.tree /\ Front(g) = f
  BY <1>0, NamesFacts
<1> QED
  BY <1>1, <1>2 DEF IsTree

\* A folder is tried when all it held is gone: that is later in the queue.
LEMMA RestTried ==
  ASSUME NEW d, IsTree(d.tree), NEW made, NEW c, RemoverSound(c), c.at = "rest",
         QueueOrdered(c), Covered(d, made, c)
  PROVE  Tried(d, made, c, c.queue[c.k])
<1> DEFINE f == c.queue[c.k]
<1>0. /\ QueueSound(c) /\ c.k \in 1 .. Len(c.queue) /\ Len(c.queue) \in Nat
      /\ c.path \in Paths \ {<<>>} /\ f # c.path /\ Beneath(f, c.path)
  BY DEF RemoverSound, QueueSound
<1>1. f \in Paths \ {<<>>}
  BY <1>0, ItemFacts
<1> HIDE DEF f
<1> SUFFICES ASSUME NEW g \in Names(d.tree, f), g \in Doomed(d, made, c) PROVE FALSE
  BY DEF Tried, f
<1>2. g \in DOMAIN d.tree /\ Front(g) = f
  BY <1>0, <1>1, NamesFacts
<1>3. g # c.path
  BY <1>0, <1>2, BeneathFacts
<1>4. PICK m \in 1 .. c.k : g = c.queue[m]
  BY <1>3 DEF Covered, Covers, Searching
<1>5. m \in 1 .. Len(c.queue) /\ m <= c.k
  BY <1>0, <1>4
<1>6. PICK o \in 1 .. Len(c.queue) : o < m /\ c.queue[o] = f
  BY <1>0, <1>2, <1>4, <1>5 DEF QueueOrdered, OrderedTo
<1>7. o # c.k
  BY <1>0, <1>5, <1>6
<1> QED
  BY <1>0, <1>6, <1>7 DEF QueueOrdered, OrderedTo, f

\* The target is tried when all it held is gone.
LEMMA TargetTried ==
  ASSUME NEW d, IsTree(d.tree), NEW made, NEW c, QueueSound(c), c.at = "target",
         Covered(d, made, c)
  PROVE  Tried(d, made, c, c.path)
<1> DEFINE f == c.path
<1>0. f \in Paths \ {<<>>}
  BY DEF QueueSound
<1> SUFFICES ASSUME NEW g \in Names(d.tree, f), g \in Doomed(d, made, c) PROVE FALSE
  BY DEF Tried
<1>1. g \in DOMAIN d.tree /\ Front(g) = f
  BY <1>0, NamesFacts
<1>2. g \in Paths \ {<<>>} /\ Beneath(f, f)
  BY <1>0, <1>1, BeneathFacts DEF IsTree
<1>3. g # f
  BY <1>1, <1>2, BeneathFacts
<1> QED
  BY <1>3 DEF Covered, Covers, Searching

\* After a try only what was tried is covered no more, and it is gone or not doomed.
LEMMA ItemCovers ==
  ASSUME NEW d, NEW made, Steady(d, made), NEW c, RemoverSound(c), c.at = "item",
         Covered(d, made, c)
  PROVE  Covered(AfterRemove(d, ScanNext(c)), made,
                 ToNext(Unqueued(Noting(c, RemoveFileOrEmptyDir(d, ScanNext(c))))))
<1> DEFINE f == ScanNext(c)
           e == AfterRemove(d, f)
           noted == Noting(c, RemoveFileOrEmptyDir(d, f))
           a == Unqueued(noted)
           r == ToNext(a)
<1>0. QueueSound(c) /\ f \in Paths \ {<<>>} /\ IsDisk(d) /\ IsTree(d.tree)
  BY ScanNextFacts DEF RemoverSound, Steady
<1>1. /\ QueueSound(noted) /\ noted.path = c.path /\ noted.queue = c.queue
      /\ noted.scan = c.scan
  BY <1>0, NotingFacts
<1>2. QueueSound(a) /\ a.path = noted.path /\ a.error = noted.error
  BY <1>1, UnqueuedFacts
<1>3. RemoverSound(r) /\ r.path = a.path /\ r.error = a.error
  BY <1>2, ToNextFacts
<1>4. r.path = c.path /\ r.error = noted.error
  BY <1>1, <1>2, <1>3
<1>5. ScanNext(noted) = f
  BY <1>1 DEF ScanNext
<1>6. ASSUME NEW p, Behind(a, p) PROVE Covers(r, p) /\ r.at # "item"
  BY <1>2, <1>6, ToNextCovers
<1>7. ASSUME NEW p, Behind(noted, p), p # f PROVE Behind(a, p)
  BY <1>1, <1>5, <1>7, UnqueuedBehind
<1> HIDE DEF f, a, r
<1>8. ASSUME NEW p \in Doomed(d, made, c), Beneath(p, f) PROVE p = f /\ KindAt(d.tree, f) # "dir"
  BY <1>8 DEF Covered, f
<1>9. Tried(d, made, c, f)
  BY <1>0, ItemTried DEF f
<1>10. f \notin Doomed(e, made, r) /\ Doomed(e, made, r) \subseteq Doomed(d, made, c)
  BY <1>0, <1>4, <1>9, TriedIsGone DEF Tried
<1> HIDE DEF e, noted
<1>11. ASSUME NEW p \in Doomed(e, made, r) PROVE Covers(r, p) /\ r.at # "item"
  <2>1. p \in Doomed(d, made, c) /\ p # f
    BY <1>10, <1>11
  <2>2. ~Beneath(p, f)
    BY <1>8, <2>1
  <2>3. Behind(c, p)
    BY <2>1, <2>2 DEF Covered, Covers, f
  <2>4. Behind(noted, p)
    BY <1>1, <2>3 DEF Behind
  <2> QED
    BY <1>6, <1>7, <2>1, <2>4
<1> QED
  BY <1>11 DEF Covered, e, r, a, noted, f

LEMMA ItemOrdered ==
  ASSUME NEW c, RemoverSound(c), c.at = "item", QueueOrdered(c), NEW error
  PROVE  QueueOrdered(ToNext(Unqueued(Noting(c, error))))
<1> DEFINE noted == Noting(c, error)
           a == Unqueued(noted)
<1>1. /\ QueueSound(noted) /\ noted.path = c.path /\ noted.queue = c.queue
      /\ noted.scan = c.scan
  BY NotingFacts DEF RemoverSound
<1> HIDE DEF noted
<1>2. OrderedTo(noted, noted.scan - 1)
  BY <1>1 DEF QueueOrdered, Searching, OrderedTo
<1>3. QueueSound(a) /\ OrderedTo(a, a.scan)
  BY <1>1, <1>2, UnqueuedFacts, UnqueuedOrdered
<1> HIDE DEF a
<1>4. QueueOrdered(ToNext(a))
  BY <1>3, ToNextOrdered
<1> QED
  BY <1>4 DEF a, noted

\* What comes of the call when it tried the last k of its queue.
RestAfter(c, noted) == [noted EXCEPT !.k = @ - 1, !.at = IF c.k = 1 THEN "target" ELSE "rest"]
\* The call goes on with the rest of the queue.
LEMMA RestAfterFacts ==
  ASSUME NEW c, QueueSound(c), NEW error
  PROVE  LET r == RestAfter(c, Noting(c, error))
         IN /\ IsRemover(r) /\ r.path = c.path /\ r.queue = c.queue /\ r.k = c.k - 1
            /\ r.scan = c.scan /\ r.at = (IF c.k = 1 THEN "target" ELSE "rest")
            /\ r.error = Noting(c, error).error
<1> DEFINE noted == Noting(c, error)
           r == RestAfter(c, noted)
<1>1. /\ QueueSound(noted) /\ noted.path = c.path /\ noted.queue = c.queue /\ noted.k = c.k
      /\ noted.scan = c.scan
  BY NotingFacts
<1>2. r = [noted EXCEPT !.k = noted.k - 1, !.at = IF c.k = 1 THEN "target" ELSE "rest"]
  BY DEF RestAfter
<1> HIDE DEF noted, r
<1>3. /\ IsRemover(r) /\ r.path = noted.path /\ r.queue = noted.queue /\ r.k = noted.k - 1
      /\ r.scan = noted.scan /\ r.at = (IF c.k = 1 THEN "target" ELSE "rest")
      /\ r.error = noted.error
  BY <1>1, <1>2 DEF QueueSound, IsRemover
<1> QED
  BY <1>1, <1>3 DEF noted, r

LEMMA RestCovers ==
  ASSUME NEW d, NEW made, Steady(d, made), NEW c, RemoverSound(c), c.at = "rest",
         QueueOrdered(c), Covered(d, made, c)
  PROVE  LET noted == Noting(c, RemoveFileOrEmptyDir(d, c.queue[c.k]))
         IN Covered(AfterRemove(d, c.queue[c.k]), made, RestAfter(c, noted))
<1> DEFINE f == c.queue[c.k]
           e == AfterRemove(d, f)
           noted == Noting(c, RemoveFileOrEmptyDir(d, f))
           r == RestAfter(c, noted)
<1>0. /\ QueueSound(c) /\ c.k \in 1 .. Len(c.queue) /\ Len(c.queue) \in Nat
      /\ IsDisk(d) /\ IsTree(d.tree) /\ c.path \in Paths \ {<<>>} /\ f # c.path
      /\ Beneath(f, c.path)
  BY DEF RemoverSound, QueueSound, Steady
<1>1. f \in Paths \ {<<>>}
  BY <1>0, ItemFacts
<1>2. /\ r.path = c.path /\ r.queue = c.queue /\ r.k = c.k - 1
      /\ r.at = (IF c.k = 1 THEN "target" ELSE "rest") /\ r.error = noted.error
  BY <1>0, RestAfterFacts
<1> HIDE DEF r, f
<1>3. ASSUME NEW p \in Doomed(d, made, c)
      PROVE  p = c.path \/ \E m \in 1 .. c.k : p = c.queue[m]
  BY <1>3 DEF Covered, Covers, Searching
<1>4. Tried(d, made, c, f)
  BY <1>0, RestTried DEF f
<1>5. f \notin Doomed(e, made, r) /\ Doomed(e, made, r) \subseteq Doomed(d, made, c)
  BY <1>0, <1>1, <1>2, <1>4, TriedIsGone DEF Tried
<1> HIDE DEF e, noted
<1>6. ASSUME NEW p \in Doomed(e, made, r) PROVE Covers(r, p) /\ r.at # "item"
  <2>1. p \in Doomed(d, made, c) /\ p # f
    BY <1>5, <1>6
  <2>2. p = c.path \/ \E m \in 1 .. c.k - 1 : p = c.queue[m]
    <3>1. ASSUME NEW m \in 1 .. c.k, p = c.queue[m] PROVE m \in 1 .. c.k - 1
      BY <1>0, <2>1, <3>1 DEF f
    <3> QED
      BY <1>3, <2>1, <3>1
  <2>3. CASE c.k = 1
    BY <1>2, <2>2, <2>3 DEF Covers
  <2>4. CASE c.k # 1
    BY <1>2, <2>2, <2>4 DEF Covers
  <2> QED
    BY <2>3, <2>4
<1> QED
  BY <1>6 DEF Covered, e, r, noted, f

LEMMA RestOrdered ==
  ASSUME NEW c, RemoverSound(c), c.at = "rest", QueueOrdered(c), NEW error
  PROVE  QueueOrdered(RestAfter(c, Noting(c, error)))
<1> DEFINE r == RestAfter(c, Noting(c, error))
<1>1. /\ r.path = c.path /\ r.queue = c.queue
      /\ r.at = (IF c.k = 1 THEN "target" ELSE "rest")
  BY RestAfterFacts DEF RemoverSound
<1> HIDE DEF r
<1>2. r.at \in {"target", "rest"}
  BY <1>1
<1>3. QueueOrdered(r)
  BY <1>1, <1>2 DEF QueueOrdered, Searching, OrderedTo
<1> QED
  BY <1>3 DEF r

LEMMA TargetCovers ==
  ASSUME NEW d, NEW made, Steady(d, made), NEW c, RemoverSound(c), c.at = "target",
         Covered(d, made, c)
  PROVE  Covered(AfterRemove(d, c.path), made,
                 Ended(c, Noting(c, RemoveFileOrEmptyDir(d, c.path)).error))
<1> DEFINE f == c.path
           e == AfterRemove(d, f)
           error == Noting(c, RemoveFileOrEmptyDir(d, f)).error
           r == Ended(c, error)
<1>0. QueueSound(c) /\ IsDisk(d) /\ IsTree(d.tree) /\ f \in Paths \ {<<>>}
  BY DEF RemoverSound, QueueSound, Steady
<1>1. r.path = c.path /\ r.error = error
  BY <1>0, EndedFacts
<1> HIDE DEF r
<1>2. ASSUME NEW p \in Doomed(d, made, c) PROVE p = f
  BY <1>2 DEF Covered, Covers, Searching
<1>3. Tried(d, made, c, f)
  BY <1>0, TargetTried
<1>4. f \notin Doomed(e, made, r) /\ Doomed(e, made, r) \subseteq Doomed(d, made, c)
  BY <1>0, <1>1, <1>3, TriedIsGone DEF Tried
<1>5. Doomed(e, made, r) = {}
  BY <1>2, <1>4
<1> QED
  BY <1>5 DEF Covered, r

LEMMA TargetOrdered ==
  ASSUME NEW c, RemoverSound(c), c.at = "target", QueueOrdered(c), NEW error
  PROVE  QueueOrdered(Ended(c, error))
<1> DEFINE r == Ended(c, error)
<1>1. r.path = c.path /\ r.queue = c.queue /\ r.at = "done"
  BY EndedFacts DEF RemoverSound
<1> HIDE DEF r
<1>2. QueueOrdered(r)
  BY <1>1 DEF QueueOrdered, Searching, OrderedTo
<1> QED
  BY <1>2 DEF r

-----------------------------------------------------------------------------
(* Nothing is left to take when a call ends *)

\* Where a folder is made, the folders it lies in are made too.
LEMMA CreatedIsClosed ==
  ASSUME IInv
  PROVE  PartsClosed(Created)
<1> SUFFICES ASSUME NEW p \in Created, NEW q \in Paths \ {<<>>}, Beneath(p, q)
             PROVE  p \in Paths /\ q \in Created
  BY DEF PartsClosed
<1>0. PICK c \in Calls : c.what = "create" /\ p \in {SubSeq(c.path, 1, n) : n \in 1 .. Len(c.path)}
  BY DEF Created
<1>1. PICK n \in 1 .. Len(c.path) : c.what = "create" /\ p = SubSeq(c.path, 1, n)
  BY <1>0
<1>2. PICK i \in DOMAIN disk.calls : c = disk.calls[i]
  BY DEF Calls
<1>3. c.path \in Paths \ {<<>>}
  BY <1>1, <1>2, CallOf DEF CallSound, RemoverSound, QueueSound, CreatorSound
<1>4. Len(c.path) \in Nat /\ Len(q) \in Nat \ {0}
  BY <1>3, PathFacts
<1>5. n \in 0 .. Len(c.path)
  BY <1>4
<1>6. p \in Paths /\ Len(p) = n /\ \A i1 \in 1 .. n : p[i1] = c.path[i1]
  BY <1>1, <1>3, <1>5, PartFacts
<1>7. Len(q) <= n /\ \A i1 \in 1 .. Len(q) : p[i1] = q[i1]
  BY <1>6, BeneathByNames
<1>8. Len(q) \in 0 .. Len(c.path) /\ Len(q) \in 1 .. Len(c.path)
  BY <1>4, <1>5, <1>7
<1> DEFINE s == SubSeq(c.path, 1, Len(q))
<1>9. s \in Paths /\ Len(s) = Len(q) /\ \A i1 \in 1 .. Len(q) : s[i1] = c.path[i1]
  BY <1>3, <1>8, PartFacts
<1> HIDE DEF s
<1>10. ASSUME NEW i1 \in 1 .. Len(q) PROVE s[i1] = q[i1]
  <2>1. i1 \in 1 .. n
    BY <1>4, <1>5, <1>7
  <2> QED
    BY <1>6, <1>7, <1>9, <2>1
<1>11. s = q
  BY <1>9, <1>10, PathEqual
<1>12. SubSeq(c.path, 1, Len(q)) \in Created
  BY <1>1, <1>8 DEF Created
<1> QED
  BY <1>6, <1>11, <1>12 DEF s

\* The disk after a step, but for the call that made it.
LEMMA StepLeaves ==
  ASSUME IInv, NEW i \in DOMAIN disk.calls, NEW e, NEW r, IsDisk(e), e.calls = disk.calls,
         disk' = Set(e, i, r)
  PROVE  /\ disk'.calls[i] = r /\ disk'.tree = e.tree /\ disk'.start = e.start
         /\ disk'.denied = e.denied /\ disk'.descriptors = e.descriptors
<1>1. e.calls = [j \in DOMAIN e.calls |-> e.calls[j]] /\ i \in DOMAIN e.calls
  BY DEF IInv, DiskSound
<1>2. /\ IsDisk(disk') /\ disk'.tree = e.tree /\ disk'.start = e.start /\ disk'.denied = e.denied
      /\ disk'.descriptors = e.descriptors
      /\ DOMAIN disk'.calls = DOMAIN e.calls /\ disk'.calls[i] = r
      /\ disk'.calls = [j \in DOMAIN e.calls |-> disk'.calls[j]]
      /\ \A j \in DOMAIN e.calls : j # i => disk'.calls[j] = e.calls[j]
  BY <1>1, SetFacts
<1> QED
  BY <1>2

AllUnlinked == RemovedUnlinked /\ CreatedUnlinked
CallCovered(d, made, c) ==
  c.what = "remove" => /\ QueueOrdered(c)
                       /\ KindAt(d.start, c.path) # "file" => Covered(d, made, c)
CoverInv ==
  /\ \A p \in DOMAIN disk.tree : p \in DOMAIN disk.start \/ p \in Created
  /\ \A i \in DOMAIN disk.calls : CallCovered(disk, Created, disk.calls[i])
\* What a step does to the call that makes it, and to what it shares with the others.
CoverStep(i) ==
  /\ disk.descriptors = 0 => disk'.descriptors = 0
  /\ CallCovered(disk', Created, disk'.calls[i])

\* Which disk it is does not matter, when what lies there is the same.
LEMMA CoveredSame ==
  ASSUME NEW d, NEW e, e.tree = d.tree, e.start = d.start, e.denied = d.denied,
         e.descriptors = d.descriptors, NEW made, NEW c, CallCovered(d, made, c)
  PROVE  CallCovered(e, made, c)
BY DEF CallCovered, Covered, Doomed, Lasting, ShutIn, Unreadable

\* Without links on the way, what a call seeks is where it is sought.
LEMMA PlainRemovers ==
  ASSUME IInv, AllUnlinked, NEW i \in DOMAIN disk.calls, disk.calls[i].what = "remove"
  PROVE  Plain(disk.tree, disk.calls[i])
BY TakenBeneath DEF Plain, AllUnlinked

\* What the proofs about a disk need of it holds.
LEMMA SteadyDisk ==
  ASSUME IInv, CoverInv
  PROVE  Steady(disk, Created)
BY CreatedIsClosed DEF IInv, DiskSound, CoverInv, Steady

\* Each action leaves its own call covered.
LEMMA ScanCoverStep ==
  ASSUME IInv, AllUnlinked, CoverInv, NEW i \in DOMAIN disk.calls, ScanItem(i)
  PROVE  CoverStep(i)
<1> DEFINE c == disk.calls[i]
           e == AfterList(disk, ScanNext(c))
<1>1. c.at = "scan" /\ \E r \in ScanResults(disk, c) : disk' = Set(e, i, r)
  BY DEF ScanItem
<1>2. RemoverSound(c) /\ c.what = "remove" /\ QueueSound(c)
  BY <1>1, CallOf, RemoverAt DEF RemoverSound
<1>3. PICK r \in ScanResults(disk, c) : disk' = Set(e, i, r)
  BY <1>1
<1>4. Steady(disk, Created) /\ Plain(disk.tree, c) /\ IsTree(disk.tree)
  BY <1>2, SteadyDisk, PlainRemovers, CallOf
<1>5. QueueOrdered(c) /\ (KindAt(disk.start, c.path) # "file" => Covered(disk, Created, c))
  BY <1>2 DEF CoverInv, CallCovered
<1>6. QueueOrdered(r)
  BY <1>1, <1>2, <1>4, <1>5, ScanOrdered
<1>7. KindAt(disk.start, c.path) # "file" => Covered(e, Created, r)
  BY <1>1, <1>2, <1>4, <1>5, ScanCovers
<1>8. IsDisk(e) /\ e.calls = disk.calls /\ e.start = disk.start
  BY CallOf, ListFacts
<1>9. r.path = c.path
  BY <1>1, <1>2, <1>4, CallOf, RemoverAt, ScanSteps
<1>10. disk.descriptors = 0 => e.descriptors = 0
  BY ListDescriptors
<1> HIDE DEF e
<1>11. /\ disk'.calls[i] = r /\ disk'.tree = e.tree /\ disk'.start = e.start
       /\ disk'.denied = e.denied /\ disk'.descriptors = e.descriptors
  BY <1>3, <1>8, StepLeaves
<1>12. CallCovered(e, Created, r)
  BY <1>6, <1>7, <1>8, <1>9 DEF CallCovered
<1>13. CallCovered(disk', Created, r)
  BY <1>11, <1>12, CoveredSame
<1> QED
  BY <1>10, <1>11, <1>13 DEF CoverStep

\* The same for the steps that try to remove something.
LEMMA TryCoverStep ==
  ASSUME IInv, NEW i \in DOMAIN disk.calls, NEW f \in Paths \ {<<>>}, NEW r,
         r.path = disk.calls[i].path, QueueOrdered(r),
         KindAt(disk.start, disk.calls[i].path) # "file" =>
           Covered(AfterRemove(disk, f), Created, r),
         disk' = Set(AfterRemove(disk, f), i, r)
  PROVE  CoverStep(i)
<1> DEFINE e == AfterRemove(disk, f)
<1>1. /\ e.start = disk.start /\ e.calls = disk.calls /\ e.descriptors = disk.descriptors
      /\ IsDisk(e)
  BY CallOf, RemoveFacts
<1> HIDE DEF e
<1>2. /\ disk' = Set(e, i, r)
      /\ (KindAt(disk.start, disk.calls[i].path) # "file" => Covered(e, Created, r))
  BY DEF e
<1>3. /\ disk'.calls[i] = r /\ disk'.tree = e.tree /\ disk'.start = e.start
      /\ disk'.denied = e.denied /\ disk'.descriptors = e.descriptors
  BY <1>1, <1>2, StepLeaves
<1>4. CallCovered(e, Created, r)
  BY <1>1, <1>2 DEF CallCovered
<1>5. CallCovered(disk', Created, r)
  BY <1>3, <1>4, CoveredSame
<1> QED
  BY <1>1, <1>3, <1>5 DEF CoverStep

LEMMA ItemCoverStep ==
  ASSUME IInv, AllUnlinked, CoverInv, NEW i \in DOMAIN disk.calls, RemoveItem(i)
  PROVE  CoverStep(i)
<1> DEFINE c == disk.calls[i]
           f == ScanNext(c)
           noted == Noting(c, RemoveFileOrEmptyDir(disk, f))
           r == ToNext(Unqueued(noted))
<1>1. c.at = "item" /\ disk' = Set(AfterRemove(disk, f), i, r)
  BY DEF RemoveItem
<1>2. RemoverSound(c) /\ c.what = "remove" /\ QueueSound(c)
  BY <1>1, CallOf, RemoverAt DEF RemoverSound
<1>3. Steady(disk, Created) /\ QueueOrdered(c)
      /\ (KindAt(disk.start, c.path) # "file" => Covered(disk, Created, c))
  BY <1>2, SteadyDisk DEF CoverInv, CallCovered
<1>4. QueueOrdered(r)
  BY <1>1, <1>2, <1>3, ItemOrdered
<1>5. KindAt(disk.start, c.path) # "file" => Covered(AfterRemove(disk, f), Created, r)
  BY <1>1, <1>2, <1>3, ItemCovers
<1>6. QueueSound(noted) /\ noted.path = c.path
  BY <1>2, NotingFacts
<1>7. QueueSound(Unqueued(noted)) /\ Unqueued(noted).path = c.path
  BY <1>6, UnqueuedFacts
<1>8. r.path = c.path
  BY <1>7, ToNextFacts
<1>9. f \in Paths \ {<<>>}
  BY <1>2, ScanNextFacts
<1> HIDE DEF r, f
<1> QED
  BY <1>1, <1>4, <1>5, <1>8, <1>9, TryCoverStep

LEMMA RestCoverStep ==
  ASSUME IInv, AllUnlinked, CoverInv, NEW i \in DOMAIN disk.calls, RemoveRest(i)
  PROVE  CoverStep(i)
<1> DEFINE c == disk.calls[i]
           f == c.queue[c.k]
           noted == Noting(c, RemoveFileOrEmptyDir(disk, f))
           r == RestAfter(c, noted)
<1>1. c.at = "rest" /\ disk' = Set(AfterRemove(disk, f), i, r)
  BY DEF RemoveRest, RestAfter
<1>2. RemoverSound(c) /\ c.what = "remove" /\ QueueSound(c) /\ c.k \in 1 .. Len(c.queue)
  BY <1>1, CallOf, RemoverAt DEF RemoverSound
<1>3. Steady(disk, Created) /\ QueueOrdered(c)
      /\ (KindAt(disk.start, c.path) # "file" => Covered(disk, Created, c))
  BY <1>2, SteadyDisk DEF CoverInv, CallCovered
<1>4. QueueOrdered(r)
  BY <1>1, <1>2, <1>3, RestOrdered
<1>5. KindAt(disk.start, c.path) # "file" => Covered(AfterRemove(disk, f), Created, r)
  BY <1>1, <1>2, <1>3, RestCovers
<1>6. r.path = c.path
  BY <1>2, RestAfterFacts
<1>7. f \in Paths \ {<<>>}
  BY <1>2, ItemFacts
<1> HIDE DEF r, f
<1> QED
  BY <1>1, <1>4, <1>5, <1>6, <1>7, TryCoverStep

LEMMA TargetCoverStep ==
  ASSUME IInv, AllUnlinked, CoverInv, NEW i \in DOMAIN disk.calls, RemoveTarget(i)
  PROVE  CoverStep(i)
<1> DEFINE c == disk.calls[i]
           r == Ended(c, Noting(c, RemoveFileOrEmptyDir(disk, c.path)).error)
<1>1. c.at = "target" /\ disk' = Set(AfterRemove(disk, c.path), i, r)
  BY DEF RemoveTarget
<1>2. RemoverSound(c) /\ c.what = "remove" /\ QueueSound(c) /\ c.path \in Paths \ {<<>>}
  BY <1>1, CallOf, RemoverAt DEF RemoverSound, QueueSound
<1>3. Steady(disk, Created) /\ QueueOrdered(c)
      /\ (KindAt(disk.start, c.path) # "file" => Covered(disk, Created, c))
  BY <1>2, SteadyDisk DEF CoverInv, CallCovered
<1>4. QueueOrdered(r)
  BY <1>1, <1>2, <1>3, TargetOrdered
<1>5. KindAt(disk.start, c.path) # "file" => Covered(AfterRemove(disk, c.path), Created, r)
  BY <1>1, <1>2, <1>3, TargetCovers
<1>6. r.path = c.path
  BY <1>2, EndedFacts
<1> HIDE DEF r
<1> QED
  BY <1>1, <1>2, <1>4, <1>5, <1>6, TryCoverStep

LEMMA CreatorCoverStep ==
  ASSUME IInv, NEW i \in DOMAIN disk.calls, Look(i) \/ Make(i), StepSound(i)
  PROVE  CoverStep(i)
<1> DEFINE c == disk.calls[i]
<1>1. c.at \in {"look", "make"}
  BY DEF Look, Make
<1>2. CreatorSound(c) /\ c.what = "create" /\ IsDisk(disk) /\ IsTree(disk.tree)
  BY <1>1, CallOf, CreatorAt
<1>3. CallCovered(disk', Created, disk'.calls[i])
  BY <1>2 DEF CallCovered, StepSound, CallMoves
<1>4. CASE Look(i)
  <2>1. PICK r : disk' = Set(disk, i, r)
    BY <1>4 DEF Look
  <2> QED
    BY <1>2, <1>3, <2>1, StepLeaves DEF CoverStep
<1>5. CASE Make(i)
  <2> DEFINE e == AfterMkdir(disk, Part(c))
  <2>1. PICK r : disk' = Set(e, i, r)
    BY <1>5 DEF Make
  <2>2. c.at = "make"
    BY <1>5 DEF Make
  <2>3. Part(c) \in Paths \ {<<>>}
    <3>1. c.path \in Paths /\ Len(c.path) \in Nat /\ c.k \in 0 .. Len(c.path) /\ c.k # 0
      BY <1>2, <2>2, PathFacts DEF CreatorSound
    <3> QED
      BY <3>1, PartFacts, PathFacts DEF Part
  <2>4. IsDisk(e) /\ e.calls = disk.calls /\ e.descriptors = disk.descriptors
    BY <1>2, <2>3, MkdirFacts
  <2> HIDE DEF e
  <2> QED
    BY <1>3, <2>1, <2>4, StepLeaves DEF CoverStep
<1> QED
  BY <1>4, <1>5

\* What is made is what was asked for.
LEMMA MadeIsCreated ==
  ASSUME IInv, CreatedUnlinked, NEW i \in DOMAIN disk.calls, disk.calls[i].what = "create",
         NEW n \in 1 .. Len(disk.calls[i].path),
         WayOpen(disk.tree, SubSeq(disk.calls[i].path, 1, n))
  PROVE  /\ EntryAt(disk.tree, SubSeq(disk.calls[i].path, 1, n)) = SubSeq(disk.calls[i].path, 1, n)
         /\ SubSeq(disk.calls[i].path, 1, n) \in Created
<1> DEFINE c == disk.calls[i]
           q == SubSeq(c.path, 1, n)
<1>1. c.path \in Paths \ {<<>>} /\ c \in Calls
  BY CallOf DEF CallSound, CreatorSound, RemoverSound, QueueSound, Calls
<1>2. NoLinkAbove(disk.tree, c.path)
  BY <1>1, StillUnlinked DEF CreatedUnlinked
<1>3. q \in Paths \ {<<>>} /\ NoLinkAbove(disk.tree, q)
  BY <1>1, <1>2, PartUnlinked
<1>4. q \in Created
  BY <1>1 DEF Created
<1> HIDE DEF q
<1>5. WayOpen(disk.tree, q)
  BY DEF q
<1>6. EntryAt(disk.tree, q) = q
  BY <1>3, <1>5, PlainEntry
<1> QED
  BY <1>4, <1>6 DEF q

\* A step makes what was asked for, if it makes anything.
LEMMA GrowsByCreated ==
  ASSUME IInv, CreatedUnlinked, NEW i \in DOMAIN disk.calls, StepSound(i)
  PROVE  DOMAIN disk'.tree \subseteq DOMAIN disk.tree \cup Created
<1>1. CASE disk'.tree = disk.tree
  BY <1>1
<1>2. CASE \E q \in Sought(disk.calls[i]) : Takes(disk.tree, disk'.tree, q)
  BY <1>2 DEF Takes
<1>3. ASSUME disk.calls[i].what = "create", NEW n \in 1 .. Len(disk.calls[i].path),
             Makes(disk.tree, disk'.tree, SubSeq(disk.calls[i].path, 1, n))
      PROVE  DOMAIN disk'.tree \subseteq DOMAIN disk.tree \cup Created
  <2> DEFINE q == SubSeq(disk.calls[i].path, 1, n)
  <2>1. WayOpen(disk.tree, q) /\ DOMAIN disk'.tree = DOMAIN disk.tree \cup {EntryAt(disk.tree, q)}
    BY <1>3 DEF Makes
  <2>2. EntryAt(disk.tree, q) = q /\ q \in Created
    BY <1>3, <2>1, MadeIsCreated
  <2> QED
    BY <2>1, <2>2
<1> QED
  BY <1>1, <1>2, <1>3 DEF StepSound, TreeMoves

\* And every other call too: what is there only gets less, but for what is created.
LEMMA CoverInvStep ==
  ASSUME IInv, AllUnlinked, CoverInv, NEW i \in DOMAIN disk.calls, StepSound(i), CoverStep(i)
  PROVE  CoverInv'
<1>1. /\ Created' = Created /\ disk'.start = disk.start /\ disk'.denied = disk.denied
      /\ DOMAIN disk'.calls = DOMAIN disk.calls
      /\ \A j \in DOMAIN disk.calls : j # i => disk'.calls[j] = disk.calls[j]
  BY SameRequests DEF StepSound, CallMoves
<1>2. DOMAIN disk'.tree \subseteq DOMAIN disk.tree \cup Created
  BY GrowsByCreated DEF AllUnlinked
<1>3. \A p \in DOMAIN disk.tree : p \in DOMAIN disk'.tree => disk'.tree[p] = disk.tree[p]
  BY CallOf, StepKeepsValues DEF StepSound
<1>4. \A p \in DOMAIN disk'.tree : p \in DOMAIN disk'.start \/ p \in Created'
  BY <1>1, <1>2 DEF CoverInv
<1>5. ASSUME NEW j \in DOMAIN disk.calls, j # i, disk.calls[j].what = "remove",
             KindAt(disk.start, disk.calls[j].path) # "file"
      PROVE  Covered(disk', Created, disk.calls[j])
  <2> DEFINE c == disk.calls[j]
  <2>1. Covered(disk, Created, c)
    BY <1>5 DEF CoverInv, CallCovered
  <2>2. Doomed(disk', Created, c) \subseteq Doomed(disk, Created, c)
    <3>1. disk'.descriptors # 0 => disk.descriptors # 0
      BY DEF CoverStep
    <3> QED
      BY <1>1, <1>2, <3>1, DoomedShrinks
  <2> HIDE DEF c
  <2>3. ASSUME NEW p \in Doomed(disk', Created, c)
        PROVE  KindAt(disk'.tree, p) = KindAt(disk.tree, p)
    <3>1. p \in DOMAIN disk'.tree /\ p \in DOMAIN disk.tree
      BY <2>2, <2>3 DEF Doomed
    <3> QED
      BY <1>3, <3>1 DEF KindAt
  <2>4. Covered(disk', Created, c)
    BY <2>1, <2>2, <2>3 DEF Covered
  <2> QED
    BY <2>4 DEF c
<1>6. ASSUME NEW j \in DOMAIN disk.calls PROVE CallCovered(disk', Created, disk'.calls[j])
  <2>1. CASE j = i
    BY <2>1 DEF CoverStep
  <2>2. CASE j # i
    BY <1>1, <1>5, <2>2 DEF CallCovered, CoverInv
  <2> QED
    BY <2>1, <2>2
<1> QED
  BY <1>1, <1>4, <1>6 DEF CoverInv

\* A call that is done covers nothing: nothing doomed is left.
LEMMA CoverEnds == 
  ASSUME IInv, AllUnlinked, CoverInv
  PROVE  AllIsTaken
<1> SUFFICES ASSUME disk.descriptors # 0, NEW c \in Calls, c.what = "remove", c.at = "done",
                    KindAt(disk.start, c.path) # "file", NEW p \in DOMAIN disk.tree,
                    Beneath(p, c.path), p \notin Created,
                    \A q \in Lasting(disk, c.path) : ~Beneath(q, p)
             PROVE  FALSE
  BY DEF AllIsTaken
<1>1. Covered(disk, Created, c)
  BY DEF CoverInv, CallCovered, Calls
<1>2. p \in Doomed(disk, Created, c)
  BY DEF Doomed
<1> QED
  BY <1>1, <1>2 DEF Covered, Covers, Searching

LEMMA CoverStart ==
  ASSUME IsStart(disk)
  PROVE  CoverInv
<1>1. disk.start = disk.tree
  BY DEF IsStart, NewDisk
<1>2. ASSUME NEW i \in DOMAIN disk.calls PROVE CallCovered(disk, Created, disk.calls[i])
  <2> DEFINE c == disk.calls[i]
  <2>1. SUFFICES ASSUME c.what = "remove" PROVE QueueOrdered(c) /\ Covered(disk, Created, c)
    BY DEF CallCovered
  <2>2. c = Remover(c.path)
    BY <2>1 DEF IsStart, Creator
  <2>3. c.at = "scan" /\ c.scan = 0 /\ c.queue = <<>>
    BY <2>2 DEF Remover
  <2>4. QueueOrdered(c)
    BY <2>3 DEF QueueOrdered, OrderedTo, Searching
  <2>5. Covered(disk, Created, c)
    BY <2>3 DEF Covered, Covers, Searching, ScanNext, Doomed
  <2> QED
    BY <2>4, <2>5
<1> QED
  BY <1>1, <1>2 DEF CoverInv

-----------------------------------------------------------------------------
(* What a call reports *)

\* What can lie somewhere.
LEMMA KindIs ==
  ASSUME NEW tree, IsTree(tree), NEW p \in Paths
  PROVE  KindAt(tree, p) \in {"dir", "file", "link", "none"}
<1>1. ASSUME p # <<>>, p \in DOMAIN tree PROVE tree[p].k \in {"dir", "file", "link"}
  <2>1. tree[p] \in AnyFolder \cup AnyFile \/ tree[p] = LinkTo(tree[p].to)
    BY <1>1 DEF IsTree
  <2> QED
    BY <2>1, NoLinkFacts, LinkFacts
<1> QED
  BY <1>1 DEF KindAt

\* The error that is noted when something was tried: what may not be removed, or a folder
\* that holds what was created.
LEMMA TryNotes ==
  ASSUME NEW d, NEW made, Steady(d, made), NEW c, QueueSound(c), Plain(d.tree, c),
         NEW f \in Sought(c), made = {} => Tried(d, made, c, f)
  PROVE  LET error == Noting(c, RemoveFileOrEmptyDir(d, f)).error
         IN \/ error = c.error
            \/ /\ c.error = "SUCCESS" /\ error = "NOPERMISSION"
               /\ f \in d.denied \cap DOMAIN d.tree
            \/ /\ c.error = "SUCCESS" /\ error = "NONEMPTYDIRECTORY" /\ made # {}
               /\ KindAt(d.tree, f) = "dir" /\ Names(d.tree, f) # {}
               /\ RemoveErrno(d, f) # "OK"
<1> DEFINE result == RemoveFileOrEmptyDir(d, f)
           error == Noting(c, result).error
<1>0. IsTree(d.tree) /\ IsTree(d.start) /\ PartsClosed(made) /\ c.path \in Paths \ {<<>>}
  BY DEF Steady, QueueSound
<1>1. error = IF c.error = "SUCCESS" /\ result # "NOSUCHTARGET" THEN result ELSE c.error
  BY NotingFacts
<1>2. f \in Paths \ {<<>>} /\ Beneath(f, c.path)
  BY <1>0, ItemFacts, BeneathFacts DEF Sought, QueueSound
<1>3. result \in {"SUCCESS", "NOPERMISSION", "NONEMPTYDIRECTORY", "NOSUCHTARGET"}
  BY DEF RemoveFileOrEmptyDir
<1>4. WayError(d.tree, f) = "OK" <=> WayOpen(d.tree, f)
  BY <1>0, <1>2, EntryFacts
<1>5. WayError(d.tree, f) \in {"OK", "ENOTDIR", "ENOENT"}
  BY <1>0, <1>2, EntryFacts
<1>6. WayOpen(d.tree, f) => EntryAt(d.tree, f) = f
  BY DEF Plain
<1>7. KindAt(d.tree, f) # "none" => f \in DOMAIN d.tree
  BY <1>0, <1>2, KindFacts
<1>8. CASE result = "NOPERMISSION"
  <2>1. RemoveErrno(d, f) = "EACCES"
    BY <1>8 DEF RemoveFileOrEmptyDir
  <2>2. WayError(d.tree, f) = "OK" /\ KindAt(d.tree, EntryAt(d.tree, f)) # "none"
        /\ EntryAt(d.tree, f) \in d.denied
    BY <1>5, <2>1 DEF RemoveErrno
  <2>3. f \in d.denied \cap DOMAIN d.tree
    BY <1>4, <1>6, <1>7, <2>2
  <2> QED
    BY <1>1, <1>8, <2>3
<1>9. CASE result = "NONEMPTYDIRECTORY" /\ c.error = "SUCCESS"
  <2>1. RemoveErrno(d, f) = "ENOTEMPTY"
    BY <1>9 DEF RemoveFileOrEmptyDir
  <2>2. /\ WayError(d.tree, f) = "OK" /\ KindAt(d.tree, EntryAt(d.tree, f)) = "dir"
        /\ Names(d.tree, EntryAt(d.tree, f)) # {}
    BY <1>5, <2>1 DEF RemoveErrno
  <2>3. EntryAt(d.tree, f) = f /\ f \in DOMAIN d.tree
    BY <1>4, <1>6, <1>7, <2>2
  <2>4. PICK g \in Names(d.tree, f) : TRUE
    BY <2>2, <2>3
  <2>5. g \in DOMAIN d.tree /\ Front(g) = f
    BY <1>0, <1>2, <2>4, NamesFacts
  <2>6. g \in Paths \ {<<>>}
    BY <1>0, <2>5 DEF IsTree
  <2>7. Beneath(g, f)
    BY <1>2, <2>5, <2>6, BeneathFacts
  <2>8. made # {}
    <3>1. SUFFICES ASSUME made = {} PROVE FALSE
      OBVIOUS
    <3>2. f \in Doomed(d, made, c)
      BY <1>2, <1>9, <2>3, <3>1 DEF Doomed
    <3>4. g \in Doomed(d, made, c)
      BY <1>0, <2>5, <2>7, <3>2, DoomedBelow
    <3>5. Tried(d, made, c, f)
      BY <3>1
    <3> QED
      BY <2>4, <3>2, <3>4, <3>5 DEF Tried
  <2> QED
    BY <1>1, <1>9, <2>1, <2>2, <2>3, <2>8
<1> QED
  BY <1>1, <1>3, <1>8, <1>9

\* What comes of the step that searches an item.
Listed(d, c, r) ==
  /\ d.descriptors # 0 /\ KindAt(d.tree, ScanNext(c)) = "dir" /\ r.error = c.error
  /\ r.at \in {"scan", "rest", "target"} /\ (r.at = "scan" => r.scan = c.scan + 1)
  /\ \A m \in 1 .. Len(r.queue) : m > c.scan => r.at = "scan"
  /\ \A m \in 1 .. Len(c.queue) : m \in 1 .. Len(r.queue) /\ r.queue[m] = c.queue[m]
  /\ \A m \in 1 .. Len(r.queue) :
       \/ m \in 1 .. Len(c.queue) /\ r.queue[m] = c.queue[m]
       \/ m > Len(c.queue) /\ r.queue[m] \in Names(d.tree, ScanNext(c))
  /\ d.tree[ScanNext(c)].open = "OK"
  /\ \A g \in Names(d.tree, ScanNext(c)) :
       /\ r.at = "scan"
       /\ \E m \in 1 .. Len(r.queue) : m > Len(c.queue) /\ r.queue[m] = g
NoFolder(d, c, r) ==
  /\ c.scan = 0 /\ KindAt(d.tree, c.path) = "file" /\ d.tree[c.path].open = "OK" /\ r.queue = c.queue
  /\ r.at = "done" /\ r.error = "TARGETNOTADIRECTORY"
ToTry(d, c, r) ==
  /\ r.at = "item" /\ r.error = c.error /\ r.queue = c.queue /\ r.scan = c.scan
  /\ KindAt(d.tree, ScanNext(c)) \in {"file", "link"}
  /\ KindAt(d.tree, ScanNext(c)) = "file" => d.tree[ScanNext(c)].open = "OK"
  /\ c.scan = 0 => KindAt(d.tree, c.path) = "link"
Unlisted(d, c, r) ==
  /\ r.queue = c.queue /\ r.at \in {"scan", "rest", "target"}
  /\ r.at = "scan" => r.scan = c.scan + 1
  /\ c.queue = <<>> => r.at = "target" /\ r.scan = c.scan
  /\ \/ /\ d.descriptors = 0
        /\ r.error = IF c.error = "SUCCESS" THEN "OUTOFFDS" ELSE c.error
     \/ /\ ScanNext(c) \notin DOMAIN d.tree
        /\ r.error = IF c.error = "SUCCESS" THEN "OTHERERROR" ELSE c.error
     \/ /\ Closed(d.tree, ScanNext(c))
        /\ r.error = IF c.error = "SUCCESS" THEN "NOPERMISSION" ELSE c.error

\* One of these four is what comes of it.
LEMMA ScanOutcome ==
  ASSUME NEW d, IsTree(d.tree), NEW c, RemoverSound(c), Plain(d.tree, c),
         NEW r \in ScanResults(d, c)
  PROVE  Listed(d, c, r) \/ NoFolder(d, c, r) \/ ToTry(d, c, r) \/ Unlisted(d, c, r)
<1> DEFINE f == ScanNext(c)
           result == ListFolder(d, f)
<1>0. QueueSound(c) /\ f \in Paths \ {<<>>} /\ f \in Sought(c) /\ (c.scan = 0 => f = c.path)
  BY ScanNextFacts DEF RemoverSound, Sought
<1>1. /\ result \in {"TARGETNOTADIRECTORY", "SYMLINKSWEREEXCLUDED"} =>
            WayOpen(d.tree, f) /\ d.descriptors # 0
      /\ result = "TARGETNOTADIRECTORY" =>
            KindAt(d.tree, EntryAt(d.tree, f)) = "file" /\ d.tree[EntryAt(d.tree, f)].open = "OK"
      /\ result = "SYMLINKSWEREEXCLUDED" => KindAt(d.tree, EntryAt(d.tree, f)) = "link"
      /\ result \notin {"SUCCESS", "TARGETNOTADIRECTORY", "SYMLINKSWEREEXCLUDED"} =>
            \/ result = "OUTOFFDS" /\ d.descriptors = 0
            \/ /\ result = "OTHERERROR" /\ d.descriptors # 0
               /\ WayError(d.tree, f) # "OK" \/ KindAt(d.tree, EntryAt(d.tree, f)) = "none"
            \/ result = "NOPERMISSION" /\ d.descriptors # 0 /\ Locked(d.tree, f)
  BY <1>0, ListResults
<1>2. WayOpen(d.tree, f) => EntryAt(d.tree, f) = f
  BY <1>0 DEF Plain
<1>3. CASE result = "SUCCESS"
  <2>1. PICK more \in Listings(d, f) : r = ToNext([c EXCEPT !.queue = @ \o more])
    BY <1>3 DEF ScanResults
  <2> DEFINE a == [c EXCEPT !.queue = @ \o more]
             n == Len(c.queue)
  <2>2. /\ more \in Seq(Paths)
        /\ \A m \in 1 .. Len(more) : \E name \in Component : more[m] = Append(f, name)
    BY <1>0, ListingFacts
  <2>3. KindAt(d.tree, f) = "dir" /\ EntryAt(d.tree, f) = f /\ d.descriptors # 0
        /\ d.tree[f].open = "OK"
    BY <1>0, <1>2, <1>3, ListedIsFolder
  <2>4. /\ \A m \in 1 .. Len(more) : more[m] \in Names(d.tree, f)
        /\ \A g \in Names(d.tree, f) : \E m \in 1 .. Len(more) : more[m] = g
    BY <1>0, <2>3, ListingIsNames
  <2>5. /\ QueueSound(a) /\ a.error = c.error /\ a.scan = c.scan /\ Len(a.queue) = n + Len(more)
        /\ \A m \in 1 .. n : a.queue[m] = c.queue[m]
        /\ \A m \in 1 .. Len(a.queue) :
             m > n => m - n \in 1 .. Len(more) /\ a.queue[m] = more[m - n]
    BY <1>0, <2>2, ExtendedFacts
  <2>6. n \in Nat /\ Len(more) \in Nat
    BY <1>0, <2>2 DEF QueueSound
  <2>7. r = ToNext(a)
    BY <2>1
  <2> HIDE DEF a
  <2>8. /\ r.queue = a.queue /\ r.error = a.error
        /\ \/ a.scan < Len(a.queue) /\ r.at = "scan" /\ r.scan = a.scan + 1
           \/ a.scan = Len(a.queue) /\ r.queue = <<>> /\ r.at = "target"
           \/ a.scan = Len(a.queue) /\ r.at = "rest" /\ r.k = Len(a.queue)
    BY <2>5, <2>7, ToNextFacts
  <2>9. \A m \in 1 .. n : m \in 1 .. Len(r.queue) /\ r.queue[m] = c.queue[m]
    BY <2>5, <2>6, <2>8
  <2>10. ASSUME NEW m \in 1 .. Len(r.queue)
         PROVE  \/ m \in 1 .. n /\ r.queue[m] = c.queue[m]
                \/ m > n /\ r.queue[m] \in Names(d.tree, f)
    <3>1. m \in Int /\ m >= 1
      BY <2>5, <2>6, <2>8
    <3>2. CASE m > n
      BY <2>4, <2>5, <2>8, <3>2
    <3>3. CASE ~(m > n)
      <4>1. m \in 1 .. n
        BY <2>6, <3>1, <3>3
      <4> QED
        BY <2>9, <4>1
    <3> QED
      BY <3>2, <3>3
  <2>12. ASSUME NEW g \in Names(d.tree, f)
         PROVE  r.at = "scan" /\ \E m \in 1 .. Len(r.queue) : m > n /\ r.queue[m] = g
    <3>1. PICK m \in 1 .. Len(more) : more[m] = g
      BY <2>4
    <3>2. n + m \in 1 .. Len(a.queue) /\ n + m > n /\ (n + m) - n = m /\ n < Len(a.queue)
      BY <2>5, <2>6
    <3>3. r.queue[n + m] = g
      BY <2>5, <2>8, <3>1, <3>2
    <3>4. c.scan \in 0 .. n
      BY <1>0 DEF QueueSound
    <3>5. r.at = "scan"
      BY <2>5, <2>6, <2>8, <3>2, <3>4
    <3> QED
      BY <2>8, <3>2, <3>3, <3>5
  <2>11. Listed(d, c, r)
    <3> HIDE DEF n, f
    <3> QED
      BY <2>3, <2>5, <2>8, <2>9, <2>10, <2>12 DEF Listed, n, f
  <2> QED
    BY <2>11
<1>4. CASE result = "TARGETNOTADIRECTORY" /\ c.scan = 0
  <2>1. r = Ended(c, result)
    BY <1>4 DEF ScanResults
  <2>2. r.at = "done" /\ r.error = result /\ r.queue = c.queue
    BY <1>0, <2>1, EndedFacts
  <2> QED
    BY <1>0, <1>1, <1>2, <1>4, <2>2 DEF NoFolder
<1>5. CASE /\ result \in {"TARGETNOTADIRECTORY", "SYMLINKSWEREEXCLUDED"}
           /\ ~(result = "TARGETNOTADIRECTORY" /\ c.scan = 0)
  <2>1. r = [c EXCEPT !.at = "item"]
    BY <1>5 DEF ScanResults
  <2>2. /\ r.queue = c.queue /\ r.scan = c.scan /\ r.at = "item" /\ r.error = c.error
    BY <1>0, <2>1 DEF QueueSound, IsRemover
  <2> QED
    BY <1>0, <1>1, <1>2, <1>5, <2>2 DEF ToTry
<1>6. CASE result \notin {"SUCCESS", "TARGETNOTADIRECTORY", "SYMLINKSWEREEXCLUDED"}
  <2> DEFINE a == Noting(c, result)
  <2>1. r = ToNext(a)
    BY <1>6 DEF ScanResults
  <2>2. /\ QueueSound(a) /\ a.path = c.path /\ a.queue = c.queue /\ a.scan = c.scan
        /\ a.error = IF c.error = "SUCCESS" /\ result # "NOSUCHTARGET" THEN result ELSE c.error
    BY <1>0, NotingFacts
  <2> HIDE DEF a
  <2>3. /\ r.queue = a.queue /\ r.error = a.error
        /\ \/ a.scan < Len(a.queue) /\ r.at = "scan" /\ r.scan = a.scan + 1
           \/ a.scan = Len(a.queue) /\ r.queue = <<>> /\ r.at = "target"
           \/ a.scan = Len(a.queue) /\ r.at = "rest" /\ r.k = Len(a.queue)
    BY <2>1, <2>2, ToNextFacts
  <2>4. ASSUME c.queue = <<>> PROVE r.at = "target" /\ r.scan = c.scan
    <3>1. a.queue = <<>> /\ a.scan = 0 /\ Len(a.queue) = 0
      BY <1>0, <2>2, <2>4 DEF QueueSound
    <3>2. r = ToRest(a)
      BY <2>1, <3>1 DEF ToNext
    <3>3. r = [a EXCEPT !.at = "target", !.k = 0]
      BY <3>1, <3>2 DEF ToRest
    <3>4. r.at = "target" /\ r.scan = a.scan
      BY <2>2, <3>3 DEF QueueSound, IsRemover
    <3> QED
      BY <2>2, <3>4
  <2>5. f \in DOMAIN d.tree => \/ d.descriptors = 0 /\ result = "OUTOFFDS"
                               \/ result = "NOPERMISSION" /\ Closed(d.tree, f)
    <3>1. ASSUME f \in DOMAIN d.tree
          PROVE  WayError(d.tree, f) = "OK" /\ KindAt(d.tree, EntryAt(d.tree, f)) # "none"
      <4>1. WayError(d.tree, f) = "OK" /\ EntryAt(d.tree, f) = f
        BY <3>1, EntryInTree
      <4>2. KindAt(d.tree, f) # "none"
        BY <1>0, <3>1, KindFacts
      <4> QED
        BY <4>1, <4>2
    <3>2. Locked(d.tree, f) => Closed(d.tree, f)
      BY <1>2 DEF Locked
    <3> QED
      BY <1>1, <1>6, <3>1, <3>2
  <2>7. Locked(d.tree, f) => Closed(d.tree, f)
    BY <1>2 DEF Locked
  <2>6. Unlisted(d, c, r)
    BY <1>1, <1>6, <2>2, <2>3, <2>4, <2>5, <2>7 DEF Unlisted
  <2> QED
    BY <2>6
<1> QED
  BY <1>3, <1>4, <1>5, <1>6

-----------------------------------------------------------------------------
(* A call that removes, alone *)

\* Nothing is there that was not at the start.
Shrunk(d) == \A p \in DOMAIN d.tree : p \in DOMAIN d.start /\ d.tree[p] = d.start[p]

\* While nothing is made, a file at the path of the call stays that.
LEMMA FileTried ==
  ASSUME NEW d, IsTree(d.tree), IsTree(d.start),
         Shrunk(d), NEW c, c.path \in Paths \ {<<>>}, KindAt(d.start, c.path) = "file",
         NEW f \in Paths \ {<<>>}, Beneath(f, c.path)
  PROVE  Names(d.tree, f) = {}
<1> SUFFICES ASSUME NEW g \in Names(d.tree, f) PROVE FALSE
  OBVIOUS
<1>1. g \in DOMAIN d.tree /\ Front(g) = f
  BY NamesFacts
<1>2. g \in Paths \ {<<>>} /\ KindAt(d.tree, f) = "dir" /\ g \in DOMAIN d.start
  BY <1>1 DEF IsTree, Shrunk
<1>3. Beneath(g, c.path) /\ g # c.path
  <2>1. Beneath(g, f) /\ ~Beneath(f, g)
    BY <1>1, <1>2, BeneathFacts
  <2> QED
    BY <1>2, <2>1, BeneathOrder
<1>4. KindAt(d.start, c.path) = "dir"
  BY <1>2, <1>3, ChildBetween
<1> QED
  BY <1>4

\* What the search has before it yet
Ahead(c, p) == \E m \in 1 .. Len(c.queue) : m > c.scan /\ Beneath(p, c.queue[m])
Faces(c, p) == (Searching(c) /\ Ahead(c, p)) \/ (c.at = "scan" /\ Beneath(p, ScanNext(c)))
\* What lies in a folder that cannot be listed is never found; and while there is no error,
\* what cannot be opened is before the search.
LoneShut(d, c) ==
  /\ \A p \in ShutIn(d, c.path) : p \in DOMAIN d.tree /\ p \notin Sought(c)
  /\ c.error = "SUCCESS" =>
       /\ \A u \in Unreadable(d) : Beneath(u, c.path) => u \in DOMAIN d.tree /\ Faces(c, u)
       /\ c.at = "item" => ScanNext(c) \notin Unreadable(d)

LoneFolder(d, c) ==
  /\ c.error \in {"SUCCESS", "NOPERMISSION", "OUTOFFDS"}
  /\ c.error = "NOPERMISSION" =>
       \E q \in (d.denied \cap DOMAIN d.start) \cup Unreadable(d) : Beneath(q, c.path)
  /\ Searching(c) /\ c.scan # 0 =>
       \A m \in 1 .. Len(c.queue) :
         m > c.scan \/ (m = c.scan /\ c.at = "scan") => c.queue[m] \in DOMAIN d.tree
LoneFile(d, c) ==
  /\ d.tree = d.start
  /\ \/ c.at = "scan" /\ c.scan = 0
     \/ c.at = "done" /\ c.error = "TARGETNOTADIRECTORY"
LoneShutFile(c) == (c.at = "scan" /\ c.scan = 0) \/ c.error = "NOPERMISSION"
LoneNothing(d, c) ==
  /\ d.tree = d.start
  /\ \/ c.at = "scan" /\ c.scan = 0 /\ c.queue = <<>>
     \/ c.at \in {"target", "done"} /\ c.error \in {"OUTOFFDS", "OTHERERROR"}
\* How far the call is, by what it was to remove.
Lone(d, c) ==
  /\ c.error = "OUTOFFDS" => d.descriptors = 0
  /\ Shrunk(d) /\ LoneShut(d, c)
  /\ c.at = "scan" /\ c.scan = 0 => c.error = "SUCCESS" /\ d.tree = d.start
  /\ KindAt(d.start, c.path) \in {"dir", "link"} => LoneFolder(d, c)
  /\ KindAt(d.start, c.path) = "file" =>
       \/ c.error = "OUTOFFDS"
       \/ IF c.path \in Unreadable(d) THEN LoneShutFile(c) ELSE LoneFile(d, c)
  /\ KindAt(d.start, c.path) = "none" => LoneNothing(d, c)

\* An item that leaves the queue leaves what is before the search there, and so does
\* going on.
LEMMA UnqueuedAhead ==
  ASSUME NEW c, QueueSound(c), NEW p, Ahead(c, p)
  PROVE  Ahead(Unqueued(c), p)
<1> DEFINE r == Unqueued(c)
<1>1. \/ ~(c.scan \in 1 .. Len(c.queue) - 1) /\ r = c
      \/ /\ c.scan \in 1 .. Len(c.queue) - 1 /\ r.scan = c.scan - 1
         /\ Len(r.queue) = Len(c.queue) - 1
         /\ \A m \in 1 .. Len(r.queue) : r.queue[m] = c.queue[Passed(c.scan, m)]
  BY UnqueuedFacts
<1>2. PICK m \in 1 .. Len(c.queue) : m > c.scan /\ Beneath(p, c.queue[m])
  BY DEF Ahead
<1>3. Len(c.queue) \in Nat /\ c.scan \in 0 .. Len(c.queue)
  BY DEF QueueSound
<1> HIDE DEF r
<1>4. CASE r = c
  BY <1>4 DEF r
<1>5. CASE r # c
  <2>1. m - 1 \in 1 .. Len(r.queue) /\ Passed(c.scan, m - 1) = m /\ m - 1 > r.scan
    BY <1>1, <1>2, <1>3, <1>5 DEF Passed
  <2>2. r.queue[m - 1] = c.queue[m]
    BY <1>1, <1>5, <2>1
  <2> QED
    BY <1>2, <2>1, <2>2 DEF Ahead, r
<1> QED
  BY <1>4, <1>5

LEMMA ToNextFaces ==
  ASSUME NEW c, QueueSound(c), NEW p, Ahead(c, p)
  PROVE  Faces(ToNext(c), p)
<1> DEFINE r == ToNext(c)
<1>1. /\ r.queue = c.queue
      /\ \/ c.scan < Len(c.queue) /\ r.at = "scan" /\ r.scan = c.scan + 1
         \/ c.scan = Len(c.queue)
  BY ToNextFacts
<1>2. PICK m \in 1 .. Len(c.queue) : m > c.scan /\ Beneath(p, c.queue[m])
  BY DEF Ahead
<1>3. Len(c.queue) \in Nat /\ c.scan \in 0 .. Len(c.queue)
  BY DEF QueueSound
<1> HIDE DEF r
<1>4. r.at = "scan" /\ r.scan = c.scan + 1 /\ Searching(r)
  BY <1>1, <1>2, <1>3 DEF Searching
<1>5. CASE m = r.scan
  BY <1>1, <1>2, <1>3, <1>4, <1>5 DEF Faces, ScanNext, r
<1>6. CASE m # r.scan
  <2>1. m \in 1 .. Len(r.queue) /\ m > r.scan /\ Beneath(p, r.queue[m])
    BY <1>1, <1>2, <1>3, <1>4, <1>6
  <2> QED
    BY <1>4, <2>1 DEF Faces, Ahead, r
<1> QED
  BY <1>5, <1>6

\* What lies in folders that cannot be listed is not found.
LEMMA ShutInStays ==
  ASSUME NEW d, IsTree(d.tree), IsTree(d.start), Shrunk(d), NEW c, c.path \in Paths, LoneShut(d, c),
         NEW f \in Sought(c), f \in Paths \ {<<>>}, KindAt(d.tree, f) = "dir", d.tree[f].open = "OK",
         NEW p \in Names(d.tree, f)
  PROVE  p \notin ShutIn(d, c.path)
<1> SUFFICES ASSUME p \in ShutIn(d, c.path) PROVE FALSE
  OBVIOUS
<1>1. PICK u \in Unreadable(d) : Beneath(u, c.path) /\ Beneath(p, u) /\ p # u
  BY DEF ShutIn
<1>2. p \in DOMAIN d.tree /\ Front(p) = f
  BY NamesFacts
<1>3. p \in Paths \ {<<>>} /\ u \in Paths \ {<<>>}
  BY <1>2 DEF IsTree, Unreadable
<1>4. Beneath(f, u)
  BY <1>1, <1>2, <1>3, BeneathFacts
<1>5. f \in DOMAIN d.tree /\ f \in DOMAIN d.start /\ d.start[f] = d.tree[f]
  BY KindFacts DEF Shrunk
<1>6. f # u
  BY <1>5 DEF Unreadable
<1>7. f \in ShutIn(d, c.path)
  BY <1>1, <1>4, <1>5, <1>6 DEF ShutIn
<1> QED
  BY <1>7 DEF LoneShut

LEMMA ScanShut ==
  ASSUME NEW d, IsTree(d.tree), IsTree(d.start), Shrunk(d), NEW c, RemoverSound(c), c.at = "scan",
         Plain(d.tree, c), LoneShut(d, c), NEW r \in ScanResults(d, c), r.path = c.path,
         NEW e, e.tree = d.tree, e.start = d.start
  PROVE  LoneShut(e, r)
<1> DEFINE f == ScanNext(c)
<1>0. /\ QueueSound(c) /\ c.path \in Paths \ {<<>>} /\ Len(c.queue) \in Nat
      /\ c.scan \in 0 .. Len(c.queue) /\ f \in Paths \ {<<>>} /\ f \in Sought(c)
  BY ScanNextFacts DEF RemoverSound, QueueSound, Sought
<1>1. Listed(d, c, r) \/ NoFolder(d, c, r) \/ ToTry(d, c, r) \/ Unlisted(d, c, r)
  BY ScanOutcome
<1>2. ShutIn(e, r.path) = ShutIn(d, c.path) /\ Unreadable(e) = Unreadable(d)
  BY DEF ShutIn, Unreadable
<1>3. Unreadable(d) \subseteq Paths \ {<<>>}
  BY DEF Unreadable, IsTree
<1>4. ASSUME NEW p \in ShutIn(d, c.path), p \in Sought(r) PROVE FALSE
  <2>1. p \notin Sought(c)
    BY <1>4 DEF LoneShut
  <2>2. CASE r.queue = c.queue
    BY <1>4, <2>1, <2>2 DEF Sought
  <2>3. CASE Listed(d, c, r)
    <3>1. p \in Names(d.tree, f)
      BY <1>4, <2>1, <2>3 DEF Listed, Sought
    <3>2. KindAt(d.tree, f) = "dir" /\ d.tree[f].open = "OK"
      BY <2>3 DEF Listed
    <3> QED
      BY <1>0, <1>4, <3>1, <3>2, ShutInStays
  <2> QED
    BY <1>1, <2>2, <2>3 DEF NoFolder, ToTry, Unlisted
<1> HIDE DEF f
<1>5. ASSUME r.error = "SUCCESS", NEW u \in Unreadable(d), Beneath(u, c.path)
      PROVE  u \in DOMAIN d.tree /\ Faces(r, u)
  <2>1. c.error = "SUCCESS" /\ (Listed(d, c, r) \/ ToTry(d, c, r))
    BY <1>1, <1>5 DEF Listed, NoFolder, ToTry, Unlisted
  <2>2. u \in DOMAIN d.tree /\ (Ahead(c, u) \/ Beneath(u, f))
    BY <1>5, <2>1 DEF LoneShut, Faces, f
  <2>3. CASE Listed(d, c, r)
    <3>1. \A m \in 1 .. Len(r.queue) :
             m > c.scan /\ r.at = "scan" /\ Beneath(u, r.queue[m]) => Faces(r, u)
      <4>0. SUFFICES ASSUME NEW m \in 1 .. Len(r.queue), m > c.scan, r.at = "scan",
                            Beneath(u, r.queue[m])
                     PROVE  Faces(r, u)
        OBVIOUS
      <4>1. r.scan = c.scan + 1 /\ Searching(r)
        BY <2>3, <4>0 DEF Listed, Searching
      <4>2. CASE m = r.scan
        <5>1. ScanNext(r) = r.queue[m]
          BY <1>0, <4>1, <4>2 DEF ScanNext
        <5> QED
          BY <4>0, <5>1 DEF Faces
      <4>3. CASE m # r.scan
        <5>1. m > r.scan
          BY <1>0, <4>0, <4>1, <4>3
        <5> QED
          BY <4>0, <4>1, <5>1 DEF Faces, Ahead
      <4> QED
        BY <4>2, <4>3
    <3>2. CASE Ahead(c, u)
      <4>1. PICK m \in 1 .. Len(c.queue) : m > c.scan /\ Beneath(u, c.queue[m])
        BY <3>2 DEF Ahead
      <4>2. m \in 1 .. Len(r.queue) /\ r.queue[m] = c.queue[m]
        BY <2>3, <4>1 DEF Listed
      <4>3. r.at = "scan"
        BY <2>3, <4>1, <4>2 DEF Listed
      <4> QED
        BY <2>2, <3>1, <4>1, <4>2, <4>3
    <3>3. CASE Beneath(u, f)
      <4>1. u # f
        <5>1. u = f => d.start[f] = d.tree[f]
          BY <2>2 DEF Shrunk
        <5> QED
          BY <2>3, <5>1 DEF Listed, Unreadable, f
      <4>2. PICK g \in Names(d.tree, f) : Beneath(u, g)
        BY <1>0, <1>3, <2>2, <3>3, <4>1, ChildBetween
      <4>3. r.at = "scan" /\ \E m \in 1 .. Len(r.queue) : m > Len(c.queue) /\ r.queue[m] = g
        BY <2>3, <4>2 DEF Listed, f
      <4>4. PICK m \in 1 .. Len(r.queue) : m > Len(c.queue) /\ r.queue[m] = g
        BY <4>3
      <4>5. m > c.scan
        BY <1>0, <4>4
      <4> QED
        BY <2>2, <3>1, <4>2, <4>3, <4>4, <4>5
    <3> QED
      BY <2>2, <3>2, <3>3
  <2>4. CASE ToTry(d, c, r)
    <3>1. Ahead(c, u)
      <4>1. u = f => FALSE
        <5>1. u = f => d.start[f] = d.tree[f]
          BY <2>2 DEF Shrunk
        <5>2. f \in DOMAIN d.tree => KindAt(d.tree, f) = d.tree[f].k
          BY <1>0, KindFacts
        <5> QED
          BY <2>2, <2>4, <5>1, <5>2 DEF ToTry, Unreadable, f
      <4>2. Beneath(u, f) /\ u # f => FALSE
        BY <1>0, <1>3, <2>2, <2>4, ChildBetween DEF ToTry, f
      <4> QED
        BY <2>2, <4>1, <4>2
    <3> QED
      BY <2>2, <2>4, <3>1 DEF ToTry, Faces, Ahead, Searching
  <2> QED
    BY <2>1, <2>2, <2>3, <2>4
<1>6. ASSUME r.at = "item", r.error = "SUCCESS" PROVE ScanNext(r) \notin Unreadable(d)
  <2>1. ToTry(d, c, r)
    BY <1>1, <1>6 DEF Listed, NoFolder, Unlisted
  <2>2. ScanNext(r) = f
    BY <2>1 DEF ToTry, ScanNext, f
  <2>3. f \in DOMAIN d.tree /\ KindAt(d.tree, f) = d.tree[f].k
    BY <1>0, <2>1, KindFacts DEF ToTry, f
  <2>4. d.start[f] = d.tree[f]
    BY <2>3 DEF Shrunk
  <2> QED
    BY <2>1, <2>2, <2>3, <2>4 DEF ToTry, Unreadable, f
<1>7. \A p \in ShutIn(d, c.path) : p \in DOMAIN d.tree
  BY DEF LoneShut
<1> QED
  BY <1>2, <1>4, <1>5, <1>6, <1>7 DEF LoneShut

\* A search leaves the call as it should be.
LEMMA LoneScan ==
  ASSUME NEW d, IsTree(d.tree), IsTree(d.start), NEW c, RemoverSound(c), c.at = "scan", Plain(d.tree, c),
         QueueOrdered(c), Lone(d, c), NEW r \in ScanResults(d, c), r.path = c.path,
         NEW e, e.tree = d.tree, e.start = d.start, e.denied = d.denied,
         d.descriptors = 0 => e.descriptors = 0
  PROVE  Lone(e, r)
<1> DEFINE f == ScanNext(c)
           kind == KindAt(d.start, c.path)
<1>0. /\ QueueSound(c) /\ c.path \in Paths \ {<<>>} /\ Len(c.queue) \in Nat
      /\ c.scan \in 0 .. Len(c.queue)
      /\ (c.scan = 0 => f = c.path /\ c.queue = <<>> /\ Len(c.queue) = 0)
      /\ (c.scan # 0 => c.scan \in 1 .. Len(c.queue) /\ f = c.queue[c.scan])
  <2>1. QueueSound(c)
    BY DEF RemoverSound
  <2>2. c.path \in Paths \ {<<>>} /\ Len(c.queue) \in Nat /\ c.scan \in 0 .. Len(c.queue)
    BY <2>1 DEF QueueSound
  <2>3. c.scan = 0 => c.queue = <<>>
    BY DEF QueueOrdered, Searching
  <2>4. /\ c.scan # 0 => c.scan \in 1 .. Len(c.queue) /\ f = c.queue[c.scan]
        /\ c.scan = 0 => f = c.path
    BY <2>1, ScanNextFacts
  <2>5. c.queue = <<>> => Len(c.queue) = 0
    OBVIOUS
  <2> QED
    BY <2>1, <2>2, <2>3, <2>4, <2>5
<1>1. Listed(d, c, r) \/ NoFolder(d, c, r) \/ ToTry(d, c, r) \/ Unlisted(d, c, r)
  BY ScanOutcome
<1>2. c.scan = 0 => c.error = "SUCCESS" /\ d.tree = d.start
  BY DEF Lone
<1>3. f \in Paths \ {<<>>} /\ Beneath(f, c.path)
  BY <1>0, ScanNextFacts
<1>4. KindAt(d.tree, f) # "none" <=> f \in DOMAIN d.tree
  BY <1>3, KindFacts
<1>5. r.error = "OUTOFFDS" => e.descriptors = 0
  BY <1>1, <1>2 DEF Listed, NoFolder, ToTry, Unlisted, Lone
<1>6. ~(r.at = "scan" /\ r.scan = 0)
  BY <1>0, <1>1 DEF Listed, NoFolder, ToTry, Unlisted
<1>10. Shrunk(d) /\ LoneShut(d, c) /\ Unreadable(e) = Unreadable(d)
  BY DEF Lone, Unreadable
<1>11. Shrunk(e) /\ LoneShut(e, r)
  <2>1. Shrunk(e)
    BY <1>10 DEF Shrunk
  <2> QED
    BY <1>10, <2>1, ScanShut
<1>7. ASSUME kind \in {"dir", "link"} PROVE LoneFolder(e, r)
  <2>1. LoneFolder(d, c)
    BY <1>7 DEF Lone
  <2>2. f \in DOMAIN d.tree
    <3>1. CASE c.scan = 0
      BY <1>0, <1>2, <1>4, <1>7, <3>1
    <3>2. CASE c.scan # 0
      BY <1>0, <2>1, <3>2 DEF LoneFolder, Searching
    <3> QED
      BY <3>1, <3>2
  <2>3. ~NoFolder(d, c, r)
    BY <1>2, <1>7 DEF NoFolder
  <2>4. /\ r.error \in {"SUCCESS", "NOPERMISSION", "OUTOFFDS"}
        /\ r.error = "NOPERMISSION" => c.error = r.error \/ Closed(d.tree, f)
    BY <1>1, <2>1, <2>2, <2>3 DEF Listed, ToTry, Unlisted, LoneFolder
  <2>8. Closed(d.tree, f) => f \in Unreadable(d)
    BY <1>10, NoLinkFacts DEF Closed, Shrunk, Unreadable
  <2>5. r.error = "NOPERMISSION" =>
          \E q \in (e.denied \cap DOMAIN e.start) \cup Unreadable(e) : Beneath(q, r.path)
    BY <1>3, <2>1, <2>4, <2>8 DEF LoneFolder, Unreadable
  <2>6. ASSUME NEW m \in 1 .. Len(c.queue), m > c.scan, r.scan # 0
        PROVE  c.queue[m] \in DOMAIN d.tree
    <3>1. c.scan # 0
      BY <1>0, <2>6
    <3> QED
      BY <2>1, <2>6, <3>1 DEF LoneFolder, Searching
  <2>7. ASSUME Searching(r), r.scan # 0, NEW m \in 1 .. Len(r.queue),
               m > r.scan \/ (m = r.scan /\ r.at = "scan")
        PROVE  r.queue[m] \in DOMAIN d.tree
    <3>1. CASE Listed(d, c, r)
      <4>1. r.scan = c.scan + 1 /\ (m > r.scan \/ m = r.scan)
        BY <2>7, <3>1 DEF Listed, Searching
      <4>2. CASE m \in 1 .. Len(c.queue) /\ r.queue[m] = c.queue[m]
        <5>1. m > c.scan
          BY <1>0, <4>1, <4>2
        <5> QED
          BY <2>6, <2>7, <4>2, <5>1
      <4>3. CASE r.queue[m] \in Names(d.tree, f)
        BY <4>3 DEF Names
      <4> QED
        BY <3>1, <4>2, <4>3 DEF Listed
    <3>2. CASE ToTry(d, c, r)
      <4>1. m \in 1 .. Len(c.queue) /\ m > c.scan /\ r.queue = c.queue
        BY <2>7, <3>2 DEF ToTry
      <4> QED
        BY <2>6, <2>7, <4>1
    <3>3. CASE Unlisted(d, c, r)
      <4>1. r.scan = c.scan + 1 /\ (m > r.scan \/ m = r.scan) /\ r.queue = c.queue
        BY <2>7, <3>3 DEF Unlisted, Searching
      <4>2. m \in 1 .. Len(c.queue) /\ m > c.scan
        BY <1>0, <2>7, <4>1
      <4> QED
        BY <2>6, <2>7, <4>1, <4>2
    <3> QED
      BY <1>1, <2>3, <3>1, <3>2, <3>3
  <2> QED
    BY <2>4, <2>5, <2>7 DEF LoneFolder
<1>8. ASSUME kind = "file"
      PROVE  \/ r.error = "OUTOFFDS"
             \/ IF r.path \in Unreadable(e) THEN LoneShutFile(r) ELSE LoneFile(e, r)
  <2>1. CASE c.error \in {"OUTOFFDS", "NOPERMISSION"} /\ r.error = c.error
    <3>1. CASE c.path \in Unreadable(d) \/ c.error = "OUTOFFDS"
      BY <1>10, <2>1, <3>1 DEF LoneShutFile
    <3>2. CASE c.path \notin Unreadable(d) /\ c.error # "OUTOFFDS"
      <4>1. LoneFile(d, c)
        BY <1>8, <3>2 DEF Lone
      <4> QED
        BY <1>2, <2>1, <4>1 DEF LoneFile
    <3> QED
      BY <3>1, <3>2
  <2>2. CASE c.error = "SUCCESS" /\ c.scan = 0
    <3>1. d.tree = d.start /\ f = c.path
      BY <1>0, <1>2, <2>2
    <3>2. KindAt(d.tree, f) = "file" /\ f \in DOMAIN d.tree
      BY <1>4, <1>8, <3>1
    <3>6. KindAt(d.tree, f) = d.tree[f].k
      BY <1>3, <3>2, KindFacts
    <3>7. f \in Unreadable(d) <=> d.tree[f].open # "OK"
      BY <3>1, <3>2, <3>6 DEF Unreadable
    <3>3. ~Listed(d, c, r) /\ ~ToTry(d, c, r)
      BY <2>2, <3>1, <3>2 DEF Listed, ToTry
    <3>4. CASE NoFolder(d, c, r)
      BY <1>10, <3>1, <3>4, <3>7 DEF NoFolder, LoneFile
    <3>5. CASE Unlisted(d, c, r)
      <4>1. CASE r.error = "OUTOFFDS"
        BY <4>1
      <4>2. CASE r.error = "NOPERMISSION" /\ Closed(d.tree, f)
        BY <1>10, <3>1, <3>7, <4>2 DEF Closed, LoneShutFile
      <4> QED
        BY <2>2, <3>2, <3>5, <4>1, <4>2 DEF Unlisted
    <3> QED
      BY <1>1, <3>3, <3>4, <3>5
  <2>3. c.scan = 0 => c.error = "SUCCESS"
    BY <1>2
  <2>4. c.scan # 0 => c.error \in {"OUTOFFDS", "NOPERMISSION"}
    BY <1>8 DEF Lone, LoneFile, LoneShutFile
  <2>5. c.scan # 0 => ~NoFolder(d, c, r)
    BY DEF NoFolder
  <2>6. c.scan # 0 => r.error = c.error
    BY <1>1, <2>4, <2>5 DEF Listed, ToTry, Unlisted
  <2> QED
    BY <2>1, <2>2, <2>3, <2>4, <2>6
<1>9. ASSUME kind = "none" PROVE LoneNothing(e, r)
  <2>1. LoneNothing(d, c)
    BY <1>9 DEF Lone
  <2>2. c.scan = 0 /\ c.queue = <<>> /\ d.tree = d.start /\ c.error = "SUCCESS"
    BY <1>2, <2>1 DEF LoneNothing
  <2>3. KindAt(d.tree, f) = "none" /\ f = c.path
    BY <1>0, <1>9, <2>2
  <2>4. Unlisted(d, c, r)
    BY <1>1, <2>3 DEF Listed, NoFolder, ToTry
  <2>5. ~Closed(d.tree, f)
    BY <1>4, <2>3 DEF Closed
  <2> QED
    BY <2>2, <2>4, <2>5 DEF Unlisted, LoneNothing
<1> QED
  BY <1>5, <1>6, <1>7, <1>8, <1>9, <1>11 DEF Lone

\* What trying to remove something leaves.
LEMMA TryLeaves ==
  ASSUME NEW d, IsDisk(d), IsTree(d.tree), NEW f \in Paths \ {<<>>}
  PROVE  LET e == AfterRemove(d, f)
         IN /\ e.start = d.start /\ e.denied = d.denied /\ e.descriptors = d.descriptors
            /\ RemoveErrno(d, f) = "OK" => WayOpen(d.tree, f) /\ EntryAt(d.tree, f) \in DOMAIN d.tree
            /\ RemoveErrno(d, f) # "OK" => e.tree = d.tree
            /\ \A p \in DOMAIN d.tree : p # EntryAt(d.tree, f) => p \in DOMAIN e.tree
<1> DEFINE e == AfterRemove(d, f)
           at == EntryAt(d.tree, f)
<1>1. /\ e.start = d.start /\ e.denied = d.denied /\ e.descriptors = d.descriptors
      /\ RemoveErrno(d, f) = "OK" =>
            /\ DOMAIN e.tree = DOMAIN d.tree \ {at}
            /\ WayOpen(d.tree, f) /\ at \in DOMAIN d.tree
      /\ RemoveErrno(d, f) # "OK" => e.tree = d.tree
  BY RemoveFacts
<1> QED
  BY <1>1

\* A try takes nothing but what is tried.
LEMMA LeftAfterTry ==
  ASSUME NEW d, IsDisk(d), IsTree(d.tree), NEW c, QueueSound(c), Plain(d.tree, c),
         NEW f \in Sought(c), f \in Paths \ {<<>>}, NEW p \in DOMAIN d.tree, p # f
  PROVE  p \in DOMAIN AfterRemove(d, f).tree
<1>1. /\ RemoveErrno(d, f) = "OK" => WayOpen(d.tree, f) /\ EntryAt(d.tree, f) \in DOMAIN d.tree
      /\ RemoveErrno(d, f) # "OK" => AfterRemove(d, f).tree = d.tree
      /\ p # EntryAt(d.tree, f) => p \in DOMAIN AfterRemove(d, f).tree
  BY TryLeaves
<1>2. WayOpen(d.tree, f) => EntryAt(d.tree, f) = f
  BY DEF Plain
<1> QED
  BY <1>1, <1>2

LEMMA TryShut ==
  ASSUME NEW d, IsDisk(d), IsTree(d.tree), Shrunk(d), NEW c, QueueSound(c),
         c.at \in {"item", "rest", "target"}, Plain(d.tree, c), NEW f \in Sought(c), f \in Paths \ {<<>>},
         LoneShut(d, c), NEW r, r.path = c.path, r.error = Noting(c, RemoveFileOrEmptyDir(d, f)).error,
         r.at # "item", Sought(r) \subseteq Sought(c),
         c.at = "item" => f = ScanNext(c) /\ \A u : Ahead(c, u) => Faces(r, u)
  PROVE  Shrunk(AfterRemove(d, f)) /\ LoneShut(AfterRemove(d, f), r)
<1> DEFINE e == AfterRemove(d, f)
<1>1. /\ DOMAIN e.tree \subseteq DOMAIN d.tree /\ e.start = d.start
      /\ \A p \in DOMAIN e.tree : e.tree[p] = d.tree[p]
  BY RemoveShrinks
<1>2. \A p \in DOMAIN d.tree : p # f => p \in DOMAIN e.tree
  BY LeftAfterTry
<1> HIDE DEF e
<1>3. ShutIn(e, r.path) = ShutIn(d, c.path) /\ Unreadable(e) = Unreadable(d)
  BY <1>1 DEF ShutIn, Unreadable
<1>4. Shrunk(e)
  BY <1>1 DEF Shrunk
<1>5. r.error = "SUCCESS" => c.error = "SUCCESS"
  BY NotingFacts
<1>6. ASSUME NEW p \in ShutIn(d, c.path) PROVE p \in DOMAIN e.tree /\ p \notin Sought(r)
  BY <1>2, <1>6 DEF LoneShut
<1>7. ASSUME c.error = "SUCCESS", NEW u \in Unreadable(d), Beneath(u, c.path)
      PROVE  u \in DOMAIN e.tree /\ Faces(r, u)
  <2>1. u \in DOMAIN d.tree /\ Faces(c, u)
    BY <1>7 DEF LoneShut
  <2>2. c.at = "item" /\ Ahead(c, u)
    BY <2>1 DEF Faces, Searching
  <2>3. u # f
    BY <1>7, <2>2 DEF LoneShut
  <2> QED
    BY <1>2, <2>1, <2>2, <2>3
<1>8. LoneShut(e, r)
  BY <1>3, <1>5, <1>6, <1>7 DEF LoneShut
<1> QED
  BY <1>4, <1>8 DEF e

\* So does trying to remove something, whatever step tries it.
LEMMA LoneTry ==
  ASSUME NEW d, Steady(d, {}), NEW c, QueueSound(c), c.at \in {"item", "rest", "target"},
         Plain(d.tree, c), NEW f \in Sought(c), Tried(d, {}, c, f), Lone(d, c),
         NEW r, r.path = c.path, r.error = Noting(c, RemoveFileOrEmptyDir(d, f)).error,
         r.at \in {"scan", "rest", "target", "done"}, r.at = "scan" => r.scan # 0,
         c.at = "target" => r.at = "done" /\ f = c.path,
         r.at = "scan" /\ LoneFolder(d, c) =>
           \A m \in 1 .. Len(r.queue) : m >= r.scan => r.queue[m] \in DOMAIN AfterRemove(d, f).tree,
         r.at = "scan" => r.scan \in Int, Sought(r) \subseteq Sought(c),
         c.at = "item" => f = ScanNext(c) /\ \A u : Ahead(c, u) => Faces(r, u)
  PROVE  Lone(AfterRemove(d, f), r)
<1> DEFINE e == AfterRemove(d, f)
           kind == KindAt(d.start, c.path)
<1>0. IsDisk(d) /\ IsTree(d.tree) /\ c.path \in Paths \ {<<>>}
  BY DEF Steady, QueueSound
<1>1. f \in Paths \ {<<>>} /\ Beneath(f, c.path)
  <2>1. CASE f = c.path
    BY <1>0, <2>1, BeneathFacts
  <2>2. CASE \E m \in 1 .. Len(c.queue) : f = c.queue[m]
    BY <2>2, ItemFacts DEF QueueSound
  <2> QED
    BY <2>1, <2>2 DEF Sought
<1>2. /\ e.start = d.start /\ e.denied = d.denied /\ e.descriptors = d.descriptors
      /\ RemoveErrno(d, f) = "OK" => WayOpen(d.tree, f) /\ EntryAt(d.tree, f) \in DOMAIN d.tree
      /\ RemoveErrno(d, f) # "OK" => e.tree = d.tree
  BY <1>0, <1>1, TryLeaves
<1>9. Shrunk(e) /\ LoneShut(e, r)
  <2>1. Shrunk(d) /\ LoneShut(d, c) /\ r.at # "item"
    BY DEF Lone
  <2> QED
    BY <1>0, <1>1, <2>1, TryShut
<1> HIDE DEF e
<1>10. Unreadable(e) = Unreadable(d)
  BY <1>2 DEF Unreadable
<1>3. \/ r.error = c.error
      \/ c.error = "SUCCESS" /\ r.error = "NOPERMISSION" /\ f \in d.denied \cap DOMAIN d.tree
  BY TryNotes
<1>4. r.error = "OUTOFFDS" => e.descriptors = 0
  BY <1>2, <1>3 DEF Lone
<1>5. ASSUME kind \in {"dir", "link"} PROVE LoneFolder(e, r)
  <2>1. LoneFolder(d, c)
    BY <1>5 DEF Lone
  <2>2. r.error \in {"SUCCESS", "NOPERMISSION", "OUTOFFDS"}
    BY <1>3, <2>1 DEF LoneFolder
  <2>3. r.error = "NOPERMISSION" =>
          \E q \in (e.denied \cap DOMAIN e.start) \cup Unreadable(e) : Beneath(q, r.path)
    <3>1. f \in DOMAIN d.tree => f \in DOMAIN d.start
      BY DEF Steady
    <3> QED
      BY <1>1, <1>2, <1>3, <1>10, <2>1, <3>1 DEF LoneFolder
  <2>4. Searching(r) => r.at = "scan"
    BY DEF Searching
  <2>5. ASSUME r.at = "scan", NEW m \in 1 .. Len(r.queue),
               m > r.scan \/ (m = r.scan /\ r.at = "scan")
        PROVE  r.queue[m] \in DOMAIN e.tree
    <3>1. m >= r.scan
      BY <2>5
    <3> QED
      BY <2>1, <2>5, <3>1 DEF e
  <2> QED
    BY <2>2, <2>3, <2>4, <2>5 DEF LoneFolder
<1>6. ASSUME kind = "file"
      PROVE  \/ r.error = "OUTOFFDS"
             \/ IF r.path \in Unreadable(e) THEN LoneShutFile(r) ELSE LoneFile(e, r)
  <2>1. \/ c.error = "OUTOFFDS"
        \/ IF c.path \in Unreadable(d) THEN LoneShutFile(c) ELSE LoneFile(d, c)
    BY <1>6 DEF Lone
  <2>2. ~LoneFile(d, c)
    BY DEF LoneFile
  <2>3. LoneShutFile(c) => c.error = "NOPERMISSION"
    BY DEF LoneShutFile
  <2> QED
    BY <1>3, <1>10, <2>1, <2>2, <2>3 DEF LoneShutFile
<1>7. ASSUME kind = "none" PROVE LoneNothing(e, r)
  <2>0. LoneNothing(d, c)
    BY <1>7 DEF Lone
  <2>1. c.at = "target" /\ c.error \in {"OUTOFFDS", "OTHERERROR"} /\ d.tree = d.start
    BY <2>0 DEF LoneNothing
  <2>2. RemoveErrno(d, f) # "OK"
    <3>1. SUFFICES ASSUME RemoveErrno(d, f) = "OK" PROVE FALSE
      OBVIOUS
    <3>2. f \in DOMAIN d.tree
      BY <1>2, <3>1 DEF Plain
    <3> QED
      BY <1>0, <1>1, <1>7, <2>1, <3>2, KindFacts
  <2> QED
    BY <1>2, <1>3, <2>1, <2>2 DEF LoneNothing
<1>8. Lone(e, r)
  BY <1>2, <1>4, <1>5, <1>6, <1>7, <1>9 DEF Lone
<1> QED
  BY <1>8 DEF e

\* The file that was to be a folder holds nothing.
LEMMA LoneTried ==
  ASSUME NEW d, Steady(d, {}), NEW c, QueueSound(c), Lone(d, c), NEW f \in Sought(c),
         KindAt(d.start, c.path) # "file" => Tried(d, {}, c, f)
  PROVE  Tried(d, {}, c, f)
<1>1. CASE KindAt(d.start, c.path) = "file"
  <2>1. Shrunk(d) /\ IsTree(d.tree) /\ IsTree(d.start) /\ c.path \in Paths \ {<<>>}
    BY DEF Lone, Steady, QueueSound
  <2>2. f \in Paths \ {<<>>} /\ Beneath(f, c.path)
    BY <2>1, ItemFacts, BeneathFacts DEF Sought, QueueSound
  <2>3. Names(d.tree, f) = {}
    BY <1>1, <2>1, <2>2, FileTried
  <2> QED
    BY <2>3 DEF Tried
<1> QED
  BY <1>1

\* The three steps that try to remove something.
LEMMA ItemLone ==
  ASSUME NEW d, Steady(d, {}), NEW c, RemoverSound(c), c.at = "item", Plain(d.tree, c),
         QueueOrdered(c), Lone(d, c), KindAt(d.start, c.path) # "file" => Covered(d, {}, c)
  PROVE  LET f == ScanNext(c)
         IN Lone(AfterRemove(d, f), ToNext(Unqueued(Noting(c, RemoveFileOrEmptyDir(d, f)))))
<1> DEFINE f == ScanNext(c)
           noted == Noting(c, RemoveFileOrEmptyDir(d, f))
           u == Unqueued(noted)
           r == ToNext(u)
<1>0. /\ QueueSound(c) /\ IsDisk(d) /\ IsTree(d.tree) /\ f \in Sought(c)
      /\ f \in Paths \ {<<>>} /\ Len(c.queue) \in Nat /\ c.scan \in 0 .. Len(c.queue)
  <2>1. QueueSound(c) /\ IsDisk(d) /\ IsTree(d.tree)
    BY DEF RemoverSound, Steady
  <2>2. /\ f \in Paths \ {<<>>}
        /\ c.scan # 0 => c.scan \in 1 .. Len(c.queue) /\ f = c.queue[c.scan]
        /\ c.scan = 0 => f = c.path
    BY <2>1, ScanNextFacts
  <2>3. f \in Sought(c)
    BY <2>2 DEF Sought
  <2>4. Len(c.queue) \in Nat /\ c.scan \in 0 .. Len(c.queue)
    BY <2>1 DEF QueueSound
  <2> QED
    BY <2>1, <2>2, <2>3, <2>4
<1>1. Tried(d, {}, c, f)
  BY <1>0, ItemTried, LoneTried
<1>2. /\ QueueSound(noted) /\ noted.path = c.path /\ noted.at = c.at /\ noted.queue = c.queue
      /\ noted.scan = c.scan
  BY <1>0, NotingFacts
<1> HIDE DEF noted
<1>3. /\ QueueSound(u) /\ u.path = noted.path /\ u.error = noted.error
      /\ \/ ~(noted.scan \in 1 .. Len(noted.queue) - 1) /\ u = noted
         \/ /\ noted.scan \in 1 .. Len(noted.queue) - 1 /\ u.scan = noted.scan - 1
            /\ Len(u.queue) = Len(noted.queue) - 1
            /\ \A m \in 1 .. Len(u.queue) :
                  u.queue[m] = noted.queue[Passed(noted.scan, m)]
                  /\ Passed(noted.scan, m) \in 1 .. Len(noted.queue)
  BY <1>2, UnqueuedFacts
<1> HIDE DEF u
<1>4. /\ RemoverSound(r) /\ r.path = u.path /\ r.queue = u.queue /\ r.error = u.error
      /\ \/ u.scan < Len(u.queue) /\ r.at = "scan" /\ r.scan = u.scan + 1
         \/ u.scan = Len(u.queue) /\ r.queue = <<>> /\ r.at = "target"
         \/ u.scan = Len(u.queue) /\ r.at = "rest" /\ r.k = Len(u.queue)
  BY <1>3, ToNextFacts
<1> HIDE DEF r
<1>5. ASSUME r.at = "scan"
      PROVE  /\ c.scan \in 1 .. Len(c.queue) - 1 /\ u.scan = c.scan - 1 /\ r.scan = c.scan
             /\ Len(u.queue) = Len(c.queue) - 1
             /\ \A m \in 1 .. Len(u.queue) :
                  u.queue[m] = c.queue[Passed(c.scan, m)] /\ Passed(c.scan, m) \in 1 .. Len(c.queue)
  <2>1. u.scan < Len(u.queue) /\ r.scan = u.scan + 1
    BY <1>4, <1>5
  <2>2. c.scan = 0 => Len(c.queue) = 0
    BY DEF QueueOrdered, Searching
  <2>3. c.scan \in 1 .. Len(c.queue) - 1
    BY <1>0, <1>2, <1>3, <2>1, <2>2
  <2> QED
    BY <1>0, <1>2, <1>3, <2>1, <2>3
<1>6. ASSUME r.at = "scan", LoneFolder(d, c), NEW m \in 1 .. Len(r.queue), m >= r.scan
      PROVE  r.queue[m] \in DOMAIN AfterRemove(d, f).tree
  <2>1. /\ c.scan \in 1 .. Len(c.queue) - 1 /\ r.scan = c.scan /\ Len(u.queue) = Len(c.queue) - 1
        /\ u.queue[m] = c.queue[Passed(c.scan, m)]
    BY <1>4, <1>5, <1>6
  <2>2. m \in Int /\ m + 1 \in 1 .. Len(c.queue) /\ Passed(c.scan, m) = m + 1 /\ m + 1 > c.scan
    BY <1>0, <1>4, <1>6, <2>1 DEF Passed
  <2>3. r.queue[m] = c.queue[m + 1]
    BY <1>4, <2>1, <2>2
  <2>4. c.queue[m + 1] \in DOMAIN d.tree
    BY <1>0, <1>6, <2>1, <2>2 DEF LoneFolder, Searching
  <2>5. f = c.queue[c.scan]
    BY <1>0, <2>1, ScanNextFacts
  <2>6. m + 1 # c.scan /\ c.scan \in 1 .. Len(c.queue)
    BY <1>0, <2>1, <2>2
  <2>7. c.queue[m + 1] # f
    BY <2>2, <2>5, <2>6 DEF QueueOrdered, OrderedTo
  <2>8. c.queue[m + 1] \in DOMAIN AfterRemove(d, f).tree
    BY <1>0, <2>4, <2>7, LeftAfterTry
  <2> QED
    BY <2>3, <2>8
<1>7. r.path = c.path /\ r.error = noted.error /\ r.at \in {"scan", "rest", "target", "done"}
  BY <1>2, <1>3, <1>4
<1>8. r.at = "scan" => r.scan # 0 /\ r.scan \in Int
  BY <1>0, <1>5
<1>9. r.error = Noting(c, RemoveFileOrEmptyDir(d, f)).error
  BY <1>7 DEF noted
<1>10. \A m \in 1 .. Len(r.queue) :
         r.at = "scan" /\ LoneFolder(d, c) /\ m >= r.scan =>
           r.queue[m] \in DOMAIN AfterRemove(d, f).tree
  BY <1>6
<1>12. Sought(r) \subseteq Sought(c)
  <2>1. \A m \in 1 .. Len(u.queue) : \E o \in 1 .. Len(c.queue) : u.queue[m] = c.queue[o]
    BY <1>2, <1>3
  <2> QED
    BY <1>4, <1>7, <2>1 DEF Sought
<1>13. ASSUME NEW p, Ahead(c, p) PROVE Faces(r, p)
  <2>1. Ahead(noted, p)
    BY <1>2, <1>13 DEF Ahead
  <2>2. Ahead(u, p)
    BY <1>2, <2>1, UnqueuedAhead DEF u
  <2> QED
    BY <1>3, <2>2, ToNextFaces DEF r
<1>11. Lone(AfterRemove(d, f), r)
  <2>1. f = ScanNext(c)
    OBVIOUS
  <2> HIDE DEF f
  <2> QED
    BY <1>0, <1>1, <1>7, <1>8, <1>9, <1>10, <1>12, <1>13, <2>1, LoneTry
<1> QED
  BY <1>11 DEF r, u, noted

LEMMA RestLone ==
  ASSUME NEW d, Steady(d, {}), NEW c, RemoverSound(c), c.at = "rest", Plain(d.tree, c),
         QueueOrdered(c), Lone(d, c), KindAt(d.start, c.path) # "file" => Covered(d, {}, c)
  PROVE  LET f == c.queue[c.k]
         IN Lone(AfterRemove(d, f), RestAfter(c, Noting(c, RemoveFileOrEmptyDir(d, f))))
<1> DEFINE f == c.queue[c.k]
           r == RestAfter(c, Noting(c, RemoveFileOrEmptyDir(d, f)))
<1>0. /\ QueueSound(c) /\ IsDisk(d) /\ IsTree(d.tree) /\ f \in Sought(c)
  BY DEF RemoverSound, Steady, Sought
<1>1. Tried(d, {}, c, f)
  <2>1. KindAt(d.start, c.path) # "file" => Tried(d, {}, c, f)
    BY <1>0, RestTried
  <2> QED
    BY <1>0, <2>1, LoneTried
<1>2. /\ r.path = c.path /\ r.queue = c.queue /\ r.at = (IF c.k = 1 THEN "target" ELSE "rest")
      /\ r.error = Noting(c, RemoveFileOrEmptyDir(d, f)).error
  BY <1>0, RestAfterFacts
<1> HIDE DEF r
<1>3. r.at \in {"scan", "rest", "target", "done"} /\ r.at # "scan"
  BY <1>2
<1>5. Sought(r) \subseteq Sought(c)
  BY <1>2 DEF Sought
<1>4. Lone(AfterRemove(d, f), r)
  <2> HIDE DEF f
  <2> QED
    BY <1>0, <1>1, <1>2, <1>3, <1>5, LoneTry
<1> QED
  BY <1>4 DEF r

LEMMA TargetLone ==
  ASSUME NEW d, Steady(d, {}), NEW c, RemoverSound(c), c.at = "target", Plain(d.tree, c),
         QueueOrdered(c), Lone(d, c), KindAt(d.start, c.path) # "file" => Covered(d, {}, c)
  PROVE  Lone(AfterRemove(d, c.path), Ended(c, Noting(c, RemoveFileOrEmptyDir(d, c.path)).error))
<1> DEFINE error == Noting(c, RemoveFileOrEmptyDir(d, c.path)).error
           r == Ended(c, error)
<1>0. /\ QueueSound(c) /\ IsDisk(d) /\ IsTree(d.tree) /\ c.path \in Sought(c)
  BY DEF RemoverSound, Steady, Sought
<1>1. Tried(d, {}, c, c.path)
  <2>1. KindAt(d.start, c.path) # "file" => Tried(d, {}, c, c.path)
    BY <1>0, TargetTried
  <2> QED
    BY <1>0, <2>1, LoneTried
<1>2. r.path = c.path /\ r.queue = c.queue /\ r.at = "done" /\ r.error = error
  BY <1>0, EndedFacts
<1> HIDE DEF r
<1>3. r.at \in {"scan", "rest", "target", "done"} /\ r.at # "scan"
  BY <1>2
<1>5. Sought(r) \subseteq Sought(c)
  BY <1>2 DEF Sought
<1>4. Lone(AfterRemove(d, c.path), r)
  BY <1>0, <1>1, <1>2, <1>3, <1>5, LoneTry
<1> QED
  BY <1>4 DEF r

Alone(i) == DOMAIN disk.calls = {i} /\ disk.calls[i].what = "remove"
LoneInv == \A i \in DOMAIN disk.calls : Alone(i) => Lone(disk, disk.calls[i])
LoneStep(i) == Alone(i) => Lone(disk', disk'.calls[i])

\* A call that removes, alone: nothing is created.
LEMMA AloneCreatesNothing ==
  ASSUME NEW i, Alone(i)
  PROVE  Created = {}
<1>1. {c \in Calls : c.what = "create"} = {}
  BY DEF Alone, Calls
<1> QED
  BY <1>1 DEF Created

LEMMA LoneSame ==
  ASSUME NEW d, NEW e, e.tree = d.tree, e.start = d.start, e.denied = d.denied,
         e.descriptors = d.descriptors, NEW c, Lone(d, c)
  PROVE  Lone(e, c)
BY DEF Lone, LoneFolder, LoneFile, LoneNothing, LoneShut, LoneShutFile, Shrunk, ShutIn, Unreadable

\* A call alone, as the steps of it find it
LEMMA AloneFacts ==
  ASSUME IInv, AllUnlinked, CoverInv, LoneInv, NEW i \in DOMAIN disk.calls, Alone(i)
  PROVE  LET c == disk.calls[i]
         IN /\ Steady(disk, {}) /\ RemoverSound(c) /\ QueueSound(c) /\ SearchUnlinked(disk.tree, c)
            /\ Plain(disk.tree, c) /\ QueueOrdered(c) /\ Lone(disk, c)
            /\ KindAt(disk.start, c.path) # "file" => Covered(disk, {}, c)
<1> DEFINE c == disk.calls[i]
<1>1. c.what = "remove" /\ Created = {}
  BY AloneCreatesNothing DEF Alone
<1>2. Steady(disk, {}) /\ Plain(disk.tree, c)
  BY <1>1, SteadyDisk, PlainRemovers
<1>3. RemoverSound(c) /\ SearchUnlinked(disk.tree, c)
  <2>1. CallSound(disk.tree, c)
    BY CallOf
  <2> QED
    BY <1>1, <2>1 DEF CallSound, CreatorSound, IsCreator
<1>4. QueueOrdered(c) /\ (KindAt(disk.start, c.path) # "file" => Covered(disk, {}, c))
  BY <1>1 DEF CoverInv, CallCovered
<1>5. Lone(disk, c)
  BY DEF LoneInv
<1> QED
  BY <1>2, <1>3, <1>4, <1>5 DEF RemoverSound

\* The same as steps of the system.
LEMMA ScanLoneStep ==
  ASSUME IInv, AllUnlinked, CoverInv, LoneInv, NEW i \in DOMAIN disk.calls, ScanItem(i)
  PROVE  LoneStep(i)
<1> DEFINE c == disk.calls[i]
           e == AfterList(disk, ScanNext(c))
<1> SUFFICES ASSUME Alone(i) PROVE Lone(disk', disk'.calls[i])
  BY DEF LoneStep
<1>1. c.at = "scan" /\ \E r \in ScanResults(disk, c) : disk' = Set(e, i, r)
  BY DEF ScanItem
<1>2. PICK r \in ScanResults(disk, c) : disk' = Set(e, i, r)
  BY <1>1
<1>3. /\ RemoverSound(c) /\ SearchUnlinked(disk.tree, c) /\ Plain(disk.tree, c)
      /\ QueueOrdered(c) /\ Lone(disk, c) /\ IsTree(disk.tree) /\ IsTree(disk.start)
  BY AloneFacts DEF Steady
<1>4. r.path = c.path
  BY <1>1, <1>3, ScanSteps
<1>5. IsDisk(e) /\ e.calls = disk.calls /\ e.tree = disk.tree /\ e.start = disk.start
      /\ e.denied = disk.denied
  BY CallOf, ListFacts
<1>6. disk.descriptors = 0 => e.descriptors = 0
  BY ListDescriptors
<1> HIDE DEF e
<1>7. Lone(e, r)
  BY <1>1, <1>3, <1>4, <1>5, <1>6, LoneScan
<1>8. /\ disk'.calls[i] = r /\ disk'.tree = e.tree /\ disk'.start = e.start
      /\ disk'.denied = e.denied /\ disk'.descriptors = e.descriptors
  BY <1>2, <1>5, StepLeaves
<1>9. Lone(disk', r)
  BY <1>7, <1>8, LoneSame
<1> QED
  BY <1>8, <1>9

LEMMA TryLoneStep ==
  ASSUME IInv, NEW i \in DOMAIN disk.calls, NEW f \in Paths \ {<<>>}, NEW r,
         Lone(AfterRemove(disk, f), r), disk' = Set(AfterRemove(disk, f), i, r)
  PROVE  Lone(disk', disk'.calls[i])
<1> DEFINE e == AfterRemove(disk, f)
<1>1. e.calls = disk.calls /\ IsDisk(e)
  BY CallOf, RemoveFacts
<1> HIDE DEF e
<1>2. disk' = Set(e, i, r) /\ Lone(e, r)
  BY DEF e
<1>3. /\ disk'.calls[i] = r /\ disk'.tree = e.tree /\ disk'.start = e.start
      /\ disk'.denied = e.denied /\ disk'.descriptors = e.descriptors
  BY <1>1, <1>2, StepLeaves
<1>4. Lone(disk', r)
  BY <1>2, <1>3, LoneSame
<1> QED
  BY <1>3, <1>4

LEMMA ItemLoneStep ==
  ASSUME IInv, AllUnlinked, CoverInv, LoneInv, NEW i \in DOMAIN disk.calls, RemoveItem(i)
  PROVE  LoneStep(i)
<1> DEFINE c == disk.calls[i]
           f == ScanNext(c)
           r == ToNext(Unqueued(Noting(c, RemoveFileOrEmptyDir(disk, f))))
<1> SUFFICES ASSUME Alone(i) PROVE Lone(disk', disk'.calls[i])
  BY DEF LoneStep
<1>1. c.at = "item" /\ disk' = Set(AfterRemove(disk, f), i, r)
  BY DEF RemoveItem
<1>2. Lone(AfterRemove(disk, f), r)
  BY <1>1, AloneFacts, ItemLone
<1>3. f \in Paths \ {<<>>}
  BY AloneFacts, ScanNextFacts
<1> HIDE DEF r, f
<1> QED
  BY <1>1, <1>2, <1>3, TryLoneStep

LEMMA RestLoneStep ==
  ASSUME IInv, AllUnlinked, CoverInv, LoneInv, NEW i \in DOMAIN disk.calls, RemoveRest(i)
  PROVE  LoneStep(i)
<1> DEFINE c == disk.calls[i]
           f == c.queue[c.k]
           r == RestAfter(c, Noting(c, RemoveFileOrEmptyDir(disk, f)))
<1> SUFFICES ASSUME Alone(i) PROVE Lone(disk', disk'.calls[i])
  BY DEF LoneStep
<1>1. c.at = "rest" /\ disk' = Set(AfterRemove(disk, f), i, r)
  BY DEF RemoveRest, RestAfter
<1>2. Lone(AfterRemove(disk, f), r)
  BY <1>1, AloneFacts, RestLone
<1>3. f \in Paths \ {<<>>}
  <2>1. QueueSound(c) /\ c.k \in 1 .. Len(c.queue)
    BY <1>1, AloneFacts DEF RemoverSound
  <2> QED
    BY <2>1, ItemFacts
<1> HIDE DEF r, f
<1> QED
  BY <1>1, <1>2, <1>3, TryLoneStep

LEMMA TargetLoneStep ==
  ASSUME IInv, AllUnlinked, CoverInv, LoneInv, NEW i \in DOMAIN disk.calls, RemoveTarget(i)
  PROVE  LoneStep(i)
<1> DEFINE c == disk.calls[i]
           r == Ended(c, Noting(c, RemoveFileOrEmptyDir(disk, c.path)).error)
<1> SUFFICES ASSUME Alone(i) PROVE Lone(disk', disk'.calls[i])
  BY DEF LoneStep
<1>1. c.at = "target" /\ disk' = Set(AfterRemove(disk, c.path), i, r)
  BY DEF RemoveTarget
<1>2. Lone(AfterRemove(disk, c.path), r)
  BY <1>1, AloneFacts, TargetLone
<1>3. c.path \in Paths \ {<<>>}
  BY AloneFacts DEF QueueSound
<1> HIDE DEF r
<1> QED
  BY <1>1, <1>2, <1>3, TryLoneStep

LEMMA CreatorLoneStep ==
  ASSUME IInv, NEW i \in DOMAIN disk.calls, Look(i) \/ Make(i)
  PROVE  LoneStep(i)
<1>1. disk.calls[i].what = "create"
  BY CallOf, CreatorAt DEF Look, Make
<1> QED
  BY <1>1 DEF LoneStep, Alone

\* What a call alone does is all that happens.
LEMMA LoneInvStep ==
  ASSUME NEW i \in DOMAIN disk.calls, StepSound(i), LoneStep(i)
  PROVE  LoneInv'
<1>1. DOMAIN disk'.calls = DOMAIN disk.calls
      /\ \A j \in DOMAIN disk.calls : disk'.calls[j].what = disk.calls[j].what
  BY SameRequests DEF StepSound, CallMoves
<1>2. ASSUME NEW j \in DOMAIN disk'.calls, Alone(j)' PROVE Lone(disk', disk'.calls[j])
  <2>1. j = i /\ Alone(i)
    BY <1>1, <1>2 DEF Alone
  <2> QED
    BY <2>1 DEF LoneStep
<1> QED
  BY <1>2 DEF LoneInv

LEMMA LoneStart ==
  ASSUME IsStart(disk)
  PROVE  LoneInv
<1>1. disk.start = disk.tree /\ IsTree(disk.start)
  BY DEF IsStart, NewDisk
<1>2. ASSUME NEW i \in DOMAIN disk.calls, Alone(i) PROVE Lone(disk, disk.calls[i])
  <2> DEFINE c == disk.calls[i]
  <2>1. c = Remover(c.path)
    <3>1. c.what = "remove"
      BY <1>2 DEF Alone
    <3>2. c \in {Remover(c.path), Creator(c.path)}
      BY DEF IsStart
    <3>3. Creator(c.path).what = "create"
      BY DEF Creator
    <3>4. CASE c = Creator(c.path)
      BY <3>1, <3>3, <3>4
    <3> QED
      BY <3>2, <3>4
  <2>2. c.at = "scan" /\ c.scan = 0 /\ c.queue = <<>> /\ c.error = "SUCCESS"
    BY <2>1 DEF Remover
  <2>6. c.path \in Paths \ {<<>>}
    BY DEF IsStart
  <2> HIDE DEF c
  <2>5. Shrunk(disk) /\ LoneShut(disk, c)
    <3>1. Len(c.queue) = 0 /\ Sought(c) = {c.path}
      BY <2>2 DEF Sought
    <3>2. c.path \notin ShutIn(disk, c.path)
      <4>1. Unreadable(disk) \subseteq Paths
        BY <1>1 DEF Unreadable, IsTree
      <4> QED
        BY <2>6, <4>1, BeneathOrder DEF ShutIn
    <3>3. \A p : Beneath(p, c.path) => Faces(c, p)
      BY <2>2 DEF Faces, ScanNext
    <3>4. Unreadable(disk) \subseteq DOMAIN disk.tree /\ ShutIn(disk, c.path) \subseteq DOMAIN disk.tree
      BY <1>1 DEF Unreadable, ShutIn
    <3> QED
      BY <1>1, <2>2, <3>1, <3>2, <3>3, <3>4 DEF Shrunk, LoneShut
  <2>3. LoneFolder(disk, c) /\ LoneFile(disk, c) /\ LoneNothing(disk, c) /\ LoneShutFile(c)
    BY <1>1, <2>2 DEF LoneFolder, LoneFile, LoneNothing, LoneShutFile
  <2>4. Lone(disk, c)
    BY <1>1, <2>2, <2>3, <2>5 DEF Lone
  <2> QED
    BY <2>4 DEF c
<1> QED
  BY <1>2 DEF LoneInv

\* When it is done, all of its folder is gone but what it keeps, and it says so.
LEMMA LoneEnds ==
  ASSUME IInv, AllUnlinked, CoverInv, LoneInv, DeniedStays, NothingElseIsTaken, SaidIsGone
  PROVE  RemovesAlone
<1> SUFFICES ASSUME NEW i \in DOMAIN disk.calls, Alone(i), disk.calls[i].at = "done"
             PROVE  LET c == disk.calls[i]
                    IN /\ c.error = "OUTOFFDS" => disk.descriptors = 0
                       /\ disk.descriptors # 0
                            \/ (disk.denied = {} /\ Unreadable(disk) = {} /\ c.error # "OUTOFFDS") =>
                          EndsAlone(c)
  BY DEF RemovesAlone, Alone
<1> DEFINE c == disk.calls[i]
           kind == KindAt(disk.start, c.path)
           below == {p \in DOMAIN disk.start : Beneath(p, c.path)}
           last  == Lasting(disk, c.path)
           kept  == Keeps(disk, c.path)
<1>1. /\ Lone(disk, c) /\ c.path \in Paths \ {<<>>} /\ c.what = "remove" /\ c.at = "done"
      /\ c \in Calls /\ Created = {} /\ Removed = {c.path}
  <2>1. Lone(disk, c) /\ QueueSound(c) /\ Created = {}
    BY AloneFacts, AloneCreatesNothing
  <2>2. Calls = {c} /\ c.what = "remove"
    BY DEF Calls, Alone
  <2>3. Removed = {c.path}
    BY <2>2 DEF Removed
  <2> QED
    BY <2>1, <2>2, <2>3 DEF QueueSound
<1>2. IsTree(disk.tree) /\ IsTree(disk.start) /\ DOMAIN disk.tree \subseteq DOMAIN disk.start
  BY <1>1 DEF IInv, DiskSound, CoverInv
<1>3. DOMAIN disk.start \subseteq Paths /\ DOMAIN disk.tree \subseteq Paths
      /\ last \subseteq DOMAIN disk.start /\ Unreadable(disk) \subseteq DOMAIN disk.start
      /\ Denied \subseteq last
  BY <1>2 DEF IsTree, Lasting, ShutIn, Unreadable, Denied
<1>6. \A p : p \in kept <=> p \in below /\ \E q \in last : Beneath(q, p)
  BY DEF Keeps
<1> HIDE DEF c, last, kept
<1>4. c.error = "OUTOFFDS" => disk.descriptors = 0
  BY <1>1 DEF Lone
<1>5. ASSUME \/ disk.descriptors # 0
             \/ disk.denied = {} /\ Unreadable(disk) = {} /\ c.error # "OUTOFFDS"
      PROVE  EndsAlone(c)
  <2>1. c.error # "OUTOFFDS"
    BY <1>4, <1>5
  <2>2. CASE kind = "none"
    <3>1. LoneNothing(disk, c)
      BY <1>1, <2>2 DEF Lone
    <3>2. disk.tree = disk.start /\ c.error # "SUCCESS"
      BY <1>1, <2>1, <3>1 DEF LoneNothing
    <3> QED
      BY <2>2, <3>2 DEF EndsAlone
  <2>3. CASE kind = "file"
    <3>1. IF c.path \in Unreadable(disk) THEN LoneShutFile(c) ELSE LoneFile(disk, c)
      BY <1>1, <2>1, <2>3 DEF Lone
    <3>2. IF c.path \in Unreadable(disk) THEN c.error = "NOPERMISSION"
          ELSE disk.tree = disk.start /\ c.error = "TARGETNOTADIRECTORY"
      BY <1>1, <3>1 DEF LoneFile, LoneShutFile
    <3> QED
      BY <2>3, <3>2 DEF EndsAlone
  <2>4. CASE kind \in {"dir", "link"}
    <3>1. LoneFolder(disk, c) /\ LoneShut(disk, c)
      BY <1>1, <2>4 DEF Lone
    <3>2. /\ c.error \in {"SUCCESS", "NOPERMISSION"}
          /\ c.error = "NOPERMISSION" => \E q \in Denied \cup Unreadable(disk) : Beneath(q, c.path)
      BY <2>1, <3>1 DEF LoneFolder, Denied
    <3>3. c.error = "SUCCESS" => \A p \in DOMAIN disk.tree : ~Beneath(p, c.path)
      BY <1>1 DEF SaidIsGone
    <3>4. last \subseteq DOMAIN disk.tree
      BY <3>1 DEF DeniedStays, Denied, LoneShut, Lasting, last
    <3>5. ASSUME NEW q \in Denied, Beneath(q, c.path) PROVE q \in kept
      <4>1. Beneath(q, q) /\ q \in DOMAIN disk.start /\ q \in last
        BY <1>3, BeneathFacts
      <4> QED
        BY <1>6, <3>5, <4>1
    <3>6. ASSUME NEW p \in kept PROVE c.error # "SUCCESS" /\ p \in DOMAIN disk.tree
      <4>1. p \in below /\ \E q \in last : Beneath(q, p)
        BY <1>6
      <4>5. PICK q \in last : Beneath(q, p)
        BY <4>1
      <4>2. p \in Paths \ {<<>>} /\ q \in Paths /\ q \in DOMAIN disk.tree /\ Beneath(p, c.path)
        BY <1>2, <1>3, <3>4, <4>1 DEF IsTree
      <4>3. Beneath(q, c.path)
        BY <1>1, <4>5, <4>2, BeneathOrder
      <4>4. p \in DOMAIN disk.tree
        BY <1>2, <4>5, <4>2, PartsInTree
      <4> QED
        BY <3>3, <4>2, <4>3, <4>4
    <3>11. ASSUME NEW u \in Unreadable(disk), Beneath(u, c.path)
           PROVE  c.error # "SUCCESS" /\ u \in below
      <4>1. ~Faces(c, u)
        BY <1>1 DEF Faces, Searching
      <4> QED
        BY <1>3, <3>1, <3>11, <4>1 DEF LoneShut
    <3>7. ASSUME NEW p \in DOMAIN disk.tree, Beneath(p, c.path) PROVE p \in kept
      <4>1. c.error = "NOPERMISSION"
        BY <3>2, <3>3, <3>7
      <4>2. disk.denied # {} \/ Unreadable(disk) # {}
        BY <3>2, <4>1 DEF Denied
      <4>3. disk.descriptors # 0
        BY <1>5, <4>2
      <4>4. \E q \in last : Beneath(q, p)
        BY <1>1, <2>4, <3>7, <4>3, CoverEnds DEF AllIsTaken, last
      <4> QED
        BY <1>2, <1>6, <3>7, <4>4
    <3>8. ASSUME NEW p \in DOMAIN disk.start, p \notin below PROVE p \in DOMAIN disk.tree
      BY <1>1, <3>8 DEF NothingElseIsTaken
    <3>9. DOMAIN disk.tree = (DOMAIN disk.start \ below) \cup kept
      <4>1. ASSUME NEW p \in DOMAIN disk.tree PROVE p \in (DOMAIN disk.start \ below) \cup kept
        BY <1>2, <3>7
      <4>2. ASSUME NEW p \in (DOMAIN disk.start \ below) \cup kept PROVE p \in DOMAIN disk.tree
        BY <3>6, <3>8
      <4> QED
        BY <4>1, <4>2
    <3>10. c.error = IF kept \cup (below \cap Unreadable(disk)) = {} THEN "SUCCESS" ELSE "NOPERMISSION"
      <4>1. kept \cup (below \cap Unreadable(disk)) = {} => c.error = "SUCCESS"
        BY <3>2, <3>5, <3>11
      <4>2. kept \cup (below \cap Unreadable(disk)) # {} => c.error # "SUCCESS"
        BY <3>6, <3>11
      <4> QED
        BY <3>2, <4>1, <4>2
    <3> QED
      BY <2>4, <3>9, <3>10 DEF EndsAlone, kept
  <2>5. kind \in {"none", "file", "dir", "link"}
    BY <1>1, <1>2, KindIs
  <2> QED
    BY <2>2, <2>3, <2>4, <2>5
<1> QED
  BY <1>4, <1>5 DEF c

-----------------------------------------------------------------------------
(* A folder that is left for what was created in it *)

\* The folder is not tried again.
Held(tree, c, q) ==
  /\ q \in DOMAIN tree /\ Beneath(q, c.path) /\ KindAt(tree, q) = "dir"
  /\ c.at \in {"rest", "target"} => q # c.path
  /\ c.at = "rest" => \A m \in 1 .. c.k : c.queue[m] # q
\* So with the only call that removes.
Holds(tree, c) ==
  /\ c.at = "item" => KindAt(tree, ScanNext(c)) \in {"file", "link"}
  /\ c.error = "NONEMPTYDIRECTORY" =>
       c.at \in {"rest", "target", "done"} /\ \E q \in DOMAIN tree : Held(tree, c, q)

\* A search notes no folder that is not empty.
LEMMA ScanHolds ==
  ASSUME NEW d, IsTree(d.tree), NEW c, RemoverSound(c), c.at = "scan", Plain(d.tree, c),
         NEW r \in ScanResults(d, c), r.path = c.path
  PROVE  /\ r.error = "NONEMPTYDIRECTORY" => c.error = "NONEMPTYDIRECTORY"
         /\ Holds(d.tree, c) => Holds(d.tree, r)
<1>1. Listed(d, c, r) \/ NoFolder(d, c, r) \/ ToTry(d, c, r) \/ Unlisted(d, c, r)
  BY ScanOutcome
<1>2. r.error = "NONEMPTYDIRECTORY" => c.error = "NONEMPTYDIRECTORY"
  BY <1>1 DEF Listed, NoFolder, ToTry, Unlisted
<1>3. r.at = "item" => KindAt(d.tree, ScanNext(r)) \in {"file", "link"}
  <2>1. r.at = "item" => ToTry(d, c, r)
    BY <1>1 DEF Listed, NoFolder, Unlisted
  <2>2. ToTry(d, c, r) => ScanNext(r) = ScanNext(c)
    BY DEF ToTry, ScanNext
  <2> QED
    BY <2>1, <2>2 DEF ToTry
<1>4. Holds(d.tree, c) => c.error # "NONEMPTYDIRECTORY"
  BY DEF Holds
<1> QED
  BY <1>2, <1>3, <1>4 DEF Holds

\* What is tried, and how the call goes on
TriesOnce(c, f, r) ==
  /\ c.at \in {"item", "rest", "target"} /\ r.path = c.path /\ r.at # "item"
  /\ c.at = "item" => f = ScanNext(c)
  /\ c.at = "rest" => /\ c.k \in 1 .. Len(c.queue) /\ f = c.queue[c.k]
                      /\ r.at \in {"rest", "target"} /\ r.queue = c.queue /\ r.k = c.k - 1
  /\ c.at = "target" => f = c.path /\ r.at = "done"
NotesHeld(d, c, f, r) ==
  \/ r.error = c.error
  \/ r.error = "NOPERMISSION"
  \/ r.error = "NONEMPTYDIRECTORY" /\ KindAt(d.tree, f) = "dir" /\ RemoveErrno(d, f) # "OK"

\* A folder that was left is not tried again, and stays.
LEMMA TryHolds ==
  ASSUME NEW d, IsDisk(d), IsTree(d.tree), NEW c, QueueSound(c), Plain(d.tree, c),
         QueueOrdered(c), NEW f \in Sought(c), f \in Paths \ {<<>>}, Beneath(f, c.path), NEW r,
         TriesOnce(c, f, r), NotesHeld(d, c, f, r), Holds(d.tree, c)
  PROVE  Holds(AfterRemove(d, f).tree, r)
<1> DEFINE e == AfterRemove(d, f)
<1> SUFFICES ASSUME r.error = "NONEMPTYDIRECTORY"
             PROVE  /\ r.at \in {"rest", "target", "done"}
                    /\ \E q \in DOMAIN e.tree : Held(e.tree, r, q)
  BY DEF Holds, TriesOnce
<1>0. /\ Len(c.queue) \in Nat /\ c.at \in {"item", "rest", "target"} /\ r.path = c.path
      /\ c.path \in Paths /\ f \in Paths
  BY DEF QueueSound, TriesOnce
<1>1. /\ \A p \in DOMAIN e.tree : e.tree[p] = d.tree[p]
  BY RemoveShrinks
<1>2. RemoveErrno(d, f) # "OK" => e.tree = d.tree
  BY TryLeaves
<1>3. \A p \in DOMAIN d.tree : p # f => p \in DOMAIN e.tree
  BY LeftAfterTry
<1> HIDE DEF e
<1>4. c.at = "rest" =>
        /\ c.k \in 1 .. Len(c.queue) /\ f = c.queue[c.k] /\ c.k \in Int
        /\ r.at \in {"rest", "target"} /\ r.queue = c.queue /\ r.k = c.k - 1
  BY <1>0 DEF TriesOnce
<1>7. c.at = "target" => f = c.path /\ r.at = "done"
  BY DEF TriesOnce
<1>5. CASE c.error = "NONEMPTYDIRECTORY"
  <2>1. c.at \in {"rest", "target"} /\ r.at \in {"rest", "target", "done"}
    BY <1>0, <1>4, <1>5, <1>7 DEF Holds
  <2>2. PICK q \in DOMAIN d.tree : Held(d.tree, c, q)
    BY <1>5 DEF Holds
  <2>3. q # f
    <3>1. CASE c.at = "rest"
      BY <1>4, <2>2, <3>1 DEF Held
    <3>2. CASE c.at = "target"
      BY <1>7, <2>2, <3>2 DEF Held
    <3> QED
      BY <2>1, <3>1, <3>2
  <2>4. q \in DOMAIN e.tree /\ e.tree[q] = d.tree[q]
    BY <1>1, <1>3, <2>3
  <2>5. KindAt(e.tree, q) = "dir"
    BY <2>2, <2>4 DEF Held, KindAt
  <2>6. r.at \in {"rest", "target"} => q # r.path
    BY <1>0, <2>1, <2>2 DEF Held
  <2>7. ASSUME r.at = "rest", NEW m \in 1 .. r.k PROVE r.queue[m] # q
    <3>1. c.at = "rest" /\ c.k \in Int
      BY <1>4, <1>7, <2>1, <2>7
    <3>2. m \in 1 .. c.k
      BY <1>4, <2>7, <3>1
    <3> QED
      BY <1>4, <2>2, <3>1, <3>2 DEF Held
  <2>8. Held(e.tree, r, q)
    BY <1>0, <2>2, <2>4, <2>5, <2>6, <2>7 DEF Held
  <2> QED
    BY <2>1, <2>4, <2>8
<1>6. CASE c.error # "NONEMPTYDIRECTORY"
  <2>1. e.tree = d.tree /\ KindAt(d.tree, f) = "dir"
    BY <1>2, <1>6 DEF NotesHeld
  <2>2. f \in DOMAIN e.tree
    BY <2>1, KindFacts
  <2>3. c.at \in {"rest", "target"} /\ r.at \in {"rest", "target", "done"}
    <3>1. c.at # "item"
      <4>1. c.at = "item" => KindAt(d.tree, f) \in {"file", "link"}
        BY DEF Holds, TriesOnce
      <4> QED
        BY <2>1, <4>1
    <3> QED
      BY <1>0, <1>4, <1>7, <3>1
  <2>4. c.at = "rest" => f # c.path
    BY <1>4 DEF QueueSound
  <2>5. r.at \in {"rest", "target"} => f # r.path
    BY <1>0, <1>7, <2>3, <2>4
  <2>6. ASSUME r.at = "rest", NEW m \in 1 .. r.k PROVE r.queue[m] # f
    <3>1. c.at = "rest" /\ c.k \in 1 .. Len(c.queue) /\ c.k \in Int /\ r.k = c.k - 1
      BY <1>4, <1>7, <2>3, <2>6
    <3>2. m \in 1 .. Len(c.queue) /\ m # c.k
      BY <1>0, <2>6, <3>1
    <3>3. c.queue[m] # c.queue[c.k]
      BY <3>1, <3>2 DEF QueueOrdered, OrderedTo
    <3> QED
      BY <1>4, <3>1, <3>3
  <2>7. Held(e.tree, r, f)
    BY <1>0, <2>1, <2>2, <2>5, <2>6 DEF Held
  <2> QED
    BY <2>2, <2>3, <2>7
<1> QED
  BY <1>5, <1>6

\* It stays when others make folders.
LEMMA HoldsGrown ==
  ASSUME NEW old, IsTree(old), NEW new, \A p \in DOMAIN old : p \in DOMAIN new /\ new[p] = old[p],
         NEW c, Holds(old, c)
  PROVE  Holds(new, c)
<1>1. \A p : KindAt(old, p) # "none" => KindAt(new, p) = KindAt(old, p)
  BY DEF KindAt
<1>2. c.at = "item" => KindAt(new, ScanNext(c)) \in {"file", "link"}
  BY <1>1 DEF Holds
<1>3. ASSUME NEW q \in DOMAIN old, Held(old, c, q) PROVE q \in DOMAIN new /\ Held(new, c, q)
  BY <1>1, <1>3 DEF Held
<1> QED
  BY <1>2, <1>3 DEF Holds

OnlyRemover(i) == \A j \in DOMAIN disk.calls \ {i} : disk.calls[j].what # "remove"
HeldInv ==
  \A i \in DOMAIN disk.calls :
    disk.calls[i].what = "remove" =>
      /\ disk.calls[i].error = "NONEMPTYDIRECTORY" => Created # {}
      /\ OnlyRemover(i) => Holds(disk.tree, disk.calls[i])
HeldStep(i) ==
  disk.calls[i].what = "remove" =>
    /\ disk'.calls[i].error = "NONEMPTYDIRECTORY" => Created # {}
    /\ OnlyRemover(i) => Holds(disk'.tree, disk'.calls[i])

\* A folder is left only when something was created.
LEMMA TryNotesHeld ==
  ASSUME IInv, AllUnlinked, CoverInv, NothingElseIsMade, NEW i \in DOMAIN disk.calls,
         disk.calls[i].what = "remove", QueueSound(disk.calls[i]),
         NEW f \in Sought(disk.calls[i]), f \in Paths \ {<<>>}, Beneath(f, disk.calls[i].path),
         KindAt(disk.start, disk.calls[i].path) # "file" => Tried(disk, Created, disk.calls[i], f)
  PROVE  LET c == disk.calls[i]
             error == Noting(c, RemoveFileOrEmptyDir(disk, f)).error
         IN \/ error = c.error
            \/ error = "NOPERMISSION"
            \/ /\ error = "NONEMPTYDIRECTORY" /\ Created # {}
               /\ KindAt(disk.tree, f) = "dir" /\ RemoveErrno(disk, f) # "OK"
<1> DEFINE c == disk.calls[i]
           error == Noting(c, RemoveFileOrEmptyDir(disk, f)).error
<1>1. Steady(disk, Created) /\ Plain(disk.tree, c)
  BY SteadyDisk, PlainRemovers
<1>2. Created = {} => Tried(disk, Created, c, f)
  <2>1. ASSUME Created = {}, KindAt(disk.start, c.path) = "file" PROVE Tried(disk, Created, c, f)
    <3>1. Shrunk(disk)
      BY <2>1 DEF NothingElseIsMade, Shrunk
    <3>2. IsTree(disk.tree) /\ IsTree(disk.start) /\ c.path \in Paths \ {<<>>}
      BY <1>1 DEF Steady, QueueSound
    <3>3. Names(disk.tree, f) = {}
      BY <2>1, <3>1, <3>2, FileTried
    <3> QED
      BY <3>3 DEF Tried
  <2> QED
    BY <2>1
<1>3. \/ error = c.error
      \/ /\ c.error = "SUCCESS" /\ error = "NOPERMISSION"
         /\ f \in disk.denied \cap DOMAIN disk.tree
      \/ /\ c.error = "SUCCESS" /\ error = "NONEMPTYDIRECTORY" /\ Created # {}
         /\ KindAt(disk.tree, f) = "dir" /\ Names(disk.tree, f) # {}
         /\ RemoveErrno(disk, f) # "OK"
  BY <1>1, <1>2, TryNotes
<1> QED
  BY <1>3

\* The same as steps of the system.
LEMMA ScanHeldStep ==
  ASSUME IInv, AllUnlinked, HeldInv, NEW i \in DOMAIN disk.calls, ScanItem(i)
  PROVE  HeldStep(i)
<1> DEFINE c == disk.calls[i]
           e == AfterList(disk, ScanNext(c))
<1>1. c.at = "scan" /\ \E r \in ScanResults(disk, c) : disk' = Set(e, i, r)
  BY DEF ScanItem
<1>2. PICK r \in ScanResults(disk, c) : disk' = Set(e, i, r)
  BY <1>1
<1>3. RemoverSound(c) /\ SearchUnlinked(disk.tree, c) /\ c.what = "remove" /\ IsTree(disk.tree)
  BY <1>1, CallOf, RemoverAt
<1>4. Plain(disk.tree, c)
  BY <1>3, PlainRemovers
<1>5. r.path = c.path
  BY <1>1, <1>3, ScanSteps
<1>6. IsDisk(e) /\ e.calls = disk.calls /\ e.tree = disk.tree
  BY CallOf, ListFacts
<1>7. /\ r.error = "NONEMPTYDIRECTORY" => c.error = "NONEMPTYDIRECTORY"
      /\ Holds(disk.tree, c) => Holds(disk.tree, r)
  BY <1>1, <1>3, <1>4, <1>5, ScanHolds
<1> HIDE DEF e
<1>8. disk'.calls[i] = r /\ disk'.tree = disk.tree
  BY <1>2, <1>6, StepLeaves
<1> QED
  BY <1>3, <1>7, <1>8 DEF HeldStep, HeldInv

LEMMA TryHeldStep ==
  ASSUME IInv, AllUnlinked, CoverInv, NothingElseIsMade, HeldInv, NEW i \in DOMAIN disk.calls,
         RemoverSound(disk.calls[i]), disk.calls[i].what = "remove",
         NEW f \in Sought(disk.calls[i]), f \in Paths \ {<<>>}, Beneath(f, disk.calls[i].path),
         KindAt(disk.start, disk.calls[i].path) # "file" => Tried(disk, Created, disk.calls[i], f),
         NEW r, TriesOnce(disk.calls[i], f, r),
         r.error = Noting(disk.calls[i], RemoveFileOrEmptyDir(disk, f)).error,
         disk' = Set(AfterRemove(disk, f), i, r)
  PROVE  HeldStep(i)
<1> DEFINE c == disk.calls[i]
           e == AfterRemove(disk, f)
<1>1. QueueSound(c) /\ Plain(disk.tree, c) /\ QueueOrdered(c)
  BY PlainRemovers DEF RemoverSound, CoverInv, CallCovered
<1>2. \/ r.error = c.error
      \/ r.error = "NOPERMISSION"
      \/ /\ r.error = "NONEMPTYDIRECTORY" /\ Created # {}
         /\ KindAt(disk.tree, f) = "dir" /\ RemoveErrno(disk, f) # "OK"
  BY <1>1, TryNotesHeld
<1>3. NotesHeld(disk, c, f, r)
  BY <1>2 DEF NotesHeld
<1>4. Holds(disk.tree, c) => Holds(e.tree, r)
  BY <1>1, <1>3, CallOf, TryHolds
<1>5. e.calls = disk.calls /\ IsDisk(e)
  BY CallOf, RemoveFacts
<1>6. disk' = Set(e, i, r)
  OBVIOUS
<1> HIDE DEF e
<1>7. disk'.calls[i] = r /\ disk'.tree = e.tree
  BY <1>5, <1>6, StepLeaves
<1> QED
  BY <1>2, <1>4, <1>7 DEF HeldStep, HeldInv

LEMMA RemoverFacts ==
  ASSUME IInv, CoverInv, NEW i \in DOMAIN disk.calls,
         disk.calls[i].at \in {"item", "rest", "target"}
  PROVE  LET c == disk.calls[i]
         IN /\ RemoverSound(c) /\ QueueSound(c) /\ c.what = "remove" /\ QueueOrdered(c)
            /\ IsTree(disk.tree) /\ c.path \in Paths \ {<<>>}
            /\ KindAt(disk.start, c.path) # "file" => Covered(disk, Created, c)
<1> DEFINE c == disk.calls[i]
<1>1. RemoverSound(c) /\ c.what = "remove" /\ IsTree(disk.tree)
  BY CallOf, RemoverAt
<1>2. QueueSound(c) /\ c.path \in Paths \ {<<>>}
  BY <1>1 DEF RemoverSound, QueueSound
<1>3. QueueOrdered(c) /\ (KindAt(disk.start, c.path) # "file" => Covered(disk, Created, c))
  BY <1>1 DEF CoverInv, CallCovered
<1> QED
  BY <1>1, <1>2, <1>3

LEMMA ItemHeldStep ==
  ASSUME IInv, AllUnlinked, CoverInv, NothingElseIsMade, HeldInv, NEW i \in DOMAIN disk.calls,
         RemoveItem(i)
  PROVE  HeldStep(i)
<1> DEFINE c == disk.calls[i]
           f == ScanNext(c)
           noted == Noting(c, RemoveFileOrEmptyDir(disk, f))
           u == Unqueued(noted)
           r == ToNext(u)
<1>1. c.at = "item" /\ disk' = Set(AfterRemove(disk, f), i, r)
  BY DEF RemoveItem
<1>2. /\ RemoverSound(c) /\ QueueSound(c) /\ c.what = "remove" /\ QueueOrdered(c)
      /\ IsTree(disk.tree) /\ (KindAt(disk.start, c.path) # "file" => Covered(disk, Created, c))
  BY <1>1, RemoverFacts
<1>3. KindAt(disk.start, c.path) # "file" => Tried(disk, Created, c, f)
  BY <1>1, <1>2, ItemTried
<1>4. QueueSound(noted) /\ noted.path = c.path
  BY <1>2, NotingFacts
<1>5. QueueSound(u) /\ u.path = c.path /\ u.error = noted.error
  <2> HIDE DEF noted
  <2> QED
    BY <1>4, UnqueuedFacts
<1>6. r.path = u.path /\ r.error = u.error /\ r.at \in {"scan", "rest", "target"}
  <2> HIDE DEF u
  <2> QED
    BY <1>5, ToNextFacts
<1>7. f \in Sought(c) /\ f \in Paths \ {<<>>} /\ Beneath(f, c.path)
  <2>1. /\ f \in Paths \ {<<>>} /\ Beneath(f, c.path)
        /\ c.scan # 0 => c.scan \in 1 .. Len(c.queue) /\ f = c.queue[c.scan]
        /\ c.scan = 0 => f = c.path
    BY <1>2, ScanNextFacts
  <2> QED
    BY <2>1 DEF Sought
<1>8. r.path = c.path /\ r.error = noted.error
  BY <1>5, <1>6
<1> HIDE DEF r
<1>9. TriesOnce(c, f, r)
  BY <1>1, <1>6, <1>8 DEF TriesOnce
<1> HIDE DEF f
<1> QED
  BY <1>1, <1>2, <1>3, <1>7, <1>8, <1>9, TryHeldStep

LEMMA RestHeldStep ==
  ASSUME IInv, AllUnlinked, CoverInv, NothingElseIsMade, HeldInv, NEW i \in DOMAIN disk.calls,
         RemoveRest(i)
  PROVE  HeldStep(i)
<1> DEFINE c == disk.calls[i]
           f == c.queue[c.k]
           noted == Noting(c, RemoveFileOrEmptyDir(disk, f))
           r == RestAfter(c, noted)
<1>1. c.at = "rest" /\ disk' = Set(AfterRemove(disk, f), i, r)
  BY DEF RemoveRest, RestAfter
<1>2. /\ RemoverSound(c) /\ QueueSound(c) /\ c.what = "remove" /\ QueueOrdered(c)
      /\ IsTree(disk.tree) /\ (KindAt(disk.start, c.path) # "file" => Covered(disk, Created, c))
  BY <1>1, RemoverFacts
<1>3. KindAt(disk.start, c.path) # "file" => Tried(disk, Created, c, f)
  BY <1>1, <1>2, RestTried
<1>4. c.k \in 1 .. Len(c.queue)
  BY <1>1, <1>2 DEF RemoverSound
<1>5. f \in Sought(c) /\ f \in Paths \ {<<>>} /\ Beneath(f, c.path)
  BY <1>2, <1>4, ItemFacts DEF Sought, QueueSound
<1>6. /\ r.path = c.path /\ r.queue = c.queue /\ r.k = c.k - 1
      /\ r.at = (IF c.k = 1 THEN "target" ELSE "rest") /\ r.error = noted.error
  BY <1>2, RestAfterFacts
<1> HIDE DEF r
<1>7. TriesOnce(c, f, r)
  BY <1>1, <1>4, <1>6 DEF TriesOnce
<1> HIDE DEF f
<1> QED
  BY <1>1, <1>2, <1>3, <1>5, <1>6, <1>7, TryHeldStep

LEMMA TargetHeldStep ==
  ASSUME IInv, AllUnlinked, CoverInv, NothingElseIsMade, HeldInv, NEW i \in DOMAIN disk.calls,
         RemoveTarget(i)
  PROVE  HeldStep(i)
<1> DEFINE c == disk.calls[i]
           error == Noting(c, RemoveFileOrEmptyDir(disk, c.path)).error
           r == Ended(c, error)
<1>1. c.at = "target" /\ disk' = Set(AfterRemove(disk, c.path), i, r)
  BY DEF RemoveTarget
<1>2. /\ RemoverSound(c) /\ QueueSound(c) /\ c.what = "remove" /\ QueueOrdered(c)
      /\ IsTree(disk.tree) /\ c.path \in Paths \ {<<>>}
      /\ (KindAt(disk.start, c.path) # "file" => Covered(disk, Created, c))
  BY <1>1, RemoverFacts
<1>3. KindAt(disk.start, c.path) # "file" => Tried(disk, Created, c, c.path)
  BY <1>1, <1>2, TargetTried
<1>4. c.path \in Sought(c) /\ Beneath(c.path, c.path)
  BY <1>2, BeneathFacts DEF Sought
<1>5. r.path = c.path /\ r.at = "done" /\ r.error = error
  BY <1>2, EndedFacts
<1> HIDE DEF r
<1>6. TriesOnce(c, c.path, r)
  BY <1>1, <1>5 DEF TriesOnce
<1> QED
  BY <1>1, <1>2, <1>3, <1>4, <1>5, <1>6, TryHeldStep

LEMMA CreatorHeldStep ==
  ASSUME IInv, NEW i \in DOMAIN disk.calls, Look(i) \/ Make(i)
  PROVE  HeldStep(i)
<1>1. disk.calls[i].what = "create"
  BY CallOf, CreatorAt DEF Look, Make
<1> QED
  BY <1>1 DEF HeldStep

\* With one call that removes, the other steps only make folders.
LEMMA HeldInvStep ==
  ASSUME IInv, HeldInv, NEW i \in DOMAIN disk.calls, StepSound(i), HeldStep(i)
  PROVE  HeldInv'
<1>1. /\ Created' = Created /\ DOMAIN disk'.calls = DOMAIN disk.calls
      /\ \A j \in DOMAIN disk.calls : disk'.calls[j].what = disk.calls[j].what
      /\ \A j \in DOMAIN disk.calls : j # i => disk'.calls[j] = disk.calls[j]
  BY SameRequests DEF StepSound, CallMoves
<1>2. \A j \in DOMAIN disk.calls : OnlyRemover(j)' <=> OnlyRemover(j)
  BY <1>1 DEF OnlyRemover
<1>3. /\ \A p \in DOMAIN disk.tree : p \in DOMAIN disk'.tree => disk'.tree[p] = disk.tree[p]
      /\ disk.calls[i].what # "remove" => DOMAIN disk.tree \subseteq DOMAIN disk'.tree
  BY CallOf, StepKeepsValues DEF StepSound
<1>4. ASSUME NEW j \in DOMAIN disk.calls, j # i, disk.calls[j].what = "remove", OnlyRemover(j)
      PROVE  Holds(disk'.tree, disk.calls[j])
  <2>1. disk.calls[i].what # "remove"
    BY <1>4 DEF OnlyRemover
  <2>2. \A p \in DOMAIN disk.tree : p \in DOMAIN disk'.tree /\ disk'.tree[p] = disk.tree[p]
    BY <1>3, <2>1
  <2>3. IsTree(disk.tree) /\ Holds(disk.tree, disk.calls[j])
    BY <1>4, CallOf DEF HeldInv
  <2> QED
    BY <2>2, <2>3, HoldsGrown
<1>5. ASSUME NEW j \in DOMAIN disk.calls, disk.calls[j].what = "remove"
      PROVE  /\ disk'.calls[j].error = "NONEMPTYDIRECTORY" => Created # {}
             /\ OnlyRemover(j) => Holds(disk'.tree, disk'.calls[j])
  <2>1. CASE j = i
    BY <1>5, <2>1 DEF HeldStep
  <2>2. CASE j # i
    BY <1>1, <1>4, <1>5, <2>2 DEF HeldInv
  <2> QED
    BY <2>1, <2>2
<1> QED
  BY <1>1, <1>2, <1>5 DEF HeldInv

\* The folder that was left is in the target, or is it.
LEMMA HeldEnds ==
  ASSUME IInv, HeldInv
  PROVE  NonEmptyIsCreated
<1> SUFFICES ASSUME NEW i \in DOMAIN disk.calls, disk.calls[i].what = "remove",
                    disk.calls[i].at = "done", disk.calls[i].error = "NONEMPTYDIRECTORY"
             PROVE  /\ Created # {}
                    /\ (OnlyRemover(i) => KindAt(disk.tree, disk.calls[i].path) = "dir")
  BY DEF NonEmptyIsCreated, OnlyRemover
<1> DEFINE c == disk.calls[i]
<1>1. Created # {}
  BY DEF HeldInv
<1>2. ASSUME OnlyRemover(i) PROVE KindAt(disk.tree, c.path) = "dir"
  <2>1. PICK q \in DOMAIN disk.tree : Held(disk.tree, c, q)
    BY <1>2 DEF HeldInv, Holds
  <2>2. Beneath(q, c.path) /\ KindAt(disk.tree, q) = "dir"
    BY <2>1 DEF Held
  <2>3. IsTree(disk.tree) /\ CallSound(disk.tree, c)
    BY CallOf
  <2>4. q \in Paths /\ c.path \in Paths
    BY <2>3 DEF IsTree, CallSound, RemoverSound, QueueSound, CreatorSound
  <2> QED
    BY <2>2, <2>3, <2>4, ChildBetween
<1> QED
  BY <1>1, <1>2

LEMMA HeldStart ==
  ASSUME IsStart(disk)
  PROVE  HeldInv
<1>1. ASSUME NEW i \in DOMAIN disk.calls, disk.calls[i].what = "remove"
      PROVE  disk.calls[i].error = "SUCCESS" /\ disk.calls[i].at = "scan"
  <2> DEFINE c == disk.calls[i]
  <2>1. c \in {Remover(c.path), Creator(c.path)}
    BY DEF IsStart
  <2>2. c # Creator(c.path)
    BY <1>1 DEF Creator
  <2> QED
    BY <2>1, <2>2 DEF Remover
<1>2. ASSUME NEW i \in DOMAIN disk.calls, disk.calls[i].what = "remove"
      PROVE  Holds(disk.tree, disk.calls[i])
  BY <1>1, <1>2 DEF Holds
<1> QED
  BY <1>1, <1>2 DEF HeldInv

-----------------------------------------------------------------------------
(* Creating folders: the way to them *)

\* What is there on the way to a path is a folder, or a link to one.
FreeWay(tree, path) ==
  \A f \in Paths \ {<<>>} :
    Beneath(path, f) =>
      KindAt(tree, EntryAt(tree, f)) = "none" \/ KindAt(tree, Leads(tree, f)) = "dir"
\* Later it leads to nothing, or to a folder; where that was one from the start, it led
\* there from the start.
StaysFree(start, tree, path) ==
  LET at == Leads(tree, path)
  IN \/ KindAt(tree, at) = "none"
     \/ KindAt(tree, at) = "dir" /\ (KindAt(start, at) = "dir" => at = Leads(start, path))
MadeFrom(start, tree) ==
  /\ IsTree(start) /\ IsTree(tree)
  /\ \A p \in DOMAIN tree : (p \in DOMAIN start /\ tree[p] = start[p]) \/ tree[p] = Dir

\* A file or a link was there from the start.
LEMMA MadeKinds ==
  ASSUME NEW start, NEW tree, MadeFrom(start, tree), NEW p \in Paths
  PROVE  /\ KindAt(tree, p) \in {"dir", "file", "link", "none"}
         /\ KindAt(tree, p) \in {"file", "link"} =>
              p \in DOMAIN start /\ p \in DOMAIN tree /\ tree[p] = start[p] /\ p # <<>>
         /\ KindAt(start, p) = "dir" => KindAt(tree, p) \in {"dir", "none"}
<1>0. IsTree(start) /\ IsTree(tree)
  BY DEF MadeFrom
<1>1. KindAt(tree, p) \in {"dir", "file", "link", "none"}
  BY <1>0, KindIs
<1>2. ASSUME KindAt(tree, p) \in {"file", "link"}
      PROVE  p \in DOMAIN start /\ p \in DOMAIN tree /\ tree[p] = start[p] /\ p # <<>>
  <2>1. p \in DOMAIN tree /\ p # <<>> /\ tree[p] # Dir
    BY <1>0, <1>2, KindFacts, NoLinkFacts
  <2> QED
    BY <2>1 DEF MadeFrom
<1>3. ASSUME KindAt(start, p) = "dir" PROVE KindAt(tree, p) \in {"dir", "none"}
  <2>1. ASSUME KindAt(tree, p) \in {"file", "link"} PROVE FALSE
    <3>1. p \in DOMAIN start /\ p \in DOMAIN tree /\ tree[p] = start[p] /\ p # <<>>
      BY <1>2, <2>1
    <3>2. KindAt(start, p) = KindAt(tree, p)
      BY <3>1 DEF KindAt
    <3> QED
      BY <1>3, <2>1, <3>2
  <2> QED
    BY <1>1, <2>1
<1> QED
  BY <1>1, <1>2, <1>3

\* One component further the way is still free.
LEMMA FreeStep ==
  ASSUME NEW start, NEW tree, MadeFrom(start, tree), NEW q \in Paths \ {<<>>},
         StaysFree(start, tree, Front(q)),
         KindAt(start, EntryAt(start, q)) = "none" \/ KindAt(start, Leads(start, q)) = "dir"
  PROVE  StaysFree(start, tree, q)
<1> DEFINE at == Leads(tree, Front(q))
           e == Append(at, Last(q))
<1>0. IsTree(start) /\ IsTree(tree)
  BY DEF MadeFrom
<1>1. /\ Front(q) \in Paths /\ Last(q) \in Component /\ at \in Paths
      /\ Leads(start, Front(q)) \in Paths
  BY <1>0, FrontFacts, LeadsIsPath
<1>2. e \in Paths \ {<<>>} /\ Front(e) = at
  BY <1>1, AppendFacts
<1>3. /\ Leads(tree, q) = Onward(tree, at, Last(q))
      /\ Leads(start, q) = Onward(start, Leads(start, Front(q)), Last(q))
  BY LeadsStep
<1>4. EntryAt(start, q) = Append(Leads(start, Front(q)), Last(q))
  BY DEF EntryAt
<1>5. KindAt(tree, at) = "none" \/ KindAt(tree, at) = "dir"
  BY DEF StaysFree
<1>6. KindAt(tree, at) = "dir" /\ KindAt(start, at) = "dir" => at = Leads(start, Front(q))
  BY DEF StaysFree
<1> HIDE DEF at, e
<1>7. CASE KindAt(tree, at) = "none"
  <2>1. Leads(tree, q) = at
    BY <1>3, <1>7 DEF Onward
  <2> QED
    BY <1>7, <2>1 DEF StaysFree
<1>8. CASE KindAt(tree, at) = "dir"
  <2>1. Leads(tree, q) = Follow(tree, e)
    BY <1>3, <1>8 DEF Onward, e
  <2>2. ASSUME e \in DOMAIN start
        PROVE  Leads(start, q) = Follow(start, e) /\ EntryAt(start, q) = e
    <3>1. KindAt(start, at) = "dir"
      BY <1>0, <1>2, <2>2 DEF IsTree
    <3>2. at = Leads(start, Front(q))
      BY <1>6, <1>8, <3>1
    <3> QED
      BY <1>3, <1>4, <3>1, <3>2 DEF Onward, e
  <2>3. CASE KindAt(tree, e) = "none"
    BY <2>1, <2>3 DEF Follow, StaysFree
  <2>4. CASE KindAt(tree, e) = "dir"
    <3>1. Leads(tree, q) = e
      BY <2>1, <2>4 DEF Follow
    <3>2. KindAt(start, e) = "dir" => e = Leads(start, q)
      <4>1. KindAt(start, e) = "dir" => e \in DOMAIN start /\ Follow(start, e) = e
        BY <1>0, <1>2, KindFacts DEF Follow
      <4> QED
        BY <2>2, <4>1
    <3> QED
      BY <2>4, <3>1, <3>2 DEF StaysFree
  <2>5. CASE KindAt(tree, e) \in {"file", "link"}
    <3>1. e \in DOMAIN start /\ e \in DOMAIN tree /\ tree[e] = start[e] /\ e # <<>>
      BY <1>2, <2>5, MadeKinds
    <3>2. KindAt(start, e) = KindAt(tree, e) /\ Follow(start, e) = Follow(tree, e)
      BY <3>1 DEF KindAt, Follow
    <3>3. Leads(start, q) = Leads(tree, q) /\ EntryAt(start, q) = e
      BY <2>1, <2>2, <3>1, <3>2
    <3>4. KindAt(start, Leads(tree, q)) = "dir"
      BY <2>5, <3>2, <3>3
    <3>5. Leads(tree, q) \in Paths
      BY <1>0, LeadsIsPath
    <3>6. KindAt(tree, Leads(tree, q)) \in {"dir", "none"}
      BY <3>4, <3>5, MadeKinds
    <3> QED
      BY <3>3, <3>6 DEF StaysFree
  <2> QED
    BY <1>2, <2>3, <2>4, <2>5, MadeKinds
<1> QED
  BY <1>5, <1>7, <1>8

\* A way that was free at the start leads to a folder or to nothing.
LEMMA FreeStays ==
  ASSUME NEW start, NEW tree, MadeFrom(start, tree)
  PROVE  \A q \in Paths : FreeWay(start, q) => StaysFree(start, tree, q)
<1> DEFINE S == {q \in Paths : FreeWay(start, q) => StaysFree(start, tree, q)}
<1>1. <<>> \in S
  <2>0. <<>> \in Paths
    BY DEF Paths
  <2>1. Leads(tree, <<>>) = <<>> /\ Leads(start, <<>>) = <<>>
    BY <2>0, LeadsStep
  <2>2. KindAt(tree, <<>>) = "dir"
    BY DEF KindAt
  <2> QED
    BY <2>0, <2>1, <2>2 DEF StaysFree
<1>2. ASSUME NEW q \in Paths \ {<<>>}, Front(q) \in S PROVE q \in S
  <2>1. ASSUME FreeWay(start, q) PROVE StaysFree(start, tree, q)
    <3>1. FreeWay(start, Front(q))
      <4>1. Front(q) \in Paths
        BY FrontFacts
      <4>2. \A f \in Paths : Beneath(Front(q), f) => Beneath(q, f)
        BY BeneathFacts
      <4> QED
        BY <2>1, <4>2 DEF FreeWay
    <3>2. StaysFree(start, tree, Front(q))
      BY <1>2, <3>1
    <3>3. KindAt(start, EntryAt(start, q)) = "none" \/ KindAt(start, Leads(start, q)) = "dir"
      BY <2>1, BeneathFacts DEF FreeWay
    <3> QED
      BY <3>2, <3>3, FreeStep
  <2> QED
    BY <2>1
<1> HIDE DEF S
<1>3. Paths \subseteq S
  BY <1>1, <1>2, PathInduction
<1> QED
  BY <1>3 DEF S

\* While nothing is taken, what is there at the end of the way is a folder.
LEMMA GrownIsFree ==
  ASSUME NEW start, NEW tree, MadeFrom(start, tree),
         \A p \in DOMAIN start : p \in DOMAIN tree /\ tree[p] = start[p],
         NEW q \in Paths \ {<<>>}, FreeWay(start, q), WayOpen(tree, q),
         KindAt(tree, EntryAt(tree, q)) # "none"
  PROVE  KindAt(tree, Leads(tree, q)) = "dir"
<1> DEFINE at == Leads(tree, Front(q))
           e == Append(at, Last(q))
<1>0. IsTree(start) /\ IsTree(tree)
  BY DEF MadeFrom
<1>1. /\ Front(q) \in Paths /\ Last(q) \in Component /\ at \in Paths
  BY <1>0, FrontFacts, LeadsIsPath
<1>2. e \in Paths \ {<<>>} /\ Front(e) = at
  BY <1>1, AppendFacts
<1>3. FreeWay(start, Front(q))
  <2>1. \A f \in Paths : Beneath(Front(q), f) => Beneath(q, f)
    BY <1>1, BeneathFacts
  <2> QED
    BY <2>1 DEF FreeWay
<1>4. KindAt(tree, at) = "dir" /\ (KindAt(start, at) = "dir" => at = Leads(start, Front(q)))
  BY <1>1, <1>3, FreeStays DEF WayOpen, StaysFree
<1>5. Leads(tree, q) = Follow(tree, e) /\ EntryAt(tree, q) = e
  BY <1>4, LeadsStep DEF Onward, EntryAt
<1> HIDE DEF at, e
<1>6. CASE KindAt(tree, e) = "dir"
  BY <1>5, <1>6 DEF Follow
<1>7. CASE KindAt(tree, e) \in {"file", "link"}
  <2>1. e \in DOMAIN start /\ e \in DOMAIN tree /\ tree[e] = start[e] /\ e # <<>>
    BY <1>2, <1>7, MadeKinds
  <2>2. KindAt(start, at) = "dir"
    BY <1>0, <1>2, <2>1 DEF IsTree
  <2>3. EntryAt(start, q) = e
    BY <1>4, <2>2 DEF EntryAt, e
  <2>4. KindAt(start, e) # "none"
    BY <1>0, <1>2, <2>1, KindFacts
  <2>5. KindAt(start, Leads(start, q)) = "dir"
    BY <2>3, <2>4, BeneathFacts DEF FreeWay
  <2>6. Leads(tree, q) = Leads(start, q) /\ Leads(start, q) \in Paths
    BY <1>0, <2>5, GrownLeads, LeadsIsPath
  <2>7. KindAt(tree, Leads(start, q)) = "dir"
    BY <1>0, <2>5, <2>6, GrownLeads
  <2> QED
    BY <2>6, <2>7
<1> QED
  BY <1>2, <1>5, <1>6, <1>7, MadeKinds

\* A call that ended as a folder of the start let nothing be created in it
RefusedIn(start, c) ==
  {f \in DOMAIN start : start[f] \in AnyFolder /\ start[f].make # "OK"
      /\ \E n \in 1 .. Len(c.path) : f = Leads(start, SubSeq(c.path, 1, n))}
RefusalEnd(start, c) == RefusedIn(start, c) # {} /\ c.error \in {"NOPERMISSION", "OTHERERROR"}
\* A call that creates, while nothing is removed
MakesOn(start, tree, c) ==
  /\ c.at = "make" => KindAt(tree, Leads(tree, SubSeq(c.path, 1, c.k - 1))) = "dir"
  /\ c.at = "done" =>
       RefusalEnd(start, c) \/ (c.error = "SUCCESS" /\ KindAt(tree, Leads(tree, c.path)) = "dir")
EndsMade(start, c) ==
  c.at = "done" => RefusalEnd(start, c) \/ c.error \in {"SUCCESS", "PARENTSDONTEXIST"}

LEMMA PartBeneath ==
  ASSUME NEW p \in Paths, NEW n \in 0 .. Len(p)
  PROVE  Beneath(p, SubSeq(p, 1, n)) /\ SubSeq(p, 1, n) \in Paths
<1>1. SubSeq(p, 1, n) \in Paths /\ Len(SubSeq(p, 1, n)) = n /\ Len(p) \in Nat
  BY PartFacts, PathFacts
<1> DEFINE q == SubSeq(p, 1, n)
<1>2. n <= Len(p) /\ n \in Nat
  BY <1>1
<1>3. q \in Paths /\ Len(q) = n /\ SubSeq(p, 1, Len(q)) = q
  BY <1>1
<1> HIDE DEF q
<1>4. Beneath(p, q) /\ q \in Paths
  BY <1>2, <1>3, BeneathFacts
<1> QED
  BY <1>4 DEF q

LEMMA FreeAbove ==
  ASSUME NEW tree, NEW p \in Paths, NEW q \in Paths, Beneath(p, q), FreeWay(tree, p)
  PROVE  FreeWay(tree, q)
<1>1. \A f \in Paths : Beneath(q, f) => Beneath(p, f)
  BY BeneathOrder
<1> QED
  BY <1>1 DEF FreeWay

\* When a part is there, the next is to be made.
LEMMA ToMakeFree ==
  ASSUME NEW c, CreatorSound(c), c.at # "done", NEW start, NEW tree
  PROVE  /\ EndsMade(start, ToMake(c))
         /\ KindAt(tree, Leads(tree, Part(c))) = "dir" => MakesOn(start, tree, ToMake(c))
<1> DEFINE r == ToMake(c)
<1>0. c.path \in Paths /\ c.k \in 0 .. Len(c.path) /\ Len(c.path) \in Nat
  BY PathFacts DEF CreatorSound
<1>1. CASE c.k = Len(c.path)
  <2>1. r = [c EXCEPT !.at = "done", !.error = "SUCCESS"]
    BY <1>1 DEF ToMake, Ended
  <2> HIDE DEF r
  <2>2. r.at = "done" /\ r.error = "SUCCESS" /\ r.path = c.path
    BY <2>1 DEF CreatorSound, IsCreator
  <2>3. Part(c) = c.path
    BY <1>0, <1>1, PartFacts DEF Part
  <2>4. EndsMade(start, r) /\ (KindAt(tree, Leads(tree, Part(c))) = "dir" => MakesOn(start, tree, r))
    BY <2>2, <2>3 DEF EndsMade, MakesOn
  <2> QED
    BY <2>4 DEF r
<1>2. CASE c.k # Len(c.path)
  <2>1. r = [c EXCEPT !.at = "make", !.k = c.k + 1]
    BY <1>2 DEF ToMake
  <2> HIDE DEF r
  <2>2. r.at = "make" /\ r.k = c.k + 1 /\ r.path = c.path
    BY <2>1 DEF CreatorSound, IsCreator
  <2>3. r.k - 1 = c.k
    BY <1>0, <2>2
  <2>4. EndsMade(start, r) /\ (KindAt(tree, Leads(tree, Part(c))) = "dir" => MakesOn(start, tree, r))
    BY <2>2, <2>3 DEF EndsMade, MakesOn, Part
  <2> QED
    BY <2>4 DEF r
<1> QED
  BY <1>1, <1>2

\* What is found to be there is a folder.
LEMMA LookFree ==
  ASSUME NEW d, MadeFrom(d.start, d.tree), NEW c, CreatorSound(c), c.at = "look",
         FreeWay(d.start, c.path)
  PROVE  LET r == IF TargetExists(d, Part(c)) THEN ToMake(c) ELSE [c EXCEPT !.k = @ - 1]
         IN EndsMade(d.start, r) /\ MakesOn(d.start, d.tree, r)
<1>0. c.path \in Paths /\ c.k \in 0 .. Len(c.path)
  BY DEF CreatorSound
<1>1. ASSUME TargetExists(d, Part(c)) PROVE EndsMade(d.start, ToMake(c)) /\ MakesOn(d.start, d.tree, ToMake(c))
  <2>1. FreeWay(d.start, Part(c)) /\ Part(c) \in Paths
    BY <1>0, PartBeneath, FreeAbove DEF Part
  <2>2. StaysFree(d.start, d.tree, Part(c))
    BY <2>1, FreeStays
  <2>3. KindAt(d.tree, Leads(d.tree, Part(c))) = "dir"
    BY <1>1, <2>2 DEF StaysFree, TargetExists
  <2> QED
    BY <2>3, ToMakeFree
<1>2. EndsMade(d.start, [c EXCEPT !.k = @ - 1]) /\ MakesOn(d.start, d.tree, [c EXCEPT !.k = @ - 1])
  <2> DEFINE r == [c EXCEPT !.k = @ - 1]
  <2>1. r.at = "look"
    BY DEF CreatorSound, IsCreator
  <2> HIDE DEF r
  <2>2. EndsMade(d.start, r) /\ MakesOn(d.start, d.tree, r)
    BY <2>1 DEF EndsMade, MakesOn
  <2> QED
    BY <2>2 DEF r
<1> QED
  BY <1>1, <1>2

Grown(old, new) == \A p \in DOMAIN old : p \in DOMAIN new /\ new[p] = old[p]

\* In a folder that is there a folder can be made.
LEMMA MakeFree ==
  ASSUME NEW d, IsDisk(d), MadeFrom(d.start, d.tree), NEW c, CreatorSound(c), c.at = "make",
         FreeWay(d.start, c.path)
  PROVE  LET result == CreateDirectory(d, Part(c))
             made == result \in {"SUCCESS", "TARGETALREADYEXISTS"}
             r == IF made THEN ToMake(c) ELSE Ended(c, result)
         IN /\ EndsMade(d.start, r)
            /\ Grown(d.start, d.tree) /\ MakesOn(d.start, d.tree, c) =>
                 MakesOn(d.start, AfterMkdir(d, Part(c)).tree, r)
<1> DEFINE q == Part(c)
           result == CreateDirectory(d, q)
           made == result \in {"SUCCESS", "TARGETALREADYEXISTS"}
           e == AfterMkdir(d, q)
<1>0. /\ c.path \in Paths /\ c.k \in 1 .. Len(c.path) /\ Len(c.path) \in Nat
      /\ IsTree(d.tree) /\ IsTree(d.start)
  BY PathFacts DEF CreatorSound, MadeFrom
<1>1. q \in Paths \ {<<>>} /\ Front(q) \in Paths /\ Beneath(c.path, q) /\ Beneath(c.path, Front(q))
      /\ Front(q) = SubSeq(c.path, 1, c.k - 1)
  <2>1. q \in Paths /\ Len(q) = c.k /\ Beneath(c.path, q) /\ c.k # 0
    BY <1>0, PartBeneath, PartFacts DEF Part
  <2>2. q # <<>>
    BY <2>1, PathFacts
  <2>3. Front(q) = SubSeq(q, 1, c.k - 1) /\ Front(q) \in Paths /\ Len(Front(q)) = c.k - 1
        /\ \A m \in 1 .. c.k - 1 : Front(q)[m] = q[m]
    BY <2>1, <2>2, FrontFacts
  <2>4. c.k - 1 \in 0 .. Len(c.path)
    BY <1>0
  <2>5. Beneath(c.path, SubSeq(c.path, 1, c.k - 1)) /\ SubSeq(c.path, 1, c.k - 1) \in Paths
    BY <1>0, <2>4, PartBeneath
  <2>6. /\ Len(SubSeq(c.path, 1, c.k - 1)) = c.k - 1
        /\ \A m \in 1 .. c.k - 1 : SubSeq(c.path, 1, c.k - 1)[m] = c.path[m]
    BY <1>0, <2>4, PartFacts
  <2>7. \A m \in 1 .. c.k : q[m] = c.path[m]
    BY <1>0, PartFacts DEF Part
  <2>8. \A m \in 1 .. c.k - 1 : m \in 1 .. c.k
    BY <1>0
  <2>9. Front(q) = SubSeq(c.path, 1, c.k - 1)
    BY <2>3, <2>5, <2>6, <2>7, <2>8, PathEqual
  <2> QED
    BY <2>1, <2>2, <2>3, <2>5, <2>9
<1>2. FreeWay(d.start, q) /\ FreeWay(d.start, Front(q))
  BY <1>0, <1>1, FreeAbove
<1>3. KindAt(d.tree, Leads(d.tree, Front(q))) \in {"dir", "none"}
  BY <1>1, <1>2, FreeStays DEF StaysFree
<1>4. WayError(d.tree, q) \in {"OK", "ENOENT"}
      /\ (KindAt(d.tree, Leads(d.tree, Front(q))) = "dir" => WayError(d.tree, q) = "OK")
  BY <1>3 DEF WayError
<1> DEFINE g == Leads(d.tree, Front(q))
<1>5. /\ MkdirErrno(d, q) \in {"OK", "EEXIST", "ENOENT"} \cup {"EACCES", "EROFS"}
      /\ WayError(d.tree, q) = "OK" => MkdirErrno(d, q) # "ENOENT"
      /\ MkdirErrno(d, q) \in {"EACCES", "EROFS"} =>
           g \in DOMAIN d.tree /\ d.tree[g] \in AnyFolder /\ d.tree[g].make # "OK"
  <2>1. WayError(d.tree, q) = "OK" =>
          /\ Refusal(d.tree, g) \in {"OK", "EACCES", "EROFS"}
          /\ Refusal(d.tree, g) # "OK" =>
               g \in DOMAIN d.tree /\ d.tree[g] \in AnyFolder /\ d.tree[g].make = Refusal(d.tree, g)
    BY <1>0, <1>1, RefusalFacts, EntryFacts
  <2> HIDE DEF q, g
  <2>2. MkdirErrno(d, q) = IF WayError(d.tree, q) # "OK" THEN WayError(d.tree, q)
                           ELSE IF KindAt(d.tree, EntryAt(d.tree, q)) # "none" THEN "EEXIST"
                           ELSE Refusal(d.tree, g)
    BY DEF MkdirErrno, g
  <2> QED
    BY <1>4, <2>1, <2>2
<1>12. ASSUME MkdirErrno(d, q) \in {"EACCES", "EROFS"} PROVE RefusedIn(d.start, c) # {}
  <2>1. /\ g \in DOMAIN d.tree /\ d.tree[g] \in AnyFolder /\ d.tree[g].make # "OK"
        /\ g \in Paths /\ g # <<>>
    BY <1>0, <1>5, <1>12 DEF IsTree
  <2>2. g \in DOMAIN d.start /\ d.start[g] = d.tree[g]
    BY <2>1, NoLinkFacts DEF MadeFrom
  <2>3. KindAt(d.tree, g) = "dir" /\ KindAt(d.start, g) = "dir"
    BY <1>0, <2>1, <2>2, KindFacts
  <2>4. StaysFree(d.start, d.tree, Front(q))
    BY <1>1, <1>2, FreeStays
  <2>5. g = Leads(d.start, Front(q))
    BY <2>3, <2>4 DEF StaysFree
  <2>6. Front(q) # <<>>
    <3>1. Front(q) = <<>> => Leads(d.tree, Front(q)) = <<>>
      BY <1>1, LeadsStep
    <3> QED
      BY <2>1, <3>1
  <2>7. c.k - 1 \in 1 .. Len(c.path)
    <3>1. Len(Front(q)) = c.k - 1
      BY <1>0, <1>1, PartFacts
    <3>2. Len(Front(q)) # 0
      BY <1>1, <2>6, PathFacts
    <3> QED
      BY <1>0, <3>1, <3>2
  <2>8. g = Leads(d.start, SubSeq(c.path, 1, c.k - 1))
    BY <1>1, <2>5
  <2> HIDE DEF g
  <2> QED
    BY <2>1, <2>2, <2>7, <2>8 DEF RefusedIn
<1>6. /\ \/ result \in {"SUCCESS", "TARGETALREADYEXISTS"}
         \/ result = "PARENTSDONTEXIST" /\ MkdirErrno(d, q) = "ENOENT"
         \/ result \in {"NOPERMISSION", "OTHERERROR"} /\ RefusedIn(d.start, c) # {}
  BY <1>5, <1>12 DEF CreateDirectory
<1>13. LET r == Ended(c, result) IN r.at = "done" /\ r.error = result /\ r.path = c.path
  BY DEF Ended, CreatorSound, IsCreator
<1>14. RefusedIn(d.start, Ended(c, result)) = RefusedIn(d.start, c)
  BY <1>13 DEF RefusedIn
<1>7. made \/ EndsMade(d.start, Ended(c, result))
  BY <1>6, <1>13, <1>14 DEF EndsMade, RefusalEnd
<1>8. ASSUME Grown(d.start, d.tree), made
      PROVE  MakesOn(d.start, e.tree, ToMake(c))
  <2>1. /\ IsTree(e.tree)
        /\ MkdirErrno(d, q) = "OK" => Makes(d.tree, e.tree, q)
        /\ MkdirErrno(d, q) # "OK" => e.tree = d.tree
    BY <1>0, <1>1, MkdirFacts
  <2>2. WayError(e.tree, q) = "OK" /\ KindAt(e.tree, EntryAt(e.tree, q)) # "none"
    BY <1>0, <1>1, <1>8, MadeIsThere
  <2> HIDE DEF e
  <2>3. WayOpen(e.tree, q)
    BY <1>1, <2>1, <2>2, EntryFacts
  <2>4. \A p \in DOMAIN d.tree : p \in DOMAIN e.tree /\ e.tree[p] = d.tree[p]
    BY <2>1 DEF Makes
  <2>5. \A p \in DOMAIN e.tree : p \in DOMAIN d.tree \/ e.tree[p] = Dir
    BY <2>1 DEF Makes
  <2>6. \A p \in DOMAIN e.tree : (p \in DOMAIN d.start /\ e.tree[p] = d.start[p]) \/ e.tree[p] = Dir
    BY <2>4, <2>5 DEF MadeFrom
  <2>7. MadeFrom(d.start, e.tree)
    BY <1>0, <2>1, <2>6 DEF MadeFrom
  <2>8. \A p \in DOMAIN d.start : p \in DOMAIN e.tree /\ e.tree[p] = d.start[p]
    BY <1>8, <2>4 DEF Grown
  <2>9. KindAt(e.tree, Leads(e.tree, q)) = "dir"
    BY <1>1, <1>2, <2>2, <2>3, <2>7, <2>8, GrownIsFree
  <2> QED
    BY <2>9, ToMakeFree
<1>9. ASSUME MakesOn(d.start, d.tree, c) PROVE made \/ MakesOn(d.start, e.tree, Ended(c, result))
  <2>1. KindAt(d.tree, Leads(d.tree, Front(q))) = "dir"
    BY <1>1, <1>9 DEF MakesOn
  <2>2. MkdirErrno(d, q) # "ENOENT"
    BY <1>4, <1>5, <2>1
  <2>3. made \/ RefusalEnd(d.start, Ended(c, result))
    BY <1>6, <1>13, <1>14, <2>2 DEF RefusalEnd
  <2> HIDE DEF made, e, result
  <2> QED
    BY <1>13, <2>3 DEF MakesOn
<1> HIDE DEF made, result, e
<1>10. EndsMade(d.start, ToMake(c))
  BY ToMakeFree
<1>11. /\ EndsMade(d.start, IF made THEN ToMake(c) ELSE Ended(c, result))
       /\ Grown(d.start, d.tree) /\ MakesOn(d.start, d.tree, c) =>
            MakesOn(d.start, e.tree, IF made THEN ToMake(c) ELSE Ended(c, result))
  BY <1>7, <1>8, <1>9, <1>10
<1> QED
  BY <1>11 DEF made, result, e

MakeInv ==
  \A i \in DOMAIN disk.calls :
    disk.calls[i].what = "create" /\ FreeWay(disk.start, disk.calls[i].path) =>
      EndsMade(disk.start, disk.calls[i]) /\ (Removed = {} => MakesOn(disk.start, disk.tree, disk.calls[i]))
MakeStep(i) ==
  disk.calls[i].what = "create" /\ FreeWay(disk.start, disk.calls[i].path) =>
    EndsMade(disk.start, disk'.calls[i]) /\ (Removed = {} => MakesOn(disk.start, disk'.tree, disk'.calls[i]))

\* With no call that removes, all of the start stays.
LEMMA NothingRemoved ==
  ASSUME Removed = {}
  PROVE  /\ RemovedUnlinked /\ \A i \in DOMAIN disk.calls : disk.calls[i].what # "remove"
         /\ NothingElseIsTaken => Grown(disk.start, disk.tree)
<1>1. \A i \in DOMAIN disk.calls : disk.calls[i].what = "remove" => disk.calls[i].path \in Removed
  BY DEF Removed, Calls
<1> QED
  BY <1>1 DEF RemovedUnlinked, NothingElseIsTaken, Grown

\* The same as steps of the system.
LEMMA LookMakeStep ==
  ASSUME IInv, NEW i \in DOMAIN disk.calls, Look(i)
  PROVE  MakeStep(i)
<1> DEFINE c == disk.calls[i]
           r == IF TargetExists(disk, Part(c)) THEN ToMake(c) ELSE [c EXCEPT !.k = @ - 1]
<1> SUFFICES ASSUME FreeWay(disk.start, c.path)
             PROVE  EndsMade(disk.start, disk'.calls[i]) /\ MakesOn(disk.start, disk'.tree, disk'.calls[i])
  BY DEF MakeStep
<1>1. c.at = "look" /\ disk' = Set(disk, i, r)
  BY DEF Look
<1>2. CreatorSound(c) /\ IsDisk(disk)
  BY <1>1, CallOf, CreatorAt
<1>3. MadeFrom(disk.start, disk.tree)
  BY DEF IInv, DiskSound, OnlyFoldersMade, MadeFrom
<1>4. EndsMade(disk.start, r) /\ MakesOn(disk.start, disk.tree, r)
  BY <1>1, <1>2, <1>3, LookFree
<1> HIDE DEF r
<1>5. disk'.calls[i] = r /\ disk'.tree = disk.tree
  BY <1>1, <1>2, StepIs
<1> QED
  BY <1>4, <1>5

LEMMA MakeMakeStep ==
  ASSUME IInv, MakeInv, Removed = {} => NothingElseIsTaken, NEW i \in DOMAIN disk.calls, Make(i)
  PROVE  MakeStep(i)
<1> DEFINE c == disk.calls[i]
           result == CreateDirectory(disk, Part(c))
           e == AfterMkdir(disk, Part(c))
           made == result \in {"SUCCESS", "TARGETALREADYEXISTS"}
           r == IF made THEN ToMake(c) ELSE Ended(c, result)
<1> SUFFICES ASSUME c.what = "create", FreeWay(disk.start, c.path)
             PROVE  /\ EndsMade(disk.start, disk'.calls[i])
                    /\ Removed = {} => MakesOn(disk.start, disk'.tree, disk'.calls[i])
  BY DEF MakeStep
<1>1. c.at = "make" /\ disk' = Set(e, i, r)
  BY DEF Make
<1>2. CreatorSound(c) /\ IsDisk(disk) /\ IsTree(disk.tree)
  BY <1>1, CallOf, CreatorAt
<1>3. MadeFrom(disk.start, disk.tree)
  BY DEF IInv, DiskSound, OnlyFoldersMade, MadeFrom
<1>4. EndsMade(disk.start, r) /\ (Grown(disk.start, disk.tree) /\ MakesOn(disk.start, disk.tree, c) => MakesOn(disk.start, e.tree, r))
  BY <1>1, <1>2, <1>3, MakeFree
<1>5. Removed = {} => Grown(disk.start, disk.tree) /\ MakesOn(disk.start, disk.tree, c)
  BY NothingRemoved DEF MakeInv
<1>6. IsDisk(e) /\ e.calls = disk.calls
  <2>1. Part(c) \in Paths \ {<<>>}
    <3>1. /\ c.path \in Paths \ {<<>>} /\ Len(c.path) \in Nat /\ c.k \in 0 .. Len(c.path)
          /\ c.k # 0 /\ Len(<<>>) = 0
      BY <1>1, <1>2, PathFacts DEF CreatorSound
    <3>2. Part(c) \in Paths /\ Len(Part(c)) = c.k
      BY <3>1, PartFacts DEF Part
    <3> QED
      BY <3>1, <3>2
  <2> QED
    BY <1>2, <2>1, MkdirFacts
<1> HIDE DEF e, r
<1>7. disk'.calls[i] = r /\ disk'.tree = e.tree
  BY <1>1, <1>6, StepIs
<1> QED
  BY <1>4, <1>5, <1>7

LEMMA RemoverMakeStep ==
  ASSUME IInv, NEW i \in DOMAIN disk.calls,
         ScanItem(i) \/ RemoveItem(i) \/ RemoveRest(i) \/ RemoveTarget(i)
  PROVE  MakeStep(i)
<1>1. disk.calls[i].what = "remove"
  BY CallOf, RemoverAt DEF ScanItem, RemoveItem, RemoveRest, RemoveTarget
<1> QED
  BY <1>1 DEF MakeStep

\* What other calls make disturbs none.
LEMMA GrownMakes ==
  ASSUME NEW old, IsTree(old), NEW new, IsTree(new), Grown(old, new), NEW c, CreatorSound(c),
         NEW start, MakesOn(start, old, c)
  PROVE  MakesOn(start, new, c)
<1>1. \A p \in Paths : KindAt(old, Leads(old, p)) = "dir" =>
        KindAt(new, Leads(new, p)) = "dir"
  <2>1. /\ \A p \in Paths : KindAt(old, p) # "none" => KindAt(new, p) = KindAt(old, p)
        /\ \A p \in Paths : KindAt(old, Leads(old, p)) = "dir" => Leads(new, p) = Leads(old, p)
    BY GrownLeads DEF Grown
  <2> QED
    BY <2>1, LeadsIsPath
<1>2. c.path \in Paths
  BY DEF CreatorSound
<1>3. c.at = "make" => SubSeq(c.path, 1, c.k - 1) \in Paths
  <2>1. Len(c.path) \in Nat /\ c.k \in 0 .. Len(c.path) /\ (c.at = "make" => c.k # 0)
    BY <1>2, PathFacts DEF CreatorSound
  <2>2. c.at = "make" => c.k - 1 \in 0 .. Len(c.path)
    BY <2>1
  <2> QED
    BY <1>2, <2>2, PartBeneath
<1> QED
  BY <1>1, <1>2, <1>3 DEF MakesOn

LEMMA MakeInvStep ==
  ASSUME IInv, MakeInv, NEW i \in DOMAIN disk.calls, StepSound(i), MakeStep(i)
  PROVE  MakeInv'
<1>1. /\ Removed' = Removed /\ disk'.start = disk.start /\ DOMAIN disk'.calls = DOMAIN disk.calls
      /\ \A j \in DOMAIN disk.calls : disk'.calls[j].what = disk.calls[j].what
                                      /\ disk'.calls[j].path = disk.calls[j].path
      /\ \A j \in DOMAIN disk.calls : j # i => disk'.calls[j] = disk.calls[j]
  BY SameRequests DEF StepSound, CallMoves
<1>2. IsTree(disk.tree) /\ IsTree(disk'.tree)
  BY CallOf DEF StepSound, TreeMoves
<1>3. ASSUME Removed = {} PROVE Grown(disk.tree, disk'.tree)
  <2>1. disk.calls[i].what # "remove"
    BY <1>3, NothingRemoved
  <2>2. /\ \A p \in DOMAIN disk.tree : p \in DOMAIN disk'.tree => disk'.tree[p] = disk.tree[p]
        /\ DOMAIN disk.tree \subseteq DOMAIN disk'.tree
    BY <2>1, CallOf, StepKeepsValues DEF StepSound
  <2> QED
    BY <2>2 DEF Grown
<1>4. ASSUME NEW j \in DOMAIN disk.calls, disk.calls[j].what = "create",
             FreeWay(disk.start, disk.calls[j].path)
      PROVE  EndsMade(disk.start, disk'.calls[j]) /\ (Removed = {} => MakesOn(disk.start, disk'.tree, disk'.calls[j]))
  <2>1. CASE j = i
    BY <1>4, <2>1 DEF MakeStep
  <2>2. CASE j # i
    <3>1. EndsMade(disk.start, disk.calls[j]) /\ (Removed = {} => MakesOn(disk.start, disk.tree, disk.calls[j]))
      BY <1>4 DEF MakeInv
    <3>2. CreatorSound(disk.calls[j])
      <4>1. CallSound(disk.tree, disk.calls[j])
        BY CallOf
      <4> QED
        BY <1>4, <4>1 DEF CallSound, RemoverSound, QueueSound, IsRemover
    <3>3. Removed = {} => MakesOn(disk.start, disk'.tree, disk.calls[j])
      BY <1>2, <1>3, <3>1, <3>2, GrownMakes
    <3> QED
      BY <1>1, <2>2, <3>1, <3>3
  <2> QED
    BY <2>1, <2>2
<1> QED
  BY <1>1, <1>4 DEF MakeInv

\* A call that is not blocked has a free way.
LEMMA UnblockedIsFree ==
  ASSUME NEW c, c.path \in Paths, ~Blocked(c)
  PROVE  FreeWay(disk.start, c.path)
<1> SUFFICES ASSUME NEW f \in Paths \ {<<>>}, Beneath(c.path, f)
             PROVE  \/ KindAt(disk.start, EntryAt(disk.start, f)) = "none"
                    \/ KindAt(disk.start, Leads(disk.start, f)) = "dir"
  BY DEF FreeWay
<1>1. Len(f) <= Len(c.path) /\ SubSeq(c.path, 1, Len(f)) = f
  BY BeneathFacts
<1>2. Len(f) \in Nat \ {0} /\ Len(c.path) \in Nat
  BY FrontFacts, PathFacts
<1>3. Len(f) \in 1 .. Len(c.path)
  BY <1>1, <1>2
<1> QED
  BY <1>1, <1>3 DEF Blocked

LEMMA MakeEnds ==
  ASSUME IInv, MakeInv
  PROVE  CreatesUndisturbed
<1> SUFFICES ASSUME NEW i \in DOMAIN disk.calls, disk.calls[i].what = "create",
                    disk.calls[i].at = "done", ~Blocked(disk.calls[i])
             PROVE  LET c == disk.calls[i]
                    IN \/ Refused(c) # {} /\ c.error \in {"NOPERMISSION", "OTHERERROR"}
                       \/ Removed # {} /\ c.error = "PARENTSDONTEXIST"
                       \/ /\ c.error = "SUCCESS"
                          /\ Removed = {} => KindAt(disk.tree, Leads(disk.tree, c.path)) = "dir"
  BY DEF CreatesUndisturbed, Calls
<1> DEFINE c == disk.calls[i]
<1>1. c.path \in Paths
  <2>1. CallSound(disk.tree, c)
    BY CallOf
  <2> QED
    BY <2>1 DEF CallSound, CreatorSound, RemoverSound, QueueSound
<1>2. FreeWay(disk.start, c.path)
  BY <1>1, UnblockedIsFree
<1>3. EndsMade(disk.start, c) /\ (Removed = {} => MakesOn(disk.start, disk.tree, c))
  BY <1>2 DEF MakeInv
<1> QED
  BY <1>3 DEF EndsMade, MakesOn, RefusalEnd, RefusedIn, Refused

LEMMA MakeStart ==
  ASSUME IsStart(disk)
  PROVE  MakeInv
<1>1. ASSUME NEW i \in DOMAIN disk.calls, disk.calls[i].what = "create"
      PROVE  disk.calls[i].at = "look"
  <2> DEFINE c == disk.calls[i]
  <2>1. c \in {Remover(c.path), Creator(c.path)}
    BY DEF IsStart
  <2>2. c # Remover(c.path)
    BY <1>1 DEF Remover
  <2> QED
    BY <2>1, <2>2 DEF Creator
<1> QED
  BY <1>1 DEF MakeInv, EndsMade, MakesOn

-----------------------------------------------------------------------------
(* All of it *)

LinkedInv == CoverInv /\ LoneInv /\ HeldInv
FolderInv ==
  /\ IInv /\ DeniedStays /\ SaidIsGone /\ MakeInv
  /\ RemovedUnlinked => NothingElseIsTaken
  /\ CreatedUnlinked => NothingElseIsMade
  /\ AllUnlinked => LinkedInv

\* Where links were at the start stays as it was.
LEMMA SameLinks ==
  ASSUME NEW i \in DOMAIN disk.calls, StepSound(i)
  PROVE  (RemovedUnlinked' <=> RemovedUnlinked) /\ (CreatedUnlinked' <=> CreatedUnlinked)
<1>1. /\ Removed' = Removed /\ disk'.start = disk.start /\ DOMAIN disk'.calls = DOMAIN disk.calls
      /\ \A j \in DOMAIN disk.calls : disk'.calls[j].what = disk.calls[j].what
                                      /\ disk'.calls[j].path = disk.calls[j].path
  BY SameRequests DEF StepSound, CallMoves
<1>2. RemovedUnlinked' <=> RemovedUnlinked
  BY <1>1 DEF RemovedUnlinked
<1>3. CreatedUnlinked <=>
        \A j \in DOMAIN disk.calls :
          disk.calls[j].what = "create" => NoLinkAbove(disk.start, disk.calls[j].path)
  BY DEF CreatedUnlinked, Calls
<1>4. CreatedUnlinked' <=>
        \A j \in DOMAIN disk'.calls :
          disk'.calls[j].what = "create" => NoLinkAbove(disk'.start, disk'.calls[j].path)
  BY DEF CreatedUnlinked, Calls
<1>5. CreatedUnlinked' <=> CreatedUnlinked
  BY <1>1, <1>3, <1>4
<1> QED
  BY <1>2, <1>5

\* and it says what the calls promise.
LEMMA FolderInvHolds ==
  ASSUME FolderInv
  PROVE  FoldersEndAsAsked
<1>1. IInv /\ DeniedStays /\ SaidIsGone /\ MakeInv /\ IsTree(disk.tree)
  BY DEF FolderInv, IInv, DiskSound
<1>2. CreatesUndisturbed
  BY <1>1, MakeEnds
<1>3. ASSUME RemovedUnlinked, CreatedUnlinked PROVE AllIsTaken /\ RemovesAlone /\ NonEmptyIsCreated
  <2>1. AllUnlinked /\ CoverInv /\ LoneInv /\ HeldInv /\ NothingElseIsTaken
    BY <1>3 DEF FolderInv, AllUnlinked, LinkedInv
  <2> QED
    BY <1>1, <2>1, CoverEnds, LoneEnds, HeldEnds
<1> QED
  BY <1>1, <1>2, <1>3 DEF FolderInv, FoldersEndAsAsked

LEMMA FolderStart ==
  ASSUME IsStart(disk)
  PROVE  FolderInv
<1>1. disk.start = disk.tree
  BY DEF IsStart, NewDisk
<1>2. DeniedStays
  BY <1>1 DEF DeniedStays, Denied
<1>3. SaidIsGone
  <2> SUFFICES ASSUME NEW i \in DOMAIN disk.calls PROVE disk.calls[i].at # "done"
    BY DEF SaidIsGone, Calls
  <2>1. \/ disk.calls[i] = Remover(disk.calls[i].path)
        \/ disk.calls[i] = Creator(disk.calls[i].path)
    BY DEF IsStart
  <2> QED
    BY <2>1 DEF Remover, Creator
<1>4. NothingElseIsTaken /\ NothingElseIsMade
  BY <1>1 DEF NothingElseIsTaken, NothingElseIsMade
<1> QED
  BY <1>2, <1>3, <1>4, StartIInv, MakeStart, CoverStart, LoneStart, HeldStart
  DEF FolderInv, LinkedInv

\* Every action does all that the parts of the invariant ask of it.
LEMMA StepDoes ==
  ASSUME FolderInv, NEW i \in DOMAIN disk.calls,
         ScanItem(i) \/ RemoveItem(i) \/ RemoveRest(i) \/ RemoveTarget(i) \/ Look(i) \/ Make(i)
  PROVE  /\ StepSound(i) /\ EndsSound(i) /\ DeniedKept(i) /\ MakeStep(i)
         /\ AllUnlinked => CoverStep(i) /\ LoneStep(i) /\ HeldStep(i)
<1>1. IInv /\ MakeInv
  BY DEF FolderInv
<1>2. StepSound(i)
  BY <1>1, ScanSound, RemoveItemSound, RemoveRestSound, RemoveTargetSound, LookSound, MakeSound
<1>3. EndsSound(i)
  BY <1>1, ScanEndsSound, RemoveItemEndsSound, RemoveRestEndsSound, RemoveTargetEndsSound,
     LookEndsSound, MakeEndsSound
<1>4. DeniedKept(i)
  BY <1>1, StepKeepsDenied
<1>5. MakeStep(i)
  <2>1. Removed = {} => NothingElseIsTaken
    BY NothingRemoved DEF FolderInv
  <2> QED
    BY <1>1, <2>1, RemoverMakeStep, LookMakeStep, MakeMakeStep
<1>6. ASSUME AllUnlinked PROVE CoverStep(i) /\ LoneStep(i) /\ HeldStep(i)
  <2>1. CoverInv /\ LoneInv /\ HeldInv /\ NothingElseIsMade
    BY <1>6 DEF FolderInv, LinkedInv, AllUnlinked
  <2>2. CoverStep(i)
    BY <1>1, <1>2, <1>6, <2>1, ScanCoverStep, ItemCoverStep, RestCoverStep, TargetCoverStep,
       CreatorCoverStep
  <2>3. LoneStep(i)
    BY <1>1, <1>6, <2>1, ScanLoneStep, ItemLoneStep, RestLoneStep, TargetLoneStep, CreatorLoneStep
  <2>4. HeldStep(i)
    BY <1>1, <1>6, <2>1, ScanHeldStep, ItemHeldStep, RestHeldStep, TargetHeldStep, CreatorHeldStep
  <2> QED
    BY <2>2, <2>3, <2>4
<1> QED
  BY <1>2, <1>3, <1>4, <1>5, <1>6

\* So the invariant is inductive,
LEMMA FolderStep ==
  ASSUME FolderInv, DiskNext
  PROVE  FolderInv'
<1>1. PICK i \in DOMAIN disk.calls :
         ScanItem(i) \/ RemoveItem(i) \/ RemoveRest(i) \/ RemoveTarget(i) \/ Look(i) \/ Make(i)
  BY DEF DiskNext
<1>2. /\ StepSound(i) /\ EndsSound(i) /\ DeniedKept(i) /\ MakeStep(i)
      /\ AllUnlinked => CoverStep(i) /\ LoneStep(i) /\ HeldStep(i)
  BY <1>1, StepDoes
<1>3. IInv /\ DeniedStays /\ SaidIsGone /\ MakeInv
  BY DEF FolderInv
<1>4. IInv' /\ DeniedStays' /\ SaidIsGone' /\ MakeInv'
  BY <1>2, <1>3, StepIInv, DeniedStep, GoneStep, MakeInvStep
<1>5. (RemovedUnlinked' <=> RemovedUnlinked) /\ (CreatedUnlinked' <=> CreatedUnlinked)
  BY <1>2, SameLinks
<1>6. RemovedUnlinked' => NothingElseIsTaken'
  BY <1>2, <1>3, <1>5, TakenStep DEF FolderInv
<1>7. CreatedUnlinked' => NothingElseIsMade'
  BY <1>2, <1>3, <1>5, MadeStep DEF FolderInv
<1>8. ASSUME AllUnlinked' PROVE LinkedInv'
  <2>1. AllUnlinked /\ CoverInv /\ LoneInv /\ HeldInv
    BY <1>5, <1>8 DEF AllUnlinked, FolderInv, LinkedInv
  <2>2. CoverInv' /\ LoneInv' /\ HeldInv'
    BY <1>2, <1>3, <2>1, CoverInvStep, LoneInvStep, HeldInvStep
  <2> QED
    BY <2>2 DEF LinkedInv
<1> QED
  BY <1>4, <1>6, <1>7, <1>8 DEF FolderInv

\* also when nothing happens.
LEMMA FolderStutter ==
  ASSUME FolderInv, UNCHANGED disk
  PROVE  FolderInv'
<1>1. Calls' = Calls /\ Removed' = Removed /\ Created' = Created /\ Denied' = Denied
  BY DEF Calls, Removed, Created, Denied
<1>2. (IInv => IInv') /\ (DeniedStays => DeniedStays') /\ (SaidIsGone => SaidIsGone')
  BY <1>1 DEF IInv, DeniedStays, SaidIsGone
<1>3. MakeInv => MakeInv'
  BY <1>1 DEF MakeInv
<1>4. /\ RemovedUnlinked' = RemovedUnlinked /\ CreatedUnlinked' = CreatedUnlinked
      /\ NothingElseIsTaken => NothingElseIsTaken'
      /\ NothingElseIsMade => NothingElseIsMade'
  BY <1>1 DEF RemovedUnlinked, CreatedUnlinked, NothingElseIsTaken, NothingElseIsMade
<1>5. CoverInv => CoverInv'
  BY <1>1 DEF CoverInv
<1>6. LoneInv => LoneInv'
  BY DEF LoneInv, Alone
<1>7. HeldInv => HeldInv'
  BY <1>1 DEF HeldInv, OnlyRemover
<1> QED
  BY <1>2, <1>3, <1>4, <1>5, <1>6, <1>7 DEF FolderInv, LinkedInv, AllUnlinked

(***************************************************************************)
(* What the calls that remove and create folders promise, for every tree,  *)
(* every entry that may not be removed, any number of descriptors and any  *)
(* calls that run at the same time (filesys32.c:397-1077, 1210-1395,       *)
(* 2968-3079).                                                             *)
(***************************************************************************)
THEOREM FoldersAlwaysEndAsAsked == DiskSpec => []FoldersEndAsAsked
<1>1. IsStart(disk) => FolderInv
  BY FolderStart
<1>2. FolderInv /\ [DiskNext]_disk => FolderInv'
  BY FolderStep, FolderStutter
<1>3. FolderInv => FoldersEndAsAsked
  BY FolderInvHolds
<1> QED
  BY <1>1, <1>2, <1>3, PTL DEF DiskSpec
=============================================================================
