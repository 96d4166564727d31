----------------------------- MODULE VmExec_proofs -----------------------------
(***************************************************************************)
(* Function frames, rescue frames and the interpreter's own counter keep   *)
(* in step, and unfinished work keeps its call, for every program.         *)
(***************************************************************************)
EXTENDS VmExec, FiniteSetTheorems, SequenceTheorems, TLAPS

IsSeq(s) == s \in Seq({s[i] : i \in 1 .. Len(s)}) /\ Len(s) \in Nat
IsThread(t) ==
  t = [frames |-> t.frames, rescues |-> t.rescues, top |-> t.top, floor |-> t.floor,
       settop |-> t.settop, work |-> t.work]

\* Function frame i was entered with base rescue frames; those above, up to the base of
\* the next function frame, are its own.
Bases(frames, n) ==
  /\ \A i \in 1 .. Len(frames) : frames[i].base \in 0 .. n
  /\ \A i, j \in 1 .. Len(frames) : i <= j => frames[i].base <= frames[j].base
  /\ frames[1].base = 0
Owned(frames, rescues) ==
  \A k \in 1 .. Len(rescues) :
    /\ "frame" \in DOMAIN rescues[k]
    /\ rescues[k].frame \in 1 .. Len(frames)
    /\ frames[rescues[k].frame].base < k
    /\ \A i \in 1 .. Len(frames) : rescues[k].frame < i => k <= frames[i].base
\* Every function returns to the one below.
Linked(frames) ==
  /\ \A i \in 1 .. Len(frames) : frames[i].func \in DOMAIN image
  /\ \A i \in 2 .. Len(frames) : frames[i].retfn = frames[i - 1].func
Nested(frames, rescues) ==
  /\ IsSeq(frames) /\ IsSeq(rescues) /\ Len(frames) > 0
  /\ \A i \in 1 .. Len(frames) : {"func", "base", "retfn"} \subseteq DOMAIN frames[i]
  /\ Bases(frames, Len(rescues)) /\ Owned(frames, rescues) /\ Linked(frames)

Sound(t, f, d) ==
  /\ IsThread(t) /\ Nested(t.frames, t.rescues)
  /\ d = Len(t.frames) /\ f = t.frames[d].func

\* While work is left, the thread stands at its call.
WorkInv ==
  /\ resume.needs \in BOOLEAN /\ "needs" \in DOMAIN resume
  /\ resume.needs <=> vt.work # NoWork
  /\ resume.needs =>
       /\ vt.work \in DOMAIN CFunction /\ CFunction[vt.work] \in {"work", "workfail"}
       /\ image[resume.fn].code[resume.pc + 1].op = "call"
       /\ image[resume.fn].code[resume.pc + 1].f = vt.work
  /\ resume.needs /\ phase = "run" => fn = resume.fn /\ pc = resume.pc

IInv ==
  /\ prog \in DOMAIN Image /\ image = Image[prog]
  /\ phase \in {"run", "suspended", "done", "lost"}
  /\ phase # "done" => Sound(vt, fn, nest)
  /\ phase = "suspended" => resume.fn = fn /\ resume.nest = nest
  /\ phase = "done" => vt.frames = <<>> /\ vt.rescues = <<>>
  /\ phase \in {"run", "suspended"} => WorkInv

-----------------------------------------------------------------------------
(* Sequences and numbers *)

\* A set of numbers up to n has a largest one: the intervals from them up to n are
\* finite sets, so one of them has no other inside.
LEMMA HasLargest ==
  ASSUME NEW n \in Nat, NEW T, T \subseteq 1 .. n, T # {}
  PROVE  \E x \in T : \A y \in T : y <= x
<1> DEFINE U == {x .. n : x \in T}
<1>1. \A x \in T : IsFiniteSet(x .. n) /\ x .. n \subseteq Nat
    BY FS_Interval
<1>2. U \subseteq FiniteSubsetsOf(Nat) /\ U # {}
    BY <1>1 DEF FiniteSubsetsOf
<1>3. PICK u \in U : \A v \in U : <<v, u>> \notin StrictSubsetOrdering(Nat)
  <2> HIDE DEF U
  <2> QED
    BY <1>2, FS_StrictSubsetOrderingWellFounded, WFMin
<1>4. PICK x \in T : u = x .. n
    BY <1>3
<1>5. ASSUME NEW y \in T, x < y PROVE FALSE
  <2>1. y .. n \in U /\ y .. n \subseteq Nat /\ u \subseteq Nat
    BY <1>1, <1>4
  <2>2. y .. n \subseteq u
    BY <1>4, <1>5
  <2>3. x \in u /\ x \notin y .. n
    BY <1>4, <1>5
  <2>4. <<y .. n, u>> \in StrictSubsetOrdering(Nat)
    BY <2>1, <2>2, <2>3, Zenon DEF StrictSubsetOrdering
  <2> QED
    BY <1>3, <2>1, <2>4
<1> QED
    BY <1>5

LEMMA AppendIsSeq ==
  ASSUME NEW s, NEW e, IsSeq(s)
  PROVE  /\ IsSeq(Append(s, e)) /\ Len(Append(s, e)) = Len(s) + 1
         /\ Append(s, e)[Len(s) + 1] = e
         /\ \A i \in 1 .. Len(s) : Append(s, e)[i] = s[i]
<1> DEFINE S == {s[i] : i \in 1 .. Len(s)} \cup {e}
           a == Append(s, e)
<1>1. s \in Seq(S) /\ e \in S
    BY SeqMonotonic DEF IsSeq
<1>2. a \in Seq(S) /\ Len(a) = Len(s) + 1 /\ a[Len(s) + 1] = e
      /\ \A i \in 1 .. Len(s) : a[i] = s[i]
  <2> HIDE DEF S
  <2> QED
    BY <1>1, AppendProperties DEF IsSeq
<1>3. a \in Seq({a[i] : i \in 1 .. Len(a)})
  <2> HIDE DEF a, S
  <2> QED
    BY <1>2
<1>4. IsSeq(a)
  <2> HIDE DEF a, S
  <2> QED
    BY <1>2, <1>3 DEF IsSeq
<1> QED
    BY <1>2, <1>4

LEMMA FrontIsSeq ==
  ASSUME NEW s, IsSeq(s), NEW n \in 0 .. Len(s)
  PROVE  /\ IsSeq(SubSeq(s, 1, n)) /\ Len(SubSeq(s, 1, n)) = n
         /\ \A i \in 1 .. n : SubSeq(s, 1, n)[i] = s[i]
<1> DEFINE S == {s[i] : i \in 1 .. Len(s)}
           b == SubSeq(s, 1, n)
<1>1. b \in Seq(S) /\ Len(b) = n /\ \A i \in 1 .. n : b[i] = s[i]
  <2>1. Len(s) \in Nat /\ n \in Nat /\ n <= Len(s)
    BY DEF IsSeq
  <2>2. \A i \in 1 .. n : s[i] \in S
    BY <2>1 DEF S
  <2>3. /\ b \in Seq(S) /\ Len(b) = (IF 1 <= n THEN n - 1 + 1 ELSE 0)
        /\ \A i \in 1 .. n - 1 + 1 : b[i] = s[1 + i - 1]
    <3> HIDE DEF S
    <3> QED
      BY <2>1, <2>2, SubSeqProperties
  <2> HIDE DEF b
  <2> QED
    BY <2>1, <2>3
<1>2. b \in Seq({b[i] : i \in 1 .. Len(b)})
  <2> HIDE DEF b, S
  <2> QED
    BY <1>1
<1> QED
    BY <1>1, <1>2 DEF IsSeq

LEMMA AnyIsSeq ==
  ASSUME NEW S, NEW s \in Seq(S)
  PROVE  IsSeq(s)
<1>1. Len(s) \in Nat /\ \A i \in 1 .. Len(s) : s[i] \in {s[n] : n \in 1 .. Len(s)}
    BY LenProperties
<1>2. s \in Seq({s[n] : n \in 1 .. Len(s)})
    BY <1>1, SeqDef, LenProperties
<1> QED
    BY <1>1, <1>2 DEF IsSeq

Put(s, k, e) == [s EXCEPT ![k] = e]
LEMMA PutIsSeq ==
  ASSUME NEW s, NEW e, IsSeq(s), NEW k \in 1 .. Len(s)
  PROVE  /\ IsSeq(Put(s, k, e)) /\ Len(Put(s, k, e)) = Len(s) /\ Put(s, k, e)[k] = e
         /\ \A i \in 1 .. Len(s) : i # k => Put(s, k, e)[i] = s[i]
<1> DEFINE S == {s[i] : i \in 1 .. Len(s)} \cup {e}
<1>1. s \in Seq(S) /\ e \in S
    BY SeqMonotonic DEF IsSeq
<1> HIDE DEF S
<1>2. Put(s, k, e) \in Seq(S) /\ Len(Put(s, k, e)) = Len(s)
      /\ \A i \in 1 .. Len(s) : Put(s, k, e)[i] = IF i = k THEN e ELSE s[i]
    BY <1>1, ExceptSeq DEF Put
<1> QED
    BY <1>2, AnyIsSeq

LEMMA CutIsFront ==
  ASSUME NEW s, IsSeq(s), NEW n \in 0 .. Len(s)
  PROVE  /\ IsSeq(Cut(s, n)) /\ Len(Cut(s, n)) = n
         /\ \A i \in 1 .. n : Cut(s, n)[i] = s[i]
<1>1. CASE Len(s) > n
    BY <1>1, FrontIsSeq DEF Cut
<1>2. CASE Len(s) = n
    BY <1>2 DEF Cut, IsSeq
<1> QED
    BY <1>1, <1>2 DEF IsSeq

-----------------------------------------------------------------------------
(* Frames *)

\* What is left of the frames when the ones above n are popped and the rescue frames
\* above k with them.
LEMMA NestedBelow ==
  ASSUME NEW frames, NEW rescues, Nested(frames, rescues),
         NEW n \in 1 .. Len(frames), NEW k \in 0 .. Len(rescues),
         frames[n].base <= k, n < Len(frames) => k <= frames[n + 1].base,
         NEW f, IsSeq(f), Len(f) = n, \A i \in 1 .. n : f[i] = frames[i],
         NEW r, IsSeq(r), Len(r) = k, \A i \in 1 .. k : r[i] = rescues[i]
  PROVE  Nested(f, r)
<1>1. /\ Len(frames) \in Nat /\ Len(rescues) \in Nat /\ n \in Nat /\ k \in Nat
      /\ n <= Len(frames) /\ k <= Len(rescues) /\ 1 <= n
    BY DEF Nested, IsSeq
<1>2. \A i \in 1 .. Len(frames) : frames[i].base \in Nat
    BY <1>1 DEF Nested, Bases
<1>3. Bases(f, Len(r))
  <2>1. \A i \in 1 .. n : frames[i].base <= frames[n].base
    BY <1>1 DEF Nested, Bases
  <2>2. ASSUME NEW i \in 1 .. n, NEW j \in 1 .. n, i <= j PROVE frames[i].base <= frames[j].base
    BY <1>1, <2>2 DEF Nested, Bases
  <2>3. frames[1].base = 0
    BY DEF Nested, Bases
  <2>4. \A i \in 1 .. n : f[i].base = frames[i].base /\ frames[i].base \in 0 .. k
    BY <1>1, <1>2, <2>1
  <2> QED
    BY <1>1, <2>2, <2>3, <2>4 DEF Bases
<1>4. Owned(f, r)
  <2> SUFFICES ASSUME NEW j \in 1 .. k
               PROVE  /\ "frame" \in DOMAIN rescues[j] /\ rescues[j].frame \in 1 .. n
                      /\ frames[rescues[j].frame].base < j
                      /\ \A i \in 1 .. n : rescues[j].frame < i => j <= frames[i].base
    BY <1>1 DEF Owned
  <2>1. /\ "frame" \in DOMAIN rescues[j] /\ rescues[j].frame \in 1 .. Len(frames)
        /\ frames[rescues[j].frame].base < j
        /\ \A i \in 1 .. Len(frames) : rescues[j].frame < i => j <= frames[i].base
    BY <1>1 DEF Nested, Owned
  <2>2. rescues[j].frame <= n
    <3> SUFFICES ASSUME rescues[j].frame > n PROVE FALSE
      BY <1>1, <2>1
    <3>1. n + 1 \in 1 .. Len(frames) /\ n + 1 <= rescues[j].frame
      BY <1>1, <2>1
    <3>2. frames[n + 1].base <= frames[rescues[j].frame].base
      BY <1>1, <2>1, <3>1 DEF Nested, Bases
    <3> QED
      BY <1>1, <1>2, <2>1, <3>1, <3>2
  <2> QED
    BY <1>1, <2>1, <2>2
<1>5. Linked(f)
  <2>1. \A i \in 1 .. n : frames[i].func \in DOMAIN image
    BY <1>1 DEF Nested, Linked
  <2>2. ASSUME NEW i \in 2 .. n PROVE f[i].retfn = f[i - 1].func
    <3>1. i \in 2 .. Len(frames) /\ i \in 1 .. n /\ i - 1 \in 1 .. n
      BY <1>1
    <3>2. frames[i].retfn = frames[i - 1].func
      BY <3>1 DEF Nested, Linked
    <3> QED
      BY <3>1, <3>2
  <2> QED
    BY <2>1, <2>2 DEF Linked
<1> QED
    BY <1>1, <1>3, <1>4, <1>5 DEF Nested

LEMMA PushFrameNests ==
  ASSUME NEW frames, NEW rescues, Nested(frames, rescues),
         NEW e, {"func", "base", "retfn"} \subseteq DOMAIN e, e.base = Len(rescues),
         e.func \in DOMAIN image, e.retfn = frames[Len(frames)].func
  PROVE  Nested(Append(frames, e), rescues)
<1> DEFINE g == Append(frames, e)
           N == Len(frames)
<1>1. IsSeq(g) /\ Len(g) = N + 1 /\ g[N + 1] = e /\ \A i \in 1 .. N : g[i] = frames[i]
    BY AppendIsSeq DEF Nested
<1>2. N \in Nat /\ N > 0 /\ Len(rescues) \in Nat /\ IsSeq(rescues)
    BY DEF Nested, IsSeq
<1>3. \A i \in 1 .. N + 1 : i \in 1 .. N \/ i = N + 1
    BY <1>2
<1> HIDE DEF g, N
<1>4. Bases(g, Len(rescues))
  <2>1. \A i \in 1 .. N : frames[i].base \in 0 .. Len(rescues)
    BY DEF Nested, Bases, N
  <2>2. ASSUME NEW i \in 1 .. N + 1, NEW j \in 1 .. N + 1, i <= j PROVE g[i].base <= g[j].base
    <3>1. CASE j = N + 1
      BY <1>1, <1>2, <1>3, <2>1, <3>1
    <3>2. CASE i \in 1 .. N /\ j \in 1 .. N
      BY <1>1, <2>2, <3>2 DEF Nested, Bases, N
    <3> QED
      BY <1>2, <1>3, <2>2, <3>1, <3>2
  <2>3. g[1].base = 0
    BY <1>1, <1>2 DEF Nested, Bases
  <2>4. \A i \in 1 .. N + 1 : g[i].base \in 0 .. Len(rescues)
    BY <1>1, <1>2, <1>3, <2>1
  <2> QED
    BY <1>1, <2>2, <2>3, <2>4 DEF Bases
<1>5. Owned(g, rescues)
  <2> SUFFICES ASSUME NEW k \in 1 .. Len(rescues)
               PROVE  /\ "frame" \in DOMAIN rescues[k] /\ rescues[k].frame \in 1 .. N + 1
                      /\ g[rescues[k].frame].base < k
                      /\ \A i \in 1 .. N + 1 : rescues[k].frame < i => k <= g[i].base
    BY <1>1 DEF Owned
  <2>1. /\ "frame" \in DOMAIN rescues[k] /\ rescues[k].frame \in 1 .. N
        /\ frames[rescues[k].frame].base < k
        /\ \A i \in 1 .. N : rescues[k].frame < i => k <= frames[i].base
    BY DEF Nested, Owned, N
  <2> QED
    BY <1>1, <1>2, <1>3, <2>1
<1>6. Linked(g)
  <2>1. \A i \in 1 .. N : frames[i].func \in DOMAIN image
    BY DEF Nested, Linked, N
  <2>2. ASSUME NEW i \in 2 .. N + 1 PROVE g[i].retfn = g[i - 1].func
    <3>1. CASE i = N + 1
      BY <1>1, <1>2, <3>1 DEF N
    <3>2. CASE i \in 2 .. N
      <4>1. i \in 1 .. N /\ i - 1 \in 1 .. N
        BY <1>2, <3>2
      <4>2. frames[i].retfn = frames[i - 1].func
        BY <3>2 DEF Nested, Linked, N
      <4> QED
        BY <1>1, <4>1, <4>2
    <3> QED
      BY <1>2, <3>1, <3>2
  <2>3. \A i \in 1 .. N + 1 : g[i].func \in DOMAIN image
    BY <1>1, <1>3, <2>1
  <2> QED
    BY <1>1, <2>2, <2>3 DEF Linked
<1>7. \A i \in 1 .. N + 1 : {"func", "base", "retfn"} \subseteq DOMAIN g[i]
  <2>1. \A i \in 1 .. N : {"func", "base", "retfn"} \subseteq DOMAIN frames[i]
    BY DEF Nested, N
  <2> QED
    BY <1>1, <1>3, <2>1
<1>8. Nested(g, rescues)
    BY <1>1, <1>2, <1>4, <1>5, <1>6, <1>7 DEF Nested
<1> QED
    BY <1>8 DEF g

LEMMA PushRescueNests ==
  ASSUME NEW frames, NEW rescues, Nested(frames, rescues),
         NEW e, "frame" \in DOMAIN e, e.frame = Len(frames)
  PROVE  Nested(frames, Append(rescues, e))
<1> DEFINE r == Append(rescues, e)
           K == Len(rescues)
           N == Len(frames)
<1>1. IsSeq(r) /\ Len(r) = K + 1 /\ r[K + 1] = e /\ \A i \in 1 .. K : r[i] = rescues[i]
    BY AppendIsSeq DEF Nested
<1>2. N \in Nat /\ N > 0 /\ K \in Nat
    BY DEF Nested, IsSeq
<1> HIDE DEF r, K
<1>3. \A i \in 1 .. N : frames[i].base \in 0 .. K
    BY DEF Nested, Bases, K
<1>4. Bases(frames, K + 1)
    BY <1>2, <1>3 DEF Nested, Bases
<1>5. Owned(frames, r)
  <2> SUFFICES ASSUME NEW k \in 1 .. K + 1
               PROVE  /\ "frame" \in DOMAIN r[k] /\ r[k].frame \in 1 .. N
                      /\ frames[r[k].frame].base < k
                      /\ \A i \in 1 .. N : r[k].frame < i => k <= frames[i].base
    BY <1>1 DEF Owned
  <2>1. CASE k = K + 1
    BY <1>1, <1>2, <1>3, <2>1
  <2>2. CASE k \in 1 .. K
    BY <1>1, <2>2 DEF Nested, Owned, K
  <2> QED
    BY <1>2, <2>1, <2>2
<1>6. Nested(frames, r)
    BY <1>1, <1>4, <1>5 DEF Nested
<1> QED
    BY <1>6 DEF r

\* A rescue frame is marked as having done its part.
LEMMA MarkNests ==
  ASSUME NEW frames, NEW rescues, Nested(frames, rescues), NEW k \in 1 .. Len(rescues),
         NEW e, "frame" \in DOMAIN e, e.frame = rescues[k].frame
  PROVE  Nested(frames, [rescues EXCEPT ![k] = e])
<1> DEFINE r == Put(rescues, k, e)
<1>1. /\ IsSeq(r) /\ Len(r) = Len(rescues) /\ r[k] = e
      /\ \A i \in 1 .. Len(rescues) : i # k => r[i] = rescues[i]
    BY PutIsSeq DEF Nested
<1> HIDE DEF r
<1>2. \A i \in 1 .. Len(rescues) : "frame" \in DOMAIN r[i] /\ r[i].frame = rescues[i].frame
    BY <1>1 DEF Nested, Owned
<1>3. Owned(frames, r)
    BY <1>1, <1>2 DEF Nested, Owned
<1>4. Nested(frames, r)
    BY <1>1, <1>3 DEF Nested
<1> QED
    BY <1>4 DEF r, Put

\* The objects of the running function change.
LEMMA ObjectsNest ==
  ASSUME NEW frames, NEW rescues, Nested(frames, rescues), NEW x
  PROVE  /\ Nested([frames EXCEPT ![Len(frames)].objs = x], rescues)
         /\ Len([frames EXCEPT ![Len(frames)].objs = x]) = Len(frames)
         /\ [frames EXCEPT ![Len(frames)].objs = x][Len(frames)].func = frames[Len(frames)].func
<1> DEFINE N == Len(frames)
           e == [frames[N] EXCEPT !.objs = x]
           g == Put(frames, N, e)
<1>1. N \in Nat /\ N > 0 /\ N \in 1 .. N /\ IsSeq(frames)
    BY DEF Nested, IsSeq
<1>2. IsSeq(g) /\ Len(g) = N /\ g[N] = e /\ \A i \in 1 .. N : i # N => g[i] = frames[i]
  <2> HIDE DEF e
  <2> QED
    BY <1>1, PutIsSeq
<1>3. {"func", "base", "retfn"} \subseteq DOMAIN frames[N]
    BY <1>1 DEF Nested
<1>4. /\ {"func", "base", "retfn"} \subseteq DOMAIN e
      /\ e.func = frames[N].func /\ e.base = frames[N].base /\ e.retfn = frames[N].retfn
    BY <1>3
<1>5. g = [frames EXCEPT ![Len(frames)].objs = x]
    BY DEF Put
<1> HIDE DEF g, e, N
<1>6. \A i \in 1 .. N : /\ {"func", "base", "retfn"} \subseteq DOMAIN g[i]
                        /\ g[i].func = frames[i].func /\ g[i].base = frames[i].base
                        /\ g[i].retfn = frames[i].retfn
    BY <1>2, <1>4 DEF Nested, N
<1>7. Bases(g, Len(rescues))
    BY <1>1, <1>2, <1>6 DEF Nested, Bases, N
<1>8. Owned(g, rescues)
    BY <1>1, <1>2, <1>6 DEF Nested, Owned, N
<1>9. Linked(g)
  <2>1. \A i \in 1 .. N : g[i].func \in DOMAIN image
    BY <1>6 DEF Nested, Linked, N
  <2>2. ASSUME NEW i \in 2 .. N PROVE g[i].retfn = g[i - 1].func
    <3>1. i \in 1 .. N /\ i - 1 \in 1 .. N
      BY <1>1
    <3>2. frames[i].retfn = frames[i - 1].func
      BY DEF Nested, Linked, N
    <3> QED
      BY <1>6, <3>1, <3>2
  <2> QED
    BY <1>2, <2>1, <2>2 DEF Linked
<1>10. Nested(g, rescues)
    BY <1>1, <1>2, <1>6, <1>7, <1>8, <1>9 DEF Nested
<1> QED
    BY <1>1, <1>2, <1>5, <1>6, <1>10 DEF N

-----------------------------------------------------------------------------
(* Popping and raising *)

LEMMA PopLeaves ==
  ASSUME NEW t, IsThread(t), IsSeq(t.frames), Len(t.frames) > 0
  PROVE  LET u == PopFuncFrame(t)
             n == Len(t.frames)
         IN  /\ IsThread(u) /\ u.work = t.work
             /\ u.frames = SubSeq(t.frames, 1, n - 1)
             /\ u.rescues = Cut(t.rescues, t.frames[n].base)
             /\ u.settop \in {NoTop, t.settop} /\ u.top = RestoredSize(t)
             /\ u.floor = IF n <= 2 THEN 0 ELSE t.frames[n - 1].floor
<1> DEFINE n == Len(t.frames)
           r == Cut(t.rescues, t.frames[n].base)
           f == SubSeq(t.frames, 1, n - 1)
<1>1. PopFuncFrame(t) =
        [[frames |-> t.frames, rescues |-> t.rescues, top |-> t.top, floor |-> t.floor,
          settop |-> t.settop, work |-> t.work] EXCEPT
            !.rescues = r,
            !.settop = IF Len(t.rescues) > t.frames[n].base THEN NoTop ELSE t.settop,
            !.floor = IF n <= 2 THEN 0 ELSE t.frames[n - 1].floor,
            !.top = RestoredSize(t),
            !.frames = f]
    BY Zenon DEF PopFuncFrame, IsThread, Front
<1> HIDE DEF r, f
<1>2. PopFuncFrame(t).settop \in {NoTop, t.settop}
    BY <1>1
<1> QED
    BY <1>1, <1>2 DEF IsThread, r, f

AlikeRescue(a, b) ==
  /\ {"frame", "rescue", "finally"} \subseteq DOMAIN a
  /\ a.frame = b.frame /\ a.rescue = b.rescue /\ a.finally = b.finally
\* The stack is the one frame n had when it made its call.
Resettled(t, u, n) ==
  /\ t.settop = NoTop => u.settop = NoTop
  /\ n = Len(t.frames) => u.floor = t.floor /\ u.top = t.top
  /\ n < Len(t.frames) =>
       /\ u.floor = IF n <= 1 THEN 0 ELSE t.frames[n].floor
       /\ u.top = IF t.frames[n + 1].restore < t.frames[n].space
                  THEN t.frames[n].space ELSE t.frames[n + 1].restore

\* The frames above n go; the rescue frames are below what they were entered with.
LEMMA UnwindLeaves ==
  ASSUME NEW t, IsThread(t), IsSeq(t.frames), IsSeq(t.rescues),
         NEW n \in 1 .. Len(t.frames),
         n < Len(t.frames) => /\ t.frames[n + 1].base \in Nat
                              /\ Len(t.rescues) <= t.frames[n + 1].base
  PROVE  LET u == UnwindTo(t, n)
         IN  /\ IsThread(u) /\ u.work = t.work /\ u.rescues = t.rescues
             /\ IsSeq(u.frames) /\ Len(u.frames) = n
             /\ \A i \in 1 .. n : u.frames[i] = t.frames[i]
             /\ Resettled(t, u, n)
<1>1. Len(t.frames) \in Nat /\ Len(t.rescues) \in Nat
    BY DEF IsSeq
<1>2. CASE Len(t.frames) <= n
    BY <1>1, <1>2 DEF UnwindTo, Resettled
<1>3. CASE n < Len(t.frames)
  <2> DEFINE g == SubSeq(t.frames, 1, n + 1)
             v == [t EXCEPT !.frames = g]
  <2>1. IsSeq(g) /\ Len(g) = n + 1 /\ \A i \in 1 .. n + 1 : g[i] = t.frames[i]
      BY <1>1, <1>3, FrontIsSeq
  <2>2. IsSeq(SubSeq(g, 1, n)) /\ Len(SubSeq(g, 1, n)) = n
        /\ \A i \in 1 .. n : SubSeq(g, 1, n)[i] = g[i]
    <3> HIDE DEF g
    <3> QED
      BY <1>1, <2>1, FrontIsSeq
  <2>3. /\ IsThread(v) /\ v.frames = g /\ v.rescues = t.rescues /\ v.work = t.work
        /\ v.settop = t.settop
    <3> HIDE DEF g
    <3> QED
      BY DEF IsThread
  <2>4. UnwindTo(t, n) = PopFuncFrame(v)
      BY <1>1, <1>3 DEF UnwindTo
  <2> HIDE DEF g, v
  <2>5. /\ IsThread(PopFuncFrame(v)) /\ PopFuncFrame(v).work = t.work
        /\ PopFuncFrame(v).frames = SubSeq(g, 1, n)
        /\ PopFuncFrame(v).rescues = Cut(t.rescues, g[n + 1].base)
        /\ PopFuncFrame(v).settop \in {NoTop, t.settop}
        /\ PopFuncFrame(v).top = RestoredSize(v)
        /\ PopFuncFrame(v).floor = IF n + 1 <= 2 THEN 0 ELSE g[n].floor
    <3>1. IsSeq(v.frames) /\ Len(v.frames) = n + 1 /\ n + 1 > 0 /\ n + 1 - 1 = n
      BY <1>1, <2>1, <2>3
    <3>2. LET N == Len(v.frames)
          IN  /\ IsThread(PopFuncFrame(v)) /\ PopFuncFrame(v).work = v.work
              /\ PopFuncFrame(v).frames = SubSeq(v.frames, 1, N - 1)
              /\ PopFuncFrame(v).rescues = Cut(v.rescues, v.frames[N].base)
              /\ PopFuncFrame(v).settop \in {NoTop, v.settop}
              /\ PopFuncFrame(v).top = RestoredSize(v)
              /\ PopFuncFrame(v).floor = IF N <= 2 THEN 0 ELSE v.frames[N - 1].floor
      BY <2>3, <3>1, PopLeaves
    <3> QED
      BY <2>3, <3>1, <3>2
  <2>6. Cut(t.rescues, g[n + 1].base) = t.rescues
      BY <1>1, <1>3, <2>1 DEF Cut
  <2>7. RestoredSize(v) = IF g[n + 1].restore < g[n].space THEN g[n].space ELSE g[n + 1].restore
    <3>1. n + 1 > 1 /\ n + 1 - 1 = n
      BY <1>1
    <3> QED
      BY <2>1, <2>3, <3>1 DEF RestoredSize
  <2>8. Resettled(t, PopFuncFrame(v), n)
    <3>1. n + 1 <= 2 <=> n <= 1
      BY <1>1
    <3>2. n \in 1 .. n + 1 /\ n + 1 \in 1 .. n + 1
      BY <1>1
    <3>3. g[n] = t.frames[n] /\ g[n + 1] = t.frames[n + 1]
      BY <2>1, <3>2
    <3> QED
      BY <1>1, <1>3, <2>5, <2>7, <3>1, <3>3 DEF Resettled
  <2> QED
      BY <1>1, <2>1, <2>2, <2>4, <2>5, <2>6, <2>8
<1> QED
    BY <1>1, <1>2, <1>3

\* The error is taken by rescue frame number k, in the function frame it names.
LandedAt(t, e, k) ==
  LET r == t.rescues[k]
  IN  /\ k \in 1 .. Len(t.rescues) /\ r.frame \in 1 .. Len(t.frames)
      /\ Len(e.vt.frames) = r.frame
      /\ \A i \in 1 .. r.frame : e.vt.frames[i] = t.frames[i]
      /\ Len(e.vt.rescues) = k
      /\ \A i \in 1 .. k - 1 : e.vt.rescues[i] = t.rescues[i]
      /\ {"frame", "rescue", "finally"} \subseteq DOMAIN r =>
           AlikeRescue(e.vt.rescues[k], r)
      /\ e.pc \in {r.rescue, r.finally}
      /\ Resettled(t, e.vt, r.frame)
Landed(t, e) ==
  "pc" \in DOMAIN e /\ (e.uncaught = NoError => \E k \in 1 .. Len(t.rescues) : LandedAt(t, e, k))

\* A raised error ends in a frame that takes it, or leaves the interpreter.
LEMMA RaiseKeepsStep ==
  ASSUME NEW t, NEW f, NEW d, Sound(t, f, d), NEW c
  PROVE  LET e == Raise(t, c, d)
         IN  /\ e.uncaught \in {c, NoError} /\ IsThread(e.vt) /\ e.vt.work = NoWork
             /\ {"vt", "fn", "nest", "uncaught"} \subseteq DOMAIN e
             /\ e.uncaught = NoError /\ c # NoError => Sound(e.vt, e.fn, e.nest) /\ Landed(t, e)
             /\ "pc" \in DOMAIN e
<1> DEFINE able == {k \in 1 .. Len(t.rescues) :
                      RescuesError(t.rescues[k], c) \/ EntersFinally(t.rescues[k])}
           k == IF able = {} THEN 0 ELSE CHOOSE x \in able : \A y \in able : y <= x
           t1 == [t EXCEPT !.rescues = Cut(@, k), !.work = NoWork,
                           !.settop = IF @ = 0 /\ k = Len(t.rescues) THEN 0 ELSE NoTop]
           r == t.rescues[k]
           t2 == UnwindTo(t1, r.frame)
           res == RescuesError(r, c)
           t3 == [t2 EXCEPT !.rescues[k] = IF res THEN [@ EXCEPT !.rescued = TRUE]
                                           ELSE [@ EXCEPT !.finalled = TRUE, !.delayed = c]]
           e == Raise(t, c, d)
<1>1. e = IF k = 0
          THEN [vt |-> t1, fn |-> fn, pc |-> pc, nest |-> d, uncaught |-> c]
          ELSE [vt |-> t3, fn |-> t2.frames[r.frame].func,
                pc |-> IF res THEN r.rescue ELSE r.finally,
                nest |-> d - (Len(t.frames) - r.frame), uncaught |-> NoError]
    BY Zenon DEF Raise
<1>2. IsSeq(t.frames) /\ IsSeq(t.rescues) /\ Len(t.frames) \in Nat /\ Len(t.rescues) \in Nat
    BY DEF Sound, Nested, IsSeq
<1>8. {"vt", "fn", "pc", "nest", "uncaught"} \subseteq DOMAIN e
  <2> HIDE DEF k, t1, t3, t2, r, res
  <2> QED
    BY <1>1
<1>3. k \in 0 .. Len(t.rescues)
  <2>1. CASE able = {}
      BY <1>2, <2>1
  <2>2. CASE able # {}
    <3>1. able \subseteq 1 .. Len(t.rescues)
        OBVIOUS
    <3> HIDE DEF able
    <3>2. \E x \in able : \A y \in able : y <= x
        BY <1>2, <2>2, <3>1, HasLargest
    <3>3. k \in able
        BY <2>2, <3>2
    <3> QED
        BY <1>2, <3>1, <3>3
  <2> QED
      BY <2>1, <2>2
<1> HIDE DEF k
<1>4. /\ IsThread(t1) /\ t1.work = NoWork /\ t1.frames = t.frames
      /\ t1.rescues = Cut(t.rescues, k)
      /\ t1.floor = t.floor /\ t1.top = t.top /\ (t.settop = NoTop => t1.settop = NoTop)
  <2> DEFINE q == Cut(t.rescues, k)
  <2>1. t1 = [[frames |-> t.frames, rescues |-> t.rescues, top |-> t.top, floor |-> t.floor,
               settop |-> t.settop, work |-> t.work] EXCEPT
                !.rescues = q, !.work = NoWork,
                !.settop = IF t.settop = 0 /\ k = Len(t.rescues) THEN 0 ELSE NoTop]
    BY Zenon DEF Sound, IsThread
  <2> HIDE DEF q, t1
  <2>2. t.settop = NoTop => t1.settop = NoTop
    BY <2>1 DEF NoTop
  <2> QED
    BY <2>1, <2>2 DEF IsThread, q
<1>5. IsSeq(t1.rescues) /\ Len(t1.rescues) = k /\ \A i \in 1 .. k : t1.rescues[i] = t.rescues[i]
    BY <1>2, <1>3, <1>4, CutIsFront
<1> HIDE DEF t1
<1>6. CASE k = 0
    BY <1>1, <1>4, <1>6, <1>8
<1>7. CASE k # 0
  <2>1. /\ k \in 1 .. Len(t.rescues) /\ r.frame \in 1 .. Len(t.frames)
        /\ "frame" \in DOMAIN r /\ t.frames[r.frame].base < k
        /\ \A i \in 1 .. Len(t.frames) : r.frame < i => k <= t.frames[i].base
      BY <1>2, <1>3, <1>7 DEF Sound, Nested, Owned
  <2> DEFINE n == r.frame
  <2> HIDE DEF r, n
  <2>2. \A i \in 1 .. Len(t.frames) : t.frames[i].base \in Nat
      BY <1>2 DEF Sound, Nested, Bases
  <2>3. n < Len(t.frames) => n + 1 \in 1 .. Len(t.frames) /\ k <= t.frames[n + 1].base
      BY <1>2, <2>1 DEF n
  <2>4. /\ IsThread(t2) /\ t2.work = NoWork /\ t2.rescues = t1.rescues
        /\ IsSeq(t2.frames) /\ Len(t2.frames) = n
        /\ \A i \in 1 .. n : t2.frames[i] = t.frames[i]
        /\ Resettled(t1, t2, n)
      BY <1>2, <1>4, <1>5, <2>1, <2>2, <2>3, UnwindLeaves DEF n
  <2> HIDE DEF t2
  <2>5. Nested(t2.frames, t2.rescues)
    <3> DEFINE g == t2.frames
               q == t2.rescues
    <3>1. /\ Nested(t.frames, t.rescues) /\ n \in 1 .. Len(t.frames)
          /\ k \in 0 .. Len(t.rescues)
      BY <1>3, <2>1 DEF Sound, n
    <3>2. t.frames[n].base <= k /\ (n < Len(t.frames) => k <= t.frames[n + 1].base)
      BY <1>2, <1>3, <2>1, <2>2, <2>3 DEF n
    <3>3. /\ IsSeq(g) /\ Len(g) = n /\ \A i \in 1 .. n : g[i] = t.frames[i]
          /\ IsSeq(q) /\ Len(q) = k /\ \A i \in 1 .. k : q[i] = t.rescues[i]
      BY <1>5, <2>4
    <3> HIDE DEF g, q
    <3>4. Nested(g, q)
      BY <3>1, <3>2, <3>3, NestedBelow
    <3> QED
      BY <3>4 DEF g, q
  <2> DEFINE m == IF res THEN [t2.rescues[k] EXCEPT !.rescued = TRUE]
                  ELSE [t2.rescues[k] EXCEPT !.finalled = TRUE, !.delayed = c]
  <2>6. t2.rescues[k] = r /\ k \in 1 .. Len(t2.rescues)
      BY <1>5, <2>1, <2>4 DEF r
  <2>7. "frame" \in DOMAIN m /\ m.frame = t2.rescues[k].frame
      BY <2>1, <2>6
  <2>13. {"frame", "rescue", "finally"} \subseteq DOMAIN r => AlikeRescue(m, r)
      BY <2>6 DEF AlikeRescue
  <2> HIDE DEF m
  <2>8. IsThread(t3) /\ t3.work = NoWork /\ t3.frames = t2.frames
        /\ t3.rescues = [t2.rescues EXCEPT ![k] = m]
        /\ t3.floor = t2.floor /\ t3.top = t2.top /\ t3.settop = t2.settop
    <3>1. t3 = [[frames |-> t2.frames, rescues |-> t2.rescues, top |-> t2.top,
                 floor |-> t2.floor, settop |-> t2.settop, work |-> t2.work]
                EXCEPT !.rescues = [t2.rescues EXCEPT ![k] = m]]
      BY <2>4, Zenon DEF IsThread, m
    <3> HIDE DEF t3
    <3> QED
      BY <2>4, <3>1 DEF IsThread
  <2>9. Nested(t3.frames, t3.rescues)
      BY <2>5, <2>6, <2>7, <2>8, MarkNests
  <2>10. e.uncaught = NoError /\ e.vt = t3 /\ e.fn = t2.frames[n].func
         /\ e.nest = d - (Len(t.frames) - n)
      BY <1>1, <1>7 DEF n
  <2>14. e.pc \in {r.rescue, r.finally}
      BY <1>1, <1>7
  <2>11. e.nest = n
      BY <1>2, <2>1, <2>10 DEF Sound, n
  <2> HIDE DEF t3, e
  <2>12. Sound(t3, t2.frames[n].func, n)
      BY <2>4, <2>8, <2>9 DEF Sound
  <2>15. Resettled(t, t3, n)
      BY <1>4, <2>4, <2>8 DEF Resettled
  <2>16. /\ Len(t3.rescues) = k /\ t3.rescues[k] = m
         /\ \A i \in 1 .. k - 1 : t3.rescues[i] = t.rescues[i]
    <3> DEFINE q == Put(t2.rescues, k, m)
    <3>1. IsSeq(t2.rescues) /\ Len(t2.rescues) = k /\ k \in 1 .. Len(t2.rescues)
      BY <1>5, <2>4, <2>6
    <3>2. Len(q) = k /\ q[k] = m /\ \A i \in 1 .. k : i # k => q[i] = t2.rescues[i]
      BY <3>1, PutIsSeq
    <3>3. t3.rescues = q
      BY <2>8 DEF Put
    <3>4. \A i \in 1 .. k - 1 : i \in 1 .. k /\ i # k
      BY <2>1, <1>2
    <3> HIDE DEF q
    <3> QED
      BY <1>5, <2>4, <3>2, <3>3, <3>4
  <2>17. LandedAt(t, e, k)
      BY <2>1, <2>4, <2>8, <2>10, <2>13, <2>14, <2>15, <2>16 DEF LandedAt, r, n
  <2>18. Landed(t, e)
      BY <1>8, <2>1, <2>17 DEF Landed
  <2> QED
      BY <1>8, <2>8, <2>10, <2>11, <2>12, <2>18 DEF e
<1> QED
    BY <1>6, <1>7


\* The end of a finally block goes on behind it, or raises the error put aside.
EndsAt(t, u, e) ==
  /\ Sound(u, fn, nest) /\ u.frames = t.frames /\ Len(u.rescues) \in 0 .. Len(t.rescues)
  /\ \A i \in 1 .. Len(u.rescues) : u.rescues[i] = t.rescues[i]
  /\ u.floor = t.floor /\ u.top = t.top /\ u.settop = NoTop
  /\ e.uncaught = NoError => (e.vt = u /\ e.pc = pc) \/ Landed(u, e)

\* The end of a finally block pops its rescue frame, which is the running function's.
LEMMA EndKeepsStep ==
  ASSUME NEW t, Sound(t, fn, nest), t.work = NoWork, NEW id, RescueFrameFromId(t, id) # 0
  PROVE  LET e == EndFinally(t, id)
         IN  /\ IsThread(e.vt) /\ e.vt.work = NoWork
             /\ {"vt", "fn", "pc", "nest", "uncaught"} \subseteq DOMAIN e
             /\ e.uncaught = NoError => Sound(e.vt, e.fn, e.nest)
             /\ \E u : EndsAt(t, u, e)
<1> DEFINE N == Len(t.frames)
           K == Len(t.rescues)
           own == {k \in 1 .. K : k > t.frames[N].base /\ t.rescues[k].id = id}
           k == RescueFrameFromId(t, id)
           r == t.rescues[k]
           q == Cut(t.rescues, k - 1)
           t1 == [t EXCEPT !.rescues = q, !.settop = NoTop]
           e == EndFinally(t, id)
<1>1. /\ IsSeq(t.frames) /\ IsSeq(t.rescues) /\ N \in Nat /\ K \in Nat /\ N \in 1 .. N
      /\ Nested(t.frames, t.rescues)
    BY DEF Sound, Nested, IsSeq
<1>2. k = IF own = {} THEN 0 ELSE CHOOSE x \in own : \A y \in own : y <= x
    BY Zenon DEF RescueFrameFromId, Last
<1>3. k \in own
  <2>1. own # {} /\ own \subseteq 1 .. K
    <3> HIDE DEF k
    <3> QED
      BY <1>2 DEF k
  <2> HIDE DEF own, k
  <2>2. \E x \in own : \A y \in own : y <= x
    BY <1>1, <2>1, HasLargest
  <2> QED
    BY <1>2, <2>1, <2>2
<1>4. k \in 1 .. K /\ k > t.frames[N].base /\ t.frames[N].base \in Nat
  <2> HIDE DEF k
  <2> QED
    BY <1>1, <1>3 DEF Nested, Bases
<1>5. e = IF r.finally > 0 /\ r.delayed # NoError
          THEN Raise(t1, r.delayed, nest)
          ELSE [vt |-> t1, fn |-> fn, pc |-> pc, nest |-> nest, uncaught |-> NoError]
    BY Zenon DEF EndFinally
<1> HIDE DEF k
<1>6. /\ IsThread(t1) /\ t1.work = NoWork /\ t1.frames = t.frames /\ t1.rescues = q
      /\ t1.floor = t.floor /\ t1.top = t.top /\ t1.settop = NoTop
  <2>1. t1 = [[frames |-> t.frames, rescues |-> t.rescues, top |-> t.top, floor |-> t.floor,
               settop |-> t.settop, work |-> t.work] EXCEPT !.rescues = q, !.settop = NoTop]
    BY Zenon DEF Sound, IsThread
  <2> HIDE DEF q, t1
  <2> QED
    BY <2>1 DEF IsThread
<1>7. IsSeq(q) /\ Len(q) = k - 1 /\ \A i \in 1 .. k - 1 : q[i] = t.rescues[i]
    BY <1>1, <1>4, CutIsFront
<1> HIDE DEF q, t1
<1>8. Nested(t.frames, q)
  <2>1. k - 1 \in 0 .. K /\ t.frames[N].base <= k - 1 /\ ~(N < N)
    BY <1>1, <1>4
  <2> QED
    BY <1>1, <1>7, <2>1, NestedBelow
<1>9. Sound(t1, fn, nest)
    BY <1>6, <1>8 DEF Sound
<1> HIDE DEF e, r
<1>12. /\ Len(t1.rescues) \in 0 .. K /\ \A i \in 1 .. Len(t1.rescues) : t1.rescues[i] = t.rescues[i]
    BY <1>1, <1>4, <1>6, <1>7
<1>10. CASE r.finally > 0 /\ r.delayed # NoError
  <2>1. /\ IsThread(e.vt) /\ e.vt.work = NoWork
        /\ {"vt", "fn", "pc", "nest", "uncaught"} \subseteq DOMAIN e
        /\ e.uncaught = NoError => Sound(e.vt, e.fn, e.nest) /\ Landed(t1, e)
    BY <1>5, <1>9, <1>10, RaiseKeepsStep
  <2>2. EndsAt(t, t1, e)
    BY <1>6, <1>9, <1>12, <2>1 DEF EndsAt
  <2> QED
    BY <2>1, <2>2 DEF e
<1>11. CASE ~(r.finally > 0 /\ r.delayed # NoError)
  <2>1. e = [vt |-> t1, fn |-> fn, pc |-> pc, nest |-> nest, uncaught |-> NoError]
    BY <1>5, <1>11
  <2>2. EndsAt(t, t1, e)
    BY <1>6, <1>9, <1>12, <2>1 DEF EndsAt
  <2> QED
    BY <1>6, <1>9, <2>1, <2>2 DEF e
<1> QED
    BY <1>10, <1>11

-----------------------------------------------------------------------------
(* Steps *)

LEMMA GoesOn ==
  ASSUME IInv, phase = "run", resume'.needs = FALSE, "needs" \in DOMAIN resume',
         NEW t, NEW f, NEW p, NEW d, Sound(t, f, d), t.work = NoWork, GoOn(t, f, p, d)
  PROVE  IInv'
<1>1. prog' = prog /\ image' = image /\ phase' = "run" /\ vt' = t /\ fn' = f /\ nest' = d
    BY DEF GoOn
<1>2. Sound(vt, fn, nest)'
    BY <1>1 DEF Sound, IsThread, Nested, Bases, Owned, Linked, IsSeq
<1>3. WorkInv'
    BY <1>1 DEF WorkInv
<1> QED
    BY <1>1, <1>2, <1>3 DEF IInv

LEMMA Leaves ==
  ASSUME IInv, NEW t, IsThread(t), NEW c, Leave(t, c)
  PROVE  IInv'
<1>1. prog' = prog /\ image' = image /\ phase' = "done"
    BY DEF Leave
<1>2. vt' = [[frames |-> t.frames, rescues |-> t.rescues, top |-> t.top, floor |-> t.floor,
              settop |-> t.settop, work |-> t.work]
             EXCEPT !.frames = <<>>, !.rescues = <<>>, !.top = 0, !.floor = 0, !.work = NoWork]
    BY Zenon DEF Leave, IsThread
<1>3. vt'.frames = <<>> /\ vt'.rescues = <<>>
    BY <1>2
<1> QED
    BY <1>1, <1>3 DEF IInv

LEMMA Followed ==
  ASSUME IInv, phase = "run", resume'.needs = FALSE, "needs" \in DOMAIN resume',
         NEW e, IsThread(e.vt), e.vt.work = NoWork,
         e.uncaught = NoError => Sound(e.vt, e.fn, e.nest), Follow(e)
  PROVE  IInv'
<1>1. CASE e.uncaught # NoError
    BY <1>1, Leaves DEF Follow
<1>2. CASE e.uncaught = NoError
    BY <1>2, GoesOn DEF Follow
<1> QED
    BY <1>1, <1>2

\* Where the thread runs and no call of unfinished work is next, none is left.
Working(f) == f \in DOMAIN CFunction /\ CFunction[f] \in {"work", "workfail"}
LEMMA NothingLeft ==
  ASSUME IInv, NEW op, Running(op), op = "call" => ~Working(Inst.f)
  PROVE  /\ phase = "run" /\ Sound(vt, fn, nest) /\ fn \in DOMAIN image
         /\ resume.needs = FALSE /\ "needs" \in DOMAIN resume /\ vt.work = NoWork
<1>1. phase = "run" /\ Inst.op = op
    BY DEF Running
<1>2. Sound(vt, fn, nest) /\ WorkInv
    BY <1>1 DEF IInv
<1>3. fn \in DOMAIN image
    BY <1>2 DEF Sound, Nested, Linked, IsSeq
<1>4. ~resume.needs
    BY <1>1, <1>2 DEF WorkInv, Working, Inst, Code
<1> QED
    BY <1>1, <1>2, <1>3, <1>4 DEF WorkInv

\* Changing what is not a frame, or only the objects of the running function.
LEMMA SameFrames ==
  ASSUME NEW t, NEW f, NEW d, Sound(t, f, d), NEW u, IsThread(u),
         u.frames = t.frames, u.rescues = t.rescues
  PROVE  Sound(u, f, d)
BY DEF Sound

LEMMA OtherObjects ==
  ASSUME NEW t, NEW f, NEW d, Sound(t, f, d), NEW x,
         NEW u, u = [t EXCEPT !.frames = [t.frames EXCEPT ![Len(t.frames)].objs = x]]
  PROVE  Sound(u, f, d) /\ u.work = t.work
<1> DEFINE g == [t.frames EXCEPT ![Len(t.frames)].objs = x]
<1>1. u = [[frames |-> t.frames, rescues |-> t.rescues, top |-> t.top, floor |-> t.floor,
            settop |-> t.settop, work |-> t.work] EXCEPT !.frames = g]
    BY Zenon DEF Sound, IsThread
<1>2. /\ Nested(g, t.rescues) /\ Len(g) = Len(t.frames)
      /\ g[Len(t.frames)].func = t.frames[Len(t.frames)].func
    BY ObjectsNest DEF Sound
<1> HIDE DEF g
<1>3. /\ IsThread(u) /\ u.frames = g /\ u.rescues = t.rescues /\ u.work = t.work
    BY <1>1 DEF IsThread
<1> QED
    BY <1>2, <1>3 DEF Sound

LEMMA SkipKeeps == ASSUME IInv, Skip PROVE IInv'
<1>1. PICK op \in {"newiterator", "callsettop", "setnone"} : Running(op)
    BY DEF Skip
<1>2. /\ phase = "run" /\ Sound(vt, fn, nest) /\ resume' = resume
      /\ resume.needs = FALSE /\ "needs" \in DOMAIN resume /\ vt.work = NoWork
    BY <1>1, NothingLeft DEF Skip
<1>3. CASE op = "callsettop"
  <2> DEFINE u == [vt EXCEPT !.settop = IF @ >= 0 THEN @ ELSE vt.top,
                             !.top = vt.floor + Inst.top]
  <2>1. StepTo(u, pc + 1)
    BY <1>1, <1>3 DEF Skip, Running
  <2>2. u = [[frames |-> vt.frames, rescues |-> vt.rescues, top |-> vt.top,
              floor |-> vt.floor, settop |-> vt.settop, work |-> vt.work]
             EXCEPT !.settop = IF vt.settop >= 0 THEN vt.settop ELSE vt.top,
                    !.top = vt.floor + Inst.top]
    BY <1>2, Zenon DEF Sound, IsThread
  <2> HIDE DEF u
  <2>3. IsThread(u) /\ u.frames = vt.frames /\ u.rescues = vt.rescues /\ u.work = NoWork
    BY <1>2, <2>2 DEF IsThread
  <2> QED
    BY <1>2, <2>1, <2>3, SameFrames, GoesOn DEF StepTo
<1>4. CASE op = "setnone"
  <2> DEFINE x == vt.frames[Len(vt.frames)].objs \ {Inst.slot}
             u == [vt EXCEPT !.frames = [vt.frames EXCEPT ![Len(vt.frames)].objs = x]]
  <2>1. StepTo([vt EXCEPT !.frames[Len(vt.frames)].objs = @ \ {Inst.slot}], pc + 1)
    BY <1>1, <1>4 DEF Skip, Running
  <2>2. StepTo(u, pc + 1)
    BY <2>1
  <2>3. Sound(u, fn, nest) /\ u.work = vt.work
    <3> HIDE DEF x
    <3> QED
      BY <1>2, OtherObjects
  <2> HIDE DEF u
  <2> QED
    BY <1>2, <2>2, <2>3, GoesOn DEF StepTo
<1>5. CASE op = "newiterator"
  <2>1. StepTo(vt, pc + 1)
    BY <1>1, <1>5 DEF Skip, Running
  <2> QED
    BY <1>2, <2>1, GoesOn DEF StepTo
<1> QED
    BY <1>1, <1>3, <1>4, <1>5

LEMMA JumpKeeps == ASSUME IInv, JumpInst \/ Test \/ HasAttr PROVE IInv'
<1>1. PICK op \in {"jump", "condjump", "iterate", "hasattrjump"} : Running(op)
    BY DEF JumpInst, Test, HasAttr
<1>2. /\ phase = "run" /\ Sound(vt, fn, nest) /\ resume' = resume
      /\ resume.needs = FALSE /\ "needs" \in DOMAIN resume /\ vt.work = NoWork
    BY <1>1, NothingLeft DEF JumpInst, Test, HasAttr
<1>3. \E p : GoOn(vt, fn, p, nest)
    BY DEF JumpInst, Test, HasAttr, StepTo
<1> QED
    BY <1>2, <1>3, GoesOn

LEMMA PushRescueKeeps == ASSUME IInv, PushRescue PROVE IInv'
<1>1. /\ phase = "run" /\ Sound(vt, fn, nest) /\ resume' = resume
      /\ resume.needs = FALSE /\ "needs" \in DOMAIN resume /\ vt.work = NoWork
    BY NothingLeft DEF PushRescue
<1> DEFINE e == [id |-> Inst.id, frame |-> Len(vt.frames), types |-> Inst.types,
                 rescue  |-> IF Inst.rescue = 0 THEN -1 ELSE pc + Inst.rescue,
                 finally |-> IF Inst.finally = 0 THEN -1 ELSE pc + Inst.finally,
                 rescued |-> FALSE, finalled |-> FALSE, delayed |-> NoError]
           q == Append(vt.rescues, e)
           u == PushRescueFrame(vt, Inst)
<1>2. "frame" \in DOMAIN e /\ e.frame = Len(vt.frames)
    OBVIOUS
<1>3. u = [[frames |-> vt.frames, rescues |-> vt.rescues, top |-> vt.top,
            floor |-> vt.floor, settop |-> vt.settop, work |-> vt.work]
           EXCEPT !.rescues = q, !.settop = NoTop]
    BY <1>1, Zenon DEF Sound, IsThread, PushRescueFrame
<1> HIDE DEF e, u
<1>4. Nested(vt.frames, q)
    BY <1>1, <1>2, PushRescueNests DEF Sound
<1> HIDE DEF q
<1>5. IsThread(u) /\ u.frames = vt.frames /\ u.rescues = q /\ u.work = NoWork
    BY <1>1, <1>3 DEF IsThread
<1>6. Sound(u, fn, nest)
    BY <1>1, <1>4, <1>5 DEF Sound
<1>7. GoOn(u, fn, pc + 1, nest)
    BY DEF PushRescue, StepTo, u
<1> QED
    BY <1>1, <1>5, <1>6, <1>7, GoesOn

LEMMA PopRescueKeeps == ASSUME IInv, PopRescue PROVE IInv'
<1>1. /\ phase = "run" /\ Sound(vt, fn, nest) /\ resume' = resume
      /\ resume.needs = FALSE /\ "needs" \in DOMAIN resume /\ vt.work = NoWork
    BY NothingLeft DEF PopRescue
<1> DEFINE e == EndFinally(vt, Inst.id)
           x == IF e.pc = pc THEN e.pc + 1 ELSE e.pc
           g == [e EXCEPT !.pc = x]
<1>2. /\ IsThread(e.vt) /\ e.vt.work = NoWork
      /\ {"vt", "fn", "nest", "uncaught"} \subseteq DOMAIN e
      /\ e.uncaught = NoError => Sound(e.vt, e.fn, e.nest)
    BY <1>1, EndKeepsStep DEF PopRescue
<1>3. Follow(g)
    BY Zenon DEF PopRescue
<1> HIDE DEF e, x
<1>4. g.vt = e.vt /\ g.fn = e.fn /\ g.nest = e.nest /\ g.uncaught = e.uncaught
    BY <1>2
<1> HIDE DEF g
<1> QED
    BY <1>1, <1>2, <1>3, <1>4, Followed

LEMMA ProceedKeeps == ASSUME IInv, ProceedToFinally PROVE IInv'
<1>1. /\ phase = "run" /\ Sound(vt, fn, nest) /\ resume' = resume
      /\ resume.needs = FALSE /\ "needs" \in DOMAIN resume /\ vt.work = NoWork
    BY NothingLeft DEF ProceedToFinally
<1> DEFINE k == Len(vt.rescues)
           e == [vt.rescues[k] EXCEPT !.finalled = TRUE]
           q == [vt.rescues EXCEPT ![k] = e]
           u == [vt EXCEPT !.rescues[Len(vt.rescues)].finalled = TRUE]
<1>2. IsSeq(vt.rescues) /\ Nested(vt.frames, vt.rescues) /\ vt.rescues # <<>>
    BY <1>1 DEF Sound, Nested, ProceedToFinally, CanProceed
<1>3. k \in 1 .. Len(vt.rescues)
    BY <1>2, EmptySeq DEF IsSeq
<1>4. "frame" \in DOMAIN e /\ e.frame = vt.rescues[k].frame
    BY <1>2, <1>3 DEF Nested, Owned
<1>5. u = [[frames |-> vt.frames, rescues |-> vt.rescues, top |-> vt.top,
            floor |-> vt.floor, settop |-> vt.settop, work |-> vt.work]
           EXCEPT !.rescues = q]
    BY <1>1, Zenon DEF Sound, IsThread
<1>6. Nested(vt.frames, q)
  <2> HIDE DEF e, k
  <2> QED
    BY <1>2, <1>3, <1>4, MarkNests
<1>7. \E p : GoOn(u, fn, p, nest)
    BY Zenon DEF ProceedToFinally, StepTo
<1> HIDE DEF q, u
<1>8. IsThread(u) /\ u.frames = vt.frames /\ u.rescues = q /\ u.work = NoWork
    BY <1>1, <1>5 DEF IsThread
<1>9. Sound(u, fn, nest)
    BY <1>1, <1>6, <1>8 DEF Sound
<1> QED
    BY <1>1, <1>7, <1>8, <1>9, GoesOn

LEMMA RaiseKeeps == ASSUME IInv, RaiseError PROVE IInv'
<1>1. /\ phase = "run" /\ Sound(vt, fn, nest) /\ resume' = resume /\ fn \in DOMAIN image
      /\ resume.needs = FALSE /\ "needs" \in DOMAIN resume /\ vt.work = NoWork
    BY NothingLeft DEF RaiseError
<1>2. Inst.c # NoError
    BY <1>1, MachineAssumption DEF RaiseError, Running, Inst, InCode, Code, IInv
<1> DEFINE e == Raise(vt, Inst.c, nest)
<1>3. Follow(e)
    BY DEF RaiseError
<1>4. /\ IsThread(e.vt) /\ e.vt.work = NoWork
      /\ e.uncaught = NoError => Sound(e.vt, e.fn, e.nest)
    BY <1>1, <1>2, RaiseKeepsStep
<1> HIDE DEF e
<1> QED
    BY <1>1, <1>3, <1>4, Followed

LEMMA CallFuncKeeps == ASSUME IInv, CallFunc PROVE IInv'
<1>1. phase = "run" /\ Running("call") /\ Inst.f \in DOMAIN image /\ resume' = resume
    BY DEF CallFunc, Running
<1>2. ~Working(Inst.f)
    BY <1>1, MachineAssumption DEF IInv, Working
<1>3. /\ Sound(vt, fn, nest)
      /\ resume.needs = FALSE /\ "needs" \in DOMAIN resume /\ vt.work = NoWork
    BY <1>1, <1>2, NothingLeft
<1> DEFINE v == [vt EXCEPT !.settop = ReverseTo(vt)]
           fl == vt.top - Inst.args
           e == [func |-> Inst.f, floor |-> fl, base |-> Len(v.rescues),
                 space |-> Space(Inst.f), objs |-> {}, restore |-> CallerSize(v),
                 retfn |-> fn, retpc |-> pc + 1]
           g == Append(v.frames, e)
           u == PushFuncFrame(v, Inst.f, fl, fn, pc + 1)
<1>4. v = [[frames |-> vt.frames, rescues |-> vt.rescues, top |-> vt.top, floor |-> vt.floor,
            settop |-> vt.settop, work |-> vt.work] EXCEPT !.settop = ReverseTo(vt)]
    BY <1>3, Zenon DEF Sound, IsThread
<1>5. GoOn(u, Inst.f, 0, nest + 1)
    BY Zenon DEF CallFunc
<1> HIDE DEF v
<1>6. /\ IsThread(v) /\ v.frames = vt.frames /\ v.rescues = vt.rescues /\ v.work = NoWork
    BY <1>3, <1>4 DEF IsThread
<1>7. u = [[frames |-> v.frames, rescues |-> v.rescues, top |-> v.top, floor |-> v.floor,
            settop |-> v.settop, work |-> v.work]
           EXCEPT !.frames = g, !.top = fl + Space(Inst.f), !.floor = fl, !.settop = NoTop]
    BY <1>6, Zenon DEF PushFuncFrame, IsThread
<1>8. /\ {"func", "base", "retfn"} \subseteq DOMAIN e /\ e.func = Inst.f
      /\ e.base = Len(v.rescues) /\ e.retfn = fn
    OBVIOUS
<1> HIDE DEF e, u, fl
<1>9. Nested(g, vt.rescues)
    BY <1>1, <1>3, <1>6, <1>8, PushFrameNests DEF Sound
<1>10. Len(g) = nest + 1 /\ g[nest + 1].func = Inst.f
    BY <1>3, <1>6, <1>8, AppendIsSeq DEF Sound, Nested
<1> HIDE DEF g
<1>11. IsThread(u) /\ u.frames = g /\ u.rescues = v.rescues /\ u.work = NoWork
    BY <1>6, <1>7 DEF IsThread
<1>12. Sound(u, Inst.f, nest + 1)
    BY <1>6, <1>9, <1>10, <1>11 DEF Sound
<1> QED
    BY <1>1, <1>3, <1>5, <1>11, <1>12, GoesOn

LEMMA AfterCallSound ==
  ASSUME NEW t, NEW f, NEW d, Sound(t, f, d), NEW c
  PROVE  Sound(AfterCall(t, c), f, d) /\ AfterCall(t, c).work = NoWork
<1> DEFINE u == AfterCall(t, c)
<1>1. u = [[frames |-> t.frames, rescues |-> t.rescues, top |-> t.top, floor |-> t.floor,
            settop |-> t.settop, work |-> t.work]
           EXCEPT !.floor = c.floor, !.top = c.reverse, !.settop = NoTop, !.work = NoWork]
    BY Zenon DEF Sound, IsThread, AfterCall
<1> HIDE DEF u
<1>2. IsThread(u) /\ u.frames = t.frames /\ u.rescues = t.rescues /\ u.work = NoWork
    BY <1>1 DEF IsThread
<1> QED
    BY <1>2, SameFrames DEF u

LEMMA CallCKeeps == ASSUME IInv, CallC PROVE IInv'
<1>1. /\ phase = "run" /\ Running("call") /\ Inst.f \in DOMAIN CFunction
      /\ CFunction[Inst.f] \in {"ok", "open", "fail"} /\ resume' = resume
    BY DEF CallC, Calling, Running
<1>2. ~Working(Inst.f)
    BY <1>1 DEF Working
<1>3. /\ Sound(vt, fn, nest)
      /\ resume.needs = FALSE /\ "needs" \in DOMAIN resume /\ vt.work = NoWork
    BY <1>1, <1>2, NothingLeft
<1> DEFINE t == AfterCall(vt, Setting(vt, Inst))
<1>4. Sound(t, fn, nest) /\ t.work = NoWork
    BY <1>3, AfterCallSound
<1>5. CASE CFunction[Inst.f] = "ok"
  <2>1. StepTo(t, pc + 1)
    BY <1>5 DEF CallC
  <2> HIDE DEF t
  <2> QED
    BY <1>1, <1>3, <1>4, <2>1, GoesOn DEF StepTo
<1>6. CASE CFunction[Inst.f] = "open"
  <2>1. StepTo([t EXCEPT !.frames[Len(t.frames)].objs = @ \cup {Inst.returnto}], pc + 1)
    BY <1>6 DEF CallC
  <2> DEFINE x == t.frames[Len(t.frames)].objs \cup {Inst.returnto}
             u == [t EXCEPT !.frames = [t.frames EXCEPT ![Len(t.frames)].objs = x]]
  <2> HIDE DEF t
  <2>2. StepTo(u, pc + 1)
    BY <2>1
  <2>3. Sound(u, fn, nest) /\ u.work = t.work
    <3> HIDE DEF x
    <3> QED
      BY <1>4, OtherObjects
  <2> HIDE DEF u
  <2> QED
    BY <1>1, <1>3, <1>4, <2>2, <2>3, GoesOn DEF StepTo
<1>7. CASE CFunction[Inst.f] = "fail"
  <2> DEFINE e == Raise(t, FailClass, nest)
  <2>1. Follow(e)
    BY <1>7 DEF CallC
  <2> HIDE DEF t
  <2>2. /\ IsThread(e.vt) /\ e.vt.work = NoWork
        /\ e.uncaught = NoError => Sound(e.vt, e.fn, e.nest)
    BY <1>4, MachineAssumption, RaiseKeepsStep
  <2> HIDE DEF e
  <2> QED
    BY <1>1, <1>3, <2>1, <2>2, Followed
<1> QED
    BY <1>1, <1>5, <1>6, <1>7

LEMMA CallSleepKeeps == ASSUME IInv, CallSleep PROVE IInv'
<1>1. /\ phase = "run" /\ phase' = "suspended" /\ UNCHANGED <<prog, image, fn, nest>>
      /\ Sound(vt, fn, nest)
    BY DEF CallSleep, Calling, Running, Suspend, IInv
<1>2. vt' = AfterCall(vt, Setting(vt, Inst))
    BY DEF CallSleep
<1>3. /\ resume'.fn = fn /\ resume'.nest = nest /\ resume'.needs = FALSE
      /\ "needs" \in DOMAIN resume'
    BY DEF CallSleep, Suspend
<1>4. Sound(vt', fn, nest) /\ vt'.work = NoWork
    BY <1>1, <1>2, AfterCallSound
<1>5. Sound(vt, fn, nest)'
    BY <1>1, <1>4 DEF Sound, IsThread, Nested, Bases, Owned, Linked, IsSeq
<1>6. WorkInv'
    BY <1>1, <1>3, <1>4 DEF WorkInv
<1> QED
    BY <1>1, <1>3, <1>5, <1>6 DEF IInv

LEMMA CallUnfinishedKeeps == ASSUME IInv, CallUnfinished PROVE IInv'
<1>1. /\ phase = "run" /\ Inst.op = "call" /\ Working(Inst.f)
      /\ phase' = "suspended" /\ UNCHANGED <<prog, image, fn, nest>>
      /\ Sound(vt, fn, nest)
    BY DEF CallUnfinished, Calling, Running, Suspend, IInv, Working
<1> DEFINE c == Setting(vt, Inst)
<1>2. vt' = [[frames |-> vt.frames, rescues |-> vt.rescues, top |-> vt.top, floor |-> vt.floor,
              settop |-> vt.settop, work |-> vt.work]
             EXCEPT !.floor = c.newfloor, !.settop = c.reverse, !.work = Inst.f]
    BY <1>1, Zenon DEF CallUnfinished, Sound, IsThread
<1>3. /\ resume'.fn = fn /\ resume'.pc = pc /\ resume'.nest = nest /\ resume'.needs = TRUE
      /\ "needs" \in DOMAIN resume'
    BY DEF CallUnfinished, Suspend
<1> HIDE DEF c
<1>4. IsThread(vt') /\ vt'.frames = vt.frames /\ vt'.rescues = vt.rescues /\ vt'.work = Inst.f
    BY <1>2 DEF IsThread
<1>5. Sound(vt', fn, nest)
    BY <1>1, <1>4, SameFrames
<1>6. Sound(vt, fn, nest)'
    BY <1>1, <1>5 DEF Sound, IsThread, Nested, Bases, Owned, Linked, IsSeq
<1>7. Inst.f # NoWork
    BY <1>1, MachineAssumption DEF Working
<1>8. WorkInv'
    BY <1>1, <1>3, <1>4, <1>7 DEF WorkInv, Working, Inst, Code
<1> QED
    BY <1>1, <1>3, <1>6, <1>8 DEF IInv

LEMMA CallFinishedKeeps == ASSUME IInv, CallFinished PROVE IInv'
<1>1. /\ phase = "run" /\ Sound(vt, fn, nest) /\ CFunction[Inst.f] \in {"work", "workfail"}
      /\ "needs" \in DOMAIN resume /\ resume' = [resume EXCEPT !.needs = FALSE]
    BY DEF CallFinished, Calling, Running, IInv, WorkInv
<1>2. resume'.needs = FALSE /\ "needs" \in DOMAIN resume'
    BY <1>1
<1> DEFINE t == AfterCall(vt, Setting(vt, Inst))
<1>3. Sound(t, fn, nest) /\ t.work = NoWork
    BY <1>1, AfterCallSound
<1>4. CASE CFunction[Inst.f] = "work"
  <2>1. StepTo(t, pc + 1)
    BY <1>4 DEF CallFinished
  <2> HIDE DEF t
  <2> QED
    BY <1>1, <1>2, <1>3, <2>1, GoesOn DEF StepTo
<1>5. CASE CFunction[Inst.f] = "workfail"
  <2> DEFINE e == Raise(t, FailClass, nest)
  <2>1. Follow(e)
    BY <1>5 DEF CallFinished
  <2> HIDE DEF t
  <2>2. /\ IsThread(e.vt) /\ e.vt.work = NoWork
        /\ e.uncaught = NoError => Sound(e.vt, e.fn, e.nest)
    BY <1>3, MachineAssumption, RaiseKeepsStep
  <2> HIDE DEF e
  <2> QED
    BY <1>1, <1>2, <2>1, <2>2, Followed
<1> QED
    BY <1>1, <1>4, <1>5

LEMMA ResumeKeeps == ASSUME IInv, ResumeThread PROVE IInv'
<1>1. /\ phase = "suspended" /\ phase' = "run" /\ fn' = resume.fn /\ pc' = resume.pc
      /\ nest' = resume.nest /\ UNCHANGED <<prog, image, vt, resume>>
    BY DEF ResumeThread
<1>2. Sound(vt, fn, nest) /\ fn' = fn /\ nest' = nest /\ WorkInv
    BY <1>1 DEF IInv
<1>3. Sound(vt, fn, nest)'
    BY <1>1, <1>2 DEF Sound, IsThread, Nested, Bases, Owned, Linked, IsSeq
<1>4. WorkInv'
    BY <1>1, <1>2 DEF WorkInv
<1> QED
    BY <1>1, <1>3, <1>4 DEF IInv

LEMMA ReturnKeeps == ASSUME IInv, ReturnInst PROVE IInv'
<1>1. /\ phase = "run" /\ Sound(vt, fn, nest) /\ resume' = resume
      /\ resume.needs = FALSE /\ "needs" \in DOMAIN resume /\ vt.work = NoWork
    BY NothingLeft DEF ReturnInst
<1> DEFINE N == Len(vt.frames)
           b == vt.frames[N].base
           u == PopFuncFrame(vt)
           top == vt.frames[N]
<1>2. CASE nest - 1 <= 0
  <2>1. Leave(vt, NoError)
    BY <1>2 DEF ReturnInst
  <2> QED
    BY <1>1, <2>1, Leaves DEF Sound
<1>3. CASE ~(nest - 1 <= 0)
  <2>1. GoOn(u, top.retfn, top.retpc, nest - 1)
    BY <1>3, Zenon DEF ReturnInst, Last
  <2>2. /\ IsSeq(vt.frames) /\ IsSeq(vt.rescues) /\ N \in Nat /\ N = nest
        /\ Nested(vt.frames, vt.rescues) /\ IsThread(vt) /\ Len(vt.rescues) \in Nat
    BY <1>1 DEF Sound, Nested, IsSeq
  <2>3. N - 1 \in 1 .. N /\ N \in 2 .. N /\ N \in 1 .. N /\ N - 1 \in 0 .. N
    BY <1>3, <2>2
  <2>4. /\ IsThread(u) /\ u.work = NoWork /\ u.frames = SubSeq(vt.frames, 1, N - 1)
        /\ u.rescues = Cut(vt.rescues, b)
    BY <1>1, <2>2, <2>3, PopLeaves
  <2> HIDE DEF u
  <2>5. /\ b \in 0 .. Len(vt.rescues) /\ vt.frames[N - 1].base <= b
        /\ top.retfn = vt.frames[N - 1].func
    BY <2>2, <2>3 DEF Nested, Bases, Linked
  <2>6. /\ IsSeq(u.frames) /\ Len(u.frames) = N - 1
        /\ \A i \in 1 .. N - 1 : u.frames[i] = vt.frames[i]
    BY <2>2, <2>3, <2>4, FrontIsSeq
  <2>7. /\ IsSeq(u.rescues) /\ Len(u.rescues) = b
        /\ \A i \in 1 .. b : u.rescues[i] = vt.rescues[i]
    BY <2>2, <2>4, <2>5, CutIsFront
  <2> DEFINE f == u.frames
             q == u.rescues
             n == N - 1
  <2>8. n < N => b <= vt.frames[n + 1].base
    BY <2>2, <2>5
  <2>9. Nested(f, q)
    <3>1. n \in 1 .. N /\ b \in 0 .. Len(vt.rescues) /\ vt.frames[n].base <= b
      BY <2>3, <2>5
    <3>2. /\ IsSeq(f) /\ Len(f) = n /\ \A i \in 1 .. n : f[i] = vt.frames[i]
          /\ IsSeq(q) /\ Len(q) = b /\ \A i \in 1 .. b : q[i] = vt.rescues[i]
      BY <2>6, <2>7
    <3> HIDE DEF f, q, n, b
    <3> QED
      BY <2>2, <2>8, <3>1, <3>2, NestedBelow
  <2>10. Sound(u, top.retfn, nest - 1)
    BY <2>2, <2>3, <2>4, <2>5, <2>6, <2>9 DEF Sound
  <2> QED
    BY <1>1, <2>1, <2>4, <2>10, GoesOn
<1> QED
    BY <1>2, <1>3

LEMMA StopKeeps == ASSUME IInv, Lose \/ Finished \/ UNCHANGED vars PROVE IInv'
<1>1. CASE Lose
  <2>1. /\ phase = "run" /\ phase' = "lost" /\ UNCHANGED <<prog, image, vt, fn, nest>>
    BY <1>1 DEF Lose
  <2>2. Sound(vt, fn, nest)
    BY <2>1 DEF IInv
  <2>3. Sound(vt, fn, nest)'
    BY <2>1, <2>2 DEF Sound, IsThread, Nested, Bases, Owned, Linked, IsSeq
  <2> QED
    BY <2>1, <2>3 DEF IInv
<1>2. CASE UNCHANGED vars
  <2>1. UNCHANGED <<prog, image, vt, fn, nest, phase, pc, resume>>
    BY <1>2 DEF vars
  <2>2. Sound(vt, fn, nest) => Sound(vt, fn, nest)'
    BY <2>1 DEF Sound, IsThread, Nested, Bases, Owned, Linked, IsSeq
  <2>3. WorkInv => WorkInv'
    BY <2>1 DEF WorkInv
  <2> QED
    BY <2>1, <2>2, <2>3 DEF IInv
<1> QED
    BY <1>1, <1>2 DEF Finished

LEMMA StartsSound == Init => IInv
<1> SUFFICES ASSUME Init PROVE IInv
    OBVIOUS
<1> DEFINE e == [func |-> Main, floor |-> 0, base |-> 0, space |-> Space(Main), objs |-> {},
                 restore |-> 0, retfn |-> Main, retpc |-> 0]
<1>1. /\ prog \in DOMAIN Image /\ image = Image[prog] /\ phase = "run" /\ fn = Main /\ nest = 1
      /\ Main \in DOMAIN image
    BY MachineAssumption DEF Init
<1>2. vt.frames = <<e>> /\ vt.rescues = <<>> /\ vt.work = NoWork /\ IsThread(vt)
  <2> DEFINE t == [frames |-> <<>>, rescues |-> <<>>, top |-> 0, floor |-> 0,
                   settop |-> NoTop, work |-> NoWork]
             g == Append(t.frames, [func |-> Main, floor |-> 0, base |-> Len(t.rescues),
                                    space |-> Space(Main), objs |-> {},
                                    restore |-> CallerSize(t), retfn |-> Main, retpc |-> 0])
  <2>1. CallerSize(t) = 0 /\ Len(t.rescues) = 0
    BY DEF CallerSize, NoTop
  <2>2. g = <<e>>
    <3>1. Append(<<>>, e) = <<e>>
      OBVIOUS
    <3>2. t.frames = <<>>
      OBVIOUS
    <3> QED
      BY <2>1, <3>1, <3>2, Zenon
  <2>3. vt = [t EXCEPT !.frames = g, !.top = 0 + Space(Main), !.floor = 0, !.settop = NoTop]
    BY Zenon DEF Init, PushFuncFrame
  <2> HIDE DEF g
  <2> QED
    BY <2>2, <2>3 DEF IsThread
<1>3. /\ {"func", "base", "retfn"} \subseteq DOMAIN e
      /\ e.func = Main /\ e.base = 0
    OBVIOUS
<1> HIDE DEF e
<1>4. IsSeq(vt.frames) /\ Len(vt.frames) = 1 /\ vt.frames[1] = e
  <2>1. <<e>> \in Seq({e}) /\ Len(<<e>>) = 1 /\ <<e>>[1] = e
    OBVIOUS
  <2> QED
    BY <1>2, <2>1, AnyIsSeq
<1>5. IsSeq(vt.rescues) /\ Len(vt.rescues) = 0
  <2>1. <<>> \in Seq({}) /\ Len(<<>>) = 0
    BY EmptySeq
  <2> QED
    BY <1>2, <2>1, AnyIsSeq
<1>6. Bases(vt.frames, 0) /\ Owned(vt.frames, vt.rescues) /\ Linked(vt.frames)
    BY <1>1, <1>3, <1>4, <1>5 DEF Bases, Owned, Linked
<1>7. Sound(vt, fn, nest)
  <2>1. \A i \in 1 .. Len(vt.frames) : {"func", "base", "retfn"} \subseteq DOMAIN vt.frames[i]
    BY <1>3, <1>4
  <2>2. Nested(vt.frames, vt.rescues)
    BY <1>4, <1>5, <1>6, <2>1 DEF Nested
  <2> QED
    BY <1>1, <1>2, <1>3, <1>4, <2>2 DEF Sound
<1>8. WorkInv
    BY <1>2 DEF Init, WorkInv
<1> QED
    BY <1>1, <1>7, <1>8 DEF IInv

LEMMA StepKeeps == IInv /\ [Next]_vars => IInv'
BY SkipKeeps, JumpKeeps, PushRescueKeeps, PopRescueKeeps, ProceedKeeps, RaiseKeeps,
   CallFuncKeeps, CallCKeeps, CallSleepKeeps, CallUnfinishedKeeps, CallFinishedKeeps,
   ResumeKeeps, ReturnKeeps, StopKeeps DEF Next

LEMMA AlwaysSound == Spec => []IInv
BY StartsSound, StepKeeps, PTL DEF Spec

-----------------------------------------------------------------------------
(* The size of the stack *)

\* The part of the stack of function frame i, whose function is at offset p: a function
\* that is called is not between a CALLSETTOP and its call then.
Size(frames, i) == frames[i].floor + frames[i].space
At(img, frames, i, p) == i # 1 => Settled(img[frames[i].func].code, p)
Layered(img, frames) ==
  \A i \in 1 .. Len(frames) :
    /\ {"floor", "space", "restore", "retpc"} \subseteq DOMAIN frames[i]
    /\ frames[i].floor \in Nat /\ frames[i].space = img[frames[i].func].space
    /\ i = 1 => frames[i].floor = 0
    /\ i # 1 => /\ frames[i].func \in Called(img)
                /\ frames[i].restore = Size(frames, i - 1)
                /\ frames[i].retpc \in Int /\ At(img, frames, i - 1, frames[i].retpc)
Aim(img, frames, i, p) == p \in Int /\ (i # 1 => Takes(img, frames[i].func, p))
Aimed(img, frames, rescues) ==
  \A k \in 1 .. Len(rescues) :
    /\ {"frame", "rescue", "finally"} \subseteq DOMAIN rescues[k]
    /\ Aim(img, frames, rescues[k].frame, rescues[k].rescue)
    /\ Aim(img, frames, rescues[k].frame, rescues[k].finally)
Level(t) ==
  /\ t.settop = NoTop /\ t.floor = t.frames[Len(t.frames)].floor
  /\ t.top = Size(t.frames, Len(t.frames))
Raised(t, code, p) ==
  /\ t.settop = Size(t.frames, Len(t.frames)) /\ t.floor = t.frames[Len(t.frames)].floor
  /\ ~Settled(code, p) /\ t.top = t.floor + code[p].top
Stacked(img, t) == Layered(img, t.frames) /\ Aimed(img, t.frames, t.rescues)
Stands(img, t, p) == Level(t) /\ p \in Int /\ At(img, t.frames, Len(t.frames), p)
\* While work is left, what the call gives back is kept with it.
Kept(t, r) ==
  /\ r.pc \in Int /\ r.reverse = t.settop /\ t.settop = Size(t.frames, Len(t.frames))
  /\ r.floor = t.frames[Len(t.frames)].floor
StackInv ==
  phase \in {"run", "suspended"} =>
    /\ Stacked(image, vt)
    /\ resume.needs => Kept(vt, resume)
    /\ ~resume.needs /\ phase = "run" =>
         pc \in Int /\ (Stands(image, vt, pc) \/ Raised(vt, Code(fn), pc))
    /\ ~resume.needs /\ phase = "suspended" => Stands(image, vt, resume.pc)

AlikeFrame(a, b) ==
  /\ {"floor", "space", "restore", "retpc"} \subseteq DOMAIN a
  /\ a.func = b.func /\ a.floor = b.floor /\ a.space = b.space
  /\ a.restore = b.restore /\ a.retpc = b.retpc

\* What is left of the frames stands as before.
LEMMA LayersBelow ==
  ASSUME NEW frames, Layered(image, frames), NEW g, Len(frames) \in Nat,
         Len(g) \in 0 .. Len(frames), \A i \in 1 .. Len(g) : AlikeFrame(g[i], frames[i])
  PROVE  Layered(image, g)
<1> SUFFICES ASSUME NEW i \in 1 .. Len(g)
             PROVE  /\ {"floor", "space", "restore", "retpc"} \subseteq DOMAIN g[i]
                    /\ g[i].floor \in Nat /\ g[i].space = image[g[i].func].space
                    /\ i = 1 => g[i].floor = 0
                    /\ i # 1 => /\ g[i].func \in Called(image)
                                /\ g[i].restore = Size(g, i - 1)
                                /\ g[i].retpc \in Int /\ At(image, g, i - 1, g[i].retpc)
    BY DEF Layered
<1>1. i \in 1 .. Len(frames) /\ AlikeFrame(g[i], frames[i])
    OBVIOUS
<1>2. i # 1 => i - 1 \in 1 .. Len(g) /\ AlikeFrame(g[i - 1], frames[i - 1])
    OBVIOUS
<1>3. /\ frames[i].floor \in Nat /\ frames[i].space = image[frames[i].func].space
      /\ i = 1 => frames[i].floor = 0
      /\ i # 1 => /\ frames[i].func \in Called(image)
                  /\ frames[i].restore = Size(frames, i - 1)
                  /\ frames[i].retpc \in Int /\ At(image, frames, i - 1, frames[i].retpc)
    BY <1>1 DEF Layered
<1>4. i # 1 => Size(g, i - 1) = Size(frames, i - 1)
    BY <1>2 DEF Size, AlikeFrame
<1>5. i # 1 => (At(image, g, i - 1, g[i].retpc) <=> At(image, frames, i - 1, frames[i].retpc))
    BY <1>1, <1>2 DEF At, AlikeFrame
<1> QED
    BY <1>1, <1>3, <1>4, <1>5 DEF AlikeFrame

LEMMA AimsBelow ==
  ASSUME NEW frames, NEW rescues, Aimed(image, frames, rescues), Len(rescues) \in Nat,
         NEW g, \A i \in 1 .. Len(g) : AlikeFrame(g[i], frames[i]),
         NEW q, Len(q) \in 0 .. Len(rescues), Owned(g, q),
         \A k \in 1 .. Len(q) : AlikeRescue(q[k], rescues[k])
  PROVE  Aimed(image, g, q)
<1> SUFFICES ASSUME NEW k \in 1 .. Len(q)
             PROVE  /\ {"frame", "rescue", "finally"} \subseteq DOMAIN q[k]
                    /\ Aim(image, g, q[k].frame, q[k].rescue)
                    /\ Aim(image, g, q[k].frame, q[k].finally)
    BY DEF Aimed
<1>1. k \in 1 .. Len(rescues) /\ AlikeRescue(q[k], rescues[k]) /\ q[k].frame \in 1 .. Len(g)
    BY DEF Owned
<1>2. AlikeFrame(g[q[k].frame], frames[q[k].frame])
    BY <1>1
<1>3. /\ Aim(image, frames, rescues[k].frame, rescues[k].rescue)
      /\ Aim(image, frames, rescues[k].frame, rescues[k].finally)
    BY <1>1 DEF Aimed
<1> QED
    BY <1>1, <1>2, <1>3 DEF Aim, AlikeFrame, AlikeRescue

LEMMA FramesAlike ==
  ASSUME NEW frames, Layered(image, frames), NEW n \in 1 .. Len(frames)
  PROVE  AlikeFrame(frames[n], frames[n])
BY DEF Layered, AlikeFrame

LEMMA RescuesAlike ==
  ASSUME NEW frames, NEW rescues, Aimed(image, frames, rescues), NEW n \in 1 .. Len(rescues)
  PROVE  AlikeRescue(rescues[n], rescues[n])
BY DEF Aimed, AlikeRescue

\* What the hypothesis says of the running program.
LEMMA RoomHere ==
  ASSUME StackIsPrepared, IInv
  PROVE  /\ \A f \in DOMAIN image : RoomIsThere(image, f)
         /\ \A f \in Called(image) : CallsAreSet(image, f)
BY DEF StackIsPrepared, IInv

\* A popped frame gives the caller its part of the stack back.
LEMMA LevelAgain ==
  ASSUME NEW frames, Layered(image, frames), Len(frames) \in Nat, NEW n \in 1 .. Len(frames),
         n < Len(frames), frames[n].func \in DOMAIN image,
         \A f \in DOMAIN image : RoomIsThere(image, f)
  PROVE  /\ (IF n <= 1 THEN 0 ELSE frames[n].floor) = frames[n].floor
         /\ (IF frames[n + 1].restore < frames[n].space
             THEN frames[n].space ELSE frames[n + 1].restore) = Size(frames, n)
<1>1. n + 1 \in 1 .. Len(frames) /\ n + 1 # 1 /\ n + 1 - 1 = n
    OBVIOUS
<1>2. frames[n].floor \in Nat /\ frames[n].space \in Nat /\ (n = 1 => frames[n].floor = 0)
    BY DEF Layered, RoomIsThere
<1>3. frames[n + 1].restore = Size(frames, n + 1 - 1)
    BY <1>1 DEF Layered
<1>4. Size(frames, n) = frames[n].floor + frames[n].space
    BY DEF Size
<1> QED
    BY <1>1, <1>2, <1>3, <1>4

\* An error that is taken leaves the function that takes it with its part of the stack.
LEMMA LandsLevel ==
  ASSUME NEW t, NEW f, NEW d, Sound(t, f, d), Stacked(image, t), Level(t),
         \A h \in DOMAIN image : RoomIsThere(image, h),
         NEW e, NEW k \in 1 .. Len(t.rescues), LandedAt(t, e, k), Sound(e.vt, e.fn, e.nest)
  PROVE  /\ Stacked(image, e.vt) /\ Level(e.vt)
         /\ Len(e.vt.frames) \in 1 .. Len(t.frames)
         /\ Aim(image, e.vt.frames, Len(e.vt.frames), e.pc)
<1> DEFINE r == t.rescues[k]
           n == r.frame
           g == e.vt.frames
           q == e.vt.rescues
<1>1. /\ n \in 1 .. Len(t.frames) /\ Len(g) = n
      /\ \A i \in 1 .. n : g[i] = t.frames[i]
      /\ Len(q) = k /\ \A i \in 1 .. k - 1 : q[i] = t.rescues[i]
      /\ {"frame", "rescue", "finally"} \subseteq DOMAIN r => AlikeRescue(q[k], r)
      /\ e.pc \in {r.rescue, r.finally} /\ Resettled(t, e.vt, n)
    BY DEF LandedAt
<1>2. Len(t.frames) \in Nat /\ Len(t.rescues) \in Nat /\ Owned(g, q)
    BY DEF Sound, Nested, IsSeq
<1>3. /\ AlikeRescue(q[k], r)
      /\ Aim(image, t.frames, n, r.rescue) /\ Aim(image, t.frames, n, r.finally)
    BY <1>1 DEF Stacked, Aimed
<1>4. \A i \in 1 .. Len(g) : AlikeFrame(g[i], t.frames[i])
    BY <1>1, <1>2, FramesAlike DEF Stacked
<1>5. \A i \in 1 .. Len(q) : AlikeRescue(q[i], t.rescues[i])
  <2> SUFFICES ASSUME NEW i \in 1 .. Len(q) PROVE AlikeRescue(q[i], t.rescues[i])
    OBVIOUS
  <2>1. CASE i = k
    BY <1>3, <2>1
  <2>2. CASE i # k
    <3>1. i \in 1 .. k - 1 /\ i \in 1 .. Len(t.rescues)
      BY <1>1, <1>2, <2>2
    <3> QED
      BY <1>1, <3>1, RescuesAlike DEF Stacked
  <2> QED
    BY <2>1, <2>2
<1>6. Stacked(image, e.vt)
  <2>1. Len(g) \in 0 .. Len(t.frames) /\ Len(q) \in 0 .. Len(t.rescues)
    BY <1>1, <1>2
  <2> QED
    BY <1>2, <1>4, <1>5, <2>1, LayersBelow, AimsBelow DEF Stacked
<1>8. g[n] = t.frames[n]
  <2> HIDE DEF n, g
  <2>1. n \in 1 .. n
    BY <1>1, <1>2
  <2> QED
    BY <1>1, <2>1
<1>7. Level(e.vt)
  <2>1. t.settop = NoTop /\ t.floor = t.frames[Len(t.frames)].floor
        /\ t.top = Size(t.frames, Len(t.frames))
    BY DEF Level
  <2>2. g[n] = t.frames[n] /\ Size(g, n) = Size(t.frames, n)
    BY <1>8 DEF Size
  <2>5. /\ Resettled(t, e.vt, n) /\ n = Len(e.vt.frames)
        /\ e.vt.frames[n].floor = t.frames[n].floor /\ Size(e.vt.frames, n) = Size(t.frames, n)
    BY <1>1, <2>2
  <2> HIDE DEF n
  <2>6. e.vt.settop = NoTop
    BY <2>1, <2>5 DEF Resettled
  <2>7. e.vt.floor = t.frames[n].floor /\ e.vt.top = Size(t.frames, n) => Level(e.vt)
    BY <2>5, <2>6 DEF Level
  <2>3. CASE n = Len(t.frames)
    BY <2>1, <2>3, <2>5, <2>7 DEF Resettled
  <2>4. CASE n < Len(t.frames)
    <3>1. t.frames[n].func \in DOMAIN image /\ n \in 1 .. Len(t.frames)
      BY <1>1 DEF Sound, Nested, Linked, n
    <3>2. /\ (IF n <= 1 THEN 0 ELSE t.frames[n].floor) = t.frames[n].floor
          /\ (IF t.frames[n + 1].restore < t.frames[n].space
              THEN t.frames[n].space ELSE t.frames[n + 1].restore) = Size(t.frames, n)
      BY <1>2, <2>4, <3>1, LevelAgain DEF Stacked
    <3> QED
      BY <2>4, <2>5, <2>7, <3>2 DEF Resettled
  <2>8. n \in 1 .. Len(t.frames)
    BY <1>1 DEF n
  <2> QED
    BY <1>2, <2>3, <2>4, <2>8
<1>9. Aim(image, g, n, e.pc)
    BY <1>1, <1>3, <1>8 DEF Aim
<1> QED
    BY <1>1, <1>6, <1>7, <1>9

\* The end of a step with nothing left to do.
LEMMA StandsOn ==
  ASSUME phase = "run", resume'.needs = FALSE, NEW t, NEW f, NEW p, NEW d,
         GoOn(t, f, p, d), Stacked(image, t), Stands(image, t, p)
  PROVE  StackInv'
<1>1. image' = image /\ phase' = "run" /\ vt' = t /\ pc' = p
    BY DEF GoOn
<1>2. Stacked(image, vt)' /\ Stands(image, vt, pc)' /\ pc' \in Int
    BY <1>1 DEF Stands, Stacked, Layered, Aimed, Aim, At, Level, Size
<1> QED
    BY <1>1, <1>2 DEF StackInv

LEMMA FollowStands ==
  ASSUME phase = "run", resume'.needs = FALSE, NEW e, Follow(e),
         e.uncaught = NoError => Stacked(image, e.vt) /\ Stands(image, e.vt, e.pc)
  PROVE  StackInv'
<1>1. CASE e.uncaught # NoError
    BY <1>1 DEF Follow, Leave, StackInv
<1>2. CASE e.uncaught = NoError
    BY <1>2, StandsOn DEF Follow
<1> QED
    BY <1>1, <1>2

\* Off the calls the stack is that of the running function.
LEMMA StandsHere ==
  ASSUME StackIsPrepared, IInv, StackInv, NEW op, Running(op), op # "call"
  PROVE  /\ phase = "run" /\ Sound(vt, fn, nest) /\ fn = vt.frames[nest].func
         /\ nest = Len(vt.frames) /\ nest \in Nat /\ nest > 0 /\ fn \in DOMAIN image
         /\ nest # 1 => fn \in Called(image)
         /\ resume.needs = FALSE /\ Stacked(image, vt) /\ Stands(image, vt, pc) /\ pc \in Int
         /\ op # "callsettop" => At(image, vt.frames, Len(vt.frames), pc + 1)
<1>1. phase = "run" /\ Inst.op = op /\ pc + 1 \in DOMAIN Code(fn) /\ Inst = Code(fn)[pc + 1]
    BY DEF Running, InCode, Inst
<1>2. Sound(vt, fn, nest) /\ resume.needs = FALSE /\ fn \in DOMAIN image
    BY NothingLeft
<1>3. Stacked(image, vt) /\ pc \in Int /\ (Stands(image, vt, pc) \/ Raised(vt, Code(fn), pc))
    BY <1>1, <1>2 DEF StackInv
<1>4. ~Raised(vt, Code(fn), pc)
  <2> SUFFICES ASSUME Raised(vt, Code(fn), pc) PROVE FALSE
    OBVIOUS
  <2>1. pc \in DOMAIN Code(fn) /\ Code(fn)[pc].op = "callsettop"
    BY DEF Raised, Settled
  <2>2. Code(fn)[pc + 1].op = "call"
    BY <1>2, <2>1, RoomHere DEF RoomIsThere, Code
  <2> QED
    BY <1>1, <2>2
<1>5. /\ nest = Len(vt.frames) /\ nest \in Nat /\ nest > 0 /\ fn = vt.frames[nest].func
    BY <1>2 DEF Sound, Nested, IsSeq
<1>6. nest # 1 => fn \in Called(image)
  <2>1. nest \in 1 .. Len(vt.frames)
    BY <1>5
  <2> QED
    BY <1>3, <1>5, <2>1 DEF Stacked, Layered
<1>7. op # "callsettop" => At(image, vt.frames, Len(vt.frames), pc + 1)
    BY <1>1, <1>5 DEF At, Settled, Code
<1> QED
    BY <1>1, <1>2, <1>3, <1>4, <1>5, <1>6, <1>7

LEMMA ObjectsStand ==
  ASSUME NEW t, NEW f, NEW d, Sound(t, f, d), Stacked(image, t), Level(t), NEW x, NEW p,
         At(image, t.frames, Len(t.frames), p),
         NEW u, u = [t EXCEPT !.frames = [t.frames EXCEPT ![Len(t.frames)].objs = x]]
  PROVE  Stacked(image, u) /\ Level(u) /\ At(image, u.frames, Len(u.frames), p)
<1> DEFINE N == Len(t.frames)
           e == [t.frames[N] EXCEPT !.objs = x]
           g == Put(t.frames, N, e)
<1>1. u = [[frames |-> t.frames, rescues |-> t.rescues, top |-> t.top, floor |-> t.floor,
            settop |-> t.settop, work |-> t.work] EXCEPT !.frames = g]
    BY Zenon DEF Sound, IsThread, Put
<1>2. IsSeq(t.frames) /\ N \in Nat /\ N \in 1 .. N /\ Len(t.rescues) \in Nat
    BY DEF Sound, Nested, IsSeq
<1>3. /\ {"floor", "space", "restore", "retpc"} \subseteq DOMAIN t.frames[N]
      /\ {"func"} \subseteq DOMAIN t.frames[N]
    BY <1>2 DEF Stacked, Layered, Sound, Nested
<1>4. AlikeFrame(e, t.frames[N])
    BY <1>3 DEF AlikeFrame
<1> HIDE DEF e
<1>5. Len(g) = N /\ g[N] = e /\ \A i \in 1 .. N : i # N => g[i] = t.frames[i]
    BY <1>2, PutIsSeq
<1>6. Owned(g, t.rescues)
  <2>1. Nested(u.frames, u.rescues)
    BY OtherObjects DEF Sound
  <2> HIDE DEF g
  <2> QED
    BY <1>1, <2>1 DEF Nested
<1> HIDE DEF g
<1>7. /\ u.frames = g /\ u.rescues = t.rescues /\ u.floor = t.floor /\ u.top = t.top
      /\ u.settop = t.settop
    BY <1>1
<1>8. \A i \in 1 .. Len(g) : AlikeFrame(g[i], t.frames[i])
    BY <1>4, <1>5, FramesAlike DEF Stacked
<1>9. Stacked(image, u)
  <2>1. Len(g) \in 0 .. N /\ Len(t.rescues) \in 0 .. Len(t.rescues)
    BY <1>2, <1>5
  <2>2. \A i \in 1 .. Len(t.rescues) : AlikeRescue(t.rescues[i], t.rescues[i])
    BY RescuesAlike DEF Stacked
  <2> QED
    BY <1>2, <1>6, <1>7, <1>8, <2>1, <2>2, LayersBelow, AimsBelow DEF Stacked
<1>10. AlikeFrame(g[N], t.frames[N])
    BY <1>4, <1>5
<1> QED
    BY <1>5, <1>7, <1>9, <1>10 DEF Level, Size, AlikeFrame, At

\* A raised error that is taken.
LEMMA RaisedStands ==
  ASSUME NEW t, NEW d, NEW f, Sound(t, f, d), Stacked(image, t), Level(t),
         \A h \in DOMAIN image : RoomIsThere(image, h), NEW c, c # NoError,
         NEW e, e = Raise(t, c, d), e.uncaught = NoError
  PROVE  Stacked(image, e.vt) /\ Stands(image, e.vt, e.pc)
<1>1. Sound(e.vt, e.fn, e.nest) /\ Landed(t, e)
    BY RaiseKeepsStep
<1>2. PICK k \in 1 .. Len(t.rescues) : LandedAt(t, e, k)
    BY <1>1 DEF Landed
<1>3. /\ Stacked(image, e.vt) /\ Level(e.vt)
      /\ Aim(image, e.vt.frames, Len(e.vt.frames), e.pc)
    BY <1>1, <1>2, LandsLevel
<1> QED
    BY <1>3 DEF Stands, Aim, At, Takes

LEMMA SkipStands == ASSUME StackIsPrepared, IInv, StackInv, Skip PROVE StackInv'
<1>1. PICK op \in {"newiterator", "callsettop", "setnone"} : Running(op)
    BY DEF Skip
<1>2. /\ phase = "run" /\ Sound(vt, fn, nest) /\ fn = vt.frames[nest].func
      /\ nest = Len(vt.frames) /\ nest \in Nat /\ nest > 0 /\ fn \in DOMAIN image
      /\ resume'.needs = FALSE /\ resume' = resume
      /\ Stacked(image, vt) /\ Stands(image, vt, pc) /\ pc \in Int
      /\ op # "callsettop" => At(image, vt.frames, Len(vt.frames), pc + 1)
    BY <1>1, StandsHere DEF Skip
<1>3. CASE op = "callsettop"
  <2> DEFINE u == [vt EXCEPT !.settop = IF @ >= 0 THEN @ ELSE vt.top,
                             !.top = vt.floor + Inst.top]
  <2>1. GoOn(u, fn, pc + 1, nest)
    BY <1>1, <1>3 DEF Skip, Running, StepTo
  <2>2. u = [[frames |-> vt.frames, rescues |-> vt.rescues, top |-> vt.top,
              floor |-> vt.floor, settop |-> vt.settop, work |-> vt.work]
             EXCEPT !.settop = IF vt.settop >= 0 THEN vt.settop ELSE vt.top,
                    !.top = vt.floor + Inst.top]
    BY <1>2, Zenon DEF Sound, IsThread
  <2> HIDE DEF u
  <2>3. /\ u.frames = vt.frames /\ u.rescues = vt.rescues /\ u.floor = vt.floor
        /\ u.top = vt.floor + Inst.top
        /\ u.settop = IF vt.settop >= 0 THEN vt.settop ELSE vt.top
    BY <2>2
  <2>4. vt.settop = NoTop /\ vt.top = Size(vt.frames, Len(vt.frames))
        /\ vt.floor = vt.frames[Len(vt.frames)].floor
    BY <1>2 DEF Stands, Level
  <2>5. u.settop = Size(vt.frames, Len(vt.frames))
    BY <2>3, <2>4 DEF NoTop
  <2>6. Inst = Code(fn)[pc + 1] /\ pc + 1 \in DOMAIN Code(fn) /\ Inst.op = "callsettop"
    BY <1>1, <1>3 DEF Running, Inst, InCode
  <2>7. Raised(u, Code(fn), pc + 1)
    BY <2>3, <2>4, <2>5, <2>6 DEF Raised, Settled
  <2>8. vt' = u /\ fn' = fn /\ pc' = pc + 1 /\ image' = image /\ phase' = "run"
    BY <1>2, <2>1 DEF GoOn
  <2>9. Stacked(image, vt)'
    BY <1>2, <2>3, <2>8 DEF Stacked, Layered, Aimed, Aim, At, Size
  <2>10. Raised(vt, Code(fn), pc)' /\ pc' \in Int
    BY <1>2, <2>7, <2>8 DEF Raised, Code, Size
  <2> QED
    BY <1>2, <2>8, <2>9, <2>10 DEF StackInv
<1>4. CASE op = "setnone"
  <2> DEFINE x == vt.frames[Len(vt.frames)].objs \ {Inst.slot}
             u == [vt EXCEPT !.frames = [vt.frames EXCEPT ![Len(vt.frames)].objs = x]]
  <2>1. GoOn([vt EXCEPT !.frames[Len(vt.frames)].objs = @ \ {Inst.slot}], fn, pc + 1, nest)
    BY <1>1, <1>4 DEF Skip, Running, StepTo
  <2>2. GoOn(u, fn, pc + 1, nest)
    BY <2>1
  <2>3. Stacked(image, u) /\ Level(u) /\ At(image, u.frames, Len(u.frames), pc + 1)
    <3> HIDE DEF x
    <3> QED
      BY <1>2, <1>4, ObjectsStand DEF Stands
  <2> HIDE DEF u
  <2>4. Stands(image, u, pc + 1)
    BY <1>2, <2>3 DEF Stands
  <2> QED
    BY <1>2, <2>2, <2>3, <2>4, StandsOn
<1>5. CASE op = "newiterator"
  <2>1. GoOn(vt, fn, pc + 1, nest)
    BY <1>1, <1>5 DEF Skip, Running, StepTo
  <2>2. Stands(image, vt, pc + 1)
    BY <1>2, <1>5 DEF Stands
  <2> QED
    BY <1>2, <2>1, <2>2, StandsOn
<1> QED
    BY <1>1, <1>3, <1>4, <1>5

LEMMA JumpStands ==
  ASSUME StackIsPrepared, IInv, StackInv, JumpInst \/ Test \/ HasAttr PROVE StackInv'
<1>1. PICK op \in {"jump", "condjump", "iterate", "hasattrjump"} : Running(op)
    BY DEF JumpInst, Test, HasAttr
<1>2. /\ phase = "run" /\ fn = vt.frames[nest].func
      /\ nest = Len(vt.frames) /\ nest \in Nat /\ nest > 0 /\ fn \in DOMAIN image
      /\ nest # 1 => fn \in Called(image)
      /\ resume'.needs = FALSE
      /\ Stacked(image, vt) /\ Stands(image, vt, pc) /\ pc \in Int
      /\ At(image, vt.frames, Len(vt.frames), pc + 1)
    BY <1>1, StandsHere DEF JumpInst, Test, HasAttr
<1>3. PICK p \in {pc + 1, pc + Inst.to} : GoOn(vt, fn, p, nest)
    BY DEF JumpInst, Test, HasAttr, StepTo
<1>4. Inst = Code(fn)[pc + 1] /\ pc + 1 \in DOMAIN Code(fn) /\ Inst.op = op
    BY <1>1 DEF Running, Inst, InCode
<1>5. Inst.to \in Int
    BY <1>2, <1>4, RoomHere DEF RoomIsThere, Code
<1>6. pc + 1 - 1 = pc
    BY <1>2
<1>7. nest # 1 => Settled(Code(fn), pc + Inst.to)
    BY <1>2, <1>4, <1>6, RoomHere DEF CallsAreSet, Code
<1>8. p \in Int
    BY <1>2, <1>3, <1>5
<1>9. At(image, vt.frames, Len(vt.frames), p)
  <2>1. CASE p = pc + 1
    BY <1>2, <2>1
  <2>2. CASE p = pc + Inst.to
    BY <1>2, <1>7, <2>2 DEF At, Code
  <2> QED
    BY <1>3, <2>1, <2>2
<1>10. Stands(image, vt, p)
    BY <1>2, <1>8, <1>9 DEF Stands
<1> QED
    BY <1>2, <1>3, <1>10, StandsOn

LEMMA PushRescueStands ==
  ASSUME StackIsPrepared, IInv, StackInv, PushRescue PROVE StackInv'
<1>1. resume' = resume
    BY DEF PushRescue
<1>0. PICK op \in {"pushrescueframe"} : Running(op)
    BY DEF PushRescue
<1>2. /\ phase = "run" /\ Sound(vt, fn, nest) /\ fn = vt.frames[nest].func
      /\ nest = Len(vt.frames) /\ nest \in Nat /\ nest > 0 /\ fn \in DOMAIN image
      /\ nest # 1 => fn \in Called(image)
      /\ resume'.needs = FALSE
      /\ Stacked(image, vt) /\ Stands(image, vt, pc) /\ pc \in Int
      /\ At(image, vt.frames, Len(vt.frames), pc + 1)
    BY <1>0, <1>1, StandsHere
<1> DEFINE e == [id |-> Inst.id, frame |-> Len(vt.frames), types |-> Inst.types,
                 rescue  |-> IF Inst.rescue = 0 THEN -1 ELSE pc + Inst.rescue,
                 finally |-> IF Inst.finally = 0 THEN -1 ELSE pc + Inst.finally,
                 rescued |-> FALSE, finalled |-> FALSE, delayed |-> NoError]
           q == Append(vt.rescues, e)
           u == PushRescueFrame(vt, Inst)
<1>3. /\ {"frame", "rescue", "finally"} \subseteq DOMAIN e /\ e.frame = nest
      /\ e.rescue = IF Inst.rescue = 0 THEN -1 ELSE pc + Inst.rescue
      /\ e.finally = IF Inst.finally = 0 THEN -1 ELSE pc + Inst.finally
    BY <1>2
<1>4. u = [[frames |-> vt.frames, rescues |-> vt.rescues, top |-> vt.top,
            floor |-> vt.floor, settop |-> vt.settop, work |-> vt.work]
           EXCEPT !.rescues = q, !.settop = NoTop]
    BY <1>2, Zenon DEF Sound, IsThread, PushRescueFrame
<1>5. GoOn(u, fn, pc + 1, nest)
    BY DEF PushRescue, StepTo
<1> HIDE DEF e, u
<1>6. IsSeq(vt.rescues)
    BY <1>2 DEF Sound, Nested
<1>7. /\ Len(q) = Len(vt.rescues) + 1 /\ q[Len(vt.rescues) + 1] = e
      /\ \A i \in 1 .. Len(vt.rescues) : q[i] = vt.rescues[i]
    BY <1>6, AppendIsSeq
<1> HIDE DEF q
<1>8. /\ u.frames = vt.frames /\ u.rescues = q /\ u.floor = vt.floor /\ u.top = vt.top
      /\ u.settop = NoTop
    BY <1>4
<1>9. Inst = Code(fn)[pc + 1] /\ pc + 1 \in DOMAIN Code(fn) /\ Inst.op = "pushrescueframe"
    BY <1>0 DEF Running, Inst, InCode
<1>10. Aim(image, vt.frames, nest, e.rescue) /\ Aim(image, vt.frames, nest, e.finally)
  <2>1. \A f \in DOMAIN image : DOMAIN image[f].code \subseteq Nat \ {0}
    BY RoomHere DEF RoomIsThere
  <2>2. {Inst.rescue, Inst.finally} \subseteq Int
    BY <1>2, <1>9, RoomHere DEF RoomIsThere, Code
  <2>3. pc + 1 - 1 = pc
    BY <1>2
  <2>4. nest # 1 => \A x \in {Inst.rescue, Inst.finally} \ {0} : Takes(image, fn, pc + x)
    <3> SUFFICES ASSUME nest # 1 PROVE \A x \in {Inst.rescue, Inst.finally} \ {0} :
                                             Takes(image, fn, pc + x)
      OBVIOUS
    <3>1. CallsAreSet(image, fn)
      BY <1>2, RoomHere
    <3>2. PICK i : i = pc + 1
      OBVIOUS
    <3>3. i \in DOMAIN Code(fn) /\ Code(fn)[i] = Inst /\ Inst.op = "pushrescueframe"
      BY <1>9, <3>2
    <3>4. \A x \in {Code(fn)[i].rescue, Code(fn)[i].finally} \ {0} :
            Takes(image, fn, i - 1 + x)
      BY <3>1, <3>3 DEF CallsAreSet, Code
    <3>5. i - 1 = pc
      BY <1>2, <3>2
    <3>6. \A x \in {Code(fn)[i].rescue, Code(fn)[i].finally} \ {0} : Takes(image, fn, pc + x)
      BY <3>4, <3>5
    <3> QED
      BY <3>3, <3>6
  <2>5. Aim(image, vt.frames, nest, -1)
    <3>1. -1 \in Int /\ -1 \notin Nat /\ -1 + 1 = 0 /\ 0 \notin Nat \ {0}
      OBVIOUS
    <3>2. \A f \in DOMAIN image : -1 \notin DOMAIN image[f].code /\ 0 \notin DOMAIN image[f].code
      BY <2>1, <3>1
    <3>3. Settled(image[fn].code, -1) /\ ~EndsFinally(image, -1)
      BY <1>2, <3>1, <3>2 DEF Settled, EndsFinally, Called
    <3> QED
      BY <1>2, <3>1, <3>3 DEF Aim, Takes
  <2>6. ASSUME NEW x \in {Inst.rescue, Inst.finally}
        PROVE  Aim(image, vt.frames, nest, IF x = 0 THEN -1 ELSE pc + x)
    <3>1. CASE x = 0
      BY <2>5, <3>1
    <3>2. CASE x # 0
      <4>1. pc + x \in Int
        BY <1>2, <2>2
      <4>2. nest # 1 => Takes(image, fn, pc + x)
        BY <2>4, <3>2
      <4>3. Aim(image, vt.frames, nest, pc + x)
        BY <1>2, <4>1, <4>2 DEF Aim
      <4> QED
        BY <3>2, <4>3
    <3> QED
      BY <3>1, <3>2
  <2> QED
    BY <1>3, <2>6
<1>11. Aimed(image, vt.frames, q)
  <2> SUFFICES ASSUME NEW k \in 1 .. Len(q)
               PROVE  /\ {"frame", "rescue", "finally"} \subseteq DOMAIN q[k]
                      /\ Aim(image, vt.frames, q[k].frame, q[k].rescue)
                      /\ Aim(image, vt.frames, q[k].frame, q[k].finally)
    BY DEF Aimed
  <2>1. CASE k = Len(vt.rescues) + 1
    BY <1>3, <1>7, <1>10, <2>1
  <2>2. CASE k \in 1 .. Len(vt.rescues)
    BY <1>2, <1>7, <2>2 DEF Stacked, Aimed
  <2> QED
    BY <1>6, <1>7, <2>1, <2>2 DEF IsSeq
<1>12. Stacked(image, u)
    BY <1>2, <1>8, <1>11 DEF Stacked
<1>13. Stands(image, u, pc + 1)
    BY <1>2, <1>8 DEF Stands, Level
<1> QED
    BY <1>2, <1>5, <1>12, <1>13, StandsOn

LEMMA RaiseStands == ASSUME StackIsPrepared, IInv, StackInv, RaiseError PROVE StackInv'
<1>1. Running("raise") /\ resume' = resume
    BY DEF RaiseError
<1>2. /\ phase = "run" /\ Sound(vt, fn, nest) /\ fn \in DOMAIN image
      /\ resume'.needs = FALSE /\ Stacked(image, vt) /\ Level(vt)
    BY <1>1, StandsHere DEF Stands
<1>3. Inst.c # NoError
    BY <1>1, <1>2, MachineAssumption DEF Running, Inst, InCode, Code, IInv
<1> DEFINE e == Raise(vt, Inst.c, nest)
<1>4. Follow(e)
    BY DEF RaiseError
<1>5. e.uncaught = NoError => Stacked(image, e.vt) /\ Stands(image, e.vt, e.pc)
  <2> HIDE DEF e
  <2> QED
    BY <1>2, <1>3, RaisedStands, RoomHere DEF e
<1> HIDE DEF e
<1> QED
    BY <1>2, <1>4, <1>5, FollowStands

LEMMA ProceedStands ==
  ASSUME StackIsPrepared, IInv, StackInv, ProceedToFinally PROVE StackInv'
<1>1. Running("jumptofinally") /\ resume' = resume /\ CanProceed(vt)
    BY DEF ProceedToFinally
<1>2. /\ phase = "run" /\ Sound(vt, fn, nest)
      /\ resume'.needs = FALSE /\ Stacked(image, vt) /\ Stands(image, vt, pc)
    BY <1>1, StandsHere
<1> DEFINE k == Len(vt.rescues)
           r == vt.rescues[k]
           e == [r EXCEPT !.finalled = TRUE]
           q == Put(vt.rescues, k, e)
           u == [vt EXCEPT !.rescues[Len(vt.rescues)].finalled = TRUE]
<1>3. IsSeq(vt.rescues) /\ Nested(vt.frames, vt.rescues) /\ vt.rescues # <<>>
      /\ Len(vt.frames) \in Nat /\ k \in Nat
    BY <1>1, <1>2 DEF Sound, Nested, CanProceed, IsSeq
<1>4. k \in 1 .. Len(vt.rescues)
    BY <1>3, EmptySeq DEF IsSeq
<1>5. r.frame = Len(vt.frames)
    BY <1>1, Zenon DEF CanProceed, Last
<1>6. /\ {"frame", "rescue", "finally"} \subseteq DOMAIN r
      /\ Aim(image, vt.frames, r.frame, r.finally)
    BY <1>2, <1>4 DEF Stacked, Aimed
<1>7. AlikeRescue(e, r)
    BY <1>6 DEF AlikeRescue
<1>8. u = [[frames |-> vt.frames, rescues |-> vt.rescues, top |-> vt.top,
            floor |-> vt.floor, settop |-> vt.settop, work |-> vt.work]
           EXCEPT !.rescues = q]
    BY <1>2, Zenon DEF Sound, IsThread, Put
<1>9. GoOn(u, fn, r.finally, nest)
    BY Zenon DEF ProceedToFinally, StepTo, Last
<1> HIDE DEF e, k
<1>10. Len(q) = k /\ q[k] = e /\ \A i \in 1 .. k : i # k => q[i] = vt.rescues[i]
    BY <1>3, <1>4, PutIsSeq DEF k
<1> HIDE DEF q, u
<1>11. /\ u.frames = vt.frames /\ u.rescues = q /\ u.floor = vt.floor /\ u.top = vt.top
       /\ u.settop = vt.settop
    BY <1>8
<1> HIDE DEF r
<1>12. Aimed(image, vt.frames, q)
  <2> SUFFICES ASSUME NEW i \in 1 .. Len(q)
               PROVE  /\ {"frame", "rescue", "finally"} \subseteq DOMAIN q[i]
                      /\ Aim(image, vt.frames, q[i].frame, q[i].rescue)
                      /\ Aim(image, vt.frames, q[i].frame, q[i].finally)
    BY DEF Aimed
  <2>1. /\ {"frame", "rescue", "finally"} \subseteq DOMAIN vt.rescues[i]
        /\ Aim(image, vt.frames, vt.rescues[i].frame, vt.rescues[i].rescue)
        /\ Aim(image, vt.frames, vt.rescues[i].frame, vt.rescues[i].finally)
    BY <1>2, <1>10 DEF Stacked, Aimed, k
  <2>2. CASE i = k
    BY <1>7, <1>10, <2>1, <2>2 DEF AlikeRescue, r
  <2>3. CASE i # k
    BY <1>10, <2>1, <2>3
  <2> QED
    BY <2>2, <2>3
<1>13. Stacked(image, u)
    BY <1>2, <1>11, <1>12 DEF Stacked
<1>14. Stands(image, u, r.finally)
  <2>1. r.finally \in Int /\ At(image, vt.frames, Len(vt.frames), r.finally)
    BY <1>5, <1>6 DEF Aim, Takes, At
  <2> QED
    BY <1>2, <1>11, <2>1 DEF Stands, Level
<1> QED
    BY <1>2, <1>9, <1>13, <1>14, StandsOn

\* The end of a finally block: the next instruction, or the block that takes the error put
\* aside. Taken for its own at the same offset, that block starts at its second instruction.
LEMMA PopRescueStands ==
  ASSUME StackIsPrepared, IInv, StackInv, PopRescue PROVE StackInv'
<1>1. PICK op \in {"poprescueframe"} : Running(op)
    BY DEF PopRescue
<1>2. /\ phase = "run" /\ Sound(vt, fn, nest) /\ fn = vt.frames[nest].func
      /\ nest = Len(vt.frames) /\ nest \in Nat /\ nest > 0 /\ fn \in DOMAIN image
      /\ nest # 1 => fn \in Called(image)
      /\ resume'.needs = FALSE
      /\ Stacked(image, vt) /\ Stands(image, vt, pc) /\ pc \in Int
      /\ At(image, vt.frames, Len(vt.frames), pc + 1)
    BY <1>1, StandsHere DEF PopRescue
<1>3. vt.work = NoWork
    BY <1>1, NothingLeft
<1> DEFINE e == EndFinally(vt, Inst.id)
           x == IF e.pc = pc THEN e.pc + 1 ELSE e.pc
           g == [e EXCEPT !.pc = x]
<1>4. /\ {"vt", "fn", "pc", "nest", "uncaught"} \subseteq DOMAIN e
      /\ e.uncaught = NoError => Sound(e.vt, e.fn, e.nest)
      /\ \E u : EndsAt(vt, u, e)
    BY <1>2, <1>3, EndKeepsStep DEF PopRescue
<1>5. PICK u : EndsAt(vt, u, e)
    BY <1>4
<1>6. Follow(g)
    BY Zenon DEF PopRescue
<1>7. Inst = Code(fn)[pc + 1] /\ pc + 1 \in DOMAIN Code(fn) /\ Inst.op = "poprescueframe"
    BY <1>1 DEF Running, Inst, InCode
<1> HIDE DEF e
<1>8. /\ Sound(u, fn, nest) /\ u.frames = vt.frames /\ Len(u.rescues) \in 0 .. Len(vt.rescues)
      /\ \A i \in 1 .. Len(u.rescues) : u.rescues[i] = vt.rescues[i]
      /\ Level(u) /\ (e.uncaught = NoError => (e.vt = u /\ e.pc = pc) \/ Landed(u, e))
    BY <1>2, <1>5 DEF EndsAt, Level, Stands
<1>9. Stacked(image, u)
  <2>1. Layered(image, u.frames)
    BY <1>2, <1>8 DEF Stacked
  <2>2. Aimed(image, u.frames, u.rescues)
    <3>1. \A i \in 1 .. Len(u.rescues) : i \in 1 .. Len(vt.rescues)
      BY <1>2, <1>8 DEF Sound, Nested, IsSeq
    <3> QED
      BY <1>2, <1>8, <3>1 DEF Stacked, Aimed
  <2> QED
    BY <2>1, <2>2 DEF Stacked
<1>10. ASSUME e.uncaught = NoError PROVE Stacked(image, e.vt) /\ Stands(image, e.vt, x)
  <2>1. CASE e.vt = u /\ e.pc = pc
    <3>1. x = pc + 1
      BY <2>1
    <3>2. pc + 1 \in Int /\ At(image, u.frames, Len(u.frames), pc + 1)
      BY <1>2, <1>8
    <3> HIDE DEF x
    <3> QED
      BY <1>8, <1>9, <2>1, <3>1, <3>2 DEF Stands
  <2>2. CASE Landed(u, e)
    <3>1. PICK k \in 1 .. Len(u.rescues) : LandedAt(u, e, k)
      BY <1>10, <2>2 DEF Landed
    <3> DEFINE h == e.vt.frames
    <3>2. /\ Stacked(image, e.vt) /\ Level(e.vt)
          /\ Len(h) \in 1 .. Len(u.frames) /\ Aim(image, h, Len(h), e.pc)
      BY <1>4, <1>8, <1>9, <1>10, <3>1, LandsLevel, RoomHere
    <3>3. Len(h) # 1 => fn \in Called(image)
      BY <1>2, <1>8, <3>2
    <3>4. Len(h) # 1 => EndsFinally(image, pc)
      BY <1>7, <3>3 DEF EndsFinally, Code
    <3>5. x \in Int /\ At(image, h, Len(h), x)
      <4>1. e.pc \in Int /\ e.pc + 1 \in Int
        BY <3>2 DEF Aim
      <4>2. Len(h) # 1 => Settled(image[h[Len(h)].func].code, e.pc)
        BY <3>2 DEF Aim, Takes
      <4>3. Len(h) # 1 /\ e.pc = pc => Settled(image[h[Len(h)].func].code, e.pc + 1)
        BY <3>2, <3>4 DEF Aim, Takes
      <4> QED
        BY <4>1, <4>2, <4>3 DEF At
    <3> HIDE DEF x
    <3> QED
      BY <3>2, <3>5 DEF Stands
  <2> QED
    BY <1>8, <1>10, <2>1, <2>2
<1> HIDE DEF x
<1>11. g.vt = e.vt /\ g.fn = e.fn /\ g.nest = e.nest /\ g.uncaught = e.uncaught /\ g.pc = x
    BY <1>4
<1> HIDE DEF g
<1> QED
    BY <1>2, <1>6, <1>10, <1>11, FollowStands

LEMMA ReturnStands ==
  ASSUME StackIsPrepared, IInv, StackInv, ReturnInst PROVE StackInv'
<1>1. PICK op \in {"returnvalue"} : Running(op)
    BY DEF ReturnInst
<1>2. /\ phase = "run" /\ Sound(vt, fn, nest)
      /\ nest = Len(vt.frames) /\ nest \in Nat /\ nest > 0
      /\ resume'.needs = FALSE /\ Stacked(image, vt) /\ Level(vt)
    BY <1>1, StandsHere DEF ReturnInst, Stands
<1> DEFINE N == Len(vt.frames)
           n == N - 1
           b == vt.frames[N].base
           u == PopFuncFrame(vt)
           top == vt.frames[N]
<1>3. CASE nest - 1 <= 0
    BY <1>3 DEF ReturnInst, Leave, StackInv
<1>4. CASE ~(nest - 1 <= 0)
  <2>1. GoOn(u, top.retfn, top.retpc, nest - 1)
    BY <1>4, Zenon DEF ReturnInst, Last
  <2>2. /\ IsSeq(vt.frames) /\ IsSeq(vt.rescues) /\ N \in Nat
        /\ Nested(vt.frames, vt.rescues) /\ IsThread(vt) /\ Len(vt.rescues) \in Nat
    BY <1>2 DEF Sound, Nested, IsSeq
  <2>3. /\ n \in 1 .. N /\ n < N /\ N \in 1 .. N /\ n \in 0 .. N /\ n + 1 = N /\ N # 1
        /\ (N <= 2 <=> n <= 1) /\ n \in Nat /\ N > 1
    <3>1. N \in Nat /\ ~(N - 1 <= 0)
      BY <1>2, <1>4
    <3> HIDE DEF N
    <3> QED
      BY <3>1
  <2>4. /\ u.frames = SubSeq(vt.frames, 1, n)
        /\ u.rescues = Cut(vt.rescues, b)
        /\ u.settop \in {NoTop, vt.settop} /\ u.top = RestoredSize(vt)
        /\ u.floor = IF N <= 2 THEN 0 ELSE vt.frames[n].floor
    BY <1>2, <2>2, <2>3, PopLeaves
  <2> HIDE DEF u
  <2>5. b \in 0 .. Len(vt.rescues) /\ vt.frames[n].base <= b
    BY <2>2, <2>3 DEF Nested, Bases
  <2>6. Len(u.frames) = n /\ \A i \in 1 .. n : u.frames[i] = vt.frames[i]
    <3>1. n \in 0 .. Len(vt.frames)
      BY <2>3
    <3> HIDE DEF n
    <3> QED
      BY <2>2, <2>4, <3>1, FrontIsSeq
  <2>7. Len(u.rescues) = b /\ \A i \in 1 .. b : u.rescues[i] = vt.rescues[i]
    BY <2>2, <2>4, <2>5, CutIsFront
  <2>8. Nested(u.frames, u.rescues)
    <3> DEFINE f == u.frames
               q == u.rescues
    <3>1. /\ n \in 1 .. Len(vt.frames) /\ b \in 0 .. Len(vt.rescues) /\ vt.frames[n].base <= b
          /\ (n < Len(vt.frames) => b <= vt.frames[n + 1].base)
      BY <2>2, <2>3, <2>5
    <3>2. /\ IsSeq(f) /\ IsSeq(q)
      BY <2>2, <2>3, <2>4, <2>5, FrontIsSeq, CutIsFront
    <3>3. /\ Len(f) = n /\ \A i \in 1 .. n : f[i] = vt.frames[i]
          /\ Len(q) = b /\ \A i \in 1 .. b : q[i] = vt.rescues[i]
      BY <2>6, <2>7
    <3> HIDE DEF f, q, n, b, N
    <3>4. Nested(f, q)
      BY <2>2, <3>1, <3>2, <3>3, NestedBelow
    <3> QED
      BY <3>4 DEF f, q
  <2>9. Stacked(image, u)
    <3>1. \A i \in 1 .. Len(u.frames) : AlikeFrame(u.frames[i], vt.frames[i])
      <4>1. \A i \in 1 .. n : i \in 1 .. N
        BY <2>2
      <4> QED
        BY <1>2, <2>6, <4>1, FramesAlike DEF Stacked
    <3>2. \A i \in 1 .. Len(u.rescues) : AlikeRescue(u.rescues[i], vt.rescues[i])
      <4>1. \A i \in 1 .. b : i \in 1 .. Len(vt.rescues)
        BY <2>2, <2>5
      <4> QED
        BY <1>2, <2>7, <4>1, RescuesAlike DEF Stacked
    <3>3. Len(u.frames) \in 0 .. N /\ Len(u.rescues) \in 0 .. Len(vt.rescues)
      BY <2>3, <2>5, <2>6, <2>7
    <3> QED
      BY <1>2, <2>2, <2>8, <3>1, <3>2, <3>3, LayersBelow, AimsBelow DEF Stacked, Nested
  <2>10. /\ (IF n <= 1 THEN 0 ELSE vt.frames[n].floor) = vt.frames[n].floor
         /\ (IF vt.frames[n + 1].restore < vt.frames[n].space
             THEN vt.frames[n].space ELSE vt.frames[n + 1].restore) = Size(vt.frames, n)
    <3>1. vt.frames[n].func \in DOMAIN image
      BY <2>2, <2>3 DEF Nested, Linked
    <3> HIDE DEF n
    <3> QED
      BY <1>2, <2>2, <2>3, <3>1, LevelAgain, RoomHere DEF Stacked
  <2>11. n \in 1 .. n
    BY <2>3
  <2>12. u.frames[n] = vt.frames[n] /\ Size(u.frames, n) = Size(vt.frames, n)
    BY <2>6, <2>11 DEF Size
  <2>13. Level(u)
    <3>1. u.settop = NoTop
      BY <1>2, <2>4 DEF Level
    <3>2. u.top = Size(vt.frames, n)
      <4>1. RestoredSize(vt) = IF vt.frames[n + 1].restore < vt.frames[n].space
                               THEN vt.frames[n].space ELSE vt.frames[n + 1].restore
        BY <2>3 DEF RestoredSize
      <4> QED
        BY <2>4, <2>10, <4>1
    <3>3. u.floor = vt.frames[n].floor
      BY <2>3, <2>4, <2>10
    <3> HIDE DEF n
    <3> QED
      BY <2>6, <2>12, <3>1, <3>2, <3>3 DEF Level
  <2>14. top.retpc \in Int /\ At(image, u.frames, Len(u.frames), top.retpc)
    <3>1. N # 1 => top.retpc \in Int /\ At(image, vt.frames, N - 1, top.retpc)
      BY <1>2, <2>3 DEF Stacked, Layered
    <3>2. At(image, vt.frames, n, top.retpc) <=> At(image, u.frames, n, top.retpc)
      BY <2>12 DEF At
    <3> QED
      BY <2>3, <2>6, <3>1, <3>2
  <2>15. Stands(image, u, top.retpc)
    BY <2>13, <2>14 DEF Stands
  <2> HIDE DEF top
  <2> QED
    BY <1>2, <2>1, <2>9, <2>15, StandsOn
<1> QED
    BY <1>3, <1>4

-----------------------------------------------------------------------------
(* Calls *)

\* At a call the size to give back is that of the running function's part of the stack: a
\* CALLSETTOP has put it aside, or the function runs at floor 0.
LEMMA RoomAtCall ==
  ASSUME StackIsPrepared, IInv, StackInv, Running("call"), ~resume.needs
  PROVE  /\ Stacked(image, vt) /\ pc \in Int /\ At(image, vt.frames, Len(vt.frames), pc + 1)
         /\ vt.floor = vt.frames[Len(vt.frames)].floor
         /\ ReverseTo(vt) = Size(vt.frames, Len(vt.frames)) /\ ReverseTo(vt) \in Nat
         /\ vt.top - Inst.args \in Nat
<1> DEFINE N == Len(vt.frames)
<1>1. phase = "run" /\ Inst.op = "call" /\ pc + 1 \in DOMAIN Code(fn) /\ Inst = Code(fn)[pc + 1]
    BY DEF Running, InCode, Inst
<1>2. Sound(vt, fn, nest)
    BY <1>1 DEF IInv
<1>3. /\ nest = N /\ N \in Nat /\ N \in 1 .. N /\ fn = vt.frames[N].func /\ fn \in DOMAIN image
    BY <1>2 DEF Sound, Nested, IsSeq, Linked
<1>4. Stacked(image, vt) /\ pc \in Int /\ (Stands(image, vt, pc) \/ Raised(vt, Code(fn), pc))
    BY <1>1 DEF StackInv
<1> DEFINE F == vt.frames[N].floor
           S == vt.frames[N].space
<1>5. /\ F \in Nat /\ S = image[fn].space /\ (N = 1 => F = 0) /\ (N # 1 => fn \in Called(image))
      /\ RoomIsThere(image, fn)
    BY <1>3, <1>4, RoomHere DEF Stacked, Layered
<1>6. /\ S \in Nat /\ Inst.args \in 0 .. S
    BY <1>1, <1>5 DEF RoomIsThere, Code
<1>7. Size(vt.frames, N) = F + S
    BY DEF Size
<1>8. At(image, vt.frames, N, pc + 1)
    BY <1>1, <1>3 DEF At, Settled, Code
<1>9. CASE Raised(vt, Code(fn), pc)
  <2>1. /\ vt.settop = F + S /\ vt.floor = F /\ pc \in DOMAIN Code(fn)
        /\ Code(fn)[pc].op = "callsettop" /\ vt.top = F + Code(fn)[pc].top
    BY <1>7, <1>9 DEF Raised, Settled
  <2>2. Code(fn)[pc].top \in Nat /\ Inst.args <= Code(fn)[pc].top
    BY <1>1, <1>5, <2>1 DEF RoomIsThere, Code
  <2>3. vt.settop >= 0 /\ F + S \in Nat
    BY <1>5, <1>6, <2>1
  <2>4. ReverseTo(vt) = F + S
    BY <2>1, <2>3 DEF ReverseTo
  <2> DEFINE T == Code(fn)[pc].top
             A == Inst.args
  <2>5. T \in Nat /\ A \in Nat /\ A <= T /\ vt.top = F + T /\ F \in Nat
    BY <1>5, <1>6, <2>1, <2>2
  <2> HIDE DEF T, A, F, S
  <2>6. vt.top - A \in Nat
    BY <2>5
  <2> QED
    BY <1>4, <1>7, <1>8, <2>1, <2>3, <2>4, <2>6 DEF F, A
<1>10. CASE Stands(image, vt, pc)
  <2>1. vt.settop = NoTop /\ vt.floor = F /\ vt.top = F + S
        /\ At(image, vt.frames, N, pc)
    BY <1>7, <1>10 DEF Stands, Level
  <2>2. N = 1
    <3> SUFFICES ASSUME N # 1 PROVE FALSE
      OBVIOUS
    <3>1. CallsAreSet(image, fn)
      BY <1>5, RoomHere
    <3>2. PICK i : i = pc + 1
      OBVIOUS
    <3>3. i \in DOMAIN Code(fn) /\ Code(fn)[i].op = "call" /\ i - 1 = pc
      BY <1>1, <1>4, <3>2
    <3>4. ~Settled(Code(fn), i - 1)
      BY <3>1, <3>3 DEF CallsAreSet, Code
    <3> QED
      BY <1>3, <2>1, <3>3, <3>4 DEF At, Code
  <2>3. F = 0 /\ vt.top = S /\ vt.floor = 0
    BY <1>5, <1>6, <2>1, <2>2
  <2>4. ReverseTo(vt) = S /\ F + S = S /\ S \in Nat /\ vt.top - Inst.args \in Nat
    BY <1>6, <2>1, <2>3 DEF ReverseTo, NoTop
  <2> QED
    BY <1>4, <1>7, <1>8, <2>1, <2>4
<1> QED
    BY <1>4, <1>9, <1>10

LEMMA CallFuncStands == ASSUME StackIsPrepared, IInv, StackInv, CallFunc PROVE StackInv'
<1>1. phase = "run" /\ Running("call") /\ Inst.f \in DOMAIN image /\ resume' = resume
    BY DEF CallFunc, Running
<1>2. ~Working(Inst.f)
    BY <1>1, MachineAssumption DEF IInv, Working
<1>3. Sound(vt, fn, nest) /\ resume.needs = FALSE /\ fn \in DOMAIN image
    BY <1>1, <1>2, NothingLeft
<1>4. /\ Stacked(image, vt) /\ pc \in Int /\ At(image, vt.frames, Len(vt.frames), pc + 1)
      /\ ReverseTo(vt) = Size(vt.frames, Len(vt.frames)) /\ ReverseTo(vt) \in Nat
      /\ vt.top - Inst.args \in Nat
    BY <1>1, <1>3, RoomAtCall
<1> DEFINE N == Len(vt.frames)
           v == [vt EXCEPT !.settop = ReverseTo(vt)]
           fl == vt.top - Inst.args
           e == [func |-> Inst.f, floor |-> fl, base |-> Len(v.rescues),
                 space |-> Space(Inst.f), objs |-> {}, restore |-> CallerSize(v),
                 retfn |-> fn, retpc |-> pc + 1]
           g == Append(v.frames, e)
           u == PushFuncFrame(v, Inst.f, fl, fn, pc + 1)
<1>5. v = [[frames |-> vt.frames, rescues |-> vt.rescues, top |-> vt.top, floor |-> vt.floor,
            settop |-> vt.settop, work |-> vt.work] EXCEPT !.settop = ReverseTo(vt)]
    BY <1>3, Zenon DEF Sound, IsThread
<1>6. GoOn(u, Inst.f, 0, nest + 1)
    BY Zenon DEF CallFunc
<1> HIDE DEF v
<1>7. /\ IsThread(v) /\ v.frames = vt.frames /\ v.rescues = vt.rescues
      /\ v.settop = ReverseTo(vt)
    BY <1>5 DEF IsThread
<1>8. CallerSize(v) = Size(vt.frames, N)
    BY <1>4, <1>7 DEF CallerSize
<1>9. u = [[frames |-> v.frames, rescues |-> v.rescues, top |-> v.top, floor |-> v.floor,
            settop |-> v.settop, work |-> v.work]
           EXCEPT !.frames = g, !.top = fl + Space(Inst.f), !.floor = fl, !.settop = NoTop]
    BY <1>7, Zenon DEF PushFuncFrame, IsThread
<1>10. /\ {"floor", "space", "restore", "retpc"} \subseteq DOMAIN e /\ e.func = Inst.f
       /\ e.floor = fl /\ e.space = Space(Inst.f) /\ e.restore = Size(vt.frames, N)
       /\ e.retpc = pc + 1
    BY <1>8
<1>11. fl \in Nat
    BY <1>4
<1>12. Inst.f \in Called(image)
  <2>1. Inst.op = "call" /\ pc + 1 \in DOMAIN image[fn].code /\ Inst = image[fn].code[pc + 1]
    BY <1>1 DEF Running, InCode, Inst, Code
  <2> QED
    BY <1>1, <1>3, <2>1 DEF Called
<1> HIDE DEF e, u, fl
<1>13. IsSeq(vt.frames) /\ N \in Nat /\ N > 0 /\ Len(vt.rescues) \in Nat
       /\ Owned(vt.frames, vt.rescues)
    BY <1>3 DEF Sound, Nested, IsSeq
<1>14. Len(g) = N + 1 /\ g[N + 1] = e /\ \A i \in 1 .. N : g[i] = vt.frames[i]
    BY <1>7, <1>13, AppendIsSeq
<1> HIDE DEF g
<1>15. u.frames = g /\ u.rescues = vt.rescues /\ u.top = fl + Space(Inst.f) /\ u.floor = fl
       /\ u.settop = NoTop
    BY <1>7, <1>9
<1> HIDE DEF N
<1>16. Layered(image, g)
  <2> SUFFICES ASSUME NEW i \in 1 .. N + 1
               PROVE  /\ {"floor", "space", "restore", "retpc"} \subseteq DOMAIN g[i]
                      /\ g[i].floor \in Nat /\ g[i].space = image[g[i].func].space
                      /\ i = 1 => g[i].floor = 0
                      /\ i # 1 => /\ g[i].func \in Called(image)
                                  /\ g[i].restore = Size(g, i - 1)
                                  /\ g[i].retpc \in Int /\ At(image, g, i - 1, g[i].retpc)
    BY <1>14 DEF Layered
  <2>1. CASE i \in 1 .. N
    <3>1. g[i] = vt.frames[i] /\ (i # 1 => i - 1 \in 1 .. N /\ g[i - 1] = vt.frames[i - 1])
      BY <1>13, <1>14, <2>1
    <3>2. /\ {"floor", "space", "restore", "retpc"} \subseteq DOMAIN vt.frames[i]
          /\ vt.frames[i].floor \in Nat
          /\ vt.frames[i].space = image[vt.frames[i].func].space
          /\ i = 1 => vt.frames[i].floor = 0
          /\ i # 1 => /\ vt.frames[i].func \in Called(image)
                      /\ vt.frames[i].restore = Size(vt.frames, i - 1)
                      /\ vt.frames[i].retpc \in Int
                      /\ At(image, vt.frames, i - 1, vt.frames[i].retpc)
      BY <1>4, <2>1 DEF Stacked, Layered, N
    <3> QED
      BY <3>1, <3>2 DEF Size, At
  <2>2. CASE i = N + 1
    <3>1. i - 1 = N /\ i # 1 /\ N \in 1 .. N
      BY <1>13, <2>2
    <3>2. g[i] = e /\ g[i - 1] = vt.frames[N]
      BY <1>14, <2>2, <3>1
    <3>3. At(image, vt.frames, N, pc + 1) /\ pc + 1 \in Int
      BY <1>4 DEF N
    <3> QED
      BY <1>10, <1>11, <1>12, <3>1, <3>2, <3>3 DEF Size, At, Space
  <2> QED
    BY <1>13, <2>1, <2>2
<1>17. Aimed(image, g, vt.rescues)
  <2> SUFFICES ASSUME NEW k \in 1 .. Len(vt.rescues)
               PROVE  /\ {"frame", "rescue", "finally"} \subseteq DOMAIN vt.rescues[k]
                      /\ Aim(image, g, vt.rescues[k].frame, vt.rescues[k].rescue)
                      /\ Aim(image, g, vt.rescues[k].frame, vt.rescues[k].finally)
    BY DEF Aimed
  <2>1. /\ {"frame", "rescue", "finally"} \subseteq DOMAIN vt.rescues[k]
        /\ Aim(image, vt.frames, vt.rescues[k].frame, vt.rescues[k].rescue)
        /\ Aim(image, vt.frames, vt.rescues[k].frame, vt.rescues[k].finally)
    BY <1>4 DEF Stacked, Aimed
  <2>2. vt.rescues[k].frame \in 1 .. N
    BY <1>13 DEF Owned, N
  <2>3. g[vt.rescues[k].frame] = vt.frames[vt.rescues[k].frame]
    BY <1>14, <2>2
  <2> QED
    BY <2>1, <2>3 DEF Aim
<1>18. Stacked(image, u)
    BY <1>15, <1>16, <1>17 DEF Stacked
<1>19. Stands(image, u, 0)
  <2>1. Level(u)
    BY <1>10, <1>14, <1>15 DEF Level, Size
  <2>2. Settled(image[Inst.f].code, 0)
    <3>1. DOMAIN image[Inst.f].code \subseteq Nat \ {0}
      BY <1>1, RoomHere DEF RoomIsThere
    <3> QED
      BY <3>1 DEF Settled
  <2>3. At(image, u.frames, Len(u.frames), 0)
    BY <1>10, <1>14, <1>15, <2>2 DEF At
  <2> QED
    BY <2>1, <2>3 DEF Stands
<1> QED
    BY <1>1, <1>3, <1>6, <1>18, <1>19, StandsOn

\* What a call takes up, for the first time or again.
LEMMA SettingFits ==
  ASSUME StackIsPrepared, IInv, StackInv, Running("call")
  PROVE  LET c == Setting(vt, Inst)
         IN  /\ Stacked(image, vt) /\ pc \in Int /\ At(image, vt.frames, Len(vt.frames), pc + 1)
             /\ c.floor = vt.frames[Len(vt.frames)].floor
             /\ c.reverse = Size(vt.frames, Len(vt.frames))
<1>1. phase = "run" /\ Inst.op = "call" /\ pc + 1 \in DOMAIN Code(fn) /\ Inst = Code(fn)[pc + 1]
    BY DEF Running, InCode, Inst
<1>2. Sound(vt, fn, nest) /\ WorkInv
    BY <1>1 DEF IInv
<1>3. CASE resume.needs
  <2>1. Stacked(image, vt) /\ Kept(vt, resume) /\ pc = resume.pc
    BY <1>1, <1>2, <1>3 DEF StackInv, WorkInv
  <2>2. At(image, vt.frames, Len(vt.frames), pc + 1)
    BY <1>1, <1>2 DEF At, Settled, Code, Sound
  <2>3. Setting(vt, Inst).floor = resume.floor /\ Setting(vt, Inst).reverse = resume.reverse
    BY <1>3 DEF Setting
  <2> QED
    BY <2>1, <2>2, <2>3 DEF Kept
<1>4. CASE ~resume.needs
  <2>1. Setting(vt, Inst).floor = vt.floor /\ Setting(vt, Inst).reverse = ReverseTo(vt)
    BY <1>4 DEF Setting
  <2> QED
    BY <1>4, <2>1, RoomAtCall
<1> QED
    BY <1>3, <1>4

LEMMA AfterCallLevel ==
  ASSUME NEW t, NEW f, NEW d, Sound(t, f, d), Stacked(image, t), NEW c,
         c.floor = t.frames[Len(t.frames)].floor, c.reverse = Size(t.frames, Len(t.frames))
  PROVE  /\ Stacked(image, AfterCall(t, c)) /\ Level(AfterCall(t, c))
         /\ AfterCall(t, c).frames = t.frames
<1> DEFINE u == AfterCall(t, c)
<1>1. u = [[frames |-> t.frames, rescues |-> t.rescues, top |-> t.top, floor |-> t.floor,
            settop |-> t.settop, work |-> t.work]
           EXCEPT !.floor = c.floor, !.top = c.reverse, !.settop = NoTop, !.work = NoWork]
    BY Zenon DEF Sound, IsThread, AfterCall
<1> HIDE DEF u
<1>2. /\ u.frames = t.frames /\ u.rescues = t.rescues /\ u.floor = c.floor
      /\ u.top = c.reverse /\ u.settop = NoTop
    BY <1>1
<1>3. Stacked(image, u) /\ Level(u)
    BY <1>2 DEF Stacked, Level
<1> QED
    BY <1>2, <1>3 DEF u

\* The call is over: the next instruction, or the error the C function returned.
LEMMA AfterCallStands ==
  ASSUME StackIsPrepared, IInv, StackInv, Running("call")
  PROVE  LET t == AfterCall(vt, Setting(vt, Inst))
         IN  /\ Sound(t, fn, nest) /\ Stacked(image, t) /\ Level(t) /\ Stands(image, t, pc + 1)
             /\ At(image, t.frames, Len(t.frames), pc + 1)
             /\ LET e == Raise(t, FailClass, nest)
                IN  e.uncaught = NoError => Stacked(image, e.vt) /\ Stands(image, e.vt, e.pc)
<1>1. Sound(vt, fn, nest)
    BY DEF Running, IInv
<1> DEFINE c == Setting(vt, Inst)
           t == AfterCall(vt, c)
<1>2. /\ Stacked(image, vt) /\ pc \in Int /\ At(image, vt.frames, Len(vt.frames), pc + 1)
      /\ c.floor = vt.frames[Len(vt.frames)].floor
      /\ c.reverse = Size(vt.frames, Len(vt.frames))
    BY SettingFits
<1> HIDE DEF c
<1>3. Stacked(image, t) /\ Level(t) /\ t.frames = vt.frames
    BY <1>1, <1>2, AfterCallLevel
<1>4. Sound(t, fn, nest)
    BY <1>1, AfterCallSound
<1> HIDE DEF t
<1>5. At(image, t.frames, Len(t.frames), pc + 1)
    BY <1>2, <1>3
<1>6. Stands(image, t, pc + 1)
    BY <1>2, <1>3, <1>5 DEF Stands
<1> DEFINE e == Raise(t, FailClass, nest)
<1>7. e.uncaught = NoError => Stacked(image, e.vt) /\ Stands(image, e.vt, e.pc)
  <2>1. FailClass # NoError
    BY MachineAssumption
  <2> HIDE DEF e
  <2> QED
    BY <1>3, <1>4, <2>1, RaisedStands, RoomHere DEF e
<1> HIDE DEF e
<1> QED
    BY <1>3, <1>4, <1>5, <1>6, <1>7 DEF t, c, e

LEMMA CallCStands == ASSUME StackIsPrepared, IInv, StackInv, CallC PROVE StackInv'
<1>1. /\ phase = "run" /\ Running("call") /\ Inst.f \in DOMAIN CFunction
      /\ CFunction[Inst.f] \in {"ok", "open", "fail"} /\ resume' = resume
    BY DEF CallC, Calling, Running
<1>2. ~Working(Inst.f)
    BY <1>1 DEF Working
<1>3. resume'.needs = FALSE
    BY <1>1, <1>2, NothingLeft
<1> DEFINE t == AfterCall(vt, Setting(vt, Inst))
           e == Raise(t, FailClass, nest)
<1>4. /\ Sound(t, fn, nest) /\ Stacked(image, t) /\ Level(t) /\ Stands(image, t, pc + 1)
      /\ At(image, t.frames, Len(t.frames), pc + 1)
      /\ e.uncaught = NoError => Stacked(image, e.vt) /\ Stands(image, e.vt, e.pc)
    BY <1>1, AfterCallStands
<1>5. CASE CFunction[Inst.f] = "ok"
  <2>1. GoOn(t, fn, pc + 1, nest)
    BY <1>5 DEF CallC, StepTo
  <2> HIDE DEF t
  <2> QED
    BY <1>1, <1>3, <1>4, <2>1, StandsOn
<1>6. CASE CFunction[Inst.f] = "open"
  <2>1. GoOn([t EXCEPT !.frames[Len(t.frames)].objs = @ \cup {Inst.returnto}], fn, pc + 1, nest)
    BY <1>6 DEF CallC, StepTo
  <2> DEFINE x == t.frames[Len(t.frames)].objs \cup {Inst.returnto}
             u == [t EXCEPT !.frames = [t.frames EXCEPT ![Len(t.frames)].objs = x]]
  <2> HIDE DEF t
  <2>2. GoOn(u, fn, pc + 1, nest)
    BY <2>1
  <2>3. Stacked(image, u) /\ Level(u) /\ At(image, u.frames, Len(u.frames), pc + 1)
    <3> HIDE DEF x
    <3> QED
      BY <1>4, ObjectsStand
  <2> HIDE DEF u
  <2>4. Stands(image, u, pc + 1)
    BY <1>4, <2>3 DEF Stands
  <2> QED
    BY <1>1, <1>3, <2>2, <2>3, <2>4, StandsOn
<1>7. CASE CFunction[Inst.f] = "fail"
  <2>1. Follow(e)
    BY <1>7 DEF CallC
  <2> HIDE DEF e
  <2> QED
    BY <1>1, <1>3, <1>4, <2>1, FollowStands
<1> QED
    BY <1>1, <1>5, <1>6, <1>7

LEMMA CallSleepStands == ASSUME StackIsPrepared, IInv, StackInv, CallSleep PROVE StackInv'
<1>1. Running("call") /\ phase' = "suspended" /\ image' = image
    BY DEF CallSleep, Calling, Suspend
<1> DEFINE t == AfterCall(vt, Setting(vt, Inst))
<1>2. vt' = t
    BY DEF CallSleep
<1>3. resume'.pc = pc + 1 /\ resume'.needs = FALSE
    BY DEF CallSleep, Suspend
<1>4. Stacked(image, t) /\ Stands(image, t, pc + 1)
    BY <1>1, AfterCallStands
<1> HIDE DEF t
<1>5. Stacked(image, vt)'
    BY <1>1, <1>2, <1>4 DEF Stacked, Layered, Aimed, Aim, At, Size
<1>6. Stands(image, vt, resume.pc)'
    BY <1>1, <1>2, <1>3, <1>4 DEF Stands, At, Level, Size
<1> QED
    BY <1>1, <1>3, <1>5, <1>6 DEF StackInv

LEMMA CallUnfinishedStands ==
  ASSUME StackIsPrepared, IInv, StackInv, CallUnfinished PROVE StackInv'
<1>1. Running("call") /\ phase' = "suspended" /\ image' = image
    BY DEF CallUnfinished, Calling, Suspend
<1>2. Sound(vt, fn, nest)
    BY <1>1 DEF Running, IInv
<1> DEFINE c == Setting(vt, Inst)
<1>3. vt' = [[frames |-> vt.frames, rescues |-> vt.rescues, top |-> vt.top, floor |-> vt.floor,
              settop |-> vt.settop, work |-> vt.work]
             EXCEPT !.floor = c.newfloor, !.settop = c.reverse, !.work = Inst.f]
    BY <1>2, Zenon DEF CallUnfinished, Sound, IsThread
<1>4. /\ resume'.pc = pc /\ resume'.needs = TRUE
      /\ resume'.floor = c.floor /\ resume'.reverse = c.reverse
    BY DEF CallUnfinished, Suspend
<1>5. /\ Stacked(image, vt) /\ pc \in Int
      /\ c.floor = vt.frames[Len(vt.frames)].floor
      /\ c.reverse = Size(vt.frames, Len(vt.frames))
    BY <1>1, SettingFits
<1> HIDE DEF c
<1>6. vt'.frames = vt.frames /\ vt'.rescues = vt.rescues /\ vt'.settop = c.reverse
    BY <1>3
<1>7. Stacked(image, vt)'
    BY <1>1, <1>5, <1>6 DEF Stacked, Layered, Aimed, Aim, At, Size
<1>8. Kept(vt, resume)'
    BY <1>4, <1>5, <1>6 DEF Kept, Size
<1> QED
    BY <1>1, <1>4, <1>7, <1>8 DEF StackInv

LEMMA CallFinishedStands ==
  ASSUME StackIsPrepared, IInv, StackInv, CallFinished PROVE StackInv'
<1>1. /\ phase = "run" /\ Running("call") /\ CFunction[Inst.f] \in {"work", "workfail"}
      /\ "needs" \in DOMAIN resume /\ resume' = [resume EXCEPT !.needs = FALSE]
    BY DEF CallFinished, Calling, Running, IInv, WorkInv
<1>2. resume'.needs = FALSE
    BY <1>1
<1> DEFINE t == AfterCall(vt, Setting(vt, Inst))
           e == Raise(t, FailClass, nest)
<1>3. /\ Stacked(image, t) /\ Stands(image, t, pc + 1)
      /\ e.uncaught = NoError => Stacked(image, e.vt) /\ Stands(image, e.vt, e.pc)
    BY <1>1, AfterCallStands
<1>4. CASE CFunction[Inst.f] = "work"
  <2>1. GoOn(t, fn, pc + 1, nest)
    BY <1>4 DEF CallFinished, StepTo
  <2> HIDE DEF t
  <2> QED
    BY <1>1, <1>2, <1>3, <2>1, StandsOn
<1>5. CASE CFunction[Inst.f] = "workfail"
  <2>1. Follow(e)
    BY <1>5 DEF CallFinished
  <2> HIDE DEF e
  <2> QED
    BY <1>1, <1>2, <1>3, <2>1, FollowStands
<1> QED
    BY <1>1, <1>4, <1>5

LEMMA StackStays ==
  ASSUME IInv, StackInv, ResumeThread \/ Lose \/ Finished \/ UNCHANGED vars PROVE StackInv'
<1>1. CASE ResumeThread
  <2>1. /\ phase = "suspended" /\ phase' = "run" /\ fn' = resume.fn /\ pc' = resume.pc
        /\ UNCHANGED <<image, vt, resume>>
    BY <1>1 DEF ResumeThread
  <2>2. Stacked(image, vt)'
    BY <2>1 DEF StackInv, Stacked, Layered, Aimed, Aim, At, Size
  <2>3. resume.needs => Kept(vt, resume)'
    BY <2>1 DEF StackInv, Kept, Size
  <2>4. ~resume.needs => Stands(image, vt, pc)' /\ pc' \in Int
    BY <2>1 DEF StackInv, Stands, At, Level, Size
  <2> QED
    BY <2>1, <2>2, <2>3, <2>4 DEF StackInv
<1>2. CASE Lose
    BY <1>2 DEF Lose, StackInv
<1>3. CASE UNCHANGED vars
  <2>1. UNCHANGED <<image, vt, fn, phase, pc, resume>>
    BY <1>3 DEF vars
  <2>2. Stacked(image, vt) => Stacked(image, vt)'
    BY <2>1 DEF Stacked, Layered, Aimed, Aim, At, Size
  <2>3. Kept(vt, resume) => Kept(vt, resume)'
    BY <2>1 DEF Kept, Size
  <2>4. /\ Stands(image, vt, pc) => Stands(image, vt, pc)'
        /\ Stands(image, vt, resume.pc) => Stands(image, vt, resume.pc)'
        /\ Raised(vt, Code(fn), pc) => Raised(vt, Code(fn), pc)'
    BY <2>1 DEF Stands, Raised, At, Level, Size, Code
  <2> QED
    BY <2>1, <2>2, <2>3, <2>4 DEF StackInv
<1> QED
    BY <1>1, <1>2, <1>3 DEF Finished

LEMMA StartsStanding == ASSUME StackIsPrepared, Init PROVE StackInv
<1> DEFINE t == [frames |-> <<>>, rescues |-> <<>>, top |-> 0, floor |-> 0,
                 settop |-> NoTop, work |-> NoWork]
           e == [func |-> Main, floor |-> 0, base |-> Len(t.rescues), space |-> Space(Main),
                 objs |-> {}, restore |-> CallerSize(t), retfn |-> Main, retpc |-> 0]
           g == Append(t.frames, e)
<1>1. /\ image = Image[prog] /\ prog \in DOMAIN Image /\ phase = "run" /\ fn = Main /\ pc = 0
      /\ resume.needs = FALSE /\ Main \in DOMAIN image
    BY MachineAssumption DEF Init
<1>2. image[Main].space \in Nat /\ DOMAIN image[Main].code \subseteq Nat \ {0}
    BY <1>1 DEF StackIsPrepared, RoomIsThere
<1>3. vt = [t EXCEPT !.frames = g, !.top = 0 + Space(Main), !.floor = 0, !.settop = NoTop]
    BY Zenon DEF Init, PushFuncFrame
<1>4. /\ {"floor", "space", "restore", "retpc"} \subseteq DOMAIN e
      /\ e.func = Main /\ e.floor = 0 /\ e.space = image[Main].space
    BY DEF Space
<1> HIDE DEF e
<1>5. g = <<e>>
  <2>1. t.frames = <<>> /\ Append(<<>>, e) = <<e>>
    OBVIOUS
  <2> QED
    BY <2>1, Zenon
<1>6. Len(g) = 1 /\ g[1] = e
    BY <1>5
<1> HIDE DEF g
<1>7. /\ vt.frames = g /\ vt.rescues = <<>> /\ vt.top = 0 + Space(Main) /\ vt.floor = 0
      /\ vt.settop = NoTop
    BY <1>3
<1>8. Stacked(image, vt)
  <2>1. Len(vt.rescues) = 0
    BY <1>7, EmptySeq
  <2>2. Aimed(image, vt.frames, vt.rescues)
    BY <2>1 DEF Aimed
  <2>3. \A i \in 1 .. Len(vt.frames) : i = 1 /\ vt.frames[i] = e
    <3> HIDE DEF t
    <3>1. Len(vt.frames) = 1 /\ vt.frames[1] = e
      BY <1>6, <1>7, Zenon
    <3>2. \A i \in 1 .. Len(vt.frames) : i = 1
      BY <3>1
    <3> QED
      BY <3>1, <3>2, Zenon
  <2>4. Layered(image, vt.frames)
    <3>1. /\ {"floor", "space", "restore", "retpc"} \subseteq DOMAIN e
          /\ e.floor \in Nat /\ e.space = image[e.func].space /\ e.floor = 0
      BY <1>4
    <3> HIDE DEF t
    <3>2. \A i \in 1 .. Len(vt.frames) :
            /\ {"floor", "space", "restore", "retpc"} \subseteq DOMAIN vt.frames[i]
            /\ vt.frames[i].floor \in Nat /\ vt.frames[i].space = image[vt.frames[i].func].space
            /\ vt.frames[i].floor = 0
      BY <2>3, <3>1, Zenon
    <3> QED
      BY <2>3, <3>2 DEF Layered
  <2> QED
    BY <2>2, <2>4 DEF Stacked
<1>9. Stands(image, vt, pc)
  <2>1. Level(vt)
    BY <1>2, <1>4, <1>6, <1>7 DEF Level, Size, Space
  <2> QED
    BY <1>1, <1>6, <1>7, <2>1 DEF Stands, At
<1> QED
    BY <1>1, <1>8, <1>9 DEF StackInv, Stands

LEMMA StepStands == ASSUME StackIsPrepared, IInv, StackInv, [Next]_vars PROVE StackInv'
BY SkipStands, JumpStands, PushRescueStands, PopRescueStands, ProceedStands, RaiseStands,
   CallFuncStands, CallCStands, CallSleepStands, CallUnfinishedStands, CallFinishedStands,
   ReturnStands, StackStays DEF Next

-----------------------------------------------------------------------------
(* Theorems *)

\* For every program: the rescue frames are stacked as the function frames are, and an
\* error is sent to the function frame its rescue frame was pushed in (vmexec.c
\* pushrescueframe, popfuncframe, vmthread_errors_Raise).
THEOREM RescuesBelongToTheirFrames == Spec => []RescueFramesNest
<1>1. IInv => RescueFramesNest
  <2>1. CASE phase = "done" /\ IInv
    <3>1. Len(vt.frames) = 0
      BY <2>1, EmptySeq DEF IInv
    <3> QED
      BY <3>1 DEF RescueFramesNest
  <2>2. CASE phase # "done" /\ IInv
    <3> DEFINE N == Len(vt.frames)
               K == Len(vt.rescues)
               Next1(i) == IF i = N THEN K ELSE vt.frames[i + 1].base
    <3>1. N \in Nat /\ K \in Nat /\ Nested(vt.frames, vt.rescues)
      BY <2>2 DEF IInv, Sound, Nested, IsSeq
    <3>2. /\ \A i \in 1 .. N : vt.frames[i].base \in 0 .. K
          /\ \A i, j \in 1 .. N : i <= j => vt.frames[i].base <= vt.frames[j].base
          /\ vt.frames[1].base = 0
      BY <3>1 DEF Nested, Bases
    <3>3. ASSUME NEW i \in 1 .. N
          PROVE  /\ vt.frames[i].base \in Nat /\ Next1(i) \in 0 .. K
                 /\ vt.frames[i].base <= Next1(i)
      <4>1. i # N => i + 1 \in 1 .. N /\ i <= i + 1
        BY <3>1
      <4> QED
        BY <3>1, <3>2, <4>1
    <3>4. ASSUME NEW i \in 1 .. N, NEW k \in (vt.frames[i].base + 1) .. Next1(i)
          PROVE  vt.rescues[k].frame = i
      <4> DEFINE j == vt.rescues[k].frame
      <4>1. k \in 1 .. K /\ k > vt.frames[i].base /\ k <= Next1(i)
        <5> HIDE DEF Next1
        <5> QED
          BY <3>1, <3>3
      <4>2. /\ j \in 1 .. N /\ vt.frames[j].base < k
            /\ \A m \in 1 .. N : j < m => k <= vt.frames[m].base
        BY <3>1, <4>1 DEF Nested, Owned
      <4> HIDE DEF j
      <4>3. ~(j < i)
        <5> SUFFICES ASSUME j < i PROVE FALSE
          OBVIOUS
        <5>1. k <= vt.frames[i].base
          BY <4>2
        <5>2. vt.frames[i].base \in Nat /\ k \in Nat
          BY <3>3, <4>1
        <5> QED
          BY <4>1, <5>1, <5>2
      <4>4. ~(i < j)
        <5> SUFFICES ASSUME i < j PROVE FALSE
          OBVIOUS
        <5>1. i # N /\ i + 1 \in 1 .. N /\ i + 1 <= j
          BY <3>1, <4>2
        <5>2. vt.frames[i + 1].base <= vt.frames[j].base /\ k <= vt.frames[i + 1].base
          BY <3>2, <4>1, <4>2, <5>1
        <5>3. vt.frames[i + 1].base \in 0 .. K /\ vt.frames[j].base \in 0 .. K
          BY <3>2, <4>2, <5>1
        <5> QED
          BY <3>1, <4>1, <4>2, <5>2, <5>3
      <4>5. j = i
        BY <4>2, <4>3, <4>4
      <4> QED
        BY <4>5 DEF j
    <3> QED
      BY <3>2, <3>3, <3>4 DEF RescueFramesNest
  <2> QED
    BY <2>1, <2>2
<1> QED
    BY <1>1, AlwaysSound, PTL

\* For every program: the interpreter's own counter is the number of function frames, and
\* the function it runs is the top one's (vmexec.c funcnestdepth, func_id).
THEOREM NestingIsTheFrames == Spec => []FramesMatchNesting
<1>1. IInv => FramesMatchNesting
  <2> SUFFICES ASSUME IInv, phase \in {"run", "suspended"}
               PROVE  nest = Len(vt.frames) /\ nest > 0 /\ fn = Last(vt.frames).func
    BY DEF FramesMatchNesting
  <2>1. Sound(vt, fn, nest)
    BY DEF IInv
  <2> QED
    BY <2>1 DEF Sound, Nested, Last
<1> QED
    BY <1>1, AlwaysSound, PTL

\* For every program: the settings kept for a call are taken up by that call only, and no
\* work outlives it (vmexec.c needs_cfunc_resume, foreground_async_work_funcid).
THEOREM WorkStaysWithItsCall == Spec => []WorkHasItsCall
<1>1. IInv => WorkHasItsCall
    BY DEF IInv, WorkInv, WorkHasItsCall
<1> QED
    BY <1>1, AlwaysSound, PTL
\* For every program in which a CALLSETTOP stands before each call made in a function that is
\* itself called, and nothing leads past it: between calls the stack holds what the running
\* function needs, whatever errors, finally blocks and suspended calls the program has gone
\* through (vmexec.c callsettop, call, popfuncframe, vmthread_errors_Raise).
THEOREM StackIsTheFrames ==
  ASSUME StackIsPrepared
  PROVE  Spec => []StackMatchesFrame
<1>1. Init => IInv /\ StackInv
    BY StartsSound, StartsStanding
<1>2. IInv /\ StackInv /\ [Next]_vars => (IInv /\ StackInv)'
    BY StepKeeps, StepStands
<1>3. IInv /\ StackInv => StackMatchesFrame
  <2> SUFFICES ASSUME IInv, StackInv, phase = "run", vt.settop = NoTop
               PROVE  vt.top = vt.floor + Last(vt.frames).space
    BY DEF StackMatchesFrame
  <2> DEFINE n == Len(vt.frames)
  <2>1. Sound(vt, fn, nest) /\ Stacked(image, vt)
    BY DEF IInv, StackInv
  <2>2. n \in 1 .. n /\ vt.frames[n].func \in DOMAIN image
    BY <2>1 DEF Sound, Nested, IsSeq, Linked
  <2>3. /\ vt.frames[n].floor \in Nat
        /\ vt.frames[n].space = image[vt.frames[n].func].space
    BY <2>1, <2>2 DEF Stacked, Layered
  <2>4. vt.frames[n].space \in Nat
    BY <2>2, <2>3, RoomHere DEF RoomIsThere
  <2>5. vt.settop # Size(vt.frames, n)
    BY <2>3, <2>4 DEF Size, NoTop
  <2>6. Level(vt)
    <3>1. ~resume.needs
      <4>1. resume.needs => vt.settop = Size(vt.frames, Len(vt.frames))
        BY Zenon DEF StackInv, Kept
      <4> QED
        BY <2>5, <4>1
    <3>2. Stands(image, vt, pc) \/ Raised(vt, Code(fn), pc)
      BY <3>1 DEF StackInv
    <3>3. ~Raised(vt, Code(fn), pc)
      BY <2>5 DEF Raised
    <3> QED
      BY <3>2, <3>3 DEF Stands
  <2> QED
    BY <2>6, Zenon DEF Level, Size, Last
<1> QED
    BY <1>1, <1>2, <1>3, PTL DEF Spec
=============================================================================
