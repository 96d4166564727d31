------------------------------- MODULE Lists_proofs -------------------------
(***************************************************************************)
(* Lists.  Their quick sort sorts, and loses no item, for any input,       *)
(* whatever order of the items and whichever pivots it draws.  They never  *)
(* write past the room of a block, loops over them end with the list, and  *)
(* every entry is found where it was put, for any sizes of blocks and any  *)
(* values.                                                                 *)
(***************************************************************************)
EXTENDS ItemSort, ListBlocks, SequenceTheorems, WellFoundedInduction, TLAPS

(* The sort *)

Job == [start : Nat, end : Nat]
RangeOf(job) == job.start .. job.end - 1
Apart(a, b) == a.end <= b.start \/ b.end <= a.start

\* The ranges in the queue lie apart.
JobsSound(jobs, n) ==
  /\ jobs \in Seq(Job)
  /\ \A m \in 1 .. Len(jobs) :
        1 <= jobs[m].start /\ jobs[m].start < jobs[m].end /\ jobs[m].end <= n + 1
  /\ \A m, o \in 1 .. Len(jobs) : m # o => Apart(jobs[m], jobs[o])
InOneJob(jobs, i, j) ==
  \E m \in 1 .. Len(jobs) : i \in RangeOf(jobs[m]) /\ j \in RangeOf(jobs[m])
OrderedBut(data, jobs) ==
  \A i, j \in 1 .. Len(data) :
    i < j /\ Below(data[j], data[i]) => InOneJob(jobs, i, j)

\* What the pass has compared is on the right side of the pivot.
InPass(data, jobs, z, pivot) ==
  /\ jobs # <<>> /\ pivot \in RangeOf(jobs[1]) /\ z \in jobs[1].start .. jobs[1].end
  /\ \A k \in jobs[1].start .. z - 1 :
        /\ k < pivot => ~Below(data[pivot], data[k])
        /\ k > pivot => ~Below(data[k], data[pivot])

\* Every item of the input has a place of its own in the data.
ItemsPlaced(s, data) ==
  /\ Len(data) = Len(s)
  /\ \E place \in [1 .. Len(s) -> 1 .. Len(s)] :
        /\ \A i \in 1 .. Len(s) : data[place[i]] = s[i]
        /\ \A i, j \in 1 .. Len(s) : place[i] = place[j] => i = j

SortSound(s, data, jobs, z, pivot, phase) ==
  /\ s \in Seq(Items) /\ data \in Seq(Items) /\ ItemsPlaced(s, data)
  /\ JobsSound(jobs, Len(data)) /\ OrderedBut(data, jobs)
  /\ phase = "pass" => InPass(data, jobs, z, pivot)
SortState(s, data, jobs, z, pivot, phase) ==
  [input |-> s, data |-> data, jobs |-> jobs, z |-> z, pivot |-> pivot, phase |-> phase]
SortIInv ==
  /\ sort = SortState(sort.input, sort.data, sort.jobs, sort.z, sort.pivot, sort.phase)
  /\ SortSound(sort.input, sort.data, sort.jobs, sort.z, sort.pivot, sort.phase)

-----------------------------------------------------------------------------
(* Ranges *)

LEMMA JobFields ==
  ASSUME NEW n, NEW jobs, JobsSound(jobs, n), NEW m \in 1 .. Len(jobs)
  PROVE  /\ jobs[m] \in Job /\ jobs[m].start \in Nat /\ jobs[m].end \in Nat
         /\ 1 <= jobs[m].start /\ jobs[m].start < jobs[m].end /\ jobs[m].end <= n + 1
<1>1. jobs[m] \in Job
    BY ElementOfSeq DEF JobsSound
<1> QED
    BY <1>1 DEF JobsSound, Job

LEMMA FirstJob ==
  ASSUME NEW n, NEW jobs, JobsSound(jobs, n), jobs # <<>>
  PROVE  1 \in 1 .. Len(jobs) /\ Len(jobs) \in Nat
    BY EmptySeq, LenProperties DEF JobsSound

LEMMA ApartIsDisjoint ==
  ASSUME NEW a, NEW b, a.start \in Nat, a.end \in Nat, b.start \in Nat, b.end \in Nat,
         Apart(a, b), NEW i, i \in RangeOf(a)
  PROVE  i \notin RangeOf(b)
    BY DEF Apart, RangeOf

\* Ranges have no gaps.
LEMMA RangeHasNoGaps ==
  ASSUME NEW job, job.start \in Nat, job.end \in Nat,
         NEW i \in RangeOf(job), NEW m \in RangeOf(job), NEW j \in Int, j \notin RangeOf(job)
  PROVE  (i < j => m < j) /\ (j < i => j < m)
    BY DEF RangeOf

\* The range at the head of the queue is the only one its places are in.
LEMMA OnlyInFirst ==
  ASSUME NEW n, NEW jobs, JobsSound(jobs, n), jobs # <<>>, NEW i, NEW j,
         InOneJob(jobs, i, j), i \in RangeOf(jobs[1])
  PROVE  j \in RangeOf(jobs[1])
<1>1. PICK m \in 1 .. Len(jobs) : i \in RangeOf(jobs[m]) /\ j \in RangeOf(jobs[m])
    BY DEF InOneJob
<1>2. 1 \in 1 .. Len(jobs)
    BY FirstJob
<1>3. CASE m = 1
    BY <1>1, <1>3
<1>4. CASE m # 1
  <2>1. Apart(jobs[m], jobs[1])
    BY <1>1, <1>2, <1>4 DEF JobsSound
  <2>2. /\ jobs[1].start \in Nat /\ jobs[1].end \in Nat
        /\ jobs[m].start \in Nat /\ jobs[m].end \in Nat
    BY <1>1, <1>2, JobFields
  <2> QED
    BY <1>1, <2>1, <2>2, ApartIsDisjoint
<1> QED
    BY <1>3, <1>4

LEMMA WithinIsSymmetric ==
  ASSUME NEW jobs, NEW i, NEW j
  PROVE  InOneJob(jobs, i, j) <=> InOneJob(jobs, j, i)
    BY DEF InOneJob

\* Items may change places within the range at the head of the queue.
LEMMA RangePermuted ==
  ASSUME NEW d \in Seq(Items), NEW e \in Seq(Items), Len(e) = Len(d),
         NEW jobs, JobsSound(jobs, Len(d)), jobs # <<>>, OrderedBut(d, jobs),
         \A k \in 1 .. Len(d) : k \notin RangeOf(jobs[1]) => e[k] = d[k],
         \A k \in RangeOf(jobs[1]) : \E m \in RangeOf(jobs[1]) : e[k] = d[m]
  PROVE  OrderedBut(e, jobs)
<1> DEFINE r == RangeOf(jobs[1])
<1>1. /\ r \subseteq 1 .. Len(d) /\ Len(d) \in Nat
      /\ jobs[1].start \in Nat /\ jobs[1].end \in Nat /\ 1 \in 1 .. Len(jobs)
    BY FirstJob, JobFields, LenProperties DEF RangeOf
<1>2. SUFFICES ASSUME NEW i \in 1 .. Len(e), NEW j \in 1 .. Len(e), i < j, Below(e[j], e[i])
               PROVE  InOneJob(jobs, i, j)
    BY DEF OrderedBut
<1>3. CASE i \in r /\ j \in r
    BY <1>1, <1>3 DEF InOneJob
<1>4. CASE i \in r /\ j \notin r
  <2>1. PICK m \in r : e[i] = d[m]
    BY <1>4
  <2>2. m \in 1 .. Len(d) /\ m < j
    <3>1. j \in Int
      BY <1>1
    <3> QED
      BY <1>1, <1>2, <1>4, <3>1, RangeHasNoGaps
  <2>3. Below(d[j], d[m])
    BY <1>2, <1>4, <2>1
  <2>4. InOneJob(jobs, m, j)
    BY <1>2, <2>2, <2>3 DEF OrderedBut
  <2> QED
    BY <1>4, <2>1, <2>4, OnlyInFirst
<1>5. CASE i \notin r /\ j \in r
  <2>1. PICK m \in r : e[j] = d[m]
    BY <1>5
  <2>2. m \in 1 .. Len(d) /\ i < m
    <3>1. i \in Int
      BY <1>1
    <3> QED
      BY <1>1, <1>2, <1>5, <3>1, RangeHasNoGaps
  <2>3. Below(d[m], d[i])
    BY <1>2, <1>5, <2>1
  <2>4. InOneJob(jobs, i, m)
    BY <1>2, <2>2, <2>3 DEF OrderedBut
  <2> QED
    BY <1>5, <2>1, <2>4, OnlyInFirst, WithinIsSymmetric
<1>6. CASE i \notin r /\ j \notin r
    BY <1>2, <1>6 DEF OrderedBut
<1> QED
    BY <1>3, <1>4, <1>5, <1>6

LEMMA WithoutFirst ==
  ASSUME NEW n, NEW jobs, JobsSound(jobs, n), jobs # <<>>
  PROVE  /\ JobsSound(Tail(jobs), n)
         /\ \A m \in 1 .. Len(Tail(jobs)) : Apart(Tail(jobs)[m], jobs[1])
         /\ \A i, j : InOneJob(jobs, i, j) =>
              InOneJob(Tail(jobs), i, j) \/ (i \in RangeOf(jobs[1]) /\ j \in RangeOf(jobs[1]))
<1> DEFINE rest == Tail(jobs)
           len == Len(jobs)
<1>1. /\ rest \in Seq(Job) /\ Len(rest) = len - 1
      /\ \A m \in 1 .. Len(rest) : rest[m] = jobs[m + 1]
    BY HeadTailProperties DEF JobsSound
<1>2. len \in Nat /\ 1 \in 1 .. len
    BY FirstJob
<1>3. \A m \in 1 .. Len(rest) : m + 1 \in 1 .. len /\ m + 1 # 1
    BY <1>1, <1>2
<1> HIDE DEF rest
<1>4. JobsSound(rest, n)
  <2>1. ASSUME NEW m \in 1 .. Len(rest)
        PROVE  1 <= rest[m].start /\ rest[m].start < rest[m].end /\ rest[m].end <= n + 1
    BY <1>1, <1>3 DEF JobsSound
  <2>2. ASSUME NEW m \in 1 .. Len(rest), NEW o \in 1 .. Len(rest), m # o
        PROVE  Apart(rest[m], rest[o])
    BY <1>1, <1>2, <1>3, <2>2 DEF JobsSound
  <2> QED
    BY <1>1, <2>1, <2>2 DEF JobsSound
<1>5. \A m \in 1 .. Len(rest) : Apart(rest[m], jobs[1])
    BY <1>1, <1>2, <1>3 DEF JobsSound
<1>6. ASSUME NEW i, NEW j, InOneJob(jobs, i, j)
      PROVE  InOneJob(rest, i, j) \/ (i \in RangeOf(jobs[1]) /\ j \in RangeOf(jobs[1]))
  <2>1. PICK m \in 1 .. len : i \in RangeOf(jobs[m]) /\ j \in RangeOf(jobs[m])
    BY <1>6 DEF InOneJob
  <2>2. CASE m = 1
    BY <2>1, <2>2
  <2>3. CASE m # 1
    <3>1. m - 1 \in 1 .. Len(rest) /\ rest[m - 1] = jobs[m]
      BY <1>1, <1>2, <2>3
    <3> QED
      BY <2>1, <3>1 DEF InOneJob
  <2> QED
    BY <2>2, <2>3
<1> QED
    BY <1>4, <1>5, <1>6 DEF rest

\* A range that lies apart from all others joins the queue, unless it is empty.
LEMMA RangeAdded ==
  ASSUME NEW n \in Nat, NEW jobs, JobsSound(jobs, n), NEW a \in Nat, NEW b \in Nat,
         1 <= a, b <= n + 1,
         \A m \in 1 .. Len(jobs) : Apart(jobs[m], [start |-> a, end |-> b])
  PROVE  /\ Range2(a, b) \in Seq(Job)
         /\ JobsSound(jobs \o Range2(a, b), n)
         /\ \A m \in 1 .. Len(jobs \o Range2(a, b)) :
               \/ m \in 1 .. Len(jobs) /\ (jobs \o Range2(a, b))[m] = jobs[m]
               \/ a < b /\ (jobs \o Range2(a, b))[m] = [start |-> a, end |-> b]
         /\ \A i, j : InOneJob(jobs, i, j) => InOneJob(jobs \o Range2(a, b), i, j)
         /\ \A i, j \in a .. b - 1 : InOneJob(jobs \o Range2(a, b), i, j)
<1> DEFINE job == [start |-> a, end |-> b]
           all == jobs \o Range2(a, b)
           len == Len(jobs)
<1>1. jobs \in Seq(Job) /\ job \in Job /\ len \in Nat
    BY LenProperties DEF JobsSound, Job
<1>2. CASE ~(b > a)
  <2>1. Range2(a, b) = <<>> /\ all = jobs /\ <<>> \in Seq(Job)
    BY <1>1, <1>2, ConcatEmptySeq, EmptySeq DEF Range2
  <2>2. a .. b - 1 = {}
    BY <1>2
  <2> QED
    BY <2>1, <2>2
<1>3. CASE b > a
  <2>1. Range2(a, b) = <<job>> /\ <<job>> \in Seq(Job)
    BY <1>1, <1>3 DEF Range2
  <2>2. all = Append(jobs, job)
    BY <1>1, <2>1, AppendIsConcat
  <2>3. /\ all \in Seq(Job) /\ Len(all) = len + 1 /\ all[len + 1] = job
        /\ \A m \in 1 .. len : all[m] = jobs[m]
    BY <1>1, <2>2, AppendProperties
  <2> HIDE DEF all
  <2>4. job.start = a /\ job.end = b
    OBVIOUS
  <2> HIDE DEF job
  <2>5. \A m \in 1 .. Len(all) :
           1 <= all[m].start /\ all[m].start < all[m].end /\ all[m].end <= n + 1
    BY <1>1, <1>3, <2>3, <2>4 DEF JobsSound
  <2>6. \A m \in 1 .. len : Apart(jobs[m], job) /\ Apart(job, jobs[m])
    BY DEF Apart, job
  <2>7. \A m, o \in 1 .. Len(all) : m # o => Apart(all[m], all[o])
    BY <1>1, <2>3, <2>6 DEF JobsSound
  <2>8. JobsSound(all, n)
    BY <2>3, <2>5, <2>7 DEF JobsSound
  <2>9. \A m \in 1 .. Len(all) :
           \/ m \in 1 .. len /\ all[m] = jobs[m]
           \/ a < b /\ all[m] = job
    <3> SUFFICES ASSUME NEW m \in 1 .. Len(all)
                 PROVE  (m \in 1 .. len /\ all[m] = jobs[m]) \/ all[m] = job
      BY <1>3
    <3>1. m \in 1 .. len \/ m = len + 1
      BY <1>1, <2>3
    <3> QED
      BY <2>3, <3>1
  <2>10. \A i, j : InOneJob(jobs, i, j) => InOneJob(all, i, j)
    BY <1>1, <2>3 DEF InOneJob
  <2>11. \A i, j \in a .. b - 1 : InOneJob(all, i, j)
    BY <1>1, <2>3, <2>4 DEF InOneJob, RangeOf
  <2> QED
    BY <2>1, <2>8, <2>9, <2>10, <2>11 DEF all, job
<1> QED
    BY <1>2, <1>3

-----------------------------------------------------------------------------
(* Places *)

LEMMA Swapped ==
  ASSUME NEW d \in Seq(Items), NEW i \in 1 .. Len(d), NEW j \in 1 .. Len(d)
  PROVE  /\ Swap(d, i, j) \in Seq(Items) /\ Len(Swap(d, i, j)) = Len(d)
         /\ \A k \in 1 .. Len(d) :
               Swap(d, i, j)[k] = IF k = i THEN d[j] ELSE IF k = j THEN d[i] ELSE d[k]
<1> DEFINE half == [d EXCEPT ![i] = d[j]]
<1>1. d[i] \in Items /\ d[j] \in Items
    BY ElementOfSeq
<1>2. /\ half \in Seq(Items) /\ Len(half) = Len(d)
      /\ \A k \in 1 .. Len(d) : half[k] = IF k = i THEN d[j] ELSE d[k]
    BY <1>1, ExceptSeq
<1>3. Swap(d, i, j) = [half EXCEPT ![j] = d[i]]
    BY DEF Swap
<1> HIDE DEF half
<1>4. /\ [half EXCEPT ![j] = d[i]] \in Seq(Items)
      /\ Len([half EXCEPT ![j] = d[i]]) = Len(half)
      /\ \A k \in 1 .. Len(half) :
            [half EXCEPT ![j] = d[i]][k] = IF k = j THEN d[i] ELSE half[k]
    BY <1>1, <1>2, ExceptSeq
<1> QED
    BY <1>2, <1>3, <1>4

LEMMA SwappedIsPlaced ==
  ASSUME NEW s \in Seq(Items), NEW d \in Seq(Items), ItemsPlaced(s, d),
         NEW i \in 1 .. Len(d), NEW j \in 1 .. Len(d)
  PROVE  ItemsPlaced(s, Swap(d, i, j))
<1> DEFINE n == Len(s)
           e == Swap(d, i, j)
           Other(k) == IF k = i THEN j ELSE IF k = j THEN i ELSE k
<1>0. /\ Len(e) = Len(d)
      /\ \A k \in 1 .. Len(d) :
            e[k] = IF k = i THEN d[j] ELSE IF k = j THEN d[i] ELSE d[k]
    BY Swapped
<1>1. Len(d) = n
    BY DEF ItemsPlaced
<1>2. PICK place \in [1 .. n -> 1 .. n] :
         /\ \A k \in 1 .. n : d[place[k]] = s[k]
         /\ \A k, m \in 1 .. n : place[k] = place[m] => k = m
    BY DEF ItemsPlaced
<1> HIDE DEF e
<1>4. \A k \in 1 .. n : Other(k) \in 1 .. n /\ e[Other(k)] = d[k]
    BY <1>1, <1>0
<1> DEFINE moved == [k \in 1 .. n |-> Other(place[k])]
<1>5. moved \in [1 .. n -> 1 .. n]
    BY <1>4
<1>6. \A k \in 1 .. n : e[moved[k]] = s[k]
    BY <1>2, <1>4
<1>7. \A k, m \in 1 .. n : moved[k] = moved[m] => k = m
    BY <1>2
<1> HIDE DEF moved, n
<1> QED
    BY <1>1, <1>0, <1>5, <1>6, <1>7 DEF ItemsPlaced, n, e

\* A swap within the range at the head of the queue.
LEMMA SwappedInRange ==
  ASSUME NEW s \in Seq(Items), NEW d \in Seq(Items), ItemsPlaced(s, d),
         NEW jobs, JobsSound(jobs, Len(d)), jobs # <<>>, OrderedBut(d, jobs),
         NEW i \in RangeOf(jobs[1]), NEW j \in RangeOf(jobs[1])
  PROVE  /\ i \in 1 .. Len(d) /\ j \in 1 .. Len(d)
         /\ Swap(d, i, j) \in Seq(Items) /\ ItemsPlaced(s, Swap(d, i, j))
         /\ Len(Swap(d, i, j)) = Len(d) /\ OrderedBut(Swap(d, i, j), jobs)
         /\ \A k \in 1 .. Len(d) :
               Swap(d, i, j)[k] = IF k = i THEN d[j] ELSE IF k = j THEN d[i] ELSE d[k]
<1> DEFINE r == RangeOf(jobs[1])
           e == Swap(d, i, j)
<1>1. /\ jobs[1].start \in Nat /\ jobs[1].end \in Nat
      /\ 1 <= jobs[1].start /\ jobs[1].end <= Len(d) + 1
    BY FirstJob, JobFields
<1>2. r \subseteq 1 .. Len(d)
    BY <1>1, LenProperties DEF RangeOf
<1>3. /\ e \in Seq(Items) /\ ItemsPlaced(s, e) /\ Len(e) = Len(d)
      /\ \A k \in 1 .. Len(d) : e[k] = IF k = i THEN d[j] ELSE IF k = j THEN d[i] ELSE d[k]
  <2>1. i \in 1 .. Len(d) /\ j \in 1 .. Len(d)
    BY <1>2
  <2>2. ItemsPlaced(s, e)
    BY <2>1, SwappedIsPlaced
  <2> QED
    BY <2>1, <2>2, Swapped
<1>4. OrderedBut(e, jobs)
  <2>1. \A k \in 1 .. Len(d) : k \notin r => e[k] = d[k]
    BY <1>3
  <2>2. \A k \in r : \E m \in r : e[k] = d[m]
    BY <1>2, <1>3
  <2> HIDE DEF e
  <2> QED
    BY <1>3, <2>1, <2>2, RangePermuted
<1> QED
    BY <1>2, <1>3, <1>4

-----------------------------------------------------------------------------
(* The pass *)

LEMMA PassTypes ==
  ASSUME NEW d \in Seq(Items), NEW jobs, JobsSound(jobs, Len(d)), NEW z, NEW p,
         InPass(d, jobs, z, p)
  PROVE  /\ jobs # <<>> /\ p \in RangeOf(jobs[1]) /\ z \in Nat /\ p \in Nat
         /\ jobs[1].start \in Nat /\ jobs[1].end \in Nat
         /\ jobs[1].start <= z /\ jobs[1].start <= p /\ p < jobs[1].end
         /\ z < jobs[1].end => z \in RangeOf(jobs[1])
         /\ \A k \in RangeOf(jobs[1]) : k \in 1 .. Len(d) /\ k \in Nat /\ d[k] \in Items
<1>1. jobs # <<>> /\ p \in RangeOf(jobs[1]) /\ z \in jobs[1].start .. jobs[1].end
    BY DEF InPass
<1>2. /\ jobs[1].start \in Nat /\ jobs[1].end \in Nat
      /\ 1 <= jobs[1].start /\ jobs[1].end <= Len(d) + 1
    BY <1>1, FirstJob, JobFields
<1>3. \A k \in RangeOf(jobs[1]) : k \in 1 .. Len(d) /\ k \in Nat
    BY <1>2, LenProperties DEF RangeOf
<1>4. \A k \in RangeOf(jobs[1]) : d[k] \in Items
    BY <1>3, ElementOfSeq
<1>5. /\ z \in Nat /\ p \in Nat /\ jobs[1].start <= z /\ jobs[1].start <= p /\ p < jobs[1].end
      /\ z < jobs[1].end => z \in RangeOf(jobs[1])
    BY <1>1, <1>2 DEF RangeOf
<1> QED
    BY <1>1, <1>2, <1>3, <1>4, <1>5

\* An item on the right side of the pivot stays there.
LEMMA PassGoesOn ==
  ASSUME NEW d \in Seq(Items), NEW jobs, JobsSound(jobs, Len(d)), NEW z, NEW p,
         InPass(d, jobs, z, p), z < jobs[1].end,
         z < p => ~Below(d[p], d[z]), z > p => ~Below(d[z], d[p])
  PROVE  InPass(d, jobs, z + 1, p)
<1> DEFINE first == jobs[1].start
           end == jobs[1].end
<1>1. /\ z \in Nat /\ p \in Nat /\ first \in Nat /\ end \in Nat /\ first <= z /\ z < end
      /\ p \in RangeOf(jobs[1]) /\ jobs # <<>>
    BY PassTypes
<1>2. \A k \in first .. z - 1 :
         (k < p => ~Below(d[p], d[k])) /\ (k > p => ~Below(d[k], d[p]))
    BY DEF InPass
<1> HIDE DEF first, end
<1>3. \A k \in first .. z : k \in first .. z - 1 \/ k = z
    BY <1>1
<1>4. \A k \in first .. (z + 1) - 1 :
         (k < p => ~Below(d[p], d[k])) /\ (k > p => ~Below(d[k], d[p]))
    BY <1>1, <1>2, <1>3
<1>5. z + 1 \in first .. end
    BY <1>1
<1> QED
    BY <1>1, <1>4, <1>5 DEF InPass, first, end

LEMMA PassSwaps ==
  ASSUME NEW d \in Seq(Items), NEW jobs, JobsSound(jobs, Len(d)), NEW z, NEW p,
         InPass(d, jobs, z, p), z < jobs[1].end, z <= p + 1, z # p,
         z < p => Below(d[p], d[z]), z > p => Below(d[z], d[p]),
         NEW e,
         \A k \in 1 .. Len(d) : e[k] = IF k = z THEN d[p] ELSE IF k = p THEN d[z] ELSE d[k]
  PROVE  InPass(e, jobs, z + 1, z)
<1> DEFINE first == jobs[1].start
           end == jobs[1].end
           r == RangeOf(jobs[1])
<1>1. /\ z \in Nat /\ p \in Nat /\ first \in Nat /\ end \in Nat /\ first <= z /\ z < end
      /\ p \in r /\ z \in r /\ jobs # <<>> /\ first <= p /\ p < end
      /\ \A k \in r : k \in 1 .. Len(d) /\ d[k] \in Items
    BY PassTypes
<1>2. \A k \in first .. z - 1 :
         (k < p => ~Below(d[p], d[k])) /\ (k > p => ~Below(d[k], d[p]))
    BY DEF InPass
<1>3. r = first .. end - 1
    BY DEF RangeOf
<1> HIDE DEF first, end, r
<1>4. e[z] = d[p] /\ e[p] = d[z] /\ \A k \in r : k # z /\ k # p => e[k] = d[k]
    BY <1>1
<1>5. ASSUME NEW k \in first .. z - 1 PROVE ~Below(e[z], e[k])
  <2>1. k \in r /\ k # z /\ k <= p
    BY <1>1, <1>3
  <2>2. CASE k = p
    <3>1. z > p
      BY <1>1, <1>5, <2>2
    <3> QED
      BY <1>1, <1>4, <2>2, <3>1, SortAssumption
  <2>3. CASE k # p
    BY <1>1, <1>2, <1>4, <1>5, <2>1, <2>3
  <2> QED
    BY <2>2, <2>3
<1>6. z + 1 \in first .. end
    BY <1>1
<1>7. \A k \in first .. (z + 1) - 1 :
         (k < z => ~Below(e[z], e[k])) /\ (k > z => ~Below(e[k], e[z]))
    BY <1>1, <1>5
<1> QED
    BY <1>1, <1>6, <1>7 DEF InPass, first, end, r

\* An item behind the pivot that belongs before it: the pivot moves up by one, its
\* neighbour goes where the item was, and the item where the pivot was.
LEMMA PassPulls ==
  ASSUME NEW d \in Seq(Items), NEW jobs, JobsSound(jobs, Len(d)), NEW z, NEW p,
         InPass(d, jobs, z, p), z < jobs[1].end, z > p + 1, Below(d[z], d[p]),
         NEW e, e[p] = d[z], e[z] = d[p + 1], e[p + 1] = d[p],
         \A k \in 1 .. Len(d) : k \notin {p, p + 1, z} => e[k] = d[k]
  PROVE  InPass(e, jobs, z + 1, p + 1)
<1> DEFINE first == jobs[1].start
           end == jobs[1].end
           r == RangeOf(jobs[1])
<1>1. /\ z \in Nat /\ p \in Nat /\ first \in Nat /\ end \in Nat /\ first <= z /\ z < end
      /\ p \in r /\ z \in r /\ jobs # <<>> /\ first <= p /\ p < end
      /\ \A k \in r : k \in 1 .. Len(d) /\ d[k] \in Items
    BY PassTypes
<1>2. \A k \in first .. z - 1 :
         (k < p => ~Below(d[p], d[k])) /\ (k > p => ~Below(d[k], d[p]))
    BY DEF InPass
<1>3. r = first .. end - 1
    BY DEF RangeOf
<1> HIDE DEF first, end, r
<1>4. /\ p + 1 \in r /\ p + 1 \in first .. z - 1 /\ p + 1 > p
      /\ \A k \in r : k \notin {p, p + 1, z} => e[k] = d[k]
    BY <1>1, <1>3
<1>5. ASSUME NEW k \in first .. z, k < p + 1 PROVE ~Below(e[p + 1], e[k])
  <2>1. CASE k = p
    BY <1>1, <2>1, SortAssumption
  <2>2. CASE k # p
    <3>1. k < p /\ k \in first .. z - 1 /\ k \in r /\ k \notin {p, p + 1, z}
      BY <1>1, <1>3, <1>5, <2>2
    <3> QED
      BY <1>2, <1>4, <3>1
  <2> QED
    BY <2>1, <2>2
<1>6. ASSUME NEW k \in first .. z, k > p + 1 PROVE ~Below(e[k], e[p + 1])
  <2>1. CASE k = z
    BY <1>2, <1>4, <2>1
  <2>2. CASE k # z
    <3>1. k > p /\ k \in first .. z - 1 /\ k \in r /\ k \notin {p, p + 1, z}
      BY <1>1, <1>3, <1>6, <2>2
    <3> QED
      BY <1>2, <1>4, <3>1
  <2> QED
    BY <2>1, <2>2
<1>7. z + 1 \in first .. end /\ (z + 1) - 1 = z
    BY <1>1
<1>8. \A k \in first .. (z + 1) - 1 :
         (k < p + 1 => ~Below(e[p + 1], e[k])) /\ (k > p + 1 => ~Below(e[k], e[p + 1]))
    BY <1>5, <1>6, <1>7
<1> QED
    BY <1>1, <1>4, <1>7, <1>8 DEF InPass, first, end, r

\* After the pass every item before the pivot's place sorts before all others.
LEMMA PassSplits ==
  ASSUME NEW d \in Seq(Items), NEW jobs, JobsSound(jobs, Len(d)), OrderedBut(d, jobs),
         NEW p, InPass(d, jobs, jobs[1].end, p)
  PROVE  LET new == Tail(jobs) \o (Range2(jobs[1].start, p) \o Range2(p, jobs[1].end))
         IN  JobsSound(new, Len(d)) /\ OrderedBut(d, new)
<1> DEFINE first == jobs[1].start
           end == jobs[1].end
           n == Len(d)
           rest == Tail(jobs)
           some == rest \o Range2(first, p)
           all == some \o Range2(p, end)
           low == [start |-> first, end |-> p]
           high == [start |-> p, end |-> end]
<1>1. /\ p \in Nat /\ first \in Nat /\ end \in Nat /\ n \in Nat /\ jobs # <<>>
      /\ first <= p /\ p < end /\ 1 <= first /\ end <= n + 1
      /\ \A k \in RangeOf(jobs[1]) : k \in 1 .. n /\ d[k] \in Items
    BY PassTypes, FirstJob, JobFields, LenProperties
<1>2. /\ JobsSound(rest, n)
      /\ \A m \in 1 .. Len(rest) : Apart(rest[m], jobs[1])
      /\ \A i, j : InOneJob(jobs, i, j) =>
           InOneJob(rest, i, j) \/ (i \in RangeOf(jobs[1]) /\ j \in RangeOf(jobs[1]))
    BY <1>1, WithoutFirst
<1>3. RangeOf(jobs[1]) = first .. end - 1
    BY DEF RangeOf
<1>4. \A k \in first .. end - 1 :
         (k < p => ~Below(d[p], d[k])) /\ (k > p => ~Below(d[k], d[p]))
    BY DEF InPass
<1>5. \A m \in 1 .. Len(rest) : Apart(rest[m], low) /\ Apart(rest[m], high)
  <2> SUFFICES ASSUME NEW m \in 1 .. Len(rest)
               PROVE  Apart(rest[m], low) /\ Apart(rest[m], high)
    OBVIOUS
  <2>1. rest[m].end <= first \/ end <= rest[m].start
    BY <1>2 DEF Apart
  <2>2. rest[m].end \in Nat /\ rest[m].start \in Nat
    BY <1>2, JobFields
  <2>3. /\ low.start = first /\ low.end = p /\ high.start = p /\ high.end = end
    OBVIOUS
  <2> HIDE DEF low, high, rest, first, end
  <2>4. (rest[m].end <= low.start \/ low.end <= rest[m].start)
        /\ (rest[m].end <= high.start \/ high.end <= rest[m].start)
    BY <1>1, <2>1, <2>2, <2>3
  <2> QED
    BY <2>4 DEF Apart
<1> HIDE DEF first, end, n, rest
<1>6. /\ Range2(first, p) \in Seq(Job) /\ JobsSound(some, n)
      /\ \A m \in 1 .. Len(some) : (m \in 1 .. Len(rest) /\ some[m] = rest[m]) \/ some[m] = low
      /\ \A i, j : InOneJob(rest, i, j) => InOneJob(some, i, j)
      /\ \A i, j \in first .. p - 1 : InOneJob(some, i, j)
  <2> HIDE DEF low, high, some
  <2>1. 1 <= first /\ p <= n + 1 /\ first \in Nat /\ p \in Nat /\ n \in Nat
    BY <1>1
  <2>2. JobsSound(rest, n) /\ \A m \in 1 .. Len(rest) : Apart(rest[m], low)
    BY <1>2, <1>5
  <2>3. /\ Range2(first, p) \in Seq(Job) /\ JobsSound(rest \o Range2(first, p), n)
        /\ \A m \in 1 .. Len(rest \o Range2(first, p)) :
              \/ m \in 1 .. Len(rest) /\ (rest \o Range2(first, p))[m] = rest[m]
              \/ first < p /\ (rest \o Range2(first, p))[m] = low
        /\ \A i, j : InOneJob(rest, i, j) => InOneJob(rest \o Range2(first, p), i, j)
        /\ \A i, j \in first .. p - 1 : InOneJob(rest \o Range2(first, p), i, j)
    BY <2>1, <2>2, RangeAdded DEF low
  <2> QED
    BY <2>3 DEF some
<1>7. Apart(low, high)
    BY <1>1 DEF Apart
<1> HIDE DEF low, high, some
<1>8. \A m \in 1 .. Len(some) : Apart(some[m], high)
    BY <1>5, <1>6, <1>7
<1>9. /\ Range2(p, end) \in Seq(Job) /\ JobsSound(all, n)
      /\ \A i, j : InOneJob(some, i, j) => InOneJob(all, i, j)
      /\ \A i, j \in p .. end - 1 : InOneJob(all, i, j)
  <2>1. 1 <= p
    BY <1>1
  <2> QED
    BY <1>1, <1>6, <1>8, <2>1, RangeAdded DEF high
<1>10. all = rest \o (Range2(first, p) \o Range2(p, end))
  <2>1. rest \in Seq(Job)
    BY <1>2 DEF JobsSound
  <2> QED
    BY <1>6, <1>9, <2>1, ConcatAssociative DEF some
<1> HIDE DEF all
<1>11. ASSUME NEW i \in 1 .. n, NEW j \in 1 .. n, i < j, Below(d[j], d[i])
       PROVE  InOneJob(all, i, j)
  <2>1. InOneJob(jobs, i, j)
    BY <1>11 DEF OrderedBut, n
  <2>2. CASE InOneJob(rest, i, j)
    BY <1>6, <1>9, <2>2
  <2>3. CASE i \in first .. end - 1 /\ j \in first .. end - 1
    <3>1. CASE i < p /\ j < p
      <4>1. i \in first .. p - 1 /\ j \in first .. p - 1
        BY <1>1, <2>3, <3>1
      <4> QED
        BY <1>6, <1>9, <4>1
    <3>2. CASE p <= i
      <4>1. i \in p .. end - 1 /\ j \in p .. end - 1
        BY <1>1, <1>11, <2>3, <3>2
      <4> QED
        BY <1>9, <4>1
    <3>3. CASE i < p /\ p <= j
      <4>1. ~Below(d[p], d[i]) /\ (j # p => ~Below(d[j], d[p]))
        <5>1. j # p => j > p
          BY <1>1, <3>3
        <5> QED
          BY <1>4, <2>3, <3>3, <5>1
      <4>2. p \in first .. end - 1
        BY <1>1
      <4>3. d[i] \in Items /\ d[j] \in Items /\ d[p] \in Items
        BY <1>1, <1>3, <2>3, <4>2
      <4> QED
        BY <1>11, <4>1, <4>3, SortAssumption
    <3> QED
      BY <1>1, <2>3, <3>1, <3>2, <3>3
  <2> QED
    BY <1>2, <1>3, <2>1, <2>2, <2>3
<1>12. OrderedBut(d, all)
    BY <1>11 DEF OrderedBut, n
<1> QED
    BY <1>9, <1>10, <1>12 DEF n, rest, first, end

-----------------------------------------------------------------------------
(* The steps *)

LEMMA StepTo ==
  ASSUME NEW s, NEW d, NEW jobs, NEW z, NEW p, NEW phase,
         SortSound(s, d, jobs, z, p, phase), sort' = SortState(s, d, jobs, z, p, phase)
  PROVE  SortIInv'
<1>1. /\ sort'.input = s /\ sort'.data = d /\ sort'.jobs = jobs /\ sort'.z = z
      /\ sort'.pivot = p /\ sort'.phase = phase
    BY DEF SortState
<1> QED
    BY <1>1 DEF SortIInv

LEMMA SortInitIInv == SortInit => SortIInv
<1> SUFFICES ASSUME NEW s \in Inputs, sort = SortOf(s) PROVE SortIInv
    BY DEF SortInit
<1> DEFINE n == Len(s)
           jobs == IF n > 1 THEN Range2(1, n + 1) ELSE <<>>
<1>1. s \in Seq(Items) /\ n \in Nat
    BY SortAssumption, LenProperties
<1>2. JobsSound(<<>>, n) /\ <<>> \in Seq(Job)
    BY EmptySeq DEF JobsSound
<1>3. JobsSound(jobs, n) /\ \A i, j \in 1 .. n : i < j => InOneJob(jobs, i, j)
  <2>1. CASE n > 1
    <3> DEFINE none == <<>>
               b == n + 1
    <3>1. b \in Nat /\ 1 <= b /\ b <= n + 1 /\ n \in Nat /\ 1 .. b - 1 = 1 .. n
      BY <1>1
    <3>2. /\ JobsSound(none, n)
          /\ \A m \in 1 .. Len(none) : Apart(none[m], [start |-> 1, end |-> b])
      BY <1>2, EmptySeq
    <3> HIDE DEF n, none, b
    <3>3. /\ Range2(1, b) \in Seq(Job) /\ JobsSound(none \o Range2(1, b), n)
          /\ \A i, j \in 1 .. b - 1 : InOneJob(none \o Range2(1, b), i, j)
      BY <3>1, <3>2, RangeAdded
    <3>4. none \o Range2(1, b) = Range2(1, b)
      BY <3>3, ConcatEmptySeq DEF none
    <3>5. JobsSound(Range2(1, b), n) /\ \A i, j \in 1 .. n : InOneJob(Range2(1, b), i, j)
      BY <3>1, <3>3, <3>4
    <3>6. jobs = Range2(1, b)
      BY <2>1 DEF n, b
    <3> HIDE DEF jobs
    <3> QED
      BY <3>5, <3>6
  <2>2. CASE ~(n > 1)
    BY <1>1, <1>2, <2>2
  <2> QED
    BY <2>1, <2>2
<1>4. ItemsPlaced(s, s)
  <2> DEFINE place == [i \in 1 .. n |-> i]
  <2>1. place \in [1 .. n -> 1 .. n] /\ \A i \in 1 .. n : place[i] = i
    OBVIOUS
  <2> HIDE DEF place
  <2> QED
    BY <2>1 DEF ItemsPlaced
<1>5. sort = SortState(s, s, jobs, 0, 0, "queue")
    BY DEF SortOf, SortState
<1> HIDE DEF jobs
<1>6. SortSound(s, s, jobs, 0, 0, "queue")
    BY <1>1, <1>3, <1>4 DEF SortSound, OrderedBut
<1>7. /\ sort.input = s /\ sort.data = s /\ sort.jobs = jobs /\ sort.z = 0
      /\ sort.pivot = 0 /\ sort.phase = "queue"
    BY <1>5 DEF SortState
<1> QED
    BY <1>5, <1>6, <1>7 DEF SortIInv

LEMMA NextJobIInv == SortIInv /\ NextJob => SortIInv'
<1> SUFFICES ASSUME SortIInv, NextJob PROVE SortIInv'
    OBVIOUS
<1> DEFINE s == sort.input
           d == sort.data
           jobs == sort.jobs
           z == sort.z
           p == sort.pivot
           r == RangeOf(jobs[1])
           next == First + 1
<1>1. /\ sort = SortState(s, d, jobs, z, p, "queue") /\ jobs # <<>>
      /\ s \in Seq(Items) /\ d \in Seq(Items) /\ ItemsPlaced(s, d)
      /\ JobsSound(jobs, Len(d)) /\ OrderedBut(d, jobs)
    BY DEF SortIInv, SortSound, NextJob
<1>2. /\ First \in Nat /\ End \in Nat /\ 1 <= First /\ First < End /\ End <= Len(d) + 1
      /\ r = First .. End - 1 /\ Len(d) \in Nat
    BY <1>1, FirstJob, JobFields, LenProperties DEF First, End, RangeOf
<1>8. next = First + 1
    OBVIOUS
<1>3. /\ JobsSound(Tail(jobs), Len(d))
      /\ \A i, j : InOneJob(jobs, i, j) => InOneJob(Tail(jobs), i, j) \/ (i \in r /\ j \in r)
    BY <1>1, WithoutFirst
<1> DEFINE sorted == IF Below(d[next], d[First]) THEN Swap(d, First, next) ELSE d
<1>9. \/ End - First <= 1 /\ sort' = [sort EXCEPT !.jobs = Tail(jobs)]
      \/ End - First = 2 /\ sort' = [sort EXCEPT !.jobs = Tail(jobs), !.data = sorted]
      \/ \E k \in First .. End - 1 :
            sort' = [sort EXCEPT !.phase = "pass", !.z = First, !.pivot = k]
      \/ Stop
    BY <1>2 DEF NextJob
<1> HIDE DEF s, d, jobs, z, p, r, next, sorted
<1>4. CASE End - First <= 1 /\ sort' = [sort EXCEPT !.jobs = Tail(jobs)]
  <2>1. OrderedBut(d, Tail(jobs))
    <3>1. \A i, j \in r : ~(i < j)
      BY <1>2, <1>4
    <3> QED
      BY <1>1, <1>3, <3>1 DEF OrderedBut
  <2>2. sort' = SortState(s, d, Tail(jobs), z, p, "queue")
    BY <1>1, <1>4 DEF SortState
  <2>3. SortSound(s, d, Tail(jobs), z, p, "queue")
    BY <1>1, <1>3, <2>1 DEF SortSound
  <2> QED
    BY <2>2, <2>3, StepTo
<1>5. CASE End - First = 2 /\ sort' = [sort EXCEPT !.jobs = Tail(jobs), !.data = sorted]
  <2>1. First \in r /\ next \in r /\ r = {First, next}
    BY <1>2, <1>5, <1>8
  <2>2. First \in 1 .. Len(d) /\ next \in 1 .. Len(d) /\ First # next
    BY <1>2, <1>5, <1>8
  <2>3. /\ sorted \in Seq(Items) /\ ItemsPlaced(s, sorted) /\ Len(sorted) = Len(d)
        /\ OrderedBut(sorted, jobs)
        /\ ~Below(sorted[next], sorted[First])
    <3>1. CASE Below(d[next], d[First])
      <4>1. /\ sorted = Swap(d, First, next) /\ sorted \in Seq(Items) /\ ItemsPlaced(s, sorted)
            /\ Len(sorted) = Len(d) /\ OrderedBut(sorted, jobs)
            /\ \A k \in 1 .. Len(d) :
                  sorted[k] = IF k = First THEN d[next] ELSE IF k = next THEN d[First] ELSE d[k]
        BY <1>1, <2>1, <3>1, SwappedInRange DEF r, sorted
      <4>2. sorted[First] = d[next] /\ sorted[next] = d[First]
        BY <2>2, <4>1
      <4>3. d[First] \in Items /\ d[next] \in Items
        BY <1>1, <2>2, ElementOfSeq
      <4> QED
        BY <3>1, <4>1, <4>2, <4>3, SortAssumption
    <3>2. CASE ~Below(d[next], d[First])
      BY <1>1, <3>2 DEF sorted
    <3> QED
      BY <3>1, <3>2
  <2>4. OrderedBut(sorted, Tail(jobs))
    <3>1. \A i, j \in r : i < j => i = First /\ j = next
      <4>1. First \in Nat /\ ~(next < First)
        BY <1>2, <1>8
      <4> QED
        BY <2>1, <4>1
    <3> QED
      BY <1>3, <2>3, <3>1 DEF OrderedBut
  <2>5. sort' = SortState(s, sorted, Tail(jobs), z, p, "queue")
    BY <1>1, <1>5 DEF SortState
  <2>6. SortSound(s, sorted, Tail(jobs), z, p, "queue")
    BY <1>1, <1>3, <2>3, <2>4 DEF SortSound
  <2> QED
    BY <2>5, <2>6, StepTo
<1>6. CASE \E k \in First .. End - 1 :
              sort' = [sort EXCEPT !.phase = "pass", !.z = First, !.pivot = k]
  <2>1. PICK k \in First .. End - 1 :
            sort' = [sort EXCEPT !.phase = "pass", !.z = First, !.pivot = k]
    BY <1>6
  <2>2. InPass(d, jobs, First, k)
    <3>1. First .. First - 1 = {} /\ First \in First .. End
      BY <1>2
    <3> QED
      BY <1>1, <1>2, <2>1, <3>1 DEF InPass, First, End, r, jobs
  <2>3. sort' = SortState(s, d, jobs, First, k, "pass")
    BY <1>1, <2>1 DEF SortState
  <2>4. SortSound(s, d, jobs, First, k, "pass")
    BY <1>1, <2>2 DEF SortSound
  <2> QED
    BY <2>3, <2>4, StepTo
<1>7. CASE Stop
  <2>1. sort' = SortState(s, d, jobs, z, p, "unsortable")
    BY <1>1, <1>7 DEF SortState, Stop
  <2>2. SortSound(s, d, jobs, z, p, "unsortable")
    BY <1>1 DEF SortSound
  <2> QED
    BY <2>1, <2>2, StepTo
<1> QED
    BY <1>9, <1>4, <1>5, <1>6, <1>7

LEMMA CompareIInv == SortIInv /\ Compare => SortIInv'
<1> SUFFICES ASSUME SortIInv, Compare PROVE SortIInv'
    OBVIOUS
<1> DEFINE s == sort.input
           d == sort.data
           jobs == sort.jobs
           z == sort.z
           p == sort.pivot
           wrong == \/ z < p /\ Below(d[p], d[z])
                    \/ z > p /\ Below(d[z], d[p])
<1>1. /\ sort = SortState(s, d, jobs, z, p, "pass") /\ z < jobs[1].end
      /\ s \in Seq(Items) /\ d \in Seq(Items) /\ ItemsPlaced(s, d)
      /\ JobsSound(jobs, Len(d)) /\ OrderedBut(d, jobs) /\ InPass(d, jobs, z, p)
    BY DEF SortIInv, SortSound, Compare, End
<1>2. /\ jobs # <<>> /\ z \in Nat /\ p \in Nat
      /\ z \in RangeOf(jobs[1]) /\ p \in RangeOf(jobs[1])
      /\ \A k \in RangeOf(jobs[1]) : k \in 1 .. Len(d)
    BY <1>1, PassTypes
<1>3. \/ Stop
      \/ ~wrong /\ sort' = [sort EXCEPT !.z = z + 1]
      \/ /\ wrong /\ z <= p + 1
         /\ sort' = [sort EXCEPT !.data = Swap(d, z, p), !.pivot = z, !.z = z + 1]
      \/ /\ wrong /\ z > p + 1
         /\ sort' = [sort EXCEPT !.data = Swap(Swap(d, p, p + 1), p, z),
                                !.pivot = p + 1, !.z = z + 1]
    BY <1>2 DEF Compare, SwapWithPivot, PullUnderPivot
<1> HIDE DEF s, d, jobs, z, p
<1>4. CASE Stop
  <2>1. sort' = SortState(s, d, jobs, z, p, "unsortable")
    BY <1>1, <1>4 DEF SortState, Stop
  <2>2. SortSound(s, d, jobs, z, p, "unsortable")
    BY <1>1 DEF SortSound
  <2> QED
    BY <2>1, <2>2, StepTo
<1>5. CASE ~wrong /\ sort' = [sort EXCEPT !.z = z + 1]
  <2>1. InPass(d, jobs, z + 1, p)
    BY <1>1, <1>5, PassGoesOn
  <2>2. sort' = SortState(s, d, jobs, z + 1, p, "pass")
    BY <1>1, <1>5 DEF SortState
  <2>3. SortSound(s, d, jobs, z + 1, p, "pass")
    BY <1>1, <2>1 DEF SortSound
  <2> QED
    BY <2>2, <2>3, StepTo
<1>6. CASE /\ wrong /\ z <= p + 1
           /\ sort' = [sort EXCEPT !.data = Swap(d, z, p), !.pivot = z, !.z = z + 1]
  <2> DEFINE e == Swap(d, z, p)
  <2>1. /\ e \in Seq(Items) /\ ItemsPlaced(s, e) /\ Len(e) = Len(d) /\ OrderedBut(e, jobs)
        /\ \A k \in 1 .. Len(d) :
              e[k] = IF k = z THEN d[p] ELSE IF k = p THEN d[z] ELSE d[k]
    BY <1>1, <1>2, SwappedInRange
  <2>2. sort' = [sort EXCEPT !.data = e, !.pivot = z, !.z = z + 1]
    BY <1>6
  <2> HIDE DEF e
  <2>3. z # p /\ (z < p => Below(d[p], d[z])) /\ (z > p => Below(d[z], d[p]))
    BY <1>2, <1>6
  <2>4. InPass(e, jobs, z + 1, z)
    BY <1>1, <1>6, <2>1, <2>3, PassSwaps
  <2>5. sort' = SortState(s, e, jobs, z + 1, z, "pass")
    BY <1>1, <2>2 DEF SortState
  <2>6. SortSound(s, e, jobs, z + 1, z, "pass")
    BY <1>1, <2>1, <2>4 DEF SortSound
  <2> QED
    BY <2>5, <2>6, StepTo
<1>7. CASE /\ wrong /\ z > p + 1
           /\ sort' = [sort EXCEPT !.data = Swap(Swap(d, p, p + 1), p, z),
                                  !.pivot = p + 1, !.z = z + 1]
  <2> DEFINE q == p + 1
             e == Swap(d, p, q)
             f == Swap(e, p, z)
  <2>1. q \in RangeOf(jobs[1]) /\ q = p + 1
    <3>1. jobs[1].start \in Nat /\ jobs[1].end \in Nat
      BY <1>1, PassTypes
    <3> QED
      BY <1>2, <1>7, <3>1 DEF RangeOf
  <2>3. sort' = [sort EXCEPT !.data = f, !.pivot = q, !.z = z + 1]
    BY <1>7
  <2> HIDE DEF q
  <2>2. /\ e \in Seq(Items) /\ ItemsPlaced(s, e) /\ Len(e) = Len(d) /\ OrderedBut(e, jobs)
        /\ \A k \in 1 .. Len(d) :
              e[k] = IF k = p THEN d[q] ELSE IF k = q THEN d[p] ELSE d[k]
    <3>1. /\ s \in Seq(Items) /\ d \in Seq(Items) /\ ItemsPlaced(s, d) /\ jobs # <<>>
          /\ JobsSound(jobs, Len(d)) /\ OrderedBut(d, jobs)
          /\ p \in RangeOf(jobs[1]) /\ q \in RangeOf(jobs[1])
      BY <1>1, <1>2, <2>1
    <3> QED
      BY <3>1, SwappedInRange
  <2> HIDE DEF e
  <2>4. JobsSound(jobs, Len(e))
    BY <1>1, <2>2
  <2>5. /\ f \in Seq(Items) /\ ItemsPlaced(s, f) /\ Len(f) = Len(e) /\ OrderedBut(f, jobs)
        /\ \A k \in 1 .. Len(e) :
              f[k] = IF k = p THEN e[z] ELSE IF k = z THEN e[p] ELSE e[k]
    BY <1>1, <1>2, <2>2, <2>4, SwappedInRange
  <2> HIDE DEF f
  <2>6. /\ f[p] = d[z] /\ f[z] = d[q] /\ f[q] = d[p]
        /\ \A k \in 1 .. Len(d) : k \notin {p, q, z} => f[k] = d[k]
    <3>1. /\ p \in 1 .. Len(d) /\ q \in 1 .. Len(d) /\ z \in 1 .. Len(d)
          /\ p # q /\ z # p /\ z # q
      BY <1>2, <1>7, <2>1
    <3> QED
      BY <2>2, <2>5, <3>1
  <2>7. Below(d[z], d[p])
    BY <1>2, <1>7
  <2>8. InPass(f, jobs, z + 1, q)
    BY <1>1, <1>7, <2>6, <2>7, PassPulls DEF q
  <2>9. sort' = SortState(s, f, jobs, z + 1, q, "pass")
    BY <1>1, <2>3 DEF SortState
  <2>10. SortSound(s, f, jobs, z + 1, q, "pass")
    BY <1>1, <2>2, <2>5, <2>8 DEF SortSound
  <2> QED
    BY <2>9, <2>10, StepTo
<1> QED
    BY <1>3, <1>4, <1>5, <1>6, <1>7

LEMMA EndOfPassIInv == SortIInv /\ EndOfPass => SortIInv'
<1> SUFFICES ASSUME SortIInv, EndOfPass PROVE SortIInv'
    OBVIOUS
<1> DEFINE s == sort.input
           d == sort.data
           jobs == sort.jobs
           new == Tail(jobs) \o Split
<1>1. /\ sort = SortState(s, d, jobs, sort.z, sort.pivot, "pass") /\ sort.z = jobs[1].end
      /\ s \in Seq(Items) /\ d \in Seq(Items) /\ ItemsPlaced(s, d)
      /\ JobsSound(jobs, Len(d)) /\ OrderedBut(d, jobs) /\ InPass(d, jobs, sort.z, sort.pivot)
    BY DEF SortIInv, SortSound, EndOfPass, End
<1>2. JobsSound(new, Len(d)) /\ OrderedBut(d, new)
    BY <1>1, PassSplits DEF Split, First, End
<1>3. sort' = [sort EXCEPT !.phase = "queue", !.z = 0, !.pivot = 0, !.jobs = new]
    BY DEF EndOfPass
<1> HIDE DEF new
<1>4. sort' = SortState(s, d, new, 0, 0, "queue")
    BY <1>1, <1>3 DEF SortState
<1>5. SortSound(s, d, new, 0, 0, "queue")
    BY <1>1, <1>2 DEF SortSound
<1> QED
    BY <1>4, <1>5, StepTo

LEMMA SortEndIInv == SortIInv /\ SortEnd => SortIInv'
<1> SUFFICES ASSUME SortIInv, SortEnd PROVE SortIInv'
    OBVIOUS
<1>1. sort' = SortState(sort.input, sort.data, sort.jobs, sort.z, sort.pivot, "sorted")
    BY DEF SortIInv, SortState, SortEnd
<1>2. SortSound(sort.input, sort.data, sort.jobs, sort.z, sort.pivot, "sorted")
    BY DEF SortIInv, SortSound
<1> QED
    BY <1>1, <1>2, StepTo

LEMMA SortInvariance == SortSpec => []SortIInv
<1>1. SortIInv /\ [SortNext]_sort => SortIInv'
  <2>1. ASSUME SortIInv, UNCHANGED sort PROVE SortIInv'
    BY <2>1 DEF SortIInv
  <2> QED
    BY <2>1, NextJobIInv, CompareIInv, EndOfPassIInv, SortEndIInv DEF SortNext
<1> QED
    BY <1>1, SortInitIInv, PTL DEF SortSpec

-----------------------------------------------------------------------------
\* Whatever the pivots, two places out of order are in one range that is still to be
\* sorted: when the queue is empty the items are in order (itemsort.c:149-213).
THEOREM DisorderAlwaysQueued == SortSpec => []DisorderIsQueued
<1>1. SortIInv => DisorderIsQueued
  <2> SUFFICES ASSUME SortIInv, NEW i \in DOMAIN sort.data, NEW j \in DOMAIN sort.data,
                      i < j, Below(sort.data[j], sort.data[i])
               PROVE  Together(i, j)
    BY DEF DisorderIsQueued
  <2>1. /\ DOMAIN sort.data = 1 .. Len(sort.data) /\ DOMAIN sort.jobs = 1 .. Len(sort.jobs)
        /\ OrderedBut(sort.data, sort.jobs)
    BY LenProperties DEF SortIInv, SortSound, JobsSound
  <2>2. InOneJob(sort.jobs, i, j)
    BY <2>1 DEF OrderedBut
  <2> QED
    BY <2>1, <2>2 DEF InOneJob, Together, RangeOf
<1> QED
    BY <1>1, SortInvariance, PTL

\* Every item of the input keeps a place of its own, for any input, also when the
\* sort stops at items that cannot be compared (itemsort.c:174-206).
THEOREM NoItemEverLost == SortSpec => []NoItemLost
<1>1. SortIInv => NoItemLost
  <2> SUFFICES ASSUME SortIInv PROVE NoItemLost
    OBVIOUS
  <2> DEFINE s == sort.input
             d == sort.data
             n == Len(s)
  <2>1. /\ Len(d) = n /\ DOMAIN s = 1 .. n /\ DOMAIN d = 1 .. n
    BY LenProperties DEF SortIInv, SortSound, ItemsPlaced
  <2>2. PICK place \in [1 .. n -> 1 .. n] :
           /\ \A i \in 1 .. n : d[place[i]] = s[i]
           /\ \A i, j \in 1 .. n : place[i] = place[j] => i = j
    BY DEF SortIInv, SortSound, ItemsPlaced
  <2> HIDE DEF n
  <2>3. ASSUME NEW i \in DOMAIN s
        PROVE  \E f \in [Occurrences(s, s[i]) -> Occurrences(d, s[i])] :
                  \A a, b \in DOMAIN f : a # b => f[a] # f[b]
    <3> DEFINE f == [a \in Occurrences(s, s[i]) |-> place[a]]
    <3>1. f \in [Occurrences(s, s[i]) -> Occurrences(d, s[i])]
      BY <2>1, <2>2 DEF Occurrences
    <3>2. \A a, b \in DOMAIN f : a # b => f[a] # f[b]
      BY <2>1, <2>2 DEF Occurrences
    <3> QED
      BY <3>1, <3>2
  <2> QED
    BY <2>1, <2>3 DEF NoItemLost, n
<1> QED
    BY <1>1, SortInvariance, PTL
-----------------------------------------------------------------------------
(* The blocks of a list *)

IsIter(i) == DOMAIN i = {"on", "idx", "len", "rev", "failed"}
IsList(l) ==
  l = [blocks |-> l.blocks, room |-> l.room, moves |-> l.moves, total |-> l.total,
       rev |-> l.rev, cache |-> l.cache, iter |-> l.iter, added |-> l.added, lost |-> l.lost]

\* While there is one block, the count of the list is the block's: it decides in time
\* when the block grows.
Filled(blocks, room, total) ==
  /\ blocks \in Seq(Seq(Values)) /\ Len(blocks) \in Nat \ {0}
  /\ room \in 1 .. BlockSize /\ total \in Nat
  /\ Len(blocks[1]) <= room
  /\ Len(blocks) = 1 => total = Len(blocks[1])
  /\ Len(blocks) > 1 => room = BlockSize
  /\ \A b \in 1 .. Len(blocks) - 1 : Len(blocks[b]) = BlockSize
  /\ Len(blocks[Len(blocks)]) <= BlockSize

\* A loop started at this revision of the list or at an earlier one.
LoopKeptUp(iter, rev, total) ==
  /\ IsIter(iter) /\ rev \in Nat /\ iter.rev \in Nat /\ iter.rev <= rev
  /\ iter.rev = rev => (iter.on => iter.len = total)

Sound(l) ==
  /\ IsList(l)
  /\ Filled(l.blocks, l.room, l.total)
  /\ LoopKeptUp(l.iter, l.rev, l.total)

IInv == Sound(list)

-----------------------------------------------------------------------------
LEMMA LastOfBlocks ==
  ASSUME NEW blocks, NEW room, NEW total, Filled(blocks, room, total)
  PROVE  /\ \A b \in 1 .. Len(blocks) : blocks[b] \in Seq(Values) /\ Len(blocks[b]) \in Nat
         /\ Len(blocks) \in 1 .. Len(blocks)
         /\ DOMAIN blocks = 1 .. Len(blocks)
<1>1. \A b \in 1 .. Len(blocks) : blocks[b] \in Seq(Values)
    BY ElementOfSeq DEF Filled
<1>2. \A b \in 1 .. Len(blocks) : Len(blocks[b]) \in Nat
    BY <1>1, LenProperties
<1>3. DOMAIN blocks = 1 .. Len(blocks)
    BY LenProperties DEF Filled
<1> QED
    BY <1>1, <1>2, <1>3 DEF Filled

\* The room of the first block after it has grown, when the list is to have one more.
LEMMA RoomForOneMore ==
  ASSUME NEW l, Sound(l)
  PROVE  /\ IsList(Grow(l)) /\ Filled(Grow(l).blocks, Grow(l).room, Grow(l).total)
         /\ Grow(l).blocks = l.blocks /\ Grow(l).total = l.total /\ Grow(l).rev = l.rev
         /\ Grow(l).iter = l.iter /\ Grow(l).added = l.added
         /\ Len(l.blocks) = 1 =>
               Len(l.blocks[1]) < Grow(l).room \/ Len(l.blocks[1]) >= BlockSize
<1> DEFINE c == Len(l.blocks)
           n == Len(l.blocks[1])
           size == Lesser(BlockSize, Greater(2 * l.room, n + 1))
<1>1. /\ IsList(l) /\ Filled(l.blocks, l.room, l.total)
      /\ l.room \in 1 .. BlockSize /\ n \in Nat /\ n <= l.room /\ BlockSize \in Nat
      /\ c = 1 => l.total = n
      /\ c > 1 => l.room = BlockSize
      /\ c \in Nat \ {0} /\ l.total \in Nat
    BY LastOfBlocks, ListAssumption DEF Sound, Filled
<1>2. CASE ~MustGrow(l)
  <2>1. Grow(l) = l
    BY <1>2 DEF Grow
  <2>2. l.room = BlockSize \/ l.total + 1 <= l.room
    BY <1>1, <1>2 DEF MustGrow
  <2> HIDE DEF c, n
  <2>3. c = 1 => n < l.room \/ n >= BlockSize
    BY <1>1, <2>2
  <2> QED
    BY <1>1, <2>1, <2>3 DEF c, n
<1>3. CASE MustGrow(l)
  <2>1. Grow(l) = [l EXCEPT !.room = size, !.moves = @ + 1]
    BY <1>3 DEF Grow
  <2>2. l.room < BlockSize /\ l.total + 1 > l.room
    BY <1>3 DEF MustGrow
  <2> HIDE DEF c, n
  <2>3. c = 1
    BY <1>1, <2>2
  <2>4. size \in 1 .. BlockSize /\ n < size
    BY <1>1, <2>2, <2>3 DEF Lesser, Greater
  <2> HIDE DEF size
  <2>5. Grow(l) = [blocks |-> l.blocks, room |-> size, moves |-> l.moves + 1,
                   total |-> l.total, rev |-> l.rev, cache |-> l.cache, iter |-> l.iter,
                   added |-> l.added, lost |-> l.lost]
    BY <1>1, <2>1 DEF IsList
  <2>6. Filled(l.blocks, size, l.total)
    BY <1>1, <2>3, <2>4 DEF Filled, c, n
  <2> QED
    BY <2>3, <2>4, <2>5, <2>6 DEF IsList, c, n
<1> QED
    BY <1>2, <1>3

LEMMA LastBlockWithOneMore ==
  ASSUME NEW blocks, NEW room, NEW total, Filled(blocks, room, total),
         Len(blocks) = 1 => Len(blocks[1]) < room \/ Len(blocks[1]) >= BlockSize,
         NEW block \in Seq(Values), Len(block) = Len(blocks[Len(blocks)]) + 1,
         ~(Len(blocks[Len(blocks)]) >= BlockSize)
  PROVE  Filled([blocks EXCEPT ![Len(blocks)] = block], room, total + 1)
<1> DEFINE n == Len(blocks)
           old == Len(blocks[n])
           first == Len(blocks[1])
           q == [blocks EXCEPT ![n] = block]
<1>1. /\ blocks \in Seq(Seq(Values)) /\ n \in Nat \ {0} /\ n \in 1 .. n
      /\ old \in Nat /\ first \in Nat
    BY LastOfBlocks DEF Filled
<1>2. /\ BlockSize \in Nat /\ room \in 1 .. BlockSize /\ total \in Nat /\ first <= room
      /\ n = 1 => total = first /\ old = first
      /\ n > 1 => room = BlockSize
      /\ \A b \in 1 .. n - 1 : Len(blocks[b]) = BlockSize
    BY ListAssumption DEF Filled
<1>3. /\ q \in Seq(Seq(Values)) /\ Len(q) = n
      /\ \A b \in 1 .. n : q[b] = IF b = n THEN block ELSE blocks[b]
    BY <1>1, ExceptSeq
<1>4. /\ Len(block) = old + 1 /\ ~(old >= BlockSize)
      /\ n = 1 => first < room \/ first >= BlockSize
    OBVIOUS
<1> HIDE DEF q
<1>5. q[n] = block /\ (n # 1 => q[1] = blocks[1]) /\ \A b \in 1 .. n - 1 : q[b] = blocks[b]
  <2> HIDE DEF n
  <2> QED
    BY <1>1, <1>3
<1> DEFINE newfirst == Len(q[1])
           newlast == Len(q[n])
<1>6. newlast = old + 1 /\ (n # 1 => newfirst = first) /\ (n = 1 => newfirst = newlast)
    BY <1>4, <1>5
<1> HIDE DEF n, old, first, newfirst, newlast
<1>7. /\ newfirst <= room /\ (n = 1 => total + 1 = newfirst) /\ newlast <= BlockSize
    BY <1>1, <1>2, <1>4, <1>6
<1>8. \A b \in 1 .. n - 1 : Len(q[b]) = BlockSize
    BY <1>2, <1>5
<1>9. Filled(q, room, total + 1)
    BY <1>1, <1>2, <1>3, <1>7, <1>8 DEF Filled, newfirst, newlast
<1> QED
    BY <1>9 DEF q, n

\* An entry goes to the last block, or to a new one behind it.
LEMMA BlocksWithOneMore ==
  ASSUME NEW blocks, NEW room, NEW total, Filled(blocks, room, total), NEW v \in Values,
         Len(blocks) = 1 => Len(blocks[1]) < room \/ Len(blocks[1]) >= BlockSize
  PROVE  LET n == Len(blocks)
         IN  Filled(IF Len(blocks[n]) >= BlockSize THEN Append(blocks, <<v>>)
                    ELSE [blocks EXCEPT ![n] = Append(blocks[n], v)], room, total + 1)
<1> DEFINE n == Len(blocks)
           more == Append(blocks[n], v)
<1>1. /\ blocks \in Seq(Seq(Values)) /\ n \in Nat \ {0} /\ n \in 1 .. n
      /\ \A b \in 1 .. n : blocks[b] \in Seq(Values) /\ Len(blocks[b]) \in Nat
      /\ DOMAIN blocks = 1 .. n
    BY LastOfBlocks DEF Filled
<1>2. more \in Seq(Values) /\ Len(more) = Len(blocks[n]) + 1
    BY <1>1, AppendProperties
<1>3. <<v>> \in Seq(Values) /\ Len(<<v>>) = 1
    OBVIOUS
<1>4. BlockSize \in Nat /\ BlockSize >= 1 /\ room \in 1 .. BlockSize /\ total \in Nat
    BY ListAssumption DEF Filled
<1>5. CASE Len(blocks[n]) >= BlockSize
  <2> DEFINE q == Append(blocks, <<v>>)
  <2>1. /\ q \in Seq(Seq(Values)) /\ Len(q) = n + 1 /\ q[n + 1] = <<v>>
        /\ \A b \in 1 .. n : q[b] = blocks[b]
    BY <1>1, <1>3, AppendProperties
  <2>2. Len(blocks[n]) = BlockSize /\ (n = 1 => room = BlockSize) /\ (n > 1 => room = BlockSize)
    BY <1>1, <1>4, <1>5 DEF Filled
  <2>3. q[1] = blocks[1] /\ Len(q[Len(q)]) = 1
    BY <1>1, <1>3, <2>1
  <2>4. \A b \in 1 .. Len(q) - 1 : Len(q[b]) = BlockSize
    BY <1>1, <2>1, <2>2 DEF Filled
  <2> HIDE DEF q
  <2>5. Filled(q, room, total + 1)
    BY <1>1, <1>4, <2>1, <2>2, <2>3, <2>4 DEF Filled
  <2> QED
    BY <1>5, <2>5 DEF q
<1>6. CASE ~(Len(blocks[n]) >= BlockSize)
  <2>1. Filled([blocks EXCEPT ![n] = more], room, total + 1)
    BY <1>1, <1>2, <1>6, LastBlockWithOneMore
  <2> QED
    BY <1>6, <2>1
<1> QED
    BY <1>5, <1>6

\* An entry is replaced wherever the remembered block says it is.
LEMMA BlocksWithOther ==
  ASSUME NEW blocks, NEW room, NEW total, Filled(blocks, room, total),
         NEW v \in Values, NEW b, NEW k
  PROVE  Filled([blocks EXCEPT ![b][k] = v], room, total)
<1> DEFINE block == [blocks[b] EXCEPT ![k] = v]
           q == [blocks EXCEPT ![b] = block]
<1>1. /\ blocks \in Seq(Seq(Values)) /\ Len(blocks) \in Nat \ {0}
      /\ \A c \in 1 .. Len(blocks) : blocks[c] \in Seq(Values)
      /\ DOMAIN blocks = 1 .. Len(blocks)
    BY LastOfBlocks DEF Filled
<1>2. CASE b \notin 1 .. Len(blocks)
  <2>1. q = blocks
    BY <1>1, <1>2, LenProperties
  <2> QED
    BY <2>1
<1>3. CASE b \in 1 .. Len(blocks)
  <2>1. block \in Seq(Values) /\ Len(block) = Len(blocks[b])
    <3>1. CASE k \in 1 .. Len(blocks[b])
      BY <1>1, <1>3, <3>1, ExceptSeq
    <3>2. CASE k \notin 1 .. Len(blocks[b])
      <4>1. block = blocks[b]
        BY <1>1, <1>3, <3>2, LenProperties
      <4> QED
        BY <1>1, <1>3, <4>1
    <3> QED
      BY <3>1, <3>2
  <2>2. /\ q \in Seq(Seq(Values)) /\ Len(q) = Len(blocks)
        /\ \A c \in 1 .. Len(blocks) : q[c] = IF c = b THEN block ELSE blocks[c]
    BY <1>1, <1>3, <2>1, ExceptSeq
  <2> HIDE DEF block, q
  <2>3. \A c \in 1 .. Len(blocks) : Len(q[c]) = Len(blocks[c])
    BY <2>1, <2>2
  <2>4. Filled(q, room, total)
    BY <1>1, <2>2, <2>3 DEF Filled
  <2> QED
    BY <2>4 DEF q, block
<1> QED
    BY <1>2, <1>3

-----------------------------------------------------------------------------
LEMMA InitIInv == ListInit => IInv
<1> SUFFICES ASSUME ListInit PROVE IInv
    OBVIOUS
<1>1. /\ list.blocks = <<<<>>>> /\ list.room = MinSize /\ list.total = 0 /\ list.rev = 0
      /\ list.iter = NoIter /\ IsList(list)
    BY DEF ListInit, IsList
<1>2. <<<<>>>> \in Seq(Seq(Values)) /\ Len(<<<<>>>>) = 1 /\ Len(<<<<>>>>[1]) = 0
  <2>1. <<>> \in Seq(Values)
    BY EmptySeq
  <2> QED
    BY <2>1
<1>3. Filled(<<<<>>>>, MinSize, 0)
    BY <1>2, ListAssumption DEF Filled
<1>4. LoopKeptUp(NoIter, 0, 0)
    BY DEF LoopKeptUp, NoIter, IsIter
<1> QED
    BY <1>1, <1>3, <1>4 DEF IInv, Sound

LEMMA AddIInv == ASSUME NEW v \in Values PROVE IInv /\ ListAdd(v) => IInv'
<1> SUFFICES ASSUME IInv, ListAdd(v) PROVE IInv'
    OBVIOUS
<1> DEFINE g == Grow(list)
           n == Len(g.blocks)
           blocks == IF Len(g.blocks[n]) >= BlockSize THEN Append(g.blocks, <<v>>)
                     ELSE [g.blocks EXCEPT ![n] = Append(g.blocks[n], v)]
<1>1. /\ IsList(g) /\ Filled(g.blocks, g.room, g.total)
      /\ g.total = list.total /\ g.rev = list.rev /\ g.iter = list.iter
      /\ Len(g.blocks) = 1 => Len(g.blocks[1]) < g.room \/ Len(g.blocks[1]) >= BlockSize
    BY RoomForOneMore DEF IInv
<1>2. Filled(blocks, g.room, g.total + 1)
    BY <1>1, BlocksWithOneMore
<1>3. list' = [g EXCEPT !.blocks = blocks, !.total = @ + 1, !.rev = @ + 1,
                        !.added = Append(@, v)]
    BY <1>1 DEF ListAdd, Added, IsList
<1> HIDE DEF g, blocks
<1>4. list' = [blocks |-> blocks, room |-> g.room, moves |-> g.moves, total |-> g.total + 1,
               rev |-> g.rev + 1, cache |-> g.cache, iter |-> g.iter,
               added |-> Append(g.added, v), lost |-> g.lost]
    BY <1>1, <1>3 DEF IsList
<1>5. LoopKeptUp(g.iter, g.rev + 1, g.total + 1)
    BY <1>1 DEF IInv, Sound, LoopKeptUp
<1> QED
    BY <1>2, <1>4, <1>5 DEF IInv, Sound, IsList

\* Reading an entry changes only what is remembered.
LEMMA TouchIsSound ==
  ASSUME NEW l, Sound(l), NEW i
  PROVE  Sound(Touch(l, i))
<1> DEFINE With(cache, lost) ==
             [blocks |-> l.blocks, room |-> l.room, moves |-> l.moves, total |-> l.total,
              rev |-> l.rev, cache |-> cache, iter |-> l.iter, added |-> l.added,
              lost |-> lost]
<1>1. ASSUME NEW cache, NEW lost PROVE Sound(With(cache, lost))
    BY DEF Sound, IsList
<1>2. l = With(l.cache, l.lost)
    BY DEF Sound, IsList
<1>3. CASE Touch(l, i) = [l EXCEPT !.lost = TRUE]
  <2>1. Touch(l, i) = With(l.cache, TRUE)
    BY <1>2, <1>3
  <2> QED
    BY <1>1, <2>1
<1>4. CASE Touch(l, i) = [l EXCEPT !.cache = EntryBlock(l, i)]
  <2>1. Touch(l, i) = With(EntryBlock(l, i), l.lost)
    BY <1>2, <1>4
  <2> QED
    BY <1>1, <2>1
<1> QED
    BY <1>3, <1>4 DEF Touch

LEMMA SetIInv == ASSUME NEW i, NEW v \in Values PROVE IInv /\ ListSet(i, v) => IInv'
<1> SUFFICES ASSUME IInv, ListSet(i, v) PROVE IInv'
    OBVIOUS
<1>1. IsList(list) /\ Filled(list.blocks, list.room, list.total)
    BY DEF IInv, Sound
<1>2. CASE list' = [list EXCEPT !.lost = TRUE]
  <2>1. list' = [blocks |-> list.blocks, room |-> list.room, moves |-> list.moves,
                 total |-> list.total, rev |-> list.rev, cache |-> list.cache,
                 iter |-> list.iter, added |-> list.added, lost |-> TRUE]
    BY <1>1, <1>2 DEF IsList
  <2> QED
    BY <2>1 DEF IInv, Sound, IsList
<1>3. CASE list' = Replaced(list, i, v)
  <2> DEFINE e == EntryBlock(list, i)
             blocks == [list.blocks EXCEPT ![e.block][i - e.offset] = v]
  <2>1. Filled(blocks, list.room, list.total)
    BY <1>1, BlocksWithOther
  <2>2. list' = [list EXCEPT !.blocks = blocks, !.cache = e, !.added[i] = v]
    BY <1>1, <1>3 DEF Replaced, IsList
  <2> HIDE DEF e, blocks
  <2>3. list' = [blocks |-> blocks, room |-> list.room, moves |-> list.moves,
                 total |-> list.total, rev |-> list.rev, cache |-> e, iter |-> list.iter,
                 added |-> [list.added EXCEPT ![i] = v], lost |-> list.lost]
    BY <1>1, <2>2 DEF IsList
  <2> QED
    BY <2>1, <2>3 DEF IInv, Sound, IsList
<1> QED
    BY <1>2, <1>3 DEF ListSet

LEMMA NewIteratorIInv == IInv /\ NewIterator => IInv'
<1> SUFFICES ASSUME IInv, NewIterator PROVE IInv'
    OBVIOUS
<1> DEFINE iter == [on |-> TRUE, idx |-> 0, len |-> list.total, rev |-> list.rev,
                    failed |-> FALSE]
<1>1. list' = [list EXCEPT !.iter = iter]
    BY DEF NewIterator
<1>2. LoopKeptUp(iter, list.rev, list.total)
    BY DEF IInv, Sound, LoopKeptUp, IsIter
<1> HIDE DEF iter
<1>3. list' = [blocks |-> list.blocks, room |-> list.room, moves |-> list.moves,
               total |-> list.total, rev |-> list.rev, cache |-> list.cache,
               iter |-> iter, added |-> list.added, lost |-> list.lost]
    BY <1>1 DEF IInv, Sound, IsList
<1> QED
    BY <1>2, <1>3 DEF IInv, Sound, IsList

\* A loop that goes on, or stops, is still as old as it was.
LEMMA LoopChanged ==
  ASSUME NEW iter, NEW rev, NEW total, LoopKeptUp(iter, rev, total), NEW failed
  PROVE  /\ LoopKeptUp([iter EXCEPT !.idx = @ + 1], rev, total)
         /\ LoopKeptUp([iter EXCEPT !.on = FALSE], rev, total)
         /\ LoopKeptUp([iter EXCEPT !.on = FALSE, !.failed = failed], rev, total)
<1>1. {"on", "idx", "len", "rev", "failed"} = DOMAIN iter
    BY DEF LoopKeptUp, IsIter
<1>2. LoopKeptUp([iter EXCEPT !.idx = @ + 1], rev, total)
    BY <1>1 DEF LoopKeptUp, IsIter
<1>3. LoopKeptUp([iter EXCEPT !.on = FALSE], rev, total)
    BY <1>1 DEF LoopKeptUp, IsIter
<1>4. LoopKeptUp([iter EXCEPT !.on = FALSE, !.failed = failed], rev, total)
    BY <1>1 DEF LoopKeptUp, IsIter
<1> QED
    BY <1>2, <1>3, <1>4

LEMMA IterateIInv == IInv /\ Iterate => IInv'
<1> SUFFICES ASSUME IInv, Iterate PROVE IInv'
    OBVIOUS
<1> DEFINE at == list.iter.idx + 1
           With(iter) == [list EXCEPT !.iter = iter]
           Sane(iter) == LoopKeptUp(iter, list.rev, list.total)
           next == [list.iter EXCEPT !.idx = @ + 1]
<1>1. IsList(list) /\ IsIter(list.iter) /\ list.rev \in Nat /\ Sane(list.iter)
    BY DEF IInv, Sound, LoopKeptUp
<1>2. ASSUME NEW iter, Sane(iter) PROVE Sound(With(iter))
  <2>1. With(iter) = [blocks |-> list.blocks, room |-> list.room, moves |-> list.moves,
                      total |-> list.total, rev |-> list.rev, cache |-> list.cache,
                      iter |-> iter, added |-> list.added, lost |-> list.lost]
    BY <1>1 DEF IsList
  <2> QED
    BY <1>2, <2>1 DEF IInv, Sound, IsList
<1>3. /\ Sane(next) /\ Sane([next EXCEPT !.on = FALSE])
      /\ Sane([list.iter EXCEPT !.on = FALSE, !.failed = TRUE])
  <2>1. Sane(next)
    BY <1>1, LoopChanged
  <2>2. Sane([next EXCEPT !.on = FALSE])
    BY <2>1, LoopChanged
  <2>3. Sane([list.iter EXCEPT !.on = FALSE, !.failed = TRUE])
    BY <1>1, LoopChanged
  <2> QED
    BY <2>1, <2>2, <2>3
<1>4. \/ list' = With([list.iter EXCEPT !.on = FALSE, !.failed = TRUE])
      \/ list' = With([next EXCEPT !.on = FALSE])
      \/ list' = Touch(With(next), at)
    BY <1>1 DEF Iterate, IsList, IsIter
<1> HIDE DEF With, next, Sane
<1> QED
    BY <1>2, <1>3, <1>4, TouchIsSound DEF IInv

\* An entry written behind the first block is counted like any other.
LEMMA StarvedKeepsUp ==
  ASSUME IInv, NEW v, AddStarved(v)
  PROVE  LoopKeptUp(list'.iter, list'.rev, list'.total)
<1>1. IsList(list) /\ LoopKeptUp(list.iter, list.rev, list.total)
    BY DEF IInv, Sound
<1>2. PICK blocks : list' = [list EXCEPT !.blocks = blocks, !.total = @ + 1, !.rev = @ + 1,
                                         !.added = Append(@, v)]
    BY DEF AddStarved, Added
<1>3. list'.iter = list.iter /\ list'.rev = list.rev + 1 /\ list'.total = list.total + 1
    BY <1>1, <1>2 DEF IsList
<1> QED
    BY <1>1, <1>3 DEF LoopKeptUp

\* The blocks stay as they should until there is no memory for a larger first block, and
\* a loop keeps up with the list even then.
SoundWhileFed == IF starved THEN LoopKeptUp(list.iter, list.rev, list.total) ELSE IInv

LEMMA Invariance == ListSpec => []SoundWhileFed
<1>1. ListInit => SoundWhileFed
    BY InitIInv DEF ListInit, SoundWhileFed
<1>2. SoundWhileFed /\ [ListNext]_listVars => SoundWhileFed'
  <2> SUFFICES ASSUME SoundWhileFed, [ListNext]_listVars PROVE SoundWhileFed'
      OBVIOUS
  <2>1. CASE UNCHANGED listVars
    BY <2>1 DEF listVars, IInv, SoundWhileFed
  <2>2. CASE ListNext
    <3>1. ~starved /\ IInv
      BY <2>2 DEF ListNext, SoundWhileFed
    <3>2. ASSUME NEW i, ListGet(i) PROVE IInv'
      BY <3>1, <3>2, TouchIsSound DEF IInv, ListGet
    <3>3. ASSUME AddRefused PROVE IInv'
      BY <3>1, <3>3 DEF IInv, AddRefused
    <3>4. CASE ListStep /\ UNCHANGED starved
      <4>1. IInv'
        BY <3>1, <3>2, <3>3, <3>4, AddIInv, SetIInv, NewIteratorIInv, IterateIInv DEF ListStep
      <4> QED
        BY <3>1, <3>4, <4>1 DEF SoundWhileFed
    <3>5. CASE \E v \in Values : AddStarved(v)
      <4>1. PICK v \in Values : AddStarved(v)
        BY <3>5
      <4>2. starved'
        BY <4>1 DEF AddStarved
      <4>3. LoopKeptUp(list'.iter, list'.rev, list'.total)
        BY <3>1, <4>1, StarvedKeepsUp
      <4> QED
        BY <4>2, <4>3 DEF SoundWhileFed
    <3> QED
      BY <2>2, <3>4, <3>5 DEF ListNext
  <2> QED
    BY <2>1, <2>2
<1> QED
    BY <1>1, <1>2, PTL DEF ListSpec

-----------------------------------------------------------------------------
\* The assertions of vmlist_Add hold for any sizes of blocks as long as the first block
\* gets the memory it asks for: it grows before it overflows, and only the last block has
\* room left (vmlist.c:86-147).
THEOREM BlocksAlwaysHold == ListSpec => []BlocksHoldTheirEntries
<1>1. SoundWhileFed => BlocksHoldTheirEntries
    BY DEF SoundWhileFed, IInv, Sound, Filled, BlocksHoldTheirEntries
<1> QED
    BY <1>1, Invariance, PTL

\* A loop over a list of any length never runs past its end: it stops with an error
\* as soon as the list was added to (vmexec.c:3239-3348).
THEOREM LoopsAlwaysEnd == ListSpec => []LoopsEndWithTheList
<1>1. SoundWhileFed => LoopsEndWithTheList
    BY DEF SoundWhileFed, IInv, Sound, LoopKeptUp, LoopsEndWithTheList
<1> QED
    BY <1>1, Invariance, PTL

-----------------------------------------------------------------------------
(* Induction over the natural numbers, with a set for the formula.         *)
LEMMA Induction ==
  ASSUME NEW S, 0 \in S, \A n \in Nat : n \in S => n + 1 \in S
  PROVE  Nat \subseteq S
<1> DEFINE Less == OpToRel(<, Nat)
<1>1. SUFFICES ASSUME ~(Nat \subseteq S) PROVE FALSE
  OBVIOUS
<1>2. IsWellFoundedOn(Less, Nat)
  BY NatLessThanWellFounded
<1>3. Nat \ S # {} /\ Nat \ S \subseteq Nat
  BY <1>1
<1>4. \A x, y \in Nat : y < x => <<y, x>> \in Less
  BY DEF OpToRel
<1> HIDE DEF Less
<1>5. PICK n \in Nat \ S : \A m \in Nat \ S : ~(<<m, n>> \in Less)
  BY <1>2, <1>3, WFMin, Zenon
<1>6. n # 0 /\ n - 1 \in Nat /\ n - 1 < n /\ (n - 1) + 1 = n
  BY <1>5
<1>7. n - 1 \in S
  BY <1>4, <1>5, <1>6
<1> QED
  BY <1>5, <1>6, <1>7

\* The sums of the lengths of the first blocks, as the recursive function in Before has them.
Upto(f, blocks, k) == IF k = 0 THEN 0 ELSE f[k - 1] + Len(blocks[k])

LEMMA SumsExist ==
  ASSUME NEW blocks, NEW n \in Nat
  PROVE  \E f : f = [k \in 0 .. n |-> Upto(f, blocks, k)]
<1> DEFINE S == {m \in Nat : \E f : f = [k \in 0 .. m |-> Upto(f, blocks, k)]}
<1>1. 0 \in S
  <2> DEFINE g == [k \in 0 .. 0 |-> 0]
  <2>1. g = [k \in 0 .. 0 |-> Upto(g, blocks, k)]
    BY DEF Upto
  <2> QED
    BY <2>1
<1>2. ASSUME NEW m \in Nat, m \in S PROVE m + 1 \in S
  <2>1. PICK f : f = [k \in 0 .. m |-> Upto(f, blocks, k)]
    BY <1>2
  <2> DEFINE x == f[m] + Len(blocks[m + 1])
             g == [k \in 0 .. m + 1 |-> IF k = m + 1 THEN x ELSE f[k]]
  <2>2. \A k \in 0 .. m : f[k] = Upto(f, blocks, k)
    BY <2>1
  <2>3. \A k \in 0 .. m + 1 : g[k] = Upto(g, blocks, k)
    <3> SUFFICES ASSUME NEW k \in 0 .. m + 1 PROVE g[k] = Upto(g, blocks, k)
      OBVIOUS
    <3>1. CASE k = m + 1
      <4>1. k # 0 /\ k - 1 = m /\ m \in 0 .. m + 1 /\ m # m + 1
        BY <3>1
      <4>2. g[k] = x /\ g[k - 1] = f[m]
        BY <3>1, <4>1
      <4> HIDE DEF g
      <4> QED
        BY <3>1, <4>1, <4>2 DEF Upto
    <3>2. CASE k # m + 1
      <4>1. k \in 0 .. m /\ (k # 0 => k - 1 \in 0 .. m + 1 /\ k - 1 # m + 1)
        BY <3>2
      <4>2. g[k] = f[k] /\ (k # 0 => g[k - 1] = f[k - 1])
        BY <3>2, <4>1
      <4> HIDE DEF g
      <4> QED
        BY <2>2, <4>1, <4>2 DEF Upto
    <3> QED
      BY <3>1, <3>2
  <2>4. g = [k \in 0 .. m + 1 |-> Upto(g, blocks, k)]
    <3>1. g = [k \in 0 .. m + 1 |-> g[k]]
      OBVIOUS
    <3> HIDE DEF g
    <3> QED
      BY <2>3, <3>1
  <2> HIDE DEF g
  <2> QED
    BY <2>4
<1>3. n \in S
  BY <1>1, <1>2, Induction
<1> QED
  BY <1>3 DEF S

\* So there is a function that has them, for each chain of blocks.
LEMMA SumsDef ==
  ASSUME NEW blocks, Len(blocks) \in Nat
  PROVE  \E f : /\ f = [k \in 0 .. Len(blocks) |-> Upto(f, blocks, k)]
                /\ \A b : Before(blocks, b) = f[b - 1]
<1> DEFINE IsIt(f) == f = [k \in 0 .. Len(blocks) |->
                        IF k = 0 THEN 0 ELSE f[k - 1] + Len(blocks[k])]
           sums == CHOOSE f : IsIt(f)
<1>1. \E f : IsIt(f)
  <2>1. \E f : f = [k \in 0 .. Len(blocks) |-> Upto(f, blocks, k)]
    BY SumsExist
  <2> QED
    BY <2>1, Zenon DEF Upto
<1>2. IsIt(sums)
  BY <1>1, Zenon
<1>3. \A b : Before(blocks, b) = sums[b - 1]
  BY Zenon DEF Before
<1>4. sums = [k \in 0 .. Len(blocks) |-> Upto(sums, blocks, k)]
  BY <1>2, Zenon DEF Upto
<1> HIDE DEF sums
<1> QED
  BY <1>3, <1>4

Chain(blocks) == Len(blocks) \in Nat /\ \A b \in 1 .. Len(blocks) : Len(blocks[b]) \in Nat

\* What comes before a block: nothing before the first, and block by block more.
LEMMA BeforeSteps ==
  ASSUME NEW blocks, Chain(blocks)
  PROVE  /\ Before(blocks, 1) = 0
         /\ \A b \in 1 .. Len(blocks) :
               Before(blocks, b + 1) = Before(blocks, b) + Len(blocks[b])
<1>1. PICK f : /\ f = [k \in 0 .. Len(blocks) |-> Upto(f, blocks, k)]
               /\ \A b : Before(blocks, b) = f[b - 1]
  BY SumsDef DEF Chain
<1>2. \A k \in 0 .. Len(blocks) : f[k] = Upto(f, blocks, k)
  BY <1>1
<1>3. Before(blocks, 1) = 0
  <2>1. f[0] = 0
    BY <1>2 DEF Upto, Chain
  <2>2. Before(blocks, 1) = f[1 - 1] /\ 1 - 1 = 0
    BY <1>1
  <2> QED
    BY <2>1, <2>2
<1>4. ASSUME NEW b \in 1 .. Len(blocks)
      PROVE  Before(blocks, b + 1) = Before(blocks, b) + Len(blocks[b])
  <2>1. Before(blocks, b + 1) = f[(b + 1) - 1] /\ (b + 1) - 1 = b
    BY <1>1
  <2>2. Before(blocks, b) = f[b - 1]
    BY <1>1
  <2>3. b \in 0 .. Len(blocks) /\ b # 0
    OBVIOUS
  <2>4. f[b] = f[b - 1] + Len(blocks[b])
    BY <1>2, <2>3 DEF Upto
  <2> QED
    BY <2>1, <2>2, <2>4
<1> QED
  BY <1>3, <1>4

LEMMA BeforeIsNat ==
  ASSUME NEW blocks, Chain(blocks)
  PROVE  \A b \in 1 .. Len(blocks) + 1 : Before(blocks, b) \in Nat
<1> DEFINE n == Len(blocks)
           S == {m \in Nat : m <= n => Before(blocks, m + 1) \in Nat}
<1>1. 0 \in S
  BY BeforeSteps
<1>2. ASSUME NEW m \in Nat, m \in S PROVE m + 1 \in S
  <2> SUFFICES ASSUME m + 1 <= n PROVE Before(blocks, (m + 1) + 1) \in Nat
    OBVIOUS
  <2>1. m + 1 \in 1 .. n /\ m <= n /\ n \in Nat
    BY DEF Chain
  <2>2. Before(blocks, m + 1) \in Nat /\ Len(blocks[m + 1]) \in Nat
    BY <1>2, <2>1 DEF Chain
  <2>3. Before(blocks, (m + 1) + 1) = Before(blocks, m + 1) + Len(blocks[m + 1])
    BY <2>1, BeforeSteps
  <2> QED
    BY <2>2, <2>3
<1>3. Nat \subseteq S
  BY <1>1, <1>2, Induction
<1>4. ASSUME NEW b \in 1 .. n + 1 PROVE Before(blocks, b) \in Nat
  <2>1. b - 1 \in Nat /\ b - 1 <= n /\ (b - 1) + 1 = b
    BY DEF Chain
  <2>2. b - 1 \in S
    BY <1>3, <2>1
  <2> QED
    BY <2>1, <2>2
<1> QED
  BY <1>4

\* Blocks further on have more before them.
LEMMA BeforeGrows ==
  ASSUME NEW blocks, Chain(blocks), NEW b \in 1 .. Len(blocks) + 1
  PROVE  \A c \in b .. Len(blocks) + 1 : Before(blocks, b) <= Before(blocks, c)
<1> DEFINE n == Len(blocks)
           S == {m \in Nat : b + m <= n + 1 => Before(blocks, b) <= Before(blocks, b + m)}
<1>0. n \in Nat /\ b \in Nat /\ b >= 1
  BY DEF Chain
<1>1. 0 \in S
  BY <1>0, BeforeIsNat
<1>2. ASSUME NEW m \in Nat, m \in S PROVE m + 1 \in S
  <2> SUFFICES ASSUME b + (m + 1) <= n + 1
               PROVE  Before(blocks, b) <= Before(blocks, b + (m + 1))
    OBVIOUS
  <2> DEFINE c == b + m
  <2>1. c \in 1 .. n /\ c <= n + 1 /\ c + 1 = b + (m + 1) /\ c \in 1 .. n + 1
    BY <1>0
  <2>2. Before(blocks, b) <= Before(blocks, c) /\ Len(blocks[c]) \in Nat
    BY <1>2, <2>1 DEF Chain
  <2>3. Before(blocks, c) \in Nat /\ Before(blocks, b) \in Nat
    BY <2>1, BeforeIsNat
  <2>4. Before(blocks, c + 1) = Before(blocks, c) + Len(blocks[c])
    BY <2>1, BeforeSteps
  <2> HIDE DEF c
  <2> QED
    BY <2>1, <2>2, <2>3, <2>4
<1>3. Nat \subseteq S
  BY <1>1, <1>2, Induction
<1>4. ASSUME NEW c \in b .. n + 1 PROVE Before(blocks, b) <= Before(blocks, c)
  <2>1. c - b \in Nat /\ b + (c - b) = c /\ c <= n + 1
    BY <1>0
  <2>2. c - b \in S
    BY <1>3, <2>1
  <2> QED
    BY <2>1, <2>2
<1> QED
  BY <1>4

\* Only the lengths of the blocks before count.
LEMMA SameBefore ==
  ASSUME NEW old, NEW new, Chain(old), Chain(new), NEW n \in Nat,
         n <= Len(old), n <= Len(new), \A b \in 1 .. n : Len(new[b]) = Len(old[b])
  PROVE  \A b \in 1 .. n + 1 : Before(new, b) = Before(old, b)
<1> DEFINE S == {m \in Nat : m <= n => Before(new, m + 1) = Before(old, m + 1)}
<1>1. 0 \in S
  BY BeforeSteps
<1>2. ASSUME NEW m \in Nat, m \in S PROVE m + 1 \in S
  <2> SUFFICES ASSUME m + 1 <= n PROVE Before(new, (m + 1) + 1) = Before(old, (m + 1) + 1)
    OBVIOUS
  <2>1. m + 1 \in 1 .. n /\ m <= n /\ m + 1 \in 1 .. Len(old) /\ m + 1 \in 1 .. Len(new)
    BY DEF Chain
  <2>2. Before(new, m + 1) = Before(old, m + 1) /\ Len(new[m + 1]) = Len(old[m + 1])
    BY <1>2, <2>1
  <2>3. Before(new, (m + 1) + 1) = Before(new, m + 1) + Len(new[m + 1])
    BY <2>1, BeforeSteps
  <2>4. Before(old, (m + 1) + 1) = Before(old, m + 1) + Len(old[m + 1])
    BY <2>1, BeforeSteps
  <2> QED
    BY <2>2, <2>3, <2>4
<1>3. Nat \subseteq S
  BY <1>1, <1>2, Induction
<1>4. ASSUME NEW b \in 1 .. n + 1 PROVE Before(new, b) = Before(old, b)
  <2>1. b - 1 \in Nat /\ b - 1 <= n /\ (b - 1) + 1 = b
    OBVIOUS
  <2>2. b - 1 \in S
    BY <1>3, <2>1
  <2> QED
    BY <2>1, <2>2
<1> QED
  BY <1>4

\* Every entry is in a block, and in one only.
Within(blocks, b, i) == Before(blocks, b) < i /\ i <= Before(blocks, b) + Len(blocks[b])

LEMMA SomeBlock ==
  ASSUME NEW blocks, Chain(blocks), NEW i \in 1 .. Before(blocks, Len(blocks) + 1)
  PROVE  \E b \in 1 .. Len(blocks) : Within(blocks, b, i)
<1> DEFINE n == Len(blocks)
           S == {m \in Nat : m <= n /\ i <= Before(blocks, m + 1) =>
                                 \E b \in 1 .. n : Within(blocks, b, i)}
<1>0. n \in Nat /\ Before(blocks, n + 1) \in Nat
  <2>1. n \in Nat /\ n + 1 \in 1 .. n + 1
    BY DEF Chain
  <2> QED
    BY <2>1, BeforeIsNat
<1>1. 0 \in S
  <2>1. Before(blocks, 0 + 1) = 0
    BY BeforeSteps
  <2> QED
    BY <1>0, <2>1
<1>2. ASSUME NEW m \in Nat, m \in S PROVE m + 1 \in S
  <2> SUFFICES ASSUME m + 1 <= n, i <= Before(blocks, (m + 1) + 1)
               PROVE  \E b \in 1 .. n : Within(blocks, b, i)
    OBVIOUS
  <2>1. m + 1 \in 1 .. n /\ m <= n /\ m + 1 \in 1 .. n + 1
    BY <1>0
  <2>2. Before(blocks, (m + 1) + 1) = Before(blocks, m + 1) + Len(blocks[m + 1])
    BY <2>1, BeforeSteps
  <2>3. CASE i <= Before(blocks, m + 1)
    BY <1>2, <2>1, <2>3
  <2>4. CASE ~(i <= Before(blocks, m + 1))
    <3>1. Before(blocks, m + 1) \in Nat /\ i \in Nat
      BY <1>0, <2>1, BeforeIsNat
    <3>2. Within(blocks, m + 1, i)
      BY <2>2, <2>4, <3>1 DEF Within
    <3> QED
      BY <2>1, <3>2
  <2> QED
    BY <2>3, <2>4
<1>3. n \in S
  BY <1>0, <1>1, <1>2, Induction
<1> QED
  BY <1>0, <1>3

LEMMA OneBlock ==
  ASSUME NEW blocks, Chain(blocks), NEW b \in 1 .. Len(blocks), NEW c \in 1 .. Len(blocks),
         NEW i \in Nat, Within(blocks, b, i), Within(blocks, c, i)
  PROVE  b = c
<1>1. ASSUME NEW x \in 1 .. Len(blocks), NEW y \in 1 .. Len(blocks), x < y,
             Within(blocks, x, i), Within(blocks, y, i)
      PROVE  FALSE
  <2>1. x + 1 \in 1 .. Len(blocks) + 1 /\ y \in x + 1 .. Len(blocks) + 1
        /\ x \in 1 .. Len(blocks) + 1 /\ y \in 1 .. Len(blocks) + 1
    BY <1>1 DEF Chain
  <2>2. Before(blocks, x + 1) <= Before(blocks, y)
    BY <2>1, BeforeGrows
  <2>3. Before(blocks, x + 1) = Before(blocks, x) + Len(blocks[x])
    BY BeforeSteps
  <2>4. Before(blocks, x) \in Nat /\ Before(blocks, y) \in Nat /\ Len(blocks[x]) \in Nat
    BY <2>1, BeforeIsNat DEF Chain
  <2> QED
    BY <1>1, <2>2, <2>3, <2>4 DEF Within
<1> QED
  BY <1>1

\* Where an entry of a block is among all the entries.
LEMMA PlaceOfEntry ==
  ASSUME NEW blocks, Chain(blocks), NEW c \in 1 .. Len(blocks), NEW j \in 1 .. Len(blocks[c])
  PROVE  /\ Before(blocks, c) + j \in 1 .. Before(blocks, Len(blocks) + 1)
         /\ Within(blocks, c, Before(blocks, c) + j)
<1>1. PICK n \in Nat : n = Len(blocks)
  BY DEF Chain
<1>2. c + 1 \in 1 .. n + 1 /\ n + 1 \in c + 1 .. n + 1 /\ c \in 1 .. n + 1 /\ n + 1 \in 1 .. n + 1
  BY <1>1
<1>3. Before(blocks, c + 1) <= Before(blocks, n + 1)
  BY <1>1, <1>2, BeforeGrows
<1>4. Before(blocks, c + 1) = Before(blocks, c) + Len(blocks[c])
  BY BeforeSteps
<1>5. Before(blocks, c) \in Nat /\ Before(blocks, n + 1) \in Nat
  BY <1>1, <1>2, BeforeIsNat
<1>6. Len(blocks[c]) \in Nat
  BY DEF Chain
<1>7. Before(blocks, c) + j \in 1 .. Before(blocks, n + 1)
  BY <1>3, <1>4, <1>5, <1>6
<1>8. Within(blocks, c, Before(blocks, c) + j)
  BY <1>5, <1>6 DEF Within
<1> QED
  BY <1>1, <1>7, <1>8

-----------------------------------------------------------------------------
\* Each block holds the entries added after those before it, and the remembered block
\* is remembered with the entries before it.
IsCache(c) == c = [block |-> c.block, offset |-> c.offset, moves |-> c.moves]
Placed(blocks, added) ==
  /\ added \in Seq(Values)
  /\ Len(added) = Before(blocks, Len(blocks) + 1)
  /\ \A b \in 1 .. Len(blocks) : \A j \in 1 .. Len(blocks[b]) :
        added[Before(blocks, b) + j] = blocks[b][j]
Remembered(blocks, cache) ==
  /\ IsCache(cache) /\ cache.block \in 0 .. Len(blocks)
  /\ cache.block # 0 => cache.offset = Before(blocks, cache.block)

Stored(l) ==
  /\ Placed(l.blocks, l.added) /\ Remembered(l.blocks, l.cache)
  /\ l.total = Len(l.added)
  /\ l.iter.idx \in Nat

LEMMA FilledIsChain ==
  ASSUME NEW blocks, NEW room, NEW total, Filled(blocks, room, total)
  PROVE  /\ Chain(blocks) /\ Len(blocks) >= 1 /\ DOMAIN blocks = 1 .. Len(blocks)
         /\ \A b \in 1 .. Len(blocks) : blocks[b] \in Seq(Values)
  BY LastOfBlocks DEF Filled, Chain

\* The block vmlist_GetEntryBlock finds is the one that has the entry.
LEMMA EntryBlockFinds ==
  ASSUME NEW l, Sound(l), Stored(l), NEW i \in 1 .. l.total
  PROVE  LET e == EntryBlock(l, i) IN
         /\ IsCache(e) /\ e.block \in 1 .. Len(l.blocks)
         /\ e.offset = Before(l.blocks, e.block) /\ Within(l.blocks, e.block, i)
<1> DEFINE bs == l.blocks
           n == Len(bs)
           c == l.cache
           Good(e) == /\ IsCache(e) /\ e.block \in 1 .. n
                      /\ e.offset = Before(bs, e.block) /\ Within(bs, e.block, i)
<1>1. /\ Chain(bs) /\ n \in Nat /\ DOMAIN bs = 1 .. n
      /\ IsCache(c) /\ c.block \in 0 .. n /\ (c.block # 0 => c.offset = Before(bs, c.block))
      /\ i \in 1 .. Before(bs, n + 1)
  <2>1. Filled(bs, l.room, l.total) /\ Placed(bs, l.added) /\ Remembered(bs, c)
        /\ l.total = Len(l.added)
    BY DEF Sound, Stored
  <2>2. Chain(bs) /\ DOMAIN bs = 1 .. n
    BY <2>1, FilledIsChain
  <2>3. l.total = Before(bs, n + 1)
    BY <2>1 DEF Placed
  <2> HIDE DEF bs, c
  <2> QED
    BY <2>1, <2>2, <2>3 DEF Remembered, Chain
<1>2. \A b, offset : Holds(l, b, offset, i) <=> offset < i /\ offset + Len(bs[b]) >= i
  BY DEF Holds
<1>3. \A b \in 1 .. n : Before(bs, b) \in Nat /\ Len(bs[b]) \in Nat
  <2>1. \A b \in 1 .. n : b \in 1 .. n + 1 /\ Len(bs[b]) \in Nat
    BY <1>1 DEF Chain
  <2> HIDE DEF bs, n
  <2>2. \A b \in 1 .. Len(bs) + 1 : Before(bs, b) \in Nat
    BY <1>1, BeforeIsNat
  <2> QED
    BY <2>1, <2>2 DEF n
<1>4. \A b \in 1 .. n : Holds(l, b, Before(bs, b), i) <=> Within(bs, b, i)
  BY <1>2, <1>3 DEF Within
<1>5. CASE c.block # 0 /\ Holds(l, c.block, c.offset, i)
  <2>1. Good(c)
    BY <1>1, <1>4, <1>5
  <2>2. EntryBlock(l, i) = c
    BY <1>5 DEF EntryBlock
  <2> QED
    BY <2>1, <2>2
<1>6. CASE /\ ~(c.block # 0 /\ Holds(l, c.block, c.offset, i))
           /\ c.block \in 1 .. (n - 1)
           /\ c.offset < i /\ ~Holds(l, c.block, c.offset, i)
           /\ Holds(l, c.block + 1, c.offset + Len(bs[c.block]), i)
  <2> DEFINE b == c.block + 1
             e == [block |-> b, offset |-> c.offset + Len(bs[c.block]), moves |-> l.moves]
  <2>1. EntryBlock(l, i) = NextOfCache(l)
    BY <1>6 DEF EntryBlock
  <2>2. NextOfCache(l) = e
    <3>1. c = [block |-> c.block, offset |-> c.offset, moves |-> c.moves]
      BY <1>1 DEF IsCache
    <3>2. NextOfCache(l) = [c EXCEPT !.block = @ + 1, !.offset = @ + Len(bs[c.block]),
                                     !.moves = l.moves]
      BY DEF NextOfCache
    <3> HIDE DEF c, bs
    <3> QED
      BY <3>1, <3>2
  <2>3. b \in 1 .. n /\ c.block \in 1 .. n /\ c.block # 0
    BY <1>1, <1>6
  <2>4. c.offset + Len(bs[c.block]) = Before(bs, b)
    BY <1>1, <2>3, BeforeSteps
  <2>5. Within(bs, b, i)
    BY <1>4, <1>6, <2>3, <2>4
  <2>6. Good(e)
    BY <2>3, <2>4, <2>5 DEF IsCache
  <2> HIDE DEF e, Good
  <2> QED
    BY <2>1, <2>2, <2>6 DEF Good
<1>7. CASE EntryBlock(l, i) = Scan(l, i)
  <2> DEFINE b == CHOOSE m \in 1 .. n : Holds(l, m, Before(bs, m), i)
             e == [block |-> b, offset |-> Before(bs, b), moves |-> l.moves]
  <2>1. \E m \in 1 .. n : Holds(l, m, Before(bs, m), i)
    BY <1>1, <1>4, SomeBlock
  <2>2. b \in 1 .. n /\ Holds(l, b, Before(bs, b), i)
    BY <2>1, Zenon
  <2>3. Scan(l, i) = e
    BY <1>1, Zenon DEF Scan
  <2> HIDE DEF b
  <2>4. Within(bs, b, i)
    BY <1>4, <2>2
  <2>5. Good(e)
    BY <2>2, <2>4 DEF IsCache
  <2> HIDE DEF e, Good
  <2> QED
    BY <1>7, <2>3, <2>5 DEF Good
<1> QED
  BY <1>5, <1>6, <1>7 DEF EntryBlock

LEMMA FoundAll == ASSUME Sound(list), Stored(list) PROVE EntriesAreFound
<1> SUFFICES ASSUME NEW i \in 1 .. list.total
             PROVE  LET e == EntryBlock(list, i)
                    IN  /\ i - e.offset \in DOMAIN list.blocks[e.block]
                        /\ list.blocks[e.block][i - e.offset] = list.added[i]
  BY DEF EntriesAreFound
<1> DEFINE e == EntryBlock(list, i)
           bs == list.blocks
<1>1. e.block \in 1 .. Len(bs) /\ e.offset = Before(bs, e.block) /\ Within(bs, e.block, i)
  BY EntryBlockFinds
<1> HIDE DEF e
<1>2. PICK b \in 1 .. Len(bs) : b = e.block
  BY <1>1
<1>3. Chain(bs) /\ bs[b] \in Seq(Values) /\ Len(bs[b]) \in Nat
  BY FilledIsChain DEF Sound, Chain
<1>4. Before(bs, b) \in Nat
  <2>1. b \in 1 .. Len(bs) + 1
    BY <1>3 DEF Chain
  <2> QED
    BY <1>3, <2>1, BeforeIsNat
<1>5. list.total \in Nat /\ i \in Nat
  BY DEF Sound, Filled
<1>6. i - Before(bs, b) \in 1 .. Len(bs[b])
  BY <1>1, <1>2, <1>3, <1>4, <1>5 DEF Within
<1>7. DOMAIN bs[b] = 1 .. Len(bs[b])
  BY <1>3, LenProperties
<1>8. list.added[Before(bs, b) + (i - Before(bs, b))] = bs[b][i - Before(bs, b)]
  BY <1>6 DEF Stored, Placed
<1>9. Before(bs, b) + (i - Before(bs, b)) = i
  BY <1>4, <1>5
<1> QED
  BY <1>1, <1>2, <1>6, <1>7, <1>8, <1>9 DEF e

-----------------------------------------------------------------------------
\* The last block has one entry more, or is a new one with one entry.
OneMore(blocks, added, new, more, q, m, old) ==
  /\ q = Len(new) /\ q \in {Len(blocks), Len(blocks) + 1} /\ q >= 1
  /\ m = Len(added) /\ more \in Seq(Values) /\ Len(more) = m + 1
  /\ \A k \in 1 .. m : more[k] = added[k]
  /\ \A b \in 1 .. q - 1 : new[b] = blocks[b]
  /\ old = IF q = Len(blocks) THEN Len(blocks[q]) ELSE 0
  /\ Len(new[q]) = old + 1 /\ new[q][old + 1] = more[m + 1]
  /\ \A j \in 1 .. old : new[q][j] = blocks[q][j]

LEMMA PlacedWithOneMore ==
  ASSUME NEW blocks, Chain(blocks), NEW added, Placed(blocks, added),
         NEW new, Chain(new), NEW more, NEW q, NEW m, NEW old,
         OneMore(blocks, added, new, more, q, m, old)
  PROVE  /\ Placed(new, more)
         /\ \A b \in 1 .. Len(blocks) : Before(new, b) = Before(blocks, b)
<1>0. /\ q = Len(new) /\ q \in {Len(blocks), Len(blocks) + 1} /\ q >= 1
      /\ m = Len(added) /\ more \in Seq(Values) /\ Len(more) = m + 1
      /\ \A k \in 1 .. m : more[k] = added[k]
      /\ \A b \in 1 .. q - 1 : new[b] = blocks[b]
      /\ old = IF q = Len(blocks) THEN Len(blocks[q]) ELSE 0
      /\ Len(new[q]) = old + 1 /\ new[q][old + 1] = more[m + 1]
      /\ \A j \in 1 .. old : new[q][j] = blocks[q][j]
  BY DEF OneMore
<1> USE <1>0
<1>1. PICK n : n = Len(blocks)
  OBVIOUS
<1>2. n \in Nat /\ q \in Nat /\ q \in {n, n + 1} /\ old \in Nat /\ m \in Nat
  BY <1>1, LenProperties DEF Chain, Placed
<1>3. \A b \in 1 .. q : Before(new, b) = Before(blocks, b)
  <2>0. q - 1 \in Nat
    BY <1>1, <1>2
  <2>1. PICK p \in Nat : p = q - 1
    BY <2>0, Zenon
  <2>2. p <= Len(blocks) /\ p <= Len(new) /\ p + 1 = q
        /\ \A b \in 1 .. p : Len(new[b]) = Len(blocks[b])
    BY <1>1, <1>2, <2>1
  <2>3. \A b \in 1 .. p + 1 : Before(new, b) = Before(blocks, b)
    BY <2>2, SameBefore
  <2> QED
    BY <2>2, <2>3
<1>4. \A b \in 1 .. n + 1 : Before(blocks, b) \in Nat
  BY <1>1, BeforeIsNat
<1>5. Before(blocks, q) \in Nat /\ m = Before(blocks, q) + old /\ Before(new, q) = Before(blocks, q)
  <2>1. q \in 1 .. n + 1 /\ q \in 1 .. q
    BY <1>2
  <2>2. Before(blocks, q) \in Nat /\ Before(new, q) = Before(blocks, q)
    BY <1>3, <1>4, <2>1
  <2>3. m = Before(blocks, n + 1)
    BY <1>1 DEF Placed
  <2>4. CASE q = n
    <3>1. Before(blocks, n + 1) = Before(blocks, n) + Len(blocks[n])
      BY <1>1, <1>2, <2>4, BeforeSteps
    <3>2. Len(blocks[q]) \in Nat /\ old = Len(blocks[q]) /\ Before(new, q) = Before(blocks, q)
      BY <1>1, <1>2, <2>2, <2>4 DEF Chain
    <3>3. m = Before(blocks, q) + Len(blocks[q])
      BY <2>3, <2>4, <3>1
    <3> QED
      BY <2>2, <3>2, <3>3
  <2>5. CASE q # n
    BY <1>1, <1>2, <2>2, <2>3, <2>5
  <2> QED
    BY <2>4, <2>5
<1>6. Before(new, q + 1) = m + 1
  <2>1. Before(new, q + 1) = Before(new, q) + Len(new[q])
    BY <1>2, BeforeSteps
  <2> QED
    BY <1>2, <1>5, <2>1
<1>7. ASSUME NEW b \in 1 .. n, NEW j \in 1 .. Len(blocks[b])
      PROVE  Before(blocks, b) + j \in 1 .. m /\ added[Before(blocks, b) + j] = blocks[b][j]
  <2>1. Before(blocks, b) + j \in 1 .. Before(blocks, n + 1)
    BY <1>1, PlaceOfEntry
  <2>2. m = Before(blocks, n + 1)
    BY <1>1 DEF Placed
  <2> QED
    BY <1>1, <2>1, <2>2 DEF Placed
<1>8. ASSUME NEW b \in 1 .. q, NEW j \in 1 .. Len(new[b])
      PROVE  more[Before(new, b) + j] = new[b][j]
  <2>1. CASE b = q /\ j = old + 1
    <3>1. Before(new, b) + j = m + 1
      BY <1>2, <1>5, <2>1
    <3> QED
      BY <2>1, <3>1
  <2>2. CASE ~(b = q /\ j = old + 1)
    <3>1. b \in 1 .. n /\ j \in 1 .. Len(blocks[b]) /\ new[b][j] = blocks[b][j]
      <4>1. CASE b = q
        <5>1. j \in 1 .. old
          BY <1>2, <2>2, <4>1
        <5>2. q = n
          BY <1>1, <1>2, <5>1
        <5> QED
          BY <1>1, <1>2, <4>1, <5>1, <5>2
      <4>2. CASE b # q
        <5>1. b \in 1 .. q - 1 /\ b \in 1 .. n
          BY <1>2, <4>2
        <5> QED
          BY <5>1
      <4> QED
        BY <4>1, <4>2
    <3>2. Before(new, b) = Before(blocks, b)
      BY <1>3
    <3>3. Before(blocks, b) + j \in 1 .. m /\ added[Before(blocks, b) + j] = blocks[b][j]
      BY <1>7, <3>1
    <3> QED
      BY <3>1, <3>2, <3>3
  <2> QED
    BY <2>1, <2>2
<1>9. Placed(new, more)
  BY <1>6, <1>8 DEF Placed
<1>10. \A b \in 1 .. n : Before(new, b) = Before(blocks, b)
  BY <1>2, <1>3
<1> QED
  BY <1>1, <1>9, <1>10

\* One entry is another, in its block and among all.
OneOther(blocks, added, b, i, v, new, more) ==
  /\ Len(new) = Len(blocks)
  /\ \A c \in 1 .. Len(blocks) : c # b => new[c] = blocks[c]
  /\ Len(new[b]) = Len(blocks[b])
  /\ \A j \in 1 .. Len(blocks[b]) :
        new[b][j] = IF j = i - Before(blocks, b) THEN v ELSE blocks[b][j]
  /\ more \in Seq(Values) /\ Len(more) = Len(added)
  /\ \A k \in 1 .. Len(added) : more[k] = IF k = i THEN v ELSE added[k]

LEMMA PlacedWithOther ==
  ASSUME NEW blocks, Chain(blocks), NEW added, Placed(blocks, added),
         NEW b \in 1 .. Len(blocks), NEW i \in Nat, Within(blocks, b, i), NEW v,
         NEW new, Chain(new), NEW more, OneOther(blocks, added, b, i, v, new, more)
  PROVE  /\ Placed(new, more)
         /\ \A c \in 1 .. Len(blocks) : Before(new, c) = Before(blocks, c)
<1>0. /\ Len(new) = Len(blocks)
      /\ \A c \in 1 .. Len(blocks) : c # b => new[c] = blocks[c]
      /\ Len(new[b]) = Len(blocks[b])
      /\ \A j \in 1 .. Len(blocks[b]) :
            new[b][j] = IF j = i - Before(blocks, b) THEN v ELSE blocks[b][j]
      /\ more \in Seq(Values) /\ Len(more) = Len(added)
      /\ \A k \in 1 .. Len(added) : more[k] = IF k = i THEN v ELSE added[k]
  BY DEF OneOther
<1> USE <1>0
<1>1. PICK n \in Nat : n = Len(blocks)
  BY DEF Chain
<1>2. \A c \in 1 .. n : Len(new[c]) = Len(blocks[c])
  BY <1>1
<1>3. \A c \in 1 .. n + 1 : Before(new, c) = Before(blocks, c)
  <2>1. n <= Len(blocks) /\ n <= Len(new)
    BY <1>1
  <2> QED
    BY <1>2, <2>1, SameBefore
<1>4. ASSUME NEW c \in 1 .. n, NEW j \in 1 .. Len(blocks[c])
      PROVE  more[Before(blocks, c) + j] = new[c][j]
  <2>1. PICK k : k = Before(blocks, c) + j
    OBVIOUS
  <2>2. k \in 1 .. Before(blocks, n + 1) /\ Within(blocks, c, k)
    BY <1>1, <2>1, PlaceOfEntry
  <2>3. k \in 1 .. Len(added) /\ added[k] = blocks[c][j]
    BY <1>1, <2>1, <2>2 DEF Placed
  <2>4. c \in 1 .. n + 1 /\ b \in 1 .. n + 1
    BY <1>1
  <2>5. Before(blocks, c) \in Nat
    BY <1>1, <2>4, BeforeIsNat
  <2>6. CASE c = b
    <3>1. (k = i) <=> (j = i - Before(blocks, b))
      BY <2>1, <2>5, <2>6
    <3> QED
      BY <2>1, <2>3, <2>6, <3>1
  <2>7. CASE c # b
    <3>1. k # i
      <4>1. SUFFICES ASSUME k = i PROVE FALSE
        OBVIOUS
      <4>2. Within(blocks, c, i)
        BY <2>2, <4>1
      <4> QED
        BY <1>1, <2>7, <4>2, OneBlock
    <3> QED
      BY <1>1, <2>1, <2>3, <2>7, <3>1
  <2> QED
    BY <2>6, <2>7
<1>5. n + 1 \in 1 .. n + 1
  BY <1>1
<1>6. Before(new, n + 1) = Before(blocks, n + 1)
  BY <1>3, <1>5
<1>7. Len(more) = Before(new, Len(new) + 1)
  BY <1>1, <1>6 DEF Placed
<1>8. ASSUME NEW c \in 1 .. Len(new), NEW j \in 1 .. Len(new[c])
      PROVE  more[Before(new, c) + j] = new[c][j]
  <2>1. c \in 1 .. n /\ c \in 1 .. n + 1 /\ j \in 1 .. Len(blocks[c])
    BY <1>1, <1>2
  <2>2. Before(new, c) = Before(blocks, c)
    BY <1>3, <2>1
  <2> QED
    BY <1>4, <2>1, <2>2
<1>9. Placed(new, more)
  BY <1>7, <1>8 DEF Placed
<1>10. \A c \in 1 .. n : Before(new, c) = Before(blocks, c)
  <2> SUFFICES ASSUME NEW c \in 1 .. n PROVE Before(new, c) = Before(blocks, c)
    OBVIOUS
  <2>1. c \in 1 .. n + 1
    OBVIOUS
  <2> QED
    BY <1>3, <2>1
<1> QED
  BY <1>1, <1>9, <1>10

-----------------------------------------------------------------------------
LEMMA InitStored == ListInit => Stored(list)
<1> SUFFICES ASSUME ListInit PROVE Stored(list)
  OBVIOUS
<1>1. PICK blocks : blocks = <<<<>>>>
  OBVIOUS
<1>2. /\ list.blocks = blocks /\ list.total = 0 /\ list.iter.idx = 0
      /\ list.cache = [block |-> 0, offset |-> 0, moves |-> 0] /\ list.added = <<>>
  BY <1>1 DEF ListInit, NoIter, NoCache
<1>3. Len(blocks) = 1 /\ Len(blocks[1]) = 0
  BY <1>1
<1>4. Chain(blocks)
  BY <1>3 DEF Chain
<1>5. Before(blocks, 1 + 1) = 0
  BY <1>3, <1>4, BeforeSteps
<1>6. <<>> \in Seq(Values) /\ Len(<<>>) = 0
  BY EmptySeq
<1>7. \A b \in 1 .. Len(blocks) : \A j \in 1 .. Len(blocks[b]) : FALSE
  BY <1>3
<1>8. Placed(blocks, <<>>)
  BY <1>3, <1>5, <1>6, <1>7 DEF Placed
<1>9. Remembered(blocks, [block |-> 0, offset |-> 0, moves |-> 0])
  BY <1>3 DEF Remembered, IsCache
<1> QED
  BY <1>2, <1>6, <1>8, <1>9 DEF Stored

\* The first block grows where nothing is remembered of it but how often it moved.
LEMMA GrowKeepsCache == ASSUME NEW l, IsList(l) PROVE Grow(l).cache = l.cache
<1>1. CASE ~MustGrow(l)
  BY <1>1 DEF Grow
<1>2. CASE MustGrow(l)
  <2>1. PICK size : size = Lesser(BlockSize, Greater(2 * l.room, Len(l.blocks[1]) + 1))
    OBVIOUS
  <2>2. Grow(l) = [l EXCEPT !.room = size, !.moves = @ + 1]
    BY <1>2, <2>1 DEF Grow
  <2> QED
    BY <2>2 DEF IsList
<1> QED
  BY <1>1, <1>2

\* The blocks after an entry was added, and after one was replaced.
WithOneMore(blocks, v) ==
  IF Len(blocks[Len(blocks)]) >= BlockSize THEN Append(blocks, <<v>>)
  ELSE [blocks EXCEPT ![Len(blocks)] = Append(blocks[Len(blocks)], v)]
WithOther(blocks, b, at, v) == [blocks EXCEPT ![b][at] = v]
OtherEntry(added, i, v) == [added EXCEPT ![i] = v]

\* The same entries in the same blocks, one more at the end of the last one.
LEMMA AddedIsPlaced ==
  ASSUME NEW blocks, NEW room, NEW total, Filled(blocks, room, total),
         NEW added, Placed(blocks, added), NEW v \in Values, NEW new,
         new = WithOneMore(blocks, v), Chain(new)
  PROVE  /\ Placed(new, Append(added, v)) /\ Len(new) >= Len(blocks)
         /\ \A b \in 1 .. Len(blocks) : Before(new, b) = Before(blocks, b)
<1>1. PICK n \in Nat : n = Len(blocks)
  BY DEF Filled
<1>2. PICK m \in Nat : m = Len(added)
  BY LenProperties DEF Placed
<1>3. PICK more : more = Append(added, v)
  OBVIOUS
<1>4. /\ more \in Seq(Values) /\ Len(more) = m + 1 /\ more[m + 1] = v
      /\ \A k \in 1 .. m : more[k] = added[k]
  BY <1>2, <1>3, AppendProperties DEF Placed
<1>5. Chain(blocks) /\ n >= 1 /\ blocks \in Seq(Seq(Values)) /\ blocks[n] \in Seq(Values)
  <2>1. Chain(blocks) /\ n >= 1 /\ blocks \in Seq(Seq(Values))
    BY <1>1, FilledIsChain DEF Filled
  <2>2. n \in 1 .. Len(blocks)
    BY <1>1, <2>1
  <2> QED
    BY <2>1, <2>2, FilledIsChain
<1>6. CASE Len(blocks[n]) >= BlockSize
  <2>0. <<v>> \in Seq(Values)
    OBVIOUS
  <2>1. new = Append(blocks, <<v>>)
    BY <1>1, <1>6 DEF WithOneMore
  <2>2. Len(new) = n + 1 /\ new[n + 1] = <<v>> /\ \A b \in 1 .. n : new[b] = blocks[b]
    BY <1>1, <1>5, <2>0, <2>1, AppendProperties
  <2>3. PICK q : q = n + 1
    OBVIOUS
  <2>4. /\ q = Len(new) /\ q \in {Len(blocks), Len(blocks) + 1} /\ q >= 1
        /\ \A b \in 1 .. q - 1 : new[b] = blocks[b]
    BY <1>1, <2>2, <2>3
  <2>5. 0 = IF q = Len(blocks) THEN Len(blocks[q]) ELSE 0
    BY <1>1, <2>3
  <2>6. Len(new[q]) = 0 + 1 /\ new[q][0 + 1] = more[m + 1]
    <3>1. Len(<<v>>) = 0 + 1 /\ <<v>>[0 + 1] = v
      OBVIOUS
    <3> QED
      BY <1>4, <2>2, <2>3, <3>1, Zenon
  <2>7. \A j \in 1 .. 0 : new[q][j] = blocks[q][j]
    OBVIOUS
  <2>8. /\ Placed(new, more)
        /\ \A b \in 1 .. Len(blocks) : Before(new, b) = Before(blocks, b)
    <3>1. OneMore(blocks, added, new, more, q, m, 0)
      BY <1>2, <1>4, <2>4, <2>5, <2>6, <2>7, Zenon DEF OneMore
    <3> QED
      BY <1>5, <3>1, PlacedWithOneMore
  <2>9. Len(new) >= Len(blocks)
    BY <1>1, <2>2
  <2> QED
    BY <1>3, <2>8, <2>9, Zenon
<1>7. CASE ~(Len(blocks[n]) >= BlockSize)
  <2>1. PICK block : block = Append(blocks[n], v)
    OBVIOUS
  <2>2. PICK old \in Nat : old = Len(blocks[n])
    BY <1>5, LenProperties
  <2>3. /\ block \in Seq(Values) /\ Len(block) = old + 1 /\ block[old + 1] = v
        /\ \A j \in 1 .. old : block[j] = blocks[n][j]
    BY <1>5, <2>1, <2>2, AppendProperties
  <2>4. new = [blocks EXCEPT ![n] = block]
    BY <1>1, <1>7, <2>1 DEF WithOneMore
  <2>5. n \in 1 .. Len(blocks)
    BY <1>1, <1>5
  <2>6. /\ Len(new) = n
        /\ \A b \in 1 .. n : new[b] = IF b = n THEN block ELSE blocks[b]
    BY <1>1, <1>5, <2>3, <2>4, <2>5, ExceptSeq
  <2>7. new[n] = block /\ \A b \in 1 .. n - 1 : new[b] = blocks[b]
    BY <1>5, <2>6
  <2>8. old = IF n = Len(blocks) THEN Len(blocks[n]) ELSE 0
    BY <1>1, <2>2
  <2>9. n \in {Len(blocks), Len(blocks) + 1} /\ n = Len(new) /\ n >= 1
    BY <1>1, <1>5, <2>6
  <2>10. /\ Len(new[n]) = old + 1 /\ new[n][old + 1] = more[m + 1]
         /\ \A j \in 1 .. old : new[n][j] = blocks[n][j]
    BY <1>4, <2>3, <2>7
  <2>11. /\ Placed(new, more)
         /\ \A b \in 1 .. Len(blocks) : Before(new, b) = Before(blocks, b)
    <3>1. OneMore(blocks, added, new, more, n, m, old)
      BY <1>2, <1>4, <2>7, <2>8, <2>9, <2>10, Zenon DEF OneMore
    <3> QED
      BY <1>5, <3>1, PlacedWithOneMore
  <2>12. Len(new) >= Len(blocks)
    BY <1>1, <2>6
  <2> QED
    BY <1>3, <2>11, <2>12, Zenon
<1> QED
  BY <1>6, <1>7

LEMMA AddStored ==
  ASSUME NEW v \in Values, IInv, Stored(list), ListAdd(v) PROVE Stored(list')
<1> DEFINE g == Grow(list)
           n == Len(g.blocks)
           blocks == IF Len(g.blocks[n]) >= BlockSize THEN Append(g.blocks, <<v>>)
                     ELSE [g.blocks EXCEPT ![n] = Append(g.blocks[n], v)]
<1>1. /\ IsList(g) /\ Filled(g.blocks, g.room, g.total)
      /\ g.blocks = list.blocks /\ g.total = list.total /\ g.rev = list.rev
      /\ g.iter = list.iter /\ g.added = list.added
      /\ Len(g.blocks) = 1 => Len(g.blocks[1]) < g.room \/ Len(g.blocks[1]) >= BlockSize
  BY RoomForOneMore DEF IInv
<1>2. g.cache = list.cache
  BY GrowKeepsCache DEF IInv, Sound
<1>3. Filled(blocks, g.room, g.total + 1)
  BY <1>1, BlocksWithOneMore
<1>4. list' = [g EXCEPT !.blocks = blocks, !.total = @ + 1, !.rev = @ + 1,
                        !.added = Append(@, v)]
  BY <1>1 DEF ListAdd, Added, IsList
<1>5. PICK new : new = blocks
  OBVIOUS
<1>6. new = WithOneMore(g.blocks, v)
  BY <1>5, Zenon DEF WithOneMore
<1>7. Chain(new)
  BY <1>3, <1>5, FilledIsChain
<1> HIDE DEF g, blocks
<1>8. list' = [blocks |-> new, room |-> g.room, moves |-> g.moves, total |-> g.total + 1,
               rev |-> g.rev + 1, cache |-> g.cache, iter |-> g.iter,
               added |-> Append(g.added, v), lost |-> g.lost]
  BY <1>1, <1>4, <1>5 DEF IsList
<1>9. Placed(g.blocks, g.added) /\ Remembered(g.blocks, g.cache) /\ g.total = Len(g.added)
      /\ g.iter.idx \in Nat
  BY <1>1, <1>2 DEF Stored
<1>10. /\ Placed(new, Append(g.added, v)) /\ Len(new) >= Len(g.blocks)
       /\ \A b \in 1 .. Len(g.blocks) : Before(new, b) = Before(g.blocks, b)
  BY <1>1, <1>6, <1>7, <1>9, AddedIsPlaced
<1>11. Remembered(new, g.cache)
  <2>1. IsCache(g.cache) /\ g.cache.block \in 0 .. Len(g.blocks)
        /\ (g.cache.block # 0 => g.cache.offset = Before(g.blocks, g.cache.block))
    BY <1>9 DEF Remembered
  <2>2. PICK b \in 0 .. Len(g.blocks) : b = g.cache.block
    BY <2>1
  <2>3. Len(g.blocks) \in Nat /\ Len(new) \in Nat
    BY <1>1, <1>7 DEF Filled, Chain
  <2>4. b \in 0 .. Len(new) /\ (b # 0 => b \in 1 .. Len(g.blocks))
    BY <1>10, <2>3
  <2> QED
    BY <1>10, <2>1, <2>2, <2>4 DEF Remembered
<1>12. Len(Append(g.added, v)) = g.total + 1
  BY <1>9, AppendProperties DEF Placed
<1>13. /\ list'.blocks = new /\ list'.added = Append(g.added, v) /\ list'.cache = g.cache
       /\ list'.total = g.total + 1 /\ list'.iter = g.iter
  BY <1>8
<1> QED
  BY <1>9, <1>10, <1>11, <1>12, <1>13 DEF Stored

\* What Stored says of a list with the same entries.
LEMMA SameStored ==
  ASSUME NEW l, Stored(l), NEW m, m.blocks = l.blocks, m.added = l.added,
         m.total = l.total, Remembered(l.blocks, m.cache), m.iter.idx \in Nat
  PROVE  Stored(m)
  BY DEF Stored

LEMMA TouchStored ==
  ASSUME NEW l, Sound(l), Stored(l), NEW i \in 1 .. l.total PROVE Stored(Touch(l, i))
<1> DEFINE With(cache, lost) ==
             [blocks |-> l.blocks, room |-> l.room, moves |-> l.moves, total |-> l.total,
              rev |-> l.rev, cache |-> cache, iter |-> l.iter, added |-> l.added,
              lost |-> lost]
<1>1. ASSUME NEW cache, NEW lost, Remembered(l.blocks, cache) PROVE Stored(With(cache, lost))
  BY <1>1 DEF Stored
<1>2. l = With(l.cache, l.lost)
  BY DEF Sound, IsList
<1>3. CASE Touch(l, i) = [l EXCEPT !.lost = TRUE]
  <2>1. Touch(l, i) = With(l.cache, TRUE)
    BY <1>2, <1>3
  <2>2. Remembered(l.blocks, l.cache)
    BY DEF Stored
  <2> QED
    BY <1>1, <2>1, <2>2
<1>4. CASE Touch(l, i) = [l EXCEPT !.cache = EntryBlock(l, i)]
  <2>1. PICK e : e = EntryBlock(l, i)
    OBVIOUS
  <2>2. Touch(l, i) = With(e, l.lost)
    BY <1>2, <1>4, <2>1
  <2>3. IsCache(e) /\ e.block \in 1 .. Len(l.blocks) /\ e.offset = Before(l.blocks, e.block)
    BY <2>1, EntryBlockFinds
  <2>4. Remembered(l.blocks, e)
    <3>1. Len(l.blocks) \in Nat
      BY FilledIsChain DEF Sound, Chain
    <3> QED
      BY <2>3, <3>1 DEF Remembered
  <2> QED
    BY <1>1, <2>2, <2>4
<1> QED
  BY <1>3, <1>4 DEF Touch

\* The entry that is replaced is the one vmlist_Set was asked for.
LEMMA ReplacedIsPlaced ==
  ASSUME NEW blocks, NEW room, NEW total, Filled(blocks, room, total), NEW added,
         Placed(blocks, added), NEW b \in 1 .. Len(blocks), NEW i \in 1 .. Len(added),
         Within(blocks, b, i), NEW v \in Values, NEW new, Chain(new),
         new = WithOther(blocks, b, i - Before(blocks, b), v)
  PROVE  /\ Placed(new, OtherEntry(added, i, v)) /\ Len(new) = Len(blocks)
         /\ \A c \in 1 .. Len(blocks) : Before(new, c) = Before(blocks, c)
<1>1. PICK at : at = i - Before(blocks, b)
  OBVIOUS
<1>2. PICK block : block = [blocks[b] EXCEPT ![at] = v]
  OBVIOUS
<1>3. new = [blocks EXCEPT ![b] = block]
  BY <1>1, <1>2, Zenon DEF WithOther
<1>4. Chain(blocks) /\ blocks \in Seq(Seq(Values)) /\ blocks[b] \in Seq(Values)
  BY FilledIsChain DEF Filled
<1>5. Before(blocks, b) \in Nat /\ Len(blocks[b]) \in Nat
  <2>1. b \in 1 .. Len(blocks) + 1
    BY <1>4 DEF Chain
  <2> QED
    BY <1>4, <2>1, BeforeIsNat DEF Chain
<1>6. at \in 1 .. Len(blocks[b])
  BY <1>1, <1>5 DEF Within
<1>7. /\ block \in Seq(Values) /\ Len(block) = Len(blocks[b])
      /\ \A j \in 1 .. Len(blocks[b]) : block[j] = IF j = at THEN v ELSE blocks[b][j]
  BY <1>2, <1>4, <1>6, ExceptSeq
<1>8. /\ Len(new) = Len(blocks)
      /\ \A c \in 1 .. Len(blocks) : new[c] = IF c = b THEN block ELSE blocks[c]
  BY <1>3, <1>4, <1>7, ExceptSeq
<1>9. new[b] = block /\ \A c \in 1 .. Len(blocks) : c # b => new[c] = blocks[c]
  BY <1>8
<1>10. PICK more : more = OtherEntry(added, i, v)
  OBVIOUS
<1>11. /\ more \in Seq(Values) /\ Len(more) = Len(added)
       /\ \A k \in 1 .. Len(added) : more[k] = IF k = i THEN v ELSE added[k]
  BY <1>10, ExceptSeq DEF Placed, OtherEntry
<1>12. i \in Nat
  OBVIOUS
<1>13. \A j \in 1 .. Len(blocks[b]) :
          new[b][j] = IF j = i - Before(blocks, b) THEN v ELSE blocks[b][j]
  BY <1>1, <1>7, <1>9
<1>14. Len(new[b]) = Len(blocks[b])
  BY <1>7, <1>9
<1>15. /\ Placed(new, more)
       /\ \A c \in 1 .. Len(blocks) : Before(new, c) = Before(blocks, c)
  <2>1. OneOther(blocks, added, b, i, v, new, more)
    BY <1>8, <1>9, <1>11, <1>13, <1>14, Zenon DEF OneOther
  <2> QED
    BY <1>4, <1>12, <2>1, PlacedWithOther
<1> QED
  BY <1>8, <1>10, <1>15, Zenon

LEMMA SetStored ==
  ASSUME NEW i, NEW v \in Values, IInv, Stored(list), ListSet(i, v) PROVE Stored(list')
<1>1. /\ IsList(list) /\ Filled(list.blocks, list.room, list.total) /\ i \in 1 .. list.total
  BY DEF IInv, Sound, ListSet
<1>2. CASE list' = [list EXCEPT !.lost = TRUE]
  <2>1. list' = [blocks |-> list.blocks, room |-> list.room, moves |-> list.moves,
                 total |-> list.total, rev |-> list.rev, cache |-> list.cache,
                 iter |-> list.iter, added |-> list.added, lost |-> TRUE]
    BY <1>1, <1>2 DEF IsList
  <2> QED
    BY <2>1 DEF Stored
<1>3. CASE list' = Replaced(list, i, v)
  <2> DEFINE f == EntryBlock(list, i)
             blocks == [list.blocks EXCEPT ![f.block][i - f.offset] = v]
  <2>1. /\ IsCache(f) /\ f.block \in 1 .. Len(list.blocks)
        /\ f.offset = Before(list.blocks, f.block) /\ Within(list.blocks, f.block, i)
    BY <1>1, EntryBlockFinds DEF IInv
  <2>2. Filled(blocks, list.room, list.total)
    BY <1>1, BlocksWithOther
  <2>3. list' = [list EXCEPT !.blocks = blocks, !.cache = f, !.added[i] = v]
    BY <1>1, <1>3 DEF Replaced, IsList
  <2>4. PICK new : new = blocks
    OBVIOUS
  <2>5. PICK e : e = f
    OBVIOUS
  <2>6. PICK b \in 1 .. Len(list.blocks) : b = f.block
    BY <2>1
  <2>7. new = WithOther(list.blocks, b, i - Before(list.blocks, b), v)
    BY <2>1, <2>4, <2>6 DEF WithOther
  <2> HIDE DEF f, blocks
  <2>8. list' = [blocks |-> new, room |-> list.room, moves |-> list.moves,
                 total |-> list.total, rev |-> list.rev, cache |-> e, iter |-> list.iter,
                 added |-> OtherEntry(list.added, i, v), lost |-> list.lost]
    BY <1>1, <2>3, <2>4, <2>5 DEF IsList, OtherEntry
  <2>9. Chain(new)
    BY <2>2, <2>4, FilledIsChain
  <2>10. /\ Placed(list.blocks, list.added) /\ i \in 1 .. Len(list.added)
         /\ list.total = Len(list.added) /\ Within(list.blocks, b, i)
         /\ list.iter.idx \in Nat
    BY <1>1, <2>1, <2>6 DEF Stored
  <2>11. /\ Placed(new, OtherEntry(list.added, i, v)) /\ Len(new) = Len(list.blocks)
         /\ \A c \in 1 .. Len(list.blocks) : Before(new, c) = Before(list.blocks, c)
    BY <1>1, <2>7, <2>9, <2>10, ReplacedIsPlaced
  <2>12. Remembered(new, e)
    <3>1. IsCache(e) /\ e.block = b /\ e.offset = Before(list.blocks, b)
      BY <2>1, <2>5, <2>6
    <3>2. e.offset = Before(new, b) /\ b \in 1 .. Len(new) /\ Len(new) \in Nat
      BY <2>9, <2>11, <3>1 DEF Chain
    <3>3. b \in 0 .. Len(new)
      BY <3>2
    <3> QED
      BY <3>1, <3>2, <3>3 DEF Remembered
  <2>13. Len(OtherEntry(list.added, i, v)) = list.total
    BY <2>10, ExceptSeq DEF Placed, OtherEntry
  <2>14. /\ list'.blocks = new /\ list'.added = OtherEntry(list.added, i, v)
         /\ list'.cache = e /\ list'.total = list.total /\ list'.iter = list.iter
    BY <2>8
  <2> QED
    BY <2>10, <2>11, <2>12, <2>13, <2>14 DEF Stored
<1> QED
  BY <1>2, <1>3 DEF ListSet

LEMMA NewIteratorStored == ASSUME IInv, Stored(list), NewIterator PROVE Stored(list')
<1>1. PICK iter : iter = [on |-> TRUE, idx |-> 0, len |-> list.total, rev |-> list.rev,
                          failed |-> FALSE]
  OBVIOUS
<1>2. list' = [list EXCEPT !.iter = iter]
  BY <1>1 DEF NewIterator
<1>3. list' = [blocks |-> list.blocks, room |-> list.room, moves |-> list.moves,
               total |-> list.total, rev |-> list.rev, cache |-> list.cache,
               iter |-> iter, added |-> list.added, lost |-> list.lost]
  BY <1>2 DEF IInv, Sound, IsList
<1>4. iter.idx \in Nat
  BY <1>1
<1> QED
  BY <1>3, <1>4 DEF Stored

\* A loop goes on only to an entry the list has.
LEMMA IterateStored == ASSUME IInv, Stored(list), Iterate PROVE Stored(list')
<1> DEFINE at == list.iter.idx + 1
           With(iter) == [list EXCEPT !.iter = iter]
           next == [list.iter EXCEPT !.idx = @ + 1]
           failed == [list.iter EXCEPT !.on = FALSE, !.failed = TRUE]
           over == [next EXCEPT !.on = FALSE]
<1>1. /\ IsList(list) /\ IsIter(list.iter) /\ list.iter.idx \in Nat
      /\ LoopKeptUp(list.iter, list.rev, list.total) /\ list.total \in Nat
  BY DEF IInv, Sound, LoopKeptUp, Stored, Filled
<1>2. next.idx \in Nat /\ over.idx \in Nat /\ failed.idx \in Nat
  BY <1>1 DEF IsIter
<1>3. LoopKeptUp(next, list.rev, list.total)
  BY <1>1, LoopChanged
<1>4. \/ list' = With(failed)
      \/ list' = With(over)
      \/ /\ list' = Touch(With(next), at)
         /\ list.rev = list.iter.rev /\ ~(at > list.iter.len)
  BY <1>1 DEF Iterate, IsList, IsIter
<1>5. ASSUME list.rev = list.iter.rev, ~(at > list.iter.len) PROVE at \in 1 .. list.total
  <2>1. list.iter.on
    BY DEF Iterate
  <2>2. list.iter.len = list.total
    BY <1>1, <1>5, <2>1 DEF LoopKeptUp
  <2> QED
    BY <1>1, <1>5, <2>2
<1> HIDE DEF next, over, failed
<1>6. ASSUME NEW iter
      PROVE  With(iter) = [blocks |-> list.blocks, room |-> list.room, moves |-> list.moves,
                           total |-> list.total, rev |-> list.rev, cache |-> list.cache,
                           iter |-> iter, added |-> list.added, lost |-> list.lost]
  BY <1>1 DEF IsList
<1> HIDE DEF With, at
<1>7. ASSUME NEW iter, iter.idx \in Nat PROVE Stored(With(iter))
  BY <1>6, <1>7 DEF Stored
<1>8. Sound(With(next)) /\ With(next).total = list.total
  BY <1>3, <1>6 DEF IInv, Sound, IsList
<1>9. CASE list' = Touch(With(next), at) /\ list.rev = list.iter.rev /\ ~(at > list.iter.len)
  <2>1. at \in 1 .. With(next).total
    BY <1>5, <1>8, <1>9
  <2>2. Stored(With(next))
    BY <1>2, <1>7
  <2>3. Stored(Touch(With(next), at))
    BY <1>8, <2>1, <2>2, TouchStored
  <2> QED
    BY <1>9, <2>3
<1> QED
  BY <1>2, <1>4, <1>7, <1>9

StoredWhileFed == starved \/ (IInv /\ Stored(list))

LEMMA StoredIsKept == ListSpec => []StoredWhileFed
<1>1. SoundWhileFed /\ SoundWhileFed' /\ StoredWhileFed /\ [ListNext]_listVars => StoredWhileFed'
  <2> SUFFICES ASSUME SoundWhileFed, SoundWhileFed', StoredWhileFed, [ListNext]_listVars, ~starved'
               PROVE  IInv' /\ Stored(list)'
    BY DEF StoredWhileFed
  <2>1. IInv'
    BY DEF SoundWhileFed
  <2>2. Stored(list)' <=> Stored(list')
    BY DEF Stored, Placed, Remembered, IsCache, Before
  <2>3. CASE UNCHANGED listVars
    BY <2>1, <2>2, <2>3 DEF listVars, StoredWhileFed
  <2>4. CASE ListNext
    <3>1. ~starved /\ IInv /\ Stored(list)
      BY <2>4 DEF ListNext, StoredWhileFed
    <3>2. ListStep
      BY <2>4 DEF ListNext, AddStarved
    <3>3. ASSUME NEW i, ListGet(i) PROVE Stored(list')
      BY <3>1, <3>3, TouchStored DEF IInv, ListGet
    <3>4. ASSUME AddRefused PROVE Stored(list')
      BY <3>1, <3>4 DEF AddRefused
    <3>5. Stored(list')
      BY <3>1, <3>2, <3>3, <3>4, AddStored, SetStored, NewIteratorStored, IterateStored
      DEF ListStep
    <3> QED
      BY <2>1, <2>2, <3>5
  <2> QED
    BY <2>3, <2>4
<1>2. ListInit => StoredWhileFed
  BY InitIInv, InitStored DEF StoredWhileFed
<1> QED
  BY <1>1, <1>2, Invariance, PTL DEF ListSpec

\* Whatever was added, replaced and read before, vmlist_GetEntryBlock leads to the
\* entry that was put there, with and without what it remembers of the last access,
\* until there is no memory for a larger first block.
THEOREM EntriesAlwaysFound == ListSpec => []EntriesAreFound
<1>1. StoredWhileFed => EntriesAreFound
  BY FoundAll DEF IInv, StoredWhileFed, EntriesAreFound
<1> QED
  BY <1>1, StoredIsKept, PTL
=============================================================================
