------------------------ MODULE AsyncSysJob_proofs ------------------------
(***************************************************************************)
(* Theorems about AsyncSysJob, for any number of clients, slots and job    *)
(* workers: as long as no request fails, a job in use stays allocated and  *)
(* its worker's alone, a result stays as it is until its owner gives it up,*)
(* and the jobs implement JobService.                                      *)
(*                                                                         *)
(* All three follow from the invariant JInv.  What makes it inductive is   *)
(* the part that relates the list to the clients (ListInv): a listed job   *)
(* that is not abandoned has a client that waits for it, and a job in      *)
(* progress is neither done nor abandoned.  So what a scan frees is nobody *)
(* else's, and the job a worker finishes is some client's.  The list       *)
(* itself is rebuilt by a recursive function; what it returns is proved by *)
(* induction over the length of the list (Induction, WithoutKeeps).        *)
(***************************************************************************)
EXTENDS AsyncSysJob, FiniteSetTheorems, WellFoundedInduction, TLAPS

(* Induction over the natural numbers, with a set for the formula.         *)
LEMMA Induction ==
  ASSUME NEW S, 0 \in S, \A n \in Nat : n \in S => n + 1 \in S
  PROVE  Nat \subseteq S
<1> DEFINE Less == OpToRel(<, Nat)
<1>1. SUFFICES ASSUME ~(Nat \subseteq S) PROVE FALSE
  OBVIOUS
<1>2. IsWellFoundedOn(Less, Nat)
  BY NatLessThanWellFounded
<1>3. Nat \ S # {} /\ Nat \ S \subseteq Nat
  BY <1>1
<1>4. \A x, y \in Nat : y < x => <<y, x>> \in Less
  BY DEF OpToRel
<1> HIDE DEF Less
<1>5. PICK n \in Nat \ S : \A m \in Nat \ S : ~(<<m, n>> \in Less)
  BY <1>2, <1>3, WFMin, Zenon
<1>6. n # 0 /\ n - 1 \in Nat /\ n - 1 < n /\ (n - 1) + 1 = n
  BY <1>5
<1>7. n - 1 \in S
  BY <1>4, <1>5, <1>6
<1> QED
  BY <1>5, <1>6, <1>7

(* The recursive function in Without exists: it is what its equation says. *)
Step(f, list, gone, i) ==
    IF i = 0 THEN <<>> ELSE IF i \in gone THEN f[i - 1] ELSE Append(f[i - 1], list[i])

LEMMA KeptExists ==
  ASSUME NEW list, NEW gone, NEW n \in Nat
  PROVE  \E f : f = [i \in 0 .. n |-> Step(f, list, gone, i)]
<1> DEFINE S == {m \in Nat : \E f : f = [i \in 0 .. m |-> Step(f, list, gone, i)]}
<1>1. 0 \in S
  <2> DEFINE g == [i \in 0 .. 0 |-> <<>>]
  <2>1. g = [i \in 0 .. 0 |-> Step(g, list, gone, i)]
    BY DEF Step
  <2> QED
    BY <2>1
<1>2. ASSUME NEW m \in Nat, m \in S PROVE m + 1 \in S
  <2>1. PICK f : f = [i \in 0 .. m |-> Step(f, list, gone, i)]
    BY <1>2
  <2> DEFINE g == [i \in 0 .. m + 1 |-> IF i = m + 1 THEN Step(f, list, gone, m + 1) ELSE f[i]]
  <2>2. \A i \in 0 .. m : g[i] = f[i]
    OBVIOUS
  <2>3. \A i \in 0 .. m : f[i] = Step(f, list, gone, i)
    BY <2>1
  <2>4. g[m + 1] = Step(f, list, gone, m + 1)
    OBVIOUS
  <2>5. DOMAIN g = 0 .. m + 1 /\ g = [i \in 0 .. m + 1 |-> g[i]]
    OBVIOUS
  <2> HIDE DEF g
  <2>6. \A i \in 0 .. m + 1 : Step(g, list, gone, i) = Step(f, list, gone, i)
    BY <2>2 DEF Step
  <2>7. \A i \in 0 .. m + 1 : g[i] = Step(g, list, gone, i)
    BY <2>2, <2>3, <2>4, <2>6
  <2>8. g = [i \in 0 .. m + 1 |-> Step(g, list, gone, i)]
    BY <2>5, <2>7
  <2> QED
    BY <2>8
<1> HIDE DEF S
<1>3. Nat \subseteq S
  BY <1>1, <1>2, Induction
<1> QED
  BY <1>3 DEF S

(* So Without(list, gone) is the last value of such a function.            *)
LEMMA KeptDef ==
  ASSUME NEW list, NEW gone, Len(list) \in Nat
  PROVE  \E f : /\ f = [i \in 0 .. Len(list) |-> Step(f, list, gone, i)]
                /\ Without(list, gone) = f[Len(list)]
<1> DEFINE IsIt(f) == f = [i \in 0 .. Len(list) |->
                        IF i = 0 THEN <<>>
                        ELSE IF i \in gone THEN f[i - 1] ELSE Append(f[i - 1], list[i])]
           kept == CHOOSE f : IsIt(f)
<1>1. \E f : IsIt(f)
  <2>1. \E f : f = [i \in 0 .. Len(list) |-> Step(f, list, gone, i)]
    BY KeptExists
  <2> QED
    BY <2>1, Zenon DEF Step
<1>2. IsIt(kept)
  BY <1>1, Zenon
<1>3. Without(list, gone) = kept[Len(list)]
  BY Zenon DEF Without
<1>4. kept = [i \in 0 .. Len(list) |-> Step(kept, list, gone, i)]
  BY <1>2, Zenon DEF Step
<1> QED
  BY <1>3, <1>4, Zenon

(* What is left is what was not at those positions, each once if the list  *)
(* had nothing twice.                                                      *)
NothingTwice(list) == \A i, j \in 1 .. Len(list) : list[i] = list[j] => i = j

(* Without keeps exactly the items at other positions, and nothing twice.  *)
LEMMA WithoutKeeps ==
  ASSUME NEW T, NEW list \in Seq(T), NothingTwice(list), NEW gone
  PROVE  LET rest == Without(list, gone) IN
         /\ rest \in Seq(T)
         /\ NothingTwice(rest)
         /\ \A i \in 1 .. Len(rest) : \E j \in 1 .. Len(list) : j \notin gone /\ rest[i] = list[j]
         /\ \A j \in 1 .. Len(list) : j \notin gone => \E i \in 1 .. Len(rest) : rest[i] = list[j]
<1>0. Len(list) \in Nat
  OBVIOUS
<1>1. PICK f : /\ f = [i \in 0 .. Len(list) |-> Step(f, list, gone, i)]
               /\ Without(list, gone) = f[Len(list)]
  BY <1>0, KeptDef
<1>s. \A i \in 0 .. Len(list) : f[i] = Step(f, list, gone, i)
  BY <1>1
<1> DEFINE Good(m, rest) ==
      /\ rest \in Seq(T)
      /\ NothingTwice(rest)
      /\ \A i \in 1 .. Len(rest) : \E j \in 1 .. m : j \notin gone /\ rest[i] = list[j]
      /\ \A j \in 1 .. m : j \notin gone => \E i \in 1 .. Len(rest) : rest[i] = list[j]
    Fine(m) == m <= Len(list) => Good(m, f[m])
    S == {m \in Nat : Fine(m)}
<1>2. Fine(0)
  <2>1. f[0] = <<>>
    BY <1>0, <1>s DEF Step
  <2>2. Good(0, <<>>)
    BY DEF NothingTwice
  <2> HIDE DEF Good
  <2> QED
    BY <2>1, <2>2
<1>3. ASSUME NEW m \in Nat, Fine(m) PROVE Fine(m + 1)
  <2> SUFFICES ASSUME m + 1 <= Len(list) PROVE Good(m + 1, f[m + 1])
    BY Zenon
  <2>0. m <= Len(list) /\ m + 1 \in 0 .. Len(list) /\ m + 1 # 0 /\ (m + 1) - 1 = m
    BY <1>0
  <2>1. Good(m, f[m])
    BY <1>3, <2>0, Zenon
  <2>2. f[m + 1] = IF m + 1 \in gone THEN f[m] ELSE Append(f[m], list[m + 1])
    <3>1. f[m + 1] = Step(f, list, gone, m + 1)
      BY <1>s, <2>0
    <3> QED
      BY <2>0, <3>1 DEF Step
  <2>3. CASE m + 1 \in gone
    <3> DEFINE r == f[m]
    <3>1. f[m + 1] = r
      BY <2>2, <2>3
    <3>2. /\ r \in Seq(T) /\ NothingTwice(r)
          /\ \A i \in 1 .. Len(r) : \E j \in 1 .. m : j \notin gone /\ r[i] = list[j]
          /\ \A j \in 1 .. m : j \notin gone => \E i \in 1 .. Len(r) : r[i] = list[j]
      BY <2>1, Zenon
    <3> HIDE DEF r, Good
    <3>3. 1 .. m \subseteq 1 .. (m + 1) /\ \A j \in 1 .. (m + 1) : j \notin gone => j \in 1 .. m
      BY <2>3
    <3>4. Good(m + 1, r)
      BY <3>2, <3>3, Zenon DEF Good
    <3> QED
      BY <3>1, <3>4, Zenon
  <2>4. CASE m + 1 \notin gone
    <3> DEFINE r == f[m]
               q == Append(r, list[m + 1])
    <3>1. /\ r \in Seq(T) /\ list[m + 1] \in T /\ m + 1 \in 1 .. Len(list)
          /\ q \in Seq(T) /\ Len(q) = Len(r) + 1 /\ Len(r) \in Nat
          /\ q[Len(r) + 1] = list[m + 1]
          /\ \A i \in 1 .. Len(r) : q[i] = r[i]
      BY <2>1
    <3>2. f[m + 1] = q
      BY <2>2, <2>4
    <3>3. /\ NothingTwice(r)
          /\ \A i \in 1 .. Len(r) : \E j \in 1 .. m : j \notin gone /\ r[i] = list[j]
          /\ \A j \in 1 .. m : j \notin gone => \E i \in 1 .. Len(r) : r[i] = list[j]
      BY <2>1
    <3> HIDE DEF r, q
    <3>4. \A i \in 1 .. Len(r) : r[i] # list[m + 1]
      BY <3>1, <3>3 DEF NothingTwice
    <3>5. NothingTwice(q)
      BY <3>1, <3>3, <3>4 DEF NothingTwice
    <3>6. ASSUME NEW i \in 1 .. Len(q)
          PROVE  \E j \in 1 .. m + 1 : j \notin gone /\ q[i] = list[j]
      <4>1. CASE i = Len(r) + 1
        BY <3>1, <4>1, <2>4
      <4>2. CASE i # Len(r) + 1
        <5>1. i \in 1 .. Len(r)
          BY <3>1, <4>2
        <5>2. PICK j \in 1 .. m : j \notin gone /\ r[i] = list[j]
          BY <3>3, <5>1
        <5> QED
          BY <3>1, <5>1, <5>2
      <4> QED
        BY <4>1, <4>2
    <3>7. ASSUME NEW j \in 1 .. m + 1, j \notin gone
          PROVE  \E i \in 1 .. Len(q) : q[i] = list[j]
      <4>1. CASE j = m + 1
        BY <3>1, <4>1
      <4>2. CASE j # m + 1
        <5>1. PICK i \in 1 .. Len(r) : r[i] = list[j]
          BY <3>3, <3>7, <4>2
        <5> QED
          BY <3>1, <5>1
      <4> QED
        BY <4>1, <4>2
    <3> QED
      BY <3>1, <3>2, <3>5, <3>6, <3>7
  <2> QED
    BY <2>3, <2>4
<1> HIDE DEF Fine
<1>4. Nat \subseteq S
  <2>1. 0 \in S
    BY <1>2
  <2>2. \A m \in Nat : m \in S => m + 1 \in S
    BY <1>3
  <2> HIDE DEF S
  <2> QED
    BY <2>1, <2>2, Induction
<1>5. Fine(Len(list))
  BY <1>0, <1>4
<1>6. Good(Len(list), f[Len(list)])
  BY <1>0, <1>5 DEF Fine
<1> QED
  BY <1>1, <1>6

(* JobAssumption and NoneAssumption in the form the provers use.           *)
LEMMA Constants ==
    /\ WorkerCount \in Nat /\ WorkerCount >= 1
    /\ Capacity \in Nat /\ Capacity >= 1
    /\ MaxCalls \in Nat
    /\ JobWorker = 0 .. WorkerCount - 1 /\ 0 \in JobWorker
    /\ NoJob \notin Slot /\ NoOne \notin Client
  BY JobAssumption, NoneAssumption DEF JobWorker

-----------------------------------------------------------------------------
(* Before the first request no worker exists, and the next event to set is *)
(* one there is.                                                           *)
StartInv == ~started => \A w \in JobWorker : wpc[w] = "unborn"
IndexInv == \A c \in Client : cpc[c] = "send" => next[c] < WorkerCount

(* A client has a job from its request until it gives it up: allocated,    *)
(* not abandoned, no other client's; its own once it is in the list, and   *)
(* untouched before.                                                       *)
Asking(c)  == cpc[c] = "request"
Pending(c) == cpc[c] \notin {"run", "request"}

ClientInv ==
    /\ \A c \in Client : cpc[c] # "free" /\ (cpc[c] = "run" <=> ptr[c] = NoJob)
    /\ \A c \in Client : ptr[c] # NoJob => ptr[c] \in alloc /\ ~job[ptr[c]].abandoned
    /\ \A c, d \in Client : ptr[c] # NoJob /\ ptr[c] = ptr[d] => c = d
    /\ \A c \in Client : Asking(c) => job[ptr[c]] = Zeroed /\ ~Listed(ptr[c])
    /\ \A c \in Client : Pending(c) => job[ptr[c]].owner = c
    /\ \A c \in Client : cpc[c] \in {"check", "use", "abandon"} => job[ptr[c]].done

(* A slot in use is in the list, or about to be; a listed job is its       *)
(* owner's until it is abandoned, and it is abandoned only when it is done;*)
(* a job in progress is not done.                                          *)
ListInv ==
    /\ \A i \in DOMAIN jobs : jobs[i] \in alloc
    /\ NothingTwice(jobs)
    /\ \A s \in alloc : Listed(s) \/ \E c \in Client : Asking(c) /\ ptr[c] = s
    /\ \A s \in Slot : Listed(s) /\ ~job[s].abandoned =>
         \E c \in Client : Pending(c) /\ ptr[c] = s
    /\ \A s \in Slot : job[s].abandoned => job[s].done
    /\ \A s \in Slot : job[s].inprogress => ~job[s].done

(* Each worker that looks up has a job of its own.                         *)
WorkInv ==
    /\ \A w \in JobWorker : wpc[w] = "lookup" =>
         mine[w] \in Slot /\ Listed(mine[w]) /\ job[mine[w]].inprogress
    /\ \A v, w \in JobWorker :
         wpc[v] = "lookup" /\ wpc[w] = "lookup" /\ mine[v] = mine[w] => v = w

JInv == TypeOK /\ StartInv /\ IndexInv /\ ClientInv /\ ListInv /\ WorkInv

(* The memory of a new job.                                                *)
LEMMA ZeroedType == Zeroed \in JobFields
  BY DEF Zeroed, JobFields

LEMMA ZeroedFields ==
    ~Zeroed.inprogress /\ ~Zeroed.done /\ ~Zeroed.abandoned
  BY DEF Zeroed

(* The invariant holds at the start.                                       *)
LEMMA InitJInv == Init => JInv
<1> SUFFICES ASSUME Init PROVE JInv
  OBVIOUS
<1>1. TypeOK
  <2>1. jobs \in Seq(Slot) /\ job \in [Slot -> JobFields]
    BY ZeroedType DEF Init
  <2>2. 0 \in 0 .. Capacity /\ 0 \in 0 .. WorkerCount /\ 0 \in 0 .. MaxCalls
    BY Constants
  <2> QED
    BY <2>1, <2>2 DEF Init, TypeOK
<1>2. StartInv /\ IndexInv /\ WorkInv
  BY DEF Init, StartInv, IndexInv, WorkInv
<1>3. ClientInv
  BY DEF Init, ClientInv, Asking, Pending
<1>4. ListInv
  <2>1. \A s \in Slot : job[s] = Zeroed
    BY DEF Init
  <2>2. jobs = <<>> /\ Len(jobs) = 0 /\ DOMAIN jobs = {} /\ alloc = {}
    BY DEF Init
  <2>3. \A s \in Slot : ~job[s].abandoned /\ ~job[s].inprogress
    BY <2>1, ZeroedFields
  <2>4. NothingTwice(jobs)
    BY <2>2 DEF NothingTwice
  <2>5. \A s : ~Listed(s)
    BY <2>2 DEF Listed
  <2> QED
    BY <2>2, <2>3, <2>4, <2>5 DEF ListInv
<1> QED
  BY <1>1, <1>2, <1>3, <1>4 DEF JInv

-----------------------------------------------------------------------------
(* What the steps that write to a job do to it.                            *)
Kept(s) == job'[s] = job[s]

LEMMA AppendEffect ==
  ASSUME TypeOK, NEW c \in Client, ptr[c] \in Slot, Append1(c)
  PROVE  /\ job' \in [Slot -> JobFields]
         /\ \A s \in Slot \ {ptr[c]} : Kept(s)
         /\ job'[ptr[c]].owner = c
         /\ job'[ptr[c]].done = job[ptr[c]].done
         /\ job'[ptr[c]].abandoned = job[ptr[c]].abandoned
         /\ job'[ptr[c]].inprogress = job[ptr[c]].inprogress
         /\ jobs' \in Seq(Slot) /\ Len(jobs') = Len(jobs) + 1 /\ Len(jobs) \in Nat
         /\ jobs'[Len(jobs) + 1] = ptr[c]
         /\ \A i \in 1 .. Len(jobs) : jobs'[i] = jobs[i]
<1> DEFINE p == ptr[c]
           r == job[p]
<1>1. /\ p \in Slot /\ job \in [Slot -> JobFields] /\ jobs \in Seq(Slot) /\ r \in JobFields
  BY DEF TypeOK
<1>2. job' = [job EXCEPT ![p].owner = c] /\ jobs' = Append(jobs, p)
  BY DEF Append1
<1>3. /\ jobs' \in Seq(Slot) /\ Len(jobs') = Len(jobs) + 1 /\ Len(jobs) \in Nat
      /\ jobs'[Len(jobs) + 1] = p
      /\ \A i \in 1 .. Len(jobs) : jobs'[i] = jobs[i]
  <2> HIDE DEF p
  <2> QED
    BY <1>1, <1>2
<1>4. \A s \in Slot \ {p} : job'[s] = job[s]
  <2> HIDE DEF p
  <2> QED
    BY <1>1, <1>2
<1>5. /\ job'[p].owner = c /\ job'[p].done = r.done
      /\ job'[p].abandoned = r.abandoned /\ job'[p].inprogress = r.inprogress
      /\ job' \in [Slot -> JobFields]
  <2> HIDE DEF p
  <2> QED
    BY <1>1, <1>2 DEF JobFields
<1> QED
  BY <1>3, <1>4, <1>5 DEF Kept

(* asyncjob_AbandonJob: the mark, and nothing else.                        *)
LEMMA AbandonEffect ==
  ASSUME TypeOK, NEW c \in Client, ptr[c] \in Slot, AbandonJob(c)
  PROVE  /\ job' \in [Slot -> JobFields]
         /\ \A s \in Slot \ {ptr[c]} : Kept(s)
         /\ job'[ptr[c]] = [job[ptr[c]] EXCEPT !.abandoned = TRUE]
         /\ job'[ptr[c]].owner = job[ptr[c]].owner
         /\ job'[ptr[c]].done = job[ptr[c]].done
         /\ job'[ptr[c]].abandoned = TRUE
         /\ job'[ptr[c]].inprogress = job[ptr[c]].inprogress
  BY DEF TypeOK, AbandonJob, JobFields, Kept

(* The end of a lookup.                                                    *)
LEMMA DoneEffect ==
  ASSUME TypeOK, NEW w \in JobWorker, mine[w] \in Slot, MarkDone(w)
  PROVE  /\ job' \in [Slot -> JobFields]
         /\ \A s \in Slot \ {mine[w]} : Kept(s)
         /\ job'[mine[w]].owner = job[mine[w]].owner
         /\ job'[mine[w]].done = TRUE
         /\ job'[mine[w]].abandoned = job[mine[w]].abandoned
         /\ job'[mine[w]].inprogress = FALSE
<1> DEFINE m == mine[w]
           r == job[m]
<1>1. m \in Slot /\ job \in [Slot -> JobFields] /\ r \in JobFields
  BY DEF TypeOK
<1>2. PICK failed \in BOOLEAN :
        job' = [job EXCEPT ![m].inprogress = FALSE, ![m].done = TRUE, ![m].failed = failed]
  BY DEF MarkDone
<1>3. \A s \in Slot \ {m} : job'[s] = job[s]
  <2> HIDE DEF m
  <2> QED
    BY <1>1, <1>2
<1>4. job'[m] = [r EXCEPT !.inprogress = FALSE, !.done = TRUE, !.failed = failed]
      /\ job' = [job EXCEPT ![m] = job'[m]]
  <2> HIDE DEF m
  <2> QED
    BY <1>1, <1>2
<1>5. [r EXCEPT !.inprogress = FALSE, !.done = TRUE, !.failed = failed] \in JobFields
  <2> HIDE DEF r, m
  <2> QED
    BY <1>1 DEF JobFields
<1>6. /\ job'[m].owner = r.owner /\ job'[m].done = TRUE
      /\ job'[m].abandoned = r.abandoned /\ job'[m].inprogress = FALSE
  <2> HIDE DEF r, m
  <2> QED
    BY <1>1, <1>4 DEF JobFields
<1>7. job' \in [Slot -> JobFields]
  <2>1. job'[m] \in JobFields
    BY <1>4, <1>5
  <2> HIDE DEF r, m
  <2> QED
    BY <1>1, <1>4, <2>1
<1> QED
  BY <1>3, <1>6, <1>7 DEF Kept

(* A scan frees the dead jobs among the first k, and takes the next one.   *)
ScanTo(w, k, freed) ==
    /\ k \in 0 .. Len(jobs)
    /\ wpc[w] = "scan"
    /\ \A s \in freed : Dead(s) /\ Listed(s)
    /\ alloc' = alloc \ freed
    /\ jobs' \in Seq(Slot) /\ NothingTwice(jobs')
    /\ \A s : Listed(s)' <=> Listed(s) /\ s \notin freed
    /\ job' \in [Slot -> JobFields]
    /\ \A s \in freed : job'[s] = Zeroed
    /\ \/ /\ k < Len(jobs)
          /\ Takeable(jobs[k + 1]) /\ jobs[k + 1] \in Slot \ freed /\ Listed(jobs[k + 1])
          /\ \A s \in Slot \ (freed \cup {jobs[k + 1]}) : Kept(s)
          /\ job'[jobs[k + 1]].owner = job[jobs[k + 1]].owner
          /\ job'[jobs[k + 1]].done = job[jobs[k + 1]].done
          /\ job'[jobs[k + 1]].abandoned = job[jobs[k + 1]].abandoned
          /\ job'[jobs[k + 1]].inprogress = TRUE
          /\ mine' = [mine EXCEPT ![w] = jobs[k + 1]]
          /\ wpc' = [wpc EXCEPT ![w] = "lookup"]
       \/ /\ \A s \in Slot \ freed : Kept(s)
          /\ wpc' = [wpc EXCEPT ![w] = "check"] /\ mine' = mine
    /\ UNCHANGED <<lock, started, eventVars, clientVars>>

(* Every scan is one of these.                                             *)
LEMMA ScanEffect ==
  ASSUME TypeOK, NothingTwice(jobs), NEW w \in JobWorker, Scan(w)
  PROVE  \E k, freed : ScanTo(w, k, freed)
<1>1. PICK k \in 0 .. Len(jobs) :
        LET gone  == {i \in 1 .. k : Dead(jobs[i])}
            freed == {jobs[i] : i \in gone}
            swept == [s \in Slot |-> IF s \in freed THEN Zeroed ELSE job[s]]
        IN
        /\ alloc' = alloc \ freed
        /\ jobs' = Without(jobs, gone)
        /\ \/ /\ k < Len(jobs)
              /\ Takeable(jobs[k + 1])
              /\ job' = [swept EXCEPT ![jobs[k + 1]].inprogress = TRUE]
              /\ mine' = [mine EXCEPT ![w] = jobs[k + 1]]
              /\ Move(w, "lookup")
           \/ /\ k = Len(jobs)
              /\ job' = swept
              /\ Move(w, "check")
              /\ UNCHANGED mine
  BY Zenon DEF Scan
<1> DEFINE gone  == {i \in 1 .. k : Dead(jobs[i])}
           freed == {jobs[i] : i \in gone}
           swept == [s \in Slot |-> IF s \in freed THEN Zeroed ELSE job[s]]
<1>2. jobs \in Seq(Slot) /\ Len(jobs) \in Nat /\ DOMAIN jobs = 1 .. Len(jobs)
      /\ \A i \in 1 .. Len(jobs) : jobs[i] \in Slot
  BY DEF TypeOK
<1>3. /\ jobs' \in Seq(Slot)
      /\ NothingTwice(jobs')
      /\ \A i \in 1 .. Len(jobs') : \E j \in 1 .. Len(jobs) : j \notin gone /\ jobs'[i] = jobs[j]
      /\ \A j \in 1 .. Len(jobs) : j \notin gone => \E i \in 1 .. Len(jobs') : jobs'[i] = jobs[j]
  <2>1. jobs' = Without(jobs, gone)
    BY <1>1, Zenon
  <2> HIDE DEF gone
  <2> DEFINE rest == Without(jobs, gone)
  <2>2. /\ rest \in Seq(Slot)
        /\ NothingTwice(rest)
        /\ \A i \in 1 .. Len(rest) : \E j \in 1 .. Len(jobs) : j \notin gone /\ rest[i] = jobs[j]
        /\ \A j \in 1 .. Len(jobs) : j \notin gone => \E i \in 1 .. Len(rest) : rest[i] = jobs[j]
    <3>1. jobs \in Seq(Slot)
      BY <1>2
    <3> QED
      BY <3>1, WithoutKeeps
  <2>3. jobs' = rest
    BY <2>1
  <2> HIDE DEF rest
  <2> QED
    BY <2>2, <2>3, Zenon
<1>4. \A s : Listed(s)' <=> Listed(s) /\ s \notin freed
  <2>1. DOMAIN jobs' = 1 .. Len(jobs')
    BY <1>3
  <2>2. \A j \in 1 .. Len(jobs) : j \in gone <=> jobs[j] \in freed
    BY <1>2 DEF NothingTwice
  <2>3. gone \subseteq 1 .. Len(jobs)
    BY <1>2
  <2> HIDE DEF gone, freed
  <2>4. ASSUME NEW s, Listed(s)' PROVE Listed(s) /\ s \notin freed
    <3>1. PICK i \in 1 .. Len(jobs') : jobs'[i] = s
      BY <2>1, <2>4 DEF Listed
    <3>2. PICK j \in 1 .. Len(jobs) : j \notin gone /\ jobs'[i] = jobs[j]
      BY <1>3, <3>1
    <3> QED
      BY <1>2, <2>2, <3>1, <3>2 DEF Listed
  <2>5. ASSUME NEW s, Listed(s), s \notin freed PROVE Listed(s)'
    <3>1. PICK j \in 1 .. Len(jobs) : jobs[j] = s
      BY <1>2, <2>5 DEF Listed
    <3>2. j \notin gone
      BY <2>2, <2>5, <3>1
    <3>3. PICK i \in 1 .. Len(jobs') : jobs'[i] = jobs[j]
      BY <1>3, <3>1, <3>2
    <3> QED
      BY <2>1, <3>1, <3>3 DEF Listed
  <2> QED
    BY <2>4, <2>5
<1>5. \A s \in freed : Dead(s) /\ Listed(s)
  BY <1>2 DEF Listed
<1>6. /\ swept \in [Slot -> JobFields]
      /\ \A s \in freed : s \in Slot /\ swept[s] = Zeroed
      /\ \A s \in Slot \ freed : swept[s] = job[s]
  BY <1>2, ZeroedType DEF TypeOK
<1>7. alloc' = alloc \ freed
  BY <1>1, Zenon
<1>8. wpc[w] = "scan" /\ UNCHANGED <<lock, started, eventVars, clientVars>>
  BY Zenon DEF Scan
<1>9. CASE /\ k < Len(jobs)
           /\ Takeable(jobs[k + 1])
           /\ job' = [swept EXCEPT ![jobs[k + 1]].inprogress = TRUE]
           /\ mine' = [mine EXCEPT ![w] = jobs[k + 1]]
           /\ Move(w, "lookup")
  <2>1. jobs[k + 1] \in Slot /\ Listed(jobs[k + 1])
    BY <1>2, <1>9 DEF Listed
  <2>2. jobs[k + 1] \notin freed
    BY <1>5, <1>9 DEF Dead, Takeable
  <2> HIDE DEF freed, swept, gone
  <2> DEFINE x == jobs[k + 1]
  <2>3. /\ job' \in [Slot -> JobFields]
        /\ \A s \in freed : job'[s] = Zeroed
        /\ \A s \in Slot \ (freed \cup {x}) : Kept(s)
        /\ job'[x].owner = job[x].owner
        /\ job'[x].done = job[x].done
        /\ job'[x].abandoned = job[x].abandoned
        /\ job'[x].inprogress = TRUE
    BY <1>6, <1>9, <2>1, <2>2 DEF JobFields, Kept
  <2> QED
    BY <1>3, <1>4, <1>5, <1>7, <1>8, <1>9, <2>1, <2>2, <2>3 DEF ScanTo, Move
<1>10. CASE k = Len(jobs) /\ job' = swept /\ Move(w, "check") /\ UNCHANGED mine
  <2> HIDE DEF freed, swept, gone
  <2> QED
    BY <1>3, <1>4, <1>5, <1>6, <1>7, <1>8, <1>10 DEF ScanTo, Move, Kept
<1> QED
  BY <1>1, <1>9, <1>10, Zenon

-----------------------------------------------------------------------------
(* Facts about functions the steps below need again and again.             *)
LEMMA GotoEffect ==
  ASSUME TypeOK, NEW c \in Client, NEW place, Goto(c, place)
  PROVE  cpc'[c] = place /\ \A d \in Client : d # c => cpc'[d] = cpc[d]
  BY DEF TypeOK, Goto

LEMMA MoveEffect ==
  ASSUME TypeOK, NEW w \in JobWorker, NEW place, Move(w, place)
  PROVE  wpc'[w] = place /\ \A v \in JobWorker : v # w => wpc'[v] = wpc[v]
  BY DEF TypeOK, Move

(* A client with a job points to a slot in use; what is listed is in use.  *)
LEMMA PointsToSlot ==
  ASSUME JInv, NEW c \in Client, cpc[c] # "run"
  PROVE  ptr[c] \in Slot /\ ptr[c] # NoJob /\ ptr[c] \in alloc
  BY DEF JInv, TypeOK, ClientInv

LEMMA ListedAreSlots ==
  ASSUME JInv, NEW s, Listed(s)
  PROVE  s \in Slot /\ s \in alloc
  BY DEF JInv, TypeOK, ListInv, Listed

-----------------------------------------------------------------------------
(* Types.                                                                  *)
LEMMA TypeStep ==
  ASSUME JInv, [Next]_vars
  PROVE  TypeOK'
<1> USE DEF JInv
<1>1. ASSUME NEW c \in Client, CreateEmpty(c) PROVE TypeOK'
  <2>1. calls + 1 \in 0 .. MaxCalls
    BY <1>1, Constants DEF CreateEmpty, TypeOK
  <2>2. job' \in [Slot -> JobFields]
    BY <1>1, ZeroedType DEF CreateEmpty, TypeOK
  <2>3. ptr' \in [Client -> Slot \cup {NoJob}] /\ alloc' \subseteq Slot
    BY <1>1 DEF CreateEmpty, TypeOK
  <2> QED
    BY <1>1, <2>1, <2>2, <2>3
    DEF CreateEmpty, Goto, TypeOK, workerVars, eventVars
<1>2. ASSUME NEW c \in Client, CreateFails(c) PROVE TypeOK'
  <2>1. calls + 1 \in 0 .. MaxCalls
    BY <1>2, Constants DEF CreateFails, TypeOK
  <2> QED
    BY <1>2, <2>1 DEF CreateFails, TypeOK, jobVars, workerVars, eventVars
<1>3. ASSUME NEW c \in Client, RequestFails(c) PROVE TypeOK'
  BY <1>3 DEF RequestFails, Goto, TypeOK, jobVars, workerVars, eventVars
<1>4. ASSUME NEW c \in Client, RequestFirst(c) PROVE TypeOK'
  <2>1. ptr[c] \in Slot
    BY <1>4, PointsToSlot DEF RequestFirst
  <2>2. job' \in [Slot -> JobFields] /\ jobs' \in Seq(Slot)
    BY <1>4, <2>1, AppendEffect DEF RequestFirst
  <2>3. wpc' \in [JobWorker -> {"unborn", "scan", "lookup", "announce",
                                "check", "poll", "recheck"}]
    BY <1>4 DEF RequestFirst
  <2> QED
    BY <1>4, <2>2, <2>3 DEF RequestFirst, Goto, TypeOK, eventVars
<1>5. ASSUME NEW c \in Client, RequestNext(c) PROVE TypeOK'
  <2>1. ptr[c] \in Slot
    BY <1>5, PointsToSlot DEF RequestNext
  <2>2. job' \in [Slot -> JobFields] /\ jobs' \in Seq(Slot)
    BY <1>5, <2>1, AppendEffect DEF RequestNext
  <2>3. 0 \in 0 .. WorkerCount
    BY Constants
  <2> QED
    BY <1>5, <2>2, <2>3 DEF RequestNext, Goto, TypeOK, workerVars, eventVars
<1>6. ASSUME NEW c \in Client, SetEvent(c) PROVE TypeOK'
  BY <1>6 DEF SetEvent, Goto, TypeOK, jobVars, workerVars
<1>7. ASSUME NEW c \in Client, SendByte(c) PROVE TypeOK'
  <2>1. next[c] \in JobWorker /\ next[c] + 1 \in 0 .. WorkerCount
    BY <1>7, Constants DEF SendByte, TypeOK, IndexInv
  <2>2. bytes[next[c]] + 1 \in 0 .. Capacity
    BY <1>7, <2>1, Constants DEF SendByte, TypeOK
  <2> QED
    BY <1>7, <2>1, <2>2 DEF SendByte, Goto, TypeOK, jobVars, workerVars
<1>8. ASSUME NEW c \in Client, Requested(c) PROVE TypeOK'
  BY <1>8 DEF Requested, Goto, TypeOK, jobVars, workerVars, eventVars
<1>9. ASSUME NEW c \in Client, FreeJob(c) PROVE TypeOK'
  BY <1>9 DEF FreeJob, ClientInv
<1>10. ASSUME NEW c \in Client, Resume(c) PROVE TypeOK'
  BY <1>10 DEF Resume, Goto, TypeOK, jobVars, workerVars, eventVars
<1>11. ASSUME NEW c \in Client, IsDone(c) PROVE TypeOK'
  BY <1>11 DEF IsDone, Goto, TypeOK, jobVars, workerVars, eventVars
<1>12. ASSUME NEW c \in Client, UseResult(c) PROVE TypeOK'
  BY <1>12 DEF UseResult, Goto, TypeOK, jobVars, workerVars, eventVars
<1>13. ASSUME NEW c \in Client, AbandonJob(c) PROVE TypeOK'
  <2>1. ptr[c] \in Slot
    BY <1>13, PointsToSlot DEF AbandonJob
  <2>2. job' \in [Slot -> JobFields]
    BY <1>13, <2>1, AbandonEffect
  <2> QED
    BY <1>13, <2>2 DEF AbandonJob, Goto, TypeOK, workerVars, eventVars
<1>14. ASSUME NEW w \in JobWorker, Scan(w) PROVE TypeOK'
  <2>1. PICK k, freed : ScanTo(w, k, freed)
    BY <1>14, ScanEffect DEF ListInv
  <2>2. job' \in [Slot -> JobFields] /\ jobs' \in Seq(Slot) /\ alloc' \subseteq Slot
    BY <2>1 DEF ScanTo, TypeOK
  <2>3. mine' \in [JobWorker -> Slot \cup {NoJob}]
        /\ wpc' \in [JobWorker -> {"unborn", "scan", "lookup", "announce",
                                   "check", "poll", "recheck"}]
    BY <2>1 DEF ScanTo, TypeOK
  <2>4. UNCHANGED <<lock, started, eventVars, clientVars>>
    BY <2>1 DEF ScanTo
  <2> QED
    BY <2>2, <2>3, <2>4 DEF TypeOK, eventVars, clientVars
<1>15. ASSUME NEW w \in JobWorker, MarkDone(w) PROVE TypeOK'
  <2>1. mine[w] \in Slot
    BY <1>15 DEF MarkDone, WorkInv
  <2>2. job' \in [Slot -> JobFields]
    BY <1>15, <2>1, DoneEffect
  <2> QED
    BY <1>15, <2>2 DEF MarkDone, Move, TypeOK, eventVars, clientVars
<1>16. ASSUME NEW w \in JobWorker, Announce(w) PROVE TypeOK'
  BY <1>16 DEF Announce, Move, TypeOK, jobVars, eventVars, clientVars
<1>17. ASSUME NEW w \in JobWorker, NEW place \in {"poll", "scan"}, TakeFlag(w, place)
       PROVE TypeOK'
  BY <1>17 DEF TakeFlag, Move, TypeOK, jobVars, clientVars
<1>18. ASSUME NEW w \in JobWorker, Readable(w) PROVE TypeOK'
  <2>1. 0 \in 0 .. Capacity
    BY Constants
  <2> QED
    BY <1>18, <2>1 DEF Readable, Move, TypeOK, jobVars, clientVars
<1>19. ASSUME UNCHANGED vars PROVE TypeOK'
  BY <1>19 DEF vars, TypeOK, jobVars, workerVars, eventVars, clientVars
<1> QED
  BY <1>1, <1>2, <1>3, <1>4, <1>5, <1>6, <1>7, <1>8, <1>9, <1>10, <1>11, <1>12, <1>13,
     <1>14, <1>15, <1>16, <1>17, <1>18, <1>19
  DEF Next, ClientStep, WorkerStep, NoMoreCalls, FirstCheck, Recheck, WaitTimeout

-----------------------------------------------------------------------------
(* Steps that leave jobs and pointers alone.                               *)
LEMMA QuietClient ==
  ASSUME JInv, TypeOK', IndexInv', NEW c \in Client, NEW place, Goto(c, place),
         Pending(c), place \in {"set", "send", "wait", "check", "use", "abandon"},
         place \in {"check", "use", "abandon"} => job[ptr[c]].done,
         UNCHANGED <<jobVars, ptr, started, workerVars>>
  PROVE  JInv'
<1>1. cpc'[c] = place /\ \A d \in Client : d # c => cpc'[d] = cpc[d]
  BY GotoEffect DEF JInv
<1>2. \A d \in Client : (Asking(d)' <=> Asking(d)) /\ (Pending(d)' <=> Pending(d))
  BY <1>1 DEF Asking, Pending
<1>3. job' = job /\ jobs' = jobs /\ alloc' = alloc /\ ptr' = ptr /\ started' = started
      /\ wpc' = wpc /\ mine' = mine
  BY DEF jobVars, workerVars
<1>4. \A s : Listed(s)' <=> Listed(s)
  BY <1>3 DEF Listed
<1>5. StartInv' /\ WorkInv'
  BY <1>3, <1>4 DEF JInv, StartInv, WorkInv
<1>6. ClientInv'
  BY <1>1, <1>2, <1>3, <1>4 DEF JInv, ClientInv, Pending
<1>7. ListInv'
  BY <1>2, <1>3, <1>4 DEF JInv, ListInv
<1> QED
  BY <1>5, <1>6, <1>7 DEF JInv

LEMMA QuietWorker ==
  ASSUME JInv, TypeOK', NEW w \in JobWorker, NEW place, Move(w, place), wpc[w] # "unborn",
         place # "lookup", UNCHANGED <<jobVars, cpc, ptr, next, started>>,
         mine' \in {mine, [mine EXCEPT ![w] = NoJob]}
  PROVE  JInv'
<1>1. wpc'[w] = place /\ \A v \in JobWorker : v # w => wpc'[v] = wpc[v]
  BY MoveEffect DEF JInv
<1>2. job' = job /\ jobs' = jobs /\ alloc' = alloc /\ ptr' = ptr /\ started' = started
      /\ cpc' = cpc /\ next' = next
  BY DEF jobVars
<1>3. \A s : Listed(s)' <=> Listed(s)
  BY <1>2 DEF Listed
<1>4. \A d \in Client : (Asking(d)' <=> Asking(d)) /\ (Pending(d)' <=> Pending(d))
  BY <1>2 DEF Asking, Pending
<1>5. \A v \in JobWorker : v # w => mine'[v] = mine[v]
  BY DEF JInv, TypeOK
<1>6. StartInv' /\ WorkInv' /\ IndexInv'
  BY <1>1, <1>2, <1>3, <1>5 DEF JInv, StartInv, WorkInv, IndexInv
<1>7. ClientInv'
  BY <1>2, <1>3, <1>4 DEF JInv, ClientInv
<1>8. ListInv'
  BY <1>2, <1>3, <1>4 DEF JInv, ListInv
<1> QED
  BY <1>6, <1>7, <1>8 DEF JInv

-----------------------------------------------------------------------------
(* The steps that write to jobs or to the list.                            *)
LEMMA CreateKeeps ==
  ASSUME JInv, TypeOK', NEW c \in Client, CreateEmpty(c)
  PROVE  JInv'
<1>1. PICK s \in Slot \ alloc : /\ alloc' = alloc \cup {s}
                                /\ job' = [job EXCEPT ![s] = Zeroed]
                                /\ ptr' = [ptr EXCEPT ![c] = s]
  BY DEF CreateEmpty
<1>2. /\ job'[s] = Zeroed
      /\ \A x \in Slot : x # s => job'[x] = job[x]
      /\ ptr'[c] = s /\ \A d \in Client : d # c => ptr'[d] = ptr[d]
  BY <1>1 DEF JInv, TypeOK
<1>3. cpc'[c] = "request" /\ \A d \in Client : d # c => cpc'[d] = cpc[d]
  BY GotoEffect DEF JInv, CreateEmpty
<1>4. jobs' = jobs /\ started' = started /\ wpc' = wpc /\ mine' = mine /\ next' = next
  BY DEF CreateEmpty, workerVars
<1>5. \A x : Listed(x)' <=> Listed(x)
  BY <1>4 DEF Listed
<1>6. \A x : Listed(x) => x \in Slot /\ x \in alloc /\ x # s
  BY <1>1, ListedAreSlots
<1>7. ~Zeroed.inprogress /\ ~Zeroed.done /\ ~Zeroed.abandoned /\ s # NoJob /\ cpc[c] = "run"
  BY ZeroedFields, Constants DEF CreateEmpty
<1>8. \A d \in Client : ptr[d] # NoJob => ptr[d] \in Slot /\ ptr[d] \in alloc /\ ptr[d] # s
  BY <1>1 DEF JInv, TypeOK, ClientInv
<1>9. /\ Asking(c)' /\ ~Pending(c)' /\ ~Pending(c)
      /\ \A d \in Client : d # c => (Asking(d)' <=> Asking(d)) /\ (Pending(d)' <=> Pending(d))
  BY <1>3, <1>7 DEF Asking, Pending
<1>10. StartInv' /\ IndexInv'
  BY <1>3, <1>4 DEF JInv, StartInv, IndexInv
<1>11. WorkInv'
  BY <1>2, <1>4, <1>5, <1>6 DEF JInv, WorkInv
<1>12. \A d \in Client : (cpc'[d] # "run" <=> ptr'[d] # NoJob) /\ cpc'[d] # "free"
  BY <1>2, <1>3, <1>7 DEF JInv, ClientInv
<1>13. ClientInv'
  <2>1. \A d \in Client : ptr'[d] # NoJob => ptr'[d] \in alloc' /\ ~job'[ptr'[d]].abandoned
    BY <1>1, <1>2, <1>7, <1>8 DEF JInv, ClientInv
  <2>2. \A d, e \in Client : ptr'[d] # NoJob /\ ptr'[d] = ptr'[e] => d = e
    BY <1>2, <1>8 DEF JInv, ClientInv
  <2>3. \A d \in Client : Asking(d)' => job'[ptr'[d]] = Zeroed /\ ~Listed(ptr[d])'
    <3> SUFFICES ASSUME NEW d \in Client, Asking(d)'
                 PROVE  job'[ptr'[d]] = Zeroed /\ ~Listed(ptr[d])'
      OBVIOUS
    <3>1. CASE d = c
      BY <1>2, <1>5, <1>6, <3>1
    <3>2. CASE d # c
      <4>1. Asking(d) /\ ptr'[d] = ptr[d] /\ ptr[d] # NoJob
        BY <1>2, <1>9, <3>2 DEF JInv, ClientInv, Asking
      <4> QED
        BY <1>2, <1>5, <1>8, <4>1 DEF JInv, ClientInv
    <3> QED
      BY <3>1, <3>2
  <2>4. \A d \in Client : Pending(d)' => job'[ptr'[d]].owner = d
    BY <1>2, <1>8, <1>9 DEF JInv, ClientInv, Pending
  <2>5. \A d \in Client : cpc'[d] \in {"check", "use", "abandon"} => job'[ptr'[d]].done
    BY <1>2, <1>3, <1>8 DEF JInv, ClientInv
  <2> QED
    BY <1>12, <2>1, <2>2, <2>3, <2>4, <2>5 DEF ClientInv
<1>14. ListInv'
  <2>1. \A i \in DOMAIN jobs' : jobs'[i] \in alloc'
    BY <1>1, <1>4 DEF JInv, ListInv
  <2>2. \A x \in alloc' : Listed(x)' \/ \E d \in Client : Asking(d)' /\ ptr'[d] = x
    <3> SUFFICES ASSUME NEW x \in alloc', ~Listed(x)'
                 PROVE  \E d \in Client : Asking(d)' /\ ptr'[d] = x
      OBVIOUS
    <3>1. CASE x = s
      BY <1>2, <1>9, <3>1
    <3>2. CASE x # s
      <4>1. PICK d \in Client : Asking(d) /\ ptr[d] = x
        BY <1>1, <1>5, <3>2 DEF JInv, ListInv
      <4>2. d # c
        BY <1>7, <4>1 DEF Asking
      <4> QED
        BY <1>2, <1>9, <4>1, <4>2
    <3> QED
      BY <3>1, <3>2
  <2>3. \A x \in Slot : Listed(x)' /\ ~job'[x].abandoned =>
            \E d \in Client : Pending(d)' /\ ptr'[d] = x
    <3> SUFFICES ASSUME NEW x \in Slot, Listed(x), ~job[x].abandoned, x # s
                 PROVE  \E d \in Client : Pending(d)' /\ ptr'[d] = x
      BY <1>2, <1>5, <1>6
    <3>1. PICK d \in Client : Pending(d) /\ ptr[d] = x
      BY DEF JInv, ListInv
    <3> QED
      BY <1>2, <1>9, <3>1
  <2>4. \A x \in Slot : (job'[x].abandoned => job'[x].done)
                        /\ (job'[x].inprogress => ~job'[x].done)
    BY <1>2, <1>7 DEF JInv, ListInv
  <2> QED
    BY <1>4, <2>1, <2>2, <2>3, <2>4 DEF JInv, ListInv
<1> QED
  BY <1>10, <1>11, <1>13, <1>14 DEF JInv

(* A request adds a job that was not in the list, with its client waiting. *)
LEMMA RequestKeeps ==
  ASSUME JInv, TypeOK', NEW c \in Client, RequestFirst(c) \/ RequestNext(c)
  PROVE  JInv'
<1> DEFINE p == ptr[c]
<1>1. cpc[c] = "request" /\ Append1(c) /\ ptr' = ptr /\ alloc' = alloc /\ mine' = mine
      /\ started'
  BY DEF RequestFirst, RequestNext, workerVars
<1>2. PICK place \in {"wait", "set"} : Goto(c, place)
  BY DEF RequestFirst, RequestNext
<1>3. cpc'[c] = place /\ \A d \in Client : d # c => cpc'[d] = cpc[d]
  BY <1>2, GotoEffect DEF JInv
<1>4. p \in Slot /\ p # NoJob /\ p \in alloc
  BY <1>1, PointsToSlot
<1>5. /\ \A s \in Slot : s # p => job'[s] = job[s]
      /\ job'[p].owner = c /\ job'[p].done = job[p].done
      /\ job'[p].abandoned = job[p].abandoned /\ job'[p].inprogress = job[p].inprogress
      /\ jobs' \in Seq(Slot) /\ Len(jobs') = Len(jobs) + 1 /\ Len(jobs) \in Nat
      /\ jobs'[Len(jobs) + 1] = p
      /\ \A i \in 1 .. Len(jobs) : jobs'[i] = jobs[i]
  BY <1>1, <1>4, AppendEffect DEF JInv, Kept
<1>6. DOMAIN jobs = 1 .. Len(jobs) /\ DOMAIN jobs' = 1 .. (Len(jobs) + 1)
  BY <1>5 DEF JInv, TypeOK
<1>7. \A s : Listed(s)' <=> Listed(s) \/ s = p
  BY <1>5, <1>6 DEF Listed
<1>8. Asking(c) /\ ~Pending(c) /\ ~Listed(p) /\ job[p] = Zeroed
  BY <1>1 DEF JInv, ClientInv, Asking, Pending
<1>9. ~job[p].done /\ ~job[p].abandoned /\ ~job[p].inprogress
  BY <1>8, ZeroedFields
<1>10. /\ ~Asking(c)' /\ Pending(c)'
       /\ \A d \in Client : d # c => (Asking(d)' <=> Asking(d)) /\ (Pending(d)' <=> Pending(d))
  BY <1>3 DEF Asking, Pending
<1>11. \A d \in Client : d # c /\ ptr[d] # NoJob => ptr[d] # p /\ ptr[d] \in Slot
  BY <1>4 DEF JInv, ClientInv, TypeOK
<1>12. StartInv' /\ IndexInv'
  <2>1. IndexInv'
    <3> SUFFICES ASSUME NEW d \in Client, cpc'[d] = "send" PROVE next'[d] < WorkerCount
      BY DEF IndexInv
    <3>1. d # c /\ cpc[d] = "send"
      BY <1>3
    <3>2. next'[d] = next[d]
      BY <3>1 DEF RequestFirst, RequestNext, JInv, TypeOK
    <3> QED
      BY <3>1, <3>2 DEF JInv, IndexInv
  <2> QED
    BY <1>1, <2>1 DEF StartInv
<1>13. \A w \in JobWorker : wpc'[w] = "lookup" => wpc[w] = "lookup"
  BY DEF RequestFirst, RequestNext, workerVars
<1>14. \A w \in JobWorker : wpc[w] = "lookup" => mine[w] # p /\ mine[w] \in Slot
  BY <1>8 DEF JInv, WorkInv
<1>15. WorkInv'
  BY <1>1, <1>5, <1>7, <1>13, <1>14 DEF JInv, WorkInv
<1>16. ClientInv'
  <2>1. \A d \in Client : cpc'[d] # "free" /\ (cpc'[d] = "run" <=> ptr'[d] = NoJob)
    BY <1>1, <1>2, <1>3, <1>4 DEF JInv, ClientInv
  <2>2. \A d \in Client : ptr'[d] # NoJob => ptr'[d] \in alloc' /\ ~job'[ptr'[d]].abandoned
    BY <1>1, <1>5, <1>9, <1>11 DEF JInv, ClientInv
  <2>3. \A d \in Client : Asking(d)' => job'[ptr'[d]] = Zeroed /\ ~Listed(ptr[d])'
    <3> SUFFICES ASSUME NEW d \in Client, Asking(d)'
                 PROVE  job'[ptr'[d]] = Zeroed /\ ~Listed(ptr[d])'
      OBVIOUS
    <3>1. d # c /\ Asking(d) /\ ptr[d] # NoJob
      BY <1>10 DEF Asking, JInv, ClientInv
    <3> QED
      BY <1>1, <1>5, <1>7, <1>11, <3>1 DEF JInv, ClientInv
  <2>4. \A d \in Client : Pending(d)' => job'[ptr'[d]].owner = d
    <3> SUFFICES ASSUME NEW d \in Client, Pending(d)' PROVE job'[ptr'[d]].owner = d
      OBVIOUS
    <3>1. CASE d = c
      BY <1>1, <1>5, <3>1
    <3>2. CASE d # c
      <4>1. Pending(d) /\ ptr[d] # NoJob
        BY <1>10, <3>2 DEF Pending, JInv, ClientInv
      <4> QED
        BY <1>1, <1>5, <1>11, <3>2, <4>1 DEF JInv, ClientInv
    <3> QED
      BY <3>1, <3>2
  <2>5. \A d \in Client : cpc'[d] \in {"check", "use", "abandon"} => job'[ptr'[d]].done
    <3> SUFFICES ASSUME NEW d \in Client, cpc'[d] \in {"check", "use", "abandon"}
                 PROVE  job'[ptr'[d]].done
      OBVIOUS
    <3>1. d # c /\ cpc[d] = cpc'[d]
      BY <1>2, <1>3
    <3>2. ptr[d] # NoJob /\ job[ptr[d]].done
      BY <3>1 DEF JInv, ClientInv
    <3> QED
      BY <1>1, <1>5, <1>11, <3>1, <3>2
  <2> QED
    BY <1>1, <2>1, <2>2, <2>3, <2>4, <2>5 DEF JInv, ClientInv
<1>17. ListInv'
  <2>1. \A i \in DOMAIN jobs' : jobs'[i] \in alloc'
    BY <1>1, <1>4, <1>5, <1>6 DEF JInv, ListInv
  <2>2. NothingTwice(jobs')
    <3>1. \A i \in 1 .. Len(jobs) : jobs[i] # p
      BY <1>6, <1>8 DEF Listed
    <3>2. \A i \in 1 .. Len(jobs') : i \in 1 .. Len(jobs) \/ i = Len(jobs) + 1
      BY <1>5
    <3>3. \A i, j \in 1 .. Len(jobs) : jobs[i] = jobs[j] => i = j
      BY DEF JInv, ListInv, NothingTwice
    <3> QED
      BY <1>5, <3>1, <3>2, <3>3 DEF NothingTwice
  <2>3. \A x \in alloc' : Listed(x)' \/ \E d \in Client : Asking(d)' /\ ptr'[d] = x
    <3> SUFFICES ASSUME NEW x \in alloc, ~Listed(x), x # p
                 PROVE  \E d \in Client : Asking(d)' /\ ptr'[d] = x
      BY <1>1, <1>7
    <3>1. PICK d \in Client : Asking(d) /\ ptr[d] = x
      BY DEF JInv, ListInv
    <3> QED
      BY <1>1, <1>10, <3>1
  <2>4. \A x \in Slot : Listed(x)' /\ ~job'[x].abandoned =>
            \E d \in Client : Pending(d)' /\ ptr'[d] = x
    <3> SUFFICES ASSUME NEW x \in Slot, Listed(x)', ~job'[x].abandoned
                 PROVE  \E d \in Client : Pending(d)' /\ ptr'[d] = x
      OBVIOUS
    <3>1. CASE x = p
      BY <1>1, <1>10, <3>1
    <3>2. CASE x # p
      <4>1. PICK d \in Client : Pending(d) /\ ptr[d] = x
        BY <1>5, <1>7, <3>2 DEF JInv, ListInv
      <4> QED
        BY <1>1, <1>8, <1>10, <4>1
    <3> QED
      BY <3>1, <3>2
  <2>5. \A x \in Slot : (job'[x].abandoned => job'[x].done)
                        /\ (job'[x].inprogress => ~job'[x].done)
    BY <1>5, <1>9 DEF JInv, ListInv
  <2> QED
    BY <2>1, <2>2, <2>3, <2>4, <2>5 DEF ListInv
<1> QED
  BY <1>12, <1>15, <1>16, <1>17 DEF JInv

(* Only done jobs are abandoned, and then nobody points to them any more.  *)
LEMMA AbandonKeeps ==
  ASSUME JInv, TypeOK', NEW c \in Client, AbandonJob(c)
  PROVE  JInv'
<1> DEFINE p == ptr[c]
<1>1. /\ cpc[c] = "abandon" /\ ptr' = [ptr EXCEPT ![c] = NoJob] /\ Goto(c, "run")
      /\ alloc' = alloc /\ jobs' = jobs /\ started' = started /\ wpc' = wpc /\ mine' = mine
      /\ next' = next
  BY DEF AbandonJob, workerVars
<1>2. cpc'[c] = "run" /\ \A d \in Client : d # c => cpc'[d] = cpc[d]
  BY <1>1, GotoEffect DEF JInv
<1>3. p \in Slot /\ p # NoJob /\ p \in alloc /\ job[p].done
  BY <1>1, PointsToSlot DEF JInv, ClientInv
<1>4. /\ \A s \in Slot : s # p => job'[s] = job[s]
      /\ job'[p].done /\ job'[p].abandoned
      /\ job'[p].inprogress = job[p].inprogress
  BY <1>3, AbandonEffect DEF JInv, Kept
<1>5. ptr'[c] = NoJob /\ \A d \in Client : d # c => ptr'[d] = ptr[d]
  BY <1>1 DEF JInv, TypeOK
<1>6. \A s : Listed(s)' <=> Listed(s)
  BY <1>1 DEF Listed
<1>7. \A d \in Client : d # c /\ ptr[d] # NoJob => ptr[d] # p /\ ptr[d] \in Slot
  BY <1>3 DEF JInv, ClientInv, TypeOK
<1>8. /\ ~Asking(c) /\ Pending(c) /\ ~Asking(c)' /\ ~Pending(c)'
      /\ \A d \in Client : d # c => (Asking(d)' <=> Asking(d)) /\ (Pending(d)' <=> Pending(d))
  BY <1>1, <1>2 DEF Asking, Pending
<1>9. \A d \in Client : Asking(d) \/ Pending(d) => ptr[d] # NoJob
  BY DEF JInv, ClientInv, Asking, Pending
<1>10. StartInv' /\ IndexInv'
  BY <1>1, <1>2 DEF JInv, StartInv, IndexInv
<1>11. WorkInv'
  BY <1>1, <1>4, <1>6 DEF JInv, WorkInv
<1>12. ClientInv'
  <2>1. \A d \in Client : cpc'[d] # "free" /\ (cpc'[d] = "run" <=> ptr'[d] = NoJob)
    BY <1>2, <1>5 DEF JInv, ClientInv
  <2>2. \A d \in Client : ptr'[d] # NoJob => ptr'[d] \in alloc' /\ ~job'[ptr'[d]].abandoned
    BY <1>1, <1>4, <1>5, <1>7 DEF JInv, ClientInv
  <2>3. \A d, e \in Client : ptr'[d] # NoJob /\ ptr'[d] = ptr'[e] => d = e
    BY <1>5 DEF JInv, ClientInv
  <2>4. \A d \in Client : Asking(d)' => job'[ptr'[d]] = Zeroed /\ ~Listed(ptr[d])'
    <3> SUFFICES ASSUME NEW d \in Client, Asking(d)'
                 PROVE  job'[ptr'[d]] = Zeroed /\ ~Listed(ptr[d])'
      OBVIOUS
    <3>1. d # c /\ Asking(d) /\ ptr'[d] = ptr[d]
      BY <1>5, <1>8
    <3> QED
      BY <1>4, <1>6, <1>7, <1>9, <3>1 DEF JInv, ClientInv
  <2>5. \A d \in Client : Pending(d)' => job'[ptr'[d]].owner = d
    <3> SUFFICES ASSUME NEW d \in Client, Pending(d)' PROVE job'[ptr'[d]].owner = d
      OBVIOUS
    <3>1. d # c /\ Pending(d) /\ ptr'[d] = ptr[d]
      BY <1>5, <1>8
    <3> QED
      BY <1>4, <1>7, <1>9, <3>1 DEF JInv, ClientInv
  <2>6. \A d \in Client : cpc'[d] \in {"check", "use", "abandon"} => job'[ptr'[d]].done
    <3> SUFFICES ASSUME NEW d \in Client, cpc'[d] \in {"check", "use", "abandon"}
                 PROVE  job'[ptr'[d]].done
      OBVIOUS
    <3>1. d # c /\ cpc[d] = cpc'[d] /\ ptr'[d] = ptr[d]
      BY <1>2, <1>5
    <3>2. ptr[d] # NoJob /\ job[ptr[d]].done
      BY <3>1 DEF JInv, ClientInv
    <3> QED
      BY <1>4, <1>7, <3>1, <3>2
  <2> QED
    BY <2>1, <2>2, <2>3, <2>4, <2>5, <2>6 DEF ClientInv
<1>13. ListInv'
  <2>1. \A x \in alloc' : Listed(x)' \/ \E d \in Client : Asking(d)' /\ ptr'[d] = x
    <3> SUFFICES ASSUME NEW x \in alloc, ~Listed(x)
                 PROVE  \E d \in Client : Asking(d)' /\ ptr'[d] = x
      BY <1>1, <1>6
    <3>1. PICK d \in Client : Asking(d) /\ ptr[d] = x
      BY DEF JInv, ListInv
    <3> QED
      BY <1>5, <1>8, <3>1
  <2>2. \A x \in Slot : Listed(x)' /\ ~job'[x].abandoned =>
            \E d \in Client : Pending(d)' /\ ptr'[d] = x
    <3> SUFFICES ASSUME NEW x \in Slot, Listed(x)', ~job'[x].abandoned
                 PROVE  \E d \in Client : Pending(d)' /\ ptr'[d] = x
      OBVIOUS
    <3>1. x # p
      BY <1>4
    <3>2. PICK d \in Client : Pending(d) /\ ptr[d] = x
      BY <1>4, <1>6, <3>1 DEF JInv, ListInv
    <3> QED
      BY <1>5, <1>8, <3>1, <3>2
  <2>3. \A x \in Slot : (job'[x].abandoned => job'[x].done)
                        /\ (job'[x].inprogress => ~job'[x].done)
    BY <1>3, <1>4 DEF JInv, ListInv
  <2> QED
    BY <1>1, <2>1, <2>2, <2>3 DEF JInv, ListInv
<1> QED
  BY <1>10, <1>11, <1>12, <1>13 DEF JInv

(* A scan only frees jobs nobody points to or works on, and takes one that *)
(* nobody works on.                                                        *)
LEMMA ScanKeeps ==
  ASSUME JInv, TypeOK', NEW w \in JobWorker, Scan(w)
  PROVE  JInv'
<1>1. PICK k, freed : ScanTo(w, k, freed)
  BY ScanEffect DEF JInv, ListInv
<1>2. /\ wpc[w] = "scan" /\ alloc' = alloc \ freed /\ NothingTwice(jobs')
      /\ \A s \in freed : Dead(s) /\ Listed(s)
      /\ \A s : Listed(s)' <=> Listed(s) /\ s \notin freed
      /\ \A s \in freed : job'[s] = Zeroed
      /\ started' = started /\ cpc' = cpc /\ ptr' = ptr /\ next' = next
  BY <1>1 DEF ScanTo, clientVars
<1>3. \A d \in Client : (Asking(d)' <=> Asking(d)) /\ (Pending(d)' <=> Pending(d))
  BY <1>2 DEF Asking, Pending
<1>4. \A d \in Client : ptr[d] # NoJob =>
         ptr[d] \in Slot /\ ptr[d] \in alloc /\ ptr[d] \notin freed
  BY <1>2 DEF JInv, TypeOK, ClientInv, Dead
<1>5. \A d \in Client : Asking(d) \/ Pending(d) => ptr[d] # NoJob
  BY DEF JInv, ClientInv, Asking, Pending
<1>6. \A v \in JobWorker : wpc[v] = "lookup" =>
         mine[v] \in Slot /\ Listed(mine[v]) /\ job[mine[v]].inprogress /\ mine[v] \notin freed
  BY <1>2 DEF JInv, WorkInv, Dead
<1>7. (* A job left in place keeps its fields, but for the mark on the one taken. *)
      /\ \A s \in Slot : s \notin freed =>
           /\ job'[s].owner = job[s].owner /\ job'[s].done = job[s].done
           /\ job'[s].abandoned = job[s].abandoned
           /\ job[s].inprogress => job'[s].inprogress
           /\ job'[s].inprogress => job[s].inprogress \/ ~job[s].done
           /\ ~Listed(s) => job'[s] = job[s]
      /\ WorkInv'
  <2>1. CASE wpc' = [wpc EXCEPT ![w] = "check"] /\ mine' = mine
             /\ \A s \in Slot \ freed : Kept(s)
    <3>1. \A v \in JobWorker : wpc'[v] = "lookup" => wpc[v] = "lookup"
      BY <2>1 DEF JInv, TypeOK
    <3>2. WorkInv'
      BY <1>2, <1>6, <2>1, <3>1 DEF JInv, WorkInv, Kept
    <3> QED
      BY <2>1, <3>2 DEF Kept
  <2>2. CASE /\ Takeable(jobs[k + 1]) /\ jobs[k + 1] \in Slot \ freed /\ Listed(jobs[k + 1])
             /\ \A s \in Slot \ (freed \cup {jobs[k + 1]}) : Kept(s)
             /\ job'[jobs[k + 1]].owner = job[jobs[k + 1]].owner
             /\ job'[jobs[k + 1]].done = job[jobs[k + 1]].done
             /\ job'[jobs[k + 1]].abandoned = job[jobs[k + 1]].abandoned
             /\ job'[jobs[k + 1]].inprogress = TRUE
             /\ mine' = [mine EXCEPT ![w] = jobs[k + 1]]
             /\ wpc' = [wpc EXCEPT ![w] = "lookup"]
    <3>1. PICK x \in Slot : x = jobs[k + 1]
      BY <2>2
    <3>2. /\ wpc'[w] = "lookup" /\ mine'[w] = x
          /\ \A v \in JobWorker : v # w => wpc'[v] = wpc[v] /\ mine'[v] = mine[v]
      BY <2>2, <3>1 DEF JInv, TypeOK
    <3>3. /\ ~job[x].inprogress /\ ~job[x].done /\ job'[x].inprogress /\ x \notin freed
          /\ Listed(x) /\ job'[x].owner = job[x].owner /\ job'[x].done = job[x].done
          /\ job'[x].abandoned = job[x].abandoned
          /\ \A s \in Slot : s \notin freed /\ s # x => job'[s] = job[s]
      BY <2>2, <3>1 DEF Takeable, Kept
    <3>4. \A v \in JobWorker : wpc[v] = "lookup" => mine[v] # x
      BY <1>6, <3>3
    <3>5. WorkInv'
      <4>1. \A v \in JobWorker : wpc'[v] = "lookup" =>
               mine'[v] \in Slot /\ Listed(mine[v])' /\ job'[mine'[v]].inprogress
        <5> SUFFICES ASSUME NEW v \in JobWorker, wpc'[v] = "lookup"
                     PROVE  mine'[v] \in Slot /\ Listed(mine[v])' /\ job'[mine'[v]].inprogress
          OBVIOUS
        <5>1. CASE v = w
          <6>1. Listed(x)'
            BY <1>2, <3>3
          <6> QED
            BY <3>2, <3>3, <5>1, <6>1
        <5>2. CASE v # w
          <6>1. wpc[v] = "lookup" /\ mine'[v] = mine[v]
            BY <3>2, <5>2
          <6> QED
            BY <1>2, <1>6, <3>3, <3>4, <6>1
        <5> QED
          BY <5>1, <5>2
      <4>2. \A u, v \in JobWorker :
               wpc'[u] = "lookup" /\ wpc'[v] = "lookup" /\ mine'[u] = mine'[v] => u = v
        BY <3>2, <3>4 DEF JInv, WorkInv
      <4> QED
        BY <4>1, <4>2 DEF WorkInv
    <3> QED
      BY <3>3, <3>5
  <2> QED
    BY <1>1, <2>1, <2>2 DEF ScanTo
<1>8. \A s \in Slot : s \in freed => ~job'[s].inprogress /\ ~job'[s].done /\ ~job'[s].abandoned
  BY <1>2, ZeroedFields
<1>9. StartInv' /\ IndexInv'
  <2>1. started
    BY <1>2 DEF JInv, StartInv
  <2> QED
    BY <1>2, <2>1 DEF JInv, StartInv, IndexInv
<1>10. ClientInv'
  <2>1. \A d \in Client : ptr'[d] # NoJob => ptr'[d] \in alloc' /\ ~job'[ptr'[d]].abandoned
    BY <1>2, <1>4, <1>7 DEF JInv, ClientInv
  <2>2. \A d \in Client : Asking(d)' => job'[ptr'[d]] = Zeroed /\ ~Listed(ptr[d])'
    <3> SUFFICES ASSUME NEW d \in Client, Asking(d)
                 PROVE  job'[ptr[d]] = Zeroed /\ ~Listed(ptr[d])'
      BY <1>2, <1>3
    <3>1. ~Listed(ptr[d]) /\ job[ptr[d]] = Zeroed
      BY DEF JInv, ClientInv
    <3>2. ptr[d] \in Slot /\ ptr[d] \notin freed
      BY <1>4, <1>5
    <3>3. job'[ptr[d]] = job[ptr[d]]
      BY <1>7, <3>1, <3>2
    <3>4. ~Listed(ptr[d])'
      <4>1. PICK x : x = ptr[d]
        OBVIOUS
      <4>2. ~Listed(x)'
        BY <1>2, <3>1, <4>1
      <4> QED
        BY <1>2, <4>1, <4>2
    <3> QED
      BY <3>1, <3>3, <3>4
  <2>3. \A d \in Client : Pending(d)' => job'[ptr'[d]].owner = d
    BY <1>2, <1>3, <1>4, <1>5, <1>7 DEF JInv, ClientInv
  <2>4. \A d \in Client : cpc'[d] \in {"check", "use", "abandon"} => job'[ptr'[d]].done
    <3> SUFFICES ASSUME NEW d \in Client, cpc[d] \in {"check", "use", "abandon"}
                 PROVE  job'[ptr[d]].done
      BY <1>2
    <3>1. ptr[d] # NoJob /\ job[ptr[d]].done
      BY DEF JInv, ClientInv
    <3> QED
      BY <1>4, <1>7, <3>1
  <2> QED
    BY <1>2, <2>1, <2>2, <2>3, <2>4 DEF JInv, ClientInv
<1>11. ListInv'
  <2>1. \A i \in DOMAIN jobs' : jobs'[i] \in alloc'
    <3> SUFFICES ASSUME NEW i \in DOMAIN jobs' PROVE jobs'[i] \in alloc'
      OBVIOUS
    <3>1. PICK x : x = jobs'[i]
      OBVIOUS
    <3>2. Listed(x)'
      BY <3>1 DEF Listed
    <3>3. Listed(x) /\ x \notin freed
      BY <1>2, <3>2
    <3> QED
      BY <1>2, <3>1, <3>3, ListedAreSlots
  <2>2. \A x \in alloc' : Listed(x)' \/ \E d \in Client : Asking(d)' /\ ptr'[d] = x
    <3> SUFFICES ASSUME NEW x \in alloc, x \notin freed, ~Listed(x)
                 PROVE  \E d \in Client : Asking(d)' /\ ptr'[d] = x
      BY <1>2
    <3>1. PICK d \in Client : Asking(d) /\ ptr[d] = x
      BY DEF JInv, ListInv
    <3> QED
      BY <1>2, <1>3, <3>1
  <2>3. \A x \in Slot : Listed(x)' /\ ~job'[x].abandoned =>
            \E d \in Client : Pending(d)' /\ ptr'[d] = x
    <3> SUFFICES ASSUME NEW x \in Slot, Listed(x)', ~job'[x].abandoned
                 PROVE  \E d \in Client : Pending(d)' /\ ptr'[d] = x
      OBVIOUS
    <3>1. Listed(x) /\ ~job[x].abandoned
      BY <1>2, <1>7
    <3>2. PICK d \in Client : Pending(d) /\ ptr[d] = x
      BY <3>1 DEF JInv, ListInv
    <3> QED
      BY <1>2, <1>3, <3>2
  <2>4. \A x \in Slot : (job'[x].abandoned => job'[x].done)
                        /\ (job'[x].inprogress => ~job'[x].done)
    BY <1>7, <1>8 DEF JInv, ListInv
  <2> QED
    BY <1>2, <2>1, <2>2, <2>3, <2>4 DEF ListInv
<1> QED
  BY <1>7, <1>9, <1>10, <1>11 DEF JInv

(* What a worker marks done was in progress with it alone.                 *)
LEMMA DoneKeeps ==
  ASSUME JInv, TypeOK', NEW w \in JobWorker, MarkDone(w)
  PROVE  JInv'
<1> DEFINE m == mine[w]
<1>1. /\ wpc[w] = "lookup" /\ Move(w, "announce")
      /\ alloc' = alloc /\ jobs' = jobs /\ started' = started /\ mine' = mine
      /\ cpc' = cpc /\ ptr' = ptr /\ next' = next
  BY DEF MarkDone, clientVars
<1>2. wpc'[w] = "announce" /\ \A v \in JobWorker : v # w => wpc'[v] = wpc[v]
  BY <1>1, MoveEffect DEF JInv
<1>3. m \in Slot /\ Listed(m) /\ job[m].inprogress /\ ~job[m].done
  BY <1>1 DEF JInv, WorkInv, ListInv
<1>4. /\ \A s \in Slot : s # m => job'[s] = job[s]
      /\ job'[m].owner = job[m].owner /\ job'[m].done
      /\ job'[m].abandoned = job[m].abandoned /\ ~job'[m].inprogress
  BY <1>3, DoneEffect DEF JInv, Kept
<1>5. \A s : Listed(s)' <=> Listed(s)
  BY <1>1 DEF Listed
<1>6. \A d \in Client : (Asking(d)' <=> Asking(d)) /\ (Pending(d)' <=> Pending(d))
  BY <1>1 DEF Asking, Pending
<1>7. \A d \in Client : Asking(d) => ptr[d] # m
  BY <1>3 DEF JInv, ClientInv
<1>8. \A d \in Client : ptr[d] # NoJob => ptr[d] \in Slot
  BY DEF JInv, TypeOK
<1>9. \A d \in Client : Asking(d) \/ Pending(d) => ptr[d] # NoJob
  BY DEF JInv, ClientInv, Asking, Pending
<1>10. StartInv' /\ IndexInv'
  BY <1>1, <1>2 DEF JInv, StartInv, IndexInv
<1>11. WorkInv'
  <2>1. \A v \in JobWorker : wpc'[v] = "lookup" => v # w /\ wpc[v] = "lookup" /\ mine[v] # m
    BY <1>1, <1>2 DEF JInv, WorkInv
  <2> QED
    BY <1>1, <1>4, <1>5, <2>1 DEF JInv, WorkInv
<1>12. ClientInv'
  <2>1. \A d \in Client : ptr'[d] # NoJob => ptr'[d] \in alloc' /\ ~job'[ptr'[d]].abandoned
    BY <1>1, <1>4, <1>8 DEF JInv, ClientInv
  <2>2. \A d \in Client : Asking(d)' => job'[ptr'[d]] = Zeroed /\ ~Listed(ptr[d])'
    BY <1>1, <1>4, <1>5, <1>6, <1>7, <1>8, <1>9 DEF JInv, ClientInv
  <2>3. \A d \in Client : Pending(d)' => job'[ptr'[d]].owner = d
    BY <1>1, <1>4, <1>6, <1>8, <1>9 DEF JInv, ClientInv
  <2>4. \A d \in Client : cpc'[d] \in {"check", "use", "abandon"} => job'[ptr'[d]].done
    <3> SUFFICES ASSUME NEW d \in Client, cpc[d] \in {"check", "use", "abandon"}
                 PROVE  job'[ptr[d]].done
      BY <1>1
    <3>1. ptr[d] # NoJob /\ job[ptr[d]].done
      BY DEF JInv, ClientInv
    <3> QED
      BY <1>4, <1>8, <3>1
  <2> QED
    BY <1>1, <2>1, <2>2, <2>3, <2>4 DEF JInv, ClientInv
<1>13. ListInv'
  BY <1>1, <1>3, <1>4, <1>5, <1>6 DEF JInv, ListInv
<1> QED
  BY <1>10, <1>11, <1>12, <1>13 DEF JInv

-----------------------------------------------------------------------------
(* No request fails: no memory runs out in RequestAsync, and a first worker*)
(* is created.  A failed one is a defect of its own (AbandonsOwnJob).      *)
NoRequestFails == [][\A c \in Client : ~RequestFails(c)]_vars

(* The invariant is inductive.                                             *)
LEMMA StepKeepsJInv ==
  ASSUME JInv, [Next]_vars, [\A c \in Client : ~RequestFails(c)]_vars
  PROVE  JInv'
<1>1. TypeOK'
  BY TypeStep
<1>2. JInv /\ TypeOK /\ IndexInv
  BY DEF JInv
<1>3. ASSUME NEW c \in Client, CreateEmpty(c) PROVE JInv'
  BY <1>1, <1>3, CreateKeeps
<1>4. ASSUME UNCHANGED <<lock, jobVars, started, workerVars, eventVars, cpc, ptr, next>>
      PROVE  JInv'
  <2>1. job' = job /\ jobs' = jobs /\ alloc' = alloc /\ ptr' = ptr /\ started' = started
        /\ wpc' = wpc /\ mine' = mine /\ cpc' = cpc /\ next' = next
    BY <1>4 DEF jobVars, workerVars
  <2>2. \A s : Listed(s)' <=> Listed(s)
    BY <2>1 DEF Listed
  <2>3. \A d \in Client : (Asking(d)' <=> Asking(d)) /\ (Pending(d)' <=> Pending(d))
    BY <2>1 DEF Asking, Pending
  <2>4. StartInv' /\ IndexInv' /\ WorkInv'
    BY <2>1, <2>2 DEF JInv, StartInv, IndexInv, WorkInv
  <2>5. ClientInv' /\ ListInv'
    BY <2>1, <2>2, <2>3 DEF JInv, ClientInv, ListInv
  <2> QED
    BY <1>1, <2>4, <2>5 DEF JInv
<1>5. ASSUME NEW c \in Client, RequestFails(c) PROVE JInv'
  <2>1. UNCHANGED vars
    BY <1>5
  <2> QED
    BY <1>4, <2>1 DEF vars, clientVars
<1>6. ASSUME NEW c \in Client, ClientStep(c) PROVE JInv'
  <2>1. ASSUME RequestFirst(c) \/ RequestNext(c) PROVE JInv'
    BY <1>1, <2>1, RequestKeeps
  <2>2. ASSUME SetEvent(c) PROVE JInv'
    <3>1. /\ Goto(c, "send") /\ Pending(c) /\ next[c] < WorkerCount
          /\ UNCHANGED <<jobVars, ptr, started, workerVars, next>>
      BY <2>2 DEF SetEvent, Pending
    <3>2. IndexInv'
      BY <1>2, <3>1, GotoEffect DEF IndexInv
    <3> QED
      BY <1>1, <3>1, <3>2, QuietClient
  <2>3. ASSUME SendByte(c) PROVE JInv'
    <3>1. /\ Goto(c, "set") /\ Pending(c)
          /\ UNCHANGED <<jobVars, ptr, started, workerVars>>
          /\ \A d \in Client : d # c => next'[d] = next[d]
      BY <1>2, <2>3 DEF SendByte, Pending, TypeOK
    <3>2. IndexInv'
      BY <1>2, <3>1, GotoEffect DEF IndexInv
    <3> QED
      BY <1>1, <3>1, <3>2, QuietClient
  <2>4. ASSUME Requested(c) \/ Resume(c) \/ IsDone(c) \/ UseResult(c) PROVE JInv'
    <3>1. PICK place \in {"wait", "check", "use", "abandon"} : Goto(c, place)
      BY <2>4 DEF Requested, Resume, IsDone, UseResult
    <3>2. /\ Pending(c) /\ UNCHANGED <<jobVars, ptr, started, workerVars, next>>
      BY <2>4 DEF Requested, Resume, IsDone, UseResult, Pending
    <3>3. cpc'[c] = place
      BY <1>2, <3>1, GotoEffect
    <3>4. place \in {"check", "use", "abandon"} => job[ptr[c]].done
      <4>1. CASE Requested(c)
        BY <1>2, <3>3, <4>1, GotoEffect DEF Requested
      <4>2. CASE Resume(c)
        BY <4>2 DEF Resume
      <4>3. CASE IsDone(c)
        BY <1>2, <3>3, <4>3, GotoEffect DEF IsDone
      <4>4. CASE UseResult(c)
        BY <4>4 DEF UseResult, JInv, ClientInv
      <4> QED
        BY <2>4, <4>1, <4>2, <4>3, <4>4
    <3>5. IndexInv'
      BY <1>2, <3>1, <3>2, GotoEffect DEF IndexInv
    <3> QED
      BY <1>1, <3>1, <3>2, <3>4, <3>5, QuietClient
  <2>5. ASSUME FreeJob(c) PROVE JInv'
    BY <2>5 DEF FreeJob, JInv, ClientInv
  <2>6. ASSUME AbandonJob(c) PROVE JInv'
    BY <1>1, <2>6, AbandonKeeps
  <2> QED
    BY <1>6, <2>1, <2>2, <2>3, <2>4, <2>5, <2>6 DEF ClientStep
<1>7. ASSUME NEW w \in JobWorker, WorkerStep(w) PROVE JInv'
  <2>1. ASSUME Scan(w) PROVE JInv'
    BY <1>1, <2>1, ScanKeeps
  <2>2. ASSUME MarkDone(w) PROVE JInv'
    BY <1>1, <2>2, DoneKeeps
  <2>3. ASSUME Announce(w) PROVE JInv'
    <3>1. /\ Move(w, "scan") /\ wpc[w] # "unborn"
          /\ UNCHANGED <<jobVars, cpc, ptr, next, started>>
          /\ mine' \in {mine, [mine EXCEPT ![w] = NoJob]}
      BY <2>3 DEF Announce, clientVars
    <3> QED
      BY <1>1, <3>1, QuietWorker
  <2>4. ASSUME NEW place \in {"poll", "scan"}, wpc[w] # "unborn", TakeFlag(w, place)
        PROVE  JInv'
    <3>1. PICK to \in {"poll", "scan"} : Move(w, to)
      BY <2>4 DEF TakeFlag
    <3>2. /\ UNCHANGED <<jobVars, cpc, ptr, next, started>>
          /\ mine' \in {mine, [mine EXCEPT ![w] = NoJob]}
      BY <2>4 DEF TakeFlag, clientVars
    <3> QED
      BY <1>1, <2>4, <3>1, <3>2, QuietWorker
  <2>5. ASSUME Readable(w) PROVE JInv'
    <3>1. /\ Move(w, "recheck") /\ wpc[w] # "unborn"
          /\ UNCHANGED <<jobVars, cpc, ptr, next, started>>
          /\ mine' \in {mine, [mine EXCEPT ![w] = NoJob]}
      BY <2>5 DEF Readable, clientVars
    <3> QED
      BY <1>1, <3>1, QuietWorker
  <2> QED
    BY <1>7, <2>1, <2>2, <2>3, <2>4, <2>5 DEF WorkerStep, FirstCheck, Recheck, WaitTimeout
<1>8. ASSUME UNCHANGED vars PROVE JInv'
  BY <1>4, <1>8 DEF vars, clientVars
<1>9. ASSUME NEW c \in Client, CreateFails(c) PROVE JInv'
  BY <1>4, <1>9 DEF CreateFails
<1> QED
  BY <1>3, <1>5, <1>6, <1>7, <1>8, <1>9 DEF Next, NoMoreCalls

(* The invariant, for any number of clients, slots, workers and calls.     *)
THEOREM JobInvariant == Spec /\ NoRequestFails => []JInv
<1>1. JInv /\ [Next]_vars /\ [\A c \in Client : ~RequestFails(c)]_vars => JInv'
  BY StepKeepsJInv
<1> QED
  BY InitJInv, <1>1, PTL DEF Spec, NoRequestFails

(* A job a client or a worker uses is allocated and nobody else's, although*)
(* clients and workers free and reuse slots of the same pool concurrently. *)
THEOREM JobsAreAllocated == Spec /\ NoRequestFails => []JobsInUseAreAllocated
<1>1. ASSUME JInv PROVE JobsInUseAreAllocated
  <2>1. \A c \in Client : ptr[c] # NoJob =>
          /\ ptr[c] \in alloc
          /\ \A d \in Client \ {c} : ptr[d] # ptr[c]
          /\ cpc[c] \notin {"request", "free"} => job[ptr[c]].owner = c
    BY <1>1 DEF JInv, ClientInv, Pending
  <2>2. \A w \in JobWorker : wpc[w] = "lookup" =>
          /\ mine[w] \in alloc
          /\ Listed(mine[w])
          /\ job[mine[w]].inprogress
          /\ \A v \in JobWorker \ {w} : wpc[v] = "lookup" => mine[v] # mine[w]
    BY <1>1, ListedAreSlots DEF JInv, WorkInv
  <2>3. \A i, j \in DOMAIN jobs : jobs[i] \in alloc /\ (i # j => jobs[i] # jobs[j])
    <3>1. DOMAIN jobs = 1 .. Len(jobs)
      BY <1>1 DEF JInv, TypeOK
    <3>2. NothingTwice(jobs) /\ \A i \in DOMAIN jobs : jobs[i] \in alloc
      BY <1>1 DEF JInv, ListInv
    <3> QED
      BY <3>1, <3>2 DEF NothingTwice
  <2> QED
    BY <2>1, <2>2, <2>3 DEF JobsInUseAreAllocated
<1> QED
  BY JobInvariant, <1>1, PTL

(* No step changes a done job that is not abandoned, but to abandon it.    *)
LEMMA ResultsStayStep ==
  ASSUME JInv, [Next]_vars, [\A c \in Client : ~RequestFails(c)]_vars,
         NEW s \in alloc, job[s].done, ~job[s].abandoned
  PROVE  s \in alloc' /\ job'[s] \in {job[s], [job[s] EXCEPT !.abandoned = TRUE]}
<1> DEFINE Stays == s \in alloc' /\ job'[s] \in {job[s], [job[s] EXCEPT !.abandoned = TRUE]}
<1>1. s \in Slot
  BY DEF JInv, TypeOK
<1>2. ASSUME job' = job, alloc' = alloc PROVE Stays
  BY <1>2
<1>3. ASSUME s \in alloc', job'[s] = job[s] PROVE Stays
  BY <1>3
<1>4. ASSUME NEW c \in Client, CreateEmpty(c) PROVE Stays
  BY <1>1, <1>4 DEF CreateEmpty, JInv, TypeOK
<1>5. ASSUME NEW c \in Client, RequestFirst(c) \/ RequestNext(c) PROVE Stays
  <2>1. Append1(c) /\ cpc[c] = "request" /\ alloc' = alloc
    BY <1>5 DEF RequestFirst, RequestNext
  <2>2. ptr[c] \in Slot /\ job[ptr[c]] = Zeroed
    BY <2>1, PointsToSlot DEF JInv, ClientInv, Asking
  <2>3. s # ptr[c]
    BY <2>2, ZeroedFields
  <2>4. job'[s] = job[s]
    BY <1>1, <2>1, <2>2, <2>3, AppendEffect DEF JInv, Kept
  <2> QED
    BY <1>3, <2>1, <2>4
<1>6. ASSUME NEW c \in Client, AbandonJob(c) PROVE Stays
  <2>1. ptr[c] \in Slot /\ alloc' = alloc
    BY <1>6, PointsToSlot DEF AbandonJob
  <2>2. job'[ptr[c]] = [job[ptr[c]] EXCEPT !.abandoned = TRUE]
        /\ \A x \in Slot \ {ptr[c]} : job'[x] = job[x]
    BY <1>6, <2>1, AbandonEffect DEF JInv, Kept
  <2>3. CASE s = ptr[c]
    <3>1. job'[s] = [job[s] EXCEPT !.abandoned = TRUE]
      BY <2>2, <2>3, Zenon
    <3> QED
      BY <2>1, <3>1, Zenon
  <2>4. CASE s # ptr[c]
    BY <1>1, <1>3, <2>1, <2>2, <2>4
  <2> QED
    BY <2>3, <2>4
<1>7. ASSUME NEW c \in Client, FreeJob(c) PROVE Stays
  BY <1>7 DEF FreeJob, JInv, ClientInv
<1>8. ASSUME NEW w \in JobWorker, Scan(w) PROVE Stays
  <2>1. PICK k, freed : ScanTo(w, k, freed)
    BY <1>8, ScanEffect DEF JInv, ListInv
  <2>2. s \notin freed /\ s \in alloc'
    BY <2>1 DEF ScanTo, Dead
  <2>3. job'[s] = job[s]
    BY <1>1, <2>1, <2>2 DEF ScanTo, Takeable, Kept
  <2> QED
    BY <1>3, <2>2, <2>3
<1>9. ASSUME NEW w \in JobWorker, MarkDone(w) PROVE Stays
  <2>1. mine[w] \in Slot /\ ~job[mine[w]].done /\ alloc' = alloc
    BY <1>9 DEF MarkDone, JInv, WorkInv, ListInv
  <2>2. job'[s] = job[s]
    BY <1>1, <1>9, <2>1, DoneEffect DEF JInv, Kept
  <2> QED
    BY <1>3, <2>1, <2>2
<1>10. ASSUME UNCHANGED jobVars PROVE Stays
  BY <1>2, <1>10 DEF jobVars
<1>11. ASSUME UNCHANGED vars PROVE Stays
  BY <1>10, <1>11 DEF vars
<1>12. ASSUME NEW c \in Client, RequestFails(c) \/ CreateFails(c) \/ SetEvent(c)
          \/ SendByte(c) \/ Requested(c) \/ Resume(c) \/ IsDone(c) \/ UseResult(c)
       PROVE Stays
  BY <1>10, <1>12 DEF RequestFails, CreateFails, SetEvent, SendByte, Requested, Resume,
                      IsDone, UseResult
<1>13. ASSUME NEW w \in JobWorker, Announce(w) \/ FirstCheck(w) \/ Readable(w)
                                   \/ Recheck(w) \/ WaitTimeout(w)
       PROVE Stays
  BY <1>10, <1>13 DEF Announce, FirstCheck, Readable, Recheck, WaitTimeout, TakeFlag
<1> HIDE DEF Stays
<1>14. Stays
  BY <1>4, <1>5, <1>6, <1>7, <1>8, <1>9, <1>11, <1>12, <1>13
  DEF Next, ClientStep, WorkerStep, NoMoreCalls
<1> QED
  BY <1>14 DEF Stays

(* net.connect may read a done job without the lock, over any number of    *)
(* suspensions: it stays allocated and as it is until its client is through.*)
THEOREM ResultsAreStable == Spec /\ NoRequestFails => ResultsStay
<1>1. JInv /\ [Next]_vars /\ [\A c \in Client : ~RequestFails(c)]_vars =>
        [\A s \in alloc : job[s].done /\ ~job[s].abandoned =>
           /\ s \in alloc'
           /\ job'[s] \in {job[s], [job[s] EXCEPT !.abandoned = TRUE]}]_vars
  BY ResultsStayStep
<1> QED
  BY JobInvariant, <1>1, PTL DEF Spec, NoRequestFails, ResultsStay

-----------------------------------------------------------------------------
(* The refinement: what JobService calls state and due.                    *)
Announcing == {w \in JobWorker : wpc[w] = "announce"}
State == [c \in Client |-> JobState(c)]
Due   == Cardinality(Announcing)

LEMMA AnnouncingFinite == IsFiniteSet(Announcing) /\ Due \in Nat
<1>1. IsFiniteSet(JobWorker)
  BY Constants, FS_Interval
<1>2. Announcing \in SUBSET JobWorker
  BY DEF Announcing
<1>3. IsFiniteSet(Announcing)
  BY <1>1, <1>2, FS_Subset
<1> QED
  BY <1>3, FS_CardinalityType DEF Due

(* A step that keeps both is none of JobService.                           *)
LEMMA Stutters ==
  ASSUME \A c \in Client : JobState(c)' = JobState(c), Announcing' = Announcing
  PROVE  UNCHANGED Service!vars
<1>1. State' = State
  <2> HIDE DEF JobState
  <2> QED
    BY DEF State
<1>2. Due' = Due
  BY Zenon DEF Due
<1> QED
  BY <1>1, <1>2, Zenon DEF Service!vars, State, Due, Announcing

(* One client's job moves on.                                              *)
LEMMA StateMoves ==
  ASSUME NEW c \in Client, NEW s, JobState(c)' = s,
         \A d \in Client : d # c => JobState(d)' = JobState(d)
  PROVE  State[c] = JobState(c) /\ State' = [State EXCEPT ![c] = s]
<1> HIDE DEF JobState
<1> QED
  BY DEF State

(* No worker starts or ends announcing.                                    *)
LEMMA SameWorkers ==
  ASSUME \A w \in JobWorker : wpc'[w] = "announce" <=> wpc[w] = "announce"
  PROVE  Announcing' = Announcing
  BY DEF Announcing

(* A step that leaves the pointers alone, and the doneness of what they    *)
(* point to.                                                               *)
LEMMA SameStates ==
  ASSUME JInv, ptr' = ptr,
         \A c \in Client : ptr[c] # NoJob => (job'[ptr[c]].done <=> job[ptr[c]].done),
         \A c \in Client : cpc'[c] \in {"request", "free"} <=> cpc[c] \in {"request", "free"}
  PROVE  \A c \in Client : JobState(c)' = JobState(c)
<1> SUFFICES ASSUME NEW c \in Client PROVE JobState(c)' = JobState(c)
  OBVIOUS
<1>1. CASE ptr[c] = NoJob \/ cpc[c] \in {"request", "free"}
  BY <1>1 DEF JobState
<1>2. CASE ~(ptr[c] = NoJob \/ cpc[c] \in {"request", "free"})
  BY <1>2 DEF JobState
<1> QED
  BY <1>1, <1>2

(* Step by step: an empty job is not requested yet.                        *)
LEMMA CreateMaps ==
  ASSUME JInv, JInv', NEW c \in Client, CreateEmpty(c)
  PROVE  UNCHANGED Service!vars
<1>1. PICK s \in Slot \ alloc : /\ job' = [job EXCEPT ![s] = Zeroed]
                                /\ ptr' = [ptr EXCEPT ![c] = s]
  BY DEF CreateEmpty
<1>2. /\ \A x \in Slot : x # s => job'[x] = job[x]
      /\ \A d \in Client : d # c => ptr'[d] = ptr[d]
  BY <1>1 DEF JInv, TypeOK
<1>3. cpc'[c] = "request" /\ \A d \in Client : d # c => cpc'[d] = cpc[d]
  BY GotoEffect DEF JInv, CreateEmpty
<1>4. ptr[c] = NoJob
  BY DEF CreateEmpty, JInv, ClientInv
<1>5. \A d \in Client : ptr[d] # NoJob => ptr[d] \in Slot /\ ptr[d] # s
  BY <1>1 DEF JInv, TypeOK, ClientInv
<1>6. JobState(c)' = JobState(c)
  BY <1>3, <1>4 DEF JobState
<1>7. \A d \in Client : d # c => JobState(d)' = JobState(d)
  BY <1>2, <1>3, <1>5 DEF JobState
<1>8. Announcing' = Announcing
  BY SameWorkers DEF CreateEmpty, workerVars
<1> QED
  BY <1>6, <1>7, <1>8, Stutters

(* RequestFirst and RequestNext are Request.                               *)
LEMMA RequestMaps ==
  ASSUME JInv, NEW c \in Client, RequestFirst(c) \/ RequestNext(c)
  PROVE  Service!Next
<1> DEFINE p == ptr[c]
<1>1. cpc[c] = "request" /\ Append1(c) /\ ptr' = ptr
  BY DEF RequestFirst, RequestNext
<1>2. PICK place \in {"wait", "set"} : Goto(c, place)
  BY DEF RequestFirst, RequestNext
<1>3. cpc'[c] = place /\ \A d \in Client : d # c => cpc'[d] = cpc[d]
  BY <1>2, GotoEffect DEF JInv
<1>4. p \in Slot /\ p # NoJob /\ job[p] = Zeroed
  BY <1>1, PointsToSlot DEF JInv, ClientInv, Asking
<1>5. (\A s \in Slot : s # p => job'[s] = job[s]) /\ job'[p].done = job[p].done
  BY <1>1, <1>4, AppendEffect DEF JInv, Kept
<1>6. ~job'[p].done
  BY <1>4, <1>5, ZeroedFields
<1>7. \A d \in Client : d # c /\ ptr[d] # NoJob => ptr[d] # p /\ ptr[d] \in Slot
  BY <1>4 DEF JInv, ClientInv, TypeOK
<1>8. JobState(c) = "none" /\ JobState(c)' = "pending"
  BY <1>1, <1>2, <1>3, <1>4, <1>6 DEF JobState
<1>9. \A d \in Client : d # c => JobState(d)' = JobState(d)
  BY <1>1, <1>3, <1>5, <1>7 DEF JobState
<1>10. Announcing' = Announcing
  <2>1. \A w \in JobWorker : wpc'[w] = "announce" <=> wpc[w] = "announce"
    <3>1. CASE RequestFirst(c)
      BY <3>1 DEF RequestFirst, JInv, StartInv
    <3>2. CASE RequestNext(c)
      BY <3>2 DEF RequestNext, workerVars
    <3> QED
      BY <3>1, <3>2
  <2> QED
    BY <2>1, SameWorkers
<1>11. State[c] = "none" /\ State' = [State EXCEPT ![c] = "pending"]
  BY <1>8, <1>9, StateMoves
<1>12. Due' = Due
  BY <1>10, Zenon DEF Due
<1>13. Service!Request(c)
  BY <1>11, <1>12, Zenon DEF Service!Request, Service!Move, State, Due, Announcing
<1> QED
  BY <1>13, Zenon DEF Service!Next

(* AbandonJob is GiveUp.                                                   *)
LEMMA AbandonMaps ==
  ASSUME JInv, NEW c \in Client, AbandonJob(c)
  PROVE  Service!Next
<1> DEFINE p == ptr[c]
<1>1. cpc[c] = "abandon" /\ ptr' = [ptr EXCEPT ![c] = NoJob] /\ Goto(c, "run")
  BY DEF AbandonJob
<1>2. cpc'[c] = "run" /\ \A d \in Client : d # c => cpc'[d] = cpc[d]
  BY <1>1, GotoEffect DEF JInv
<1>3. p \in Slot /\ p # NoJob /\ job[p].done
  BY <1>1, PointsToSlot DEF JInv, ClientInv
<1>4. \A s \in Slot : s # p => job'[s] = job[s]
  BY <1>3, AbandonEffect DEF JInv, Kept
<1>5. ptr'[c] = NoJob /\ \A d \in Client : d # c => ptr'[d] = ptr[d]
  BY <1>1 DEF JInv, TypeOK
<1>6. \A d \in Client : d # c /\ ptr[d] # NoJob => ptr[d] # p /\ ptr[d] \in Slot
  BY <1>3 DEF JInv, ClientInv, TypeOK
<1>7. JobState(c) = "done" /\ JobState(c)' = "none"
  BY <1>1, <1>3, <1>5 DEF JobState
<1>8. \A d \in Client : d # c => JobState(d)' = JobState(d)
  BY <1>2, <1>4, <1>5, <1>6 DEF JobState
<1>9. Announcing' = Announcing
  BY SameWorkers DEF AbandonJob, workerVars
<1>10. State[c] = "done" /\ State' = [State EXCEPT ![c] = "none"]
  BY <1>7, <1>8, StateMoves
<1>11. Due' = Due
  BY <1>9, Zenon DEF Due
<1>12. Service!GiveUp(c)
  BY <1>10, <1>11, Zenon DEF Service!GiveUp, Service!Move, State, Due, Announcing
<1> QED
  BY <1>12, Zenon DEF Service!Next

(* A scan changes nothing a client waits for.                              *)
LEMMA ScanMaps ==
  ASSUME JInv, NEW w \in JobWorker, Scan(w)
  PROVE  UNCHANGED Service!vars
<1>1. PICK k, freed : ScanTo(w, k, freed)
  BY ScanEffect DEF JInv, ListInv
<1>2. cpc' = cpc /\ ptr' = ptr /\ wpc[w] = "scan"
  BY <1>1 DEF ScanTo, clientVars
<1>3. \A d \in Client : ptr[d] # NoJob => ptr[d] \in Slot /\ ptr[d] \notin freed
  BY <1>1 DEF ScanTo, JInv, TypeOK, ClientInv, Dead
<1>4. \A s \in Slot : s \notin freed => job'[s].done = job[s].done
  BY <1>1 DEF ScanTo, Kept
<1>5. \A d \in Client : JobState(d)' = JobState(d)
  BY <1>2, <1>3, <1>4, SameStates
<1>6. \A v \in JobWorker : wpc'[v] = "announce" <=> wpc[v] = "announce"
  BY <1>1, <1>2 DEF ScanTo, JInv, TypeOK
<1> QED
  BY <1>5, <1>6, SameWorkers, Stutters

(* MarkDone is Complete, for the client the job belongs to.                *)
LEMMA DoneMaps ==
  ASSUME JInv, NEW w \in JobWorker, MarkDone(w)
  PROVE  Service!Next
<1> DEFINE m == mine[w]
<1>1. wpc[w] = "lookup" /\ Move(w, "announce") /\ cpc' = cpc /\ ptr' = ptr
  BY DEF MarkDone, clientVars
<1>2. wpc'[w] = "announce" /\ \A v \in JobWorker : v # w => wpc'[v] = wpc[v]
  BY <1>1, MoveEffect DEF JInv
<1>3. m \in Slot /\ Listed(m) /\ ~job[m].done /\ ~job[m].abandoned
  BY <1>1 DEF JInv, WorkInv, ListInv
<1>4. (\A s \in Slot : s # m => job'[s] = job[s]) /\ job'[m].done
  BY <1>3, DoneEffect DEF JInv, Kept
<1>5. PICK c \in Client : Pending(c) /\ ptr[c] = m
  BY <1>3 DEF JInv, ListInv
<1>6. \A d \in Client : d # c /\ ptr[d] # NoJob => ptr[d] # m /\ ptr[d] \in Slot
  BY <1>5 DEF JInv, ClientInv, TypeOK
<1>7. cpc[c] \notin {"request", "free"} /\ ptr[c] # NoJob
  BY <1>5 DEF Pending, JInv, ClientInv
<1>8. JobState(c) = "pending" /\ JobState(c)' = "done"
  BY <1>1, <1>3, <1>4, <1>5, <1>7 DEF JobState
<1>9. \A d \in Client : d # c => JobState(d)' = JobState(d)
  BY <1>1, <1>4, <1>6 DEF JobState
<1>10. State[c] = "pending" /\ State' = [State EXCEPT ![c] = "done"]
  BY <1>8, <1>9, StateMoves
<1>11. Announcing' = Announcing \cup {w} /\ w \notin Announcing
  BY <1>1, <1>2 DEF Announcing
<1>12. Due' = Due + 1
  <2>1. PICK A : A = Announcing
    OBVIOUS
  <2>2. IsFiniteSet(A) /\ w \notin A
    BY <1>11, <2>1, AnnouncingFinite
  <2>3. Cardinality(A \cup {w}) = Cardinality(A) + 1
    BY <2>2, FS_AddElement
  <2> QED
    BY <1>11, <2>1, <2>3 DEF Due
<1>13. Service!Complete(c)
  BY <1>10, <1>12, Zenon DEF Service!Complete, Service!Move, State, Due, Announcing
<1> QED
  BY <1>13, Zenon DEF Service!Next

(* Announce is Announce: it has an announcement to make.                   *)
LEMMA AnnounceMaps ==
  ASSUME JInv, NEW w \in JobWorker, Announce(w)
  PROVE  Service!Next
<1>1. wpc[w] = "announce" /\ Move(w, "scan") /\ cpc' = cpc /\ ptr' = ptr /\ job' = job
  BY DEF Announce, jobVars, clientVars
<1>2. wpc'[w] = "scan" /\ \A v \in JobWorker : v # w => wpc'[v] = wpc[v]
  BY <1>1, MoveEffect DEF JInv
<1>3. \A c \in Client : JobState(c)' = JobState(c)
  BY <1>1, SameStates
<1>4. State' = State
  <2> HIDE DEF JobState
  <2> QED
    BY <1>3 DEF State
<1>5. Announcing' = Announcing \ {w} /\ w \in Announcing
  BY <1>1, <1>2 DEF Announcing
<1>6. Due' = Due - 1 /\ Due > 0
  <2>1. PICK A : A = Announcing
    OBVIOUS
  <2>2. IsFiniteSet(A) /\ w \in A /\ Cardinality(A) \in Nat
    BY <1>5, <2>1, AnnouncingFinite DEF Due
  <2>3. Cardinality(A \ {w}) = Cardinality(A) - 1
    BY <2>2, FS_RemoveElement
  <2>4. Cardinality(A) # 0
    BY <2>2, FS_EmptySet
  <2> QED
    BY <1>5, <2>1, <2>2, <2>3, <2>4 DEF Due
<1>7. Service!Announce
  BY <1>4, <1>6, Zenon DEF Service!Announce, State, Due, Announcing
<1> QED
  BY <1>7, Zenon DEF Service!Next

(* All other steps change nothing JobService sees.                         *)
LEMMA OthersMap ==
  ASSUME JInv, ptr' = ptr, job' = job,
         \A c \in Client : cpc'[c] \in {"request", "free"} <=> cpc[c] \in {"request", "free"},
         \A w \in JobWorker : wpc'[w] = "announce" <=> wpc[w] = "announce"
  PROVE  UNCHANGED Service!vars
  BY SameStates, SameWorkers, Stutters

(* Every step is one of JobService, or none that it sees.                  *)
LEMMA StepMaps ==
  ASSUME JInv, JInv', [Next]_vars, [\A c \in Client : ~RequestFails(c)]_vars
  PROVE  [Service!Next]_(Service!vars)
<1>0. TypeOK
  BY DEF JInv
<1>1. ASSUME NEW c \in Client, CreateEmpty(c) PROVE UNCHANGED Service!vars
  BY <1>1, CreateMaps
<1>2. ASSUME UNCHANGED <<ptr, jobVars, cpc, wpc>> PROVE UNCHANGED Service!vars
  BY <1>2, OthersMap DEF jobVars
<1>3. ASSUME UNCHANGED vars PROVE UNCHANGED Service!vars
  BY <1>2, <1>3 DEF vars, clientVars, workerVars
<1>4. ASSUME NEW c \in Client, CreateFails(c) PROVE UNCHANGED Service!vars
  BY <1>2, <1>4 DEF CreateFails, workerVars
<1>5. ASSUME NEW c \in Client, RequestFails(c) PROVE UNCHANGED Service!vars
  BY <1>3, <1>5
<1>6. ASSUME NEW c \in Client, ClientStep(c) PROVE [Service!Next]_(Service!vars)
  <2>1. ASSUME RequestFirst(c) \/ RequestNext(c) PROVE Service!Next
    BY <2>1, RequestMaps
  <2>2. ASSUME SetEvent(c) \/ SendByte(c) \/ Requested(c) \/ Resume(c) \/ IsDone(c)
               \/ UseResult(c)
        PROVE UNCHANGED Service!vars
    <3>1. PICK place \in {"set", "send", "wait", "check", "use", "abandon"} : Goto(c, place)
      BY <2>2 DEF SetEvent, SendByte, Requested, Resume, IsDone, UseResult
    <3>2. cpc[c] \notin {"request", "free"} /\ UNCHANGED <<ptr, jobVars, wpc>>
      BY <2>2 DEF SetEvent, SendByte, Requested, Resume, IsDone, UseResult, workerVars
    <3>3. cpc'[c] = place /\ \A d \in Client : d # c => cpc'[d] = cpc[d]
      BY <1>0, <3>1, GotoEffect
    <3> QED
      BY <3>1, <3>2, <3>3, OthersMap DEF jobVars
  <2>3. ASSUME FreeJob(c) PROVE FALSE
    BY <2>3 DEF FreeJob, JInv, ClientInv
  <2>4. ASSUME AbandonJob(c) PROVE Service!Next
    BY <2>4, AbandonMaps
  <2> QED
    BY <1>6, <2>1, <2>2, <2>3, <2>4 DEF ClientStep
<1>7. ASSUME NEW w \in JobWorker, WorkerStep(w) PROVE [Service!Next]_(Service!vars)
  <2>1. ASSUME Scan(w) PROVE UNCHANGED Service!vars
    BY <2>1, ScanMaps
  <2>2. ASSUME MarkDone(w) PROVE Service!Next
    BY <2>2, DoneMaps
  <2>3. ASSUME Announce(w) PROVE Service!Next
    BY <2>3, AnnounceMaps
  <2>4. ASSUME FirstCheck(w) \/ Readable(w) \/ Recheck(w) \/ WaitTimeout(w)
        PROVE  UNCHANGED Service!vars
    <3>1. PICK place \in {"poll", "scan", "recheck"} : Move(w, place)
      BY <2>4 DEF FirstCheck, Readable, Recheck, WaitTimeout, TakeFlag
    <3>2. wpc[w] # "announce" /\ UNCHANGED <<ptr, jobVars, cpc>>
      BY <2>4 DEF FirstCheck, Readable, Recheck, WaitTimeout, TakeFlag, clientVars
    <3>3. wpc'[w] = place /\ \A v \in JobWorker : v # w => wpc'[v] = wpc[v]
      BY <1>0, <3>1, MoveEffect
    <3> QED
      BY <3>1, <3>2, <3>3, OthersMap DEF jobVars
  <2> QED
    BY <1>7, <2>1, <2>2, <2>3, <2>4 DEF WorkerStep
<1> QED
  BY <1>1, <1>3, <1>4, <1>5, <1>6, <1>7 DEF Next, NoMoreCalls

(* At the start no job is requested and nothing is to be announced.        *)
LEMMA InitMaps == Init => Service!Init
<1> SUFFICES ASSUME Init PROVE Service!Init
  OBVIOUS
<1>1. \A c \in Client : JobState(c) = "none"
  BY DEF Init, JobState
<1>2. State = [c \in Client |-> "none"]
  <2> HIDE DEF JobState
  <2> QED
    BY <1>1 DEF State
<1>3. Announcing = {}
  BY DEF Init, Announcing
<1>4. Due = 0
  BY <1>3, FS_EmptySet DEF Due
<1> QED
  BY <1>2, <1>4, Zenon DEF Service!Init, State, Due, Announcing

(* The jobs implement JobService, which VmSchedule builds on: a request is *)
(* completed once, and announced only after it is done.                    *)
THEOREM JobsImplementService == Spec /\ NoRequestFails => ImplementsJobService
<1>1. JInv /\ JInv' /\ [Next]_vars /\ [\A c \in Client : ~RequestFails(c)]_vars =>
        [Service!Next]_(Service!vars)
  BY StepMaps
<1> QED
  BY <1>1, InitMaps, JobInvariant, PTL
  DEF Spec, NoRequestFails, ImplementsJobService, Service!Spec

(* The configuration AsyncSysJob.cfg gives the constants is one where no   *)
(* request fails.                                                          *)
THEOREM NoFailureConfigured == RequestMayFail = FALSE => (Spec => NoRequestFails)
<1> SUFFICES ASSUME RequestMayFail = FALSE PROVE Spec => NoRequestFails
  OBVIOUS
<1>1. [Next]_vars => [\A c \in Client : ~RequestFails(c)]_vars
  BY DEF RequestFails
<1> QED
  BY <1>1, PTL DEF Spec, NoRequestFails

=============================================================================
