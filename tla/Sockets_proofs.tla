--------------------------- MODULE Sockets_proofs ---------------------------
(***************************************************************************)
(* Proofs about what is made of sockets: a threadevent, the pair of        *)
(* connected sockets it needs, net.connect and the set of sockets the      *)
(* supervisor polls; for any number of setters, strangers and waiting      *)
(* threads, any capacity of a socket and any key.                          *)
(***************************************************************************)
EXTENDS ThreadEvent, SocketPair, NetConnect, SocketWaits,
        FiniteSetTheorems, SequenceTheorems, TLAPS

-----------------------------------------------------------------------------
(* A threadevent *)

(* The two invariants are inductive together.                              *)
IInv == TypeOK /\ FlagHasByte

LEMMA RoomForBytes == Capacity \in Nat /\ 0 \in 0 .. Capacity
  BY EventAssumption

LEMMA InitIInv == Init => IInv
  BY RoomForBytes DEF Init, IInv, TypeOK, FlagHasByte

LEMMA StepIInv == IInv /\ [Next]_vars => IInv'
<1> SUFFICES ASSUME IInv, [Next]_vars PROVE IInv'
  OBVIOUS
<1> USE RoomForBytes DEF IInv, TypeOK, FlagHasByte
<1>1. ASSUME NEW s \in Setter, SetFlag(s) PROVE IInv'
  BY <1>1 DEF SetFlag
<1>2. ASSUME NEW s \in Setter, SendByte(s) PROVE IInv'
  <2>1. TypeOK'
    BY <1>2 DEF SendByte
  <2>2. bytes' > 0
    BY <1>2 DEF SendByte
  <2> QED
    BY <2>1, <2>2
<1>3. CASE Unset
  BY <1>3 DEF Unset
<1>4. CASE BeginWait
  BY <1>4 DEF BeginWait
<1>5. CASE FirstCheck
  BY <1>5 DEF FirstCheck, TakeFlag
<1>6. CASE Readable
  BY <1>6 DEF Readable
<1>7. CASE PollTimeout
  BY <1>7 DEF PollTimeout
<1>8. CASE Recheck
  BY <1>8 DEF Recheck, TakeFlag
<1>9. CASE UNCHANGED vars
  BY <1>9 DEF vars
<1> QED
  BY <1>1, <1>2, <1>3, <1>4, <1>5, <1>6, <1>7, <1>8, <1>9
     DEF Next, OwnerStep

(* threadevent_Set and threadevent_WaitUntilSet keep the fields of the     *)
(* event in range: never more bytes than the socket holds.                 *)
THEOREM TypeCorrect == Spec => []TypeOK
<1>1. IInv => TypeOK
  BY DEF IInv
<1> QED
  BY InitIInv, StepIInv, <1>1, PTL DEF Spec

(* An owner that sleeps in threadevent_WaitUntilSet with its flag set has  *)
(* a byte to wake it, or a setter about to send one.                       *)
THEOREM FlagAlwaysHasByte == Spec => []FlagHasByte
<1>1. IInv => FlagHasByte
  BY DEF IInv
<1> QED
  BY InitIInv, StepIInv, <1>1, PTL DEF Spec

(* Each step of the threadevent code is one step of an event flag, or none *)
(* that its users can see.                                                 *)
THEOREM ImplementsFlagSteps == Spec => Event!Init /\ [][Event!Next]_(Event!vars)
<1> USE DEF Event!vars
<1>1. Init => Event!Init
  BY DEF Init, Event!Init
<1>2. ASSUME TypeOK, [Next]_vars PROVE [Event!Next]_(Event!vars)
  <2>1. ASSUME NEW s \in Setter, SetFlag(s) PROVE Event!Set
    BY <2>1 DEF SetFlag, Event!Set
  <2>2. ASSUME NEW s \in Setter, SendByte(s) PROVE UNCHANGED Event!vars
    BY <2>2 DEF SendByte
  <2>3. ASSUME Unset PROVE Event!Unset
    BY <2>3 DEF Unset, Event!Unset
  <2>4. ASSUME BeginWait PROVE Event!Sleep
    BY <2>4 DEF BeginWait, Event!Sleep
  <2>5. ASSUME NEW next \in {"poll", "out"}, opc # "out", TakeFlag(next)
        PROVE  [Event!Next]_(Event!vars)
    <3>1. CASE set
      BY <2>5, <3>1 DEF TakeFlag, Event!Next, Event!Wake
    <3>2. CASE ~set
      <4>1. set = FALSE /\ set' = FALSE
        BY <1>2, <2>5, <3>2 DEF TypeOK, TakeFlag
      <4>2. CASE next = "out"
        BY <2>5, <3>2, <4>1, <4>2 DEF TakeFlag, Event!Next, Event!GiveUp
      <4>3. CASE next = "poll"
        BY <2>5, <3>2, <4>1, <4>3 DEF TakeFlag
      <4> QED
        BY <4>2, <4>3
    <3> QED
      BY <3>1, <3>2
  <2>6. ASSUME Readable \/ PollTimeout PROVE UNCHANGED Event!vars
    BY <2>6 DEF Readable, PollTimeout
  <2>7. ASSUME FirstCheck \/ Recheck PROVE [Event!Next]_(Event!vars)
    BY <2>5, <2>7 DEF FirstCheck, Recheck
  <2>8. ASSUME UNCHANGED vars PROVE UNCHANGED Event!vars
    BY <2>8 DEF vars
  <2> QED
    BY <1>2, <2>1, <2>2, <2>3, <2>4, <2>6, <2>7, <2>8
       DEF Next, OwnerStep, Event!Next
<1> QED
  BY <1>1, <1>2, TypeCorrect, PTL DEF Spec

-----------------------------------------------------------------------------
(* The sockets that are waited for *)

\* Where the elements of a sequence without its i-th one were before.
Passed(i, k) == IF k < i THEN k ELSE k + 1

LEMMA PassedOver ==
  ASSUME NEW n \in Nat, NEW i \in 1 .. n
  PROVE  /\ \A k \in 1 .. n - 1 : Passed(i, k) \in 1 .. n /\ Passed(i, k) # i
         /\ \A k, l \in 1 .. n - 1 : Passed(i, k) = Passed(i, l) => k = l
         /\ \A m \in 1 .. n : m # i => \E k \in 1 .. n - 1 : Passed(i, k) = m
<1>1. ASSUME NEW m \in 1 .. n, m # i PROVE \E k \in 1 .. n - 1 : Passed(i, k) = m
  <2>1. CASE m < i
    <3>1. m \in 1 .. n - 1 /\ Passed(i, m) = m
      BY <2>1 DEF Passed
    <3> QED
      BY <3>1
  <2>2. CASE m > i
    <3>1. m - 1 \in 1 .. n - 1 /\ Passed(i, m - 1) = m
      BY <2>2 DEF Passed
    <3> QED
      BY <3>1
  <2> QED
    BY <1>1, <2>1, <2>2
<1> QED
  BY <1>1 DEF Passed

LEMMA RemovedAt ==
  ASSUME NEW S, NEW s \in Seq(S), NEW i \in 1 .. Len(s)
  PROVE /\ RemoveAt(s, i) \in Seq(S) /\ Len(RemoveAt(s, i)) = Len(s) - 1
        /\ \A k \in 1 .. Len(s) - 1 : RemoveAt(s, i)[k] = s[Passed(i, k)]
  <1> DEFINE a == SubSeq(s, 1, i-1)  b == SubSeq(s, i+1, Len(s))
  <1>1. a \in Seq(S) /\ Len(a) = i - 1 /\ \A k \in 1 .. i - 1 : a[k] = s[k]
    BY SubSeqProperties
  <1>2. b \in Seq(S) /\ Len(b) = Len(s) - i /\ \A k \in 1 .. Len(s) - i : b[k] = s[k + i]
    BY SubSeqProperties
  <1> HIDE DEF a, b
  <1>3. RemoveAt(s, i) = a \o b
    BY DEF RemoveAt, a, b
  <1>4. /\ a \o b \in Seq(S) /\ Len(a \o b) = Len(s) - 1
        /\ \A k \in 1 .. Len(s) - 1 : (a \o b)[k] = IF k < i THEN a[k] ELSE b[k - (i - 1)]
    <2>1. Len(s) \in Nat /\ Len(a) + Len(b) = Len(s) - 1 /\ \A k \in Nat : k <= Len(a) <=> k < i
      BY <1>1, <1>2
    <2>2. /\ a \o b \in Seq(S) /\ Len(a \o b) = Len(a) + Len(b)
          /\ \A k \in 1 .. Len(a) + Len(b) :
               (a \o b)[k] = IF k <= Len(a) THEN a[k] ELSE b[k - Len(a)]
      BY <1>1, <1>2, ConcatProperties
    <2> QED
      BY <1>1, <2>1, <2>2
  <1>5. ASSUME NEW k \in 1 .. Len(s) - 1
        PROVE  (a \o b)[k] = s[IF k < i THEN k ELSE k + 1]
    <2>1. CASE k < i
      BY <1>1, <1>4, <2>1
    <2>2. CASE ~(k < i)
      <3>1. k - (i - 1) \in 1 .. Len(s) - i /\ k - (i - 1) + i = k + 1
        BY <2>2
      <3> QED
        BY <1>2, <1>4, <2>2, <3>1
    <2> QED
      BY <2>1, <2>2
  <1> QED BY <1>3, <1>4, <1>5 DEF Passed

LEMMA Appended ==
  ASSUME NEW S, NEW s \in Seq(S), NEW e \in S
  PROVE  /\ Append(s, e) \in Seq(S) /\ Len(Append(s, e)) = Len(s) + 1
         /\ \A k \in 1 .. Len(s) : Append(s, e)[k] = s[k]
         /\ Append(s, e)[Len(s) + 1] = e
  OBVIOUS

\* A sequence without repetitions is as long as the set of its elements is large.
LEMMA LengthIsSize ==
  ASSUME NEW S, NEW s \in Seq(S), \A i, j \in DOMAIN s : s[i] = s[j] => i = j
  PROVE  Len(s) = Cardinality(Range(s))
<1>1. Len(s) \in Nat /\ DOMAIN s = 1 .. Len(s)
  OBVIOUS
<1>2. s \in Bijection(1 .. Len(s), Range(s))
  BY <1>1 DEF Bijection, Injection, Surjection, Range, IsInjective
<1>3. IsFiniteSet(1 .. Len(s)) /\ Cardinality(1 .. Len(s)) = Len(s)
  BY <1>1, FS_Interval
<1> QED
  BY <1>2, <1>3, FS_Bijection DEF ExistsBijection

-----------------------------------------------------------------------------
(* The sockets vm threads wait for *)

Changing == {"adds", "removes", "adding", "removing"}
Kinds == {"read", "write", "nothing"}
IsSocks(s) ==
    s = [worker |-> s.worker, pre |-> s.pre, list |-> s.list, su |-> s.su, byte |-> s.byte,
         at |-> s.at, kind |-> s.kind, ready |-> s.ready, set |-> s.set]
SocksTypes ==
    /\ IsSocks(socks)
    /\ socks.at \in [Waiters -> Changing \cup {"runs", "waits"}]
    /\ socks.kind \in [Waiters -> Kinds]
    /\ socks.set \in Seq([fd : Waiters \cup {Async, Unlock}, kind : Kinds])

\* One worker at a time changes what its thread waits for; it holds the PRE lock when
\* it has pressed the event.
LockInv ==
    /\ \A t \in Waiters : socks.at[t] \in Changing <=> socks.worker = t
    /\ \A t \in Waiters : socks.at[t] \in {"adding", "removing"} => socks.pre = t /\ socks.byte
    /\ socks.pre # Free => socks.pre = socks.worker

\* The entries are those of the threads that wait or are about to stop waiting, and
\* no socket has two.
Listed == {t \in Waiters : socks.at[t] \in {"waits", "removes", "removing"}}
Fixed  == {Entry(Async, "read"), Entry(Unlock, "read")}
SetInv ==
    /\ \A e \in Fixed \cup {Entry(t, socks.kind[t]) : t \in Listed} :
         \E i \in DOMAIN socks.set : socks.set[i] = e
    /\ \A i \in DOMAIN socks.set :
         socks.set[i] \in Fixed \cup {Entry(t, socks.kind[t]) : t \in Listed}
    /\ \A i, j \in DOMAIN socks.set : socks.set[i].fd = socks.set[j].fd => i = j

SocksInv == SocksTypes /\ LockInv /\ SetInv

LEMMA InitSocksInv == SocksInit => SocksInv
<1> SUFFICES ASSUME SocksInit PROVE SocksInv
  OBVIOUS
<1>1. SocksTypes
  BY DEF SocksInit, SocksTypes, IsSocks, Changing, Kinds, Entry
<1>2. LockInv
  BY WaitersAssumption DEF SocksInit, LockInv, Changing
<1>3. SetInv
  BY DEF SocksInit, SetInv, Listed, Fixed, Entry, Async, Unlock
<1> QED
  BY <1>1, <1>2, <1>3 DEF SocksInv

\* The steps that leave the set and the threads alone.
LEMMA StepsAside ==
  ASSUME SocksInv,
         \/ LookAtTimers \/ PassPre \/ LockList \/ PollEnds \/ WakeWorkers
         \/ \E fd \in Waiters \cup {Async} : SystemReports(fd)
         \/ UNCHANGED socks
  PROVE  SocksInv'
<1>1. IsSocks(socks)
  BY DEF SocksInv, SocksTypes
<1>2. /\ IsSocks(socks')
      /\ socks'.worker = socks.worker /\ socks'.pre = socks.pre /\ socks'.byte = socks.byte
      /\ socks'.at = socks.at /\ socks'.kind = socks.kind /\ socks'.set = socks.set
  <2>1. CASE LookAtTimers
    BY <1>1, <2>1 DEF IsSocks, LookAtTimers
  <2>2. CASE PassPre
    BY <1>1, <2>2 DEF IsSocks, PassPre
  <2>3. CASE LockList
    BY <1>1, <2>3 DEF IsSocks, LockList
  <2>4. CASE PollEnds
    BY <1>1, <2>4 DEF IsSocks, PollEnds
  <2>5. CASE WakeWorkers
    BY <1>1, <2>5 DEF IsSocks, WakeWorkers
  <2>6. ASSUME NEW fd \in Waiters \cup {Async}, SystemReports(fd) 
      PROVE  /\ IsSocks(socks')
             /\ socks'.worker = socks.worker /\ socks'.pre = socks.pre /\ socks'.byte = socks.byte
             /\ socks'.at = socks.at /\ socks'.kind = socks.kind /\ socks'.set = socks.set
    BY <1>1, <2>6 DEF IsSocks, SystemReports
  <2>7. CASE UNCHANGED socks
    BY <1>1, <2>7 DEF IsSocks
  <2> QED
    BY <2>1, <2>2, <2>3, <2>4, <2>5, <2>6, <2>7
<1> QED
  BY <1>2 DEF SocksInv, SocksTypes, LockInv, SetInv, Listed

\* The entries stay what they have to be when no thread that waits changes.
LEMMA SetKept ==
  ASSUME SetInv, socks'.set = socks.set, Listed' = Listed,
         \A t \in Listed : socks'.kind[t] = socks.kind[t]
  PROVE  SetInv'
BY DEF SetInv, Fixed, Entry

LEMMA SuspendsKeeps ==
  ASSUME SocksInv, NEW t \in Waiters, Suspends(t)
  PROVE  SocksInv'
<1> DEFINE b == socks'
<1>1. /\ IsSocks(socks) /\ socks.at \in [Waiters -> Changing \cup {"runs", "waits"}]
      /\ socks.kind \in [Waiters -> Kinds]
  BY DEF SocksInv, SocksTypes
<1>2. PICK kind \in {"read", "write"} :
        socks' = [socks EXCEPT !.at[t] = "adds", !.kind[t] = kind, !.worker = t]
  BY DEF Suspends
<1>3. /\ IsSocks(b) /\ b.worker = t /\ b.pre = socks.pre /\ b.byte = socks.byte
      /\ b.set = socks.set
      /\ b.at = [socks.at EXCEPT ![t] = "adds"] /\ b.kind = [socks.kind EXCEPT ![t] = kind]
  BY <1>1, <1>2 DEF IsSocks
<1> HIDE DEF b
<1>4. socks.at[t] = "runs" /\ socks.worker = Free /\ t # Free
  BY WaitersAssumption DEF Suspends
<1>5. SocksTypes'
  BY <1>1, <1>3 DEF SocksInv, SocksTypes, Changing, Kinds, b
<1>6. LockInv'
  BY <1>1, <1>3, <1>4, WaitersAssumption DEF SocksInv, LockInv, Changing, b
<1>7. Listed' = Listed /\ \A u \in Listed : socks'.kind[u] = socks.kind[u]
  BY <1>1, <1>3, <1>4 DEF Listed, b
<1>8. SetInv'
  BY <1>3, <1>7, SetKept DEF SocksInv, b
<1> QED
  BY <1>5, <1>6, <1>8 DEF SocksInv

LEMMA WorkerKeeps ==
  ASSUME SocksInv, NEW t \in Waiters, Resumes(t) \/ LockPre(t) \/ PressUnlock(t)
  PROVE  SocksInv'
<1> DEFINE b == socks'
<1>1. /\ IsSocks(socks) /\ socks.at \in [Waiters -> Changing \cup {"runs", "waits"}]
      /\ socks.kind \in [Waiters -> Kinds] /\ t # Free /\ LockInv
  BY WaitersAssumption DEF SocksInv, SocksTypes
<1>2. ASSUME IsSocks(b), b.set = socks.set, b.kind = socks.kind, LockInv', NEW place \in Changing,
             b.at = [socks.at EXCEPT ![t] = place],
             place \in {"removes", "removing"} <=> t \in Listed
      PROVE  SocksInv'
  <2>1. SocksTypes'
    BY <1>1, <1>2 DEF SocksInv, SocksTypes
  <2>2. Listed' = Listed
    BY <1>1, <1>2 DEF Listed, Changing
  <2>3. SetInv'
    BY <1>2, <2>2, SetKept DEF SocksInv
  <2> QED
    BY <1>2, <2>1, <2>3 DEF SocksInv
<1>3. CASE Resumes(t)
  <2>1. /\ IsSocks(b) /\ b.set = socks.set /\ b.kind = socks.kind
        /\ b.at = [socks.at EXCEPT ![t] = "removes"] /\ b.worker = t
        /\ b.pre = socks.pre /\ b.byte = socks.byte
    BY <1>1, <1>3 DEF IsSocks, Resumes
  <2>2. t \in Listed /\ socks.worker = Free
    BY <1>3 DEF Resumes, Listed
  <2>3. LockInv'
    BY <1>1, <2>1, <2>2, WaitersAssumption DEF LockInv, Changing
  <2> QED
    BY <1>2, <2>1, <2>2, <2>3 DEF Changing
<1>4. CASE LockPre(t)
  <2>1. /\ IsSocks(b) /\ b.set = socks.set /\ b.kind = socks.kind
        /\ b.at = socks.at /\ b.worker = socks.worker
        /\ b.pre = t /\ b.byte = socks.byte
    BY <1>1, <1>4 DEF IsSocks, LockPre
  <2>2. socks.at[t] \in {"adds", "removes"} /\ socks.pre = Free
    BY <1>4 DEF LockPre
  <2>3. LockInv'
    BY <1>1, <2>1, <2>2, WaitersAssumption DEF LockInv, Changing
  <2>4. b.at = [socks.at EXCEPT ![t] = socks.at[t]] /\ socks.at[t] \in Changing
    BY <1>1, <2>1, <2>2 DEF Changing
  <2>5. socks.at[t] \in {"removes", "removing"} <=> t \in Listed
    BY <2>2 DEF Listed
  <2> QED
    BY <1>2, <2>1, <2>3, <2>4, <2>5
<1>5. CASE PressUnlock(t)
  <2> DEFINE place == IF socks.at[t] = "adds" THEN "adding" ELSE "removing"
  <2>1. /\ IsSocks(b) /\ b.set = socks.set /\ b.kind = socks.kind
        /\ b.at = [socks.at EXCEPT ![t] = place] /\ b.worker = socks.worker
        /\ b.pre = socks.pre /\ b.byte = TRUE
    BY <1>1, <1>5 DEF IsSocks, PressUnlock, SetUnlockEvent
  <2>2. socks.at[t] \in {"adds", "removes"} /\ socks.pre = t
    BY <1>5 DEF PressUnlock
  <2>3. place \in {"adding", "removing"}
    OBVIOUS
  <2>4. place \in {"removes", "removing"} <=> t \in Listed
    BY <2>2 DEF Listed
  <2> HIDE DEF place
  <2>5. LockInv'
    BY <1>1, <2>1, <2>2, <2>3 DEF LockInv, Changing
  <2> QED
    BY <1>2, <2>1, <2>3, <2>4, <2>5 DEF Changing
<1> QED
  BY <1>3, <1>4, <1>5

\* A thread that begins to wait has no entry yet.
LEMMA AddingKeeps ==
  ASSUME SocksInv, NEW t \in Waiters, ChangeList(t), socks.at[t] = "adding"
  PROVE  SocksInv'
<1> DEFINE b == socks'
           s == socks.set
           e == Entry(t, socks.kind[t])
<1>1. /\ IsSocks(socks) /\ socks.at \in [Waiters -> Changing \cup {"runs", "waits"}]
      /\ socks.kind \in [Waiters -> Kinds] /\ LockInv /\ SetInv
      /\ s \in Seq([fd : Waiters \cup {Async, Unlock}, kind : Kinds])
      /\ t \notin {Free, Async, Unlock}
  BY WaitersAssumption DEF SocksInv, SocksTypes
<1>2. /\ IsSocks(b) /\ b.set = Append(s, e) /\ b.kind = socks.kind
      /\ b.at = [socks.at EXCEPT ![t] = "waits"] /\ b.worker = Free
      /\ b.pre = Free /\ b.byte = socks.byte
  BY <1>1 DEF IsSocks, ChangeList, SetAdded
<1>3. e \in [fd : Waiters \cup {Async, Unlock}, kind : Kinds] /\ e.fd = t
  BY <1>1 DEF Entry
<1> HIDE DEF e
<1>4. /\ b.set \in Seq([fd : Waiters \cup {Async, Unlock}, kind : Kinds])
      /\ DOMAIN b.set = 1 .. Len(s) + 1 /\ DOMAIN s = 1 .. Len(s) /\ Len(s) \in Nat
      /\ \A k \in 1 .. Len(s) : b.set[k] = s[k]
      /\ b.set[Len(s) + 1] = e
  BY <1>1, <1>2, <1>3, Appended
<1> HIDE DEF b
<1>5. SocksTypes'
  BY <1>1, <1>2, <1>4 DEF SocksTypes, b
<1>6. socks.pre = t /\ socks.worker = t
  BY <1>1 DEF LockInv, Changing
<1>7. LockInv'
  BY <1>1, <1>2, <1>6, WaitersAssumption DEF LockInv, Changing, b
<1>8. Listed' = Listed \cup {t} /\ t \notin Listed
  BY <1>1, <1>2 DEF Listed, b
<1>9. \A i \in DOMAIN s : s[i].fd # t
  <2>1. ASSUME NEW i \in DOMAIN s, NEW u \in Listed, s[i] = Entry(u, socks.kind[u])
        PROVE  s[i].fd # t
    BY <1>8, <2>1 DEF Entry
  <2>2. ASSUME NEW i \in DOMAIN s, s[i] \in Fixed PROVE s[i].fd # t
    BY <1>1, <2>2 DEF Fixed, Entry
  <2> QED
    BY <1>1, <2>1, <2>2 DEF SetInv
<1>10. Entry(t, b.kind[t]) = e
  BY <1>2 DEF e
<1>11. SetInv'
  <2>1. \A x \in Fixed \cup {Entry(u, b.kind[u]) : u \in Listed \cup {t}} :
           \E i \in DOMAIN b.set : b.set[i] = x
    <3>1. \A x : (\E i \in DOMAIN s : s[i] = x) => \E i \in DOMAIN b.set : b.set[i] = x
      BY <1>4
    <3>2. \E i \in DOMAIN b.set : b.set[i] = e
      BY <1>4
    <3>3. ASSUME NEW x \in Fixed PROVE \E i \in DOMAIN b.set : b.set[i] = x
      BY <1>1, <3>1, <3>3 DEF SetInv
    <3>4. ASSUME NEW u \in Listed
          PROVE  \E i \in DOMAIN b.set : b.set[i] = Entry(u, b.kind[u])
      <4>1. Entry(u, socks.kind[u]) \in Fixed \cup {Entry(v, socks.kind[v]) : v \in Listed}
        OBVIOUS
      <4>2. \E i \in DOMAIN s : s[i] = Entry(u, socks.kind[u])
        BY <1>1, <4>1 DEF SetInv
      <4> QED
        BY <1>2, <3>1, <4>2
    <3> QED
      BY <1>10, <3>2, <3>3, <3>4
  <2>2. \A i \in DOMAIN b.set :
          b.set[i] \in Fixed \cup {Entry(u, b.kind[u]) : u \in Listed \cup {t}}
    BY <1>1, <1>2, <1>4, <1>10 DEF SetInv
  <2>3. \A i, j \in DOMAIN b.set : b.set[i].fd = b.set[j].fd => i = j
    <3>1. \A i \in 1 .. Len(s) + 1 : i = Len(s) + 1 \/ i \in 1 .. Len(s)
      BY <1>4
    <3> QED
      BY <1>1, <1>3, <1>4, <1>9, <3>1 DEF SetInv
  <2>4. Fixed' = Fixed
    BY DEF Fixed, Entry
  <2> QED
    BY <1>8, <2>1, <2>2, <2>3 DEF SetInv, Fixed, Entry, b
<1> QED
  BY <1>5, <1>7, <1>11 DEF SocksInv

\* The one entry of a thread that stops waiting is removed.
LEMMA RemovingKeeps ==
  ASSUME SocksInv, NEW t \in Waiters, ChangeList(t), socks.at[t] = "removing"
  PROVE  SocksInv'
<1> DEFINE b == socks'
           s == socks.set
           here == {i \in DOMAIN s : s[i].fd = t}
<1>1. /\ IsSocks(socks) /\ socks.at \in [Waiters -> Changing \cup {"runs", "waits"}]
      /\ socks.kind \in [Waiters -> Kinds] /\ LockInv /\ SetInv
      /\ s \in Seq([fd : Waiters \cup {Async, Unlock}, kind : Kinds])
      /\ DOMAIN s = 1 .. Len(s) /\ Len(s) \in Nat /\ t \notin {Free, Async, Unlock}
  BY WaitersAssumption DEF SocksInv, SocksTypes
<1>2. t \in Listed
  BY DEF Listed
<1>3. PICK n \in 1 .. Len(s) : here = {n}
  <2>1. Entry(t, socks.kind[t]) \in Fixed \cup {Entry(v, socks.kind[v]) : v \in Listed}
    BY <1>2
  <2>2. PICK n \in DOMAIN s : s[n] = Entry(t, socks.kind[t])
    BY <1>1, <2>1 DEF SetInv
  <2>3. s[n].fd = t
    BY <2>2 DEF Entry
  <2>4. here = {n}
    BY <1>1, <2>3 DEF SetInv
  <2> QED
    BY <1>1, <2>4
<1>4. (CHOOSE i \in here : \A j \in here : i <= j) = n
  BY <1>3
<1>5. SetRemoved(socks, t) = [socks EXCEPT !.set = RemoveAt(s, n)]
  <2>1. SetRemoved(socks, t) =
          IF here = {} THEN socks
          ELSE [socks EXCEPT !.set = RemoveAt(s, CHOOSE i \in here : \A j \in here : i <= j)]
    BY Zenon DEF SetRemoved
  <2>2. here # {}
    BY <1>3
  <2> DEFINE first == CHOOSE i \in here : \A j \in here : i <= j
  <2>3. SetRemoved(socks, t) = [socks EXCEPT !.set = RemoveAt(s, first)]
    BY <2>1, <2>2, Zenon
  <2>4. first = n
    BY <1>4
  <2> HIDE DEF first
  <2> QED
    BY <2>3, <2>4, Zenon
<1>6. /\ IsSocks(b) /\ b.set = RemoveAt(s, n) /\ b.kind = [socks.kind EXCEPT ![t] = "nothing"]
      /\ b.at = [socks.at EXCEPT ![t] = "runs"] /\ b.worker = Free
      /\ b.pre = Free /\ b.byte = socks.byte
  <2> DEFINE q == SetRemoved(socks, t)
  <2>1. /\ IsSocks(q) /\ q.set = RemoveAt(s, n) /\ q.kind = socks.kind /\ q.at = socks.at
        /\ q.byte = socks.byte
    BY <1>1, <1>5 DEF IsSocks
  <2>2. b = [q EXCEPT !.pre = Free, !.worker = Free, !.at[t] = "runs",
                      !.kind[t] = "nothing", !.ready = @ \ {t}]
    BY DEF ChangeList
  <2> HIDE DEF q
  <2> QED
    BY <2>1, <2>2 DEF IsSocks
<1> HIDE DEF b, here
<1>7. /\ b.set \in Seq([fd : Waiters \cup {Async, Unlock}, kind : Kinds])
      /\ DOMAIN b.set = 1 .. Len(s) - 1
      /\ \A k \in 1 .. Len(s) - 1 : b.set[k] = s[Passed(n, k)]
  BY <1>1, <1>6, RemovedAt
<1>8. SocksTypes'
  BY <1>1, <1>6, <1>7 DEF SocksTypes, Kinds, b
<1>9. LockInv'
  <2>1. socks.pre = t /\ socks.worker = t
    BY <1>1 DEF LockInv, Changing
  <2> QED
    BY <1>1, <1>6, <2>1, WaitersAssumption DEF LockInv, Changing, b
<1>10. Listed' = Listed \ {t}
  BY <1>1, <1>6 DEF Listed, b
<1>11. /\ \A k \in DOMAIN b.set : Passed(n, k) \in DOMAIN s /\ Passed(n, k) # n
       /\ \A k, l \in DOMAIN b.set : Passed(n, k) = Passed(n, l) => k = l
       /\ \A m \in DOMAIN s : m # n => \E k \in DOMAIN b.set : Passed(n, k) = m
  <2>1. /\ \A k \in 1 .. Len(s) - 1 : Passed(n, k) \in 1 .. Len(s) /\ Passed(n, k) # n
        /\ \A k, l \in 1 .. Len(s) - 1 : Passed(n, k) = Passed(n, l) => k = l
        /\ \A m \in 1 .. Len(s) : m # n => \E k \in 1 .. Len(s) - 1 : Passed(n, k) = m
    BY <1>1, PassedOver
  <2> QED
    BY <1>1, <1>7, <2>1, Zenon
<1>12. SetInv'
  <2>1. ASSUME NEW x, x \in Fixed \cup {Entry(u, b.kind[u]) : u \in Listed \ {t}}
        PROVE  \E i \in DOMAIN b.set : b.set[i] = x
    <3>1. x \in Fixed \cup {Entry(u, socks.kind[u]) : u \in Listed} /\ x.fd # t
      <4>1. CASE x \in Fixed
        BY <1>1, <4>1 DEF Fixed, Entry
      <4>2. ASSUME NEW u \in Listed \ {t}, x = Entry(u, b.kind[u])
            PROVE  x \in {Entry(v, socks.kind[v]) : v \in Listed} /\ x.fd # t
        <5>1. u \in Waiters /\ b.kind[u] = socks.kind[u]
          BY <1>1, <1>6 DEF Listed
        <5> QED
          BY <4>2, <5>1 DEF Entry
      <4> QED
        BY <2>1, <4>1, <4>2
    <3>2. PICK i \in DOMAIN s : s[i] = x
      BY <1>1, <3>1 DEF SetInv
    <3>3. i # n
      BY <1>3, <3>1, <3>2 DEF here
    <3>4. PICK k \in DOMAIN b.set : Passed(n, k) = i
      BY <1>11, <3>2, <3>3
    <3> QED
      BY <1>7, <3>2, <3>4
  <2>2. ASSUME NEW k \in DOMAIN b.set
        PROVE  b.set[k] \in Fixed \cup {Entry(u, b.kind[u]) : u \in Listed \ {t}}
    <3>1. PICK i \in DOMAIN s : i # n /\ b.set[k] = s[i]
      BY <1>7, <1>11
    <3>2. s[i].fd # t /\ s[i] \in Fixed \cup {Entry(u, socks.kind[u]) : u \in Listed}
      BY <1>1, <1>3, <3>1 DEF SetInv, here
    <3>3. ASSUME NEW u \in Listed, s[i] = Entry(u, socks.kind[u])
          PROVE  s[i] \in {Entry(v, b.kind[v]) : v \in Listed \ {t}}
      <4>1. u # t
        BY <3>2, <3>3 DEF Entry
      <4>2. u \in Waiters /\ b.kind[u] = socks.kind[u]
        BY <1>1, <1>6, <4>1 DEF Listed
      <4> QED
        BY <3>3, <4>1, <4>2
    <3> QED
      BY <3>1, <3>2, <3>3
  <2>3. ASSUME NEW i \in DOMAIN b.set, NEW j \in DOMAIN b.set, b.set[i].fd = b.set[j].fd
        PROVE  i = j
    <3>1. /\ Passed(n, i) \in DOMAIN s /\ b.set[i] = s[Passed(n, i)]
          /\ Passed(n, j) \in DOMAIN s /\ b.set[j] = s[Passed(n, j)]
      BY <1>7, <1>11
    <3>2. Passed(n, i) = Passed(n, j)
      BY <1>1, <2>3, <3>1 DEF SetInv
    <3> QED
      BY <1>11, <3>2
  <2> QED
    BY <1>10, <2>1, <2>2, <2>3 DEF SetInv, Fixed, Entry, b
<1> QED
  BY <1>8, <1>9, <1>12 DEF SocksInv

LEMMA AlwaysSocks == SocksSpec => []SocksInv
<1>1. SocksInv /\ [SocksNext]_socks => SocksInv'
  <2>1. \A t \in Waiters : ChangeList(t) => socks.at[t] \in {"adding", "removing"}
    BY DEF ChangeList
  <2> QED
    BY <2>1, StepsAside, SuspendsKeeps, WorkerKeeps, AddingKeeps, RemovingKeeps DEF SocksNext
<1> QED
  BY InitSocksInv, <1>1, PTL DEF SocksSpec

\* With any number of threads that wait for sockets, the supervisor polls exactly the
\* sockets that are waited for, and a worker that needs the set has set off the event
\* that ends the poll (vmschedule.c:40-82, vmexec.c:48-124).
THEOREM WaitsArePolled == SocksSpec => []PollsWhatIsWaitedFor
<1>1. SocksInv => PollsWhatIsWaitedFor
  <2> SUFFICES ASSUME SocksInv PROVE PollsWhatIsWaitedFor
    OBVIOUS
  <2> DEFINE s == socks.set
  <2>1. /\ SetInv /\ LockInv
        /\ s \in Seq([fd : Waiters \cup {Async, Unlock}, kind : Kinds])
    BY DEF SocksInv, SocksTypes
  <2>2. Range(s) = Fixed \cup {Entry(t, socks.kind[t]) : t \in Listed}
    BY <2>1 DEF SetInv, Range
  <2>3. ASSUME socks.worker = Free
        PROVE  Listed = {w \in Waiters : socks.at[w] = "waits"}
    BY <2>1, <2>3, WaitersAssumption DEF LockInv, Listed, Changing
  <2>4. Len(s) = Cardinality(Range(s))
    <3>1. \A i, j \in DOMAIN s : s[i] = s[j] => i = j
      BY <2>1 DEF SetInv
    <3> QED
      BY <2>1, <3>1, LengthIsSize
  <2>5. ASSUME NEW t \in Waiters, socks.at[t] \in {"adding", "removing"}
        PROVE  Events(socks) # {}
    <3>1. socks.byte /\ Entry(Unlock, "read") \in Range(s)
      BY <2>1, <2>2, <2>5 DEF LockInv, Fixed
    <3>2. Entry(Unlock, "read").fd = Unlock
      BY DEF Entry
    <3> QED
      BY <3>1, <3>2 DEF Events
  <2> QED
    BY <2>2, <2>3, <2>4, <2>5 DEF PollsWhatIsWaitedFor, Fixed
<1> QED
  BY AlwaysSocks, <1>1, PTL

-----------------------------------------------------------------------------
(* The two ends of a socket pair *)

Piece == Range(Key) \cup {Junk}
IsPair(p) ==
    p = [main |-> p.main, accepter |-> p.accepter, failure |-> p.failure, server |-> p.server,
         trigger |-> p.trigger, tcp |-> p.tcp, line |-> p.line, backlog |-> p.backlog,
         conns |-> p.conns, at |-> p.at, result |-> p.result, short |-> p.short]
PairTypes(p) ==
    /\ IsPair(p)
    /\ p.main \in {"setup", "spawn", "connect", "send", "join", "returned", "failed"}
    /\ p.accepter \in {None, "accept", "read", "left"}
    /\ p.tcp \in [Ends -> {"away", "queued", "accepted", "closed"}]
    /\ p.line \in [Ends -> Seq(Piece)]
    /\ p.backlog \in Seq(Ends)
    /\ p.conns \in Seq([of : Ends, got : Seq(Piece)])
    /\ p.at \in Nat \ {0} /\ p.failure \in BOOLEAN /\ p.short \in BOOLEAN

\* Strangers never sent the key.
LineInv(p) ==
    /\ \A c \in Strangers : \A i \in DOMAIN p.line[c] : p.line[c][i] = Junk
    /\ \A k \in DOMAIN p.conns : p.conns[k].of \in Strangers =>
         \A i \in DOMAIN p.conns[k].got : p.conns[k].got[i] = Junk
\* What was not accepted waits in the queue.
QueueInv(p) ==
    /\ \A i, j \in DOMAIN p.backlog : p.backlog[i] = p.backlog[j] => i = j
    /\ \A i \in DOMAIN p.backlog : p.tcp[p.backlog[i]] = "queued"
\* While the accepting thread runs, what was accepted and not closed is in its list.
InConns(p, c) == \E i \in DOMAIN p.conns : p.conns[i].of = c
ConnsInv(p) ==
    /\ \A i, j \in DOMAIN p.conns : p.conns[i].of = p.conns[j].of => i = j
    /\ p.accepter \in {"accept", "read"} =>
         \A c \in Ends : p.tcp[c] = "accepted" <=> InConns(p, c)
\* The caller and the accepting thread.
PlaceInv(p) ==
    /\ p.main \in {"setup", "spawn"} => p.accepter = None
    /\ p.main \in {"connect", "send", "join"} => p.accepter # None
    /\ p.main = "returned" =>
         p.accepter = "left" /\ ~p.failure /\ ~p.server /\ p.trigger /\ p.result = Own
    /\ p.main = "failed" =>
         p.accepter \in {None, "left"} /\ ~p.server /\ ~p.trigger /\ p.result = None
    /\ p.main \in {"setup", "spawn", "connect"} => p.tcp[Own] = "away"
    /\ p.accepter = None =>
         p.conns = <<>> /\ ~p.short /\ ~p.failure /\ \A c \in Ends : p.tcp[c] # "accepted"
\* The thread only ever chooses the caller's connection, and leaves no other one open
\* unless it ran out of memory.
ResultInv(p) ==
    /\ p.result # None => p.result = Own /\ p.tcp[Own] = "accepted" /\ p.accepter = "left"
    /\ p.short => p.failure
    /\ p.accepter = "left" /\ p.main # "failed" => p.failure \/ p.result = Own
    /\ p.accepter = "left" /\ ~p.short => \A c \in Ends : p.tcp[c] = "accepted" => c = p.result

PairInv(p) ==
    PairTypes(p) /\ LineInv(p) /\ QueueInv(p) /\ ConnsInv(p) /\ PlaceInv(p) /\ ResultInv(p)

LEMMA NamesApart == Own \in Ends /\ None \notin Ends /\ \A c \in Ends : c \in Strangers \/ c = Own
BY PairAssumption DEF Ends, Own, None

LEMMA InitPairInv == PairInit => PairInv(pair)
<1> SUFFICES ASSUME PairInit PROVE PairInv(pair)
  OBVIOUS
<1>1. PairTypes(pair)
  BY EmptySeq DEF PairInit, PairTypes, IsPair
<1>2. LineInv(pair) /\ QueueInv(pair) /\ ConnsInv(pair)
  <2>1. /\ pair.conns = <<>> /\ pair.backlog = <<>> /\ pair.accepter = None
        /\ \A c \in Ends : pair.line[c] = <<>>
    BY DEF PairInit
  <2>2. Strangers \subseteq Ends /\ None \notin {"accept", "read"}
    BY DEF Ends, None
  <2> QED
    BY <2>1, <2>2 DEF LineInv, QueueInv, ConnsInv
<1>3. PlaceInv(pair) /\ ResultInv(pair)
  BY NamesApart DEF PairInit, PlaceInv, ResultInv, None
<1> QED
  BY <1>1, <1>2, <1>3 DEF PairInv

-----------------------------------------------------------------------------
ClosedQueue(p) == [c \in Ends |-> IF p.tcp[c] = "queued" THEN "closed" ELSE p.tcp[c]]

LEMMA ServerClosedFields ==
  ASSUME NEW p, PairTypes(p)
  PROVE  LET q == ServerClosed(p)
         IN  /\ IsPair(q) /\ q.server = FALSE /\ q.backlog = <<>> /\ q.tcp = ClosedQueue(p)
             /\ q.main = p.main /\ q.accepter = p.accepter /\ q.failure = p.failure
             /\ q.trigger = p.trigger /\ q.line = p.line /\ q.conns = p.conns
             /\ q.at = p.at /\ q.result = p.result /\ q.short = p.short
<1> DEFINE q == ServerClosed(p)
<1>1. IsPair(p)
  BY DEF PairTypes
<1>2. q = [p EXCEPT !.server = FALSE, !.backlog = <<>>, !.tcp = ClosedQueue(p)]
  BY DEF ServerClosed, ClosedQueue
<1> HIDE DEF q
<1>3. /\ IsPair(q) /\ q.server = FALSE /\ q.backlog = <<>> /\ q.tcp = ClosedQueue(p)
      /\ q.main = p.main /\ q.accepter = p.accepter /\ q.failure = p.failure
      /\ q.trigger = p.trigger /\ q.line = p.line /\ q.conns = p.conns
      /\ q.at = p.at /\ q.result = p.result /\ q.short = p.short
  BY <1>1, <1>2 DEF IsPair
<1> QED
  BY <1>3 DEF q

LEMMA FreeSetupFields ==
  ASSUME NEW p, PairTypes(p), p.result \in Ends \cup {None}
  PROVE  LET q == FreeSetup(p)
         IN  /\ IsPair(q) /\ q.server = FALSE /\ q.backlog = <<>>
             /\ q.tcp = [c \in Ends |-> IF c = p.result THEN "closed" ELSE ClosedQueue(p)[c]]
             /\ q.main = p.main /\ q.accepter = p.accepter /\ q.failure = p.failure
             /\ q.trigger = FALSE /\ q.line = p.line /\ q.conns = p.conns
             /\ q.at = p.at /\ q.result = None /\ q.short = p.short
<1> DEFINE d == ServerClosed(p)
           e == [d EXCEPT !.trigger = FALSE, !.result = None]
           q == FreeSetup(p)
<1>1. /\ IsPair(d) /\ d.server = FALSE /\ d.backlog = <<>> /\ d.tcp = ClosedQueue(p)
      /\ d.main = p.main /\ d.accepter = p.accepter /\ d.failure = p.failure
      /\ d.trigger = p.trigger /\ d.line = p.line /\ d.conns = p.conns
      /\ d.at = p.at /\ d.result = p.result /\ d.short = p.short
  BY ServerClosedFields
<1>2. q = IF p.result = None THEN e ELSE [e EXCEPT !.tcp[p.result] = "closed"]
  BY Zenon DEF FreeSetup
<1> HIDE DEF d
<1>3. /\ IsPair(e) /\ e.server = FALSE /\ e.backlog = <<>> /\ e.tcp = ClosedQueue(p)
      /\ e.main = p.main /\ e.accepter = p.accepter /\ e.failure = p.failure
      /\ e.trigger = FALSE /\ e.line = p.line /\ e.conns = p.conns
      /\ e.at = p.at /\ e.result = None /\ e.short = p.short
  <2>1. e = [d EXCEPT !.trigger = FALSE, !.result = None]
    BY DEF e
  <2> HIDE DEF e
  <2> QED
    BY <1>1, <2>1 DEF IsPair
<1> HIDE DEF e, q
<1>4. CASE p.result = None
  <2>1. q.tcp = [c \in Ends |-> IF c = p.result THEN "closed" ELSE ClosedQueue(p)[c]]
    BY <1>2, <1>3, <1>4, NamesApart DEF ClosedQueue
  <2> QED
    BY <1>2, <1>3, <1>4, <2>1 DEF q
<1>5. CASE p.result # None
  <2>1. q = [e EXCEPT !.tcp[p.result] = "closed"]
    BY <1>2, <1>5
  <2>2. /\ IsPair(q) /\ q.server = FALSE /\ q.backlog = <<>>
        /\ q.tcp = [ClosedQueue(p) EXCEPT ![p.result] = "closed"]
        /\ q.main = p.main /\ q.accepter = p.accepter /\ q.failure = p.failure
        /\ q.trigger = FALSE /\ q.line = p.line /\ q.conns = p.conns
        /\ q.at = p.at /\ q.result = None /\ q.short = p.short
    BY <2>1, <1>3 DEF IsPair
  <2>3. q.tcp = [c \in Ends |-> IF c = p.result THEN "closed" ELSE ClosedQueue(p)[c]]
    BY <2>2 DEF ClosedQueue
  <2> QED
    BY <2>2, <2>3 DEF q
<1> QED
  BY <1>4, <1>5

\* Whoever gives up closes the chosen connection as well.
LEMMA GivenUp ==
  ASSUME NEW p, PairInv(p), p.accepter \in {None, "left"}
  PROVE  PairInv(GiveUp(p))
<1> DEFINE f == FreeSetup(p)
           q == GiveUp(p)
<1>1. PairTypes(p) /\ LineInv(p) /\ ConnsInv(p) /\ PlaceInv(p) /\ ResultInv(p)
  BY DEF PairInv
<1>2. p.result \in Ends \cup {None}
  BY <1>1, NamesApart DEF ResultInv
<1>3. /\ IsPair(f) /\ f.server = FALSE /\ f.backlog = <<>>
      /\ f.tcp = [c \in Ends |-> IF c = p.result THEN "closed" ELSE ClosedQueue(p)[c]]
      /\ f.main = p.main /\ f.accepter = p.accepter /\ f.failure = p.failure
      /\ f.trigger = FALSE /\ f.line = p.line /\ f.conns = p.conns
      /\ f.at = p.at /\ f.result = None /\ f.short = p.short
  BY <1>1, <1>2, FreeSetupFields
<1>4. q = [f EXCEPT !.main = "failed"]
  BY DEF GiveUp
<1> HIDE DEF f
<1>5. /\ IsPair(q) /\ q.server = FALSE /\ q.backlog = <<>>
      /\ q.tcp = [c \in Ends |-> IF c = p.result THEN "closed" ELSE ClosedQueue(p)[c]]
      /\ q.main = "failed" /\ q.accepter = p.accepter /\ q.failure = p.failure
      /\ q.trigger = FALSE /\ q.line = p.line /\ q.conns = p.conns
      /\ q.at = p.at /\ q.result = None /\ q.short = p.short
  BY <1>3, <1>4 DEF IsPair
<1> HIDE DEF q
<1>6. \A c \in Ends : q.tcp[c] \in {"away", "queued", "accepted", "closed"}
                      /\ (q.tcp[c] = "accepted" => p.tcp[c] = "accepted" /\ c # p.result)
  BY <1>1, <1>5 DEF PairTypes, ClosedQueue
<1>7. PairTypes(q)
  <2>1. q.tcp \in [Ends -> {"away", "queued", "accepted", "closed"}]
    BY <1>5, <1>6
  <2> QED
    BY <1>1, <1>5, <2>1, EmptySeq DEF PairTypes
<1>8. LineInv(q) /\ QueueInv(q)
  BY <1>1, <1>5 DEF LineInv, QueueInv
<1>9. ConnsInv(q)
  BY <1>1, <1>5 DEF ConnsInv, None
<1>10. PlaceInv(q)
  BY <1>1, <1>5, <1>6 DEF PlaceInv
<1>11. ResultInv(q)
  BY <1>1, <1>5, <1>6 DEF ResultInv
<1> QED
  BY <1>7, <1>8, <1>9, <1>10, <1>11 DEF PairInv, q

\* The accepting thread leaves with the caller's connection or after a failure.
LEMMA LeftBehind ==
  ASSUME NEW p, PairTypes(p), LineInv(p), ConnsInv(p), PlaceInv(p),
         p.accepter \in {"accept", "read"}, p.result \in {None, Own},
         p.result = Own => InConns(p, Own), p.failure \/ p.result = Own, p.short => p.failure
  PROVE  PairInv(Leave(p))
<1> DEFINE others == {c.of : c \in Range(p.conns)} \ {p.result}
           closed == [c \in Ends |-> IF c \in others THEN "closed" ELSE p.tcp[c]]
           r == [p EXCEPT !.tcp = closed]
           f == ServerClosed(r)
           q == Leave(p)
<1>1. /\ IsPair(p) /\ p.tcp \in [Ends -> {"away", "queued", "accepted", "closed"}]
      /\ p.line \in [Ends -> Seq(Piece)] /\ p.backlog \in Seq(Ends)
      /\ p.conns \in Seq([of : Ends, got : Seq(Piece)])
      /\ p.at \in Nat \ {0} /\ p.failure \in BOOLEAN /\ p.short \in BOOLEAN
      /\ p.main \in {"setup", "spawn", "connect", "send", "join", "returned", "failed"}
  BY DEF PairTypes
<1>2. q = [f EXCEPT !.accepter = "left"] /\ r = [p EXCEPT !.tcp = closed]
  BY DEF Leave
<1>3. \A c \in Ends : closed[c] \in {"away", "queued", "accepted", "closed"}
                      /\ (c \notin others => closed[c] = p.tcp[c])
                      /\ (c \in others => closed[c] = "closed")
  BY <1>1
<1>4. closed \in [Ends -> {"away", "queued", "accepted", "closed"}]
  BY <1>3
<1>5. \A c \in Ends : c \in others <=> InConns(p, c) /\ c # p.result
  BY <1>1 DEF InConns, Range
<1> HIDE DEF closed, others, r, q
<1>6. /\ IsPair(r) /\ r.tcp = closed /\ r.main = p.main /\ r.accepter = p.accepter
      /\ r.failure = p.failure /\ r.trigger = p.trigger /\ r.line = p.line
      /\ r.backlog = p.backlog /\ r.conns = p.conns /\ r.at = p.at /\ r.result = p.result
      /\ r.short = p.short
  BY <1>1, <1>2 DEF IsPair
<1>7. PairTypes(r)
  BY <1>1, <1>4, <1>6 DEF PairTypes
<1>8. /\ IsPair(f) /\ f.server = FALSE /\ f.backlog = <<>> /\ f.tcp = ClosedQueue(r)
      /\ f.main = r.main /\ f.accepter = r.accepter /\ f.failure = r.failure
      /\ f.trigger = r.trigger /\ f.line = r.line /\ f.conns = r.conns
      /\ f.at = r.at /\ f.result = r.result /\ f.short = r.short
  BY <1>7, ServerClosedFields
<1> HIDE DEF f
<1>9. /\ IsPair(q) /\ q.backlog = <<>> /\ q.tcp = ClosedQueue(r)
      /\ q.main = p.main /\ q.accepter = "left" /\ q.failure = p.failure
      /\ q.line = p.line /\ q.conns = p.conns
      /\ q.at = p.at /\ q.result = p.result /\ q.short = p.short
  BY <1>2, <1>6, <1>8 DEF IsPair
<1>10. \A c \in Ends : /\ q.tcp[c] \in {"away", "queued", "accepted", "closed"}
                       /\ q.tcp[c] = "accepted" => p.tcp[c] = "accepted" /\ c \notin others
                       /\ p.tcp[c] \in {"away", "accepted"} /\ c \notin others =>
                            q.tcp[c] = p.tcp[c]
  BY <1>3, <1>6, <1>9 DEF ClosedQueue
<1>11. q.tcp \in [Ends -> {"away", "queued", "accepted", "closed"}]
  BY <1>4, <1>6, <1>9 DEF ClosedQueue
<1>12. p.main \in {"connect", "send", "join"}
  BY <1>1 DEF PlaceInv, None
<1>13. \A c \in Ends : p.tcp[c] = "accepted" <=> InConns(p, c)
  BY DEF ConnsInv
<1>14. PairTypes(q)
  BY <1>1, <1>9, <1>11, EmptySeq DEF PairTypes
<1>15. LineInv(q) /\ QueueInv(q) /\ ConnsInv(q)
  <2>1. LineInv(q)
    BY <1>9 DEF LineInv
  <2>2. QueueInv(q)
    BY <1>9 DEF QueueInv
  <2>3. ConnsInv(q)
    BY <1>9 DEF ConnsInv
  <2> QED
    BY <2>1, <2>2, <2>3
<1>16. PlaceInv(q)
  <2>1. q.main = "connect" => q.tcp[Own] = "away"
    <3> SUFFICES ASSUME q.main = "connect" PROVE q.tcp[Own] = "away"
      OBVIOUS
    <3>1. p.tcp[Own] = "away"
      BY <1>9 DEF PlaceInv
    <3>2. Own \notin others
      BY <1>5, <1>13, <3>1, NamesApart
    <3> QED
      BY <1>10, <3>1, <3>2, NamesApart
  <2> QED
    BY <1>9, <1>12, <2>1 DEF PlaceInv, None
<1>17. ResultInv(q)
  <2>1. p.result = Own => q.tcp[Own] = "accepted"
    BY <1>5, <1>10, <1>13, NamesApart
  <2>2. \A c \in Ends : q.tcp[c] = "accepted" => c = p.result
    BY <1>5, <1>10, <1>13
  <2> QED
    BY <1>9, <2>1, <2>2 DEF ResultInv
<1> QED
  BY <1>14, <1>15, <1>16, <1>17 DEF PairInv, q

\* A connection of the list is closed and taken out.
LEMMA ConnClosed ==
  ASSUME NEW p, PairInv(p), p.accepter = "read", NEW i \in 1 .. Len(p.conns)
  PROVE  PairInv(CloseConn(p, i))
<1> DEFINE c == p.conns[i].of
           q == CloseConn(p, i)
           n == Len(p.conns)
<1>1. /\ IsPair(p) /\ p.tcp \in [Ends -> {"away", "queued", "accepted", "closed"}]
      /\ p.conns \in Seq([of : Ends, got : Seq(Piece)]) /\ n \in Nat
      /\ DOMAIN p.conns = 1 .. n /\ c \in Ends
      /\ PairTypes(p) /\ LineInv(p) /\ QueueInv(p) /\ ConnsInv(p) /\ PlaceInv(p) /\ ResultInv(p)
  <2>1. PairTypes(p) /\ LineInv(p) /\ QueueInv(p) /\ ConnsInv(p) /\ PlaceInv(p) /\ ResultInv(p)
    BY DEF PairInv
  <2>2. /\ IsPair(p) /\ p.tcp \in [Ends -> {"away", "queued", "accepted", "closed"}]
        /\ p.conns \in Seq([of : Ends, got : Seq(Piece)])
    BY <2>1 DEF PairTypes
  <2>3. n \in Nat /\ DOMAIN p.conns = 1 .. n /\ p.conns[i] \in [of : Ends, got : Seq(Piece)]
    <3> DEFINE R == [of : Ends, got : Seq(Piece)]
    <3>1. p.conns \in Seq(R)
      BY <2>2
    <3> HIDE DEF R
    <3>2. n \in Nat /\ DOMAIN p.conns = 1 .. n /\ p.conns[i] \in R
      BY <3>1
    <3> QED
      BY <3>2 DEF R
  <2> QED
    BY <2>1, <2>2, <2>3
<1>2. q = [p EXCEPT !.tcp[c] = "closed", !.conns = RemoveAt(p.conns, i)]
  BY DEF CloseConn
<1> HIDE DEF q, c
<1>3. /\ IsPair(q) /\ q.tcp = [p.tcp EXCEPT ![c] = "closed"] /\ q.conns = RemoveAt(p.conns, i)
      /\ q.main = p.main /\ q.accepter = p.accepter /\ q.failure = p.failure
      /\ q.server = p.server /\ q.trigger = p.trigger /\ q.line = p.line
      /\ q.backlog = p.backlog /\ q.at = p.at /\ q.result = p.result /\ q.short = p.short
  BY <1>1, <1>2 DEF IsPair
<1>4. /\ q.conns \in Seq([of : Ends, got : Seq(Piece)]) /\ DOMAIN q.conns = 1 .. n - 1
      /\ \A k \in 1 .. n - 1 : q.conns[k] = p.conns[Passed(i, k)]
  <2> DEFINE left == RemoveAt(p.conns, i)
  <2>1. /\ left \in Seq([of : Ends, got : Seq(Piece)]) /\ Len(left) = n - 1
        /\ \A k \in 1 .. n - 1 : left[k] = p.conns[Passed(i, k)]
    BY <1>1, RemovedAt
  <2> HIDE DEF left
  <2>2. DOMAIN left = 1 .. n - 1
    BY <2>1
  <2> QED
    BY <1>3, <2>1, <2>2 DEF left
<1>5. /\ \A k \in 1 .. n - 1 : Passed(i, k) \in 1 .. n /\ Passed(i, k) # i
      /\ \A k, l \in 1 .. n - 1 : Passed(i, k) = Passed(i, l) => k = l
      /\ \A m \in 1 .. n : m # i => \E k \in 1 .. n - 1 : Passed(i, k) = m
  BY <1>1, PassedOver
<1> HIDE DEF n
<1>8. PairTypes(q)
  BY <1>1, <1>3, <1>4 DEF PairTypes
<1>9. LineInv(q)
  <2>1. ASSUME NEW k \in DOMAIN q.conns, q.conns[k].of \in Strangers
        PROVE  \A j \in DOMAIN q.conns[k].got : q.conns[k].got[j] = Junk
    <3>1. PICK m \in DOMAIN p.conns : q.conns[k] = p.conns[m]
      BY <1>1, <1>4, <1>5
    <3> QED
      BY <1>1, <2>1, <3>1 DEF LineInv
  <2> QED
    BY <1>1, <1>3, <2>1 DEF LineInv
<1>10. p.tcp[c] = "accepted"
  BY <1>1 DEF ConnsInv, InConns, c
<1>11. QueueInv(q)
  <2>1. \A k \in DOMAIN p.backlog : p.backlog[k] \in Ends /\ p.backlog[k] # c
    BY <1>1, <1>10, ElementOfSeq DEF QueueInv, PairTypes
  <2> QED
    BY <1>1, <1>3, <2>1 DEF QueueInv
<1>12. ConnsInv(q)
  <2>1. \A k, l \in 1 .. n : p.conns[k].of = p.conns[l].of => k = l
    BY <1>1 DEF ConnsInv
  <2>2. \A k, l \in DOMAIN q.conns : q.conns[k].of = q.conns[l].of => k = l
    <3> SUFFICES ASSUME NEW k \in DOMAIN q.conns, NEW l \in DOMAIN q.conns,
                        q.conns[k].of = q.conns[l].of
                 PROVE  k = l
      OBVIOUS
    <3>1. p.conns[Passed(i, k)].of = p.conns[Passed(i, l)].of
      BY <1>4
    <3>2. Passed(i, k) = Passed(i, l)
      BY <1>4, <1>5, <2>1, <3>1
    <3> QED
      BY <1>4, <1>5, <3>2
  <2>3. ASSUME NEW d \in Ends PROVE InConns(q, d) <=> InConns(p, d) /\ d # c
    <3>1. ASSUME InConns(q, d) PROVE InConns(p, d) /\ d # c
      <4>1. PICK k \in 1 .. n - 1 : p.conns[Passed(i, k)].of = d
        BY <1>4, <3>1 DEF InConns
      <4> QED
        BY <1>1, <1>5, <2>1, <4>1 DEF InConns, c
    <3>2. ASSUME InConns(p, d), d # c PROVE InConns(q, d)
      <4>1. PICK m \in 1 .. n : p.conns[m].of = d /\ m # i
        BY <1>1, <3>2 DEF InConns, c
      <4>2. PICK k \in 1 .. n - 1 : Passed(i, k) = m
        BY <1>5, <4>1
      <4> QED
        BY <1>4, <4>1, <4>2 DEF InConns
    <3> QED
      BY <3>1, <3>2
  <2>4. \A d \in Ends : q.tcp[d] = "accepted" <=> p.tcp[d] = "accepted" /\ d # c
    BY <1>1, <1>3
  <2> QED
    BY <1>1, <2>2, <2>3, <2>4 DEF ConnsInv
<1>13. PlaceInv(q)
  <2>1. p.main \in {"setup", "spawn", "connect"} => c # Own
    BY <1>1, <1>10 DEF PlaceInv
  <2> QED
    BY <1>1, <1>3, <2>1, NamesApart DEF PlaceInv, None
<1>14. ResultInv(q)
  BY <1>1, <1>3 DEF ResultInv
<1> QED
  BY <1>8, <1>9, <1>11, <1>12, <1>13, <1>14 DEF PairInv, q

-----------------------------------------------------------------------------
LEMMA SetUpKeeps ==
  ASSUME PairInv(pair), SetUp \/ SpawnAccepter
  PROVE  PairInv(pair')
<1>1. /\ PairTypes(pair) /\ LineInv(pair) /\ QueueInv(pair) /\ ConnsInv(pair)
      /\ PlaceInv(pair) /\ ResultInv(pair) /\ IsPair(pair)
  BY DEF PairInv, PairTypes
<1>2. pair.accepter = None /\ pair.main \in {"setup", "spawn"}
  BY <1>1 DEF PlaceInv, SetUp, SpawnAccepter
<1>3. CASE pair' = GiveUp(pair)
  BY <1>2, <1>3, GivenUp
<1>4. CASE pair' # GiveUp(pair)
  <2> DEFINE q == pair'
  <2>1. \/ q = [pair EXCEPT !.main = "spawn", !.server = TRUE, !.trigger = TRUE]
        \/ q = [pair EXCEPT !.main = "connect", !.accepter = "accept"]
    BY <1>4 DEF SetUp, SpawnAccepter
  <2> HIDE DEF q
  <2>2. /\ IsPair(q) /\ q.tcp = pair.tcp /\ q.line = pair.line /\ q.backlog = pair.backlog
        /\ q.conns = pair.conns /\ q.at = pair.at /\ q.failure = pair.failure
        /\ q.result = pair.result /\ q.short = pair.short
        /\ \/ q.main = "spawn" /\ q.accepter = None
           \/ q.main = "connect" /\ q.accepter = "accept"
    BY <1>1, <1>2, <2>1 DEF IsPair
  <2>3. PairTypes(q)
    BY <1>1, <2>2 DEF PairTypes
  <2>4. LineInv(q) /\ QueueInv(q)
    BY <1>1, <2>2 DEF LineInv, QueueInv
  <2>5. ConnsInv(q)
    BY <1>1, <1>2, <2>2 DEF ConnsInv, PlaceInv, InConns, None
  <2>6. PlaceInv(q)
    BY <1>1, <1>2, <2>2 DEF PlaceInv, None
  <2>7. ResultInv(q)
    BY <1>1, <1>2, <2>2 DEF ResultInv, None
  <2> QED
    BY <2>3, <2>4, <2>5, <2>6, <2>7 DEF PairInv, q
<1> QED
  BY <1>3, <1>4

\* Someone connects: the caller, which goes on, or a stranger.
LEMMA ConnectedTo ==
  ASSUME NEW p, PairInv(p), NEW c \in Ends, p.tcp[c] = "away", NEW q,
         /\ IsPair(q) /\ q.tcp = [p.tcp EXCEPT ![c] = "queued"] /\ q.backlog = Append(p.backlog, c)
         /\ q.accepter = p.accepter /\ q.failure = p.failure /\ q.server = p.server
         /\ q.trigger = p.trigger /\ q.line = p.line /\ q.conns = p.conns /\ q.at = p.at
         /\ q.result = p.result /\ q.short = p.short,
         \/ q.main = p.main /\ c # Own
         \/ p.main = "connect" /\ q.main = "send"
  PROVE  PairInv(q)
<1>1. /\ PairTypes(p) /\ LineInv(p) /\ QueueInv(p) /\ ConnsInv(p)
      /\ PlaceInv(p) /\ ResultInv(p)
      /\ p.tcp \in [Ends -> {"away", "queued", "accepted", "closed"}] /\ p.backlog \in Seq(Ends)
  BY DEF PairInv, PairTypes
<1>2. /\ q.backlog \in Seq(Ends) /\ DOMAIN q.backlog = 1 .. Len(p.backlog) + 1
      /\ DOMAIN p.backlog = 1 .. Len(p.backlog) /\ Len(p.backlog) \in Nat
      /\ \A k \in 1 .. Len(p.backlog) : q.backlog[k] = p.backlog[k]
      /\ q.backlog[Len(p.backlog) + 1] = c
  BY <1>1, Appended
<1>3. PairTypes(q)
  BY <1>1, <1>2 DEF PairTypes
<1>4. LineInv(q)
  BY <1>1 DEF LineInv
<1>5. QueueInv(q)
  <2>1. \A k \in 1 .. Len(p.backlog) :
           p.backlog[k] \in Ends /\ p.backlog[k] # c /\ p.tcp[p.backlog[k]] = "queued"
    BY <1>1, <1>2, ElementOfSeq DEF QueueInv
  <2>2. \A k \in DOMAIN q.backlog : k \in 1 .. Len(p.backlog) \/ k = Len(p.backlog) + 1
    BY <1>2
  <2>3. \A k, l \in DOMAIN q.backlog : q.backlog[k] = q.backlog[l] => k = l
    BY <1>1, <1>2, <2>1, <2>2 DEF QueueInv
  <2>4. \A k \in DOMAIN q.backlog : q.tcp[q.backlog[k]] = "queued"
    BY <1>1, <1>2, <2>1, <2>2
  <2> QED
    BY <2>3, <2>4 DEF QueueInv
<1>6. \A d \in Ends : q.tcp[d] = "accepted" <=> p.tcp[d] = "accepted"
  BY <1>1
<1>7. ConnsInv(q)
  BY <1>1, <1>6 DEF ConnsInv, InConns
<1>8. PlaceInv(q)
  BY <1>1, <1>6, NamesApart DEF PlaceInv
<1>9. ResultInv(q)
  BY <1>1, <1>6, NamesApart DEF ResultInv
<1> QED
  BY <1>3, <1>4, <1>5, <1>7, <1>8, <1>9 DEF PairInv

LEMMA ConnectKeeps ==
  ASSUME PairInv(pair), \/ ConnectTrigger
                        \/ \E c \in Strangers : StrangerConnects(c)
  PROVE  PairInv(pair')
<1> DEFINE q == pair'
<1>1. /\ PairTypes(pair) /\ LineInv(pair) /\ QueueInv(pair) /\ ConnsInv(pair)
      /\ PlaceInv(pair) /\ ResultInv(pair) /\ IsPair(pair)
  BY DEF PairInv, PairTypes
<1>2. ASSUME NEW c \in Strangers, StrangerConnects(c) PROVE PairInv(q)
  <2>1. /\ pair.tcp[c] = "away" /\ c \in Ends /\ c # Own
        /\ q = [pair EXCEPT !.tcp[c] = "queued", !.backlog = Append(@, c)]
    BY <1>2, PairAssumption DEF StrangerConnects, Ends
  <2> HIDE DEF q
  <2>2. /\ IsPair(q) /\ q.tcp = [pair.tcp EXCEPT ![c] = "queued"]
        /\ q.backlog = Append(pair.backlog, c) /\ q.main = pair.main
        /\ q.accepter = pair.accepter /\ q.failure = pair.failure /\ q.server = pair.server
        /\ q.trigger = pair.trigger /\ q.line = pair.line /\ q.conns = pair.conns
        /\ q.at = pair.at /\ q.result = pair.result /\ q.short = pair.short
    BY <1>1, <2>1 DEF IsPair
  <2> QED
    BY <2>1, <2>2, ConnectedTo
<1>3. CASE ConnectTrigger
  <2>1. pair.main = "connect" /\ pair.tcp[Own] = "away"
    BY <1>1, <1>3 DEF ConnectTrigger, PlaceInv
  <2>2. CASE q = [pair EXCEPT !.main = "send", !.tcp[Own] = "queued", !.backlog = Append(@, Own)]
    <3> HIDE DEF q
    <3>1. /\ IsPair(q) /\ q.tcp = [pair.tcp EXCEPT ![Own] = "queued"]
          /\ q.backlog = Append(pair.backlog, Own) /\ q.main = "send"
          /\ q.accepter = pair.accepter /\ q.failure = pair.failure /\ q.server = pair.server
          /\ q.trigger = pair.trigger /\ q.line = pair.line /\ q.conns = pair.conns
          /\ q.at = pair.at /\ q.result = pair.result /\ q.short = pair.short
      BY <1>1, <2>2 DEF IsPair
    <3>2. PairInv(q)
      BY <2>1, <3>1, NamesApart, ConnectedTo
    <3> QED
      BY <3>2 DEF q
  <2>3. CASE q = [pair EXCEPT !.main = "join", !.failure = TRUE]
    <3> HIDE DEF q
    <3>1. /\ IsPair(q) /\ q.tcp = pair.tcp /\ q.line = pair.line /\ q.backlog = pair.backlog
          /\ q.conns = pair.conns /\ q.at = pair.at /\ q.failure = TRUE /\ q.main = "join"
          /\ q.accepter = pair.accepter /\ q.result = pair.result /\ q.short = pair.short
      BY <1>1, <2>3 DEF IsPair
    <3>2. PairTypes(q)
      BY <1>1, <3>1 DEF PairTypes
    <3>3. LineInv(q) /\ QueueInv(q) /\ ConnsInv(q)
      BY <1>1, <3>1 DEF LineInv, QueueInv, ConnsInv, InConns
    <3>4. PlaceInv(q) /\ ResultInv(q)
      BY <1>1, <2>1, <3>1 DEF PlaceInv, ResultInv
    <3> QED
      BY <3>2, <3>3, <3>4 DEF PairInv, q
  <2> QED
    BY <1>3, <2>2, <2>3 DEF ConnectTrigger
<1> QED
  BY <1>2, <1>3

\* The caller sends the key, strangers something else.
LEMMA SendKeeps ==
  ASSUME PairInv(pair), \/ SendKey
                        \/ \E c \in Strangers : StrangerSends(c)
  PROVE  PairInv(pair')
<1> DEFINE q == pair'
<1>1. /\ PairTypes(pair) /\ LineInv(pair) /\ QueueInv(pair) /\ ConnsInv(pair)
      /\ PlaceInv(pair) /\ ResultInv(pair) /\ IsPair(pair)
      /\ pair.line \in [Ends -> Seq(Piece)] /\ pair.failure \in BOOLEAN
  BY DEF PairInv, PairTypes
<1>2. ASSUME NEW c \in Strangers, StrangerSends(c) PROVE PairInv(q)
  <2> DEFINE more == Append(pair.line[c], Junk)
             m == Len(pair.line[c])
  <2>1. q = [pair EXCEPT !.line[c] = more] /\ c \in Ends /\ Junk \in Piece
    BY <1>2 DEF StrangerSends, Ends, Piece
  <2>2. /\ more \in Seq(Piece) /\ DOMAIN more = 1 .. m + 1 /\ m \in Nat
        /\ DOMAIN pair.line[c] = 1 .. m
        /\ \A k \in 1 .. m : more[k] = pair.line[c][k]
        /\ more[m + 1] = Junk
    BY <1>1, <2>1, Appended
  <2> HIDE DEF q, more, m
  <2>3. /\ IsPair(q) /\ q.tcp = pair.tcp /\ q.line = [pair.line EXCEPT ![c] = more]
        /\ q.backlog = pair.backlog /\ q.main = pair.main /\ q.server = pair.server
        /\ q.conns = pair.conns /\ q.at = pair.at /\ q.failure = pair.failure
        /\ q.accepter = pair.accepter /\ q.result = pair.result /\ q.short = pair.short
        /\ q.trigger = pair.trigger
    BY <1>1, <2>1 DEF IsPair
  <2>4. PairTypes(q)
    BY <1>1, <2>2, <2>3 DEF PairTypes
  <2>5. LineInv(q)
    <3>1. \A k \in 1 .. m + 1 : k \in 1 .. m \/ k = m + 1
      BY <2>2
    <3>2. \A k \in DOMAIN more : more[k] = Junk
      BY <1>1, <2>2, <3>1 DEF LineInv
    <3> QED
      BY <1>1, <2>1, <2>3, <3>2 DEF LineInv, Ends
  <2>6. QueueInv(q) /\ ConnsInv(q)
    BY <1>1, <2>3 DEF QueueInv, ConnsInv, InConns
  <2>7. PlaceInv(q) /\ ResultInv(q)
    BY <1>1, <2>3 DEF PlaceInv, ResultInv
  <2> QED
    BY <2>4, <2>5, <2>6, <2>7 DEF PairInv
<1>3. CASE SendKey
  <2>1. \/ q = [pair EXCEPT !.main = "join", !.line[Own] = Key]
        \/ q = [pair EXCEPT !.main = "join", !.failure = TRUE]
    BY <1>3 DEF SendKey
  <2>2. pair.main = "send" /\ Key \in Seq(Piece)
    <3>1. Range(Key) \subseteq Piece
      BY DEF Piece
    <3> QED
      BY <1>3, <3>1, PairAssumption, SeqMonotonic DEF SendKey
  <2> HIDE DEF q
  <2>3. /\ IsPair(q) /\ q.tcp = pair.tcp /\ q.backlog = pair.backlog
        /\ q.conns = pair.conns /\ q.at = pair.at /\ q.main = "join"
        /\ q.accepter = pair.accepter /\ q.result = pair.result /\ q.short = pair.short
        /\ \/ q.line = [pair.line EXCEPT ![Own] = Key] /\ q.failure = pair.failure
           \/ q.line = pair.line /\ q.failure = TRUE
    BY <1>1, <2>1 DEF IsPair
  <2>4. PairTypes(q)
    BY <1>1, <2>2, <2>3, NamesApart DEF PairTypes
  <2>5. LineInv(q)
    <3>1. \A c \in Strangers : c \in Ends /\ c # Own
      BY PairAssumption DEF Ends
    <3> QED
      BY <1>1, <2>3, <3>1 DEF LineInv
  <2>6. QueueInv(q) /\ ConnsInv(q)
    BY <1>1, <2>3 DEF QueueInv, ConnsInv, InConns
  <2>7. PlaceInv(q) /\ ResultInv(q)
    BY <1>1, <2>2, <2>3 DEF PlaceInv, ResultInv
  <2> QED
    BY <2>4, <2>5, <2>6, <2>7 DEF PairInv, q
<1> QED
  BY <1>2, <1>3

LEMMA EvaluateKeeps ==
  ASSUME PairInv(pair), Evaluate
  PROVE  PairInv(pair')
<1>1. /\ PairTypes(pair) /\ LineInv(pair) /\ QueueInv(pair) /\ ConnsInv(pair)
      /\ PlaceInv(pair) /\ ResultInv(pair) /\ IsPair(pair)
  BY DEF PairInv, PairTypes
<1>2. pair.main = "join" /\ pair.accepter = "left"
  BY DEF Evaluate
<1>3. CASE pair' = GiveUp(pair)
  BY <1>2, <1>3, GivenUp
<1>4. CASE pair' # GiveUp(pair)
  <2> DEFINE r == [pair EXCEPT !.result = None]
             f == FreeSetup(r)
             q == pair'
  <2>1. /\ ~pair.failure
        /\ q = [f EXCEPT !.main = "returned", !.trigger = TRUE, !.result = pair.result]
    BY <1>4 DEF Evaluate
  <2>2. r = [pair EXCEPT !.result = None]
    OBVIOUS
  <2> HIDE DEF r
  <2>3. /\ IsPair(r) /\ r.tcp = pair.tcp /\ r.line = pair.line /\ r.backlog = pair.backlog
        /\ r.conns = pair.conns /\ r.at = pair.at /\ r.failure = pair.failure
        /\ r.main = pair.main /\ r.accepter = pair.accepter /\ r.result = None
        /\ r.short = pair.short
    BY <1>1, <2>2 DEF IsPair
  <2>4. PairTypes(r)
    BY <1>1, <2>3 DEF PairTypes
  <2>5. /\ IsPair(f) /\ f.server = FALSE /\ f.backlog = <<>>
        /\ f.tcp = [c \in Ends |-> IF c = r.result THEN "closed" ELSE ClosedQueue(r)[c]]
        /\ f.main = r.main /\ f.accepter = r.accepter /\ f.failure = r.failure
        /\ f.trigger = FALSE /\ f.line = r.line /\ f.conns = r.conns
        /\ f.at = r.at /\ f.result = None /\ f.short = r.short
    BY <2>3, <2>4, FreeSetupFields
  <2> HIDE DEF f, q
  <2>6. /\ IsPair(q) /\ q.tcp = f.tcp /\ q.line = pair.line /\ q.backlog = <<>>
        /\ q.conns = pair.conns /\ q.at = pair.at /\ q.failure = pair.failure
        /\ q.main = "returned" /\ q.accepter = "left" /\ q.result = pair.result
        /\ q.short = pair.short /\ q.server = FALSE /\ q.trigger = TRUE
    BY <1>2, <2>1, <2>3, <2>5 DEF IsPair
  <2>7. /\ \A c \in Ends : q.tcp[c] \in {"away", "queued", "accepted", "closed"}
                           /\ (q.tcp[c] = "accepted" <=> pair.tcp[c] = "accepted")
        /\ q.tcp \in [Ends -> {"away", "queued", "accepted", "closed"}]
    <3>1. q.tcp = [c \in Ends |-> IF pair.tcp[c] = "queued" THEN "closed" ELSE pair.tcp[c]]
      BY <2>3, <2>5, <2>6, NamesApart DEF ClosedQueue
    <3>2. pair.tcp \in [Ends -> {"away", "queued", "accepted", "closed"}]
      BY <1>1 DEF PairTypes
    <3> QED
      BY <3>1, <3>2
  <2>8. PairTypes(q)
    BY <1>1, <2>6, <2>7, EmptySeq DEF PairTypes
  <2>9. LineInv(q) /\ QueueInv(q) /\ ConnsInv(q)
    <3>1. LineInv(q)
      BY <1>1, <2>6 DEF LineInv
    <3>2. QueueInv(q)
      BY <2>6 DEF QueueInv
    <3>3. ConnsInv(q)
      BY <1>1, <2>6 DEF ConnsInv
    <3> QED
      BY <3>1, <3>2, <3>3
  <2>10. pair.result = Own
    BY <1>1, <1>2, <2>1 DEF ResultInv
  <2>11. PlaceInv(q)
    BY <2>1, <2>6, <2>10 DEF PlaceInv, None
  <2>12. ResultInv(q)
    BY <1>1, <1>2, <2>1, <2>6, <2>7, <2>10, NamesApart DEF ResultInv
  <2> QED
    BY <2>8, <2>9, <2>11, <2>12 DEF PairInv, q
<1> QED
  BY <1>3, <1>4

\* The thread goes on to its loop or to the next connection.
LEMMA GoesOn ==
  ASSUME NEW p, PairInv(p), p.accepter \in {"accept", "read"},
         NEW place \in {"accept", "read"}, NEW n \in Nat \ {0}, NEW q,
         q = [p EXCEPT !.accepter = place, !.at = n]
  PROVE  PairInv(q)
<1>1. /\ PairTypes(p) /\ LineInv(p) /\ QueueInv(p) /\ ConnsInv(p)
      /\ PlaceInv(p) /\ ResultInv(p) /\ IsPair(p)
  BY DEF PairInv, PairTypes
<1>2. /\ IsPair(q) /\ q.tcp = p.tcp /\ q.line = p.line /\ q.backlog = p.backlog
      /\ q.conns = p.conns /\ q.at = n /\ q.failure = p.failure /\ q.main = p.main
      /\ q.accepter = place /\ q.result = p.result /\ q.short = p.short
      /\ q.server = p.server /\ q.trigger = p.trigger
  BY <1>1 DEF IsPair
<1>3. PairTypes(q)
  BY <1>1, <1>2 DEF PairTypes
<1>4. LineInv(q) /\ QueueInv(q) /\ ConnsInv(q)
  BY <1>1, <1>2 DEF LineInv, QueueInv, ConnsInv, InConns
<1>5. PlaceInv(q) /\ ResultInv(q)
  BY <1>1, <1>2 DEF PlaceInv, ResultInv, None
<1> QED
  BY <1>3, <1>4, <1>5 DEF PairInv

LEMMA AcceptKeeps ==
  ASSUME PairInv(pair), Accept
  PROVE  PairInv(pair')
<1> DEFINE q == pair'
<1>1. /\ PairTypes(pair) /\ LineInv(pair) /\ QueueInv(pair) /\ ConnsInv(pair)
      /\ PlaceInv(pair) /\ ResultInv(pair) /\ IsPair(pair)
      /\ pair.tcp \in [Ends -> {"away", "queued", "accepted", "closed"}]
      /\ pair.backlog \in Seq(Ends) /\ pair.conns \in Seq([of : Ends, got : Seq(Piece)])
  BY DEF PairInv, PairTypes
<1>2. pair.accepter = "accept" /\ pair.result = None
  BY <1>1 DEF Accept, ResultInv
<1>3. CASE pair.failure
  <2>1. PairInv(Leave(pair))
    BY <1>1, <1>2, <1>3, LeftBehind DEF ResultInv, None, Own
  <2> QED
    BY <1>3, <2>1 DEF Accept
<1>4. CASE q = [pair EXCEPT !.accepter = "left", !.failure = TRUE, !.short = TRUE]
  <2> HIDE DEF q
  <2>1. /\ IsPair(q) /\ q.tcp = pair.tcp /\ q.line = pair.line /\ q.backlog = pair.backlog
        /\ q.conns = pair.conns /\ q.at = pair.at /\ q.failure = TRUE /\ q.main = pair.main
        /\ q.accepter = "left" /\ q.result = pair.result /\ q.short = TRUE
        /\ q.server = pair.server /\ q.trigger = pair.trigger
    BY <1>1, <1>4 DEF IsPair
  <2>2. PairTypes(q)
    BY <1>1, <2>1 DEF PairTypes
  <2>3. LineInv(q) /\ QueueInv(q) /\ ConnsInv(q)
    BY <1>1, <2>1 DEF LineInv, QueueInv, ConnsInv, InConns
  <2>4. PlaceInv(q) /\ ResultInv(q)
    BY <1>1, <1>2, <2>1 DEF PlaceInv, ResultInv, None
  <2> QED
    BY <2>2, <2>3, <2>4 DEF PairInv, q
<1>5. CASE q = [pair EXCEPT !.accepter = "read", !.at = 1]
  <2> HIDE DEF q
  <2>1. PairInv(q)
    <3>1. 1 \in Nat \ {0} /\ "read" \in {"accept", "read"} /\ pair.accepter \in {"accept", "read"}
      BY <1>2
    <3> QED
      BY <1>5, <3>1, GoesOn, Zenon
  <2> QED
    BY <2>1 DEF q
<1>6. ASSUME ~pair.failure, pair.backlog # <<>>,
             q = [pair EXCEPT !.accepter = "read", !.at = 1,
                              !.backlog = Tail(@), !.tcp[Head(pair.backlog)] = "accepted",
                              !.conns = Append(@, [of |-> Head(pair.backlog), got |-> <<>>])]
      PROVE  PairInv(q)
  <2> DEFINE c == Head(pair.backlog)
             rest == Tail(pair.backlog)
             new == [of |-> c, got |-> <<>>]
             more == Append(pair.conns, new)
             n == Len(pair.conns)
  <2>1. q = [pair EXCEPT !.accepter = "read", !.at = 1, !.backlog = rest,
                         !.tcp[c] = "accepted", !.conns = more]
    BY <1>6
  <2>2. /\ c \in Ends /\ rest \in Seq(Ends) /\ c = pair.backlog[1] /\ 1 \in DOMAIN pair.backlog
        /\ \A k \in DOMAIN rest : k + 1 \in DOMAIN pair.backlog /\ rest[k] = pair.backlog[k + 1]
        /\ \A k \in DOMAIN rest : k \in Nat \ {0}
    BY <1>1, <1>6, HeadTailProperties
  <2>3. new \in [of : Ends, got : Seq(Piece)] /\ new.of = c /\ new.got = <<>>
    BY <2>2, EmptySeq
  <2> HIDE DEF new
  <2>4. /\ more \in Seq([of : Ends, got : Seq(Piece)]) /\ n \in Nat
        /\ DOMAIN more = 1 .. n + 1 /\ DOMAIN pair.conns = 1 .. n
        /\ \A k \in 1 .. n : more[k] = pair.conns[k]
        /\ more[n + 1] = new
    <3> DEFINE R == [of : Ends, got : Seq(Piece)]
    <3>1. pair.conns \in Seq(R) /\ new \in R
      BY <1>1, <2>3
    <3> HIDE DEF R
    <3>2. more \in Seq(R) /\ n \in Nat /\ DOMAIN more = 1 .. n + 1 /\ DOMAIN pair.conns = 1 .. n
          /\ (\A k \in 1 .. n : more[k] = pair.conns[k]) /\ more[n + 1] = new
      BY <3>1, Appended
    <3> QED
      BY <3>2 DEF R
  <2>5. \A k \in 1 .. n + 1 : k \in 1 .. n \/ k = n + 1
    BY <2>4
  <2> HIDE DEF c, rest, more, n, q
  <2>6. /\ IsPair(q) /\ q.tcp = [pair.tcp EXCEPT ![c] = "accepted"] /\ q.line = pair.line
        /\ q.backlog = rest /\ q.conns = more /\ q.at = 1 /\ q.failure = pair.failure
        /\ q.main = pair.main /\ q.accepter = "read" /\ q.result = pair.result
        /\ q.short = pair.short /\ q.server = pair.server /\ q.trigger = pair.trigger
    BY <1>1, <2>1 DEF IsPair
  <2>7. pair.tcp[c] = "queued"
    BY <1>1, <2>2 DEF QueueInv
  <2>8. PairTypes(q)
    BY <1>1, <2>2, <2>4, <2>6 DEF PairTypes
  <2>9. LineInv(q)
    <3>1. ASSUME NEW k \in DOMAIN more, more[k].of \in Strangers
          PROVE  \A j \in DOMAIN more[k].got : more[k].got[j] = Junk
      <4>1. CASE k \in 1 .. n
        <5>1. more[k] = pair.conns[k] /\ k \in DOMAIN pair.conns
          BY <2>4, <4>1
        <5> QED
          BY <1>1, <3>1, <5>1 DEF LineInv
      <4>2. CASE k = n + 1
        <5>1. DOMAIN more[k].got = {}
          BY <2>3, <2>4, <4>2
        <5> QED
          BY <5>1
      <4> QED
        BY <2>4, <2>5, <4>1, <4>2
    <3> QED
      BY <1>1, <2>6, <3>1 DEF LineInv
  <2>10. QueueInv(q)
    <3>1. \A k \in DOMAIN rest : rest[k] # c /\ rest[k] \in Ends /\ pair.tcp[rest[k]] = "queued"
      BY <1>1, <2>2 DEF QueueInv
    <3>2. \A k, l \in DOMAIN rest : rest[k] = rest[l] => k = l
      <4> SUFFICES ASSUME NEW k \in DOMAIN rest, NEW l \in DOMAIN rest, rest[k] = rest[l]
                   PROVE  k = l
        OBVIOUS
      <4>1. k + 1 = l + 1
        BY <1>1, <2>2 DEF QueueInv
      <4> QED
        BY <2>2, <4>1
    <3> QED
      BY <1>1, <2>6, <3>1, <3>2 DEF QueueInv
  <2>11. \A d \in Ends : InConns(pair, d) <=> pair.tcp[d] = "accepted"
    BY <1>1, <1>2 DEF ConnsInv
  <2>12. ConnsInv(q)
    <3>1. \A k \in 1 .. n : pair.conns[k].of \in Ends /\ pair.conns[k].of # c
      <4> DEFINE R == [of : Ends, got : Seq(Piece)]
      <4>1. \A k \in 1 .. n : pair.conns[k] \in R
        <5>1. pair.conns \in Seq(R)
          BY <1>1
        <5> HIDE DEF R
        <5> QED
          BY <2>4, <5>1, ElementOfSeq
      <4> QED
        BY <2>2, <2>4, <2>7, <2>11, <4>1 DEF InConns
    <3>2. \A k, l \in 1 .. n : pair.conns[k].of = pair.conns[l].of => k = l
      BY <1>1, <2>4 DEF ConnsInv
    <3>3. \A k, l \in DOMAIN more : more[k].of = more[l].of => k = l
      BY <2>3, <2>4, <2>5, <3>1, <3>2
    <3>4. \A d \in Ends : InConns(q, d) <=> InConns(pair, d) \/ d = c
      <4>1. \A d \in Ends : InConns(pair, d) => InConns(q, d)
        BY <2>4, <2>6 DEF InConns
      <4>2. InConns(q, c)
        <5>1. n + 1 \in DOMAIN q.conns /\ q.conns[n + 1].of = c
          BY <2>3, <2>4, <2>6
        <5> QED
          BY <5>1 DEF InConns
      <4>3. \A d \in Ends : InConns(q, d) => InConns(pair, d) \/ d = c
        BY <2>3, <2>4, <2>5, <2>6 DEF InConns
      <4> QED
        BY <4>1, <4>2, <4>3
    <3>5. \A d \in Ends : q.tcp[d] = "accepted" <=> pair.tcp[d] = "accepted" \/ d = c
      BY <1>1, <2>6
    <3> QED
      BY <2>6, <2>11, <3>3, <3>4, <3>5 DEF ConnsInv
  <2>13. PlaceInv(q)
    <3>1. pair.main \in {"setup", "spawn", "connect"} => c # Own
      BY <1>1, <2>7 DEF PlaceInv
    <3> QED
      BY <1>1, <1>2, <2>6, <3>1, NamesApart DEF PlaceInv, None
  <2>14. ResultInv(q)
    BY <1>1, <1>2, <2>6 DEF ResultInv
  <2> QED
    BY <2>8, <2>9, <2>10, <2>12, <2>13, <2>14 DEF PairInv
<1> QED
  BY <1>3, <1>4, <1>5, <1>6 DEF Accept

\* A piece is read: it goes from the line to the end of what came over the connection.
PieceRead(p, i) ==
    [p EXCEPT !.conns[i].got = Append(p.conns[i].got, Head(p.line[p.conns[i].of])),
              !.line[p.conns[i].of] = Tail(@)]

LEMMA PieceReadKeeps ==
  ASSUME NEW p, PairInv(p), p.accepter = "read", NEW i \in 1 .. Len(p.conns),
         p.line[p.conns[i].of] # <<>>
  PROVE  LET q == PieceRead(p, i)
         IN  /\ PairInv(q) /\ q.accepter = "read" /\ q.at = p.at
             /\ Len(q.conns) = Len(p.conns)
             /\ q.conns[i].of = p.conns[i].of
             /\ q.conns[i].got = Append(p.conns[i].got, Head(p.line[p.conns[i].of]))
<1> DEFINE c == p.conns[i].of
           sent == p.line[c]
           got == Append(p.conns[i].got, Head(sent))
           rest == Tail(sent)
           conns == [p.conns EXCEPT ![i].got = got]
           n == Len(p.conns)
           q == PieceRead(p, i)
<1>1. /\ PairTypes(p) /\ LineInv(p) /\ QueueInv(p) /\ ConnsInv(p) /\ PlaceInv(p)
      /\ ResultInv(p) /\ IsPair(p) /\ p.line \in [Ends -> Seq(Piece)]
      /\ p.conns \in Seq([of : Ends, got : Seq(Piece)])
  BY DEF PairInv, PairTypes
<1>2. /\ n \in Nat /\ DOMAIN p.conns = 1 .. n /\ c \in Ends /\ p.conns[i].got \in Seq(Piece)
      /\ p.conns[i] = [of |-> c, got |-> p.conns[i].got]
  <2> DEFINE R == [of : Ends, got : Seq(Piece)]
  <2>1. p.conns \in Seq(R)
    BY <1>1
  <2> HIDE DEF R
  <2>2. n \in Nat /\ DOMAIN p.conns = 1 .. n /\ p.conns[i] \in R
    BY <2>1
  <2> QED
    BY <2>2 DEF R
<1>3. q = [p EXCEPT !.conns = conns, !.line[c] = rest]
  BY DEF PieceRead
<1> HIDE DEF c
<1>4. /\ sent \in Seq(Piece) /\ Head(sent) = sent[1] /\ 1 \in DOMAIN sent
      /\ Head(sent) \in Piece /\ rest \in Seq(Piece)
      /\ \A k \in DOMAIN rest : k + 1 \in DOMAIN sent /\ rest[k] = sent[k + 1]
  <2>1. sent \in Seq(Piece) /\ sent # <<>>
    BY <1>1, <1>2 DEF c
  <2> HIDE DEF sent
  <2> QED
    BY <2>1, HeadTailProperties
<1>5. /\ got \in Seq(Piece) /\ DOMAIN got = 1 .. Len(p.conns[i].got) + 1
      /\ DOMAIN p.conns[i].got = 1 .. Len(p.conns[i].got)
      /\ \A k \in 1 .. Len(p.conns[i].got) : got[k] = p.conns[i].got[k]
      /\ got[Len(p.conns[i].got) + 1] = Head(sent) /\ Len(p.conns[i].got) \in Nat
  BY <1>2, <1>4, Appended
<1> HIDE DEF sent, got, rest
<1>6. /\ DOMAIN conns = 1 .. n /\ Len(conns) = n
      /\ \A k \in 1 .. n : k # i => conns[k] = p.conns[k]
      /\ conns[i] = [of |-> c, got |-> got]
      /\ conns \in Seq([of : Ends, got : Seq(Piece)])
  <2> DEFINE R == [of : Ends, got : Seq(Piece)]
             new == [of |-> c, got |-> got]
  <2>1. p.conns \in Seq(R) /\ new \in R
    BY <1>1, <1>2, <1>5
  <2>2. conns = [p.conns EXCEPT ![i] = new]
    <3>1. [p.conns[i] EXCEPT !.got = got] = new
      BY <1>2
    <3> QED
      BY <3>1
  <2> HIDE DEF R, new, conns
  <2>3. /\ conns \in Seq(R) /\ DOMAIN conns = 1 .. n /\ Len(conns) = n /\ conns[i] = new
        /\ \A k \in 1 .. n : k # i => conns[k] = p.conns[k]
    BY <1>2, <2>1, <2>2, ExceptSeq
  <2> QED
    BY <2>3 DEF R, new
<1> HIDE DEF conns, q, n
<1>7. /\ IsPair(q) /\ q.tcp = p.tcp /\ q.line = [p.line EXCEPT ![c] = rest]
      /\ q.backlog = p.backlog /\ q.main = p.main /\ q.server = p.server
      /\ q.conns = conns /\ q.at = p.at /\ q.failure = p.failure
      /\ q.accepter = p.accepter /\ q.result = p.result /\ q.short = p.short
      /\ q.trigger = p.trigger
  BY <1>1, <1>3 DEF IsPair
<1>8. \A k \in 1 .. n : conns[k].of = p.conns[k].of
  BY <1>2, <1>6
<1>9. PairTypes(q)
  <2>1. q.line \in [Ends -> Seq(Piece)]
    BY <1>1, <1>4, <1>7
  <2>2. q.conns \in Seq([of : Ends, got : Seq(Piece)])
    BY <1>6, <1>7
  <2> QED
    BY <1>1, <1>7, <2>1, <2>2 DEF PairTypes
<1>10. LineInv(q)
  <2>1. c \in Strangers => \A k \in DOMAIN sent : sent[k] = Junk
    BY <1>1 DEF LineInv, sent
  <2>2. c \in Strangers => \A k \in DOMAIN rest : rest[k] = Junk
    BY <1>4, <2>1
  <2>3. c \in Strangers => \A k \in DOMAIN got : got[k] = Junk
    <3> SUFFICES ASSUME c \in Strangers, NEW k \in DOMAIN got PROVE got[k] = Junk
      OBVIOUS
    <3>1. CASE k \in 1 .. Len(p.conns[i].got)
      <4>1. i \in DOMAIN p.conns /\ p.conns[i].of \in Strangers
        BY <1>2 DEF c
      <4>2. \A j \in DOMAIN p.conns[i].got : p.conns[i].got[j] = Junk
        BY <1>1, <4>1 DEF LineInv
      <4> QED
        BY <1>5, <3>1, <4>2
    <3>2. CASE k = Len(p.conns[i].got) + 1
      BY <1>4, <1>5, <2>1, <3>2
    <3> QED
      BY <1>5, <3>1, <3>2
  <2>4. \A d \in Strangers : \A k \in DOMAIN q.line[d] : q.line[d][k] = Junk
    <3>1. Strangers \subseteq Ends
      BY DEF Ends
    <3> QED
      BY <1>1, <1>7, <2>2, <3>1 DEF LineInv
  <2>5. ASSUME NEW k \in DOMAIN conns, conns[k].of \in Strangers
        PROVE  \A j \in DOMAIN conns[k].got : conns[k].got[j] = Junk
    <3>1. CASE k = i
      BY <1>6, <2>3, <2>5, <3>1
    <3>2. CASE k # i
      <4>1. conns[k] = p.conns[k] /\ k \in DOMAIN p.conns
        BY <1>2, <1>6, <3>2
      <4> QED
        BY <1>1, <2>5, <4>1 DEF LineInv
    <3> QED
      BY <3>1, <3>2
  <2> QED
    BY <1>7, <2>4, <2>5 DEF LineInv
<1>11. QueueInv(q)
  BY <1>1, <1>7 DEF QueueInv
<1>12. ConnsInv(q)
  <2>1. \A d \in Ends : InConns(q, d) <=> InConns(p, d)
    BY <1>2, <1>6, <1>7, <1>8 DEF InConns
  <2> QED
    BY <1>1, <1>2, <1>6, <1>7, <1>8, <2>1 DEF ConnsInv
<1>13. PlaceInv(q) /\ ResultInv(q)
  BY <1>1, <1>7 DEF PlaceInv, ResultInv, None
<1>14. PairInv(q)
  BY <1>9, <1>10, <1>11, <1>12, <1>13 DEF PairInv
<1>15. /\ Len(q.conns) = Len(p.conns) /\ q.conns[i].of = p.conns[i].of
       /\ q.conns[i].got = Append(p.conns[i].got, Head(p.line[p.conns[i].of]))
  BY <1>6, <1>7 DEF n, c, got, sent
<1> QED
  BY <1>7, <1>14, <1>15 DEF q

\* Only the caller's connection can have brought the whole key.
LEMMA ChosenIsOwn ==
  ASSUME NEW p, PairInv(p), p.accepter = "read", NEW i \in 1 .. Len(p.conns),
         p.conns[i].got = Key
  PROVE  PairInv(Leave([p EXCEPT !.result = p.conns[i].of]))
<1> DEFINE c == p.conns[i].of
           r == [p EXCEPT !.result = c]
<1>1. /\ PairTypes(p) /\ LineInv(p) /\ QueueInv(p) /\ ConnsInv(p)
      /\ PlaceInv(p) /\ ResultInv(p) /\ IsPair(p)
      /\ p.conns \in Seq([of : Ends, got : Seq(Piece)])
  BY DEF PairInv, PairTypes
<1>2. i \in DOMAIN p.conns /\ c \in Ends
  <2> DEFINE R == [of : Ends, got : Seq(Piece)]
  <2>1. p.conns \in Seq(R)
    BY <1>1
  <2> HIDE DEF R
  <2>2. i \in DOMAIN p.conns /\ p.conns[i] \in R
    BY <2>1
  <2> QED
    BY <2>2 DEF R
<1>3. c = Own
  <2>1. c \in Strangers => \A k \in DOMAIN Key : Key[k] = Junk
    BY <1>1, <1>2 DEF LineInv
  <2> QED
    BY <1>2, <2>1, PairAssumption, NamesApart
<1>4. r = [p EXCEPT !.result = Own]
  BY <1>3
<1> HIDE DEF r
<1>5. /\ IsPair(r) /\ r.tcp = p.tcp /\ r.line = p.line /\ r.backlog = p.backlog
      /\ r.conns = p.conns /\ r.at = p.at /\ r.failure = p.failure /\ r.main = p.main
      /\ r.accepter = p.accepter /\ r.result = Own /\ r.short = p.short
      /\ r.server = p.server /\ r.trigger = p.trigger
  BY <1>1, <1>4 DEF IsPair
<1>6. PairTypes(r)
  BY <1>1, <1>5 DEF PairTypes
<1>7. LineInv(r) /\ ConnsInv(r) /\ PlaceInv(r) /\ InConns(r, Own)
  <2>1. LineInv(r) /\ ConnsInv(r)
    BY <1>1, <1>5 DEF LineInv, ConnsInv, InConns
  <2>2. PlaceInv(r)
    BY <1>1, <1>5 DEF PlaceInv, None
  <2>3. InConns(r, Own)
    BY <1>2, <1>3, <1>5 DEF InConns
  <2> QED
    BY <2>1, <2>2, <2>3
<1>8. r.accepter \in {"accept", "read"} /\ r.result \in {None, Own} /\ (r.short => r.failure)
  BY <1>1, <1>5 DEF ResultInv
<1>9. PairInv(Leave(r))
  BY <1>5, <1>6, <1>7, <1>8, LeftBehind, Zenon
<1> QED
  BY <1>9 DEF r

LEMMA ReadConnKeeps ==
  ASSUME PairInv(pair), ReadConn
  PROVE  PairInv(pair')
<1> DEFINE i == pair.at
           c == pair.conns[i]
           got == Append(c.got, Head(pair.line[c.of]))
           read == [pair EXCEPT !.conns[i].got = got, !.line[c.of] = Tail(@)]
           q == pair'
<1>1. /\ PairTypes(pair) /\ IsPair(pair) /\ pair.accepter = "read" /\ i \in Nat \ {0}
      /\ Len(pair.conns) \in Nat /\ "read" \in {"accept", "read"} /\ i + 1 \in Nat \ {0}
      /\ "accept" \in {"accept", "read"} /\ pair.accepter \in {"accept", "read"}
  <2>1. PairTypes(pair) /\ pair.accepter = "read"
    BY DEF PairInv, ReadConn
  <2> DEFINE R == [of : Ends, got : Seq(Piece)]
  <2>2. pair.conns \in Seq(R) /\ IsPair(pair) /\ i \in Nat \ {0}
    BY <2>1 DEF PairTypes
  <2> HIDE DEF R
  <2> QED
    BY <2>1, <2>2
<1>2. CASE q = [pair EXCEPT !.accepter = "accept"]
  <2> HIDE DEF q
  <2>1. q = [pair EXCEPT !.accepter = "accept", !.at = i]
    BY <1>1, <1>2 DEF IsPair
  <2>2. PairInv(q)
    BY <1>1, <2>1, GoesOn, Zenon
  <2> QED
    BY <2>2 DEF q
<1>3. CASE q = [pair EXCEPT !.at = @ + 1]
  <2> HIDE DEF q
  <2>1. q = [pair EXCEPT !.accepter = "read", !.at = i + 1]
    BY <1>1, <1>3 DEF IsPair
  <2>2. PairInv(q)
    BY <1>1, <2>1, GoesOn, Zenon
  <2> QED
    BY <2>2 DEF q
<1>4. CASE i \in 1 .. Len(pair.conns) /\ q = CloseConn(pair, i)
  <2>1. PairInv(CloseConn(pair, i))
    BY <1>1, <1>4, ConnClosed, Zenon
  <2> QED
    BY <1>4, <2>1
<1>5. CASE /\ i \in 1 .. Len(pair.conns) /\ pair.line[c.of] # <<>>
           /\ q = IF Len(got) < Len(Key) THEN [read EXCEPT !.at = @ + 1]
                  ELSE FullKey(read, i, got)
  <2>1. read = PieceRead(pair, i)
    BY DEF PieceRead
  <2> HIDE DEF q, read, got, i
  <2>2. /\ PairInv(read) /\ read.accepter = "read" /\ read.at = i
        /\ i \in 1 .. Len(read.conns) /\ read.conns[i].got = got
    <3>1. LET r == PieceRead(pair, i)
          IN  /\ PairInv(r) /\ r.accepter = "read" /\ r.at = pair.at
              /\ Len(r.conns) = Len(pair.conns)
              /\ r.conns[i].of = pair.conns[i].of
              /\ r.conns[i].got = Append(pair.conns[i].got, Head(pair.line[pair.conns[i].of]))
      BY <1>1, <1>5, PieceReadKeeps, Zenon
    <3>2. pair.at = i
      BY DEF i
    <3> QED
      BY <1>5, <2>1, <3>1, <3>2 DEF got
  <2>3. CASE Len(got) < Len(Key)
    <3>1. q = [read EXCEPT !.at = @ + 1] /\ IsPair(read)
      BY <1>5, <2>2, <2>3 DEF PairInv, PairTypes
    <3>2. q = [read EXCEPT !.accepter = "read", !.at = i + 1]
      BY <2>2, <3>1 DEF IsPair
    <3>3. PairInv(q)
      <4>1. read.accepter \in {"accept", "read"}
        BY <2>2
      <4> QED
        BY <1>1, <2>2, <3>2, <4>1, GoesOn, Zenon
    <3> QED
      BY <3>3 DEF q
  <2>4. CASE ~(Len(got) < Len(Key)) /\ got = Key
    <3>1. q = Leave([read EXCEPT !.result = read.conns[i].of])
      BY <1>5, <2>4 DEF FullKey
    <3>2. PairInv(Leave([read EXCEPT !.result = read.conns[i].of]))
      BY <2>2, <2>4, ChosenIsOwn, Zenon
    <3> QED
      BY <3>1, <3>2 DEF q
  <2>5. CASE ~(Len(got) < Len(Key)) /\ got # Key
    <3>1. q = CloseConn(read, i)
      BY <1>5, <2>5 DEF FullKey
    <3>2. PairInv(CloseConn(read, i))
      BY <2>2, ConnClosed, Zenon
    <3> QED
      BY <3>1, <3>2 DEF q
  <2> QED
    BY <2>3, <2>4, <2>5
<1>6. i > Len(pair.conns) \/ i \in 1 .. Len(pair.conns)
  BY <1>1
<1> QED
  BY <1>2, <1>3, <1>4, <1>5, <1>6 DEF ReadConn
-----------------------------------------------------------------------------
LEMMA PairKept == PairInv(pair) /\ [PairNext]_pair => PairInv(pair')
<1> SUFFICES ASSUME PairInv(pair), [PairNext]_pair PROVE PairInv(pair')
  OBVIOUS
<1>1. CASE SetUp \/ SpawnAccepter
  BY <1>1, SetUpKeeps
<1>2. CASE ConnectTrigger \/ \E c \in Strangers : StrangerConnects(c)
  BY <1>2, ConnectKeeps
<1>3. CASE SendKey \/ \E c \in Strangers : StrangerSends(c)
  BY <1>3, SendKeeps
<1>4. CASE Evaluate
  BY <1>4, EvaluateKeeps
<1>5. CASE Accept
  BY <1>5, AcceptKeeps
<1>6. CASE ReadConn
  BY <1>6, ReadConnKeeps
<1>7. CASE UNCHANGED pair
  BY <1>7
<1> QED
  BY <1>1, <1>2, <1>3, <1>4, <1>5, <1>6, <1>7 DEF PairNext

LEMMA PairStates == PairSpec => []PairInv(pair)
<1>1. PairInit => PairInv(pair)
  BY InitPairInv
<1>2. PairInv(pair) /\ [PairNext]_pair => PairInv(pair)'
  BY PairKept
<1> QED
  BY <1>1, <1>2, PTL DEF PairSpec

\* For any key and any strangers: a pair is the two ends of the connection the caller
\* made itself; nothing else is left open, and nothing at all without a pair, unless
\* accept ran out of memory (sockets.c:1046-1190, 1192-1428).
THEOREM PairIsTheCallers == PairSpec => []PairIsOwnConnection
<1>1. PairInv(pair) => PairIsOwnConnection
  <2> SUFFICES ASSUME PairInv(pair) PROVE PairIsOwnConnection
    OBVIOUS
  <2>1. PlaceInv(pair) /\ ResultInv(pair)
    BY DEF PairInv
  <2>2. pair.main = "returned" =>
          /\ pair.result = Own /\ pair.trigger /\ ~pair.server
          /\ {c \in Ends : pair.tcp[c] = "accepted"} = {Own}
    <3> SUFFICES ASSUME pair.main = "returned"
                 PROVE  /\ pair.result = Own /\ pair.trigger /\ ~pair.server
                        /\ {c \in Ends : pair.tcp[c] = "accepted"} = {Own}
      OBVIOUS
    <3>1. /\ pair.accepter = "left" /\ ~pair.failure /\ ~pair.server /\ pair.trigger
          /\ pair.result = Own
      BY <2>1 DEF PlaceInv
    <3>2. pair.tcp[Own] = "accepted" /\ \A c \in Ends : pair.tcp[c] = "accepted" => c = Own
      BY <2>1, <3>1, NamesApart DEF ResultInv
    <3> QED
      BY <3>1, <3>2, NamesApart
  <2>3. pair.main = "failed" =>
          /\ ~pair.trigger /\ ~pair.server
          /\ {c \in Ends : pair.tcp[c] = "accepted"} # {} => pair.short
    <3> SUFFICES ASSUME pair.main = "failed"
                 PROVE  /\ ~pair.trigger /\ ~pair.server
                        /\ {c \in Ends : pair.tcp[c] = "accepted"} # {} => pair.short
      OBVIOUS
    <3>1. /\ pair.accepter \in {None, "left"} /\ ~pair.trigger /\ ~pair.server
          /\ pair.result = None
      BY <2>1 DEF PlaceInv
    <3>2. \A c \in Ends : pair.tcp[c] = "accepted" => pair.short
      BY <2>1, <3>1, NamesApart DEF ResultInv, PlaceInv
    <3> QED
      BY <3>1, <3>2
  <2> QED
    BY <2>2, <2>3 DEF PairIsOwnConnection
<1> QED
  BY <1>1, PairStates, PTL

-----------------------------------------------------------------------------
(* The connect call *)

IsConn(c) ==
    c = [has |-> c.has, encrypt |-> c.encrypt, job |-> c.job, sock |-> c.sock,
         flags |-> c.flags, ssl |-> c.ssl, failedv6 |-> c.failedv6, tcp |-> c.tcp,
         tried |-> c.tried, tls |-> c.tls, wait |-> c.wait, result |-> c.result]
\* What the calls on the socket leave alone.
CallKeeps(c, d) ==
    /\ IsConn(d) /\ d.has = c.has /\ d.encrypt = c.encrypt /\ d.job = c.job /\ d.sock = c.sock
    /\ d.failedv6 = c.failedv6 /\ d.wait = c.wait /\ d.result = c.result

\* A socket known to be connected is. When a connect was called, it was the one to the
\* IPv4 address.
KnownInv(c) == Knownconnected \in c.flags => Connectcalled \in c.flags /\ c.tcp = "connected"
LeftOver(c) == "v4" \in c.tried
CalledInv(c) == Connectcalled \in c.flags => LeftOver(c)
\* In a call, between the steps on the socket.
InCall(c) ==
    /\ IsConn(c) /\ KnownInv(c) /\ CalledInv(c)
    /\ c.result = "none" /\ c.sock = "open" /\ c.job = "done" /\ c.tcp # "pending"
    /\ c.failedv6 \in BOOLEAN
WaitInv(c) ==
    /\ KnownInv(c) /\ CalledInv(c) /\ c.failedv6 \in BOOLEAN
    /\ c.sock \in {"none", "open"} /\ c.job \in {"none", "running", "done", "failed"}
    /\ c.job \in {"none", "running", "failed"} => c.tcp = "unbound" /\ c.sock = "none"
    /\ c.wait \in {NeedToRead, NeedToWrite} => c.sock = "open" /\ c.job = "done"
    /\ c.tcp = "pending" => c.wait = NeedToWrite
\* A call may fail: the network has answered, and IPv4 was not left out.
AllTried(c) ==
    /\ c.tcp # "pending"
    /\ c.sock # "none" /\ "v4" \in c.has => LeftOver(c)
EndInv(c) ==
    /\ c.wait = "nothing" /\ c.job \in {"none", "abandoned"}
    /\ c.result = "stream" =>
         /\ c.sock = "stream" /\ c.tcp = "connected" /\ c.job = "abandoned"
         /\ c.encrypt => c.tls \in {"done", "shut"}
    /\ c.result # "stream" => c.sock \in {"none", "destroyed"}
    /\ c.result = ResourceError => AllTried(c)
ConnInv(c) ==
    /\ IsConn(c)
    /\ c.result = "none" => WaitInv(c)
    /\ c.result # "none" => EndInv(c)

\* The handshake fails only together with the flag, and never touches the connection.
LEMMA TlsAnswers ==
  ASSUME NEW c, IsConn(c), NEW a \in StartTls(c)
  PROVE  /\ CallKeeps(c, a.c) /\ a.c.tcp = c.tcp /\ a.c.tried = c.tried
         /\ \/ a.c.flags = c.flags
            \/ a.c.flags = c.flags \cup {Notlsleft}
         /\ a.ret \in {NeedToRead, NeedToWrite, OperationFailed, OutOfMemory, Success}
         /\ a.ret = Success => a.c.tls \in {"done", "shut"}
         /\ a.ret = OperationFailed => Notlsleft \in a.c.flags
<1> DEFINE begun == [c EXCEPT !.ssl = TRUE, !.tls = "begun"]
           over == [begun EXCEPT !.flags = @ \cup {Notlsleft}]
           done == [over EXCEPT !.tls = "done"]
           shut == [over EXCEPT !.tls = "shut"]
           ssl == [c EXCEPT !.ssl = TRUE]
           none == [c EXCEPT !.flags = @ \cup {Notlsleft}]
<1>1. Handshake(c) = {Answer(begun, NeedToRead), Answer(begun, NeedToWrite),
                      Answer(over, OperationFailed), Answer(done, Success), Answer(shut, Success)}
  BY DEF Handshake
<1>2. \/ a = Answer(c, OperationFailed) /\ Notlsleft \in c.flags
      \/ a \in Handshake(c) \/ a = Answer(ssl, OutOfMemory) \/ a = Answer(none, OutOfMemory)
  BY DEF StartTls
<1>3. begun = [c EXCEPT !.ssl = TRUE, !.tls = "begun"]
  OBVIOUS
<1> HIDE DEF begun
<1>4. CallKeeps(c, begun) /\ begun.tcp = c.tcp /\ begun.tried = c.tried /\ begun.flags = c.flags
  BY <1>3 DEF IsConn, CallKeeps
<1>5. over = [begun EXCEPT !.flags = begun.flags \cup {Notlsleft}]
  OBVIOUS
<1> HIDE DEF over
<1>6. /\ CallKeeps(c, over) /\ over.tcp = c.tcp /\ over.tried = c.tried
      /\ over.flags = c.flags \cup {Notlsleft}
  BY <1>4, <1>5 DEF IsConn, CallKeeps
<1>7. done = [over EXCEPT !.tls = "done"] /\ shut = [over EXCEPT !.tls = "shut"]
  OBVIOUS
<1>8. ssl = [c EXCEPT !.ssl = TRUE] /\ none = [c EXCEPT !.flags = c.flags \cup {Notlsleft}]
  OBVIOUS
<1> HIDE DEF done, shut, ssl, none
<1>9. /\ CallKeeps(c, done) /\ done.tcp = c.tcp /\ done.tried = c.tried
      /\ done.flags = c.flags \cup {Notlsleft} /\ done.tls = "done"
  BY <1>6, <1>7 DEF IsConn, CallKeeps
<1>10. /\ CallKeeps(c, shut) /\ shut.tcp = c.tcp /\ shut.tried = c.tried
       /\ shut.flags = c.flags \cup {Notlsleft} /\ shut.tls = "shut"
  BY <1>6, <1>7 DEF IsConn, CallKeeps
<1>11. CallKeeps(c, ssl) /\ ssl.tcp = c.tcp /\ ssl.tried = c.tried /\ ssl.flags = c.flags
  BY <1>8 DEF IsConn, CallKeeps
<1>12. /\ CallKeeps(c, none) /\ none.tcp = c.tcp /\ none.tried = c.tried
       /\ none.flags = c.flags \cup {Notlsleft}
  BY <1>8 DEF IsConn, CallKeeps
<1>13. CallKeeps(c, c)
  BY DEF CallKeeps
<1>14. \/ a.c = c /\ a.ret = OperationFailed /\ Notlsleft \in c.flags
       \/ a.c = begun /\ a.ret \in {NeedToRead, NeedToWrite}
       \/ a.c = over /\ a.ret = OperationFailed
       \/ a.c \in {done, shut} /\ a.ret = Success
       \/ a.c \in {ssl, none} /\ a.ret = OutOfMemory
  <2>1. \/ a = Answer(c, OperationFailed) /\ Notlsleft \in c.flags
        \/ a = Answer(begun, NeedToRead) \/ a = Answer(begun, NeedToWrite)
        \/ a = Answer(over, OperationFailed)
        \/ a = Answer(done, Success) \/ a = Answer(shut, Success)
        \/ a = Answer(ssl, OutOfMemory) \/ a = Answer(none, OutOfMemory)
    BY <1>1, <1>2
  <2> QED
    BY <2>1 DEF Answer
<1>15. /\ OperationFailed \notin {NeedToRead, NeedToWrite, OutOfMemory, Success}
       /\ Success \notin {NeedToRead, NeedToWrite, OutOfMemory}
  BY DEF NeedToRead, NeedToWrite, OperationFailed, OutOfMemory, Success
<1> QED
  BY <1>4, <1>6, <1>9, <1>10, <1>11, <1>12, <1>13, <1>14, <1>15

Returns == {NeedToRead, NeedToWrite, OperationFailed, OutOfMemory, Success}
LEMMA ReturnsDiffer ==
  /\ OperationFailed \notin {NeedToRead, NeedToWrite, OutOfMemory, Success}
  /\ Success \notin {NeedToRead, NeedToWrite, OutOfMemory}
  /\ OutOfMemory \notin {NeedToRead, NeedToWrite} /\ NeedToRead # NeedToWrite
  /\ Connectcalled # Knownconnected /\ Connectcalled # Notlsleft /\ Knownconnected # Notlsleft
BY DEF NeedToRead, NeedToWrite, OperationFailed, OutOfMemory, Success, Connectcalled,
       Knownconnected, Notlsleft

\* Of a connection that was called: what is known of it stays known.
LEMMA CheckAnswers ==
  ASSUME NEW c, IsConn(c), KnownInv(c), Connectcalled \in c.flags, NEW a \in CheckConnection(c)
  PROVE  /\ CallKeeps(c, a.c) /\ KnownInv(a.c) /\ a.ret \in Returns
         /\ LeftOver(c) => LeftOver(a.c)
         /\ a.c.tcp # "pending"
         /\ a.ret = Success =>
              a.c.tcp = "connected" /\ (c.encrypt => a.c.tls \in {"done", "shut"})
         /\ a.ret = OperationFailed => Connectcalled \notin a.c.flags \/ Notlsleft \in a.c.flags
<1>1. ASSUME NEW d, CallKeeps(c, d), d.tcp = "connected", d.tried = c.tried, c.tcp = "connected",
             d.flags \in {c.flags, c.flags \cup {Knownconnected}}, a \in Connected(d)
      PROVE  /\ CallKeeps(c, a.c) /\ KnownInv(a.c) /\ a.ret \in Returns
             /\ LeftOver(c) => LeftOver(a.c)
             /\ a.c.tcp # "pending"
             /\ a.ret = Success =>
                  a.c.tcp = "connected" /\ (c.encrypt => a.c.tls \in {"done", "shut"})
             /\ a.ret = OperationFailed => Notlsleft \in a.c.flags
  <2>1. CASE c.encrypt
    <3>1. a \in StartTls(d) /\ IsConn(d)
      BY <1>1, <2>1 DEF Connected, CallKeeps
    <3>2. /\ CallKeeps(d, a.c) /\ a.c.tcp = d.tcp /\ a.c.tried = d.tried
          /\ \/ a.c.flags = d.flags
             \/ a.c.flags = d.flags \cup {Notlsleft}
          /\ a.ret \in Returns
          /\ a.ret = Success => a.c.tls \in {"done", "shut"}
          /\ a.ret = OperationFailed => Notlsleft \in a.c.flags
      BY <3>1, TlsAnswers DEF Returns
    <3>3. CallKeeps(c, a.c)
      BY <1>1, <3>2 DEF CallKeeps
    <3>4. KnownInv(a.c) /\ (LeftOver(c) => LeftOver(a.c))
      BY <1>1, <3>2 DEF KnownInv, LeftOver
    <3> QED
      BY <1>1, <3>2, <3>3, <3>4
  <2>2. CASE ~c.encrypt
    <3>1. a.c = d /\ a.ret = Success
      BY <1>1, <2>2 DEF Connected, CallKeeps, Answer
    <3>2. KnownInv(d) /\ (LeftOver(c) => LeftOver(d))
      BY <1>1 DEF KnownInv, LeftOver
    <3> QED
      BY <1>1, <2>2, <3>1, <3>2, ReturnsDiffer DEF Returns
  <2> QED
    BY <2>1, <2>2
<1>2. CASE Knownconnected \in c.flags
  <2>1. c.tcp = "connected" /\ a \in Connected(c) /\ CallKeeps(c, c)
    BY <1>2 DEF CheckConnection, KnownInv, CallKeeps
  <2> QED
    BY <1>1, <2>1
<1>3. CASE Knownconnected \notin c.flags
  <2> DEFINE d == IF c.tcp = "error" THEN c ELSE [c EXCEPT !.tcp = "refused"]
             x == [d EXCEPT !.flags = @ \ {Connectcalled}]
             y == [c EXCEPT !.flags = c.flags \cup {Knownconnected}]
  <2>1. a = Answer(x, OperationFailed) \/ (c.tcp = "connected" /\ a \in Connected(y))
    BY <1>3 DEF CheckConnection, NotConnected
  <2>2. d = IF c.tcp = "error" THEN c ELSE [c EXCEPT !.tcp = "refused"]
    OBVIOUS
  <2> HIDE DEF d
  <2>3. /\ CallKeeps(c, d) /\ d.flags = c.flags /\ d.tried = c.tried
        /\ d.tcp = IF c.tcp = "error" THEN "error" ELSE "refused"
    BY <2>2 DEF IsConn, CallKeeps
  <2>4. x = [d EXCEPT !.flags = d.flags \ {Connectcalled}]
    OBVIOUS
  <2>5. y = [c EXCEPT !.flags = c.flags \cup {Knownconnected}]
    OBVIOUS
  <2> HIDE DEF x, y
  <2>6. /\ CallKeeps(c, x) /\ x.flags = c.flags \ {Connectcalled} /\ x.tried = c.tried
        /\ x.tcp = d.tcp
    BY <2>3, <2>4 DEF IsConn, CallKeeps
  <2>7. /\ CallKeeps(c, y) /\ y.flags = c.flags \cup {Knownconnected} /\ y.tried = c.tried
        /\ y.tcp = c.tcp
    BY <2>5 DEF IsConn, CallKeeps
  <2>8. CASE a = Answer(x, OperationFailed)
    <3>1. a.c = x /\ a.ret = OperationFailed
      BY <2>8 DEF Answer
    <3>2. KnownInv(x) /\ (LeftOver(c) => LeftOver(x)) /\ x.tcp # "pending"
      BY <1>3, <2>3, <2>6, ReturnsDiffer DEF KnownInv, LeftOver
    <3> QED
      BY <2>6, <3>1, <3>2, ReturnsDiffer DEF Returns
  <2>9. CASE c.tcp = "connected" /\ a \in Connected(y)
    BY <1>1, <2>7, <2>9
  <2> QED
    BY <2>1, <2>8, <2>9
<1> QED
  BY <1>2, <1>3

\* What connecting to the IPv4 address may come to.
LEMMA ClientAnswers ==
  ASSUME NEW c, InCall(c), NEW a \in ConnectClient(c, "v4")
  PROVE  /\ CallKeeps(c, a.c) /\ KnownInv(a.c) /\ a.ret \in Returns
         /\ a.c.tcp = "pending" => a.ret = NeedToWrite
         /\ a.ret \in {NeedToRead, NeedToWrite} => CalledInv(a.c)
         /\ a.ret = Success =>
              a.c.tcp = "connected" /\ (c.encrypt => a.c.tls \in {"done", "shut"})
         /\ a.ret = OperationFailed => LeftOver(a.c)
<1>1. /\ IsConn(c) /\ KnownInv(c) /\ CalledInv(c) /\ c.tcp # "pending" /\ CallKeeps(c, c)
  BY DEF InCall, CallKeeps
<1>2. CASE a = Answer(c, OutOfMemory)
  <2>1. a.c = c /\ a.ret = OutOfMemory
    BY <1>2 DEF Answer
  <2> QED
    BY <1>1, <2>1, ReturnsDiffer DEF Returns
<1>3. CASE Connectcalled \in c.flags /\ a \in CheckConnection(c)
  <2>1. /\ CallKeeps(c, a.c) /\ KnownInv(a.c) /\ a.ret \in Returns
        /\ LeftOver(c) => LeftOver(a.c)
        /\ a.c.tcp # "pending"
        /\ a.ret = Success =>
              a.c.tcp = "connected" /\ (c.encrypt => a.c.tls \in {"done", "shut"})
        /\ a.ret = OperationFailed => Connectcalled \notin a.c.flags \/ Notlsleft \in a.c.flags
    BY <1>1, <1>3, CheckAnswers
  <2>2. LeftOver(a.c)
    BY <1>1, <1>3, <2>1 DEF CalledInv
  <2>3. CalledInv(a.c)
    BY <2>2 DEF CalledInv
  <2> QED
    BY <2>1, <2>2, <2>3
<1>4. CASE Connectcalled \notin c.flags /\ a \in CallConnect(c, "v4")
  <2> DEFINE called == [c EXCEPT !.flags = @ \cup {Connectcalled}, !.tried = @ \cup {"v4"}]
             there == [called EXCEPT !.tcp = "connected"]
             waits == [called EXCEPT !.tcp = "pending"]
             again == [called EXCEPT !.flags = @ \ {Connectcalled}, !.tried = @ \ {"v4"}]
             wrong == [called EXCEPT !.tcp = "error"]
  <2>1. \/ a \in CheckConnection(there)
        \/ a = Answer(waits, NeedToWrite) \/ a = Answer(again, NeedToWrite)
        \/ a = Answer(wrong, OperationFailed)
    BY <1>4 DEF CallConnect
  <2>2. called = [c EXCEPT !.flags = c.flags \cup {Connectcalled},
                           !.tried = c.tried \cup {"v4"}]
    OBVIOUS
  <2> HIDE DEF called
  <2>3. /\ CallKeeps(c, called) /\ called.flags = c.flags \cup {Connectcalled}
        /\ called.tried = c.tried \cup {"v4"} /\ called.tcp = c.tcp
    BY <1>1, <2>2 DEF IsConn, CallKeeps
  <2>4. /\ there = [called EXCEPT !.tcp = "connected"] /\ waits = [called EXCEPT !.tcp = "pending"]
        /\ wrong = [called EXCEPT !.tcp = "error"]
    OBVIOUS
  <2>5. again = [called EXCEPT !.flags = called.flags \ {Connectcalled},
                               !.tried = called.tried \ {"v4"}]
    OBVIOUS
  <2> HIDE DEF there, waits, again, wrong
  <2>6. /\ CallKeeps(c, there) /\ there.flags = called.flags /\ there.tried = called.tried
        /\ there.tcp = "connected"
    BY <2>3, <2>4 DEF IsConn, CallKeeps
  <2>7. /\ CallKeeps(c, waits) /\ waits.flags = called.flags /\ waits.tried = called.tried
        /\ waits.tcp = "pending"
    BY <2>3, <2>4 DEF IsConn, CallKeeps
  <2>8. /\ CallKeeps(c, wrong) /\ wrong.flags = called.flags /\ wrong.tried = called.tried
        /\ wrong.tcp = "error"
    BY <2>3, <2>4 DEF IsConn, CallKeeps
  <2>9. /\ CallKeeps(c, again) /\ again.flags = called.flags \ {Connectcalled}
        /\ again.tcp = c.tcp
    BY <2>3, <2>5 DEF IsConn, CallKeeps
  <2>10. Knownconnected \notin c.flags
    BY <1>1, <1>4 DEF KnownInv
  <2>11. KnownInv(there) /\ KnownInv(waits) /\ KnownInv(wrong) /\ KnownInv(again)
    BY <2>3, <2>6, <2>7, <2>8, <2>9, <2>10, ReturnsDiffer DEF KnownInv
  <2>12. CASE a \in CheckConnection(there)
    <3>1. /\ CallKeeps(there, a.c) /\ KnownInv(a.c) /\ a.ret \in Returns
          /\ LeftOver(there) => LeftOver(a.c)
          /\ a.c.tcp # "pending"
          /\ a.ret = Success =>
                a.c.tcp = "connected" /\ (there.encrypt => a.c.tls \in {"done", "shut"})
          /\ a.ret = OperationFailed =>
                Connectcalled \notin a.c.flags \/ Notlsleft \in a.c.flags
      <4>1. IsConn(there) /\ Connectcalled \in there.flags
        BY <2>3, <2>6 DEF CallKeeps
      <4> QED
        BY <2>11, <2>12, <4>1, CheckAnswers
    <3>2. CallKeeps(c, a.c)
      BY <2>6, <3>1 DEF CallKeeps
    <3>3. LeftOver(a.c)
      BY <2>3, <2>6, <3>1 DEF LeftOver
    <3>4. CalledInv(a.c)
      BY <3>3 DEF CalledInv
    <3>5. there.encrypt = c.encrypt
      BY <2>6 DEF CallKeeps
    <3> QED
      BY <3>1, <3>2, <3>3, <3>4, <3>5
  <2>13. CASE a = Answer(waits, NeedToWrite)
    <3>1. a.c = waits /\ a.ret = NeedToWrite
      BY <2>13 DEF Answer
    <3>2. CalledInv(waits)
      BY <2>3, <2>7 DEF CalledInv, LeftOver, CallKeeps
    <3> QED
      BY <2>7, <2>11, <3>1, <3>2, ReturnsDiffer DEF Returns
  <2>14. CASE a = Answer(again, NeedToWrite)
    <3>1. a.c = again /\ a.ret = NeedToWrite
      BY <2>14 DEF Answer
    <3>2. CalledInv(again)
      BY <2>3, <2>9, ReturnsDiffer DEF CalledInv
    <3> QED
      BY <1>1, <2>9, <2>11, <3>1, <3>2, ReturnsDiffer DEF Returns
  <2>15. CASE a = Answer(wrong, OperationFailed)
    <3>1. a.c = wrong /\ a.ret = OperationFailed
      BY <2>15 DEF Answer
    <3>2. LeftOver(wrong)
      BY <2>3, <2>8 DEF LeftOver
    <3> QED
      BY <2>8, <2>11, <3>1, <3>2, ReturnsDiffer DEF Returns
  <2> QED
    BY <2>1, <2>12, <2>13, <2>14, <2>15
<1> QED
  BY <1>2, <1>3, <1>4 DEF ConnectClient, RecognisedAsIP

\* An error gives up the lookup and the socket.
LEMMA Raised ==
  ASSUME NEW c, IsConn(c), c.sock \in {"none", "open"},
         NEW error \in {OutOfMemory, ResourceError, TypeError},
         error = ResourceError => AllTried(c)
  PROVE  ConnInv(ReturnFuncError(c, error))
<1> DEFINE d == Abort(c)
           q == ReturnFuncError(c, error)
<1>1. d = [c EXCEPT !.job = IF c.job = "none" THEN c.job ELSE "abandoned",
                    !.sock = IF c.sock = "open" THEN "destroyed" ELSE c.sock]
  BY DEF Abort
<1>2. q = [d EXCEPT !.result = error, !.wait = "nothing"]
  BY DEF ReturnFuncError
<1> HIDE DEF d, q
<1>3. /\ IsConn(d) /\ d.job \in {"none", "abandoned"} /\ d.sock \in {"none", "destroyed"}
      /\ d.has = c.has /\ d.encrypt = c.encrypt /\ d.flags = c.flags /\ d.tcp = c.tcp
      /\ d.tried = c.tried /\ d.tls = c.tls /\ (d.sock # "none" => c.sock # "none")
  BY <1>1 DEF IsConn
<1>4. /\ IsConn(q) /\ q.job = d.job /\ q.sock = d.sock /\ q.has = d.has /\ q.flags = d.flags
      /\ q.tcp = d.tcp /\ q.tried = d.tried /\ q.result = error /\ q.wait = "nothing"
  BY <1>2, <1>3 DEF IsConn
<1>5. error # "none" /\ error # "stream"
  BY DEF OutOfMemory, ResourceError, TypeError
<1>6. q.result = ResourceError => AllTried(q)
  BY <1>3, <1>4 DEF AllTried, LeftOver
<1> QED
  BY <1>3, <1>4, <1>5, <1>6 DEF ConnInv, EndInv, q

\* What an answer leads to, when the connect did not fail.
LEMMA Outcomes ==
  ASSUME NEW c, InCall(c), NEW a, CallKeeps(c, a.c), KnownInv(a.c), a.ret \in Returns,
         a.ret # OperationFailed,
         a.c.tcp = "pending" => a.ret = NeedToWrite,
         a.ret \in {NeedToRead, NeedToWrite} => CalledInv(a.c),
         a.ret = Success =>
           a.c.tcp = "connected" /\ (c.encrypt => a.c.tls \in {"done", "shut"}),
         NEW x \in Outcome(a)
  PROVE  ConnInv(x)
<1> DEFINE d == a.c
<1>1. /\ IsConn(d) /\ d.result = "none" /\ d.sock = "open" /\ d.job = "done"
      /\ d.encrypt = c.encrypt /\ d.failedv6 \in BOOLEAN
  BY DEF InCall, CallKeeps
<1>2. CASE a.ret \in {NeedToRead, NeedToWrite}
  <2>1. x = SuspendFunc(d, a.ret)
    BY <1>2, ReturnsDiffer DEF Outcome
  <2>2. x = [d EXCEPT !.wait = a.ret]
    BY <2>1 DEF SuspendFunc
  <2> HIDE DEF d
  <2>3. /\ IsConn(x) /\ x.result = "none" /\ x.sock = "open" /\ x.job = "done"
        /\ x.flags = d.flags /\ x.tcp = d.tcp /\ x.tried = d.tried /\ x.has = d.has
        /\ x.failedv6 = d.failedv6 /\ x.wait = a.ret
    BY <1>1, <2>2 DEF IsConn
  <2>4. KnownInv(x) /\ CalledInv(x)
    <3>1. KnownInv(d) /\ CalledInv(d)
      BY <1>2 DEF d
    <3> QED
      BY <2>3, <3>1 DEF KnownInv, CalledInv, LeftOver
  <2>5. x.tcp = "pending" => x.wait = NeedToWrite
    BY <2>3 DEF d
  <2> QED
    BY <1>1, <2>3, <2>4, <2>5 DEF ConnInv, WaitInv
<1>3. CASE x = ReturnFuncError(d, OutOfMemory)
  <2>1. ConnInv(ReturnFuncError(d, OutOfMemory))
    <3>1. OutOfMemory # ResourceError
      BY DEF OutOfMemory, ResourceError
    <3> HIDE DEF d
    <3> QED
      BY <1>1, <3>1, Raised
  <2> QED
    BY <1>3, <2>1
<1>4. CASE a.ret = OutOfMemory
  BY <1>3, <1>4, ReturnsDiffer DEF Outcome
<1>5. CASE a.ret = Success
  <2>1. \/ x = [d EXCEPT !.job = "abandoned", !.sock = "stream", !.result = "stream",
                         !.wait = "nothing"]
        \/ x = ReturnFuncError(d, OutOfMemory)
    BY <1>5, ReturnsDiffer DEF Outcome, ReturnStream
  <2>2. CASE x = [d EXCEPT !.job = "abandoned", !.sock = "stream", !.result = "stream",
                           !.wait = "nothing"]
    <3>1. d.tcp = "connected" /\ (d.encrypt => d.tls \in {"done", "shut"})
      BY <1>1, <1>5
    <3> HIDE DEF d
    <3>2. /\ IsConn(x) /\ x.job = "abandoned" /\ x.sock = "stream" /\ x.result = "stream"
          /\ x.wait = "nothing" /\ x.tcp = d.tcp /\ x.tls = d.tls /\ x.encrypt = d.encrypt
      BY <1>1, <2>2 DEF IsConn
    <3>3. x.result # ResourceError
      BY <3>2 DEF ResourceError
    <3> QED
      BY <3>1, <3>2, <3>3 DEF ConnInv, EndInv
  <2> QED
    BY <1>3, <2>1, <2>2
<1> QED
  BY <1>2, <1>4, <1>5 DEF Returns

LEMMA V4Connects ==
  ASSUME NEW c, InCall(c), c.failedv6 \/ "v6" \notin c.has, NEW x \in ConnectV4(c)
  PROVE  ConnInv(x)
<1>1. ResourceError \in {OutOfMemory, ResourceError, TypeError} /\ "open" \in {"none", "open"}
  OBVIOUS
<1>2. CASE "v4" \in c.has
  <2>1. PICK a \in ConnectClient(c, "v4") :
          x \in IF a.ret = OperationFailed
                THEN {ReturnFuncError([a.c EXCEPT !.failedv6 = TRUE], ResourceError)}
                ELSE Outcome(a)
    BY <1>2 DEF ConnectV4
  <2>2. /\ CallKeeps(c, a.c) /\ KnownInv(a.c) /\ a.ret \in Returns
        /\ a.c.tcp = "pending" => a.ret = NeedToWrite
        /\ a.ret \in {NeedToRead, NeedToWrite} => CalledInv(a.c)
        /\ a.ret = Success =>
              a.c.tcp = "connected" /\ (c.encrypt => a.c.tls \in {"done", "shut"})
        /\ a.ret = OperationFailed => LeftOver(a.c)
    BY ClientAnswers
  <2>3. CASE a.ret = OperationFailed
    <3> DEFINE d == [a.c EXCEPT !.failedv6 = TRUE]
    <3>1. x = ReturnFuncError(d, ResourceError)
      BY <2>1, <2>3
    <3>2. d = [a.c EXCEPT !.failedv6 = TRUE]
      OBVIOUS
    <3> HIDE DEF d
    <3>3. /\ IsConn(d) /\ d.sock = "open" /\ d.has = c.has /\ d.tcp = a.c.tcp
          /\ d.flags = a.c.flags /\ d.tried = a.c.tried
      BY <2>2, <3>2 DEF CallKeeps, IsConn, InCall
    <3>4. AllTried(d)
      <4>1. a.c.tcp # "pending"
        BY <2>2, <2>3, ReturnsDiffer
      <4>2. LeftOver(a.c)
        BY <2>2, <2>3
      <4> QED
        BY <3>3, <4>1, <4>2 DEF AllTried, LeftOver
    <3>5. ConnInv(ReturnFuncError(d, ResourceError))
      BY <1>1, <3>3, <3>4, Raised
    <3> QED
      BY <3>1, <3>5
  <2>4. CASE a.ret # OperationFailed
    <3>1. x \in Outcome(a)
      BY <2>1, <2>4
    <3> QED
      BY <2>2, <2>4, <3>1, Outcomes, Zenon
  <2> QED
    BY <2>3, <2>4
<1>3. CASE "v4" \notin c.has
  <2>1. x = ReturnFuncError(c, ResourceError)
    BY <1>3 DEF ConnectV4
  <2>2. IsConn(c) /\ c.sock = "open" /\ AllTried(c)
    BY <1>3 DEF InCall, AllTried
  <2> QED
    BY <1>1, <2>1, <2>2, Raised
<1> QED
  BY <1>2, <1>3

LEMMA V6Connects ==
  ASSUME NEW c, InCall(c), NEW x \in ConnectV6(c)
  PROVE  ConnInv(x)
<1>1. CASE ~(~c.failedv6 /\ "v6" \in c.has)
  <2>1. x \in ConnectV4(c) /\ (c.failedv6 \/ "v6" \notin c.has)
    BY <1>1 DEF ConnectV6
  <2> QED
    BY <2>1, V4Connects
<1>2. CASE ~c.failedv6 /\ "v6" \in c.has
  <2>1. \A a \in ConnectClient(c, "v6") : a.c = c /\ a.ret = OperationFailed
    BY DEF ConnectClient, RecognisedAsIP, Answer
  <2>2. x \in IF "v4" \notin c.has THEN {ReturnFuncError(c, ResourceError)}
               ELSE ConnectV4([c EXCEPT !.failedv6 = TRUE])
    BY <1>2, <2>1 DEF ConnectV6
  <2>3. CASE "v4" \notin c.has
    <3>1. x = ReturnFuncError(c, ResourceError)
      BY <2>2, <2>3
    <3>2. IsConn(c) /\ c.sock = "open" /\ AllTried(c)
      BY <2>3 DEF InCall, AllTried
    <3>3. ResourceError \in {OutOfMemory, ResourceError, TypeError} /\ "open" \in {"none", "open"}
      OBVIOUS
    <3> QED
      BY <3>1, <3>2, <3>3, Raised
  <2>4. CASE "v4" \in c.has
    <3> DEFINE d == [c EXCEPT !.failedv6 = TRUE]
    <3>1. x \in ConnectV4(d) /\ d = [c EXCEPT !.failedv6 = TRUE]
      BY <2>2, <2>4
    <3> HIDE DEF d
    <3>2. /\ IsConn(d) /\ d.sock = "open" /\ d.has = c.has /\ d.tcp = c.tcp
          /\ d.flags = c.flags /\ d.tried = c.tried /\ d.result = "none" /\ d.job = "done"
          /\ d.failedv6 = TRUE
      BY <3>1 DEF IsConn, InCall
    <3>3. InCall(d)
      BY <3>2 DEF InCall, KnownInv, CalledInv, LeftOver
    <3> QED
      BY <3>1, <3>2, <3>3, V4Connects
  <2> QED
    BY <2>3, <2>4
<1> QED
  BY <1>1, <1>2

LEMMA ConnectKept == ConnInv(conn) /\ [ConnectNext]_conn => ConnInv(conn')
<1> SUFFICES ASSUME ConnInv(conn), [ConnectNext]_conn PROVE ConnInv(conn')
  OBVIOUS
<1> DEFINE q == conn'
<1>1. IsConn(conn)
  BY DEF ConnInv
<1>2. CASE RequestLookup
  <2>1. conn.job = "none" /\ WaitInv(conn) /\ conn.result = "none"
    BY <1>2 DEF RequestLookup, ConnInv
  <2>2. CASE q = [conn EXCEPT !.job = "running", !.wait = "job"]
    <3> HIDE DEF q
    <3>1. /\ IsConn(q) /\ q.job = "running" /\ q.wait = "job" /\ q.result = "none"
          /\ q.sock = conn.sock /\ q.flags = conn.flags /\ q.tcp = conn.tcp
          /\ q.tried = conn.tried /\ q.has = conn.has /\ q.failedv6 = conn.failedv6
      BY <1>1, <2>1, <2>2 DEF IsConn
    <3>2. KnownInv(q) /\ CalledInv(q) /\ q.tcp = "unbound" /\ q.sock = "none"
      BY <2>1, <3>1 DEF WaitInv, KnownInv, CalledInv, LeftOver
    <3>3. q.failedv6 \in BOOLEAN /\ q.wait \notin {NeedToRead, NeedToWrite}
      BY <2>1, <3>1 DEF WaitInv, NeedToRead, NeedToWrite
    <3>4. ConnInv(q)
      BY <3>1, <3>2, <3>3 DEF ConnInv, WaitInv
    <3> QED
      BY <3>4 DEF q
  <2>3. ASSUME NEW error \in {TypeError, OutOfMemory}, q = ReturnFuncError(conn, error)
        PROVE  ConnInv(q)
    <3>1. error \in {OutOfMemory, ResourceError, TypeError} /\ error # ResourceError
      BY DEF OutOfMemory, ResourceError, TypeError
    <3>2. conn.sock \in {"none", "open"}
      BY <2>1 DEF WaitInv
    <3>3. ConnInv(ReturnFuncError(conn, error))
      BY <1>1, <3>1, <3>2, Raised
    <3> QED
      BY <2>3, <3>3
  <2> QED
    BY <1>2, <2>2, <2>3 DEF RequestLookup
<1>3. CASE CallAgain
  <2>1. /\ WaitInv(conn) /\ conn.result = "none" /\ conn.tcp # "pending"
        /\ conn.job \in {"done", "failed"} /\ conn.sock \in {"none", "open"}
    <3>1. WaitInv(conn) /\ conn.result = "none"
      BY <1>3 DEF CallAgain, ConnInv
    <3>2. \/ conn.wait = "job" /\ conn.job \in {"done", "failed"}
          \/ conn.wait = NeedToRead
          \/ conn.wait = NeedToWrite /\ conn.tcp # "pending"
      BY <1>3 DEF CallAgain, NeedToRead, NeedToWrite
    <3>3. "job" # NeedToWrite /\ NeedToRead # NeedToWrite
      BY DEF NeedToRead, NeedToWrite
    <3> QED
      BY <3>1, <3>2, <3>3 DEF WaitInv
  <2>2. CASE conn.job = "failed"
    <3>1. q = ReturnFuncError(conn, ResourceError) /\ AllTried(conn)
      BY <1>3, <2>1, <2>2 DEF CallAgain, WaitInv, AllTried
    <3>2. ResourceError \in {OutOfMemory, ResourceError, TypeError}
      OBVIOUS
    <3>3. ConnInv(ReturnFuncError(conn, ResourceError))
      BY <1>1, <2>1, <3>1, <3>2, Raised
    <3> QED
      BY <3>1, <3>3
  <2>3. CASE conn.job = "done"
    <3> DEFINE d == [conn EXCEPT !.sock = "open"]
    <3>1. /\ d = [conn EXCEPT !.sock = "open"]
          /\ q \in OpenSocket(conn)
      BY <1>3, <2>3 DEF CallAgain
    <3>2. CASE conn.sock = "open"
      <4>1. InCall(conn)
        BY <1>1, <2>1, <2>3, <3>2 DEF WaitInv, InCall
      <4>2. q \in ConnectV6(conn)
        BY <3>1, <3>2 DEF OpenSocket
      <4> QED
        BY <4>1, <4>2, V6Connects
    <3>3. CASE conn.sock # "open"
      <4>1. q \in ConnectV6(d) \/ q = ReturnFuncError(conn, OutOfMemory)
        BY <3>1, <3>3 DEF OpenSocket
      <4> HIDE DEF d
      <4>2. /\ IsConn(d) /\ d.sock = "open" /\ d.job = conn.job /\ d.result = conn.result
            /\ d.flags = conn.flags /\ d.tcp = conn.tcp /\ d.tried = conn.tried
            /\ d.has = conn.has /\ d.failedv6 = conn.failedv6
        BY <1>1, <3>1 DEF IsConn
      <4>3. InCall(d)
        BY <2>1, <2>3, <4>2 DEF WaitInv, InCall, KnownInv, CalledInv, LeftOver
      <4>4. CASE q \in ConnectV6(d)
        BY <4>3, <4>4, V6Connects
      <4>5. ConnInv(ReturnFuncError(conn, OutOfMemory))
        <5>1. OutOfMemory \in {OutOfMemory, ResourceError, TypeError} /\ OutOfMemory # ResourceError
          BY DEF OutOfMemory, ResourceError
        <5> QED
          BY <1>1, <2>1, <5>1, Raised
      <4> QED
        BY <4>1, <4>4, <4>5
    <3> QED
      BY <3>2, <3>3
  <2> QED
    BY <2>1, <2>2, <2>3
<1>4. CASE LookupEnds
  <2>1. WaitInv(conn) /\ conn.result = "none" /\ conn.job = "running"
    BY <1>4 DEF LookupEnds, ConnInv, EndInv
  <2>2. PICK how \in {"done", "failed"} : q = [conn EXCEPT !.job = how]
    BY <1>4 DEF LookupEnds
  <2> HIDE DEF q
  <2>3. /\ IsConn(q) /\ q.job = how /\ q.wait = conn.wait /\ q.result = "none"
        /\ q.sock = conn.sock /\ q.flags = conn.flags /\ q.tcp = conn.tcp
        /\ q.tried = conn.tried /\ q.has = conn.has /\ q.failedv6 = conn.failedv6
    BY <1>1, <2>1, <2>2 DEF IsConn
  <2>4. KnownInv(q) /\ CalledInv(q)
    BY <2>1, <2>3 DEF WaitInv, KnownInv, CalledInv, LeftOver
  <2>5. ConnInv(q)
    BY <2>1, <2>3, <2>4 DEF ConnInv, WaitInv
  <2> QED
    BY <2>5 DEF q
<1>5. CASE NetworkAnswers
  <2>1. PICK how \in {"connected", "refused"} : q = [conn EXCEPT !.tcp = how]
    BY <1>5 DEF NetworkAnswers
  <2>2. conn.tcp = "pending"
    BY <1>5 DEF NetworkAnswers
  <2> HIDE DEF q
  <2>3. /\ IsConn(q) /\ q.job = conn.job /\ q.wait = conn.wait /\ q.result = conn.result
        /\ q.sock = conn.sock /\ q.flags = conn.flags /\ q.tcp = how /\ q.encrypt = conn.encrypt
        /\ q.tried = conn.tried /\ q.has = conn.has /\ q.failedv6 = conn.failedv6
        /\ q.tls = conn.tls
    BY <1>1, <2>1 DEF IsConn
  <2>4. CASE conn.result = "none"
    <3>1. WaitInv(conn)
      BY <2>4 DEF ConnInv
    <3>2. KnownInv(q) /\ CalledInv(q)
      BY <2>2, <2>3, <3>1 DEF WaitInv, KnownInv, CalledInv, LeftOver
    <3>3. ConnInv(q)
      BY <2>2, <2>3, <2>4, <3>1, <3>2 DEF ConnInv, WaitInv
    <3> QED
      BY <3>3 DEF q
  <2>5. CASE conn.result # "none"
    <3>1. EndInv(conn)
      BY <2>5 DEF ConnInv
    <3>2. conn.result # ResourceError /\ conn.result # "stream"
      BY <2>2, <3>1 DEF EndInv, AllTried
    <3>3. ConnInv(q)
      BY <2>3, <2>5, <3>1, <3>2 DEF ConnInv, EndInv
    <3> QED
      BY <3>3 DEF q
  <2> QED
    BY <2>4, <2>5 DEF q
<1>6. CASE UNCHANGED conn
  BY <1>6
<1> QED
  BY <1>2, <1>3, <1>4, <1>5, <1>6 DEF ConnectNext

\* However the system answers each call: net.connect ends with a stream on a connection
\* that is there or with its socket closed and its lookup given up, and it does not
\* fail before an IPv4 address the host has was connected to; an encrypted stream has its
\* handshake done unless the other side shut it down (net.c:310-635, sockets.c:464-770).
THEOREM ConnectLeavesNothing == ConnectSpec => []ConnectsOrCleansUp
<1>1. ConnectInit => ConnInv(conn)
  <2> SUFFICES ASSUME NEW has \in SUBSET {"v6", "v4"}, NEW encrypt \in BOOLEAN,
                      conn = ConnOf(has, encrypt)
               PROVE  ConnInv(conn)
    BY DEF ConnectInit
  <2>1. /\ IsConn(conn) /\ conn.result = "none" /\ conn.flags = {} /\ conn.sock = "none"
        /\ conn.job = "none" /\ conn.tcp = "unbound" /\ conn.wait = "nothing"
        /\ conn.failedv6 = FALSE
    BY DEF ConnOf, IsConn
  <2> QED
    BY <2>1 DEF ConnInv, WaitInv, KnownInv, CalledInv, NeedToRead, NeedToWrite
<1>2. ConnInv(conn) /\ [ConnectNext]_conn => ConnInv(conn)'
  BY ConnectKept
<1>3. ConnInv(conn) => ConnectsOrCleansUp
  <2> SUFFICES ASSUME ConnInv(conn) PROVE ConnectsOrCleansUp
    OBVIOUS
  <2>1. CASE conn.result = "none"
    <3>1. ResourceError # "none"
      BY DEF ResourceError
    <3> QED
      BY <2>1, <3>1 DEF ConnInv, WaitInv, ConnectsOrCleansUp
  <2>2. CASE conn.result # "none"
    <3>1. EndInv(conn) /\ "nothing" \notin {NeedToRead, NeedToWrite}
      BY <2>2 DEF ConnInv, NeedToRead, NeedToWrite
    <3> QED
      BY <2>2, <3>1 DEF EndInv, AllTried, LeftOver, HandshakeShut, ConnectsOrCleansUp
  <2> QED
    BY <2>1, <2>2
<1> QED
  BY <1>1, <1>2, <1>3, PTL DEF ConnectSpec
=============================================================================
