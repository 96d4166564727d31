----------------------------- MODULE SocketWaits -----------------------------
(***************************************************************************)
(* The set of sockets vm threads wait for (vmschedule.c), between the      *)
(* supervisor, which polls it while it holds the lock of the set, and the  *)
(* workers, which add and remove sockets while they hold the lock of the   *)
(* workers.  A worker takes the PRE lock and sets an event the supervisor  *)
(* polls as well, so that the set is let go and not taken back at once.    *)
(*                                                                         *)
(* Nobody ever receives the byte of that event.  The vm threads have one   *)
(* socket each, as net.connect has; the workers' own sleep is left to      *)
(* VmSchedule, here they may look at a thread at any time.  The growth of  *)
(* a set past its first twelve entries is left out.                        *)
(***************************************************************************)
EXTENDS Integers, Sequences, SequencesExt, FiniteSets

CONSTANT Waiters  \* vm threads that wait for sockets

VARIABLE socks
\* worker  of worker_mutex, pre of the PRE lock, list of the list lock: who holds it
\* su      where the supervisor is    byte   the unlock event has a byte in its socket
\* at      where a vm thread is       kind   what it waits for: read, write or nothing
\* ready   sockets the system would report    set   the entries: [fd, kind]

Supervisor == "supervisor"
Free == "free"
Async == "asyncfd"
Unlock == "unlockfd"
Entry(fd, kind) == [fd |-> fd, kind |-> kind]

ASSUME WaitersAssumption == Waiters \cap {Free, Async, Unlock} = {}

\* ExecuteProgram adds the sockets that wake the supervisor.
SocksInit ==
    socks = [worker |-> Free, pre |-> Free, list |-> Free, su |-> "timers", byte |-> FALSE,
             at |-> [t \in Waiters |-> "runs"], kind |-> [t \in Waiters |-> "nothing"],
             ready |-> {}, set |-> <<Entry(Async, "read"), Entry(Unlock, "read")>>]

-----------------------------------------------------------------------------
(* Socket sets *)

\* sockset_Add
SetAdded(s, e) == [s EXCEPT !.set = Append(@, e)]

\* sockset_RemoveWithMask: the first entry of the socket, with WAITALL all of it.
SetRemoved(s, fd) ==
    LET here == {i \in DOMAIN s.set : s.set[i].fd = fd}
    IN  IF here = {} THEN s
        ELSE [s EXCEPT !.set = RemoveAt(@, CHOOSE i \in here : \A j \in here : i <= j)]

\* sockset_Wait and sockset_GetResult: the entries with an event.
Events(s) == {e \in Range(s.set) : IF e.fd = Unlock THEN s.byte ELSE e.fd \in s.ready}

-----------------------------------------------------------------------------
(* A worker that changes what its vm thread waits for (SetSuspendState). *)

\* The thread begins to wait, or a worker finds its socket ready and resumes it; both
\* hold the lock of the workers throughout.
Suspends(t) ==
    /\ socks.at[t] = "runs" /\ socks.worker = Free
    /\ \E kind \in {"read", "write"} :
         socks' = [socks EXCEPT !.at[t] = "adds", !.kind[t] = kind, !.worker = t]

CanResume(t) == t \in socks.ready
Resumes(t) ==
    /\ socks.at[t] = "waits" /\ socks.worker = Free /\ CanResume(t)
    /\ socks' = [socks EXCEPT !.at[t] = "removes", !.worker = t]

LockPre(t) ==
    /\ socks.at[t] \in {"adds", "removes"} /\ socks.pre = Free
    /\ socks' = [socks EXCEPT !.pre = t]

\* A mutant: the supervisor sleeps on.
SetNoEvent(s) == s

SetUnlockEvent(s) == [s EXCEPT !.byte = TRUE]
PressUnlock(t) ==
    /\ socks.pre = t /\ socks.at[t] \in {"adds", "removes"}
    /\ socks' = [SetUnlockEvent(socks) EXCEPT !.at[t] = IF @ = "adds" THEN "adding" ELSE "removing"]

\* _vmschedule_RegisterSocketForWaiting and its counterpart, with the lock of the list.
ChangeList(t) ==
    /\ socks.list = Free
    /\ \/ /\ socks.at[t] = "adding"
          /\ socks' = [SetAdded(socks, Entry(t, socks.kind[t])) EXCEPT
                         !.pre = Free, !.worker = Free, !.at[t] = "waits"]
       \/ /\ socks.at[t] = "removing"
          /\ socks' = [SetRemoved(socks, t) EXCEPT !.pre = Free, !.worker = Free,
                         !.at[t] = "runs", !.kind[t] = "nothing", !.ready = @ \ {t}]

-----------------------------------------------------------------------------
(* The supervisor *)

\* Its timers are found with the lock of the workers.
LookAtTimers ==
    /\ socks.su = "timers" /\ socks.worker = Free
    /\ socks' = [socks EXCEPT !.su = "pre"]

\* The PRE lock is taken and let go at once.
PassPre ==
    /\ socks.su = "pre" /\ socks.pre = Free
    /\ socks' = [socks EXCEPT !.su = "lock"]

LockList ==
    /\ socks.su = "lock" /\ socks.list = Free
    /\ socks' = [socks EXCEPT !.su = "polls", !.list = Supervisor]

\* The poll ends with events or when its time is over.
PollEnds ==
    /\ socks.su = "polls"
    /\ socks' = [socks EXCEPT !.su = "wakes", !.list = Free]

\* The event of async jobs is flushed and all workers are woken.
WakeWorkers ==
    /\ socks.su = "wakes"
    /\ socks' = [socks EXCEPT !.su = "timers", !.ready = @ \ {Async}]

SystemReports(fd) ==
    /\ fd \in {Async} \cup {t \in Waiters : socks.at[t] = "waits"}
    /\ socks' = [socks EXCEPT !.ready = @ \cup {fd}]

SocksNext ==
    \/ \E t \in Waiters :
         Suspends(t) \/ Resumes(t) \/ LockPre(t) \/ PressUnlock(t) \/ ChangeList(t)
    \/ LookAtTimers \/ PassPre \/ LockList \/ PollEnds \/ WakeWorkers
    \/ \E fd \in Waiters \cup {Async} : SystemReports(fd)

SocksSpec == SocksInit /\ [][SocksNext]_socks

-----------------------------------------------------------------------------
\* While no worker is in between, the supervisor polls exactly the sockets that are
\* waited for and the two that wake it: none is missed, and none is left behind that
\* another connection may get again.  A worker that needs the set never has to wait
\* until the time of the poll is over (vmschedule.c:40-82, 660-785, vmexec.c:48-124).
PollsWhatIsWaitedFor ==
    /\ socks.worker = Free =>
         /\ Range(socks.set) = {Entry(Async, "read"), Entry(Unlock, "read")}
              \cup {Entry(t, socks.kind[t]) : t \in {w \in Waiters : socks.at[w] = "waits"}}
         /\ Len(socks.set) = Cardinality(Range(socks.set))
    /\ \A t \in Waiters : socks.at[t] \in {"adding", "removing"} /\ socks.su = "polls" =>
         Events(socks) # {}
=============================================================================
