---------------------------- MODULE AsyncSysJob ----------------------------
(***************************************************************************)
(* Blocking system calls done for the virtual machine by OS threads of     *)
(* their own (horse64/asyncsysjob.c), and net.connect, which uses them to  *)
(* look up a host (horse64/corelib/net.c).                                 *)
(*                                                                         *)
(* A job is a slot of a pool allocator.  The list of jobs, the flags of a  *)
(* job and the pool are under asyncsysjob_schedule_lock; only RequestAsync *)
(* waits for something while it holds the lock, so only its critical       *)
(* section is split into steps.  The job workers' wake-up events are       *)
(* modelled with their bytes, which pile up while a worker is busy.        *)
(***************************************************************************)
EXTENDS Integers, FiniteSets, Sequences

CONSTANTS
    Client,           (* the vm threads that call net.connect               *)
    Slot,             (* the slots of the job pool                          *)
    WorkerCount,      (* ASYNCSYSJOB_WORKER_COUNT                           *)
    Capacity,         (* bytes the socket pair of an event holds            *)
    MaxCalls,         (* bound: calls of net.connect, of all vm threads     *)
    SpawnMayFail,     (* creating some of the job workers may fail          *)
    RequestMayFail    (* memory may run out, or no worker may be created    *)

ASSUME JobAssumption ==
    /\ WorkerCount \in Nat \ {0}
    /\ Capacity \in Nat \ {0}
    /\ MaxCalls \in Nat
    /\ SpawnMayFail \in BOOLEAN
    /\ RequestMayFail \in BOOLEAN

JobWorker == 0 .. (WorkerCount - 1)
NoJob     == "nojob"
NoOne     == "noone"

ASSUME NoneAssumption == NoJob \notin Slot /\ NoOne \notin Client

VARIABLES
    lock,     \* the client that holds asyncsysjob_schedule_lock
    alloc,    \* the slots in use, according to the pool allocator
    job,      \* job[s]: what is in the memory of slot s
    jobs,     \* the list of jobs
    started,  \* async_worker_count > 0
    wpc,      \* wpc[w]: where asyncsysjobworker_Do of worker w is
    mine,     \* mine[w]: ourjob
    flag,     \* flag[w]: async_worker_event[w] is set
    bytes,    \* bytes[w]: the bytes in its socket
    cpc,      \* cpc[c]: where the call of c is
    ptr,      \* ptr[c]: resolve_job of c
    next,     \* next[c]: the worker whose event RequestAsync of c sets
    calls     \* the calls so far

jobVars    == <<alloc, job, jobs>>
workerVars == <<wpc, mine>>
eventVars  == <<flag, bytes>>
clientVars == <<cpc, ptr, next, calls>>

vars == <<lock, jobVars, started, workerVars, eventVars, clientVars>>

JobFields == [inprogress : BOOLEAN, done : BOOLEAN, failed : BOOLEAN,
              abandoned : BOOLEAN, owner : Client \cup {NoOne}]

Zeroed == [inprogress |-> FALSE, done |-> FALSE, failed |-> FALSE,
           abandoned |-> FALSE, owner |-> NoOne]

TypeOK ==
    /\ lock \in Client \cup {NoOne}
    /\ alloc \subseteq Slot
    /\ job \in [Slot -> JobFields]
    /\ jobs \in Seq(Slot)
    /\ started \in BOOLEAN
    /\ wpc \in [JobWorker -> {"unborn", "scan", "lookup", "announce",
                              "check", "poll", "recheck"}]
    /\ mine \in [JobWorker -> Slot \cup {NoJob}]
    /\ flag \in [JobWorker -> BOOLEAN]
    /\ bytes \in [JobWorker -> 0 .. Capacity]
    /\ cpc \in [Client -> {"run", "request", "set", "send", "wait", "check",
                           "use", "free", "abandon"}]
    /\ ptr \in [Client -> Slot \cup {NoJob}]
    /\ next \in [Client -> 0 .. WorkerCount]
    /\ calls \in 0 .. MaxCalls

Init ==
    /\ lock = NoOne
    /\ alloc = {}
    /\ job = [s \in Slot |-> Zeroed]
    /\ jobs = <<>>
    /\ started = FALSE
    /\ wpc = [w \in JobWorker |-> "unborn"]
    /\ mine = [w \in JobWorker |-> NoJob]
    /\ flag = [w \in JobWorker |-> FALSE]
    /\ bytes = [w \in JobWorker |-> 0]
    /\ cpc = [c \in Client |-> "run"]
    /\ ptr = [c \in Client |-> NoJob]
    /\ next = [c \in Client |-> 0]
    /\ calls = 0

Listed(s) == \E i \in DOMAIN jobs : jobs[i] = s

-----------------------------------------------------------------------------
(* net.connect of client c, and the asyncjob_ functions it calls.          *)

Goto(c, place) == cpc' = [cpc EXCEPT ![c] = place]

(* asyncjob_CreateEmpty, and the fields of the job filled in.              *)
CreateEmpty(c) ==
    /\ cpc[c] = "run"
    /\ calls < MaxCalls
    /\ lock = NoOne
    /\ \E s \in Slot \ alloc :
         /\ alloc' = alloc \cup {s}
         /\ job' = [job EXCEPT ![s] = Zeroed]
         /\ ptr' = [ptr EXCEPT ![c] = s]
    /\ calls' = calls + 1
    /\ Goto(c, "request")
    /\ UNCHANGED <<lock, jobs, started, workerVars, eventVars, next>>

(* It returns NULL: net.connect raises an error, and there is no job.      *)
CreateFails(c) ==
    /\ cpc[c] = "run"
    /\ RequestMayFail
    /\ calls < MaxCalls
    /\ calls' = calls + 1
    /\ UNCHANGED <<lock, jobVars, started, workerVars, eventVars, cpc,
                   ptr, next>>

(* asyncjob_RequestAsync.  The first request that succeeds starts the      *)
(* workers, worker 0 at least; "Got one worker running" is enough.         *)
Append1(c) ==
    /\ job' = [job EXCEPT ![ptr[c]].owner = c]
    /\ jobs' = Append(jobs, ptr[c])

RequestFirst(c) ==
    /\ cpc[c] = "request"
    /\ lock = NoOne
    /\ ~started
    /\ Append1(c)
    /\ started' = TRUE
    /\ \E W \in SUBSET JobWorker :
         /\ 0 \in W
         /\ SpawnMayFail \/ W = JobWorker
         /\ wpc' = [w \in JobWorker |-> IF w \in W THEN "scan" ELSE "unborn"]
    /\ Goto(c, "wait")
    /\ UNCHANGED <<lock, alloc, mine, eventVars, ptr, next, calls>>

(* Every later one sets the events of all workers, the lock in its hands.  *)
RequestNext(c) ==
    /\ cpc[c] = "request"
    /\ lock = NoOne
    /\ started
    /\ Append1(c)
    /\ lock' = c
    /\ next' = [next EXCEPT ![c] = 0]
    /\ Goto(c, "set")
    /\ UNCHANGED <<alloc, started, workerVars, eventVars, ptr, calls>>

SetEvent(c) ==
    /\ cpc[c] = "set"
    /\ next[c] < WorkerCount
    /\ flag' = [flag EXCEPT ![next[c]] = TRUE]
    /\ Goto(c, "send")
    /\ UNCHANGED <<lock, jobVars, started, workerVars, bytes, ptr, next,
                   calls>>

SendByte(c) ==
    /\ cpc[c] = "send"
    /\ bytes[next[c]] < Capacity
    /\ bytes' = [bytes EXCEPT ![next[c]] = @ + 1]
    /\ next' = [next EXCEPT ![c] = @ + 1]
    /\ Goto(c, "set")
    /\ UNCHANGED <<lock, jobVars, started, workerVars, flag, ptr, calls>>

Requested(c) ==
    /\ cpc[c] = "set"
    /\ next[c] = WorkerCount
    /\ lock' = NoOne
    /\ Goto(c, "wait")
    /\ UNCHANGED <<jobVars, started, workerVars, eventVars, ptr, next,
                   calls>>

(* No memory for the host or the list, or no worker at all: return 0.      *)
RequestFails(c) ==
    /\ cpc[c] = "request"
    /\ RequestMayFail
    /\ lock = NoOne
    /\ Goto(c, "free")
    /\ UNCHANGED <<lock, jobVars, started, workerVars, eventVars, ptr,
                   next, calls>>

(* asyncjob_Free: resolve_job keeps its value.  (Nobody reads the memory of*)
(* a free slot, so the model zeroes it here and not when it is used again.)*)
FreeJob(c) ==
    /\ cpc[c] = "free"
    /\ lock = NoOne
    /\ alloc' = alloc \ {ptr[c]}
    /\ job' = [job EXCEPT ![ptr[c]] = Zeroed]
    /\ Goto(c, "abandon")
    /\ UNCHANGED <<lock, jobs, started, workerVars, eventVars, ptr,
                   next, calls>>

(* The scheduler reads job->done without the lock and resumes the thread.  *)
Resume(c) ==
    /\ cpc[c] = "wait"
    /\ job[ptr[c]].done
    /\ Goto(c, "check")
    /\ UNCHANGED <<lock, jobVars, started, workerVars, eventVars, ptr,
                   next, calls>>

(* asyncjob_IsDone                                                         *)
IsDone(c) ==
    /\ cpc[c] = "check"
    /\ lock = NoOne
    /\ Goto(c, IF job[ptr[c]].done THEN "use" ELSE "wait")
    /\ UNCHANGED <<lock, jobVars, started, workerVars, eventVars, ptr,
                   next, calls>>

(* The lookup failed; or a connection is made, or not, over several socket *)
(* waits, with the addresses in the job's memory.                          *)
UseResult(c) ==
    /\ cpc[c] = "use"
    /\ Goto(c, "abandon")
    /\ UNCHANGED <<lock, jobVars, started, workerVars, eventVars, ptr,
                   next, calls>>

(* asyncjob_AbandonJob, by net.connect itself or by _netlib_connect_abort. *)
AbandonJob(c) ==
    /\ cpc[c] = "abandon"
    /\ lock = NoOne
    /\ job' = [job EXCEPT ![ptr[c]].abandoned = TRUE]
    /\ ptr' = [ptr EXCEPT ![c] = NoJob]
    /\ Goto(c, "run")
    /\ UNCHANGED <<lock, alloc, jobs, started, workerVars, eventVars,
                   next, calls>>

-----------------------------------------------------------------------------
(* asyncsysjobworker_Do                                                    *)

Move(w, place) == wpc' = [wpc EXCEPT ![w] = place]

Dead(s)     == job[s].abandoned /\ ~job[s].inprogress
TakeableByMany(s) == ~job[s].done /\ ~job[s].abandoned        \* mutant
TakeableAgain(s)  == ~job[s].inprogress /\ ~job[s].abandoned  \* mutant
Takeable(s) == ~job[s].inprogress /\ ~job[s].done /\ ~job[s].abandoned

(* A list without the items at some of its positions, in the same order.   *)
Without(list, gone) ==
    LET kept[i \in 0 .. Len(list)] ==
          IF i = 0 THEN <<>>
          ELSE IF i \in gone THEN kept[i - 1] ELSE Append(kept[i - 1], list[i])
    IN kept[Len(list)]

(* The scan frees the abandoned jobs it passes, and takes the first job    *)
(* that can be taken, the one after the first k.                           *)
Scan(w) ==
    /\ wpc[w] = "scan"
    /\ lock = NoOne
    /\ \E k \in 0 .. Len(jobs) :
         LET gone  == {i \in 1 .. k : Dead(jobs[i])}
             freed == {jobs[i] : i \in gone}
             swept == [s \in Slot |-> IF s \in freed THEN Zeroed ELSE job[s]]
         IN
         /\ \A i \in 1 .. k : ~Takeable(jobs[i])
         /\ alloc' = alloc \ freed
         /\ jobs' = Without(jobs, gone)
         /\ \/ /\ k < Len(jobs)
               /\ Takeable(jobs[k + 1])
               /\ job' = [swept EXCEPT ![jobs[k + 1]].inprogress = TRUE]
               /\ mine' = [mine EXCEPT ![w] = jobs[k + 1]]
               /\ Move(w, "lookup")
            \/ /\ k = Len(jobs)
               /\ job' = swept
               /\ Move(w, "check")
               /\ UNCHANGED mine
    /\ UNCHANGED <<lock, started, eventVars, clientVars>>

(* The lookup is over, one way or the other.                               *)
MarkDoneSilently(w) ==                  \* mutant: announces nothing
    /\ wpc[w] = "lookup"
    /\ lock = NoOne
    /\ \E failed \in BOOLEAN :
         job' = [job EXCEPT ![mine[w]].inprogress = FALSE,
                            ![mine[w]].done = TRUE,
                            ![mine[w]].failed = failed]
    /\ Move(w, "scan")
    /\ UNCHANGED <<lock, alloc, jobs, started, mine, eventVars, clientVars>>

MarkNotDone(w) ==                       \* mutant: done is not set
    /\ wpc[w] = "lookup"
    /\ lock = NoOne
    /\ job' = [job EXCEPT ![mine[w]].inprogress = FALSE]
    /\ Move(w, "announce")
    /\ UNCHANGED <<lock, alloc, jobs, started, mine, eventVars, clientVars>>

MarkDone(w) ==
    /\ wpc[w] = "lookup"
    /\ lock = NoOne
    /\ \E failed \in BOOLEAN :
         job' = [job EXCEPT ![mine[w]].inprogress = FALSE,
                            ![mine[w]].done = TRUE,
                            ![mine[w]].failed = failed]
    /\ Move(w, "announce")
    /\ UNCHANGED <<lock, alloc, jobs, started, mine, eventVars,
                   clientVars>>

(* threadevent_Set(job_done_supervisor_waitevent), without the lock.       *)
Announce(w) ==
    /\ wpc[w] = "announce"
    /\ Move(w, "scan")
    /\ mine' = [mine EXCEPT ![w] = NoJob]
    /\ UNCHANGED <<lock, jobVars, started, eventVars, clientVars>>

(* threadevent_WaitUntilSet(async_worker_event[w], 5000, 1)                *)
TakeFlag(w, place) ==
    /\ Move(w, IF flag[w] THEN "scan" ELSE place)
    /\ flag' = [flag EXCEPT ![w] = FALSE]
    /\ UNCHANGED <<lock, jobVars, started, mine, bytes, clientVars>>

FirstCheck(w) == wpc[w] = "check" /\ TakeFlag(w, "poll")

Readable(w) ==
    /\ wpc[w] = "poll"
    /\ bytes[w] > 0
    /\ bytes' = [bytes EXCEPT ![w] = 0]
    /\ Move(w, "recheck")
    /\ UNCHANGED <<lock, jobVars, started, mine, flag, clientVars>>

(* Another round, if there is time left.                                   *)
Recheck(w) ==
    wpc[w] = "recheck" /\ \E place \in {"poll", "scan"} : TakeFlag(w, place)

(* The 5 seconds are over: a last look at the flag, and a scan either way. *)
WaitForever(w) ==                       \* mutant: back to sleep
    /\ wpc[w] = "poll"
    /\ bytes[w] = 0
    /\ TakeFlag(w, "poll")

WaitTimeout(w) ==
    /\ wpc[w] = "poll"
    /\ bytes[w] = 0
    /\ TakeFlag(w, "scan")

-----------------------------------------------------------------------------
ClientStep(c) ==
    \/ RequestFirst(c) \/ RequestNext(c) \/ SetEvent(c) \/ SendByte(c)
    \/ Requested(c) \/ FreeJob(c) \/ Resume(c) \/ IsDone(c) \/ UseResult(c)
    \/ AbandonJob(c)

WorkerStep(w) ==
    \/ Scan(w) \/ MarkDone(w) \/ Announce(w) \/ FirstCheck(w) \/ Readable(w)
    \/ Recheck(w) \/ WaitTimeout(w)

(* The bound is reached: no vm thread calls net.connect any more.          *)
NoMoreCalls ==
    /\ calls = MaxCalls
    /\ \A c \in Client : cpc[c] = "run"
    /\ UNCHANGED vars

Next ==
    \/ \E c \in Client : CreateEmpty(c) \/ CreateFails(c) \/ RequestFails(c)
                         \/ ClientStep(c)
    \/ \E w \in JobWorker : WorkerStep(w)
    \/ NoMoreCalls

(* Every thread keeps running and a lookup ends; a vm thread need not call *)
(* net.connect at all.                                                     *)
Fairness == /\ \A c \in Client : WF_vars(ClientStep(c))
            /\ \A w \in JobWorker : WF_vars(WorkerStep(w))

Spec == Init /\ [][Next]_vars /\ Fairness

-----------------------------------------------------------------------------
(* A job a client points to is allocated and its own; a worker's job is    *)
(* allocated, listed and in progress with that worker alone; every listed  *)
(* job is allocated, and only once in the list.  (Slots are reused as soon *)
(* as they are free, and three parties free or forget them.)               *)
JobsInUseAreAllocated ==
    /\ \A c \in Client : ptr[c] # NoJob =>
         /\ ptr[c] \in alloc
         /\ \A d \in Client \ {c} : ptr[d] # ptr[c]
         /\ cpc[c] \notin {"request", "free"} => job[ptr[c]].owner = c
    /\ \A w \in JobWorker : wpc[w] = "lookup" =>
         /\ mine[w] \in alloc
         /\ Listed(mine[w])
         /\ job[mine[w]].inprogress
         /\ \A v \in JobWorker \ {w} :
              wpc[v] = "lookup" => mine[v] # mine[w]
    /\ \A i, j \in DOMAIN jobs :
         jobs[i] \in alloc /\ (i # j => jobs[i] # jobs[j])

(* Nothing changes a done job, or frees it, until its owner abandons it:   *)
(* net.connect reads it without the lock, over several suspensions.        *)
ResultsStay ==
    [][\A s \in alloc : job[s].done /\ ~job[s].abandoned =>
         /\ s \in alloc'
         /\ job'[s] \in {job[s], [job[s] EXCEPT !.abandoned = TRUE]}]_vars

(* A job is abandoned while it is allocated, and by the client that owns   *)
(* it: on failure a job is "still owned by us" (net.c).                    *)
AbandonsOwnJob ==
    [][\A c \in Client : cpc[c] = "abandon" /\ cpc'[c] = "run" =>
         ptr[c] \in alloc /\ job[ptr[c]].owner = c]_vars

(* A client that asked for a job and waits gets its answer.                *)
JobsAnswered ==
    \A c \in Client : cpc[c] = "wait" ~> cpc[c] = "use"

(* An abandoned job is freed, if only by a worker's 5 second timeout.      *)
AbandonedFreed ==
    \A s \in Slot : (s \in alloc /\ job[s].abandoned) ~> s \notin alloc

(* The job of a client, as the scheduler sees it.                          *)
JobState(c) ==
    IF ptr[c] = NoJob \/ cpc[c] \in {"request", "free"} THEN "none"
    ELSE IF job[ptr[c]].done THEN "done" ELSE "pending"

Service == INSTANCE JobService WITH
    state <- [c \in Client |-> JobState(c)],
    due   <- Cardinality({w \in JobWorker : wpc[w] = "announce"})

(* Every step does what JobService allows.                                 *)
ImplementsJobService == Service!Spec

=============================================================================
