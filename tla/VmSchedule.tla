---------------------------- MODULE VmSchedule ----------------------------
(***************************************************************************)
(* The scheduler of the Horse64 virtual machine (horse64/vmschedule.c with *)
(* the suspend and resume half of horse64/vmexec.c).                       *)
(*                                                                         *)
(* WorkerCount OS threads run vmschedule_WorkerRun; worker 0 is the        *)
(* process's first thread.  A supervisor sleeps until a timer, a socket or *)
(* a finished job needs attention and then wakes every worker.             *)
(* vmschedule_ExecuteProgram starts and stops all of them.                 *)
(*                                                                         *)
(* Everything between a mutex_Lock and the matching mutex_Release of       *)
(* worker_mutex is one action; the lock-free code between two critical     *)
(* sections is an action of its own wherever it touches shared state.      *)
(* A threadevent is its flag: module ThreadEvent shows why that is enough. *)
(***************************************************************************)
EXTENDS Integers, FiniteSets

CONSTANTS
    WorkerCount,      (* number of workers, at least one                    *)
    MaxThreads,       (* bound: vm threads ever created, the main one too   *)
    MaxBlocks,        (* bound: waits of one vm thread                      *)
    WaitTypes,        (* the kinds of wait the program uses                 *)
    LaunchFuncs,      (* the launch functions the program has               *)
    AsyncParallel,    (* whether what is called async may run in parallel:  *)
                      (* TRUE, FALSE or both are in the set                 *)
    InitMaySuspend,   (* a global initialiser may wait for something        *)
    SpawnMayFail      (* creating OS threads may fail                       *)

AllWaitTypes == {"fixedtime", "asyncsysjobwait", "sockwait"}

Phases == {"globalinitsimple", "globalinit", "main"}

ASSUME ScheduleAssumption ==
    /\ WorkerCount \in Nat \ {0}
    /\ MaxThreads \in Nat \ {0}
    /\ MaxBlocks \in Nat
    /\ WaitTypes \subseteq AllWaitTypes
    /\ LaunchFuncs \subseteq Phases
    /\ "main" \in LaunchFuncs
    /\ AsyncParallel \subseteq BOOLEAN
    /\ InitMaySuspend \in BOOLEAN
    /\ SpawnMayFail \in BOOLEAN

Worker     == 0 .. (WorkerCount - 1)
MainWorker == 0
Thread     == 1 .. MaxThreads
MainThread == 1
NoThread   == 0

SuspendTypes == AllWaitTypes \cup
                {"uninitialized", "none", "asynccallscheduled", "done"}
NoFunc       == "nofunc"
Funcs        == Phases \cup {"asyncfunc", NoFunc}

VARIABLES
    (* vmschedule_ExecuteProgram                                           *)
    boss,          \* where ExecuteProgram is
    joining,       \* the worker it is about to join
    spawned,       \* the workers whose OS thread exists
    (* the workers                                                         *)
    pc,            \* pc[w]: where vmschedule_WorkerRun of worker w is
    cur,           \* cur[w]: the vm thread w is running
    fresh,         \* fresh[w]: the vm thread w is setting up for an async call
    launch,        \* launch[w]: the launch function w runs, or NoFunc
    seen,          \* seen[w]: the timers expired at w's last datetime_Ticks()
    wake,          \* wake[w]: the flag of worker[w]->wakeupevent
    (* the vm threads; the list vmexec->thread is in order of creation     *)
    live,          \* the vm threads on vmexec->thread
    created,       \* how many were ever created
    suspend,       \* suspend_info->suspendtype
    func,          \* the function on the vm thread's stack
    resume,        \* upcoming_resume_info->func_id
    fromStart,     \* upcoming_resume_info->run_from_start
    onMain,        \* is_on_main_thread
    shared,        \* vmthread->heap is mainthread_shared_heap
    (* worker_overview and vmexec                                          *)
    ran,           \* the workers_ran_... flags
    fatal,         \* fatalerror
    retval,        \* program_return_value
    (* the supervisor                                                      *)
    sup,           \* where vmschedule_WorkerSupervisorRun is
    covered,       \* the timers its current wait takes into account
    elapsed,       \* that wait has lasted as long as those timers allow
    target,        \* the workers it still has to wake
    stopSignal,    \* supervisor_stop_signal
    (* what is waited for                                                  *)
    event,         \* event[t]: "none", "pending" or "happened"
    sinfo,         \* sinfo[t]: how t asked to be suspended
    unsignalled,   \* threads whose job is done but not yet announced
    jobEvent,      \* a wake-up byte of the job-done event is in its socket
    unlockEvent,   \* the same for _waited_for_socklist_supervisorunlockevent
    blocks         \* blocks[t]: the waits of t so far

bossVars  == <<boss, joining, spawned>>
localVars == <<cur, fresh, launch, seen>>
tableVars == <<live, created, suspend, func, resume, fromStart, onMain, shared>>
overVars  == <<ran, fatal, retval>>
supVars   == <<sup, covered, elapsed, target, stopSignal>>
waitVars  == <<event, sinfo, unsignalled, jobEvent, blocks>>

vars == <<bossVars, pc, localVars, wake, tableVars, overVars, supVars,
          waitVars, unlockEvent>>

-----------------------------------------------------------------------------
RunPcs    == {"run", "spawn", "suspending"}
WorkerPcs == {"unborn", "loop", "relaunch", "special", "scan", "idle",
              "wait", "ended"} \cup RunPcs
BossPcs   == {"spawn", "supervisor", "start", "run", "wake", "join",
              "trigger", "joinsup", "done", "aborted", "crashed"}
SupPcs    == {"off", "timers", "wait", "flush", "check", "set", "ended"}

TypeOK ==
    /\ boss \in BossPcs
    /\ joining \in 1 .. WorkerCount
    /\ spawned \subseteq Worker
    /\ pc \in [Worker -> WorkerPcs]
    /\ cur \in [Worker -> Thread \cup {NoThread}]
    /\ fresh \in [Worker -> Thread \cup {NoThread}]
    /\ launch \in [Worker -> Phases \cup {NoFunc}]
    /\ seen \in [Worker -> SUBSET Thread]
    /\ wake \in [Worker -> BOOLEAN]
    /\ live \subseteq Thread
    /\ created \in Thread
    /\ suspend \in [Thread -> SuspendTypes]
    /\ func \in [Thread -> Funcs]
    /\ resume \in [Thread -> Funcs]
    /\ fromStart \in [Thread -> BOOLEAN]
    /\ onMain \in [Thread -> BOOLEAN]
    /\ shared \in [Thread -> BOOLEAN]
    /\ ran \subseteq Phases
    /\ fatal \in BOOLEAN
    /\ retval \in {"rval", "error"}
    /\ sup \in SupPcs
    /\ covered \subseteq Thread
    /\ elapsed \in BOOLEAN
    /\ target \subseteq Worker
    /\ stopSignal \in BOOLEAN
    /\ event \in [Thread -> {"none", "pending", "happened"}]
    /\ sinfo \in [Thread -> AllWaitTypes \cup {"none"}]
    /\ unsignalled \subseteq Thread
    /\ jobEvent \in BOOLEAN
    /\ unlockEvent \in BOOLEAN
    /\ blocks \in [Thread -> 0 .. MaxBlocks]

(* ExecuteProgram has made the main vm thread and marked it scheduled.     *)
Init ==
    /\ boss = "spawn"
    /\ joining = 1
    /\ spawned = {MainWorker}
    /\ pc = [w \in Worker |-> "unborn"]
    /\ cur = [w \in Worker |-> NoThread]
    /\ fresh = [w \in Worker |-> NoThread]
    /\ launch = [w \in Worker |-> NoFunc]
    /\ seen = [w \in Worker |-> {}]
    /\ wake = [w \in Worker |-> FALSE]
    /\ live = {MainThread}
    /\ created = 1
    /\ suspend = [t \in Thread |-> IF t = MainThread
                                   THEN "asynccallscheduled"
                                   ELSE "uninitialized"]
    /\ func = [t \in Thread |-> NoFunc]
    /\ resume = [t \in Thread |-> NoFunc]
    /\ fromStart = [t \in Thread |-> FALSE]
    /\ onMain = [t \in Thread |-> t = MainThread]
    /\ shared = [t \in Thread |-> FALSE]
    /\ ran = {}
    /\ fatal = FALSE
    /\ retval = "rval"
    /\ sup = "off"
    /\ covered = {}
    /\ elapsed = FALSE
    /\ target = {}
    /\ stopSignal = FALSE
    /\ event = [t \in Thread |-> "none"]
    /\ sinfo = [t \in Thread |-> "none"]
    /\ unsignalled = {}
    /\ jobEvent = FALSE
    /\ unlockEvent = FALSE
    /\ blocks = [t \in Thread |-> 0]

-----------------------------------------------------------------------------
(* vmthread_SetSuspendState.  Entering or leaving a socket wait registers  *)
(* or unregisters the socket, which sets the supervisor's unlock event.    *)
SetSuspendState(t, s) ==
    /\ suspend' = [suspend EXCEPT ![t] = s]
    /\ unlockEvent' = (unlockEvent \/ "sockwait" \in {suspend[t], s})

(* What it leaves in upcoming_resume_info.                                 *)
ResumeAfter(t, s) ==
    IF s \in {"none", "asynccallscheduled"} THEN NoFunc ELSE resume[t]

FromStartKept(t, s) == fromStart[t]     \* mutant: never cleared

FromStartAfter(t, s) ==
    IF suspend[t] = "none" /\ s # "none" THEN FALSE ELSE fromStart[t]

Waiting(t) == suspend[t] \in AllWaitTypes

(* vmschedule_CanThreadResume_UnguardedCheck by worker w.  A timer is      *)
(* compared with the time w took before it had the mutex; a job or a       *)
(* socket is looked at now.                                                *)
CanThreadResumeUnchecked(w, t) ==       \* mutant: no look at the job
    \/ suspend[t] = "asynccallscheduled"
    \/ suspend[t] = "fixedtime" /\ t \in seen[w]
    \/ suspend[t] \in {"asyncsysjobwait", "sockwait"}

CanThreadResume(w, t) ==
    \/ suspend[t] = "asynccallscheduled"
    \/ suspend[t] = "fixedtime" /\ t \in seen[w]
    \/ suspend[t] \in {"asyncsysjobwait", "sockwait"} /\ event[t] = "happened"

(* vmthread_RunFunctionWithReturnInt up to the point where it gives the    *)
(* mutex back and runs the function: a function id left in the resume      *)
(* info wins over the requested one, f.                                    *)
RunFunction(w, t, f) ==
    /\ SetSuspendState(t, "none")
    /\ func' = [func EXCEPT ![t] = IF resume[t] = NoFunc THEN f ELSE resume[t]]
    /\ resume' = [resume EXCEPT ![t] = ResumeAfter(t, "none")]
    /\ event' = [event EXCEPT ![t] = "none"]
    /\ sinfo' = [sinfo EXCEPT ![t] = "none"]
    /\ cur' = [cur EXCEPT ![w] = t]
    /\ pc' = [pc EXCEPT ![w] = "run"]

(* Its end, with the mutex again: the vm thread is in suspend state s.     *)
StopRunning(w, s) ==
    /\ SetSuspendState(cur[w], s)
    /\ resume' = [resume EXCEPT ![cur[w]] = ResumeAfter(cur[w], s)]
    /\ fromStart' = [fromStart EXCEPT ![cur[w]] = FromStartAfter(cur[w], s)]
    /\ cur' = [cur EXCEPT ![w] = NoThread]
    /\ launch' = [launch EXCEPT ![w] = NoFunc]

-----------------------------------------------------------------------------
(* The worker loop.  Worker 0 found the main thread in its first round.    *)

(* while (!fatalerror), and the time for this round.                       *)
LoopHead(w) ==
    /\ pc[w] = "loop"
    /\ IF fatal
       THEN /\ pc' = [pc EXCEPT ![w] = "ended"]
            /\ UNCHANGED seen
       ELSE /\ pc' = [pc EXCEPT ![w] =
                        IF w = MainWorker /\ "main" \notin ran
                        THEN "relaunch" ELSE "scan"]
            /\ seen' = [seen EXCEPT ![w] =
                          {t \in Thread : sinfo[t] = "fixedtime"
                                          /\ event[t] = "happened"}]
    /\ UNCHANGED <<bossVars, cur, fresh, launch, wake, tableVars, overVars,
                   supVars, waitVars, unlockEvent>>

(* "allow mainthread to re-run if main not run yet"                        *)
RescheduleMain ==
    /\ pc[MainWorker] = "relaunch"
    /\ pc' = [pc EXCEPT ![MainWorker] = "special"]
    /\ IF suspend[MainThread] = "done"
       THEN /\ SetSuspendState(MainThread, "asynccallscheduled")
            /\ resume' = [resume EXCEPT ![MainThread] = NoFunc]
            /\ fromStart' = [fromStart EXCEPT ![MainThread] = TRUE]
       ELSE UNCHANGED <<suspend, unlockEvent, resume, fromStart>>
    /\ UNCHANGED <<bossVars, localVars, wake, live, created, func, onMain,
                   shared, overVars, supVars, waitVars>>

(* The first special case that has not had its turn.                       *)
NextPhase ==
    CASE "globalinitsimple" \notin ran -> "globalinitsimple"
      [] "globalinitsimple" \in ran /\ "globalinit" \notin ran -> "globalinit"
      [] OTHER -> "main"

(* vmschedule_RunMainThreadLaunchFunc of a function that exists.           *)
LaunchMain ==
    /\ pc[MainWorker] = "special"
    /\ CanThreadResume(MainWorker, MainThread)
    /\ NextPhase \in LaunchFuncs
    /\ launch' = [launch EXCEPT ![MainWorker] = NextPhase]
    /\ RunFunction(MainWorker, MainThread, NextPhase)
    /\ UNCHANGED <<bossVars, fresh, seen, wake, live, created, fromStart,
                   onMain, shared, overVars, supVars, unsignalled, jobEvent,
                   blocks>>

(* The same when the program has no such function.                         *)
SkipLaunch ==
    /\ pc[MainWorker] = "special"
    /\ CanThreadResume(MainWorker, MainThread)
    /\ NextPhase \notin LaunchFuncs
    /\ ran' = ran \cup {NextPhase}
    /\ pc' = [pc EXCEPT ![MainWorker] = "loop"]
    /\ UNCHANGED <<bossVars, localVars, wake, tableVars, fatal, retval,
                   supVars, waitVars, unlockEvent>>

NoLaunch ==
    /\ pc[MainWorker] = "special"
    /\ ~CanThreadResume(MainWorker, MainThread)
    /\ pc' = [pc EXCEPT ![MainWorker] = "scan"]
    /\ UNCHANGED <<bossVars, localVars, wake, tableVars, overVars, supVars,
                   waitVars, unlockEvent>>

(* The vm threads the scan of worker w may pick up.                        *)
CandidatesAnywhere(w) ==                \* mutant: the main thread anywhere
    {t \in live : CanThreadResume(w, t)}

Candidates(w) ==
    {t \in live : (w = MainWorker \/ ~onMain[t]) /\ CanThreadResume(w, t)}

(* The scan unsets the wake-up event and resumes the first candidate.      *)
PickUp(w) ==
    /\ pc[w] = "scan"
    /\ wake' = [wake EXCEPT ![w] = FALSE]
    /\ \E t \in Candidates(w) :
         /\ \A u \in Candidates(w) : t <= u
         /\ RunFunction(w, t, NoFunc)
    /\ UNCHANGED <<bossVars, fresh, launch, seen, live, created, fromStart,
                   onMain, shared, overVars, supVars, unsignalled, jobEvent,
                   blocks>>

(* Nothing to run: leave if every vm thread is done.                       *)
NothingWaits(w) ==                      \* mutant: forgets who is running
    /\ pc[w] = "scan"
    /\ Candidates(w) = {}
    /\ wake' = [wake EXCEPT ![w] = FALSE]
    /\ pc' = [pc EXCEPT ![w] = IF \A t \in live : ~Waiting(t)
                               THEN "ended" ELSE "idle"]
    /\ UNCHANGED <<bossVars, localVars, tableVars, overVars, supVars,
                   waitVars, unlockEvent>>

NothingToRun(w) ==
    /\ pc[w] = "scan"
    /\ Candidates(w) = {}
    /\ wake' = [wake EXCEPT ![w] = FALSE]
    /\ pc' = [pc EXCEPT ![w] = IF \A t \in live : suspend[t] = "done"
                               THEN "ended" ELSE "idle"]
    /\ UNCHANGED <<bossVars, localVars, tableVars, overVars, supVars,
                   waitVars, unlockEvent>>

(* A fatal error "could have changed right before threadevent_Unset()".    *)
CheckFatal(w) ==
    /\ pc[w] = "idle"
    /\ pc' = [pc EXCEPT ![w] = IF fatal THEN "ended" ELSE "wait"]
    /\ UNCHANGED <<bossVars, localVars, wake, tableVars, overVars, supVars,
                   waitVars, unlockEvent>>

(* threadevent_WaitUntilSet(wakeupevent, 10000, 1)                         *)
Awoken(w) ==
    /\ pc[w] = "wait"
    /\ wake[w]
    /\ wake' = [wake EXCEPT ![w] = FALSE]
    /\ pc' = [pc EXCEPT ![w] = "loop"]
    /\ UNCHANGED <<bossVars, localVars, tableVars, overVars, supVars,
                   waitVars, unlockEvent>>

WaitTimeout(w) ==
    /\ pc[w] = "wait"
    /\ ~wake[w]
    /\ pc' = [pc EXCEPT ![w] = "loop"]
    /\ UNCHANGED <<bossVars, localVars, wake, tableVars, overVars, supVars,
                   waitVars, unlockEvent>>

-----------------------------------------------------------------------------
(* What a running vm thread may do.                                        *)

(* An async call makes a new vm thread, first without a suspend state.  A  *)
(* function that is not threadable may be called async from a vm thread    *)
(* with is_on_main_thread only, and then shares a heap.  vmthread_New      *)
(* leaves is_on_main_thread unset either way.                              *)
AsyncCall(w) ==
    /\ pc[w] = "run"
    /\ created < MaxThreads
    /\ LET t == created + 1 IN
       /\ created' = t
       /\ live' = live \cup {t}
       /\ fresh' = [fresh EXCEPT ![w] = t]
       /\ \E parallel \in AsyncParallel :
            /\ parallel \/ onMain[cur[w]]
            /\ shared' = [shared EXCEPT ![t] = ~parallel]
    /\ pc' = [pc EXCEPT ![w] = "spawn"]
    /\ UNCHANGED <<bossVars, cur, launch, seen, wake, suspend, func, resume,
                   fromStart, onMain, overVars, supVars, waitVars,
                   unlockEvent>>

(* Copying the arguments failed: vmthread_Free, and an error in the caller.*)
AsyncCallFails(w) ==
    /\ pc[w] = "spawn"
    /\ live' = live \ {fresh[w]}
    /\ fresh' = [fresh EXCEPT ![w] = NoThread]
    /\ pc' = [pc EXCEPT ![w] = "run"]
    /\ UNCHANGED <<bossVars, cur, launch, seen, wake, created, suspend, func,
                   resume, fromStart, onMain, shared, overVars, supVars,
                   waitVars, unlockEvent>>

AsyncCallScheduled(w) ==
    /\ pc[w] = "spawn"
    /\ SetSuspendState(fresh[w], "asynccallscheduled")
    /\ resume' = [resume EXCEPT ![fresh[w]] = "asyncfunc"]
    /\ fromStart' = [fromStart EXCEPT ![fresh[w]] = TRUE]
    /\ fresh' = [fresh EXCEPT ![w] = NoThread]
    /\ pc' = [pc EXCEPT ![w] = "run"]
    /\ UNCHANGED <<bossVars, cur, launch, seen, wake, live, created, func,
                   onMain, shared, overVars, supVars, waitVars>>

(* The function asks for something and SUSPEND_VM unwinds to the worker;   *)
(* what it waits for may happen from here on.                              *)
Block(w, type) ==
    /\ pc[w] = "run"
    /\ LET t == cur[w] IN
       /\ blocks[t] < MaxBlocks
       /\ func[t] \in {"globalinitsimple", "globalinit"} => InitMaySuspend
       /\ blocks' = [blocks EXCEPT ![t] = @ + 1]
       /\ event' = [event EXCEPT ![t] = "pending"]
       /\ sinfo' = [sinfo EXCEPT ![t] = type]
       /\ resume' = [resume EXCEPT ![t] = func[t]]
       /\ seen' = [v \in Worker |-> seen[v] \ {t}]
    /\ pc' = [pc EXCEPT ![w] = "suspending"]
    /\ UNCHANGED <<bossVars, cur, fresh, launch, wake, live, created, suspend,
                   func, fromStart, onMain, shared, overVars, supVars,
                   unsignalled, jobEvent, unlockEvent>>

(* A launch function counts as run once it returned or suspended.          *)
MarkLaunched(w) ==
    ran' = IF launch[w] = NoFunc THEN ran ELSE ran \cup {launch[w]}

Suspend(w) ==
    /\ pc[w] = "suspending"
    /\ StopRunning(w, sinfo[cur[w]])
    /\ MarkLaunched(w)
    /\ pc' = [pc EXCEPT ![w] = "loop"]
    /\ UNCHANGED <<bossVars, fresh, seen, wake, live, created, func, onMain,
                   shared, fatal, retval, supVars, waitVars>>

Return(w) ==
    /\ pc[w] = "run"
    /\ StopRunning(w, "done")
    /\ func' = [func EXCEPT ![cur[w]] = NoFunc]
    /\ MarkLaunched(w)
    /\ retval' = "rval"
    /\ pc' = [pc EXCEPT ![w] = "loop"]
    /\ UNCHANGED <<bossVars, fresh, seen, wake, live, created, onMain, shared,
                   fatal, supVars, waitVars>>

(* An uncaught error, or no memory.  Only in a launch function is it fatal.*)
Fail(w) ==
    /\ pc[w] = "run"
    /\ StopRunning(w, "done")
    /\ func' = [func EXCEPT ![cur[w]] = NoFunc]
    /\ retval' = "error"
    /\ fatal' = (fatal \/ launch[w] # NoFunc)
    /\ pc' = [pc EXCEPT ![w] = IF launch[w] # NoFunc THEN "ended" ELSE "loop"]
    /\ UNCHANGED <<bossVars, fresh, seen, wake, live, created, onMain, shared,
                   ran, supVars, waitVars>>

-----------------------------------------------------------------------------
(* The world outside: a timer expires, a socket is ready, a job is done.   *)
(* The job worker announces a finished job in a step of its own.           *)
Happen(t) ==
    /\ event[t] = "pending"
    /\ event' = [event EXCEPT ![t] = "happened"]
    /\ unsignalled' = IF sinfo[t] = "asyncsysjobwait"
                      THEN unsignalled \cup {t} ELSE unsignalled
    /\ elapsed' = (elapsed \/ t \in covered)
    /\ UNCHANGED <<bossVars, pc, localVars, wake, tableVars, overVars, sup,
                   covered, target, stopSignal, sinfo, jobEvent, unlockEvent,
                   blocks>>

AnnounceJob(t) ==
    /\ t \in unsignalled
    /\ unsignalled' = unsignalled \ {t}
    /\ jobEvent' = TRUE
    /\ UNCHANGED <<bossVars, pc, localVars, wake, tableVars, overVars,
                   supVars, event, sinfo, unlockEvent, blocks>>

-----------------------------------------------------------------------------
(* vmschedule_WorkerSupervisorRun                                          *)

(* "See how long we can wait according to internal timer waits"            *)
SupTimers ==
    /\ sup = "timers"
    /\ covered' = {t \in live : suspend[t] = "fixedtime"}
    /\ elapsed' = (\E t \in covered' : event[t] = "happened")
    /\ sup' = "wait"
    /\ UNCHANGED <<bossVars, pc, localVars, wake, tableVars, overVars, target,
                   stopSignal, waitVars, unlockEvent>>

SocketReady == \E t \in live : suspend[t] = "sockwait" /\ event[t] = "happened"

(* What ends the supervisor's sockset_Wait before its time is over.  The   *)
(* byte in the unlock event's socket is never received.                    *)
SupWoken == jobEvent \/ unlockEvent \/ SocketReady \/ elapsed

SupAwoken ==
    /\ sup = "wait"
    /\ SupWoken
    /\ sup' = "flush"
    /\ UNCHANGED <<bossVars, pc, localVars, wake, tableVars, overVars, covered,
                   elapsed, target, stopSignal, waitVars, unlockEvent>>

(* Without timers to wait for it is sockset_Wait(..., 5000).               *)
SupTick ==
    /\ sup = "wait"
    /\ ~SupWoken
    /\ covered = {}
    /\ sup' = "flush"
    /\ UNCHANGED <<bossVars, pc, localVars, wake, tableVars, overVars, covered,
                   elapsed, target, stopSignal, waitVars, unlockEvent>>

(* asyncjob_FlushSupervisorWakeupEvents                                    *)
SupFlush ==
    /\ sup = "flush"
    /\ jobEvent' = FALSE
    /\ sup' = "check"
    /\ UNCHANGED <<bossVars, pc, localVars, wake, tableVars, overVars, covered,
                   elapsed, target, stopSignal, event, sinfo, unsignalled,
                   unlockEvent, blocks>>

WakeSleepers ==                         \* mutant: only those who sleep now
    /\ sup = "check"
    /\ LET sleepers == {w \in Worker : pc[w] = "wait"} IN
       IF stopSignal
       THEN sup' = "ended" /\ target' = {}
       ELSE /\ target' = sleepers
            /\ sup' = IF sleepers = {} THEN "timers" ELSE "set"
    /\ covered' = {}
    /\ elapsed' = FALSE
    /\ UNCHANGED <<bossVars, pc, localVars, wake, tableVars, overVars,
                   stopSignal, waitVars, unlockEvent>>

WakeOthers ==                           \* mutant: worker 0 is not woken
    /\ sup = "check"
    /\ IF stopSignal
       THEN sup' = "ended" /\ target' = {}
       ELSE sup' = "set" /\ target' = Worker \ {MainWorker}
    /\ covered' = {}
    /\ elapsed' = FALSE
    /\ UNCHANGED <<bossVars, pc, localVars, wake, tableVars, overVars,
                   stopSignal, waitVars, unlockEvent>>

SupCheckStop ==
    /\ sup = "check"
    /\ IF stopSignal
       THEN sup' = "ended" /\ target' = {}
       ELSE sup' = "set" /\ target' = Worker
    /\ covered' = {}
    /\ elapsed' = FALSE
    /\ UNCHANGED <<bossVars, pc, localVars, wake, tableVars, overVars,
                   stopSignal, waitVars, unlockEvent>>

(* "Wake up workers to do work", in the order of their numbers.            *)
SupSetWorker(w) ==
    /\ sup = "set"
    /\ w \in target
    /\ \A v \in target : w <= v
    /\ wake' = [wake EXCEPT ![w] = TRUE]
    /\ target' = target \ {w}
    /\ sup' = IF target' = {} THEN "timers" ELSE "set"
    /\ UNCHANGED <<bossVars, pc, localVars, tableVars, overVars, covered,
                   elapsed, stopSignal, waitVars, unlockEvent>>

-----------------------------------------------------------------------------
(* vmschedule_ExecuteProgram                                               *)

(* "Spawn all threads other than main thread".  If one cannot be created   *)
(* the others are told to stop, and neither supervisor nor main thread run.*)
SpawnWorkers ==
    /\ boss = "spawn"
    /\ \E S \in SUBSET (Worker \ {MainWorker}) :
         /\ SpawnMayFail \/ S = Worker \ {MainWorker}
         /\ spawned' = {MainWorker} \cup S
         /\ pc' = [w \in Worker |-> IF w \in S THEN "loop" ELSE pc[w]]
         /\ fatal' = (spawned' # Worker)
    /\ boss' = IF fatal' THEN "wake" ELSE "supervisor"
    /\ UNCHANGED <<joining, localVars, wake, tableVars, ran, retval, supVars,
                   waitVars, unlockEvent>>

StartSupervisor ==
    /\ boss = "supervisor"
    /\ sup' = "timers"
    /\ boss' = "start"
    /\ UNCHANGED <<joining, spawned, pc, localVars, wake, tableVars, overVars,
                   covered, elapsed, target, stopSignal, waitVars, unlockEvent>>

(* No supervisor, or no memory for process.args, which is set even when    *)
(* some workers are missing: return -1 right away.                         *)
GiveUp ==
    /\ \/ boss \in {"supervisor", "start"}
       \/ boss = "wake" /\ sup = "off" /\ joining = 1
    /\ SpawnMayFail
    /\ boss' = "aborted"
    /\ UNCHANGED <<joining, spawned, pc, localVars, wake, tableVars, overVars,
                   supVars, waitVars, unlockEvent>>

StartMainWorker ==
    /\ boss = "start"
    /\ boss' = "run"
    /\ pc' = [pc EXCEPT ![MainWorker] = "loop"]
    /\ UNCHANGED <<joining, spawned, localVars, wake, tableVars, overVars,
                   supVars, waitVars, unlockEvent>>

MainWorkerEnded ==
    /\ boss = "run"
    /\ pc[MainWorker] = "ended"
    /\ boss' = "wake"
    /\ UNCHANGED <<joining, spawned, pc, localVars, wake, tableVars, overVars,
                   supVars, waitVars, unlockEvent>>

(* "Wait until other threads are done": set the event of the next worker   *)
(* that has an OS thread, and join it.                                     *)
WakeForJoin ==
    /\ boss = "wake"
    /\ joining < WorkerCount
    /\ IF joining \in spawned
       THEN /\ wake' = [wake EXCEPT ![joining] = TRUE]
            /\ boss' = "join"
            /\ UNCHANGED joining
       ELSE /\ joining' = joining + 1
            /\ UNCHANGED <<wake, boss>>
    /\ UNCHANGED <<spawned, pc, localVars, tableVars, overVars, supVars,
                   waitVars, unlockEvent>>

Join ==
    /\ boss = "join"
    /\ pc[joining] = "ended"
    /\ joining' = joining + 1
    /\ boss' = "wake"
    /\ UNCHANGED <<spawned, pc, localVars, wake, tableVars, overVars, supVars,
                   waitVars, unlockEvent>>

StopNobody ==                           \* mutant: the signal is not set
    /\ boss = "wake"
    /\ joining = WorkerCount
    /\ boss' = "trigger"
    /\ UNCHANGED <<joining, spawned, pc, localVars, wake, tableVars, overVars,
                   supVars, waitVars, unlockEvent>>

StopSupervisor ==
    /\ boss = "wake"
    /\ joining = WorkerCount
    /\ stopSignal' = TRUE
    /\ boss' = "trigger"
    /\ UNCHANGED <<joining, spawned, pc, localVars, wake, tableVars, overVars,
                   sup, covered, elapsed, target, waitVars, unlockEvent>>

(* asyncjob_TriggerSupervisorWakeupEvent                                   *)
TriggerSupervisor ==
    /\ boss = "trigger"
    /\ jobEvent' = TRUE
    /\ boss' = "joinsup"
    /\ UNCHANGED <<joining, spawned, pc, localVars, wake, tableVars, overVars,
                   supVars, event, sinfo, unsignalled, unlockEvent, blocks>>

(* Join the supervisor, then free every vm thread.                         *)
FreeAll ==
    /\ boss = "joinsup"
    /\ sup = "ended"
    /\ boss' = "done"
    /\ live' = {}
    /\ UNCHANGED <<joining, spawned, pc, localVars, wake, created, suspend,
                   func, resume, fromStart, onMain, shared, overVars, supVars,
                   waitVars, unlockEvent>>

(* thread_Join of a supervisor that was never created: a null pointer.     *)
JoinNoSupervisor ==
    /\ boss = "joinsup"
    /\ sup = "off"
    /\ boss' = "crashed"
    /\ UNCHANGED <<joining, spawned, pc, localVars, wake, tableVars, overVars,
                   supVars, waitVars, unlockEvent>>

Terminated ==
    /\ boss \in {"done", "aborted", "crashed"}
    /\ UNCHANGED vars

-----------------------------------------------------------------------------
MainWorkerStep == RescheduleMain \/ LaunchMain \/ SkipLaunch \/ NoLaunch

LoopStep(w) == \/ LoopHead(w) \/ PickUp(w) \/ NothingToRun(w)
               \/ CheckFatal(w) \/ Awoken(w)

RunStep(w) == \/ AsyncCall(w) \/ AsyncCallFails(w) \/ AsyncCallScheduled(w)
              \/ \E type \in WaitTypes : Block(w, type)
              \/ Suspend(w) \/ Return(w) \/ Fail(w)

SupStep == \/ SupTimers \/ SupAwoken \/ SupFlush \/ SupCheckStop
           \/ \E w \in Worker : SupSetWorker(w)

BossStep == \/ SpawnWorkers \/ StartSupervisor \/ StartMainWorker
            \/ MainWorkerEnded \/ WakeForJoin \/ Join \/ StopSupervisor
            \/ TriggerSupervisor \/ FreeAll \/ JoinNoSupervisor

(* What the OS thread of worker w does of its own accord.                  *)
WorkerStep(w) ==
    LoopStep(w) \/ RunStep(w) \/ (w = MainWorker /\ MainWorkerStep)

Next ==
    \/ MainWorkerStep
    \/ \E w \in Worker : LoopStep(w) \/ RunStep(w) \/ WaitTimeout(w)
    \/ \E t \in Thread : Happen(t) \/ AnnounceJob(t)
    \/ SupStep \/ SupTick
    \/ BossStep \/ GiveUp
    \/ Terminated

(* Every OS thread keeps running, a function eventually returns, waits or  *)
(* fails, and what is waited for eventually happens.  Nothing is assumed   *)
(* of the workers' own 10 second timeout, only of the supervisor's wait.   *)
Fairness ==
    /\ \A w \in Worker : WF_vars(WorkerStep(w))
    /\ \A t \in Thread : WF_vars(Happen(t)) /\ WF_vars(AnnounceJob(t))
    /\ WF_vars(SupStep \/ SupTick)
    /\ WF_vars(BossStep)

Spec == Init /\ [][Next]_vars /\ Fairness

-----------------------------------------------------------------------------
Running(w) == pc[w] \in RunPcs

(* A vm thread is on the CPU of at most one worker, no other worker can    *)
(* pick it up meanwhile (its suspend state is "none"), none is in that     *)
(* state without a worker, and the main thread runs on worker 0 only:      *)
(* vmthread_RunFunctionWithReturnInt changes the state before it gives the *)
(* mutex back, and a scan trusts the state alone.                          *)
RunExclusive ==
    /\ \A w \in Worker : Running(w) =>
         /\ cur[w] \in live
         /\ suspend[cur[w]] = "none"
         /\ cur[w] = MainThread => w = MainWorker
    /\ \A v, w \in Worker : Running(v) /\ Running(w) /\ cur[v] = cur[w] => v = w
    /\ \A t \in live : suspend[t] = "none" =>
         \E w \in Worker : Running(w) /\ cur[w] = t

(* What is in upcoming_resume_info fits the vm thread's stack: a suspended *)
(* thread continues the function it is in, a scheduled one starts afresh   *)
(* with an empty stack.  (Two fields, set by four functions, only some of  *)
(* them under the mutex.)                                                  *)
ResumeInfoFits ==
    \A t \in live :
      /\ Waiting(t) => /\ resume[t] = func[t]
                       /\ func[t] # NoFunc
                       /\ ~fromStart[t]
      /\ suspend[t] = "asynccallscheduled" =>
           /\ func[t] = NoFunc
           /\ t # MainThread => resume[t] = "asyncfunc" /\ fromStart[t]
           /\ t = MainThread => resume[t] = NoFunc

(* All sleep: the supervisor in its wait, each worker that has not left in *)
(* front of an unset wake-up event, and nothing on its way to either.      *)
Parked(w) == pc[w] = "ended" \/ (pc[w] = "wait" /\ ~wake[w])
Quiet == sup = "wait" /\ ~SupWoken /\ ~fatal /\ \A w \in Worker : Parked(w)

(* While all sleep no vm thread could be running: no async call is left    *)
(* scheduled, and no job or socket wait is over with its announcement      *)
(* received.  So no vm thread depends on the 5 and 10 second timeouts      *)
(* except one that waits for a timer.                                      *)
NoLostWakeup ==
    Quiet => \A t \in live :
      /\ suspend[t] # "asynccallscheduled"
      /\ suspend[t] = "asyncsysjobwait" /\ event[t] = "happened" =>
           t \in unsignalled

(* Worker 0 leaves its loop only after a fatal error, or when all launch   *)
(* functions had their turn and every vm thread is done.                   *)
MainWorkerEndsLast ==
    pc[MainWorker] = "ended" /\ ~fatal =>
      /\ ran = Phases
      /\ \A t \in live : suspend[t] = "done"

(* Under the launch of a phase the main thread runs that phase's function: *)
(* "storedresumeinfo.func_id == func_id || func_id < 0" (vmexec.c).        *)
LaunchRunsItsFunc ==
    launch[MainWorker] # NoFunc => func[MainThread] = launch[MainWorker]

(* A supervisor that waits while every worker sleeps has taken every timer *)
(* of a sleeping vm thread into account.                                   *)
TimersCovered ==
    Quiet => \A t \in live : suspend[t] = "fixedtime" => t \in covered

(* "Each execution context will not only have its own stack, but also its  *)
(* own heap": no two vm threads that run at the same time share one.       *)
HeapsSeparate ==
    \A v, w \in Worker :
      Running(v) /\ Running(w) /\ v # w => ~(shared[cur[v]] /\ shared[cur[w]])

(* No vm thread is left for good in a wait that is over, unless the        *)
(* program ends with a fatal error.                                        *)
WaitsEnd ==
    \A t \in Thread : []<>(~(Waiting(t) /\ event[t] = "happened") \/ fatal)

(* Every OS thread ExecuteProgram started has left its function and been   *)
(* joined.                                                                 *)
AllJoined == boss = "done" /\ sup = "ended" /\ \A w \in Worker : pc[w] = "ended"

(* A worker could not be created: the others stop, and then joining the    *)
(* supervisor that was never made crashes (thread_Join(NULL)).             *)
WorkersMissing ==
    spawned # Worker /\ \A w \in spawned \ {MainWorker} : pc[w] = "ended"

(* A program whose OS threads could all be created ends: all workers and   *)
(* the supervisor are stopped and joined, whether the functions return,    *)
(* fail or are stopped half-way.  ExecuteProgram gives up, without joining *)
(* anyone, where there is no supervisor or no memory for process.args; and *)
(* where a worker is missing the rest of them stop, before the crash.      *)
Terminates == <>[](AllJoined \/ boss = "aborted" \/ WorkersMissing)

(* The scheduler is an implementation of execution contexts.               *)
ContextState(t) ==
    IF t \notin live THEN "absent"
    ELSE CASE suspend[t] = "uninitialized"      -> "setup"
           [] suspend[t] = "asynccallscheduled" -> "runnable"
           [] suspend[t] = "none"               -> "running"
           [] suspend[t] = "done"               -> "done"
           [] OTHER                             -> "waiting"

Contexts == INSTANCE ExecutionContexts WITH
    state    <- [t \in Thread |-> ContextState(t)],
    runner   <- {<<w, cur[w]>> : w \in {v \in Worker : Running(v)}},
    happened <- [t \in Thread |-> event[t] = "happened"]

(* Every step of the scheduler is a step of ExecutionContexts or changes   *)
(* nothing it can see.                                                     *)
ImplementsContexts == Contexts!Spec

=============================================================================
