------------------------- MODULE VmSchedule_proofs -------------------------
(***************************************************************************)
(* Proofs about VmSchedule for any number of workers, vm threads and waits:*)
(* type correctness, RunExclusive, ResumeInfoFits and MainWorkerEndsLast,  *)
(* together, from an inductive invariant IInv with one lemma per part; then*)
(* NoLostWakeup, from a second one (WakeInv) that says who is on the way to*)
(* everything that could run; and last that the scheduler implements       *)
(* ExecutionContexts, step by step.                                        *)
(***************************************************************************)
EXTENDS VmSchedule, TLAPS

(* ScheduleAssumption in the form the provers use.                         *)
LEMMA Constants ==
    /\ WorkerCount \in Nat /\ WorkerCount >= 1
    /\ MaxThreads \in Nat /\ MaxThreads >= 1
    /\ MaxBlocks \in Nat
    /\ MainWorker \in Worker
    /\ MainThread \in Thread
    /\ NoThread \notin Thread
    /\ WaitTypes \subseteq AllWaitTypes
    /\ LaunchFuncs \subseteq Phases /\ "main" \in LaunchFuncs
  BY ScheduleAssumption
     DEF MainWorker, Worker, MainThread, NoThread, Thread

-----------------------------------------------------------------------------
(* The order of events in ExecuteProgram, as far as it says which workers  *)
(* have stopped: worker 0 before it wakes the others, and every other one  *)
(* before the next is joined.                                              *)
Stopped(w) == pc[w] \in {"unborn", "ended"}

BossInv ==
    /\ MainWorker \in spawned
    /\ \A w \in Worker : w \notin spawned => pc[w] = "unborn"
    /\ boss = "spawn" => \A w \in Worker : pc[w] = "unborn"
    /\ boss \in {"supervisor", "start"} => pc[MainWorker] = "unborn"
    /\ boss \in {"spawn", "supervisor", "start", "run"} => joining = 1
    /\ boss = "join" => joining < WorkerCount
    /\ boss \in {"trigger", "joinsup", "done", "crashed"} => joining = WorkerCount
    /\ boss \in {"wake", "join", "trigger", "joinsup", "done", "crashed"} =>
         \A w \in Worker : w < joining => Stopped(w)

(* The vm threads: numbered as they are created, untouched before that;    *)
(* the main thread alone has is_on_main_thread, and stays to the end.      *)
ThreadInv ==
    /\ \A t \in live : t <= created
    /\ \A t \in Thread : t > created => suspend[t] = "uninitialized"
    /\ \A t \in Thread : onMain[t] <=> t = MainThread
    /\ suspend[MainThread] # "uninitialized"
    /\ boss # "done" => MainThread \in live

(* A vm thread that is being set up belongs to one worker and is not yet   *)
(* in any suspend state.                                                   *)
FreshInv ==
    /\ \A w \in Worker : pc[w] = "spawn" =>
         fresh[w] \in live /\ suspend[fresh[w]] = "uninitialized"
    /\ \A v, w \in Worker :
         pc[v] = "spawn" /\ pc[w] = "spawn" /\ fresh[v] = fresh[w] => v = w

(* RunExclusive, and a function that suspends has said for what.           *)
RunInv ==
    /\ RunExclusive
    /\ \A w \in Worker : pc[w] = "suspending" => sinfo[cur[w]] # "none"

(* The launch functions have their turns in order, on the main thread; the *)
(* main thread is made ready again until "main" had its turn, and from     *)
(* then on never: so a scan never finds it scheduled.                      *)
Ready(f) ==
    /\ f = "globalinit" => "globalinitsimple" \in ran
    /\ f = "main" => {"globalinitsimple", "globalinit"} \subseteq ran

LaunchInv ==
    /\ \A f \in ran : Ready(f)
    /\ \A w \in Worker : launch[w] # NoFunc =>
         /\ w = MainWorker /\ Running(w)
         /\ cur[w] = MainThread
         /\ Ready(launch[w])
    /\ pc[MainWorker] \in {"relaunch", "special"} => "main" \notin ran

MainInv ==
    /\ pc[MainWorker] = "special" => suspend[MainThread] # "done"
    /\ pc[MainWorker] = "scan" /\ "main" \notin ran =>
         suspend[MainThread] \notin {"done", "asynccallscheduled"}
    /\ "main" \in ran => suspend[MainThread] # "asynccallscheduled"

(* ResumeInfoFits, and what it means for the vm threads that run.          *)
ResumeInv ==
    /\ \A t \in Thread : Waiting(t) =>
         resume[t] = func[t] /\ func[t] # NoFunc /\ ~fromStart[t]
    /\ \A t \in Thread :
         suspend[t] \in {"uninitialized", "asynccallscheduled", "done"} =>
           func[t] = NoFunc
    /\ \A t \in Thread : suspend[t] = "asynccallscheduled" =>
         IF t = MainThread THEN resume[t] = NoFunc
                           ELSE resume[t] = "asyncfunc" /\ fromStart[t]
    /\ \A w \in Worker : Running(w) =>
         /\ func[cur[w]] # NoFunc
         /\ resume[cur[w]] = IF pc[w] = "suspending" THEN func[cur[w]]
                                                     ELSE NoFunc

IInv == /\ TypeOK /\ BossInv /\ ThreadInv /\ FreshInv /\ RunInv
        /\ LaunchInv /\ MainInv /\ ResumeInv
        /\ MainWorkerEndsLast

LEMMA InitIInv == Init => IInv
<1> SUFFICES ASSUME Init PROVE IInv
  OBVIOUS
<1>1. 0 \in 0 .. MaxBlocks /\ 1 \in 1 .. WorkerCount
  BY Constants
<1>2. TypeOK
  BY <1>1, Constants
     DEF Init, TypeOK, BossPcs, WorkerPcs, RunPcs, SupPcs, SuspendTypes,
         Funcs, MainThread, MainWorker
<1>3. BossInv
  BY Constants DEF Init, BossInv
<1>4. ThreadInv
  <2>1. \A t \in Thread : t > 1 => t # MainThread
    BY DEF MainThread
  <2>2. \A t \in live : t <= created
    BY DEF Init, MainThread
  <2>3. \A t \in Thread : t > created => suspend[t] = "uninitialized"
    BY <2>1 DEF Init
  <2> QED
    BY <2>2, <2>3, Constants DEF Init, ThreadInv
<1>5. FreshInv /\ RunInv
  BY Constants DEF Init, FreshInv, RunInv, RunExclusive, Running, RunPcs
<1>6. /\ LaunchInv /\ MainInv /\ ResumeInv
      /\ MainWorkerEndsLast
  BY Constants
     DEF Init, LaunchInv, MainInv, ResumeInv, Waiting, AllWaitTypes, Running,
         RunPcs, MainWorkerEndsLast
<1> QED
  BY <1>2, <1>3, <1>4, <1>5, <1>6 DEF IInv

-----------------------------------------------------------------------------
(* What the end of a function leaves in the tables is well typed.          *)
LEMMA StopRunningTypes ==
  ASSUME TypeOK, NEW w \in Worker, NEW s \in SuspendTypes, StopRunning(w, s)
  PROVE  /\ suspend' \in [Thread -> SuspendTypes]
         /\ unlockEvent' \in BOOLEAN
         /\ resume' \in [Thread -> Funcs]
         /\ fromStart' \in [Thread -> BOOLEAN]
         /\ cur' \in [Worker -> Thread \cup {NoThread}]
         /\ launch' \in [Worker -> Phases \cup {NoFunc}]
<1> USE DEF TypeOK, StopRunning
<1>1. suspend' \in [Thread -> SuspendTypes] /\ unlockEvent' \in BOOLEAN
  BY DEF SetSuspendState
<1>2. cur[w] \in Thread => ResumeAfter(cur[w], s) \in Funcs
  BY DEF ResumeAfter, Funcs
<1>3. cur[w] \in Thread => FromStartAfter(cur[w], s) \in BOOLEAN
  BY DEF FromStartAfter
<1>4. resume' \in [Thread -> Funcs] /\ fromStart' \in [Thread -> BOOLEAN]
  BY <1>2, <1>3
<1>5. /\ cur' \in [Worker -> Thread \cup {NoThread}]
      /\ launch' \in [Worker -> Phases \cup {NoFunc}]
  OBVIOUS
<1> QED
  BY <1>1, <1>4, <1>5

LEMMA TypeStep == IInv /\ [Next]_vars => TypeOK'
<1> SUFFICES ASSUME TypeOK, BossInv, ThreadInv, RunInv, [Next]_vars PROVE TypeOK'
  BY DEF IInv
<1> USE Constants
    DEF TypeOK, WorkerPcs, RunPcs,
        bossVars, localVars, tableVars, overVars, supVars, waitVars
<1>1. ASSUME NEW w \in Worker, LoopHead(w) PROVE TypeOK'
  BY <1>1 DEF LoopHead
<1>2. CASE RescheduleMain
  BY <1>2 DEF RescheduleMain, SetSuspendState, SuspendTypes, Funcs
<1>3. CASE LaunchMain
  <2>1. NextPhase \in Phases
    BY <1>3 DEF LaunchMain
  <2> QED
    BY <1>3, <2>1 DEF LaunchMain, RunFunction, SetSuspendState, ResumeAfter,
                      SuspendTypes, Funcs
<1>4. CASE SkipLaunch
  BY <1>4 DEF SkipLaunch, NextPhase, Phases
<1>5. CASE NoLaunch
  BY <1>5 DEF NoLaunch
<1>6. ASSUME NEW w \in Worker, PickUp(w) PROVE TypeOK'
  <2> PICK t \in Thread : RunFunction(w, t, NoFunc)
    BY <1>6 DEF PickUp, Candidates
  <2> QED
    BY <1>6 DEF PickUp, RunFunction, SetSuspendState, ResumeAfter,
                SuspendTypes, Funcs
<1>7. ASSUME NEW w \in Worker, NothingToRun(w) PROVE TypeOK'
  BY <1>7 DEF NothingToRun
<1>8. ASSUME NEW w \in Worker, CheckFatal(w) PROVE TypeOK'
  BY <1>8 DEF CheckFatal
<1>9. ASSUME NEW w \in Worker, Awoken(w) PROVE TypeOK'
  BY <1>9 DEF Awoken
<1>10. ASSUME NEW w \in Worker, WaitTimeout(w) PROVE TypeOK'
  BY <1>10 DEF WaitTimeout
<1>11. ASSUME NEW w \in Worker, AsyncCall(w) PROVE TypeOK'
  <2>1. created + 1 \in Thread
    BY <1>11 DEF AsyncCall, Thread
  <2>2. live' \subseteq Thread /\ created' \in Thread
    BY <1>11, <2>1 DEF AsyncCall
  <2>3. fresh' \in [Worker -> Thread \cup {NoThread}]
    BY <1>11, <2>1 DEF AsyncCall
  <2>4. shared' \in [Thread -> BOOLEAN]
    BY <1>11, ScheduleAssumption DEF AsyncCall
  <2> QED
    BY <1>11, <2>2, <2>3, <2>4 DEF AsyncCall
<1>12. ASSUME NEW w \in Worker, AsyncCallFails(w) PROVE TypeOK'
  BY <1>12 DEF AsyncCallFails
<1>13. ASSUME NEW w \in Worker, AsyncCallScheduled(w) PROVE TypeOK'
  BY <1>13 DEF AsyncCallScheduled, SetSuspendState, SuspendTypes, Funcs
<1>14. ASSUME NEW w \in Worker, NEW type \in WaitTypes, Block(w, type) PROVE TypeOK'
  <2>1. \A t \in Thread : blocks[t] < MaxBlocks => blocks[t] + 1 \in 0 .. MaxBlocks
    OBVIOUS
  <2>2. blocks' \in [Thread -> 0 .. MaxBlocks]
    BY <1>14, <2>1 DEF Block
  <2>3. resume' \in [Thread -> Funcs]
    BY <1>14 DEF Block
  <2>4. sinfo' \in [Thread -> AllWaitTypes \cup {"none"}]
    BY <1>14 DEF Block
  <2> QED
    BY <1>14, <2>2, <2>3, <2>4 DEF Block
<1>15. ASSUME NEW w \in Worker, Suspend(w) PROVE TypeOK'
  <2>0. sinfo[cur[w]] \in SuspendTypes
    BY <1>15, Constants DEF Suspend, RunInv, RunExclusive, Running, SuspendTypes
  <2>1. suspend' \in [Thread -> SuspendTypes] /\ unlockEvent' \in BOOLEAN
    BY <1>15, <2>0, StopRunningTypes DEF Suspend
  <2>2. /\ resume' \in [Thread -> Funcs]
        /\ fromStart' \in [Thread -> BOOLEAN]
        /\ cur' \in [Worker -> Thread \cup {NoThread}]
        /\ launch' \in [Worker -> Phases \cup {NoFunc}]
    BY <1>15, <2>0, StopRunningTypes DEF Suspend
  <2>3. ran' \subseteq Phases
    BY <1>15 DEF Suspend, MarkLaunched
  <2>4. func' \in [Thread -> Funcs]
    BY <1>15 DEF Suspend, Funcs
  <2> QED
    BY <1>15, <2>1, <2>2, <2>3, <2>4 DEF Suspend
<1>16. ASSUME NEW w \in Worker, Return(w) PROVE TypeOK'
  <2>1. suspend' \in [Thread -> SuspendTypes] /\ unlockEvent' \in BOOLEAN
    BY <1>16, StopRunningTypes DEF Return, SuspendTypes
  <2>2. /\ resume' \in [Thread -> Funcs]
        /\ fromStart' \in [Thread -> BOOLEAN]
        /\ cur' \in [Worker -> Thread \cup {NoThread}]
        /\ launch' \in [Worker -> Phases \cup {NoFunc}]
    BY <1>16, StopRunningTypes DEF Return, SuspendTypes
  <2>3. ran' \subseteq Phases
    BY <1>16 DEF Return, MarkLaunched
  <2>4. func' \in [Thread -> Funcs]
    BY <1>16 DEF Return, Funcs
  <2> QED
    BY <1>16, <2>1, <2>2, <2>3, <2>4 DEF Return
<1>17. ASSUME NEW w \in Worker, Fail(w) PROVE TypeOK'
  <2>1. suspend' \in [Thread -> SuspendTypes] /\ unlockEvent' \in BOOLEAN
    BY <1>17, StopRunningTypes DEF Fail, SuspendTypes
  <2>2. /\ resume' \in [Thread -> Funcs]
        /\ fromStart' \in [Thread -> BOOLEAN]
        /\ cur' \in [Worker -> Thread \cup {NoThread}]
        /\ launch' \in [Worker -> Phases \cup {NoFunc}]
    BY <1>17, StopRunningTypes DEF Fail, SuspendTypes
  <2>3. ran' \subseteq Phases
    BY <1>17 DEF Fail, MarkLaunched
  <2>4. func' \in [Thread -> Funcs]
    BY <1>17 DEF Fail, Funcs
  <2> QED
    BY <1>17, <2>1, <2>2, <2>3, <2>4 DEF Fail
<1>18. ASSUME NEW t \in Thread, Happen(t) PROVE TypeOK'
  BY <1>18 DEF Happen
<1>19. ASSUME NEW t \in Thread, AnnounceJob(t) PROVE TypeOK'
  BY <1>19 DEF AnnounceJob
<1>20. CASE SupTimers
  BY <1>20 DEF SupTimers, SupPcs
<1>21. CASE SupAwoken
  BY <1>21 DEF SupAwoken, SupPcs
<1>22. CASE SupTick
  BY <1>22 DEF SupTick, SupPcs
<1>23. CASE SupFlush
  BY <1>23 DEF SupFlush, SupPcs
<1>24. CASE SupCheckStop
  BY <1>24 DEF SupCheckStop, SupPcs
<1>25. ASSUME NEW w \in Worker, SupSetWorker(w) PROVE TypeOK'
  BY <1>25 DEF SupSetWorker, SupPcs
<1>26. CASE SpawnWorkers
  BY <1>26 DEF SpawnWorkers, BossPcs
<1>27. CASE StartSupervisor
  BY <1>27 DEF StartSupervisor, BossPcs, SupPcs
<1>28. CASE GiveUp
  BY <1>28 DEF GiveUp, BossPcs
<1>29. CASE StartMainWorker
  BY <1>29 DEF StartMainWorker, BossPcs
<1>30. CASE MainWorkerEnded
  BY <1>30 DEF MainWorkerEnded, BossPcs
<1>31. CASE WakeForJoin
  <2>1. joining + 1 \in 1 .. WorkerCount
    BY <1>31 DEF WakeForJoin
  <2>2. CASE joining \in spawned
    BY <1>31, <2>2 DEF WakeForJoin, BossPcs
  <2>3. CASE joining \notin spawned
    BY <1>31, <2>1, <2>3 DEF WakeForJoin
  <2> QED
    BY <2>2, <2>3
<1>32. CASE Join
  <2>1. joining + 1 \in 1 .. WorkerCount
    BY <1>32 DEF Join, BossInv
  <2> QED
    BY <1>32, <2>1 DEF Join, BossPcs
<1>33. CASE StopSupervisor
  BY <1>33 DEF StopSupervisor, BossPcs
<1>34. CASE TriggerSupervisor
  BY <1>34 DEF TriggerSupervisor, BossPcs
<1>35. CASE FreeAll
  BY <1>35 DEF FreeAll, BossPcs
<1>36. CASE JoinNoSupervisor
  BY <1>36 DEF JoinNoSupervisor, BossPcs
<1>37. CASE Terminated
  BY <1>37 DEF Terminated, vars
<1>38. CASE UNCHANGED vars
  BY <1>38 DEF vars
<1> QED
  BY <1>1, <1>2, <1>3, <1>4, <1>5, <1>6, <1>7, <1>8, <1>9, <1>10, <1>11,
     <1>12, <1>13, <1>14, <1>15, <1>16, <1>17, <1>18, <1>19, <1>20, <1>21,
     <1>22, <1>23, <1>24, <1>25, <1>26, <1>27, <1>28, <1>29, <1>30, <1>31,
     <1>32, <1>33, <1>34, <1>35, <1>36, <1>37, <1>38
     DEF Next, MainWorkerStep, LoopStep, RunStep, SupStep, BossStep

-----------------------------------------------------------------------------
(* A worker that moves has not stopped, so ExecuteProgram has not passed   *)
(* it yet.                                                                 *)
LEMMA WorkerMoves ==
  ASSUME TypeOK, BossInv, NEW w \in Worker, ~Stopped(w), NEW place,
         pc' = [pc EXCEPT ![w] = place], UNCHANGED bossVars
  PROVE  BossInv'
  BY DEF TypeOK, BossInv, Stopped, bossVars

LEMMA BossStepInv == IInv /\ [Next]_vars => BossInv'
<1> SUFFICES ASSUME TypeOK, BossInv, [Next]_vars PROVE BossInv'
  BY DEF IInv
<1> USE Constants DEF Stopped
<1>1. ASSUME NEW w \in Worker, LoopHead(w) PROVE BossInv'
  BY <1>1, WorkerMoves DEF LoopHead, bossVars
<1>2. CASE RescheduleMain
  BY <1>2, WorkerMoves DEF RescheduleMain, bossVars
<1>3. CASE LaunchMain
  BY <1>3, WorkerMoves DEF LaunchMain, RunFunction, bossVars
<1>4. CASE SkipLaunch
  BY <1>4, WorkerMoves DEF SkipLaunch, bossVars
<1>5. CASE NoLaunch
  BY <1>5, WorkerMoves DEF NoLaunch, bossVars
<1>6. ASSUME NEW w \in Worker, PickUp(w) PROVE BossInv'
  BY <1>6, WorkerMoves DEF PickUp, RunFunction, bossVars
<1>7. ASSUME NEW w \in Worker, NothingToRun(w) PROVE BossInv'
  BY <1>7, WorkerMoves DEF NothingToRun, bossVars
<1>8. ASSUME NEW w \in Worker, CheckFatal(w) PROVE BossInv'
  BY <1>8, WorkerMoves DEF CheckFatal, bossVars
<1>9. ASSUME NEW w \in Worker, Awoken(w) PROVE BossInv'
  BY <1>9, WorkerMoves DEF Awoken, bossVars
<1>10. ASSUME NEW w \in Worker, WaitTimeout(w) PROVE BossInv'
  BY <1>10, WorkerMoves DEF WaitTimeout, bossVars
<1>11. ASSUME NEW w \in Worker, AsyncCall(w) PROVE BossInv'
  BY <1>11, WorkerMoves DEF AsyncCall, bossVars
<1>12. ASSUME NEW w \in Worker, AsyncCallFails(w) PROVE BossInv'
  BY <1>12, WorkerMoves DEF AsyncCallFails, bossVars
<1>13. ASSUME NEW w \in Worker, AsyncCallScheduled(w) PROVE BossInv'
  BY <1>13, WorkerMoves DEF AsyncCallScheduled, bossVars
<1>14. ASSUME NEW w \in Worker, NEW type \in WaitTypes, Block(w, type) PROVE BossInv'
  BY <1>14, WorkerMoves DEF Block, bossVars
<1>15. ASSUME NEW w \in Worker, Suspend(w) PROVE BossInv'
  BY <1>15, WorkerMoves DEF Suspend, bossVars
<1>16. ASSUME NEW w \in Worker, Return(w) PROVE BossInv'
  BY <1>16, WorkerMoves DEF Return, bossVars
<1>17. ASSUME NEW w \in Worker, Fail(w) PROVE BossInv'
  BY <1>17, WorkerMoves DEF Fail, bossVars
<1>18. ASSUME NEW t \in Thread, Happen(t) PROVE BossInv'
  BY <1>18 DEF Happen, BossInv, Stopped, bossVars
<1>19. ASSUME NEW t \in Thread, AnnounceJob(t) PROVE BossInv'
  BY <1>19 DEF AnnounceJob, BossInv, Stopped, bossVars
<1>20. CASE SupTimers
  BY <1>20 DEF SupTimers, BossInv, Stopped, bossVars
<1>21. CASE SupAwoken
  BY <1>21 DEF SupAwoken, BossInv, Stopped, bossVars
<1>22. CASE SupTick
  BY <1>22 DEF SupTick, BossInv, Stopped, bossVars
<1>23. CASE SupFlush
  BY <1>23 DEF SupFlush, BossInv, Stopped, bossVars
<1>24. CASE SupCheckStop
  BY <1>24 DEF SupCheckStop, BossInv, Stopped, bossVars
<1>25. ASSUME NEW w \in Worker, SupSetWorker(w) PROVE BossInv'
  BY <1>25 DEF SupSetWorker, BossInv, Stopped, bossVars
<1>26. CASE SpawnWorkers
  BY <1>26 DEF SpawnWorkers, BossInv, Stopped, MainWorker, Worker
<1>27. CASE StartSupervisor
  BY <1>27 DEF StartSupervisor, BossInv, Stopped, MainWorker, Worker
<1>28. CASE GiveUp
  BY <1>28 DEF GiveUp, BossInv, Stopped, MainWorker, Worker
<1>29. CASE StartMainWorker
  BY <1>29 DEF StartMainWorker, BossInv, TypeOK
<1>30. CASE MainWorkerEnded
  BY <1>30 DEF MainWorkerEnded, BossInv, Stopped, MainWorker, Worker
<1>31. CASE WakeForJoin
  <2>1. joining \in Worker /\ \A w \in Worker : w < joining + 1 => w < joining \/ w = joining
    BY <1>31 DEF WakeForJoin, BossInv, TypeOK, Worker
  <2>2. CASE joining \in spawned
    BY <1>31, <2>2 DEF WakeForJoin, BossInv
  <2>3. CASE joining \notin spawned
    <3>1. \A w \in Worker : w < joining + 1 => Stopped(w)
      BY <1>31, <2>1, <2>3 DEF WakeForJoin, BossInv
    <3> QED
      BY <1>31, <2>3, <3>1 DEF WakeForJoin, BossInv
  <2> QED
    BY <2>2, <2>3
<1>32. CASE Join
  <2>1. joining \in Worker /\ \A w \in Worker : w < joining + 1 => w < joining \/ w = joining
    BY <1>32 DEF Join, BossInv, TypeOK, Worker
  <2>2. \A w \in Worker : w < joining + 1 => Stopped(w)
    BY <1>32, <2>1 DEF Join, BossInv
  <2> QED
    BY <1>32, <2>1, <2>2 DEF Join, BossInv
<1>33. CASE StopSupervisor
  BY <1>33 DEF StopSupervisor, BossInv, Stopped, MainWorker, Worker
<1>34. CASE TriggerSupervisor
  BY <1>34 DEF TriggerSupervisor, BossInv, Stopped, MainWorker, Worker
<1>35. CASE FreeAll
  BY <1>35 DEF FreeAll, BossInv, Stopped, MainWorker, Worker
<1>36. CASE JoinNoSupervisor
  BY <1>36 DEF JoinNoSupervisor, BossInv, Stopped, MainWorker, Worker
<1>37. CASE Terminated
  BY <1>37 DEF Terminated, vars, BossInv, Stopped, bossVars
<1>38. CASE UNCHANGED vars
  BY <1>38 DEF vars, BossInv, bossVars
<1> QED
  BY <1>1, <1>2, <1>3, <1>4, <1>5, <1>6, <1>7, <1>8, <1>9, <1>10, <1>11,
     <1>12, <1>13, <1>14, <1>15, <1>16, <1>17, <1>18, <1>19, <1>20, <1>21,
     <1>22, <1>23, <1>24, <1>25, <1>26, <1>27, <1>28, <1>29, <1>30, <1>31,
     <1>32, <1>33, <1>34, <1>35, <1>36, <1>37, <1>38
     DEF Next, MainWorkerStep, LoopStep, RunStep, SupStep, BossStep

-----------------------------------------------------------------------------
(* The steps that move neither a worker nor a vm thread: those of the       *)
(* supervisor, of the world outside and most of ExecuteProgram's.          *)
Aside ==
    \/ \E t \in Thread : Happen(t) \/ AnnounceJob(t)
    \/ SupStep \/ SupTick
    \/ StartSupervisor \/ GiveUp \/ MainWorkerEnded \/ WakeForJoin \/ Join
    \/ StopSupervisor \/ TriggerSupervisor \/ JoinNoSupervisor \/ Terminated
    \/ UNCHANGED vars

LEMMA AsideKeeps ==
  ASSUME Aside
  PROVE  /\ UNCHANGED <<pc, localVars, tableVars, ran, fatal, sinfo>>
         /\ boss = "done" => boss' = "done"
<1> USE DEF localVars, tableVars, overVars, supVars, waitVars, bossVars
<1>1. ASSUME NEW t \in Thread, Happen(t) \/ AnnounceJob(t)
      PROVE  UNCHANGED <<pc, localVars, tableVars, ran, fatal, sinfo, boss>>
  BY <1>1 DEF Happen, AnnounceJob
<1>2. CASE SupStep \/ SupTick
  BY <1>2 DEF SupStep, SupTimers, SupAwoken, SupTick, SupFlush, SupCheckStop,
              SupSetWorker
<1>3. CASE StartSupervisor \/ GiveUp \/ MainWorkerEnded \/ WakeForJoin \/ Join
  BY <1>3 DEF StartSupervisor, GiveUp, MainWorkerEnded, WakeForJoin, Join
<1>4. CASE StopSupervisor \/ TriggerSupervisor \/ JoinNoSupervisor
  BY <1>4 DEF StopSupervisor, TriggerSupervisor, JoinNoSupervisor
<1>5. CASE Terminated \/ UNCHANGED vars
  BY <1>5 DEF Terminated, vars
<1> QED
  BY <1>1, <1>2, <1>3, <1>4, <1>5 DEF Aside

(* Only an async call makes a vm thread, and only ExecuteProgram, at the    *)
(* very end, takes the main thread away.                                   *)
LEMMA ThreadStepInv == IInv /\ [Next]_vars => ThreadInv'
<1> SUFFICES ASSUME IInv, [Next]_vars PROVE ThreadInv'
  OBVIOUS
<1> USE Constants DEF IInv, TypeOK, ThreadInv, bossVars, tableVars
<1>0. \A t \in live : ~(t > created)
  BY DEF Thread
<1>1. CASE Aside
  BY <1>1, AsideKeeps
<1>2. ASSUME NEW w \in Worker, LoopHead(w) PROVE ThreadInv'
  BY <1>2 DEF LoopHead
<1>3. CASE RescheduleMain
  BY <1>3 DEF RescheduleMain, SetSuspendState
<1>4. CASE LaunchMain
  BY <1>4 DEF LaunchMain, RunFunction, SetSuspendState
<1>5. CASE SkipLaunch
  BY <1>5 DEF SkipLaunch
<1>6. CASE NoLaunch
  BY <1>6 DEF NoLaunch
<1>7. ASSUME NEW w \in Worker, PickUp(w) PROVE ThreadInv'
  BY <1>7
     DEF PickUp, Candidates, RunFunction, CanThreadResume, AllWaitTypes,
         SetSuspendState
<1>8. ASSUME NEW w \in Worker, NothingToRun(w) PROVE ThreadInv'
  BY <1>8 DEF NothingToRun
<1>9. ASSUME NEW w \in Worker, CheckFatal(w) PROVE ThreadInv'
  BY <1>9 DEF CheckFatal
<1>10. ASSUME NEW w \in Worker, Awoken(w) PROVE ThreadInv'
  BY <1>10 DEF Awoken
<1>11. ASSUME NEW w \in Worker, WaitTimeout(w) PROVE ThreadInv'
  BY <1>11 DEF WaitTimeout
<1>12. ASSUME NEW w \in Worker, AsyncCall(w) PROVE ThreadInv'
  <2>1. created + 1 \in Nat /\ created + 1 > created
    BY DEF Thread
  <2>2. \A t \in Thread : t > created + 1 => t > created
    BY DEF Thread
  <2>3. \A t \in Thread : t <= created => t <= created + 1
    BY DEF Thread
  <2> QED
    BY <1>12, <2>1, <2>2, <2>3 DEF AsyncCall
<1>13. ASSUME NEW w \in Worker, AsyncCallFails(w) PROVE ThreadInv'
  BY <1>13 DEF AsyncCallFails, FreshInv
<1>14. ASSUME NEW w \in Worker, AsyncCallScheduled(w)
      PROVE  ThreadInv'
  BY <1>14, <1>0 DEF AsyncCallScheduled, FreshInv, SetSuspendState
<1>15. ASSUME NEW w \in Worker, NEW type \in WaitTypes, Block(w, type)
      PROVE  ThreadInv'
  BY <1>15 DEF Block
<1>16. ASSUME NEW w \in Worker, Suspend(w) PROVE ThreadInv'
  <2>1. /\ cur[w] \in live
        /\ sinfo[cur[w]] \in AllWaitTypes
    BY <1>16 DEF Suspend, RunInv, RunExclusive, Running, RunPcs
  <2> QED
    BY <1>16, <2>1, <1>0 DEF Suspend, StopRunning, SetSuspendState, AllWaitTypes
<1>17. ASSUME NEW w \in Worker, Return(w) PROVE ThreadInv'
  <2>1. cur[w] \in live
    BY <1>17 DEF Return, RunInv, RunExclusive, Running, RunPcs
  <2> QED
    BY <1>17, <2>1, <1>0 DEF Return, StopRunning, SetSuspendState
<1>18. ASSUME NEW w \in Worker, Fail(w) PROVE ThreadInv'
  <2>1. cur[w] \in live
    BY <1>18 DEF Fail, RunInv, RunExclusive, Running, RunPcs
  <2> QED
    BY <1>18, <2>1, <1>0 DEF Fail, StopRunning, SetSuspendState
<1>19. CASE SpawnWorkers
  BY <1>19 DEF SpawnWorkers
<1>20. CASE StartMainWorker
  BY <1>20 DEF StartMainWorker
<1>21. CASE FreeAll
  BY <1>21 DEF FreeAll
<1> QED
  BY <1>1, <1>2, <1>3, <1>4, <1>5, <1>6, <1>7, <1>8, <1>9, <1>10, <1>11,
     <1>12, <1>13, <1>14, <1>15, <1>16, <1>17, <1>18, <1>19, <1>20, <1>21
     DEF Next, MainWorkerStep, LoopStep, RunStep, SupStep, BossStep,
         Aside

-----------------------------------------------------------------------------
(* An async call takes a number nobody else has.                           *)
LEMMA FreshStepInv == IInv /\ [Next]_vars => FreshInv'
<1> SUFFICES ASSUME IInv, [Next]_vars PROVE FreshInv'
  OBVIOUS
<1> USE Constants DEF IInv, TypeOK, FreshInv, bossVars, localVars, tableVars
<1>1. CASE Aside
  BY <1>1, AsideKeeps
<1>2. ASSUME NEW w \in Worker, LoopHead(w) PROVE FreshInv'
  BY <1>2 DEF LoopHead
<1>3. CASE RescheduleMain
  BY <1>3 DEF RescheduleMain, SetSuspendState, ThreadInv
<1>4. CASE LaunchMain
  BY <1>4
     DEF LaunchMain, RunFunction, SetSuspendState, CanThreadResume,
         AllWaitTypes, ThreadInv
<1>5. CASE SkipLaunch
  BY <1>5 DEF SkipLaunch
<1>6. CASE NoLaunch
  BY <1>6 DEF NoLaunch
<1>7. ASSUME NEW w \in Worker, PickUp(w) PROVE FreshInv'
  BY <1>7
     DEF PickUp, Candidates, RunFunction, CanThreadResume, AllWaitTypes,
         SetSuspendState
<1>8. ASSUME NEW w \in Worker, NothingToRun(w) PROVE FreshInv'
  BY <1>8 DEF NothingToRun
<1>9. ASSUME NEW w \in Worker, CheckFatal(w) PROVE FreshInv'
  BY <1>9 DEF CheckFatal
<1>10. ASSUME NEW w \in Worker, Awoken(w) PROVE FreshInv'
  BY <1>10 DEF Awoken
<1>11. ASSUME NEW w \in Worker, WaitTimeout(w) PROVE FreshInv'
  BY <1>11 DEF WaitTimeout
<1>12. ASSUME NEW w \in Worker, AsyncCall(w) PROVE FreshInv'
  <2>1. created + 1 \in Thread /\ created + 1 > created
    BY <1>12 DEF AsyncCall, Thread
  <2>2. suspend[created + 1] = "uninitialized"
    BY <2>1 DEF ThreadInv
  <2>3. created + 1 \notin live
    BY <2>1 DEF ThreadInv, Thread
  <2> QED
    BY <1>12, <2>1, <2>2, <2>3 DEF AsyncCall
<1>13. ASSUME NEW w \in Worker, AsyncCallFails(w) PROVE FreshInv'
  BY <1>13 DEF AsyncCallFails
<1>14. ASSUME NEW w \in Worker, AsyncCallScheduled(w)
      PROVE  FreshInv'
  BY <1>14 DEF AsyncCallScheduled, SetSuspendState
<1>15. ASSUME NEW w \in Worker, NEW type \in WaitTypes, Block(w, type)
      PROVE  FreshInv'
  BY <1>15 DEF Block
<1>16. ASSUME NEW w \in Worker, Suspend(w) PROVE FreshInv'
  <2>1. suspend[cur[w]] = "none"
    BY <1>16 DEF Suspend, RunInv, RunExclusive, Running, RunPcs
  <2> QED
    BY <1>16, <2>1 DEF Suspend, StopRunning, SetSuspendState
<1>17. ASSUME NEW w \in Worker, Return(w) PROVE FreshInv'
  <2>1. suspend[cur[w]] = "none"
    BY <1>17 DEF Return, RunInv, RunExclusive, Running, RunPcs
  <2> QED
    BY <1>17, <2>1 DEF Return, StopRunning, SetSuspendState
<1>18. ASSUME NEW w \in Worker, Fail(w) PROVE FreshInv'
  <2>1. suspend[cur[w]] = "none"
    BY <1>18 DEF Fail, RunInv, RunExclusive, Running, RunPcs
  <2> QED
    BY <1>18, <2>1 DEF Fail, StopRunning, SetSuspendState
<1>19. CASE SpawnWorkers
  BY <1>19 DEF SpawnWorkers
<1>20. CASE StartMainWorker
  BY <1>20 DEF StartMainWorker
<1>21. CASE FreeAll
  <2>1. \A w \in Worker : w < joining
    BY <1>21 DEF FreeAll, BossInv, Worker
  <2>2. \A w \in Worker : pc[w] # "spawn"
    BY <1>21, <2>1 DEF FreeAll, BossInv, Stopped
  <2> QED
    BY <1>21, <2>2 DEF FreeAll
<1> QED
  BY <1>1, <1>2, <1>3, <1>4, <1>5, <1>6, <1>7, <1>8, <1>9, <1>10, <1>11,
     <1>12, <1>13, <1>14, <1>15, <1>16, <1>17, <1>18, <1>19, <1>20, <1>21
     DEF Next, MainWorkerStep, LoopStep, RunStep, SupStep, BossStep,
         Aside

-----------------------------------------------------------------------------
(* A worker that runs nothing goes from one place to another.              *)
LEMMA IdleMoves ==
  ASSUME TypeOK, RunInv, NEW w \in Worker, ~Running(w), NEW place,
         place \notin RunPcs, pc' = [pc EXCEPT ![w] = place],
         UNCHANGED <<cur, live, suspend, sinfo>>
  PROVE  RunInv'
  BY DEF TypeOK, RunInv, RunExclusive, Running, RunPcs

(* A worker that runs nothing takes a vm thread that is not running.       *)
LEMMA StartsRunning ==
  ASSUME TypeOK, RunInv, NEW w \in Worker, ~Running(w), NEW t \in live, NEW f,
         suspend[t] # "none", t = MainThread => w = MainWorker,
         RunFunction(w, t, f), UNCHANGED live
  PROVE  RunInv'
<1> USE DEF TypeOK, RunInv, Running, RunPcs, RunFunction, SetSuspendState
<1>1. \A v \in Worker : Running(v) => cur[v] # t
  BY DEF RunExclusive
<1>2. RunExclusive'
  BY <1>1 DEF RunExclusive
<1>3. (\A v \in Worker : pc[v] = "suspending" => sinfo[cur[v]] # "none")'
  BY <1>1
<1> QED
  BY <1>2, <1>3

(* A worker lets go of its vm thread.                                      *)
LEMMA StopsRunning ==
  ASSUME TypeOK, RunInv, NEW w \in Worker, Running(w), NEW s, NEW place,
         s # "none", StopRunning(w, s), place \notin RunPcs,
         pc' = [pc EXCEPT ![w] = place], UNCHANGED <<live, sinfo>>
  PROVE  RunInv'
<1> USE DEF TypeOK, RunInv, Running, RunPcs, StopRunning, SetSuspendState
<1>1. \A v \in Worker : Running(v) /\ v # w => cur[v] # cur[w]
  BY DEF RunExclusive
<1>2. cur[w] \in Thread
  BY DEF RunExclusive
<1>3. RunExclusive'
  BY <1>1, <1>2 DEF RunExclusive
<1>4. (\A v \in Worker : pc[v] = "suspending" => sinfo[cur[v]] # "none")'
  BY <1>1
<1> QED
  BY <1>3, <1>4

LEMMA RunStepInv == IInv /\ [Next]_vars => RunInv'
<1> SUFFICES ASSUME IInv, [Next]_vars PROVE RunInv'
  OBVIOUS
<1> USE Constants DEF IInv
<1>1. CASE Aside
  BY <1>1, AsideKeeps DEF RunInv, RunExclusive, Running, localVars, tableVars
<1>2. ASSUME NEW w \in Worker, LoopHead(w) PROVE RunInv'
  <2>1. PICK place \in {"ended", "relaunch", "scan"} :
          pc' = [pc EXCEPT ![w] = place]
    BY <1>2 DEF LoopHead
  <2> QED
    BY <1>2, <2>1, IdleMoves DEF LoopHead, Running, RunPcs, tableVars, waitVars
<1>3. CASE RescheduleMain
  <2>1. suspend[MainThread] # "none" \/ UNCHANGED suspend
    BY <1>3 DEF RescheduleMain
  <2> QED
    BY <1>3, <2>1
       DEF RescheduleMain, SetSuspendState, TypeOK, RunInv, RunExclusive,
                     Running, RunPcs, localVars, waitVars
<1>4. CASE LaunchMain
  <2>1. suspend[MainThread] # "none" /\ MainThread \in live
    <3>1. boss # "done"
      BY <1>4 DEF LaunchMain, BossInv, Stopped, MainWorker
    <3> QED
      BY <1>4, <3>1 DEF LaunchMain, CanThreadResume, ThreadInv
  <2> QED
    BY <1>4, <2>1, StartsRunning DEF LaunchMain, Running, RunPcs
<1>5. CASE SkipLaunch
  BY <1>5, IdleMoves
     DEF SkipLaunch, Running, RunPcs, localVars, tableVars, waitVars
<1>6. CASE NoLaunch
  BY <1>6, IdleMoves
     DEF NoLaunch, Running, RunPcs, localVars, tableVars, waitVars
<1>7. ASSUME NEW w \in Worker, PickUp(w) PROVE RunInv'
  <2>1. PICK t \in Candidates(w) : RunFunction(w, t, NoFunc)
    BY <1>7 DEF PickUp
  <2>2. t \in live /\ suspend[t] # "none"
    BY <2>1 DEF Candidates, CanThreadResume
  <2>3. t = MainThread => w = MainWorker
    BY <2>1 DEF Candidates, ThreadInv
  <2> QED
    BY <1>7, <2>1, <2>2, <2>3, StartsRunning DEF PickUp, Running, RunPcs
<1>8. ASSUME NEW w \in Worker, NothingToRun(w) PROVE RunInv'
  <2>1. PICK place \in {"ended", "idle"} : pc' = [pc EXCEPT ![w] = place]
    BY <1>8 DEF NothingToRun
  <2> QED
    BY <1>8, <2>1, IdleMoves
       DEF NothingToRun, Running, RunPcs, localVars, tableVars, waitVars
<1>9. ASSUME NEW w \in Worker, CheckFatal(w) PROVE RunInv'
  <2>1. PICK place \in {"ended", "wait"} : pc' = [pc EXCEPT ![w] = place]
    BY <1>9 DEF CheckFatal
  <2> QED
    BY <1>9, <2>1, IdleMoves
       DEF CheckFatal, Running, RunPcs, localVars, tableVars, waitVars
<1>10. ASSUME NEW w \in Worker, Awoken(w) PROVE RunInv'
  BY <1>10, IdleMoves
     DEF Awoken, Running, RunPcs, localVars, tableVars, waitVars
<1>11. ASSUME NEW w \in Worker, WaitTimeout(w) PROVE RunInv'
  BY <1>11, IdleMoves
     DEF WaitTimeout, Running, RunPcs, localVars, tableVars, waitVars
<1>12. ASSUME NEW w \in Worker, AsyncCall(w) PROVE RunInv'
  <2>1. created + 1 \in Thread /\ created + 1 > created
    BY <1>12 DEF AsyncCall, Thread, TypeOK
  <2>2. suspend[created + 1] = "uninitialized"
    BY <2>1 DEF ThreadInv
  <2> QED
    BY <1>12, <2>2 DEF AsyncCall, TypeOK, RunInv, RunExclusive, Running, RunPcs,
                     waitVars
<1>13. ASSUME NEW w \in Worker, AsyncCallFails(w) PROVE RunInv'
  <2>1. suspend[fresh[w]] = "uninitialized"
    BY <1>13 DEF AsyncCallFails, FreshInv
  <2> QED
    BY <1>13, <2>1 DEF AsyncCallFails, TypeOK, RunInv, RunExclusive, Running,
                     RunPcs, waitVars
<1>14. ASSUME NEW w \in Worker, AsyncCallScheduled(w) PROVE RunInv'
  <2>1. suspend[fresh[w]] = "uninitialized"
    BY <1>14 DEF AsyncCallScheduled, FreshInv
  <2> QED
    BY <1>14, <2>1 DEF AsyncCallScheduled, SetSuspendState, TypeOK, RunInv,
                     RunExclusive, Running, RunPcs, waitVars
<1>15. ASSUME NEW w \in Worker, NEW type \in WaitTypes, Block(w, type)
      PROVE  RunInv'
  <2>1. type # "none" /\ Running(w)
    BY <1>15 DEF Block, Running, RunPcs, AllWaitTypes
  <2>2. RunExclusive'
    BY <1>15, <2>1 DEF Block, TypeOK, RunInv, RunExclusive, Running, RunPcs
  <2>3. (\A v \in Worker : pc[v] = "suspending" => sinfo[cur[v]] # "none")'
    BY <1>15, <2>1 DEF Block, TypeOK, RunInv, RunExclusive, Running, RunPcs
  <2> QED
    BY <2>2, <2>3 DEF RunInv
<1>16. ASSUME NEW w \in Worker, Suspend(w) PROVE RunInv'
  <2>1. sinfo[cur[w]] # "none"
    BY <1>16 DEF Suspend, RunInv
  <2> QED
    BY <1>16, <2>1, StopsRunning DEF Suspend, Running, RunPcs, waitVars
<1>17. ASSUME NEW w \in Worker, Return(w) PROVE RunInv'
  BY <1>17, StopsRunning DEF Return, Running, RunPcs, waitVars
<1>18. ASSUME NEW w \in Worker, Fail(w) PROVE RunInv'
  <2>1. PICK place \in {"ended", "loop"} : pc' = [pc EXCEPT ![w] = place]
    BY <1>18 DEF Fail
  <2> QED
    BY <1>18, <2>1, StopsRunning DEF Fail, Running, RunPcs, waitVars
<1>19. CASE SpawnWorkers
  <2>1. \A w \in Worker : ~Running(w) /\ ~Running(w)'
    BY <1>19 DEF SpawnWorkers, BossInv, TypeOK, Running, RunPcs
  <2> QED
    BY <1>19, <2>1 DEF SpawnWorkers, RunInv, RunExclusive, Running, RunPcs,
                     localVars, tableVars, waitVars
<1>20. CASE StartMainWorker
  <2>1. ~Running(MainWorker)
    BY <1>20 DEF StartMainWorker, BossInv, Running, RunPcs
  <2> QED
    BY <1>20, <2>1, IdleMoves
       DEF StartMainWorker, RunPcs, localVars, tableVars, waitVars
<1>21. CASE FreeAll
  <2>1. \A w \in Worker : ~Running(w)
    BY <1>21 DEF FreeAll, BossInv, Stopped, Worker, Running, RunPcs
  <2> QED
    BY <1>21, <2>1 DEF FreeAll, RunInv, RunExclusive, Running, RunPcs, localVars
<1> QED
  BY <1>1, <1>2, <1>3, <1>4, <1>5, <1>6, <1>7, <1>8, <1>9, <1>10, <1>11,
     <1>12, <1>13, <1>14, <1>15, <1>16, <1>17, <1>18, <1>19, <1>20, <1>21
     DEF Next, MainWorkerStep, LoopStep, RunStep, SupStep, BossStep,
         Aside

-----------------------------------------------------------------------------
(* Worker 0 alone launches, one function after the other.                  *)
LEMMA LaunchStepInv == IInv /\ [Next]_vars => LaunchInv'
<1> SUFFICES ASSUME IInv, [Next]_vars PROVE LaunchInv'
  OBVIOUS
<1> USE Constants DEF IInv
<1>1. CASE Aside
  BY <1>1, AsideKeeps DEF LaunchInv, Ready, Running, localVars
<1>2. ASSUME NEW w \in Worker, LoopHead(w) PROVE LaunchInv'
  BY <1>2
     DEF LoopHead, TypeOK, LaunchInv, Ready, Running, RunPcs, localVars,
         tableVars, overVars
<1>3. CASE RescheduleMain
  BY <1>3
     DEF RescheduleMain, TypeOK, LaunchInv, Ready, Running, RunPcs, localVars,
         tableVars, overVars
<1>4. CASE LaunchMain
  <2>1. Ready(NextPhase)
    BY <1>4 DEF LaunchMain, NextPhase, Ready, Phases
  <2>2. pc'[MainWorker] = "run" /\ cur'[MainWorker] = MainThread
    BY <1>4 DEF LaunchMain, RunFunction, TypeOK
  <2> QED
    BY <1>4, <2>1, <2>2 DEF LaunchMain, RunFunction, TypeOK, LaunchInv, Ready,
                           Running, RunPcs, overVars
<1>5. CASE SkipLaunch
  <2>1. NextPhase \in Phases /\ Ready(NextPhase)
    BY <1>5 DEF SkipLaunch, NextPhase, Ready, Phases
  <2> QED
    BY <1>5, <2>1 DEF SkipLaunch, TypeOK, LaunchInv, Ready, Running, RunPcs,
                     localVars
<1>6. CASE NoLaunch
  BY <1>6
     DEF NoLaunch, TypeOK, LaunchInv, Ready, Running, RunPcs, localVars,
         tableVars, overVars
<1>7. ASSUME NEW w \in Worker, PickUp(w) PROVE LaunchInv'
  <2>1. PICK t : RunFunction(w, t, NoFunc)
    BY <1>7 DEF PickUp
  <2> QED
    BY <1>7, <2>1
       DEF PickUp, RunFunction, TypeOK, LaunchInv, Ready, Running, RunPcs,
           localVars, tableVars, overVars
<1>8. ASSUME NEW w \in Worker, NothingToRun(w) PROVE LaunchInv'
  BY <1>8
     DEF NothingToRun, TypeOK, LaunchInv, Ready, Running, RunPcs, localVars,
         tableVars, overVars
<1>9. ASSUME NEW w \in Worker, CheckFatal(w) PROVE LaunchInv'
  BY <1>9
     DEF CheckFatal, TypeOK, LaunchInv, Ready, Running, RunPcs, localVars,
         tableVars, overVars
<1>10. ASSUME NEW w \in Worker, Awoken(w) PROVE LaunchInv'
  BY <1>10
     DEF Awoken, TypeOK, LaunchInv, Ready, Running, RunPcs, localVars,
         tableVars, overVars
<1>11. ASSUME NEW w \in Worker, WaitTimeout(w) PROVE LaunchInv'
  BY <1>11
     DEF WaitTimeout, TypeOK, LaunchInv, Ready, Running, RunPcs, localVars,
         tableVars, overVars
<1>12. ASSUME NEW w \in Worker, AsyncCall(w) PROVE LaunchInv'
  BY <1>12
     DEF AsyncCall, TypeOK, LaunchInv, Ready, Running, RunPcs, localVars,
         tableVars, overVars
<1>13. ASSUME NEW w \in Worker, AsyncCallFails(w) PROVE LaunchInv'
  BY <1>13
     DEF AsyncCallFails, TypeOK, LaunchInv, Ready, Running, RunPcs, localVars,
         tableVars, overVars
<1>14. ASSUME NEW w \in Worker, AsyncCallScheduled(w)
      PROVE  LaunchInv'
  BY <1>14
     DEF AsyncCallScheduled, TypeOK, LaunchInv, Ready, Running, RunPcs,
         localVars, tableVars, overVars
<1>15. ASSUME NEW w \in Worker, NEW type \in WaitTypes, Block(w, type)
      PROVE  LaunchInv'
  BY <1>15
     DEF Block, TypeOK, LaunchInv, Ready, Running, RunPcs, localVars,
         tableVars, overVars
<1>16. ASSUME NEW w \in Worker, Suspend(w) PROVE LaunchInv'
  <2>1. launch'[w] = NoFunc
    BY <1>16 DEF Suspend, StopRunning, TypeOK
  <2>2. \A f \in ran' : Ready(f)'
    BY <1>16 DEF Suspend, MarkLaunched, LaunchInv, Ready
  <2>3. pc'[MainWorker] \in {"relaunch", "special"} => "main" \notin ran'
    BY <1>16 DEF Suspend, MarkLaunched, LaunchInv, TypeOK, Running, RunPcs
  <2>4. \A v \in Worker : v # w =>
          /\ pc'[v] = pc[v] /\ cur'[v] = cur[v]
          /\ launch'[v] = launch[v]
    BY <1>16 DEF Suspend, StopRunning, TypeOK
  <2>5. \A f : Ready(f) => Ready(f)'
    BY <1>16 DEF Suspend, MarkLaunched, Ready
  <2> QED
    BY <2>1, <2>2, <2>3, <2>4, <2>5 DEF LaunchInv, Running
<1>17. ASSUME NEW w \in Worker, Return(w) PROVE LaunchInv'
  <2>1. launch'[w] = NoFunc
    BY <1>17 DEF Return, StopRunning, TypeOK
  <2>2. \A f \in ran' : Ready(f)'
    BY <1>17 DEF Return, MarkLaunched, LaunchInv, Ready
  <2>3. pc'[MainWorker] \in {"relaunch", "special"} => "main" \notin ran'
    BY <1>17 DEF Return, MarkLaunched, LaunchInv, TypeOK, Running, RunPcs
  <2>4. \A v \in Worker : v # w =>
          /\ pc'[v] = pc[v] /\ cur'[v] = cur[v]
          /\ launch'[v] = launch[v]
    BY <1>17 DEF Return, StopRunning, TypeOK
  <2>5. \A f : Ready(f) => Ready(f)'
    BY <1>17 DEF Return, MarkLaunched, Ready
  <2> QED
    BY <2>1, <2>2, <2>3, <2>4, <2>5 DEF LaunchInv, Running
<1>18. ASSUME NEW w \in Worker, Fail(w) PROVE LaunchInv'
  BY <1>18
     DEF Fail, StopRunning, TypeOK, LaunchInv, Ready, Running, RunPcs,
         localVars, tableVars, overVars
<1>19. CASE SpawnWorkers
  BY <1>19
     DEF SpawnWorkers, BossInv, TypeOK, LaunchInv, Ready, Running, RunPcs,
         localVars, tableVars, overVars
<1>20. CASE StartMainWorker
  BY <1>20
     DEF StartMainWorker, BossInv, TypeOK, LaunchInv, Ready, Running, RunPcs,
         localVars, tableVars, overVars
<1>21. CASE FreeAll
  BY <1>21
     DEF FreeAll, TypeOK, LaunchInv, Ready, Running, RunPcs, localVars,
         tableVars, overVars
<1> QED
  BY <1>1, <1>2, <1>3, <1>4, <1>5, <1>6, <1>7, <1>8, <1>9, <1>10, <1>11,
     <1>12, <1>13, <1>14, <1>15, <1>16, <1>17, <1>18, <1>19, <1>20, <1>21
     DEF Next, MainWorkerStep, LoopStep, RunStep, SupStep, BossStep,
         Aside

-----------------------------------------------------------------------------
(* Nobody but worker 0 changes the suspend state of the main thread.       *)
LEMMA MainStepInv == IInv /\ [Next]_vars => MainInv'
<1> SUFFICES ASSUME IInv, [Next]_vars PROVE MainInv'
  OBVIOUS
<1> USE Constants DEF IInv
<1>1. CASE Aside
  BY <1>1, AsideKeeps DEF MainInv, tableVars
<1>2. ASSUME NEW w \in Worker, LoopHead(w) PROVE MainInv'
  BY <1>2 DEF LoopHead, MainInv, TypeOK, localVars, tableVars, overVars
<1>3. CASE RescheduleMain
  BY <1>3
     DEF RescheduleMain, SetSuspendState, LaunchInv, MainInv, TypeOK,
         localVars, tableVars, overVars
<1>4. CASE LaunchMain
  BY <1>4
     DEF LaunchMain, RunFunction, SetSuspendState, MainInv, TypeOK, localVars,
         tableVars, overVars
<1>5. CASE SkipLaunch
  <2>1. NextPhase # "main"
    BY <1>5 DEF SkipLaunch
  <2> QED
    BY <1>5, <2>1 DEF SkipLaunch, MainInv, TypeOK, tableVars
<1>6. CASE NoLaunch
  <2>1. suspend[MainThread] # "asynccallscheduled"
    BY <1>6 DEF NoLaunch, CanThreadResume
  <2> QED
    BY <1>6, <2>1 DEF NoLaunch, MainInv, TypeOK, tableVars, overVars
<1>7. ASSUME NEW w \in Worker, PickUp(w) PROVE MainInv'
  <2>1. PICK t \in Candidates(w) : RunFunction(w, t, NoFunc)
    BY <1>7 DEF PickUp
  <2>2. t \in Thread
    BY <2>1 DEF Candidates, TypeOK
  <2>3. suspend'[MainThread] \in {"none", suspend[MainThread]}
    BY <2>1, <2>2 DEF RunFunction, SetSuspendState, TypeOK
  <2>4. pc'[MainWorker] \in {"run", pc[MainWorker]}
    BY <2>1 DEF RunFunction, TypeOK
  <2>5. ran' = ran
    BY <1>7 DEF PickUp, overVars
  <2> QED
    BY <2>3, <2>4, <2>5 DEF MainInv
<1>8. ASSUME NEW w \in Worker, NothingToRun(w) PROVE MainInv'
  BY <1>8 DEF NothingToRun, MainInv, TypeOK, localVars, tableVars, overVars
<1>9. ASSUME NEW w \in Worker, CheckFatal(w) PROVE MainInv'
  BY <1>9 DEF CheckFatal, MainInv, TypeOK, localVars, tableVars, overVars
<1>10. ASSUME NEW w \in Worker, Awoken(w) PROVE MainInv'
  BY <1>10 DEF Awoken, MainInv, TypeOK, localVars, tableVars, overVars
<1>11. ASSUME NEW w \in Worker, WaitTimeout(w) PROVE MainInv'
  BY <1>11 DEF WaitTimeout, MainInv, TypeOK, localVars, tableVars, overVars
<1>12. ASSUME NEW w \in Worker, AsyncCall(w) PROVE MainInv'
  BY <1>12 DEF AsyncCall, MainInv, TypeOK, localVars, tableVars, overVars
<1>13. ASSUME NEW w \in Worker, AsyncCallFails(w) PROVE MainInv'
  BY <1>13 DEF AsyncCallFails, MainInv, TypeOK, localVars, tableVars, overVars
<1>14. ASSUME NEW w \in Worker, AsyncCallScheduled(w) PROVE MainInv'
  <2>1. fresh[w] # MainThread
    BY <1>14 DEF AsyncCallScheduled, FreshInv, ThreadInv
  <2> QED
    BY <1>14, <2>1
       DEF AsyncCallScheduled, SetSuspendState, MainInv, TypeOK, overVars
<1>15. ASSUME NEW w \in Worker, NEW type \in WaitTypes, Block(w, type)
      PROVE  MainInv'
  BY <1>15 DEF Block, MainInv, TypeOK, localVars, tableVars, overVars
<1>16. ASSUME NEW w \in Worker, Suspend(w) PROVE MainInv'
  <2>1. Running(w) /\ cur[w] \in Thread
    BY <1>16 DEF Suspend, RunInv, RunExclusive, Running, RunPcs, TypeOK
  <2>2. cur[w] = MainThread => w = MainWorker
    BY <2>1 DEF RunInv, RunExclusive
  <2>3. suspend'[MainThread] = IF cur[w] = MainThread THEN sinfo[cur[w]]
                                                      ELSE suspend[MainThread]
    BY <1>16, <2>1 DEF Suspend, StopRunning, SetSuspendState, TypeOK
  <2>4. "main" \in ran' => "main" \in ran \/ cur[w] = MainThread
    BY <1>16 DEF Suspend, MarkLaunched, LaunchInv
  <2>5. "main" \notin ran' => "main" \notin ran
    BY <1>16 DEF Suspend, MarkLaunched
  <2>6. pc'[MainWorker] = pc[MainWorker] \/ w = MainWorker
    BY <1>16 DEF Suspend, TypeOK
  <2>7. pc'[w] \notin {"special", "scan"}
    BY <1>16 DEF Suspend, TypeOK
  <2>8. sinfo[cur[w]] \in AllWaitTypes
    BY <1>16, <2>1 DEF Suspend, RunInv, TypeOK
  <2> QED
    BY <2>2, <2>3, <2>4, <2>5, <2>6, <2>7, <2>8 DEF MainInv, AllWaitTypes
<1>17. ASSUME NEW w \in Worker, Return(w) PROVE MainInv'
  <2>1. Running(w) /\ cur[w] \in Thread
    BY <1>17 DEF Return, RunInv, RunExclusive, Running, RunPcs, TypeOK
  <2>2. cur[w] = MainThread => w = MainWorker
    BY <2>1 DEF RunInv, RunExclusive
  <2>3. suspend'[MainThread] = IF cur[w] = MainThread THEN "done"
                                                      ELSE suspend[MainThread]
    BY <1>17, <2>1 DEF Return, StopRunning, SetSuspendState, TypeOK
  <2>4. "main" \in ran' => "main" \in ran \/ cur[w] = MainThread
    BY <1>17 DEF Return, MarkLaunched, LaunchInv
  <2>5. "main" \notin ran' => "main" \notin ran
    BY <1>17 DEF Return, MarkLaunched
  <2>6. pc'[MainWorker] = pc[MainWorker] \/ w = MainWorker
    BY <1>17 DEF Return, TypeOK
  <2>7. pc'[w] \notin {"special", "scan"}
    BY <1>17 DEF Return, TypeOK
  <2> QED
    BY <2>2, <2>3, <2>4, <2>5, <2>6, <2>7 DEF MainInv
<1>18. ASSUME NEW w \in Worker, Fail(w) PROVE MainInv'
  <2>1. Running(w) /\ cur[w] \in Thread
    BY <1>18 DEF Fail, RunInv, RunExclusive, Running, RunPcs, TypeOK
  <2>2. cur[w] = MainThread => w = MainWorker
    BY <2>1 DEF RunInv, RunExclusive
  <2>3. suspend'[MainThread] = IF cur[w] = MainThread THEN "done"
                                                      ELSE suspend[MainThread]
    BY <1>18, <2>1 DEF Fail, StopRunning, SetSuspendState, TypeOK
  <2>4. "main" \in ran' => "main" \in ran \/ cur[w] = MainThread
    BY <1>18 DEF Fail, LaunchInv
  <2>5. "main" \notin ran' => "main" \notin ran
    BY <1>18 DEF Fail
  <2>6. pc'[MainWorker] = pc[MainWorker] \/ w = MainWorker
    BY <1>18 DEF Fail, TypeOK
  <2>7. pc'[w] \notin {"special", "scan"}
    BY <1>18 DEF Fail, TypeOK
  <2> QED
    BY <2>2, <2>3, <2>4, <2>5, <2>6, <2>7 DEF MainInv
<1>19. CASE SpawnWorkers
  BY <1>19
     DEF SpawnWorkers, BossInv, MainInv, TypeOK, localVars, tableVars,
         overVars
<1>20. CASE StartMainWorker
  BY <1>20 DEF StartMainWorker, MainInv, TypeOK, localVars, tableVars, overVars
<1>21. CASE FreeAll
  BY <1>21 DEF FreeAll, MainInv, TypeOK, localVars, tableVars, overVars
<1> QED
  BY <1>1, <1>2, <1>3, <1>4, <1>5, <1>6, <1>7, <1>8, <1>9, <1>10, <1>11,
     <1>12, <1>13, <1>14, <1>15, <1>16, <1>17, <1>18, <1>19, <1>20, <1>21
     DEF Next, MainWorkerStep, LoopStep, RunStep, SupStep, BossStep,
         Aside

-----------------------------------------------------------------------------
(* What starts to run has a function, and nothing left to resume.          *)
LEMMA RunFits ==
  ASSUME IInv, NEW w \in Worker, ~Running(w), NEW t \in Thread, NEW f \in Funcs,
         \A v \in Worker : Running(v) => cur[v] # t,
         f # NoFunc \/ resume[t] # NoFunc,
         RunFunction(w, t, f), UNCHANGED fromStart
  PROVE  ResumeInv'
<1> USE DEF IInv, TypeOK, RunFunction, SetSuspendState
<1>1. \A v \in Worker : Running(v)' /\ v # w =>
        /\ Running(v) /\ cur'[v] = cur[v] /\ pc'[v] = pc[v]
        /\ cur[v] # t /\ cur[v] \in Thread
  BY DEF Running, RunPcs, RunInv, RunExclusive
<1>2. /\ func'[t] # NoFunc /\ resume'[t] = NoFunc /\ suspend'[t] = "none"
      /\ cur'[w] = t /\ pc'[w] = "run"
  BY DEF ResumeAfter
<1>3. \A u \in Thread : u # t =>
        /\ func'[u] = func[u] /\ resume'[u] = resume[u]
        /\ suspend'[u] = suspend[u]
  OBVIOUS
<1>4. \A v \in Worker : Running(v)' =>
        /\ func'[cur'[v]] # NoFunc
        /\ resume'[cur'[v]] = IF pc'[v] = "suspending" THEN func'[cur'[v]]
                                                      ELSE NoFunc
  BY <1>1, <1>2, <1>3 DEF ResumeInv
<1> QED
  BY <1>2, <1>3, <1>4 DEF ResumeInv, Waiting, AllWaitTypes

LEMMA ResumeStepInv == IInv /\ [Next]_vars => ResumeInv'
<1> SUFFICES ASSUME IInv, [Next]_vars PROVE ResumeInv'
  OBVIOUS
<1> USE Constants DEF IInv
<1>1. CASE Aside
  BY <1>1, AsideKeeps DEF ResumeInv, Waiting, Running, localVars, tableVars
<1>2. ASSUME NEW w \in Worker, LoopHead(w) PROVE ResumeInv'
  BY <1>2
     DEF LoopHead, ResumeInv, Waiting, Running, RunPcs, TypeOK, localVars,
         tableVars
<1>3. CASE RescheduleMain
  <2>1. suspend[MainThread] = "done" =>
          \A v \in Worker : Running(v) => cur[v] # MainThread
    BY DEF RunInv, RunExclusive
  <2>2. \A v \in Worker : Running(v)' =>
          Running(v) /\ pc'[v] = pc[v] /\ cur'[v] = cur[v]
    BY <1>3 DEF RescheduleMain, Running, RunPcs, TypeOK, localVars
  <2>3. \A v \in Worker : Running(v) => cur[v] \in Thread
    BY DEF RunInv, RunExclusive, TypeOK
  <2> QED
    BY <1>3, <2>1, <2>2, <2>3
       DEF RescheduleMain, SetSuspendState, AllWaitTypes, ResumeInv, Waiting,
           TypeOK
<1>4. CASE LaunchMain
  <2>1. suspend[MainThread] # "none" /\ MainThread \in live
    <3>1. boss # "done"
      BY <1>4 DEF LaunchMain, BossInv, Stopped, MainWorker
    <3> QED
      BY <1>4, <3>1 DEF LaunchMain, CanThreadResume, ThreadInv
  <2>2. \A v \in Worker : Running(v) => cur[v] # MainThread
    BY <2>1 DEF RunInv, RunExclusive
  <2>3. NextPhase # NoFunc /\ NextPhase \in Funcs
    BY DEF NextPhase, NoFunc, Funcs, Phases
  <2> QED
    BY <1>4, <2>2, <2>3, RunFits DEF LaunchMain, Running, RunPcs
<1>5. CASE SkipLaunch
  BY <1>5
     DEF SkipLaunch, ResumeInv, Waiting, Running, RunPcs, TypeOK, localVars,
         tableVars
<1>6. CASE NoLaunch
  BY <1>6
     DEF NoLaunch, ResumeInv, Waiting, Running, RunPcs, TypeOK, localVars,
         tableVars
<1>7. ASSUME NEW w \in Worker, PickUp(w) PROVE ResumeInv'
  <2>1. PICK t \in Candidates(w) : RunFunction(w, t, NoFunc)
    BY <1>7 DEF PickUp
  <2>2. /\ t \in live
        /\ suspend[t] = "asynccallscheduled" \/ Waiting(t)
    BY <2>1 DEF Candidates, CanThreadResume, Waiting, AllWaitTypes
  <2>3. \A v \in Worker : Running(v) => cur[v] # t
    BY <2>2 DEF RunInv, RunExclusive, Waiting, AllWaitTypes
  <2>4. t = MainThread => suspend[t] # "asynccallscheduled"
    BY <1>7, <2>1 DEF PickUp, Candidates, ThreadInv, MainInv
  <2>5. t \in Thread /\ resume[t] # NoFunc
    BY <2>2, <2>4 DEF ResumeInv, TypeOK, NoFunc
  <2>6. NoFunc \in Funcs
    BY DEF Funcs
  <2> QED
    BY <1>7, <2>1, <2>3, <2>5, <2>6, RunFits DEF PickUp, Running, RunPcs
<1>8. ASSUME NEW w \in Worker, NothingToRun(w) PROVE ResumeInv'
  BY <1>8
     DEF NothingToRun, ResumeInv, Waiting, Running, RunPcs, TypeOK, localVars,
         tableVars
<1>9. ASSUME NEW w \in Worker, CheckFatal(w) PROVE ResumeInv'
  BY <1>9
     DEF CheckFatal, ResumeInv, Waiting, Running, RunPcs, TypeOK, localVars,
         tableVars
<1>10. ASSUME NEW w \in Worker, Awoken(w) PROVE ResumeInv'
  BY <1>10
     DEF Awoken, ResumeInv, Waiting, Running, RunPcs, TypeOK, localVars,
         tableVars
<1>11. ASSUME NEW w \in Worker, WaitTimeout(w) PROVE ResumeInv'
  BY <1>11
     DEF WaitTimeout, ResumeInv, Waiting, Running, RunPcs, TypeOK, localVars,
         tableVars
<1>12. ASSUME NEW w \in Worker, AsyncCall(w) PROVE ResumeInv'
  BY <1>12
     DEF AsyncCall, ResumeInv, Waiting, Running, RunPcs, TypeOK, localVars,
         tableVars
<1>13. ASSUME NEW w \in Worker, AsyncCallFails(w) PROVE ResumeInv'
  BY <1>13
     DEF AsyncCallFails, ResumeInv, Waiting, Running, RunPcs, TypeOK,
         localVars, tableVars
<1>14. ASSUME NEW w \in Worker, AsyncCallScheduled(w)
      PROVE  ResumeInv'
  <2>1. /\ fresh[w] \in Thread
        /\ suspend[fresh[w]] = "uninitialized"
        /\ fresh[w] # MainThread
    BY <1>14 DEF AsyncCallScheduled, FreshInv, ThreadInv, TypeOK
  <2>2. \A v \in Worker : Running(v) => cur[v] # fresh[w] /\ cur[v] \in Thread
    BY <2>1 DEF RunInv, RunExclusive, TypeOK
  <2>3. \A v \in Worker : Running(v)' => Running(v) /\ cur'[v] = cur[v]
    BY <1>14 DEF AsyncCallScheduled, Running, RunPcs, TypeOK
  <2>4. \A v \in Worker : pc'[v] = "suspending" <=> pc[v] = "suspending"
    BY <1>14 DEF AsyncCallScheduled, TypeOK
  <2> QED
    BY <1>14, <2>1, <2>2, <2>3, <2>4
       DEF AsyncCallScheduled, SetSuspendState, AllWaitTypes, ResumeInv,
           Waiting, TypeOK
<1>15. ASSUME NEW w \in Worker, NEW type \in WaitTypes, Block(w, type)
      PROVE  ResumeInv'
  <2>1. cur[w] \in Thread /\ suspend[cur[w]] = "none"
    BY <1>15 DEF Block, RunInv, RunExclusive, Running, RunPcs, TypeOK
  <2>2. \A v \in Worker : Running(v) /\ v # w => cur[v] # cur[w]
    BY <1>15 DEF Block, RunInv, RunExclusive, Running, RunPcs
  <2> QED
    BY <1>15, <2>1, <2>2 DEF Block, AllWaitTypes, ResumeInv, Waiting, Running,
                           RunPcs, TypeOK
<1>16. ASSUME NEW w \in Worker, Suspend(w) PROVE ResumeInv'
  <2>1. Running(w) /\ cur[w] \in Thread /\ suspend[cur[w]] = "none"
    BY <1>16 DEF Suspend, RunInv, RunExclusive, Running, RunPcs, TypeOK
  <2>2. \A v \in Worker : Running(v)' =>
          /\ v # w /\ Running(v)
          /\ pc'[v] = pc[v] /\ cur'[v] = cur[v]
    BY <1>16 DEF Suspend, StopRunning, Running, RunPcs, TypeOK
  <2>3. \A v \in Worker : Running(v) /\ v # w =>
          cur[v] # cur[w] /\ cur[v] \in Thread
    BY <2>1 DEF RunInv, RunExclusive, TypeOK
  <2>4. \A t \in Thread : t # cur[w] =>
          /\ suspend'[t] = suspend[t] /\ func'[t] = func[t]
          /\ resume'[t] = resume[t] /\ fromStart'[t] = fromStart[t]
    BY <1>16, <2>1 DEF Suspend, StopRunning, SetSuspendState, TypeOK
  <2>5. /\ suspend'[cur[w]] \in AllWaitTypes
        /\ func'[cur[w]] # NoFunc /\ resume'[cur[w]] = func'[cur[w]]
        /\ fromStart'[cur[w]] = FALSE
    BY <1>16, <2>1 DEF Suspend, StopRunning, SetSuspendState, ResumeAfter,
                      FromStartAfter, RunInv, ResumeInv, AllWaitTypes, TypeOK
  <2> QED
    BY <2>1, <2>2, <2>3, <2>4, <2>5 DEF AllWaitTypes, ResumeInv, Waiting
<1>17. ASSUME NEW w \in Worker, Return(w) PROVE ResumeInv'
  <2>1. Running(w) /\ cur[w] \in Thread /\ suspend[cur[w]] = "none"
    BY <1>17 DEF Return, RunInv, RunExclusive, Running, RunPcs, TypeOK
  <2>2. \A v \in Worker : Running(v)' =>
          /\ v # w /\ Running(v)
          /\ pc'[v] = pc[v] /\ cur'[v] = cur[v]
    BY <1>17 DEF Return, StopRunning, Running, RunPcs, TypeOK
  <2>3. \A v \in Worker : Running(v) /\ v # w =>
          cur[v] # cur[w] /\ cur[v] \in Thread
    BY <2>1 DEF RunInv, RunExclusive, TypeOK
  <2>4. \A t \in Thread : t # cur[w] =>
          /\ suspend'[t] = suspend[t] /\ func'[t] = func[t]
          /\ resume'[t] = resume[t] /\ fromStart'[t] = fromStart[t]
    BY <1>17, <2>1 DEF Return, StopRunning, SetSuspendState, TypeOK
  <2>5. suspend'[cur[w]] = "done" /\ func'[cur[w]] = NoFunc
    BY <1>17, <2>1 DEF Return, StopRunning, SetSuspendState, TypeOK
  <2> QED
    BY <2>1, <2>2, <2>3, <2>4, <2>5 DEF AllWaitTypes, ResumeInv, Waiting
<1>18. ASSUME NEW w \in Worker, Fail(w) PROVE ResumeInv'
  <2>1. Running(w) /\ cur[w] \in Thread /\ suspend[cur[w]] = "none"
    BY <1>18 DEF Fail, RunInv, RunExclusive, Running, RunPcs, TypeOK
  <2>2. \A v \in Worker : Running(v)' =>
          /\ v # w /\ Running(v)
          /\ pc'[v] = pc[v] /\ cur'[v] = cur[v]
    BY <1>18 DEF Fail, StopRunning, Running, RunPcs, TypeOK
  <2>3. \A v \in Worker : Running(v) /\ v # w =>
          cur[v] # cur[w] /\ cur[v] \in Thread
    BY <2>1 DEF RunInv, RunExclusive, TypeOK
  <2>4. \A t \in Thread : t # cur[w] =>
          /\ suspend'[t] = suspend[t] /\ func'[t] = func[t]
          /\ resume'[t] = resume[t] /\ fromStart'[t] = fromStart[t]
    BY <1>18, <2>1 DEF Fail, StopRunning, SetSuspendState, TypeOK
  <2>5. suspend'[cur[w]] = "done" /\ func'[cur[w]] = NoFunc
    BY <1>18, <2>1 DEF Fail, StopRunning, SetSuspendState, TypeOK
  <2> QED
    BY <2>1, <2>2, <2>3, <2>4, <2>5 DEF AllWaitTypes, ResumeInv, Waiting
<1>19. CASE SpawnWorkers
  <2>1. \A w \in Worker : ~Running(w)'
    BY <1>19 DEF SpawnWorkers, BossInv, TypeOK, Running, RunPcs
  <2> QED
    BY <1>19, <2>1 DEF SpawnWorkers, ResumeInv, Waiting, localVars, tableVars
<1>20. CASE StartMainWorker
  BY <1>20
     DEF StartMainWorker, ResumeInv, Waiting, Running, RunPcs, TypeOK,
         localVars, tableVars
<1>21. CASE FreeAll
  BY <1>21
     DEF FreeAll, ResumeInv, Waiting, Running, RunPcs, TypeOK, localVars,
         tableVars
<1> QED
  BY <1>1, <1>2, <1>3, <1>4, <1>5, <1>6, <1>7, <1>8, <1>9, <1>10, <1>11,
     <1>12, <1>13, <1>14, <1>15, <1>16, <1>17, <1>18, <1>19, <1>20, <1>21
     DEF Next, MainWorkerStep, LoopStep, RunStep, SupStep, BossStep,
         Aside

-----------------------------------------------------------------------------
(* Who runs something runs it while worker 0 is there, or after an error.  *)
LEMMA RunningLast ==
  ASSUME IInv, NEW w \in Worker, Running(w)
  PROVE  ~(pc[MainWorker] = "ended" /\ ~fatal)
  BY DEF IInv, RunInv, RunExclusive, MainWorkerEndsLast

LEMMA EndStepInv == IInv /\ [Next]_vars => MainWorkerEndsLast'
<1> SUFFICES ASSUME IInv, [Next]_vars PROVE MainWorkerEndsLast'
  OBVIOUS
<1> USE Constants DEF IInv
<1>1. CASE Aside
  BY <1>1, AsideKeeps DEF MainWorkerEndsLast, tableVars
<1>2. ASSUME NEW w \in Worker, LoopHead(w) PROVE MainWorkerEndsLast'
  BY <1>2
     DEF LoopHead, MainWorkerEndsLast, TypeOK, localVars, tableVars, overVars
<1>3. CASE RescheduleMain
  BY <1>3
     DEF RescheduleMain, MainWorkerEndsLast, TypeOK, localVars, tableVars,
         overVars
<1>4. CASE LaunchMain
  BY <1>4
     DEF LaunchMain, RunFunction, MainWorkerEndsLast, TypeOK, localVars,
         tableVars, overVars
<1>5. CASE SkipLaunch
  BY <1>5
     DEF SkipLaunch, MainWorkerEndsLast, TypeOK, localVars, tableVars,
         overVars
<1>6. CASE NoLaunch
  BY <1>6
     DEF NoLaunch, MainWorkerEndsLast, TypeOK, localVars, tableVars, overVars
<1>7. ASSUME NEW w \in Worker, PickUp(w) PROVE MainWorkerEndsLast'
  <2>1. PICK t \in Candidates(w) : RunFunction(w, t, NoFunc)
    BY <1>7 DEF PickUp
  <2>2. t \in live /\ suspend[t] # "done"
    BY <2>1 DEF Candidates, CanThreadResume
  <2>3. ~(pc[MainWorker] = "ended" /\ ~fatal)
    BY <2>2 DEF MainWorkerEndsLast
  <2>4. pc'[MainWorker] \in {"run", pc[MainWorker]} /\ fatal' = fatal
    BY <1>7, <2>1 DEF PickUp, RunFunction, TypeOK, overVars
  <2> QED
    BY <2>3, <2>4 DEF MainWorkerEndsLast
<1>8. ASSUME NEW w \in Worker, NothingToRun(w)
      PROVE  MainWorkerEndsLast'
  <2>1. CASE w = MainWorker /\ pc'[w] = "ended"
    <3>1. \A t \in live : suspend[t] = "done"
      BY <1>8, <2>1 DEF NothingToRun, TypeOK
    <3>2. MainThread \in live
      BY <1>8, <2>1 DEF NothingToRun, ThreadInv, BossInv, Stopped, MainWorker
    <3>3. "main" \in ran
      BY <1>8, <2>1, <3>1, <3>2 DEF NothingToRun, MainInv
    <3>4. ran = Phases
      BY <3>3 DEF LaunchInv, Ready, Phases, TypeOK
    <3> QED
      BY <1>8, <3>1, <3>4
         DEF NothingToRun, MainWorkerEndsLast, TypeOK, localVars, tableVars,
             overVars
  <2>2. CASE ~(w = MainWorker /\ pc'[w] = "ended")
    BY <1>8, <2>2
       DEF NothingToRun, MainWorkerEndsLast, TypeOK, localVars, tableVars,
           overVars
  <2> QED
    BY <2>1, <2>2
<1>9. ASSUME NEW w \in Worker, CheckFatal(w)
      PROVE  MainWorkerEndsLast'
  BY <1>9
     DEF CheckFatal, MainWorkerEndsLast, TypeOK, localVars, tableVars,
         overVars
<1>10. ASSUME NEW w \in Worker, Awoken(w) PROVE MainWorkerEndsLast'
  BY <1>10
     DEF Awoken, MainWorkerEndsLast, TypeOK, localVars, tableVars, overVars
<1>11. ASSUME NEW w \in Worker, WaitTimeout(w)
      PROVE  MainWorkerEndsLast'
  BY <1>11
     DEF WaitTimeout, MainWorkerEndsLast, TypeOK, localVars, tableVars,
         overVars
<1>12. ASSUME NEW w \in Worker, AsyncCall(w)
      PROVE  MainWorkerEndsLast'
  BY <1>12, RunningLast
     DEF AsyncCall, Running, RunPcs, MainWorkerEndsLast, TypeOK, localVars,
         tableVars, overVars
<1>13. ASSUME NEW w \in Worker, AsyncCallFails(w)
      PROVE  MainWorkerEndsLast'
  BY <1>13, RunningLast
     DEF AsyncCallFails, Running, RunPcs, MainWorkerEndsLast, TypeOK,
         localVars, tableVars, overVars
<1>14. ASSUME NEW w \in Worker, AsyncCallScheduled(w)
      PROVE  MainWorkerEndsLast'
  BY <1>14, RunningLast
     DEF AsyncCallScheduled, Running, RunPcs, MainWorkerEndsLast, TypeOK,
         localVars, tableVars, overVars
<1>15. ASSUME NEW w \in Worker, NEW type \in WaitTypes, Block(w, type)
      PROVE  MainWorkerEndsLast'
  BY <1>15, RunningLast
     DEF Block, Running, RunPcs, MainWorkerEndsLast, TypeOK, localVars,
         tableVars, overVars
<1>16. ASSUME NEW w \in Worker, Suspend(w) PROVE MainWorkerEndsLast'
  BY <1>16, RunningLast
     DEF Suspend, Running, RunPcs, MainWorkerEndsLast, TypeOK, localVars,
         tableVars, overVars
<1>17. ASSUME NEW w \in Worker, Return(w) PROVE MainWorkerEndsLast'
  BY <1>17, RunningLast
     DEF Return, Running, RunPcs, MainWorkerEndsLast, TypeOK, localVars,
         tableVars, overVars
<1>18. ASSUME NEW w \in Worker, Fail(w) PROVE MainWorkerEndsLast'
  <2>1. CASE launch[w] # NoFunc
    BY <1>18, <2>1 DEF Fail, MainWorkerEndsLast
  <2>2. CASE launch[w] = NoFunc
    BY <1>18, <2>2, RunningLast
       DEF Fail, Running, RunPcs, MainWorkerEndsLast, TypeOK, localVars,
           tableVars, overVars
  <2> QED
    BY <2>1, <2>2
<1>19. CASE SpawnWorkers
  BY <1>19
     DEF SpawnWorkers, BossInv, MainWorkerEndsLast, TypeOK, localVars,
         tableVars, overVars
<1>20. CASE StartMainWorker
  BY <1>20
     DEF StartMainWorker, MainWorkerEndsLast, TypeOK, localVars, tableVars,
         overVars
<1>21. CASE FreeAll
  BY <1>21
     DEF FreeAll, MainWorkerEndsLast, TypeOK, localVars, tableVars, overVars
<1> QED
  BY <1>1, <1>2, <1>3, <1>4, <1>5, <1>6, <1>7, <1>8, <1>9, <1>10, <1>11,
     <1>12, <1>13, <1>14, <1>15, <1>16, <1>17, <1>18, <1>19, <1>20, <1>21
     DEF Next, MainWorkerStep, LoopStep, RunStep, SupStep, BossStep,
         Aside

-----------------------------------------------------------------------------
LEMMA InductiveInv == IInv /\ [Next]_vars => IInv'
  BY TypeStep, BossStepInv, ThreadStepInv, FreshStepInv, RunStepInv,
     LaunchStepInv, MainStepInv, ResumeStepInv, EndStepInv DEF IInv

LEMMA Invariance == Spec => []IInv
<1>1. Init => IInv
  BY InitIInv
<1>2. IInv /\ [Next]_vars => IInv'
  BY InductiveInv
<1> QED
  BY <1>1, <1>2, PTL DEF Spec

(* Every variable of the scheduler keeps its type.                         *)
THEOREM TypeCorrect == Spec => []TypeOK
<1>1. IInv => TypeOK
  BY DEF IInv
<1> QED
  BY <1>1, Invariance, PTL

(* No vm thread is ever run by two workers, or picked up while it runs, or *)
(* left marked as running without a worker; and the main thread never      *)
(* leaves worker 0: however many workers and vm threads there are.         *)
THEOREM Exclusive == Spec => []RunExclusive
<1>1. IInv => RunExclusive
  BY DEF IInv, RunInv
<1> QED
  BY <1>1, Invariance, PTL

(* The resume information of a suspended vm thread is that of the function *)
(* on its stack, and a scheduled one has nothing on its stack.             *)
THEOREM ResumeFits == Spec => []ResumeInfoFits
<1>1. IInv => ResumeInfoFits
  <2> SUFFICES ASSUME IInv PROVE ResumeInfoFits
    OBVIOUS
  <2> QED
    BY DEF IInv, TypeOK, ResumeInv, ResumeInfoFits
<1> QED
  BY <1>1, Invariance, PTL

(* Worker 0 ends the program only when everything is done.                 *)
THEOREM EndsLast == Spec => []MainWorkerEndsLast
<1>1. IInv => MainWorkerEndsLast
  BY DEF IInv
<1> QED
  BY <1>1, Invariance, PTL


-----------------------------------------------------------------------------
(* No lost wake-up.  The invariant says of everything that could run who   *)
(* is on the way to it; IInv is known by now and only used.                *)

(* What a vm thread waits for is what it asked for.                        *)
WaitInv == \A t \in Thread : Waiting(t) => sinfo[t] = suspend[t]

(* A worker on its way to a scan, or running something and on its way to   *)
(* one after that.                                                         *)
Awake(w) == pc[w] \in {"loop", "relaunch", "special", "scan"} \cup RunPcs

(* A scheduled async call has a worker that will scan for it; the main     *)
(* thread, when it is made ready, has worker 0.                            *)
SchedInv ==
    /\ \A t \in live : ~fatal /\ t # MainThread /\ suspend[t] = "asynccallscheduled" =>
         \E w \in Worker : Awake(w)
    /\ pc[MainWorker] \in {"idle", "wait"} => suspend[MainThread] # "asynccallscheduled"

(* The supervisor is told to stop after worker 0 has stopped.              *)
StopInv ==
    /\ stopSignal => boss \in {"trigger", "joinsup", "done", "crashed"}
    /\ boss = "spawn" => ~fatal

(* Worker w may run t, and is on its way to a scan or will be woken.       *)
Comes(w, t) ==
    /\ t = MainThread => w = MainWorker
    /\ Awake(w) \/ (pc[w] \in {"idle", "wait"} /\ wake[w])

(* The wake-up for a finished job that has been announced is on its way:   *)
(* in the socket of the supervisor, in the round of the supervisor, or in  *)
(* the event of a worker.                                                  *)
Announced(t) ==
    t \in live /\ suspend[t] = "asyncsysjobwait" /\ event[t] = "happened" /\ t \notin unsignalled

SeenTo(t) ==
    \/ jobEvent
    \/ sup = "check"
    \/ sup = "set" /\ MainWorker \in target
    \/ \E w \in Worker : Comes(w, t)
    \/ pc[MainWorker] = "unborn"

JobInv == \A t \in Thread : Announced(t) /\ ~fatal => SeenTo(t)

WakeInv == WaitInv /\ SchedInv /\ StopInv /\ JobInv


(* A worker that runs nothing goes on to a place where it runs nothing.    *)
Walks(w) ==
    \/ LoopHead(w) \/ NothingToRun(w) \/ CheckFatal(w) \/ Awoken(w) \/ WaitTimeout(w)
    \/ w = MainWorker /\ (SkipLaunch \/ NoLaunch)

LEMMA WalksKeep ==
  ASSUME TypeOK, NEW w \in Worker, Walks(w)
  PROVE  /\ UNCHANGED <<cur, fresh, launch, tableVars, fatal, supVars, waitVars, bossVars>>
         /\ ~Running(w)
         /\ \E place \in WorkerPcs \ RunPcs : pc' = [pc EXCEPT ![w] = place]
<1> USE DEF localVars, tableVars, overVars, supVars, waitVars, bossVars, WorkerPcs, RunPcs,
            Running
<1>1. CASE LoopHead(w)
  BY <1>1 DEF LoopHead
<1>2. CASE NothingToRun(w)
  BY <1>2 DEF NothingToRun
<1>3. CASE CheckFatal(w)
  BY <1>3 DEF CheckFatal
<1>4. CASE Awoken(w) \/ WaitTimeout(w)
  BY <1>4 DEF Awoken, WaitTimeout
<1>5. CASE w = MainWorker /\ (SkipLaunch \/ NoLaunch)
  BY <1>5 DEF SkipLaunch, NoLaunch
<1> QED
  BY <1>1, <1>2, <1>3, <1>4, <1>5 DEF Walks

(* Every step is one of these.                                             *)
LEMMA StepKinds ==
  ASSUME [Next]_vars
  PROVE  \/ Aside \/ RescheduleMain \/ LaunchMain
         \/ SpawnWorkers \/ StartMainWorker \/ FreeAll
         \/ \E w \in Worker :
              \/ Walks(w) \/ PickUp(w) \/ AsyncCall(w) \/ AsyncCallFails(w)
              \/ AsyncCallScheduled(w) \/ Suspend(w) \/ Return(w) \/ Fail(w)
              \/ \E type \in WaitTypes : Block(w, type)
  BY Constants DEF Next, MainWorkerStep, LoopStep, RunStep, SupStep, BossStep, Aside, Walks

(* A worker takes up a vm thread that may run.                             *)
Picks(w, t) ==
    /\ t \in live /\ suspend[t] # "none" /\ CanThreadResume(w, t)
    /\ t = MainThread => w = MainWorker
    /\ ~Running(w) /\ pc[w] \in {"special", "scan"}
    /\ \E f \in Phases \cup {NoFunc} : RunFunction(w, t, f)
    /\ wake' \in {wake, [wake EXCEPT ![w] = FALSE]}
    /\ UNCHANGED <<bossVars, fresh, seen, live, created, fatal, supVars, unsignalled,
                   jobEvent, blocks>>

LEMMA PicksOne ==
  ASSUME IInv
  PROVE  /\ LaunchMain => Picks(MainWorker, MainThread)
         /\ \A w \in Worker : PickUp(w) => \E t \in Thread : Picks(w, t)
<1> USE Constants DEF IInv, TypeOK, ThreadInv, Picks, Running, RunPcs, CanThreadResume,
                      AllWaitTypes, overVars
<1>1. ASSUME LaunchMain PROVE Picks(MainWorker, MainThread)
  <2>1. pc[MainWorker] = "special" /\ MainThread \in live
    BY <1>1 DEF LaunchMain, BossInv, Stopped, MainWorker
  <2>2. NextPhase \in Phases
    BY <1>1 DEF LaunchMain
  <2> QED
    BY <1>1, <2>1, <2>2 DEF LaunchMain
<1>2. ASSUME NEW w \in Worker, PickUp(w) PROVE \E t \in Thread : Picks(w, t)
  <2>1. PICK t \in Candidates(w) : RunFunction(w, t, NoFunc)
    BY <1>2 DEF PickUp
  <2>2. t \in live /\ CanThreadResume(w, t) /\ (t = MainThread => w = MainWorker)
    BY <2>1 DEF Candidates
  <2>3. Picks(w, t)
    BY <1>2, <2>1, <2>2 DEF PickUp
  <2> QED
    BY <2>2, <2>3
<1> QED
  BY <1>1, <1>2

(* Running a function ends: what it leaves, and where the worker goes.     *)
Stops(w, s) ==
    /\ Running(w) /\ s \in AllWaitTypes \cup {"done"}
    /\ cur[w] \in live /\ suspend[cur[w]] = "none" /\ (cur[w] = MainThread => w = MainWorker)
    /\ suspend' = [suspend EXCEPT ![cur[w]] = s]
    /\ cur' = [cur EXCEPT ![w] = NoThread]
    /\ \/ pc' = [pc EXCEPT ![w] = "loop"] /\ fatal' = fatal
       \/ pc' = [pc EXCEPT ![w] = "ended"] /\ fatal'
    /\ s \in AllWaitTypes => pc[w] = "suspending" /\ s = sinfo[cur[w]]
    /\ UNCHANGED <<bossVars, fresh, seen, wake, live, created, supVars, waitVars>>

LEMMA StopsOne ==
  ASSUME IInv, NEW w \in Worker
  PROVE  /\ Suspend(w) => Stops(w, sinfo[cur[w]])
         /\ Return(w) \/ Fail(w) => Stops(w, "done")
<1> USE DEF IInv, TypeOK, RunInv, RunExclusive, Running, RunPcs, StopRunning, SetSuspendState,
            Stops
<1>1. ASSUME Suspend(w) PROVE Stops(w, sinfo[cur[w]])
  BY <1>1 DEF Suspend
<1>2. ASSUME Return(w) PROVE Stops(w, "done")
  BY <1>2 DEF Return, AllWaitTypes
<1>3. ASSUME Fail(w) PROVE Stops(w, "done")
  BY <1>3 DEF Fail, AllWaitTypes
<1> QED
  BY <1>1, <1>2, <1>3

(* The kinds of step there are, for what the rest of the proofs needs.     *)
LEMMA StepEffects ==
  ASSUME IInv, [Next]_vars
  PROVE  \/ Aside \/ RescheduleMain \/ SpawnWorkers \/ StartMainWorker \/ FreeAll
         \/ \E w \in Worker :
              \/ Walks(w) \/ AsyncCall(w) \/ AsyncCallFails(w) \/ AsyncCallScheduled(w)
              \/ \E type \in WaitTypes : Block(w, type)
              \/ \E t \in Thread : Picks(w, t)
              \/ \E s \in AllWaitTypes \cup {"done"} : Stops(w, s)
<1>1. ASSUME NEW w \in Worker, Suspend(w) \/ Return(w) \/ Fail(w)
      PROVE  \E s \in AllWaitTypes \cup {"done"} : Stops(w, s)
  BY <1>1, StopsOne DEF Stops
<1>2. ASSUME LaunchMain PROVE \E w \in Worker : \E t \in Thread : Picks(w, t)
  BY <1>2, PicksOne, Constants
<1>3. ASSUME NEW w \in Worker, PickUp(w) PROVE \E t \in Thread : Picks(w, t)
  BY <1>3, PicksOne
<1> QED
  BY <1>1, <1>2, <1>3, StepKinds

-----------------------------------------------------------------------------
(* What a vm thread waits for is what it asked for: kept by every step.    *)
LEMMA WaitStepInv == IInv /\ WakeInv /\ [Next]_vars => WaitInv'
<1> SUFFICES ASSUME IInv, WaitInv, [Next]_vars PROVE WaitInv'
  BY DEF WakeInv
<1> USE DEF IInv, TypeOK, WaitInv, Waiting, AllWaitTypes, tableVars, waitVars
<1>1. CASE Aside
  BY <1>1, AsideKeeps
<1>2. CASE RescheduleMain
  BY <1>2 DEF RescheduleMain, SetSuspendState
<1>3. CASE SpawnWorkers \/ StartMainWorker \/ FreeAll
  BY <1>3 DEF SpawnWorkers, StartMainWorker, FreeAll
<1>4. ASSUME NEW w \in Worker, Walks(w) PROVE WaitInv'
  BY <1>4, WalksKeep
<1>5. ASSUME NEW w \in Worker, AsyncCall(w) \/ AsyncCallFails(w) \/ AsyncCallScheduled(w)
      PROVE  WaitInv'
  BY <1>5 DEF AsyncCall, AsyncCallFails, AsyncCallScheduled, SetSuspendState
<1>6. ASSUME NEW w \in Worker, NEW type \in WaitTypes, Block(w, type) PROVE WaitInv'
  <2>1. cur[w] \in Thread /\ suspend[cur[w]] = "none"
    BY <1>6 DEF Block, RunInv, RunExclusive, Running, RunPcs
  <2> QED
    BY <1>6, <2>1 DEF Block
<1>7. ASSUME NEW w \in Worker, NEW t \in Thread, Picks(w, t) PROVE WaitInv'
  BY <1>7 DEF Picks, RunFunction, SetSuspendState
<1>8. ASSUME NEW w \in Worker, NEW s \in AllWaitTypes \cup {"done"}, Stops(w, s)
      PROVE  WaitInv'
  BY <1>8 DEF Stops
<1> QED
  BY <1>1, <1>2, <1>3, <1>4, <1>5, <1>6, <1>7, <1>8, StepEffects

(* A walk leads away from the scans only past a scan that finds nothing.   *)
LEMMA WalksOn ==
  ASSUME TypeOK, NEW w \in Worker, Walks(w), ~fatal, Awake(w)
  PROVE  Awake(w)' \/ Candidates(w) = {}
<1> USE DEF Awake, RunPcs, TypeOK
<1>1. CASE LoopHead(w)
  BY <1>1 DEF LoopHead
<1>2. CASE NothingToRun(w)
  BY <1>2 DEF NothingToRun
<1>3. CASE CheckFatal(w) \/ Awoken(w) \/ WaitTimeout(w)
  BY <1>3 DEF CheckFatal, Awoken, WaitTimeout
<1>4. CASE w = MainWorker /\ (SkipLaunch \/ NoLaunch)
  BY <1>4 DEF SkipLaunch, NoLaunch
<1> QED
  BY <1>1, <1>2, <1>3, <1>4 DEF Walks

(* Who has a place in the loop while it walks is not unborn, and a worker  *)
(* that sleeps comes from a scan that found nothing, or slept before.      *)
LEMMA WalksToSleep ==
  ASSUME TypeOK, NEW w \in Worker, Walks(w), pc'[w] \in {"idle", "wait"}
  PROVE  pc[w] = "idle" \/ Candidates(w) = {}
<1> USE DEF TypeOK
<1>1. CASE LoopHead(w)
  BY <1>1 DEF LoopHead
<1>2. CASE NothingToRun(w)
  BY <1>2 DEF NothingToRun
<1>3. CASE CheckFatal(w) \/ Awoken(w) \/ WaitTimeout(w)
  BY <1>3 DEF CheckFatal, Awoken, WaitTimeout
<1>4. CASE w = MainWorker /\ (SkipLaunch \/ NoLaunch)
  BY <1>4 DEF SkipLaunch, NoLaunch
<1> QED
  BY <1>1, <1>2, <1>3, <1>4 DEF Walks

(* A walk changes only its own worker's wake-up flag, and that of a worker *)
(* that sleeps only when it wakes up.                                      *)
LEMMA WalksWake ==
  ASSUME TypeOK, NEW w \in Worker, Walks(w)
  PROVE  /\ pc[w] \notin {"unborn", "ended"} \cup RunPcs
         /\ wake' \in {wake, [wake EXCEPT ![w] = FALSE]}
         /\ pc[w] \in {"idle", "wait"} /\ ~fatal =>
              Awake(w)' \/ (pc'[w] = "wait" /\ wake' = wake)
<1> USE DEF TypeOK, Awake, RunPcs
<1>1. CASE LoopHead(w)
  BY <1>1 DEF LoopHead
<1>2. CASE NothingToRun(w)
  BY <1>2 DEF NothingToRun
<1>3. CASE CheckFatal(w) \/ Awoken(w) \/ WaitTimeout(w)
  BY <1>3 DEF CheckFatal, Awoken, WaitTimeout
<1>4. CASE w = MainWorker /\ (SkipLaunch \/ NoLaunch)
  BY <1>4 DEF SkipLaunch, NoLaunch
<1> QED
  BY <1>1, <1>2, <1>3, <1>4 DEF Walks

(* While worker 0 is about the main thread exists.                         *)
LEMMA MainLives ==
  ASSUME IInv, ~Stopped(MainWorker)
  PROVE  MainThread \in live
<1>1. boss # "done"
  BY Constants DEF IInv, BossInv, MainWorker
<1> QED
  BY <1>1 DEF IInv, ThreadInv

(* The steps of a worker that runs something.                              *)
RunsStep(w) ==
    \/ AsyncCall(w) \/ AsyncCallFails(w) \/ AsyncCallScheduled(w)
    \/ \E type \in WaitTypes : Block(w, type)
    \/ \E t \in Thread : Picks(w, t)
    \/ \E s \in AllWaitTypes \cup {"done"} : Stops(w, s)

(* A step of a worker that runs something leaves it awake, or is the end.  *)
LEMMA RunsOn ==
  ASSUME IInv, NEW w \in Worker, RunsStep(w)
  PROVE  /\ Awake(w) /\ \E place : pc' = [pc EXCEPT ![w] = place]
         /\ wake' \in {wake, [wake EXCEPT ![w] = FALSE]}
         /\ Awake(w)' \/ (fatal' /\ pc'[w] = "ended")
         /\ fatal => fatal'
         /\ UNCHANGED <<bossVars, supVars, jobEvent, unsignalled>>
<1> USE DEF IInv, TypeOK, Awake, RunPcs, overVars, waitVars
<1>1. CASE AsyncCall(w) \/ AsyncCallFails(w) \/ AsyncCallScheduled(w)
  BY <1>1 DEF AsyncCall, AsyncCallFails, AsyncCallScheduled
<1>2. ASSUME NEW type \in WaitTypes, Block(w, type)
      PROVE  /\ pc[w] = "run" /\ pc' = [pc EXCEPT ![w] = "suspending"]
             /\ wake' = wake /\ fatal' = fatal
             /\ UNCHANGED <<bossVars, supVars, jobEvent, unsignalled>>
  BY <1>2 DEF Block
<1>3. ASSUME NEW t \in Thread, Picks(w, t)
      PROVE  /\ pc[w] \in {"special", "scan"} /\ pc' = [pc EXCEPT ![w] = "run"]
             /\ wake' \in {wake, [wake EXCEPT ![w] = FALSE]} /\ fatal' = fatal
             /\ UNCHANGED <<bossVars, supVars, jobEvent, unsignalled>>
  BY <1>3 DEF Picks, RunFunction
<1>4. ASSUME NEW s \in AllWaitTypes \cup {"done"}, Stops(w, s)
      PROVE  /\ pc[w] \in RunPcs
             /\ \/ pc' = [pc EXCEPT ![w] = "loop"]
                \/ pc' = [pc EXCEPT ![w] = "ended"] /\ fatal'
             /\ wake' = wake /\ (fatal => fatal')
             /\ UNCHANGED <<bossVars, supVars, jobEvent, unsignalled>>
  BY <1>4 DEF Stops, Running
<1> QED
  BY <1>1, <1>2, <1>3, <1>4 DEF RunsStep

(* Which vm threads such a step can leave scheduled.                       *)
LEMMA RunsSchedules ==
  ASSUME IInv, NEW w \in Worker, RunsStep(w),
         NEW t \in live', suspend'[t] = "asynccallscheduled"
  PROVE  /\ (t \in live /\ suspend[t] = "asynccallscheduled") \/ Awake(w)'
         /\ t = MainThread => suspend[t] = "asynccallscheduled"
<1> USE DEF IInv, TypeOK, tableVars, Awake, RunPcs
<1>1. CASE AsyncCall(w)
  <2>1. pc'[w] = "spawn"
    BY <1>1 DEF AsyncCall
  <2>2. suspend' = suspend
    BY <1>1 DEF AsyncCall
  <2> QED
    BY <2>1, <2>2
<1>2. CASE AsyncCallFails(w)
  BY <1>2 DEF AsyncCallFails
<1>3. CASE AsyncCallScheduled(w)
  <2>1. pc'[w] = "run" /\ fresh[w] # MainThread
    BY <1>3 DEF AsyncCallScheduled, FreshInv, ThreadInv
  <2>2. t # fresh[w] => suspend'[t] = suspend[t]
    BY <1>3 DEF AsyncCallScheduled, SetSuspendState
  <2> QED
    BY <2>1, <2>2
<1>4. CASE \E type \in WaitTypes : Block(w, type)
  BY <1>4 DEF Block
<1>5. CASE \E u \in Thread : Picks(w, u)
  BY <1>5 DEF Picks, RunFunction, SetSuspendState
<1>6. CASE \E s \in AllWaitTypes \cup {"done"} : Stops(w, s)
  BY <1>6 DEF Stops, AllWaitTypes
<1> QED
  BY <1>1, <1>2, <1>3, <1>4, <1>5, <1>6 DEF RunsStep

LEMMA SchedStepInv == IInv /\ WakeInv /\ [Next]_vars => SchedInv'
<1> SUFFICES ASSUME IInv, SchedInv, StopInv, [Next]_vars PROVE SchedInv'
  BY DEF WakeInv
<1>0. TypeOK
  BY DEF IInv
<1>1. CASE Aside
  BY <1>1, AsideKeeps DEF SchedInv, Awake, tableVars
<1>2. CASE RescheduleMain
  <2>1. pc' = [pc EXCEPT ![MainWorker] = "special"] /\ pc[MainWorker] = "relaunch"
    BY <1>2 DEF RescheduleMain
  <2>2. \A t \in Thread : t # MainThread => suspend'[t] = suspend[t]
    BY <1>2, <1>0 DEF RescheduleMain, SetSuspendState, TypeOK
  <2>3. live' = live /\ fatal' = fatal /\ live \subseteq Thread
    BY <1>2, <1>0 DEF RescheduleMain, overVars, TypeOK
  <2>4. \A w \in Worker : Awake(w) => Awake(w)'
    BY <2>1, <1>0 DEF Awake, TypeOK
  <2>5. pc'[MainWorker] = "special"
    BY <2>1, <1>0, Constants DEF TypeOK
  <2> QED
    BY <2>2, <2>3, <2>4, <2>5 DEF SchedInv
<1>3. CASE SpawnWorkers
  <2>1. \A w \in Worker : ~Awake(w)
    BY <1>3 DEF SpawnWorkers, IInv, BossInv, Awake, RunPcs
  <2>2. ~fatal
    BY <1>3 DEF SpawnWorkers, StopInv
  <2>3. \A t \in live : t # MainThread => suspend[t] # "asynccallscheduled"
    BY <2>1, <2>2 DEF SchedInv
  <2>4. pc'[MainWorker] = pc[MainWorker] /\ suspend' = suspend /\ live' = live
    BY <1>3, Constants DEF SpawnWorkers, tableVars
  <2> QED
    BY <2>3, <2>4 DEF SchedInv
<1>4. CASE StartMainWorker
  <2>1. pc' = [pc EXCEPT ![MainWorker] = "loop"]
    BY <1>4 DEF StartMainWorker
  <2>2. \A w \in Worker : Awake(w) => Awake(w)'
    BY <2>1, <1>0 DEF Awake, TypeOK
  <2>3. pc'[MainWorker] = "loop" /\ suspend' = suspend /\ live' = live /\ fatal' = fatal
    BY <1>4, <1>0, Constants DEF StartMainWorker, tableVars, overVars, TypeOK
  <2> QED
    BY <2>2, <2>3 DEF SchedInv
<1>5. CASE FreeAll
  BY <1>5 DEF FreeAll, SchedInv
<1>6. ASSUME NEW w \in Worker, Walks(w) PROVE SchedInv'
  <2>0. /\ suspend' = suspend /\ live' = live /\ fatal' = fatal
        /\ \E place : pc' = [pc EXCEPT ![w] = place]
    BY <1>6, <1>0, WalksKeep DEF tableVars
  <2>1. \A v \in Worker : v # w /\ Awake(v) => Awake(v)'
    BY <2>0, <1>0 DEF Awake, TypeOK
  <2>2. ASSUME NEW t \in live, ~fatal, t # MainThread, suspend[t] = "asynccallscheduled"
        PROVE  \E v \in Worker : Awake(v)'
    <3>1. PICK v \in Worker : Awake(v)
      BY <2>2 DEF SchedInv
    <3>2. Candidates(w) # {}
      BY <2>2, <1>0 DEF Candidates, CanThreadResume, IInv, ThreadInv, TypeOK
    <3>3. v = w => Awake(v)'
      BY <3>1, <3>2, <1>6, <1>0, <2>2, WalksOn
    <3> QED
      BY <3>1, <3>3, <2>1
  <2>3. ASSUME pc'[MainWorker] \in {"idle", "wait"}, suspend[MainThread] = "asynccallscheduled"
        PROVE  FALSE
    <3>1. w = MainWorker
      BY <2>3, <2>0, <1>0, Constants DEF SchedInv, TypeOK
    <3>2. pc[w] = "idle" \/ Candidates(w) = {}
      BY <2>3, <3>1, <1>6, <1>0, WalksToSleep
    <3>3. ~Stopped(MainWorker)
      BY <1>6, <1>0, <3>1, WalksWake DEF Stopped
    <3>4. MainThread \in Candidates(MainWorker)
      BY <2>3, <3>3, MainLives DEF Candidates, CanThreadResume
    <3> QED
      BY <3>1, <3>2, <3>4, <2>3 DEF SchedInv
  <2> QED
    BY <2>0, <2>2, <2>3 DEF SchedInv
<1>7. ASSUME NEW w \in Worker, RunsStep(w) PROVE SchedInv'
  <2>1. /\ Awake(w) /\ \E place : pc' = [pc EXCEPT ![w] = place]
        /\ Awake(w)' \/ (fatal' /\ pc'[w] = "ended")
        /\ fatal => fatal'
    BY <1>7, RunsOn DEF RunsStep
  <2>2. \A v \in Worker : v # w /\ Awake(v) => Awake(v)'
    BY <2>1, <1>0 DEF Awake, TypeOK
  <2>3. ASSUME NEW t \in live', ~fatal', t # MainThread, suspend'[t] = "asynccallscheduled"
        PROVE  \E v \in Worker : Awake(v)'
    BY <2>1, <2>3
  <2>4. ASSUME pc'[MainWorker] \in {"idle", "wait"}, suspend'[MainThread] = "asynccallscheduled"
        PROVE  FALSE
    <3>1. pc'[w] \notin {"idle", "wait"}
      BY <2>1 DEF Awake, RunPcs
    <3>2. w # MainWorker /\ pc[MainWorker] \in {"idle", "wait"}
      BY <3>1, <2>4, <2>1, <1>0, Constants DEF TypeOK
    <3>3. ~Stopped(MainWorker)
      BY <3>2 DEF Stopped
    <3>4. MainThread \in live'
      <4>1. MainThread \in live /\ suspend[MainThread] # "uninitialized"
        BY <3>3, MainLives DEF IInv, ThreadInv
      <4> QED
        BY <4>1, <1>7 DEF RunsStep, AsyncCall, AsyncCallFails, AsyncCallScheduled, Block,
                   Picks, Stops, FreshInv, IInv, tableVars
    <3>5. suspend[MainThread] = "asynccallscheduled"
      BY <2>4, <3>4, <1>7, RunsSchedules
    <3> QED
      BY <3>2, <3>5 DEF SchedInv
  <2> QED
    BY <2>3, <2>4 DEF SchedInv
<1> QED
  BY <1>1, <1>2, <1>3, <1>4, <1>5, <1>6, <1>7, StepEffects DEF RunsStep

LEMMA StopStepInv == IInv /\ WakeInv /\ [Next]_vars => StopInv'
<1> SUFFICES ASSUME IInv, StopInv, [Next]_vars PROVE StopInv'
  BY DEF WakeInv
<1> USE DEF bossVars, supVars, overVars
<1>1. CASE Aside
  <2>1. fatal' = fatal
    BY <1>1, AsideKeeps
  <2>2. CASE \E t \in Thread : Happen(t) \/ AnnounceJob(t)
    BY <2>1, <2>2 DEF Happen, AnnounceJob, StopInv
  <2>3. CASE SupStep \/ SupTick
    <3>1. UNCHANGED <<boss, stopSignal>>
      BY <2>3 DEF SupStep, SupTimers, SupAwoken, SupTick, SupFlush, SupCheckStop, SupSetWorker
    <3> QED
      BY <2>1, <3>1 DEF StopInv
  <2>4. CASE StartSupervisor \/ GiveUp \/ MainWorkerEnded \/ WakeForJoin \/ Join
    BY <2>1, <2>4 DEF StartSupervisor, GiveUp, MainWorkerEnded, WakeForJoin, Join, StopInv
  <2>5. CASE StopSupervisor \/ TriggerSupervisor \/ JoinNoSupervisor
    BY <2>1, <2>5 DEF StopSupervisor, TriggerSupervisor, JoinNoSupervisor, StopInv
  <2>6. CASE Terminated \/ UNCHANGED vars
    BY <2>6 DEF Terminated, vars, StopInv
  <2> QED
    BY <1>1, <2>2, <2>3, <2>4, <2>5, <2>6 DEF Aside
<1>2. CASE RescheduleMain \/ SpawnWorkers \/ StartMainWorker \/ FreeAll
  BY <1>2 DEF RescheduleMain, SpawnWorkers, StartMainWorker, FreeAll, StopInv
<1>3. ASSUME NEW w \in Worker, Walks(w) PROVE StopInv'
  BY <1>3, WalksKeep DEF IInv, StopInv
<1>4. ASSUME NEW w \in Worker, RunsStep(w) PROVE StopInv'
  <2>1. Awake(w) /\ UNCHANGED <<bossVars, supVars>>
    BY <1>4, RunsOn DEF RunsStep
  <2>2. boss # "spawn"
    BY <2>1 DEF IInv, BossInv, Awake, RunPcs
  <2> QED
    BY <2>1, <2>2 DEF StopInv
<1> QED
  BY <1>1, <1>2, <1>3, <1>4, StepEffects DEF RunsStep

(* While a job is announced worker 0 has not left its loop.                *)
LEMMA MainHasNotEnded ==
  ASSUME IInv, NEW t \in Thread, Announced(t), ~fatal
  PROVE  pc[MainWorker] # "ended"
  BY DEF IInv, MainWorkerEndsLast, Announced

(* The steps of the supervisor hand the wake-up on.                        *)
LEMMA SupHandsOn ==
  ASSUME IInv, StopInv, SupStep \/ SupTick, NEW t \in Thread, Announced(t), ~fatal, SeenTo(t)
  PROVE  SeenTo(t)'
<1>0. UNCHANGED pc
  BY DEF SupStep, SupTick, SupTimers, SupAwoken, SupFlush, SupCheckStop, SupSetWorker
<1>1. ASSUME sup # "check", ~(sup = "set" /\ MainWorker \in target), UNCHANGED <<jobEvent, wake>>
      PROVE  SeenTo(t)'
  BY <1>0, <1>1 DEF SeenTo, Comes, Awake
<1>2. CASE SupTimers \/ SupAwoken \/ SupTick
  BY <1>1, <1>2 DEF SupTimers, SupAwoken, SupTick, waitVars
<1>3. CASE SupFlush
  BY <1>3 DEF SupFlush, SeenTo
<1>4. CASE SupCheckStop
  <2>1. CASE ~stopSignal
    BY <1>4, <2>1, Constants DEF SupCheckStop, SeenTo
  <2>2. CASE stopSignal
    <3>1. boss \in {"trigger", "joinsup", "done", "crashed"}
      BY <2>2 DEF StopInv
    <3>2. joining = WorkerCount /\ 0 < joining
      BY <3>1, Constants DEF IInv, BossInv
    <3>3. Stopped(MainWorker)
      BY <3>1, <3>2, Constants DEF IInv, BossInv, MainWorker
    <3>4. pc[MainWorker] = "unborn"
      BY <3>3, MainHasNotEnded DEF Stopped
    <3> QED
      BY <1>0, <3>4 DEF SeenTo
  <2> QED
    BY <2>1, <2>2
<1>5. ASSUME NEW w \in Worker, SupSetWorker(w) PROVE SeenTo(t)'
  <2>1. /\ wake' = [wake EXCEPT ![w] = TRUE] /\ jobEvent' = jobEvent
        /\ sup = "set" /\ target' = target \ {w}
        /\ sup' = IF target' = {} THEN "timers" ELSE "set"
    BY <1>5 DEF SupSetWorker, waitVars
  <2>2. \A v \in Worker : wake[v] => wake'[v]
    BY <2>1 DEF IInv, TypeOK
  <2>3. \A v \in Worker : Comes(v, t) => Comes(v, t)'
    BY <1>0, <2>2 DEF Comes, Awake
  <2>4. CASE w = MainWorker
    <3>1. wake'[MainWorker]
      BY <2>1, <2>4, Constants DEF IInv, TypeOK
    <3>2. pc[MainWorker] \in WorkerPcs \ {"ended"}
      BY MainHasNotEnded, Constants DEF IInv, TypeOK
    <3>3. pc[MainWorker] # "unborn" => Comes(MainWorker, t)'
      BY <1>0, <3>1, <3>2 DEF Comes, Awake, WorkerPcs, RunPcs
    <3> QED
      BY <1>0, <3>3, Constants DEF SeenTo
  <2>5. CASE w # MainWorker
    BY <1>0, <2>1, <2>3, <2>5 DEF SeenTo
  <2> QED
    BY <2>4, <2>5
<1> QED
  BY <1>2, <1>3, <1>4, <1>5 DEF SupStep

(* So do the steps of ExecuteProgram that run or wake no worker.           *)
LEMMA BossHandsOn ==
  ASSUME IInv, NEW t \in Thread, SeenTo(t),
         \/ StartSupervisor \/ GiveUp \/ MainWorkerEnded \/ WakeForJoin \/ Join
         \/ StopSupervisor \/ TriggerSupervisor \/ JoinNoSupervisor \/ Terminated
         \/ UNCHANGED vars
  PROVE  SeenTo(t)'
<1> USE DEF waitVars, supVars
<1>0. ASSUME UNCHANGED <<pc, sup, target>>, jobEvent => jobEvent',
             \A v \in Worker : wake[v] => wake'[v]
      PROVE  SeenTo(t)'
  BY <1>0 DEF SeenTo, Comes, Awake
<1>1. CASE StartSupervisor
  BY <1>1 DEF StartSupervisor, SeenTo, IInv, BossInv
<1>2. CASE GiveUp \/ MainWorkerEnded \/ Join \/ JoinNoSupervisor
  BY <1>0, <1>2 DEF GiveUp, MainWorkerEnded, Join, JoinNoSupervisor
<1>3. CASE StopSupervisor \/ TriggerSupervisor
  BY <1>0, <1>3 DEF StopSupervisor, TriggerSupervisor
<1>4. CASE WakeForJoin
  <2>1. \A v \in Worker : wake[v] => wake'[v]
    BY <1>4 DEF WakeForJoin, IInv, TypeOK
  <2> QED
    BY <1>0, <1>4, <2>1 DEF WakeForJoin
<1>5. CASE Terminated \/ UNCHANGED vars
  BY <1>0, <1>5 DEF Terminated, vars
<1> QED
  BY <1>1, <1>2, <1>3, <1>4, <1>5

(* A job announced after a step of a worker that runs something was so     *)
(* before, or the step brought its vm thread to the wait.                  *)
LEMMA RunsAnnounces ==
  ASSUME IInv, NEW w \in Worker, RunsStep(w), NEW t \in Thread, Announced(t)', ~fatal'
  PROVE  Announced(t) \/ Comes(w, t)'
<1> USE DEF IInv, TypeOK, tableVars, waitVars, Announced
<1>1. CASE AsyncCall(w) \/ AsyncCallFails(w) \/ AsyncCallScheduled(w)
  <2>1. CASE AsyncCall(w)
    <3>1. created + 1 > created /\ created + 1 \in Thread
      BY <2>1, Constants DEF AsyncCall, Thread
    <3>2. suspend[created + 1] = "uninitialized"
      BY <3>1 DEF ThreadInv
    <3>3. suspend' = suspend /\ live' = live \cup {created + 1}
          /\ event' = event /\ unsignalled' = unsignalled
      BY <2>1 DEF AsyncCall
    <3> QED
      BY <3>2, <3>3
  <2>2. CASE AsyncCallFails(w)
    BY <2>2 DEF AsyncCallFails
  <2>3. CASE AsyncCallScheduled(w)
    BY <2>3 DEF AsyncCallScheduled, SetSuspendState
  <2> QED
    BY <1>1, <2>1, <2>2, <2>3
<1>2. ASSUME NEW type \in WaitTypes, Block(w, type) PROVE Announced(t)
  BY <1>2 DEF Block
<1>3. ASSUME NEW u \in Thread, Picks(w, u) PROVE Announced(t)
  BY <1>3 DEF Picks, RunFunction, SetSuspendState
<1>4. ASSUME NEW s \in AllWaitTypes \cup {"done"}, Stops(w, s)
      PROVE  Announced(t) \/ Comes(w, t)'
  <2>1. CASE t = cur[w]
    BY <1>4, <2>1 DEF Stops, Comes, Awake
  <2>2. CASE t # cur[w]
    BY <1>4, <2>2 DEF Stops
  <2> QED
    BY <2>1, <2>2
<1> QED
  BY <1>1, <1>2, <1>3, <1>4 DEF RunsStep

LEMMA JobStepInv == IInv /\ WakeInv /\ [Next]_vars => JobInv'
<1> SUFFICES ASSUME IInv, WaitInv, StopInv, JobInv, [Next]_vars,
                    NEW t \in Thread, Announced(t)', ~fatal'
             PROVE  SeenTo(t)'
  BY DEF WakeInv, JobInv, SeenTo
<1>0. TypeOK
  BY DEF IInv
<1>j. Announced(t) /\ ~fatal => SeenTo(t)
  BY DEF JobInv, SeenTo
<1>1. CASE Aside
  <2>0. UNCHANGED <<pc, live, suspend, fatal, sinfo>>
    BY <1>1, AsideKeeps DEF tableVars
  <2>1. ASSUME NEW u \in Thread, Happen(u) PROVE SeenTo(t)'
    <3>1. Announced(t)
      <4>1. t # u
        BY <2>0, <2>1 DEF Happen, Announced, WaitInv, Waiting, AllWaitTypes
      <4> QED
        BY <2>0, <2>1, <1>0, <4>1 DEF Happen, Announced, TypeOK
    <3>2. UNCHANGED <<pc, jobEvent, sup, target, wake>>
      BY <2>1 DEF Happen
    <3> QED
      BY <1>j, <2>0, <3>1, <3>2 DEF SeenTo, Comes, Awake
  <2>2. ASSUME NEW u \in Thread, AnnounceJob(u) PROVE SeenTo(t)'
    BY <2>2 DEF AnnounceJob, SeenTo
  <2>3. ASSUME ~(\E u \in Thread : Happen(u) \/ AnnounceJob(u)) PROVE Announced(t)
    <3>1. UNCHANGED <<event, unsignalled>>
      <4>1. CASE SupStep \/ SupTick
        BY <4>1 DEF SupStep, SupTimers, SupAwoken, SupTick, SupFlush, SupCheckStop,
                    SupSetWorker, waitVars
      <4>2. CASE StartSupervisor \/ GiveUp \/ MainWorkerEnded \/ WakeForJoin \/ Join
        BY <4>2 DEF StartSupervisor, GiveUp, MainWorkerEnded, WakeForJoin, Join, waitVars
      <4>3. CASE StopSupervisor \/ TriggerSupervisor \/ JoinNoSupervisor
        BY <4>3 DEF StopSupervisor, TriggerSupervisor, JoinNoSupervisor, waitVars
      <4>4. CASE Terminated \/ UNCHANGED vars
        BY <4>4 DEF Terminated, vars, waitVars
      <4> QED
        BY <1>1, <2>3, <4>1, <4>2, <4>3, <4>4 DEF Aside
    <3> QED
      BY <2>0, <3>1 DEF Announced
  <2>4. ASSUME SupStep \/ SupTick, Announced(t) PROVE SeenTo(t)'
    BY <2>0, <2>4, <1>j, SupHandsOn
  <2>5. ASSUME Announced(t),
               \/ StartSupervisor \/ GiveUp \/ MainWorkerEnded \/ WakeForJoin \/ Join
               \/ StopSupervisor \/ TriggerSupervisor \/ JoinNoSupervisor \/ Terminated
               \/ UNCHANGED vars
        PROVE  SeenTo(t)'
    BY <2>0, <2>5, <1>j, BossHandsOn
  <2> QED
    BY <1>1, <2>1, <2>2, <2>3, <2>4, <2>5 DEF Aside
<1>2. CASE RescheduleMain
  <2>1. pc' = [pc EXCEPT ![MainWorker] = "special"]
    BY <1>2 DEF RescheduleMain
  <2>2. Comes(MainWorker, t)'
    BY <2>1, <1>0, Constants DEF Comes, Awake, TypeOK
  <2> QED
    BY <2>2, Constants DEF SeenTo
<1>3. CASE SpawnWorkers
  <2>1. pc[MainWorker] = "unborn"
    BY <1>3, Constants DEF SpawnWorkers, IInv, BossInv
  <2>2. pc'[MainWorker] = pc[MainWorker]
    BY <1>3, Constants DEF SpawnWorkers
  <2> QED
    BY <2>1, <2>2 DEF SeenTo
<1>4. CASE StartMainWorker
  <2>1. pc' = [pc EXCEPT ![MainWorker] = "loop"]
    BY <1>4 DEF StartMainWorker
  <2>2. Comes(MainWorker, t)'
    BY <2>1, <1>0, Constants DEF Comes, Awake, TypeOK
  <2> QED
    BY <2>2, Constants DEF SeenTo
<1>5. CASE FreeAll
  BY <1>5 DEF FreeAll, Announced
<1>6. ASSUME NEW w \in Worker, Walks(w) PROVE SeenTo(t)'
  <2>0. UNCHANGED <<suspend, live, event, unsignalled, fatal, jobEvent, sup, target>>
    BY <1>6, <1>0, WalksKeep DEF tableVars, waitVars, supVars
  <2>1. \E place : pc' = [pc EXCEPT ![w] = place]
    BY <1>6, <1>0, WalksKeep
  <2>2. Announced(t) /\ ~fatal
    BY <2>0 DEF Announced
  <2>3. /\ pc[w] # "unborn"
        /\ wake' \in {wake, [wake EXCEPT ![w] = FALSE]}
        /\ pc[w] \in {"idle", "wait"} => Awake(w)' \/ (pc'[w] = "wait" /\ wake' = wake)
    BY <1>6, <1>0, <2>2, WalksWake
  <2>4. \A v \in Worker : v # w => pc'[v] = pc[v] /\ wake'[v] = wake[v]
    BY <2>1, <2>3, <1>0 DEF TypeOK
  <2>5. \A v \in Worker : v # w /\ Comes(v, t) => Comes(v, t)'
    BY <2>4 DEF Comes, Awake
  <2>6. Comes(w, t) => Comes(w, t)'
    <3>1. CASE Awake(w)
      <4>1. ASSUME t = MainThread => w = MainWorker PROVE t \in Candidates(w)
        BY <4>1, <2>2, <1>0 DEF Announced, Candidates, CanThreadResume, IInv, ThreadInv, TypeOK
      <4>2. Awake(w)' \/ Candidates(w) = {}
        BY <1>6, <1>0, <2>2, <3>1, WalksOn
      <4> QED
        BY <4>1, <4>2 DEF Comes
    <3>2. CASE ~Awake(w)
      BY <2>3, <3>2 DEF Comes
    <3> QED
      BY <3>1, <3>2
  <2>7. pc[MainWorker] = "unborn" => pc'[MainWorker] = "unborn"
    BY <2>3, <2>4, Constants
  <2> QED
    BY <1>j, <2>0, <2>2, <2>5, <2>6, <2>7 DEF SeenTo
<1>7. ASSUME NEW w \in Worker, RunsStep(w) PROVE SeenTo(t)'
  <2>1. /\ Awake(w) /\ \E place : pc' = [pc EXCEPT ![w] = place]
        /\ wake' \in {wake, [wake EXCEPT ![w] = FALSE]}
        /\ Awake(w)' \/ (fatal' /\ pc'[w] = "ended")
        /\ fatal => fatal'
        /\ UNCHANGED <<supVars, jobEvent>>
    BY <1>7, RunsOn DEF RunsStep
  <2>2. Awake(w)' /\ ~fatal /\ UNCHANGED <<jobEvent, sup, target>>
    BY <2>1 DEF supVars
  <2>3. \A v \in Worker : v # w => pc'[v] = pc[v] /\ wake'[v] = wake[v]
    BY <2>1, <1>0 DEF TypeOK
  <2>4. \A v \in Worker : Comes(v, t) => Comes(v, t)'
    BY <2>2, <2>3 DEF Comes, Awake
  <2>5. pc[MainWorker] = "unborn" => pc'[MainWorker] = "unborn"
    <3>1. pc[w] # "unborn"
      BY <2>1 DEF Awake, RunPcs
    <3> QED
      BY <2>3, <3>1, Constants
  <2>6. Announced(t) \/ Comes(w, t)'
    BY <1>7, RunsAnnounces
  <2> QED
    BY <1>j, <2>2, <2>4, <2>5, <2>6 DEF SeenTo
<1> QED
  BY <1>1, <1>2, <1>3, <1>4, <1>5, <1>6, <1>7, StepEffects DEF RunsStep

(* The beginning: nothing runs, and nothing is waited for.                 *)
LEMMA InitWake == Init => WakeInv
<1> SUFFICES ASSUME Init PROVE WakeInv
  OBVIOUS
<1>1. WaitInv
  BY DEF Init, WaitInv, Waiting, AllWaitTypes
<1>2. SchedInv
  BY Constants DEF Init, SchedInv
<1>3. StopInv
  BY DEF Init, StopInv
<1>4. JobInv
  BY Constants DEF Init, JobInv, SeenTo
<1> QED
  BY <1>1, <1>2, <1>3, <1>4 DEF WakeInv

LEMMA WakeInvariance == Spec => [](IInv /\ WakeInv)
<1>1. Init => IInv /\ WakeInv
  BY InitIInv, InitWake
<1>2. IInv /\ WakeInv /\ [Next]_vars => (IInv /\ WakeInv)'
  BY InductiveInv, WaitStepInv, SchedStepInv, StopStepInv, JobStepInv DEF WakeInv
<1> QED
  BY <1>1, <1>2, PTL DEF Spec

(* No wake-up is lost, however the workers, the supervisor and the outside *)
(* world are interleaved: when all sleep, nothing could run.               *)
THEOREM NoWakeupLost == Spec => []NoLostWakeup
<1>1. IInv /\ WakeInv => NoLostWakeup
  <2> SUFFICES ASSUME IInv, WakeInv, Quiet, NEW t \in live
               PROVE  /\ suspend[t] # "asynccallscheduled"
                      /\ suspend[t] = "asyncsysjobwait" /\ event[t] = "happened" =>
                           t \in unsignalled
    BY DEF NoLostWakeup
  <2>0. /\ ~fatal /\ sup = "wait" /\ ~jobEvent /\ t \in Thread
        /\ \A w \in Worker : pc[w] = "ended" \/ (pc[w] = "wait" /\ ~wake[w])
    BY DEF Quiet, Parked, SupWoken, IInv, TypeOK
  <2>1. \A w \in Worker : ~Awake(w) /\ ~Comes(w, t)
    BY <2>0 DEF Awake, Comes, RunPcs
  <2>2. suspend[t] # "asynccallscheduled"
    <3>1. CASE t = MainThread
      BY <2>0, <3>1, Constants DEF WakeInv, SchedInv, IInv, MainWorkerEndsLast
    <3>2. CASE t # MainThread
      BY <2>0, <2>1, <3>2 DEF WakeInv, SchedInv
    <3> QED
      BY <3>1, <3>2
  <2>3. ~Announced(t)
    BY <2>0, <2>1, Constants DEF WakeInv, JobInv, SeenTo
  <2> QED
    BY <2>2, <2>3 DEF Announced
<1> QED
  BY <1>1, WakeInvariance, PTL

-----------------------------------------------------------------------------
(* A function that runs has nothing pending, and a timer a worker found    *)
(* expired is still so while its vm thread waits for it.                   *)
EventInv == \A w \in Worker : pc[w] \in {"run", "spawn"} => event[cur[w]] = "none"

Sleeps(t) == suspend[t] = "fixedtime" \/ \E v \in Worker : pc[v] = "suspending" /\ cur[v] = t

SeenInv == \A w \in Worker : \A t \in seen[w] : Sleeps(t) => event[t] = "happened"

(* What happens aside either lets something pending happen, or changes no  *)
(* event.                                                                  *)
LEMMA AsideEvents ==
  ASSUME TypeOK, Aside
  PROVE  \/ UNCHANGED event
         \/ \E t \in Thread : event[t] = "pending" /\ event' = [event EXCEPT ![t] = "happened"]
<1>1. ASSUME NEW t \in Thread, Happen(t) \/ AnnounceJob(t)
      PROVE  \/ UNCHANGED event
             \/ event[t] = "pending" /\ event' = [event EXCEPT ![t] = "happened"]
  BY <1>1 DEF Happen, AnnounceJob
<1> USE DEF waitVars
<1>2. CASE SupStep \/ SupTick
  BY <1>2 DEF SupStep, SupTimers, SupAwoken, SupTick, SupFlush, SupCheckStop, SupSetWorker
<1>3. CASE StartSupervisor \/ GiveUp \/ MainWorkerEnded \/ WakeForJoin \/ Join
  BY <1>3 DEF StartSupervisor, GiveUp, MainWorkerEnded, WakeForJoin, Join
<1>4. CASE StopSupervisor \/ TriggerSupervisor \/ JoinNoSupervisor
  BY <1>4 DEF StopSupervisor, TriggerSupervisor, JoinNoSupervisor
<1>5. CASE Terminated \/ UNCHANGED vars
  BY <1>5 DEF Terminated, vars
<1> QED
  BY <1>1, <1>2, <1>3, <1>4, <1>5 DEF Aside

(* No other worker has the vm thread a worker runs or takes up.            *)
LEMMA OthersElsewhere ==
  ASSUME IInv, NEW w \in Worker, NEW v \in Worker, v # w, Running(v)
  PROVE  /\ Running(w) => cur[v] # cur[w]
         /\ \A t \in Thread : Picks(w, t) => cur[v] # t
         /\ cur[v] \in Thread
  BY DEF IInv, TypeOK, RunInv, RunExclusive, Picks

LEMMA EventStepInv == IInv /\ EventInv /\ [Next]_vars => EventInv'
<1> SUFFICES ASSUME IInv, EventInv, [Next]_vars, NEW v \in Worker, pc'[v] \in {"run", "spawn"}
             PROVE  event'[cur'[v]] = "none"
  BY DEF EventInv
<1>0. TypeOK
  BY DEF IInv
<1>1. CASE Aside
  <2>1. UNCHANGED <<pc, cur>>
    BY <1>1, AsideKeeps DEF localVars
  <2>2. event[cur[v]] = "none"
    BY <2>1 DEF EventInv
  <2>3. cur[v] \in Thread
    BY <2>1 DEF IInv, TypeOK, RunInv, RunExclusive, Running, RunPcs
  <2> QED
    BY <1>0, <1>1, <2>1, <2>2, <2>3, AsideEvents DEF TypeOK
<1>2. ASSUME UNCHANGED <<cur, event>>, pc[v] \in {"run", "spawn"} PROVE event'[cur'[v]] = "none"
  BY <1>2 DEF EventInv
<1>3. CASE RescheduleMain \/ StartMainWorker
  BY <1>0, <1>2, <1>3 DEF RescheduleMain, StartMainWorker, TypeOK, localVars, waitVars
<1>4. CASE SpawnWorkers
  <2>1. pc[v] = "unborn"
    BY <1>4 DEF SpawnWorkers, IInv, BossInv
  <2>2. pc'[v] \in {"loop", "unborn"}
    BY <1>4, <2>1 DEF SpawnWorkers
  <2> QED
    BY <2>2
<1>5. CASE FreeAll
  BY <1>2, <1>5 DEF FreeAll, localVars, waitVars
<1>6. ASSUME NEW w \in Worker, Walks(w) PROVE event'[cur'[v]] = "none"
  <2>1. UNCHANGED <<cur, event>> /\ \E place \in WorkerPcs \ RunPcs : pc' = [pc EXCEPT ![w] = place]
    BY <1>6, <1>0, WalksKeep DEF waitVars
  <2> QED
    BY <1>0, <1>2, <2>1 DEF TypeOK, RunPcs
<1>7. ASSUME NEW w \in Worker, AsyncCall(w) \/ AsyncCallFails(w) \/ AsyncCallScheduled(w)
      PROVE  event'[cur'[v]] = "none"
  <2>1. /\ UNCHANGED <<cur, event>> /\ pc[w] \in {"run", "spawn"}
        /\ \E place : pc' = [pc EXCEPT ![w] = place]
    BY <1>7 DEF AsyncCall, AsyncCallFails, AsyncCallScheduled, waitVars
  <2> QED
    BY <1>0, <1>2, <2>1 DEF TypeOK
<1>8. ASSUME NEW w \in Worker, NEW type \in WaitTypes, Block(w, type)
      PROVE  event'[cur'[v]] = "none"
  <2>1. /\ v # w /\ Running(v) /\ Running(w) /\ pc[v] \in {"run", "spawn"}
        /\ event' = [event EXCEPT ![cur[w]] = "pending"] /\ cur' = cur
    BY <1>0, <1>8 DEF Block, TypeOK, Running, RunPcs
  <2>2. cur[v] # cur[w] /\ cur[v] \in Thread
    BY <2>1, OthersElsewhere
  <2> QED
    BY <1>0, <2>1, <2>2 DEF EventInv, TypeOK
<1>9. ASSUME NEW w \in Worker, NEW t \in Thread, Picks(w, t) PROVE event'[cur'[v]] = "none"
  <2>1. event' = [event EXCEPT ![t] = "none"] /\ cur' = [cur EXCEPT ![w] = t]
        /\ pc' = [pc EXCEPT ![w] = "run"]
    BY <1>9 DEF Picks, RunFunction
  <2>2. CASE v = w
    BY <1>0, <2>1, <2>2 DEF TypeOK
  <2>3. CASE v # w
    <3>1. pc[v] \in {"run", "spawn"} /\ cur'[v] = cur[v]
      BY <1>0, <2>1, <2>3 DEF TypeOK
    <3>2. cur[v] # t /\ cur[v] \in Thread
      BY <1>9, <2>3, <3>1, OthersElsewhere DEF Running, RunPcs
    <3> QED
      BY <1>0, <2>1, <3>1, <3>2 DEF EventInv, TypeOK
  <2> QED
    BY <2>2, <2>3
<1>10. ASSUME NEW w \in Worker, NEW s \in AllWaitTypes \cup {"done"}, Stops(w, s)
       PROVE  event'[cur'[v]] = "none"
  <2>1. v # w /\ pc[v] \in {"run", "spawn"} /\ cur'[v] = cur[v] /\ event' = event
    BY <1>0, <1>10 DEF Stops, TypeOK, waitVars
  <2> QED
    BY <2>1 DEF EventInv
<1> QED
  BY <1>1, <1>3, <1>4, <1>5, <1>6, <1>7, <1>8, <1>9, <1>10, StepEffects

LEMMA SeenStepInv == IInv /\ SeenInv /\ [Next]_vars => SeenInv'
<1> SUFFICES ASSUME IInv, SeenInv, [Next]_vars,
                    NEW v \in Worker, NEW t \in seen'[v], Sleeps(t)'
             PROVE  event'[t] = "happened"
  BY DEF SeenInv, Sleeps
<1>0. TypeOK
  BY DEF IInv
<1>2. t \in seen[v] /\ Sleeps(t) => event[t] = "happened"
  BY DEF SeenInv, Sleeps
<1>1. CASE Aside
  <2>1. UNCHANGED <<pc, cur, suspend, seen>>
    BY <1>1, AsideKeeps DEF localVars, tableVars
  <2>2. event[t] = "happened"
    BY <1>2, <2>1 DEF Sleeps
  <2>3. t \in Thread
    BY <1>0, <2>1 DEF TypeOK
  <2> QED
    BY <1>0, <1>1, <2>2, <2>3, AsideEvents DEF TypeOK
<1>3. CASE RescheduleMain
  <2>1. UNCHANGED <<cur, seen, event>> /\ pc' = [pc EXCEPT ![MainWorker] = "special"]
    BY <1>3 DEF RescheduleMain, localVars, waitVars
  <2>2. suspend'[t] = "fixedtime" => suspend[t] = "fixedtime"
    BY <1>0, <1>3, <2>1 DEF RescheduleMain, SetSuspendState, TypeOK
  <2>3. Sleeps(t)
    BY <1>0, <2>1, <2>2 DEF Sleeps, TypeOK
  <2> QED
    BY <1>2, <2>1, <2>3
<1>4. CASE SpawnWorkers \/ StartMainWorker
  <2>1. UNCHANGED <<cur, seen, event, suspend>>
    BY <1>4 DEF SpawnWorkers, StartMainWorker, localVars, tableVars, waitVars
  <2>2. \A u \in Worker : pc'[u] = "suspending" => pc[u] = "suspending"
    BY <1>0, <1>4 DEF SpawnWorkers, StartMainWorker, TypeOK
  <2> QED
    BY <1>2, <2>1, <2>2 DEF Sleeps
<1>5. CASE FreeAll
  BY <1>2, <1>5 DEF FreeAll, Sleeps, localVars, waitVars
<1>6. ASSUME NEW w \in Worker, Walks(w) PROVE event'[t] = "happened"
  <2>1. /\ UNCHANGED <<cur, event, suspend>>
        /\ \E place \in WorkerPcs \ RunPcs : pc' = [pc EXCEPT ![w] = place]
    BY <1>6, <1>0, WalksKeep DEF waitVars, tableVars
  <2>2. Sleeps(t)
    BY <1>0, <2>1 DEF Sleeps, TypeOK, RunPcs
  <2>3. t \in seen[v] \/ event[t] = "happened"
    <3>1. CASE LoopHead(w)
      BY <1>0, <3>1 DEF LoopHead, TypeOK
    <3>2. CASE NothingToRun(w) \/ CheckFatal(w) \/ Awoken(w) \/ WaitTimeout(w)
      BY <3>2 DEF NothingToRun, CheckFatal, Awoken, WaitTimeout, localVars
    <3>3. CASE SkipLaunch \/ NoLaunch
      BY <3>3 DEF SkipLaunch, NoLaunch, localVars
    <3> QED
      BY <1>6, <3>1, <3>2, <3>3 DEF Walks
  <2> QED
    BY <1>2, <2>1, <2>2, <2>3
<1>7. ASSUME NEW w \in Worker, AsyncCall(w) \/ AsyncCallFails(w) \/ AsyncCallScheduled(w)
      PROVE  event'[t] = "happened"
  <2>1. /\ UNCHANGED <<cur, event, seen>>
        /\ \E place \in {"run", "spawn"} : pc' = [pc EXCEPT ![w] = place]
    BY <1>7 DEF AsyncCall, AsyncCallFails, AsyncCallScheduled, waitVars
  <2>2. suspend'[t] = "fixedtime" => suspend[t] = "fixedtime"
    BY <1>0, <1>7, <2>1 DEF AsyncCall, AsyncCallFails, AsyncCallScheduled, SetSuspendState, TypeOK
  <2> QED
    BY <1>0, <1>2, <2>1, <2>2 DEF Sleeps, TypeOK
<1>8. ASSUME NEW w \in Worker, NEW type \in WaitTypes, Block(w, type)
      PROVE  event'[t] = "happened"
  <2>1. /\ event' = [event EXCEPT ![cur[w]] = "pending"] /\ cur' = cur /\ suspend' = suspend
        /\ pc' = [pc EXCEPT ![w] = "suspending"]
        /\ t \in seen[v] \ {cur[w]}
    BY <1>0, <1>8 DEF Block, TypeOK
  <2>2. Sleeps(t)
    BY <1>0, <2>1 DEF Sleeps, TypeOK
  <2> QED
    BY <1>0, <1>2, <2>1, <2>2 DEF TypeOK
<1>9. ASSUME NEW w \in Worker, NEW u \in Thread, Picks(w, u) PROVE event'[t] = "happened"
  <2>1. /\ event' = [event EXCEPT ![u] = "none"] /\ cur' = [cur EXCEPT ![w] = u]
        /\ pc' = [pc EXCEPT ![w] = "run"] /\ seen' = seen
        /\ suspend' = [suspend EXCEPT ![u] = "none"]
    BY <1>9 DEF Picks, RunFunction, SetSuspendState
  <2>2. \A x \in Worker : pc'[x] = "suspending" =>
          pc[x] = "suspending" /\ cur'[x] = cur[x] /\ cur[x] # u
    <3> SUFFICES ASSUME NEW x \in Worker, pc'[x] = "suspending"
                 PROVE  pc[x] = "suspending" /\ cur'[x] = cur[x] /\ cur[x] # u
      OBVIOUS
    <3>1. x # w /\ pc[x] = "suspending" /\ cur'[x] = cur[x]
      BY <1>0, <2>1 DEF TypeOK
    <3> QED
      BY <1>9, <3>1, OthersElsewhere DEF Running, RunPcs
  <2>3. t # u /\ Sleeps(t)
    BY <1>0, <2>1, <2>2 DEF Sleeps, TypeOK
  <2> QED
    BY <1>0, <1>2, <2>1, <2>3 DEF TypeOK
<1>10. ASSUME NEW w \in Worker, NEW s \in AllWaitTypes \cup {"done"}, Stops(w, s)
       PROVE  event'[t] = "happened"
  <2>1. /\ event' = event /\ seen' = seen
        /\ suspend' = [suspend EXCEPT ![cur[w]] = s]
        /\ s = "fixedtime" => pc[w] = "suspending"
        /\ \A x \in Worker : pc'[x] = "suspending" => pc[x] = "suspending" /\ cur'[x] = cur[x]
    BY <1>0, <1>10 DEF Stops, TypeOK, waitVars, AllWaitTypes
  <2>2. Sleeps(t)
    BY <1>0, <2>1 DEF Sleeps, TypeOK
  <2> QED
    BY <1>2, <2>1, <2>2
<1> QED
  BY <1>1, <1>3, <1>4, <1>5, <1>6, <1>7, <1>8, <1>9, <1>10, StepEffects

-----------------------------------------------------------------------------
(* The state of ExecutionContexts as the refinement mapping gives it.      *)
State    == [t \in Thread |-> ContextState(t)]
Runner   == {<<w, cur[w]>> : w \in {v \in Worker : Running(v)}}
Happened == [t \in Thread |-> event[t] = "happened"]

(* A step that changes one context, one runner or one event as seen there. *)
LEMMA StateKept ==
  ASSUME \A t \in Thread : ContextState(t)' = ContextState(t)
  PROVE  State' = State
  BY Zenon DEF State

LEMMA StateChanged ==
  ASSUME NEW u \in Thread, NEW s, ContextState(u)' = s,
         \A t \in Thread : t # u => ContextState(t)' = ContextState(t)
  PROVE  State' = [State EXCEPT ![u] = s]
<1>1. \A t \in Thread : ContextState(t)' = IF t = u THEN s ELSE ContextState(t)
  OBVIOUS
<1> HIDE DEF ContextState
<1> QED
  BY <1>1 DEF State

LEMMA RunnerKept ==
  ASSUME \A w \in Worker : (Running(w)' <=> Running(w)) /\ (Running(w) => cur'[w] = cur[w])
  PROVE  Runner' = Runner
  BY DEF Runner

LEMMA RunnerGrows ==
  ASSUME NEW w \in Worker, ~Running(w), Running(w)',
         \A v \in Worker : v # w =>
            (Running(v)' <=> Running(v)) /\ (Running(v) => cur'[v] = cur[v])
  PROVE  Runner' = Runner \cup {<<w, cur'[w]>>}
  BY DEF Runner

LEMMA RunnerShrinks ==
  ASSUME NEW w \in Worker, Running(w), ~Running(w)',
         \A v \in Worker : v # w =>
            (Running(v)' <=> Running(v)) /\ (Running(v) => cur'[v] = cur[v])
  PROVE  Runner' = Runner \ {<<w, cur[w]>>}
<1>1. ASSUME NEW p \in Runner' PROVE p \in Runner \ {<<w, cur[w]>>}
  BY <1>1 DEF Runner
<1>2. ASSUME NEW p \in Runner \ {<<w, cur[w]>>} PROVE p \in Runner'
  BY <1>2 DEF Runner
<1> QED
  BY <1>1, <1>2

LEMMA RunnerOf ==
  ASSUME NEW w \in Worker
  PROVE  /\ Running(w) => <<w, cur[w]>> \in Runner
         /\ ~Running(w) => Contexts!Free(w)
  BY DEF Runner, Contexts!Free

LEMMA HappenedKept ==
  ASSUME \A t \in Thread : event'[t] = "happened" <=> event[t] = "happened"
  PROVE  Happened' = Happened
<1>1. \A t \in Thread : (event[t] = "happened")' = (event[t] = "happened")
  OBVIOUS
<1> QED
  BY <1>1, Zenon DEF Happened

LEMMA HappenedChanged ==
  ASSUME TypeOK, NEW u \in Thread, NEW e, event' = [event EXCEPT ![u] = e]
  PROVE  Happened' = [Happened EXCEPT ![u] = (e = "happened")]
  BY DEF Happened, TypeOK

RefInv == IInv /\ EventInv /\ SeenInv

(* A step that leaves the vm threads, who runs them and what has happened  *)
(* is none of ExecutionContexts.                                           *)
LEMMA Stutters ==
  ASSUME State' = State, Runner' = Runner, Happened' = Happened
  PROVE  UNCHANGED Contexts!vars
  BY Zenon DEF Contexts!vars, State, Runner, Happened

LEMMA StateSame ==
  ASSUME UNCHANGED <<live, suspend>>
  PROVE  State' = State
<1>1. \A t \in Thread : ContextState(t)' = ContextState(t)
  BY DEF ContextState
<1> QED
  BY <1>1, StateKept

LEMMA AsideMaps == RefInv /\ Aside => [Contexts!Next]_(Contexts!vars)
<1> SUFFICES ASSUME RefInv, Aside PROVE [Contexts!Next]_(Contexts!vars)
  OBVIOUS
<1>0. TypeOK
  BY DEF RefInv, IInv
<1>1. State' = State
  BY AsideKeeps, StateSame DEF tableVars
<1>2. Runner' = Runner
  BY AsideKeeps, RunnerKept DEF localVars, Running
<1>3. CASE UNCHANGED event
  <2>1. Happened' = Happened
    BY <1>3, HappenedKept
  <2> QED
    BY <1>1, <1>2, <2>1, Stutters
<1>4. CASE \E t \in Thread : event[t] = "pending" /\ event' = [event EXCEPT ![t] = "happened"]
  <2>1. PICK t \in Thread : event' = [event EXCEPT ![t] = "happened"]
    BY <1>4
  <2>2. Happened' = [Happened EXCEPT ![t] = ("happened" = "happened")]
    BY <1>0, <2>1, HappenedChanged
  <2>3. Happened' = [Happened EXCEPT ![t] = TRUE]
    BY <2>2, Zenon
  <2>4. Contexts!Happen(t)
    BY <1>1, <1>2, <2>3, Zenon DEF Contexts!Happen, State, Runner, Happened
  <2> QED
    BY <2>4, Zenon DEF Contexts!Next
<1> QED
  BY <1>0, <1>3, <1>4, AsideEvents

LEMMA BossMaps ==
  RefInv /\ (SpawnWorkers \/ StartMainWorker \/ FreeAll) => [Contexts!Next]_(Contexts!vars)
<1> SUFFICES ASSUME RefInv, SpawnWorkers \/ StartMainWorker \/ FreeAll
             PROVE  [Contexts!Next]_(Contexts!vars)
  OBVIOUS
<1>0. TypeOK
  BY DEF RefInv, IInv
<1>1. Happened' = Happened
  <2>1. event' = event
    BY DEF SpawnWorkers, StartMainWorker, FreeAll, waitVars
  <2> QED
    BY <2>1, HappenedKept
<1>2. Runner' = Runner
  <2>1. cur' = cur
    BY DEF SpawnWorkers, StartMainWorker, FreeAll, localVars
  <2>2. CASE SpawnWorkers
    <3>1. \A w \in Worker : pc[w] = "unborn" /\ pc'[w] \in {"unborn", "loop"}
      BY <2>2 DEF SpawnWorkers, RefInv, IInv, BossInv
    <3>2. \A w \in Worker : ~Running(w) /\ ~Running(w)'
      BY <3>1 DEF Running, RunPcs
    <3> QED
      BY <2>1, <3>2, RunnerKept
  <2>3. CASE StartMainWorker
    <3>1. pc[MainWorker] = "unborn" /\ pc' = [pc EXCEPT ![MainWorker] = "loop"]
      BY <2>3 DEF StartMainWorker, RefInv, IInv, BossInv
    <3>2. \A w \in Worker : Running(w)' <=> Running(w)
      BY <1>0, <3>1 DEF Running, RunPcs, TypeOK
    <3> QED
      BY <2>1, <3>2, RunnerKept
  <2>4. CASE FreeAll
    BY <2>1, <2>4, RunnerKept DEF FreeAll, Running
  <2> QED
    BY <2>2, <2>3, <2>4
<1>3. CASE SpawnWorkers \/ StartMainWorker
  <2>1. State' = State
    BY <1>3, StateSame DEF SpawnWorkers, StartMainWorker, tableVars
  <2> QED
    BY <1>1, <1>2, <2>1, Stutters
<1>4. CASE FreeAll
  <2>1. \A w \in Worker : ~Running(w)
    <3>1. joining = WorkerCount /\ \A w \in Worker : w < joining => Stopped(w)
      BY <1>4 DEF FreeAll, RefInv, IInv, BossInv
    <3>2. \A w \in Worker : w < WorkerCount
      BY Constants DEF Worker
    <3> QED
      BY <3>1, <3>2 DEF Stopped, Running, RunPcs
  <2>2. Runner = {}
    BY <2>1 DEF Runner
  <2>3. \A t \in Thread : ContextState(t)' = "absent"
    BY <1>4 DEF FreeAll, ContextState
  <2>4. State' = [t \in Thread |-> "absent"]
    BY <2>3, Zenon DEF State
  <2>5. Contexts!Shutdown
    BY <1>1, <1>2, <2>2, <2>4, Zenon DEF Contexts!Shutdown, State, Runner, Happened
  <2> QED
    BY <2>5, Zenon DEF Contexts!Next
<1> QED
  BY <1>3, <1>4

LEMMA RescheduleMaps == RefInv /\ RescheduleMain => [Contexts!Next]_(Contexts!vars)
<1> SUFFICES ASSUME RefInv, RescheduleMain PROVE [Contexts!Next]_(Contexts!vars)
  OBVIOUS
<1>0. TypeOK
  BY DEF RefInv, IInv
<1>1. Happened' = Happened
  BY HappenedKept DEF RescheduleMain, waitVars
<1>2. Runner' = Runner
  <2>1. /\ pc[MainWorker] = "relaunch" /\ pc' = [pc EXCEPT ![MainWorker] = "special"]
        /\ cur' = cur
    BY DEF RescheduleMain, localVars
  <2>2. \A w \in Worker : Running(w)' <=> Running(w)
    BY <1>0, <2>1 DEF Running, RunPcs, TypeOK
  <2> QED
    BY <2>1, <2>2, RunnerKept
<1>3. CASE suspend[MainThread] = "done"
  <2>1. MainThread \in live
    BY MainLives DEF RescheduleMain, Stopped, RefInv
  <2>2. suspend' = [suspend EXCEPT ![MainThread] = "asynccallscheduled"] /\ live' = live
    BY <1>3 DEF RescheduleMain, SetSuspendState
  <2>3. \A t \in Thread : t # MainThread => ContextState(t)' = ContextState(t)
    BY <1>0, <2>2 DEF ContextState, TypeOK
  <2>4. ContextState(MainThread)' = "runnable"
    BY <1>0, <2>1, <2>2, Constants DEF ContextState, TypeOK
  <2>5. State' = [State EXCEPT ![MainThread] = "runnable"]
    BY <2>3, <2>4, Constants, StateChanged
  <2>6. ContextState(MainThread) = "done"
    BY <1>3, <2>1 DEF ContextState
  <2>7. State[MainThread] = "done"
    BY <2>6, Constants DEF State
  <2>8. Contexts!Relaunch
    BY <1>1, <1>2, <2>5, <2>7, Zenon DEF Contexts!Relaunch, State, Runner, Happened
  <2> QED
    BY <2>8, Zenon DEF Contexts!Next
<1>4. CASE suspend[MainThread] # "done"
  <2>1. State' = State
    BY <1>4, StateSame DEF RescheduleMain
  <2> QED
    BY <1>1, <1>2, <2>1, Stutters
<1> QED
  BY <1>3, <1>4

LEMMA WalksMap ==
  ASSUME RefInv, NEW w \in Worker, Walks(w)
  PROVE  [Contexts!Next]_(Contexts!vars)
<1>0. TypeOK
  BY DEF RefInv, IInv
<1>1. State' = State
  BY <1>0, WalksKeep, StateSame DEF tableVars
<1>2. Runner' = Runner
  <2>1. /\ cur' = cur /\ ~Running(w)
        /\ \E place \in WorkerPcs \ RunPcs : pc' = [pc EXCEPT ![w] = place]
    BY <1>0, WalksKeep
  <2>2. \A v \in Worker : Running(v)' <=> Running(v)
    BY <1>0, <2>1 DEF Running, TypeOK
  <2> QED
    BY <2>1, <2>2, RunnerKept
<1>3. Happened' = Happened
  BY <1>0, WalksKeep, HappenedKept DEF waitVars
<1> QED
  BY <1>1, <1>2, <1>3, Stutters

LEMMA BlockMaps ==
  ASSUME RefInv, NEW w \in Worker, NEW type \in WaitTypes, Block(w, type)
  PROVE  [Contexts!Next]_(Contexts!vars)
<1>0. TypeOK
  BY DEF RefInv, IInv
<1>1. State' = State
  BY StateSame DEF Block
<1>2. Runner' = Runner
  BY <1>0, RunnerKept DEF Block, Running, RunPcs, TypeOK
<1>3. Happened' = Happened
  <2>1. event[cur[w]] = "none" /\ event' = [event EXCEPT ![cur[w]] = "pending"]
    BY DEF Block, RefInv, EventInv
  <2> QED
    BY <1>0, <2>1, HappenedKept DEF TypeOK
<1> QED
  BY <1>1, <1>2, <1>3, Stutters

(* The step changes one context only, to s, and nothing else that can be   *)
(* seen.                                                                   *)
LEMMA CallsMap ==
  ASSUME RefInv, NEW w \in Worker, AsyncCall(w) \/ AsyncCallFails(w) \/ AsyncCallScheduled(w)
  PROVE  [Contexts!Next]_(Contexts!vars)
<1>0. TypeOK
  BY DEF RefInv, IInv
<1>1. Happened' = Happened
  BY HappenedKept DEF AsyncCall, AsyncCallFails, AsyncCallScheduled, waitVars
<1>2. Runner' = Runner
  BY <1>0, RunnerKept DEF AsyncCall, AsyncCallFails, AsyncCallScheduled, Running, RunPcs, TypeOK
<1>3. Running(w)
  BY DEF AsyncCall, AsyncCallFails, AsyncCallScheduled, Running, RunPcs
<1>4. Runner # {}
  BY <1>3, RunnerOf
<1>5. CASE AsyncCall(w)
  <2>0. created + 1 \in Thread /\ created + 1 > created
    BY <1>0, <1>5, Constants DEF AsyncCall, Thread, TypeOK
  <2> PICK t \in Thread : t = created + 1
    BY <2>0
  <2>1. t > created /\ live' = live \cup {t} /\ suspend' = suspend
    BY <1>5, <2>0 DEF AsyncCall
  <2>2. t \notin live
    <3>1. \A u \in live : u <= created
      BY DEF RefInv, IInv, ThreadInv
    <3>2. created \in Nat
      BY <1>0, Constants DEF TypeOK, Thread
    <3> QED
      BY <2>1, <3>1, <3>2
  <2>3. suspend[t] = "uninitialized"
    BY <2>1 DEF RefInv, IInv, ThreadInv
  <2>4. \A u \in Thread : u # t => ContextState(u)' = ContextState(u)
    BY <2>1 DEF ContextState
  <2>5. ContextState(t) = "absent" /\ ContextState(t)' = "setup"
    BY <2>1, <2>2, <2>3 DEF ContextState
  <2>6. State' = [State EXCEPT ![t] = "setup"] /\ State[t] = "absent"
    <3>1. State' = [State EXCEPT ![t] = "setup"]
      BY <2>1, <2>4, <2>5, StateChanged
    <3>2. State[t] = "absent"
      BY <2>1, <2>5 DEF State
    <3> QED
      BY <3>1, <3>2
  <2>7. Contexts!Create(t)
    BY <1>1, <1>2, <1>4, <2>6, Zenon DEF Contexts!Create, State, Runner, Happened
  <2> QED
    BY <2>1, <2>7, Zenon DEF Contexts!Next
<1>6. CASE AsyncCallFails(w) \/ AsyncCallScheduled(w)
  <2>0. fresh[w] \in Thread /\ fresh[w] \in live /\ suspend[fresh[w]] = "uninitialized"
    BY <1>0, <1>6 DEF AsyncCallFails, AsyncCallScheduled, RefInv, IInv, FreshInv, TypeOK
  <2> PICK t \in Thread : t = fresh[w]
    BY <2>0
  <2>1. t \in Thread /\ t \in live /\ suspend[t] = "uninitialized"
    BY <2>0
  <2>2. ContextState(t) = "setup"
    BY <2>1 DEF ContextState
  <2>3. State[t] = "setup"
    BY <2>1, <2>2 DEF State
  <2>4. CASE AsyncCallFails(w)
    <3>1. live' = live \ {t} /\ suspend' = suspend
      BY <2>4 DEF AsyncCallFails
    <3>2. ContextState(t)' = "absent"
      BY <3>1 DEF ContextState
    <3>3. \A u \in Thread : u # t => ContextState(u)' = ContextState(u)
      BY <3>1 DEF ContextState
    <3>4. State' = [State EXCEPT ![t] = "absent"]
      BY <2>1, <3>2, <3>3, StateChanged
    <3>5. Contexts!Discard(t)
      BY <1>1, <1>2, <2>3, <3>4, Zenon DEF Contexts!Discard, State, Runner, Happened
    <3> QED
      BY <2>1, <3>5, Zenon DEF Contexts!Next
  <2>5. CASE AsyncCallScheduled(w)
    <3>1. live' = live /\ suspend' = [suspend EXCEPT ![t] = "asynccallscheduled"]
      BY <2>5 DEF AsyncCallScheduled, SetSuspendState
    <3>2. ContextState(t)' = "runnable"
      BY <1>0, <2>1, <3>1 DEF ContextState, TypeOK
    <3>3. \A u \in Thread : u # t => ContextState(u)' = ContextState(u)
      BY <1>0, <3>1 DEF ContextState, TypeOK
    <3>4. State' = [State EXCEPT ![t] = "runnable"]
      BY <2>1, <3>2, <3>3, StateChanged
    <3>5. Contexts!Schedule(t)
      BY <1>1, <1>2, <2>3, <3>4, Zenon DEF Contexts!Schedule, State, Runner, Happened
    <3> QED
      BY <2>1, <3>5, Zenon DEF Contexts!Next
  <2> QED
    BY <1>6, <2>4, <2>5
<1> QED
  BY <1>5, <1>6

LEMMA PicksMap ==
  ASSUME RefInv, NEW w \in Worker, NEW t \in Thread, Picks(w, t)
  PROVE  [Contexts!Next]_(Contexts!vars)
<1>0. TypeOK
  BY DEF RefInv, IInv
<1>1. /\ suspend' = [suspend EXCEPT ![t] = "none"] /\ live' = live
      /\ event' = [event EXCEPT ![t] = "none"]
      /\ cur' = [cur EXCEPT ![w] = t] /\ pc' = [pc EXCEPT ![w] = "run"]
      /\ t \in live /\ ~Running(w)
      /\ t = MainThread => w = MainWorker
  BY DEF Picks, RunFunction, SetSuspendState
<1>2. Happened' = [Happened EXCEPT ![t] = FALSE]
  <2>1. Happened' = [Happened EXCEPT ![t] = ("none" = "happened")]
    BY <1>0, <1>1, HappenedChanged
  <2>2. ("none" = "happened") = FALSE
    OBVIOUS
  <2> QED
    BY <2>1, <2>2, Zenon
<1>3. Runner' = Runner \cup {<<w, t>>}
  <2>1. Running(w)' /\ cur'[w] = t
    BY <1>0, <1>1 DEF Running, RunPcs, TypeOK
  <2>2. \A v \in Worker : v # w =>
          (Running(v)' <=> Running(v)) /\ (Running(v) => cur'[v] = cur[v])
    BY <1>0, <1>1 DEF Running, TypeOK
  <2>3. Runner' = Runner \cup {<<w, cur'[w]>>}
    BY <1>1, <2>1, <2>2, RunnerGrows
  <2> QED
    BY <2>1, <2>3
<1>4. State' = [State EXCEPT ![t] = "running"]
  <2>1. ContextState(t)' = "running"
    BY <1>0, <1>1 DEF ContextState, TypeOK
  <2>2. \A u \in Thread : u # t => ContextState(u)' = ContextState(u)
    BY <1>0, <1>1 DEF ContextState, TypeOK
  <2> QED
    BY <2>1, <2>2, StateChanged
<1>5. ContextState(t) = "runnable" \/ (ContextState(t) = "waiting" /\ event[t] = "happened")
  <2>1. CASE suspend[t] = "asynccallscheduled"
    BY <1>1, <2>1 DEF ContextState
  <2>2. CASE suspend[t] = "fixedtime" /\ t \in seen[w]
    BY <1>1, <2>2 DEF ContextState, RefInv, SeenInv, Sleeps
  <2>3. CASE suspend[t] \in {"asyncsysjobwait", "sockwait"} /\ event[t] = "happened"
    BY <1>1, <2>3 DEF ContextState
  <2> QED
    BY <2>1, <2>2, <2>3 DEF Picks, CanThreadResume
<1>6. State[t] = "runnable" \/ (State[t] = "waiting" /\ Happened[t])
  BY <1>5 DEF State, Happened
<1>7. Contexts!Free(w)
  BY <1>1, RunnerOf
<1>8. Contexts!Resume(w, t)
  BY <1>1, <1>2, <1>3, <1>4, <1>6, <1>7, Zenon
     DEF Contexts!Resume, State, Runner, Happened
<1> QED
  BY <1>8, Zenon DEF Contexts!Next

LEMMA StopsMap ==
  ASSUME RefInv, NEW w \in Worker, NEW s \in AllWaitTypes \cup {"done"}, Stops(w, s)
  PROVE  [Contexts!Next]_(Contexts!vars)
<1>0. TypeOK
  BY DEF RefInv, IInv
<1>c. cur[w] \in Thread
  BY <1>0 DEF Stops, TypeOK
<1> PICK t \in Thread : t = cur[w]
  BY <1>c
<1>1. /\ suspend' = [suspend EXCEPT ![t] = s] /\ live' = live
      /\ event' = event /\ t \in live /\ t \in Thread /\ Running(w)
      /\ cur' = [cur EXCEPT ![w] = NoThread]
      /\ \E place \in {"loop", "ended"} : pc' = [pc EXCEPT ![w] = place]
  BY <1>0 DEF Stops, waitVars, TypeOK
<1>2. Happened' = Happened
  BY <1>1, HappenedKept
<1>3. Runner' = Runner \ {<<w, t>>} /\ <<w, t>> \in Runner
  <2>1. ~Running(w)'
    BY <1>0, <1>1 DEF Running, RunPcs, TypeOK
  <2>2. \A v \in Worker : v # w =>
          (Running(v)' <=> Running(v)) /\ (Running(v) => cur'[v] = cur[v])
    BY <1>0, <1>1 DEF Running, TypeOK
  <2>3. Runner' = Runner \ {<<w, cur[w]>>}
    BY <1>1, <2>1, <2>2, RunnerShrinks
  <2> QED
    BY <1>1, <2>3, RunnerOf
<1>4. \A u \in Thread : u # t => ContextState(u)' = ContextState(u)
  BY <1>0, <1>1 DEF ContextState, TypeOK
<1>5. suspend'[t] = s /\ t \in live'
  BY <1>0, <1>1 DEF TypeOK
<1>6. CASE s = "done"
  <2>1. ContextState(t)' = "done"
    BY <1>5, <1>6 DEF ContextState
  <2>2. State' = [State EXCEPT ![t] = "done"]
    BY <1>1, <1>4, <2>1, StateChanged
  <2>3. Contexts!Finish(w, t)
    BY <1>2, <1>3, <2>2, Zenon DEF Contexts!Finish, State, Runner, Happened
  <2> QED
    BY <1>1, <2>3, Zenon DEF Contexts!Next
<1>7. CASE s \in AllWaitTypes
  <2>1. ContextState(t)' = "waiting"
    BY <1>5, <1>7 DEF ContextState, AllWaitTypes
  <2>2. State' = [State EXCEPT ![t] = "waiting"]
    BY <1>1, <1>4, <2>1, StateChanged
  <2>3. Contexts!Wait(w, t)
    BY <1>2, <1>3, <2>2, Zenon DEF Contexts!Wait, State, Runner, Happened
  <2> QED
    BY <1>1, <2>3, Zenon DEF Contexts!Next
<1> QED
  BY <1>6, <1>7

LEMMA InitMaps == Init => Contexts!Init
<1> SUFFICES ASSUME Init PROVE Contexts!Init
  OBVIOUS
<1>1. \A t \in Thread : ContextState(t) = IF t = MainThread THEN "runnable" ELSE "absent"
  BY DEF Init, ContextState
<1>2. State = [t \in Thread |-> IF t = MainThread THEN "runnable" ELSE "absent"]
  BY <1>1, Zenon DEF State
<1>3. Runner = {}
  BY DEF Init, Runner, Running, RunPcs
<1>4. \A t \in Thread : (event[t] = "happened") = FALSE
  BY DEF Init
<1>5. Happened = [t \in Thread |-> FALSE]
  BY <1>4, Zenon DEF Happened
<1> QED
  BY <1>2, <1>3, <1>5, Zenon DEF Contexts!Init, State, Runner, Happened

LEMMA InitRef == Init => RefInv
<1> SUFFICES ASSUME Init PROVE RefInv
  OBVIOUS
<1>1. EventInv /\ SeenInv
  BY DEF Init, EventInv, SeenInv, Sleeps
<1> QED
  BY <1>1, InitIInv DEF RefInv

(* The scheduler implements execution contexts: every step of it, with any *)
(* number of workers and vm threads, is a step of ExecutionContexts or one *)
(* that changes nothing it can see.                                        *)
THEOREM SchedulerImplementsContexts == Spec => ImplementsContexts
<1>1. Init => RefInv
  BY InitRef
<1>2. RefInv /\ [Next]_vars => RefInv'
  BY InductiveInv, EventStepInv, SeenStepInv DEF RefInv
<1>3. RefInv /\ [Next]_vars => [Contexts!Next]_(Contexts!vars)
  BY AsideMaps, BossMaps, RescheduleMaps, WalksMap, BlockMaps, CallsMap, PicksMap, StopsMap,
     StepEffects DEF RefInv
<1> QED
  BY <1>1, <1>2, <1>3, InitMaps, PTL DEF Spec, ImplementsContexts, Contexts!Spec

=============================================================================
