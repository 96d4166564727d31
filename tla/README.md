# Verification of Horse64

TLA+ modules, TLC configurations and TLAPS proofs about Horse64: its virtual
machine horsevm, its compiler horsec, and the parts of the runtime they rest on
(`horse64/` in the repository). Horse64 runs `async` calls as green threads on a
few OS threads; the compiler turns files into the instructions of the machine.
File names below are relative to `src/horse64/` unless they begin with `docs/`.

Contents: 1. inventory, 2. the modules and the code, 3. the runs, 4. fairness,
5. the proofs, 6. disagreements between code and text, 7. defects the models
show, 8. what is not modelled, 9. the plan.

## 1. Inventory

| component | state | operations | interacts through |
|---|---|---|---|
| scheduler (`vmschedule.c`) | list of vm threads, `workers_ran_*`, `fatalerror`, `program_return_value`, stop signal, list of waited-for sockets | `vmschedule_ExecuteProgram`, `_WorkerRun`, `_WorkerSupervisorRun`, `_AsyncScheduleFunc`, `_SuspendFunc` | `worker_mutex`, wake-up events, the supervisor's socket set |
| suspend and resume (`vmexec.c`) | `suspend_info`, `upcoming_resume_info`, heap, stack of a vm thread | `vmthread_New`, `_Free`, `_SetSuspendState`, `_RunFunctionWithReturnInt`, `SUSPEND_VM` | called by workers, partly under `worker_mutex` |
| thread events (`threading.c`) | a flag under a mutex, a socket pair | `threadevent_Set`, `_Unset`, `_FlushWakeUpEvents`, `_WaitUntilSet` | bytes in the socket pair |
| system jobs (`asyncsysjob.c`) | pool and list of jobs, job workers, their events, the job-done event | `asyncjob_CreateEmpty`, `_RequestAsync`, `_IsDone`, `_AbandonJob`, `_Free`, `asyncsysjobworker_Do` | `asyncsysjob_schedule_lock`, events, unlocked reads of `job->done` |
| `net.connect` (`corelib/net.c`) | progress record: job, connection, state | resolve, connect, abort | jobs, sockets, suspension of its vm thread |
| sockets (`sockets.c`) | nonblocking sockets, send list, socket sets | create, pair, connect, send, receive, wait | OS, scheduler's socket list |
| interpreter (`vmexec.c`, `vmexec_inst_unopbinop_INCLUDE.c`, `stack.c`) | stack, function frames, rescue frames | one per instruction | values, scheduler |
| values and containers (`valuecontentstruct.c`, `gcvalue.c`, `vmlist.c`, `vmmap.c`, `vmset.c`, `vmstrings.c`) | reference counts, blocks, buckets, revisions | get, set, add, remove, iterate | heap of the vm thread |
| pool allocator (`poolalloc.c`) | areas, count of free items, hints | malloc, free | one per heap |
| compiler front end (`compiler/lexer.c`, `astparser.c`, ...) | tokens, syntax tree, scopes | lex, parse, declare | project |
| compiler middle and back end (`compiler/scoperesolver.c`, `varstorage.c`, `threadablechecker.c`, `codegen.c`, `compileproject.c`) | marks of files, storage of items, instruction buffers | find files, resolve names, give slots, check, generate | tables of the program (`bytecode.c`) |
| core library (`corelib/`) | none, or per call | one per function | values, OS, scheduler |
| virtual files (`vfs*.c`, `archiver.c`), file system (`filesys*.c`) | open files, archives, queues of a call | paths, list, remove, create, read | OS |
| text, URI, JSON, hash, sorter, processes | none, or per call | library calls | OS |

What is hard here, and hard to test:

* interleavings of workers, supervisor, job workers and the starting thread, of
  the thread that accepts with other processes, of calls on the same folder;
* wake-ups sent and consumed in several steps, timeouts, calls made again;
* reuse of job slots, of pool items, of stack slots, of block pointers;
* failure of one step of several, and going on behind it (errors in frames, a
  parser behind an error, a connection behind a refused address);
* passes over data in an order nobody fixed (hash maps of files, cycles of
  calls), and the end of the program.

What makes each component right:

* scheduler: a vm thread runs on one worker at a time and only when due; a due
  vm thread is resumed; the program ends exactly when everything is done;
* suspend and resume: a vm thread continues where it was, or starts afresh;
* thread events: no set event is slept through, and none is invented;
* system jobs: a job is done once, its owner learns of it, its memory is kept
  as long as somebody uses it and freed after that;
* sockets: a pair is connected to itself; a connection succeeds or is cleaned
  up; a waited-for socket is polled;
* interpreter and code generator: a compiled program does what the reference
  says, and frames, slots and the stack keep in step on the way;
* compiler: what is read is what was written; a name means its definition; code
  is generated when and only when all files are there and right;
* containers and sorter: a list is the list it claims to be, sorting sorts;
* allocator: free items are found, and enough are kept for errors;
* file system: removing and creating folders does that and nothing else.

`PROJECT.json` lists the hazards line by line, with the properties that cover
each or the reason why none does.

## 2. The modules and the code

| module | models |
|---|---|
| `ExecutionContexts` | abstract: what the scheduler promises of execution contexts |
| `VmSchedule` | `vmschedule.c`, and suspend and resume of `vmexec.c` |
| `EventFlag` | abstract: what a thread event promises |
| `ThreadEvent` | the thread event of `threading.c` |
| `JobService` | abstract: what system jobs promise |
| `AsyncSysJob` | `asyncsysjob.c` and the host lookup of `net.connect` |
| `ProgramMeaning` | abstract: what the language reference says of statements |
| `Codegen` | statements in `compiler/codegen.c` |
| `VmExec` | frames, errors, calls and resumed C functions in `vmexec.c` |
| `CallArguments` | arguments and parameters, in `codegen.c` and in CALL of `vmexec.c` |
| `ExpressionCode` | expressions and assignments in `codegen.c`, run by their instructions |
| `Numbers` | `vmexec_inst_unopbinop_INCLUDE.c` |
| `PoolAlloc`, `ListBlocks`, `ItemSort` | `poolalloc.c`; `vmlist.c` and loops over lists; `itemsort.c` |
| `ThreadableChecker` | `compiler/threadablechecker.c` |
| `Tokens`, `ExpressionParser`, `StatementParser` | `compiler/lexer.c` (kinds of tokens) and `compiler/astparser.c` |
| `SourceText` | reference: how trees are written, with the precedences of the language reference |
| `NameResolution` | names, closures and slots: `compiler/scoperesolver.c`, `varstorage.c` |
| `ProjectResolve` | the passes over a project: `compiler/compileproject.c`, `scoperesolver.c`, `bytecode.c` |
| `FilePaths`, `ImportPaths` | operations on paths (`filesys32.c`); which file an import means (`compiler/compileproject.c`) |
| `FolderTree` | removing, listing and creating folders (`filesys32.c`) |
| `SocketPair`, `NetConnect`, `SocketWaits` | `sockets_NewPair`; `net.connect` behind its lookup; the set of waited-for sockets (`sockets.c`, `vmschedule.c`) |
| `MC*` | the instances TLC checks |
| `*_proofs` | theorems about `VmSchedule`, `PoolAlloc`, `ThreadableChecker`, `VmExec`, `AsyncSysJob`, `FolderTree`; `Lists_proofs` about `ListBlocks` and `ItemSort`; `Sockets_proofs` about `ThreadEvent`, `SocketPair`, `NetConnect`, `SocketWaits` |

Components meet in their abstract specifications. `VmSchedule` sees a thread
event as one flag, which is what `ThreadEvent` is shown to implement, and a job
as something that happens (`Happen`) and is announced later (`AnnounceJob`),
which is what `AsyncSysJob` is shown to implement (`JobService`). `VmExec` runs
the code `Codegen` makes and is held against `ProgramMeaning`; the parser is held
against `SourceText`.

### VmSchedule

One action is one critical section of `worker_mutex`, or a piece of code
without the mutex that touches shared state. `pc[w]` is the place of worker w
in `vmschedule_WorkerRun`:

| place | code |
|---|---|
| `loop` | the `while` and `datetime_Ticks()`, 406-441 |
| `relaunch` | "allow mainthread to re-run", 443-459 |
| `special` | the three special cases, 460-531 |
| `scan` | the scan for a vm thread, 533-606, and the end, 607-619 |
| `run`, `spawn`, `suspending` | inside `vmthread_RunFunctionWithReturnInt`, without the mutex; `spawn` is `vmschedule_AsyncScheduleFunc` between its two critical sections |
| `idle`, `wait` | the fatal check, 620, and `threadevent_WaitUntilSet`, 635 |

A vm thread is `suspend[t]` (the `suspendtype`), `resume[t]` and `fromStart[t]`
(`upcoming_resume_info`), `func[t]` (what its stack holds), `onMain[t]`,
`shared[t]` (its heap is the main heap). Its code is whatever the interpreter
may do that the scheduler can notice: an async call that succeeds or fails, a
wait, a return, an uncaught error. `event[t]` is what it waits for; `seen[w]`
is the set of timers that had expired at w's last `datetime_Ticks()`, because a
scan compares timers with that older time. `covered` is the set of timers in
the supervisor's current wait. `boss` is the place in
`vmschedule_ExecuteProgram`, with the failures of thread creation and
of setting `process.args`.

The two kinds of socket waits are one kind here. A set unlock event stays set
(`unlockEvent`): no code receives from its socket. `_vmschedule_RegisterSocketForWaiting`
is part of the step that calls it; its locks are `SocketWaits`.

### ThreadEvent

`SetFlag` and `SendByte` are the two halves of `threadevent_Set`; a full socket
makes the second half wait, as its loop does. `FirstCheck`, `Readable` or
`PollTimeout`, and `Recheck` are the parts of `threadevent_WaitUntilSet` with
`unsetifset`, the only way the code calls it.

### AsyncSysJob

A job is a slot of the pool, `ptr[c]` is `resolve_job` of a vm thread's
`net.connect`, `jobs` is the list, `wpc[w]` the place of a job worker. The lock
is a variable only for `asyncjob_RequestAsync`, which sets events while it holds
it; other critical sections are single steps enabled while the lock is free.
`owner` is `request_thread`, the caller of the request.

### Codegen and VmExec

`Codegen` compiles a function: one operator per statement of the generator's
callback, with the counters of jump targets and do statements it keeps, then the
transform that takes targets out. Offsets count instructions, not bytes: the
instructions that compare offsets (POPRESCUEFRAME) compare the same places.

`VmExec` has one action per instruction or way through it. `vt` is the vm thread
(function frames, rescue frames, `floor`, `top`, the work a C function left),
`fn`, `pc` and `nest` are the interpreter's own variables, `resume` what a
suspension keeps. `phase = "lost"` is an assertion of the debug build that does
not hold. A C function is one of: returns, fails, sleeps once, leaves work and
goes on later, leaves work that fails, opens a value. The conditions a program
meets are given beforehand (`oracle`), so that its documented end is one.

### The compiler's passes

`Tokens` says what kind of token the lexer makes of an operator or bracket.
`ExpressionParser` is `ast_ParseExprInlineOperator_Recurse` and
`ast_ParseExprInline`: it splits at the operator that binds last.
`StatementParser` is `ast_ParseExprStmt` with its blocks, scopes and going on
behind errors; a result says how many tokens were used. `NameResolution` gives
names their definitions and functions their slots. `ProjectResolve` is a state
machine: files are loaded while files with imports are left, then resolved and
checked in any order (the hash map of files has a random key), each building the
storage of what it imports; `proj` holds the tables of the program.

### Suite of small parts

`PoolAlloc` (`pool`), `ListBlocks` (`list`), `ItemSort` (`sort`) and
`ThreadableChecker` (`check`) each have one record variable whose fields are the
C struct's, and an action per operation or round of the loop; an assertion or a
write out of bounds sets a field (`lost`) or breaks the property. `SocketPair`
interleaves the caller, the accepting thread and strangers that connect to the
port; `NetConnect` is called again from its start after each wait, as the C
function is; `SocketWaits` has the three locks and the poll. `FolderTree`
interleaves calls one operation of the OS at a time.

## 3. The runs

| run | result | what it shows |
|---|---|---|
| `schedule` | holds, about 850 000 states | `RunExclusive`, `ResumeInfoFits`, `NoLostWakeup`, `MainWorkerEndsLast`, refinement of `ExecutionContexts` |
| `schedule_live` | holds, about 410 000 states | `WaitsEnd`, `Terminates`, with all kinds of waits, two launch functions and failing thread creation |
| `thread_event` | holds, 184 states | `FlagHasByte`, refinement of `EventFlag` with its liveness |
| `async_jobs` | holds, about 120 000 states | memory of jobs, results, refinement of `JobService`, answers |
| `async_jobs_alone` | holds, about 110 000 states | `AbandonedFreed` when requests fail |
| `compiled_programs` | holds, about 63 000 states | frames, stack and unfinished calls in step; programs end as documented and do end |
| `library` | holds, about 510 000 states | the parts below |
| `sleep_uncovered`, `shared_heap`, `init_suspend`, `async_job_failure`, `return_in_do` | violated | section 6 |

### Bounds

`WorkerCount = 2`: worker 0, which may run the main thread, and one that
may not, are the two kinds of worker there are; more workers of the second kind
add symmetric copies. `MaxThreads = 2` (3 in `shared_heap`, which needs two
async calls at once) and `MaxBlocks = 1`: the main thread and one async call,
each waiting once in any of the three ways, meet the supervisor, both scans,
every launch phase and the end of the program in every order. The `schedule`
properties were also checked once with three vm threads and one kind of wait
(3.4 million states). The program has no `$$globalinitsimple` (`LaunchFuncs`), so
that launch functions are skipped as well as run, and its initialiser may wait
(`InitMaySuspend`), so that the main thread can be suspended between two
launches; whatever the properties of `schedule` say holds then too, and only
the assertion of `init_suspend` does not.

`schedule_live` has all three kinds of waits, threads that cannot be created, and
`globalinit` and `main`, so that all vm threads are done for a moment between the two
and workers leave then. Its initialiser does not wait: one that does is checked for
safety only, with the assertion of `init_suspend` on its way. What is called async may
run in parallel in `schedule_live` and may not in `schedule` (`AsyncParallel`), which
the scheduler does not look at; both kinds meet in `shared_heap`.

`thread_event` has three setters and a socket that is full at two bytes, so
that a setter does wait for room. The job runs have two slots and two workers;
`async_jobs` has two vm threads with two calls, enough for a slot to be reused
while the other call is at any place; `async_jobs_alone` has one vm thread with
four calls, any of which may fail, since failing requests of two vm threads is
the subject of `async_job_failure`. Their sockets (`Capacity`) never fill up:
with fewer bytes than requests and a worker missing, a request would wait for
ever with the lock in its hands, a hazard listed in `PROJECT.json`.

`compiled_programs` runs some nine hundred programs of a main function and a
function `f`: do statements two deep in every position (in the body, in a rescue
clause, in a finally, in a while and in a for), with every mix of clauses, around
each of eight statements that can go wrong, with statements inside, and six
bodies of `f` with recursion.

`library` takes one part at a time, the others staying as they start:

| part | instance | property |
|---|---|---|
| pool | first area 2, margin 3, two areas added | `FreeItemsAreThere`, `MarginIsKept` |
| sort | all inputs of up to five items, and ones with items that do not compare | `DisorderIsQueued`, `NoItemLost` |
| list | blocks of 3, the first growing from 1, up to 7 entries, memory refused at any block | `EntriesAreFound`, `BlocksHoldTheirEntries`, `LoopsEndWithTheList` |
| check | three functions, one class, every program with one call per function, function 0 using the class of its own number or not | `ParallelIsExact` |
| call | 0 to 2 positional, up to three keyword parameters, every call | `ArgumentsReachTheirParameters` |
| numbers | all pairs of 5-bit integers and of doubles with 3 bits | `IntegersAreExact` |
| expression | operations on operations, three variables, all their values | `CompiledExpressionsMean` |
| parser | trees three operators deep, every container around every kind of value | `ExpressionsAreReadAsWritten` |
| file | every statement, every block around definitions, pairs of top-level statements; the small ones with each word left out | `FilesAreReadAsWritten` |
| names, reference | up to two definitions and two uses in up to three functions; chains of up to four words and three imports | `NamesReachTheirStorage` |
| project | four files, every import graph with at most one import but for the main file's two, one fault in one file, compilers with and without assertions | `ProjectIsResolved` |
| import | paths of up to four components; worlds with each choice of files on disk and packed | `ImportsAreFound` |
| folders | a folder with two entries of any kind, one level more, links in and out; one or two calls; entries that may not be removed, opened or written to; descriptors running out | `FoldersEndAsAsked` |
| pair | two strangers, a key in two pieces | `PairIsOwnConnection` |
| connect | hosts with an IPv4 address, an IPv6 address or both, with and without TLS, every outcome of every step | `ConnectsOrCleansUp` |
| waits | three vm threads and a supervisor | `PollsWhatIsWaitedFor` |

Two entries, files or threads are what the ordering hazards need; three of a kind
are there where a middle one is treated otherwise (blocks of a list, functions in
a cycle). Numbers keep the relation that matters: a double has fewer bits than an
integer.

Every property has a mutant of the code that breaks it, for instance a
supervisor that wakes only those asleep (`WakeSleepers`), a callee's rescue
frames that stay (`PopFuncFrameKeepingRescues`), or a queue of folders whose scan
does not step back behind a removal (`UnqueuedWithoutStepBack`).

### What the main properties say

* `RunExclusive`: a scan trusts the suspend state alone. A vm thread is in state
  `none` exactly while one worker runs it, and the main thread only on worker 0.
* `ResumeInfoFits`: a suspended vm thread resumes the function on its stack; a
  scheduled one has an empty stack and a function to start.
* `NoLostWakeup`: when the supervisor waits with nothing to wake it and all
  workers sleep, no async call and no announced job is left. So only timers
  depend on the 5 and 10 second timeouts.
* `MainWorkerEndsLast`: worker 0 leaves only after a fatal error or when all is
  done. Other workers may leave early: between two launch functions all vm
  threads are done for a moment, and a worker that scans then ends.
* `WaitsEnd`: no vm thread stays for good in a wait that is over, be it a time, a job
  or a socket, unless there was a fatal error.
* `Terminates`: when all OS threads could be created, every worker and the
  supervisor leave their functions and are joined (`AllJoined`). Two other ends are
  named: `ExecuteProgram` gives up, joining nobody, where the supervisor or memory
  for `process.args` is missing (`aborted`); and when a worker could not be created,
  the others stop (`WorkersMissing`) and the program crashes joining what was not made.
* `JobsInUseAreAllocated`, `ResultsStay`, `AbandonedFreed`, `JobsAnswered`: the
  memory of jobs, and no request left behind.
* `RescueFramesNest`, `FramesMatchNesting`, `StackMatchesFrame`, `WorkHasItsCall`:
  the two stacks of frames, the stack and the unfinished call stay together.
* `EndsAsDocumented`: the C functions called, their order and the error at the
  end are those of the language reference.
* `FoldersEndAsAsked`: a removal takes all that was below its path and nothing
  else, never through a link; two calls at once leave only what was created, may not be
  removed or lies in a folder that cannot be listed; a call alone also reports that
  something is left or could not be opened; and creating fails only for what is removed
  on its way meanwhile or lets nothing be created in it.

### What the properties leave out

Where the code does not do what a property says, the property names the case
instead of leaving it unsaid; section 7 has the reasons.

* `EndsAsDocumented` holds of `Tame` programs: without break, continue or return
  out of a do or with statement, without an error in the finally of a statement
  that rescues, and without a collision of offsets (`Collide`).
* `CompiledExpressionsMean` leaves out a list assigned to a variable it holds
  (`ListHoldsItself`); `ExpressionsAreReadAsWritten` the forms in `Misread`;
  `FilesAreReadAsWritten` a class with a base behind certain values
  (`HidesClass`), and words whose loss leaves another valid text (`Droppable`).
* `BlocksHoldTheirEntries` and `EntriesAreFound` hold until a larger first block is
  refused its memory (`starved`): the code then writes the entry behind the block, and
  what follows is undefined. `EntriesAreFound` also leaves out a remembered block that
  was moved (`Dangling`).
* `ParallelIsExact` leaves out the reference of a function to the class of its own
  number (`NumbersCollide`), which the code takes for the function itself: such a
  function may pass although its class may not run in parallel.
* `ArgumentsReachTheirParameters` needs keyword parameters declared in the order
  of their name numbers (`DeclaredInNameOrder`).
* `IntegersAreExact` leaves out the divisions and products that trap (`Traps`) and, for
  the direction of sums and differences, an integer taken from a double
  (`LimitsWrongOperand`) and a double taken from an integer when the result is 2^63
  (`ClampHidesTheJump`).
* `NamesReachTheirStorage` is about files the resolver accepts. In a compiler with
  assertions, the default, some of them stop it: exactly those may in which a nested
  function uses a variable of its own (`AssertionFails`, `NestedFuncUsesOwnVar`). Of the
  names of an outer function only the variables are asked to be bound: that its
  parameters, iterators and labels are reached is not so and not claimed.
* `ProjectIsResolved` is about imports that start with different names. A reference
  from an import into what that one imports may lack its storage, or stop a compiler
  with assertions (`ResolveAborts`); the property names these references
  (`IsBelowImports`, `RefersBelowImports`), and asks for generated code where no
  reference lacks its storage.
* `ImportsAreFound` leaves out the paths in `Misnormalized`; a module that only a packed
  `horse_modules` has (`LostWhenFound`); a project folder that has `horse_modules` only,
  or a file outside the working directory, for the folder guessed. Of an import without
  a library it says that what is found is right, not that it is found: it never is.
* `ConnectsOrCleansUp` asks for a finished handshake of an encrypted stream unless the
  other side shut the handshake down (`HandshakeShut`), which the code takes for success.
  An IPv6 address is never connected to (`RecognisedAsIP`), and a host that has no other
  fails; the property asks that the IPv4 address is connected to before that is said.
* `FoldersEndAsAsked` lets a file or dangling link in the way count as a folder
  (`Blocked`), and a removal run out of descriptors. A removal of what is not there
  must be an error; which one is left open, since the code does not give the one it
  means to. A target that is a file is refused, except one that cannot be opened: it is
  removed, and reported as not permitted. A link in the way of the path
  itself leads elsewhere, as the system has it: what is taken and made is said of
  paths without one (`RemovedUnlinked`, `CreatedUnlinked`).

## 4. Fairness

Weak fairness of each OS thread's next step (`WorkerStep`, `SupStep`,
`BossStep`, the job workers, the setters): the operating system keeps running
its threads, and no step is disabled and enabled for ever. What a vm thread waits for
happens, and a function returns, waits or fails in the end; a program that loops
for ever has no claim to end. The supervisor's 5 second wait does run out
(`SupTick`), which the code relies on at its end and for timers; the workers' 10
second timeout is not assumed in the scheduler. For `AbandonedFreed` the job
workers' 5 second timeout is assumed, since nothing else wakes them. Calls of
`net.connect`, failures and thread creation are never assumed to happen.

`VmExec` has weak fairness of its next step, since the worker that has the
thread goes on, and strong fairness of `CallFinished`: a C function that left
work behind is resumed again and again, and its work ends at some time. The parts
of `library` are checked for safety only; a part may stop, so that run does not
look for deadlocks.

## 5. The proofs

`Sockets_proofs` holds what is made of sockets.

* A threadevent, for any set of setters and any capacity: `TypeCorrect`,
  `FlagAlwaysHasByte` and `ImplementsFlagSteps`, the step simulation of
  `EventFlag`. `FlagHasByte` needs no strengthening but the types: the owner can
  only get to its poll by finding the flag unset, and a later `SetFlag` leaves its
  setter about to send.
* The set of sockets, for any number of waiting threads (`WaitersAssumption`: they
  are none of the names the model uses itself): `WaitsArePolled`
  (`PollsWhatIsWaitedFor`). The invariant `SocksInv` says that the list holds each
  entry once and exactly the fixed ones and those of the threads listed by where
  they are (`SetInv`), and who may be between the locks with which of them held and
  the byte of the unlock event sent (`LockInv`).
* The socket pair, for any key and any strangers (`PairAssumption`: a key has a piece
  no stranger sends, as it is random): `PairIsTheCallers` (`PairIsOwnConnection`). `PairInv`
  adds that only junk came over a stranger's connection (`LineInv`), that the queue
  and the list of connections hold each one once, and exactly those the system has as
  queued and, while the thread accepts, as accepted (`QueueInv`, `ConnsInv`), and where
  caller and thread can be together (`PlaceInv`, `ResultInv`). Without the second half
  of `ConnsInv` the thread could leave a connection open when it goes.
* `net.connect`, for every sequence of answers: `ConnectLeavesNothing`
  (`ConnectsOrCleansUp`). `ConnInv` has a part for the call that waits and one for the
  call that ended. In the first, a connection known to be there is (`KnownInv`), and a
  call left over on the socket is the one to the IPv4 address (`CalledInv`). The
  theorem has the property's exception: a handshake the other side shut down.

`VmSchedule_proofs`, for any number of workers, vm threads and waits, from
`ScheduleAssumption` alone: `TypeCorrect`, `Exclusive` (`RunExclusive`),
`ResumeFits` (`ResumeInfoFits`), `EndsLast` (`MainWorkerEndsLast`). None of
these is inductive. The inductive invariant `IInv` adds

* `BossInv`: which workers and supervisor exist in each phase of the start and
  of the end, so that at `FreeAll` nobody runs any more;
* `ThreadInv`, `FreshInv`: which vm threads exist, and that the one an async call
  sets up belongs to one worker and is not yet in the scan's reach;
* `RunInv`: `RunExclusive`, with the worker's `cur` tied to its place;
* `LaunchInv`, `MainInv`: what the launch phases have done to the main thread;
* `ResumeInv`: `ResumeInfoFits`, with what running vm threads have recorded.

The steps of the proof follow the actions; groups of actions that leave the
variables of a part alone are dealt with at once (`Aside`, `AsideKeeps`). Two
abstractions are used again and again: a step that starts running a vm thread
(`StartsRunning`) and one that stops it (`StopsRunning`).

`NoWakeupLost` (`NoLostWakeup`) needs to know who is on the way to wake whom. Its
invariant `WakeInv` adds

* `WaitInv`: a waiting vm thread waits for what its suspend info says;
* `SchedInv`: a place in the supervisor's or a worker's loop says what it has
  already looked at, and whom it still has to wake;
* `StopInv`: who has noticed that the program ends;
* `JobInv`: what is announced is seen to, now or at the supervisor's next round.

`SchedulerImplementsContexts` (`ImplementsContexts`) is the step simulation: with
`RefInv` (`IInv`, and `EventInv` and `SeenInv` of what happened before a vm thread
was made ready for it) each action is one step of `ExecutionContexts` or a stutter.

`AsyncSysJob_proofs`, for any number of clients, slots and workers:
`JobsAreAllocated` (`JobsInUseAreAllocated`), `ResultsAreStable` (`ResultsStay`)
and `JobsImplementService` (`ImplementsJobService`). All three have the hypothesis
`NoRequestFails`: without it they are false, as the run `async_job_failure` shows
(section 6). It is no restriction of the instance that is checked, because
`NoFailureConfigured` proves it from `RequestMayFail = FALSE`. The invariant `JInv`
(`JobInvariant`) says of every place of a client and of a worker what holds of the
job it has in hand: `ClientInv` and `WorkInv` make a job one client's and one
worker's, `ListInv` has the list hold exactly the jobs handed over and not yet
abandoned or taken out, each once, while a scan goes through it with an index
(`IndexInv`), and `StartInv` covers the lazy start of the workers.

`PoolAlloc_proofs`, for any sizes and margin (`PoolAssumption`: the first area is
no smaller than the margin less one): `FreeItemsFound` and `MarginAlwaysKept`.
Neither is inductive: `Counted` ties the counters to the cardinalities of the
slots and the used ones, and `KeepsMargin` counts items given out in an emergency
towards the margin.

`Lists_proofs` holds what is about sequences. A list, for any block sizes and values (`ListAssumption`):
`BlocksAlwaysHold`, `LoopsAlwaysEnd` and `EntriesAlwaysFound`. The invariant
(`Sound`) says that all blocks but the last are full, that the first has its full
size once there is a second, and that the count of a list with one block is that
block's: the code compares the count of the list with the room of the block. A first
block that is refused its memory ends what is claimed, as in the properties: with
`starved` the entry is already behind the block.
`EntriesAlwaysFound` (`EntriesAreFound`) adds `Stored`: each block holds the entries
that were added after those of the blocks before it (`Placed`), and the remembered
block, if any, is remembered with the number of entries before it (`Remembered`).
What the counts before a block and the walk over the blocks give is proved by
induction over the natural numbers.

The sorter, for any input, any pivots and any order that is asymmetric and
negatively transitive (`SortAssumption`), as an order of items where some are
equal is: `DisorderAlwaysQueued`, `NoItemEverLost`. The invariant: queued ranges
lie apart, what a pass has compared is on the right side of the pivot, and the
data are the input under a one-to-one placement.

`ThreadableChecker_proofs`, for any number of functions and classes and any
program (`ThreadableAssumption`): `TypeCorrect`, `ExactlyTheParallel`. The
invariant adds that what this pass has visited fits what is left unless something
changed, and that every set of functions and classes in which none refers to one
outside it (`Safe`, which is said of all references and not of the code's test of
them) is still among those left, which makes the result the largest. That it is such
a set is shown but for the functions whose number is that of a class they use.

`VmExec_proofs`, for any program and any oracle (`MachineAssumption`: a program has
a function to start in, none of its functions is a C function, and it raises
classes of errors only): `RescuesBelongToTheirFrames` (`RescueFramesNest`),
`NestingIsTheFrames` (`FramesMatchNesting`), `WorkStaysWithItsCall`
(`WorkHasItsCall`). The programs need not come from the code generator. The
invariant `Nested` says of the two stacks that the counts function frames were
entered with never decrease, and that each rescue frame lies between the count of
the function frame it names and those of all frames above; that every frame returns
to the function below it; and, in `WorkInv`, that a thread with unfinished work
stands at the call of that work. `NestedBelow` is the heart of it: what
`vmthread_errors_Raise`, a return and the end of a finally block leave of two
nested stacks is nested again. Raising picks the topmost rescue frame that can do
something, which exists because a bounded set of numbers has a largest one
(`HasLargest`).

`StackIsTheFrames` (`StackMatchesFrame`) has the hypothesis `StackIsPrepared` on the
programs: in a function that is itself called, a CALLSETTOP stands before each call,
and no jump, rescue target or finally target leads past it. TLC evaluates it on every
program of the run (`MCVmExec`). It leaves out two things the code really does: the
call of `close` at the end of a `with` statement has no CALLSETTOP, and restores a
wrong size (`vmexec.c:2011`); and POPRESCUEFRAME knows its own rescue frame by an
offset that another function's may share (`vmexec.c:3495`), and then goes on one
instruction further, which must not be the call behind a CALLSETTOP. The second one
was found by TLC, as a counterexample to the invariant first tried. The
invariant `StackInv` says that what each frame puts back when it ends is the size of
the frame below it (`Layered`), that the places rescue frames and returns lead to are
outside any pair of CALLSETTOP and call (`Aimed`), and that the running function has
either the stack of its frame (`Level`) or, between CALLSETTOP and call, that of the
call with the size put aside (`Raised`); unfinished work keeps the size put aside
(`Kept`).

`FolderTree_proofs`, for every finite tree with files, folders and links anywhere,
every set of entries that may not be removed, of files and folders that cannot be
opened and of folders in which nothing may be created, any number of descriptors, and
any number of calls that remove and create folders at once. No constant is assumed
about; `IsStart` says what the calls start from: a tree (`IsTree`) and calls that
have done nothing yet.

* `Invariance`: the disk stays a tree, in which only folders are made; what a call
  has queued lies beneath its path, and no folder its search went through is a link.
* `OnlyBeneathIsTaken`: an entry that is not beneath a path to remove stays as it
  was. This rests on `Invariance`: an entry listed as a folder cannot have become a
  link when it is removed, since no call makes links.
* `OnlyCreatedIsMade`: all that is new are folders on the way to what is created.
* `SuccessIsTrue` (an action property) and `SuccessStays`: in the step in which a
  call reports success, the folder is gone with all in it, or there.
* `FoldersAlwaysEndAsAsked`: the property of the run (`FoldersEndAsAsked`).

The property speaks mostly of calls that have ended; the invariant `FolderInv` adds
what holds on the way. `IInv` has the types, the shape of a tree and the place of
each call in its loop. `CoverInv`: what a removal must still take (`Doomed`: beneath
its path, not created meanwhile, and, once an error was noted, not kept by an entry
that may not be removed or lies in a folder that cannot be listed: `Lasting`) is covered by what it will still search or try, and each
queued entry has the folder it lies in before it. So a call that is done has left
nothing it had to take; and the scan must step back behind a removal, else the entry
that moved up is never listed and what is in it is covered by nothing. `LoneInv` is
what a call that runs alone has noted so far; its part `LoneShut` says that each
entry that cannot be opened is still ahead of it until an error was noted (`Faces`). `HeldInv`: a folder that was left
because it is not empty is not tried again by the only call that removes, so it is
still there at the end. `MakeInv`: the way of a creating call leads, as far as it has
come, to a folder that is there, unless something is removed. No proof goes over the
tree or counts it; what the system's lookup (`Leads`, a recursive function over the
components of a path) yields is proved by induction over their number.

Types are proved or implied by the properties, and not checked by a run of their
own.

Only model-checked:

* liveness under fairness (`WaitsEnd`, `Terminates`, `JobsAnswered`) and `ENABLED`;
* the other properties of `MCLibrary` and `EndsAsDocumented`: most say what recursive
  definitions (parser, code generator, resolver) compute for every input, and the
  prover does not work in a module with recursive operators; those of arguments
  and arithmetic are stated over listed inputs beside them. Induction over
  the natural numbers is in reach (lemma `Induction`, of a set instead of an
  operator), and is used for recursive functions; induction over syntax trees, and
  what folds and operators given as arguments do, is not.

## 6. Disagreements between code and text

* `sleep_uncovered`: `time.sleep` says 0.01 seconds can be slept
  (`corelib/time.c:30`), but a vm thread that starts to sleep wakes nobody: when
  the supervisor is already in its 5 second wait, the sleep lasts until a timeout.
* `shared_heap`: "Each execution context will not only have its own stack, but
  also its own heap" (`docs/Specification/Horse64 Concurrency.md:126`). Async
  calls of functions that are not threadable get `mainthread_shared_heap`, and
  not being bound to worker 0 they can run at the same time.
* `init_suspend`: the assertion at `vmexec.c:4953` fails when a global initialiser
  waits, because the launch counts as done and the next one resumes it.
* `async_job_failure`: "still owned by us on failure" (`corelib/net.c:452`): after
  a failed request the freed job stays in `resolve_job`, and the abort abandons
  it once more, by then perhaps another call's job.
* `return_in_do`: a finally block "Runs ALWAYS" (`docs/Specification/Horse64.md:515`);
  a return inside a do statement leaves without it.

## 7. Defects met while modelling

The models have these as the code has them, where the code is modelled; the
restrictions of section 3 name the ones that meet a property. They were read in
the code and are listed for its maintainers; only those of section 6 have a run.

Interpreter and generated code
* An error in a finally block can be taken by the rescue clause of the same do
  statement (`vmexec.c:827`); POPRESCUEFRAME takes a frame for its own by an
  offset two functions may share (3495); break and continue leave rescue frames
  behind (`codegen.c:2672`); a call without CALLSETTOP restores a wrong size
  (`vmexec.c:2011`); a function whose last statement is an `if` that ends in a
  return may jump past its end (`codegen.c:1113`).
* Keyword arguments: an unknown name never raises (`vmexec.c:2159`), `unpack`
  looks in the slot of the callee (2064), parameters that are not declared in the
  order of their name numbers get each other's values (`bytecode.c:1066`,
  `varstorage.c:297`).
* Numbers: "Avoid unexpected jumps in the opposite direction"
  (`vmexec_inst_unopbinop_INCLUDE.c:364`), but double minus integer limits its result
  against the wrong operand (380-394), and integer minus double does not see a jump to
  2^63, which `clamped_round` lowers (368-378); -2^63 divided or multiplied by -1 traps,
  results of exactly 2^63 pass, minus of -0.0 is an overflow error (925), integer
  modulo truncates where that of doubles floors.
* `a = [1, a]` puts the list into itself (`codegen.c:1236`); a failing operation
  clears its target first (`vmexec_inst_unopbinop_INCLUDE.c:42`).
* `vmthread_Free` copies overlapping ranges with memcpy (`vmexec.c:417`), and so
  does the scan that takes abandoned jobs out of the list (`asyncsysjob.c:146`); the
  models take both for the copy from the front they turn out to be.
* `program_return_value` is overwritten by any vm thread (`vmschedule.c:600`).

Threads
* When a worker could not be created, `ExecuteProgram` goes on to join the missing
  supervisor: `thread_Join(NULL)` crashes (`threading.c:662`). Where the supervisor or memory
  for `process.args` is missing, it returns -1 and leaves the workers running.

Containers
* Growing a list leaves `last_accessed_block` behind (`vmlist.c:104`); when the larger
  first block is refused its memory, `_grow_shrunk_first_block` returns 0 (92), which
  `vmlist_Add` takes for "not needed" (124), and the entry is written past the block; the sorter never records its queue's memory
  (`itemsort.c`).

Compiler
* The reference has `==` bind tighter than `<` (`docs/Specification/Horse64.md:958`),
  `compiler/operator.h:96` has it the other way; `-a * b` is read as `-(a * b)`;
  `else`, `given`, `in` and `raise` are missing among the tokens before an operand
  (`compiler/lexer.c:575`); vectors with numbers in front never parse; the searches
  for the end of inline parameters and for a map's arrow do not count all brackets
  (`compiler/astparser.c:1930`, 2400).
* `compiler/astparser.c`: error codes are allocated for the previous count (4460),
  an error compares keywords with names (3125), a definition that fails to parse
  takes an earlier one of its name out of the scope (3887), `elseif` is accepted
  behind `else`, raise and with inside a class trip an assertion (4224).
* Parallel functions: the class a function uses is compared with the function's own
  number (`compiler/threadablechecker.c:469`), so that a function may pass as parallel
  although it uses a class that is not.
* Names: a nested function that uses a variable of its own trips an assertion
  (`compiler/scoperesolver.c:922`), and parameters and names of for, with and rescue
  of outer functions are not bound by closures; a closure keeps the slot of the
  outer function (`compiler/varstorage.c:285`); generated closures are unfinished.
* Classes: marks are never stored (`compiler/scoperesolver.c:286`); bases that are
  imported or built in are never set; inherited members are copied over wrong
  indexes and not at all along chains of three (1990-2290).
* Projects: a second import with the same first name is never loaded; a file built
  as another's import may have imports without storage, against the comment at
  `compiler/scoperesolver.c:1922`, depending on the hash order, and a reference to them
  trips the assertion at 1363-1365; message numbers are
  one byte, so messages of two files may be taken for one (`compiler/result.c`).
* Imports without a library never find a file (`compiler/compileproject.c:1401`, 1412),
  against "gradually go up the path" (1363); modules packed in `horse_modules` report
  lack of memory (1177-1200) where they were meant to be found (961-966); the folder of a
  project with `horse_modules` is not found (1736); the working directory may be taken
  for the project of a file outside it, as only lengths are compared.

Sockets and jobs
* The first growth of a socket set has no memory to copy to (`sockets.c:1644`);
  connections accepted before memory runs out stay open (1046);
  `sockets_IsIPv6` refuses every IPv6 address (1726-1765), so that none is ever connected to;
  `SSL_connect` returning 0, a handshake shut down, is taken for one that is done (729); a byte of the unlock event is
  never received, so that the supervisor polls busily (`vmschedule.c:51`);
  `net.stream.read` has no progress record and `write` ends in an assertion.
* A failed lookup may free its addresses twice (`asyncsysjob.c:322`), and
  `corelib/net.c:473` tests only some of the failure marks.

Files
* `./..` is taken for nothing, a second `..` in a relative path leaves a letter of
  the component before it (`filesys32.c:1577`), joining with `./` does not end
  (1916), a file beside the base may look like one inside it (3213), and
  `filesys32_FolderContainsPath` compares lengths only (3342).
* Listing reports a folder that is gone as another error (643), against "Maybe it
  was removed in parallel? ignore this" (943). So removing what is not there gives
  OTHERERROR, a ResourceError (`corelib/io.c:2085`), where NOSUCHTARGET was meant
  (`filesys32.c:931-935`, `corelib/io.c:1963-1968`, 2074). A file that cannot be opened
  is no folder, but is removed when a folder was to be, and reported as
  NOPERMISSION (656); a file that is listed keeps its
  descriptor (660); an existing file counts as a created folder.

## 8. What is not modelled

Inside the modelled parts: debug output; the order of vm threads beyond "oldest
first"; the kinds of failure of a lookup; `process.run`, which raises an error
before its job matters; events that could not be created; counters of suspended
threads; the values of a program in `VmExec`; the characters of literals, names
and comments; warnings; memory that runs out in the compiler and in folders;
folders that may be listed but not searched, and errors of stat (`TargetExists`); failures
of fdopendir and readdir;
`unpack`; the growth of a socket set past twelve entries.

Other parts, with the reason:

* maps, sets, strings and reference counts: pure data, whose code beyond lists
  needs byte-level models;
* attributes, indexing, class members and `new` in the machine: the compiler's half
  is unfinished in this commit (inherited members, closures);
* the worker that sends, `stream.read` and `stream.write`: nothing reaches them;
* UTF, URI, JSON and hashing: functions of strings, character by character;
* archives, reading of files, the serialised program: formats of bytes;
* the core library apart from `net.connect` and `time.sleep`, processes, program
  entry: wrappers of the operating system;
* the optimizer (empty), disassembler, tests, tools, vendored code.

`PROJECT.json` gives the state of each component.

## 9. The plan

Done: the scheduler, events and jobs with their proofs; then the interpreter and
code generator (`VmExec`, `Codegen`), the suite of small parts with its proofs,
the parser, names, projects, imports, sockets and folders.

Next, if the project goes on:

1. `MapBuckets`: maps and sets as refinements of functions and sets, with their
   hashes (integers and doubles that are equal have different ones).
2. Class members along chains of bases, once the compiler sets them.
3. Archives: adding to and saving a file that may fail half way.
4. Proofs: arithmetic on integers is exact for every width, once it is stated in
   `Numbers`, which has no recursive operators.
