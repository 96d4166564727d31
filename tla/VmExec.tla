------------------------------- MODULE VmExec -------------------------------
(***************************************************************************)
(* The interpreter of a vm thread (vmexec.c): function frames, rescue      *)
(* frames, raising and delaying errors, the size of the stack around a     *)
(* call, and C functions that suspend the thread, finished or not.         *)
(*                                                                         *)
(* Image gives the programs that may run, each a function from its         *)
(* functions to their code, argument count and stack space.  A C function  *)
(* (CFunction) is known by what it does; the values the program computes   *)
(* are left out, except which slots hold an object that can be closed.     *)
(* The conditions a program tests are given beforehand (oracle), so that   *)
(* a program has one documented outcome.                                   *)
(***************************************************************************)
EXTENDS Integers, Sequences, SequencesExt, FiniteSets

CONSTANTS Image,       \* program -> function -> [code, args, space]
          Oracles,     \* the sequences of truth values conditions may have
          CFunction,   \* C function -> what it does, see CallC
          AncestorsOf, \* error class -> the class and those it extends
          Main,        \* the function a program starts in, called without arguments
          FailClass,   \* the class of the error a failing C function returns
          NoError, NoWork

\* NoError and NoWork are no class and no C function; a program has a function Main, its
\* functions are no C functions, and it raises classes of errors only.
ASSUME MachineAssumption ==
    /\ FailClass # NoError
    /\ NoWork \notin DOMAIN CFunction
    /\ \A p \in DOMAIN Image :
         /\ Main \in DOMAIN Image[p]
         /\ DOMAIN Image[p] \cap DOMAIN CFunction = {}
         /\ \A f \in DOMAIN Image[p] : \A i \in DOMAIN Image[p][f].code :
              Image[p][f].code[i].op = "raise" => Image[p][f].code[i].c # NoError

VARIABLES prog,     \* the program that runs,
          image,    \* and its functions: h64program
          oracle,   \* the answers to the conditions tested, in order; then no
          asked,    \* how many have been tested
          trace,    \* the C functions called, in order
          phase,    \* "run" | "suspended" | "done" | "lost"
          fn, pc,   \* func_id and the offset of p
          nest,     \* funcnestdepth
          vt,       \* h64vmthread
          resume,   \* upcoming_resume_info
          outcome   \* the class of the uncaught error, or NoError

vars == <<prog, image, oracle, asked, trace, phase, fn, pc, nest, vt, resume, outcome>>

NoTop == -1
Code(f)  == image[f].code
Space(f) == image[f].space
InCode   == pc + 1 \in DOMAIN Code(fn)
Inst     == Code(fn)[pc + 1]
Running(op) == phase = "run" /\ InCode /\ Inst.op = op

------------------------------------------------------------------------------
\* Frames. vt.frames are the function frames, vt.rescues the rescue frames, the
\* last one on top; vt.top is the size of the stack and vt.floor where the
\* running function's part of it starts.

Cut(s, n) == IF Len(s) > n THEN SubSeq(s, 1, n) ELSE s

\* The size of the stack the caller gets back.
CallerSizeNow(t) == t.top
CallerSize(t)    == IF t.settop >= 0 THEN t.settop ELSE t.top

PushFuncFrame(t, f, floor, retfn, retpc) ==
    [t EXCEPT
       !.frames = Append(@, [func |-> f, floor |-> floor, base |-> Len(t.rescues),
                             space |-> Space(f), objs |-> {},
                             restore |-> CallerSize(t),
                             retfn |-> retfn, retpc |-> retpc]),
       !.top = floor + Space(f), !.floor = floor, !.settop = NoTop]

\* popfuncframe compares the size to restore with the space of the frame
\* below, which is counted from that frame's floor.
RestoredSize(t) ==
    LET n == Len(t.frames)
    IN  IF n > 1 /\ t.frames[n].restore < t.frames[n - 1].space
        THEN t.frames[n - 1].space ELSE t.frames[n].restore

PopFuncFrameKeepingRescues(t) ==
    [t EXCEPT !.floor  = IF Len(t.frames) <= 2 THEN 0 ELSE t.frames[Len(t.frames) - 1].floor,
              !.top    = RestoredSize(t),
              !.frames = Front(@)]
PopFuncFrame(t) ==
    LET n    == Len(t.frames)
        base == t.frames[n].base
    IN  [t EXCEPT !.rescues = Cut(@, base),
                  !.settop  = IF Len(t.rescues) > base THEN NoTop ELSE @,
                  !.floor   = IF n <= 2 THEN 0 ELSE t.frames[n - 1].floor,
                  !.top     = RestoredSize(t),
                  !.frames  = Front(@)]

\* Pops the function frames above frame number n, from the top down: the last
\* one popped has the last word on the stack and the rescue frames.
UnwindToTheCallee(t, n) ==
    IF Len(t.frames) <= n + 1 THEN t
    ELSE PopFuncFrame([t EXCEPT !.frames = SubSeq(@, 1, n + 2)])
UnwindTo(t, n) ==
    IF Len(t.frames) <= n THEN t
    ELSE PopFuncFrame([t EXCEPT !.frames = SubSeq(@, 1, n + 1)])

PushRescueFrame(t, i) ==
    [t EXCEPT
       !.rescues = Append(@, [id |-> i.id, frame |-> Len(t.frames), types |-> i.types,
                              rescue  |-> IF i.rescue = 0 THEN -1 ELSE pc + i.rescue,
                              finally |-> IF i.finally = 0 THEN -1 ELSE pc + i.finally,
                              rescued |-> FALSE, finalled |-> FALSE,
                              delayed |-> NoError]),
       !.settop = NoTop]

------------------------------------------------------------------------------
\* Errors.
RescuesErrorAgain(r, c) == r.rescue >= 0 /\ r.types \cap AncestorsOf[c] # {}
RescuesError(r, c) ==
    ~r.rescued /\ r.rescue >= 0 /\ r.types \cap AncestorsOf[c] # {}
EntersFinally(r) == ~r.finalled /\ r.finally >= 0

\* vmthread_errors_Raise: the rescue frames that can do nothing more are popped,
\* the function frames above the one that can are popped, and its rescue or
\* finally block is entered, the latter with the error put aside.
\* The result has the thread, the position, and the uncaught error if any.
Raise(t, c, d) ==
    LET able == {k \in 1..Len(t.rescues) :
                    RescuesError(t.rescues[k], c) \/ EntersFinally(t.rescues[k])}
        k    == IF able = {} THEN 0 ELSE CHOOSE x \in able : \A y \in able : y <= x
        t1   == [t EXCEPT !.rescues = Cut(@, k), !.work = NoWork,
                          !.settop = IF @ = 0 /\ k = Len(t.rescues) THEN 0 ELSE NoTop]
        r    == t.rescues[k]
        t2   == UnwindTo(t1, r.frame)
        res  == RescuesError(r, c)
    IN  IF k = 0
        THEN [vt |-> t1, fn |-> fn, pc |-> pc, nest |-> d, uncaught |-> c]
        ELSE [vt |-> [t2 EXCEPT
                        !.rescues[k] = IF res THEN [@ EXCEPT !.rescued = TRUE]
                                       ELSE [@ EXCEPT !.finalled = TRUE, !.delayed = c]],
              fn |-> t2.frames[r.frame].func,
              pc |-> IF res THEN r.rescue ELSE r.finally,
              nest |-> d - (Len(t.frames) - r.frame), uncaught |-> NoError]

\* _rescueframefromid: the topmost rescue frame of the running function with
\* that id, 0 when there is none.
RescueFrameFromId(t, id) ==
    LET own == {k \in 1..Len(t.rescues) :
                   k > Last(t.frames).base /\ t.rescues[k].id = id}
    IN  IF own = {} THEN 0 ELSE CHOOSE x \in own : \A y \in own : y <= x

\* vmthread_errors_EndFinally: the frame is popped, and the error it put aside is
\* raised again.
EndFinally(t, id) ==
    LET k  == RescueFrameFromId(t, id)
        r  == t.rescues[k]
        t1 == [t EXCEPT !.rescues = Cut(@, k - 1), !.settop = NoTop]
    IN  IF r.finally > 0 /\ r.delayed # NoError
        THEN Raise(t1, r.delayed, nest)
        ELSE [vt |-> t1, fn |-> fn, pc |-> pc, nest |-> nest, uncaught |-> NoError]

\* Leaving the interpreter: vmthread_RunFunction aborts unfinished work and
\* clears away the frames that are left.
Leave(t, c) ==
    /\ vt' = [t EXCEPT !.frames = <<>>, !.rescues = <<>>, !.top = 0, !.floor = 0,
                       !.work = NoWork]
    /\ phase' = "done" /\ outcome' = c
    /\ UNCHANGED <<prog, image, oracle, fn, pc, nest>>

GoOn(t, f, p, d) ==
    /\ vt' = t /\ fn' = f /\ pc' = p /\ nest' = d
    /\ UNCHANGED <<prog, image, oracle, phase, outcome>>

Follow(end) ==
    \E e \in {end} :
        IF e.uncaught # NoError THEN Leave(e.vt, e.uncaught)
                                ELSE GoOn(e.vt, e.fn, e.pc, e.nest)

StepTo(t, p) == GoOn(t, fn, p, nest)

------------------------------------------------------------------------------
\* Instructions that move on or jump.
Skip ==
    /\ \E op \in {"newiterator", "callsettop", "setnone"} : Running(op)
    /\ StepTo(CASE Inst.op = "callsettop" ->
                     \* resets to the size before, then moves the top for the call
                     [vt EXCEPT !.settop = IF @ >= 0 THEN @ ELSE vt.top,
                                !.top = vt.floor + Inst.top]
                [] Inst.op = "setnone" ->
                     [vt EXCEPT !.frames[Len(vt.frames)].objs = @ \ {Inst.slot}]
                [] OTHER -> vt,
              pc + 1)
    /\ UNCHANGED <<asked, trace, resume>>

JumpInst ==
    /\ Running("jump")
    /\ StepTo(vt, pc + Inst.to)
    /\ UNCHANGED <<asked, trace, resume>>

\* CONDJUMP reads a condition, ITERATE whether there is another item; both jump
\* when the answer is no.
Test ==
    /\ Running("condjump") \/ Running("iterate")
    /\ LET yes == asked < Len(oracle) /\ oracle[asked + 1]
       IN  StepTo(vt, IF yes THEN pc + 1 ELSE pc + Inst.to)
    /\ asked' = IF asked < Len(oracle) THEN asked + 1 ELSE asked
    /\ UNCHANGED <<trace, resume>>

HasAttr ==
    /\ Running("hasattrjump")
    /\ StepTo(vt, IF Inst.slot \in Last(vt.frames).objs THEN pc + 1 ELSE pc + Inst.to)
    /\ UNCHANGED <<asked, trace, resume>>

\* Rescue frames.
PushRescue ==
    /\ Running("pushrescueframe")
    /\ StepTo(PushRescueFrame(vt, Inst), pc + 1)
    /\ UNCHANGED <<asked, trace, resume>>

\* The interpreter takes an unchanged offset for "nothing was raised".
PopRescue ==
    /\ Running("poprescueframe")
    /\ RescueFrameFromId(vt, Inst.id) # 0
    /\ LET e == EndFinally(vt, Inst.id)
       IN  Follow([e EXCEPT !.pc = IF @ = pc THEN @ + 1 ELSE @])
    /\ UNCHANGED <<asked, trace, resume>>

\* vmthread_errors_ProceedToFinally enters the finally block of the top frame.
CanProceed(t) ==
    /\ t.rescues # <<>>
    /\ LET r == Last(t.rescues)
       IN  EntersFinally(r) /\ r.frame = Len(t.frames)

ProceedToFinally ==
    /\ Running("jumptofinally")
    /\ CanProceed(vt)
    /\ StepTo([vt EXCEPT !.rescues[Len(vt.rescues)].finalled = TRUE],
              Last(vt.rescues).finally)
    /\ UNCHANGED <<asked, trace, resume>>

RaiseError ==
    /\ Running("raise")
    /\ Follow(Raise(vt, Inst.c, nest))
    /\ UNCHANGED <<asked, trace, resume>>

------------------------------------------------------------------------------
\* Calls and returns.  Without a CALLSETTOP the size to return to is taken from
\* STACK_TOP, which is counted from the floor.
ReverseTo(t) == IF t.settop >= 0 THEN t.settop ELSE t.top - t.floor

CallFunc ==
    /\ Running("call") /\ Inst.f \in DOMAIN image
    /\ GoOn(PushFuncFrame([vt EXCEPT !.settop = ReverseTo(vt)], Inst.f,
                          vt.top - Inst.args, fn, pc + 1),
            Inst.f, 0, nest + 1)
    /\ UNCHANGED <<asked, trace, resume>>

\* What a call needs when the thread resumes inside it: cfunc_resume.
Setting(t, i) ==
    IF resume.needs
    THEN [floor |-> resume.floor, reverse |-> resume.reverse, newfloor |-> resume.newfloor]
    ELSE [floor |-> t.floor, reverse |-> ReverseTo(t), newfloor |-> t.top - i.args]

\* The thread as it is after the C function returned: the stack is reset.
AfterCallKeepingWork(t, c) ==
    [t EXCEPT !.floor = c.floor, !.top = c.reverse, !.settop = NoTop]
AfterCall(t, c) ==
    [t EXCEPT !.floor = c.floor, !.top = c.reverse, !.settop = NoTop, !.work = NoWork]

Suspend(p, needs, c) ==
    /\ phase' = "suspended"
    /\ resume' = [fn |-> fn, pc |-> p, nest |-> nest, needs |-> needs,
                  floor |-> c.floor, reverse |-> c.reverse, newfloor |-> c.newfloor]
    /\ UNCHANGED <<prog, image, oracle, fn, pc, nest, outcome>>

Calling(kind) ==
    Running("call") /\ Inst.f \in DOMAIN CFunction /\ CFunction[Inst.f] = kind

\* A call of unfinished work again does not start it again.
Record(f) == trace' = IF vt.work = f THEN trace ELSE Append(trace, f)

\* C functions that return at once, with or without an object, or an error.
CallC ==
    /\ \E kind \in {"ok", "open", "fail"} : Calling(kind)
    /\ LET t == AfterCall(vt, Setting(vt, Inst))
       IN  CASE CFunction[Inst.f] = "ok"   -> StepTo(t, pc + 1)
             [] CFunction[Inst.f] = "open" ->
                  StepTo([t EXCEPT !.frames[Len(t.frames)].objs = @ \cup {Inst.returnto}],
                         pc + 1)
             [] CFunction[Inst.f] = "fail" -> Follow(Raise(t, FailClass, nest))
    /\ Record(Inst.f)
    /\ UNCHANGED <<asked, resume>>

\* A C function that suspends with nothing left to do: p moves past the call.
CallSleep ==
    /\ Calling("sleep")
    /\ LET c == Setting(vt, Inst)
       IN  /\ Suspend(pc + 1, FALSE, c)
           /\ vt' = AfterCall(vt, c)
    /\ Record(Inst.f)
    /\ UNCHANGED asked

\* A C function with foreground work: the call suspends unfinished, and is made
\* again when the thread resumes, possibly more than once.
CallUnfinished ==
    /\ \E kind \in {"work", "workfail"} : Calling(kind)
    /\ LET c == Setting(vt, Inst)
       IN  /\ Suspend(pc, TRUE, c)
           /\ vt' = [vt EXCEPT !.floor = c.newfloor, !.settop = c.reverse, !.work = Inst.f]
    /\ Record(Inst.f)
    /\ UNCHANGED asked

CallFinished ==
    /\ \E kind \in {"work", "workfail"} : Calling(kind)
    /\ vt.work = Inst.f
    /\ LET t == AfterCall(vt, Setting(vt, Inst))
       IN  IF CFunction[Inst.f] = "work" THEN StepTo(t, pc + 1)
                                         ELSE Follow(Raise(t, FailClass, nest))
    /\ Record(Inst.f)
    /\ resume' = [resume EXCEPT !.needs = FALSE]
    /\ UNCHANGED asked

\* The scheduler runs the thread again.
ResumeThread ==
    /\ phase = "suspended"
    /\ phase' = "run" /\ fn' = resume.fn /\ pc' = resume.pc /\ nest' = resume.nest
    /\ UNCHANGED <<prog, image, oracle, asked, trace, vt, resume, outcome>>

ReturnInst ==
    /\ Running("returnvalue")
    /\ LET f == Last(vt.frames)
       IN  IF nest - 1 <= 0
           THEN Leave(vt, NoError)
           ELSE GoOn(PopFuncFrame(vt), f.retfn, f.retpc, nest - 1)
    /\ UNCHANGED <<asked, trace, resume>>

\* What the assertions of a debug build stop: an offset outside the function,
\* a rescue frame or finally block that is not there.
Lose ==
    /\ phase = "run"
    /\ \/ ~InCode
       \/ (Running("poprescueframe") /\ RescueFrameFromId(vt, Inst.id) = 0)
       \/ (Running("jumptofinally") /\ ~CanProceed(vt))
    /\ phase' = "lost"
    /\ UNCHANGED <<prog, image, oracle, asked, trace, fn, pc, nest, vt, resume, outcome>>

------------------------------------------------------------------------------
Init ==
    /\ prog \in DOMAIN Image /\ image = Image[prog]
    /\ oracle \in Oracles
    /\ asked = 0 /\ trace = <<>> /\ phase = "run" /\ outcome = NoError
    /\ fn = Main /\ pc = 0 /\ nest = 1
    /\ vt = PushFuncFrame([frames |-> <<>>, rescues |-> <<>>, top |-> 0, floor |-> 0,
                           settop |-> NoTop, work |-> NoWork], Main, 0, Main, 0)
    /\ resume = [fn |-> Main, pc |-> 0, nest |-> 0, needs |-> FALSE,
                 floor |-> 0, reverse |-> 0, newfloor |-> 0]

Finished == phase \in {"done", "lost"} /\ UNCHANGED vars

Next ==
    \/ Skip \/ JumpInst \/ Test \/ HasAttr
    \/ PushRescue \/ PopRescue \/ ProceedToFinally \/ RaiseError
    \/ CallFunc \/ CallC \/ CallSleep \/ CallUnfinished \/ CallFinished
    \/ ResumeThread \/ ReturnInst \/ Lose
    \/ Finished

\* The worker that has the thread goes on, and work in the background ends.
Fairness == WF_vars(Next) /\ SF_vars(CallFinished)

Spec == Init /\ [][Next]_vars /\ Fairness

------------------------------------------------------------------------------
\* Rescue frames are stacked as their function frames are: the ones above the
\* count a function frame was entered with, and up to the count the next one was
\* entered with, belong to that function frame. Raise unrolls to the frame a
\* rescue frame names, so one that names another frame would send an error into
\* code of a function that is gone.
RescueFramesNest ==
    LET N == Len(vt.frames)
        Next1(i) == IF i = N THEN Len(vt.rescues) ELSE vt.frames[i + 1].base
    IN  /\ \A i \in 1..N : vt.frames[i].base <= Next1(i)
        /\ \A i \in 1..N : \A k \in (vt.frames[i].base + 1)..Next1(i) :
              vt.rescues[k].frame = i
        /\ N > 0 => vt.frames[1].base = 0

\* A call that left work behind is the one made again: the settings kept for
\* it are never taken up by another call, and no work outlives its call
\* (needs_cfunc_resume, upcoming_resume_info, foreground_async_work_funcid).
WorkHasItsCall ==
    phase \in {"run", "suspended"} =>
        /\ vt.work # NoWork <=> resume.needs
        /\ resume.needs => LET at == image[resume.fn].code[resume.pc + 1]
                           IN  at.op = "call" /\ at.f = vt.work
        /\ resume.needs /\ phase = "run" => fn = resume.fn /\ pc = resume.pc

\* The function frames and the interpreter's own counter agree, and the running
\* function is the one of the top frame.
FramesMatchNesting ==
    phase \in {"run", "suspended"} =>
        nest = Len(vt.frames) /\ nest > 0 /\ fn = Last(vt.frames).func

\* Between calls the stack holds exactly what the running function needs:
\* h64program's stack space, counted from its floor.
StackMatchesFrame ==
    phase = "run" /\ vt.settop = NoTop =>
        vt.top = vt.floor + Last(vt.frames).space

\* StackMatchesFrame needs of the compiled program that a call takes the room its function
\* has, that a CALLSETTOP stands right before its call and that no jump goes in between.
\* A call without CALLSETTOP gives back a size counted from the floor, so it may stand in a
\* function that runs at floor 0 only: one that nobody calls.
Settled(code, p) == p \in DOMAIN code => code[p].op # "callsettop"
Called(img) ==
    {f \in DOMAIN img : \E g \in DOMAIN img : \E i \in DOMAIN img[g].code :
                           img[g].code[i].op = "call" /\ img[g].code[i].f = f}
\* Where POPRESCUEFRAME takes a frame for its own by its offset, the instruction that starts
\* the block is left out.
EndsFinally(img, p) ==
    \E f \in Called(img) :
        p + 1 \in DOMAIN img[f].code /\ img[f].code[p + 1].op = "poprescueframe"
Takes(img, f, p) ==
    /\ p \in Int /\ Settled(img[f].code, p)
    /\ EndsFinally(img, p) => Settled(img[f].code, p + 1)

RoomIsThere(img, f) ==
    LET code == img[f].code
    IN  /\ img[f].space \in Nat /\ DOMAIN code \subseteq Nat \ {0}
        /\ \A i \in DOMAIN code :
             /\ code[i].op = "call" => code[i].args \in 0..img[f].space
             /\ code[i].op = "callsettop" =>
                  /\ i + 1 \in DOMAIN code /\ code[i + 1].op = "call"
                  /\ code[i].top \in Nat /\ code[i + 1].args <= code[i].top
             /\ code[i].op \in {"jump", "condjump", "iterate", "hasattrjump"} =>
                  code[i].to \in Int
             /\ code[i].op = "pushrescueframe" => {code[i].rescue, code[i].finally} \subseteq Int
CallsAreSet(img, f) ==
    LET code == img[f].code
    IN  \A i \in DOMAIN code :
             /\ code[i].op = "call" => ~Settled(code, i - 1)
             /\ code[i].op \in {"jump", "condjump", "iterate", "hasattrjump"} =>
                  Settled(code, i - 1 + code[i].to)
             /\ code[i].op = "pushrescueframe" =>
                  \A x \in {code[i].rescue, code[i].finally} \ {0} : Takes(img, f, i - 1 + x)
StackIsPrepared ==
    \A p \in DOMAIN Image :
        /\ \A f \in DOMAIN Image[p] : RoomIsThere(Image[p], f)
        /\ \A f \in Called(Image[p]) : CallsAreSet(Image[p], f)

\* Every thread comes to an end: the programs' loops end, and so does the work
\* of every unfinished call.
Terminates == <>(phase \in {"done", "lost"})
==============================================================================
