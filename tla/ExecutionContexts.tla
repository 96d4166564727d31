------------------------- MODULE ExecutionContexts -------------------------
(***************************************************************************)
(* What the scheduler promises of execution contexts, the "green threads,  *)
(* spread out on a limited number of real OS thread workers" of            *)
(* docs/Specification/Horse64 Concurrency.md.  Nothing here knows of       *)
(* mutexes, wake-up events, the supervisor or the launch of the program.   *)
(*                                                                         *)
(* A context is first "absent", then in "setup" while its arguments are    *)
(* copied, then "runnable".  Exactly one worker runs a "running" context;  *)
(* a "waiting" context runs again only once what it waits for has          *)
(* happened.  A "done" context stays done, except the main context, which  *)
(* runs the launch functions of the program one after the other.           *)
(***************************************************************************)
EXTENDS Integers

CONSTANTS Thread,       (* the execution contexts                           *)
          Worker,       (* the OS threads that run them                     *)
          MainThread,   (* the context of the program's entry point         *)
          MainWorker    (* the only worker the main context may run on      *)

VARIABLES state,     \* state[t]: where context t is in its life
          runner,    \* the set of pairs <<w, t>> such that worker w runs t
          happened   \* happened[t]: what t last waited for has happened

vars == <<state, runner, happened>>

States == {"absent", "setup", "runnable", "running", "waiting", "done"}

TypeOK == /\ state \in [Thread -> States]
          /\ runner \subseteq Worker \X Thread
          /\ happened \in [Thread -> BOOLEAN]

Init == /\ state = [t \in Thread |->
                      IF t = MainThread THEN "runnable" ELSE "absent"]
        /\ runner = {}
        /\ happened = [t \in Thread |-> FALSE]

Free(w) == \A p \in runner : p[1] # w

-----------------------------------------------------------------------------
(* A running context asks for a new one; it is set up, or given up.        *)
Create(t) ==
    /\ state[t] = "absent"
    /\ runner # {}
    /\ state' = [state EXCEPT ![t] = "setup"]
    /\ UNCHANGED <<runner, happened>>

Discard(t) ==
    /\ state[t] = "setup"
    /\ state' = [state EXCEPT ![t] = "absent"]
    /\ UNCHANGED <<runner, happened>>

Schedule(t) ==
    /\ state[t] = "setup"
    /\ state' = [state EXCEPT ![t] = "runnable"]
    /\ UNCHANGED <<runner, happened>>

(* An idle worker starts a context, or continues one whose wait is over.   *)
Resume(w, t) ==
    /\ Free(w)
    /\ t = MainThread => w = MainWorker
    /\ \/ state[t] = "runnable"
       \/ state[t] = "waiting" /\ happened[t]
    /\ state' = [state EXCEPT ![t] = "running"]
    /\ runner' = runner \cup {<<w, t>>}
    /\ happened' = [happened EXCEPT ![t] = FALSE]

(* What a context waits for happens on its own, perhaps after the context  *)
(* asked for it and before it even waits.                                  *)
Happen(t) ==
    /\ happened' = [happened EXCEPT ![t] = TRUE]
    /\ UNCHANGED <<state, runner>>

Wait(w, t) ==
    /\ <<w, t>> \in runner
    /\ state' = [state EXCEPT ![t] = "waiting"]
    /\ runner' = runner \ {<<w, t>>}
    /\ UNCHANGED happened

Finish(w, t) ==
    /\ <<w, t>> \in runner
    /\ state' = [state EXCEPT ![t] = "done"]
    /\ runner' = runner \ {<<w, t>>}
    /\ UNCHANGED happened

(* The main context is made ready for the next launch function.            *)
Relaunch ==
    /\ state[MainThread] = "done"
    /\ state' = [state EXCEPT ![MainThread] = "runnable"]
    /\ UNCHANGED <<runner, happened>>

(* The end of the program: every context is freed, and none is running.    *)
Shutdown ==
    /\ runner = {}
    /\ state' = [t \in Thread |-> "absent"]
    /\ UNCHANGED <<runner, happened>>

Next ==
    \/ Relaunch \/ Shutdown
    \/ \E t \in Thread : Create(t) \/ Discard(t) \/ Schedule(t) \/ Happen(t)
    \/ \E w \in Worker, t \in Thread :
         Resume(w, t) \/ Wait(w, t) \/ Finish(w, t)

Spec == Init /\ [][Next]_vars

=============================================================================
