----------------------------- MODULE JobService -----------------------------
(***************************************************************************)
(* What asyncsysjob.h promises the scheduler and net.connect: a requested  *)
(* job is done once, its announcement reaches the supervisor's socket only *)
(* after the job is done, every done job has one, and the job stays as it  *)
(* is until the one who requested it gives it up.  This is what VmSchedule *)
(* assumes in its actions Happen and AnnounceJob.                          *)
(***************************************************************************)
EXTENDS Integers

CONSTANT Client     (* the vm threads that request jobs                     *)

VARIABLES state,    \* state[c]: the job of c
          due       \* how many done jobs are still to be announced

vars == <<state, due>>

TypeOK == /\ state \in [Client -> {"none", "pending", "done"}]
          /\ due \in Nat

Init == state = [c \in Client |-> "none"] /\ due = 0

Move(c, from, to) == state[c] = from /\ state' = [state EXCEPT ![c] = to]

Request(c) == Move(c, "none", "pending") /\ UNCHANGED due

Complete(c) == Move(c, "pending", "done") /\ due' = due + 1

Announce == due > 0 /\ due' = due - 1 /\ UNCHANGED state

GiveUp(c) == Move(c, "done", "none") /\ UNCHANGED due

Next == \/ \E c \in Client : Request(c) \/ Complete(c) \/ GiveUp(c)
        \/ Announce

Spec == Init /\ [][Next]_vars

=============================================================================
