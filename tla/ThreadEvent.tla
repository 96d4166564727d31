---------------------------- MODULE ThreadEvent ----------------------------
(***************************************************************************)
(* The threadevent of horse64/threading.c: a flag under a mutex, and a     *)
(* socket pair whose only purpose is to wake a sleeper.  Setting the event *)
(* sets the flag, releases the mutex and only then sends a byte; the owner *)
(* checks the flag, sleeps until the socket is readable, receives all      *)
(* bytes and checks the flag again.  A byte may therefore arrive without   *)
(* its flag and a flag may be seen before its byte.                        *)
(***************************************************************************)
EXTENDS Integers

CONSTANTS Setter,      (* the threads that set the event                    *)
          Capacity     (* bytes the socket pair holds before send blocks    *)

ASSUME EventAssumption == Capacity \in Nat \ {0}

VARIABLES set,       \* te->set
          bytes,     \* the bytes on their way from _sourceside to _targetside
          spc,       \* spc[s]: where thread s is in threadevent_Set
          opc        \* where the owner is

vars == <<set, bytes, spc, opc>>

TypeOK == /\ set \in BOOLEAN
          /\ bytes \in 0 .. Capacity
          /\ spc \in [Setter -> {"out", "send"}]
          /\ opc \in {"out", "check", "poll", "recheck"}

Init == /\ set = FALSE
        /\ bytes = 0
        /\ spc = [s \in Setter |-> "out"]
        /\ opc = "out"

-----------------------------------------------------------------------------
(* threadevent_Set: the flag, under the mutex ...                          *)
SetFlag(s) ==
    /\ spc[s] = "out"
    /\ set' = TRUE
    /\ spc' = [spc EXCEPT ![s] = "send"]
    /\ UNCHANGED <<bytes, opc>>

(* ... and the byte, without it.  While the socket is full the loop spins. *)
SendByte(s) ==
    /\ spc[s] = "send"
    /\ bytes < Capacity
    /\ bytes' = bytes + 1
    /\ spc' = [spc EXCEPT ![s] = "out"]
    /\ UNCHANGED <<set, opc>>

(* threadevent_Unset and, in it, threadevent_FlushWakeUpEvents.            *)
Unset ==
    /\ opc = "out"
    /\ set' = FALSE
    /\ bytes' = 0
    /\ UNCHANGED <<spc, opc>>

(* threadevent_WaitUntilSet(te, timeout, 1)                                *)
BeginWait ==
    /\ opc = "out"
    /\ opc' = "check"
    /\ UNCHANGED <<set, bytes, spc>>

(* The check under the mutex that ends the wait if the flag is set.        *)
SeeFlag(next) ==                        \* mutant: the flag stays set
    /\ opc' = IF set THEN "out" ELSE next
    /\ UNCHANGED <<set, bytes, spc>>

TakeFlag(next) ==
    /\ opc' = IF set THEN "out" ELSE next
    /\ set' = FALSE
    /\ UNCHANGED <<bytes, spc>>

FirstCheck == opc = "check" /\ TakeFlag("poll")

(* sockset_Wait says readable: receive until nothing is left.              *)
Readable ==
    /\ opc = "poll"
    /\ bytes > 0
    /\ bytes' = 0
    /\ opc' = "recheck"
    /\ UNCHANGED <<set, spc>>

(* sockset_Wait ran into the timeout.                                      *)
PollTimeout ==
    /\ opc = "poll"
    /\ bytes = 0
    /\ opc' = "recheck"
    /\ UNCHANGED <<set, bytes, spc>>

(* A last look at the flag, and another round if there is time left.       *)
PollAgain ==                            \* mutant: no last look at the flag
    opc = "recheck" /\ opc' \in {"poll", "out"} /\ UNCHANGED <<set, bytes, spc>>

Recheck == opc = "recheck" /\ \E next \in {"poll", "out"} : TakeFlag(next)

OwnerStep == FirstCheck \/ Readable \/ Recheck

Next == \/ \E s \in Setter : SetFlag(s) \/ SendByte(s)
        \/ Unset \/ BeginWait \/ PollTimeout \/ OwnerStep

(* A setter that began does finish, and so does a wait that could end.     *)
Spec == /\ Init /\ [][Next]_vars
        /\ WF_vars(OwnerStep)
        /\ \A s \in Setter : WF_vars(SendByte(s))

-----------------------------------------------------------------------------
(* A sleeper whose event is set has a byte in its socket, or will have:    *)
(* the two halves of an event never part while the owner relies on both.   *)
FlagHasByte ==
    opc = "poll" /\ set => bytes > 0 \/ \E s \in Setter : spc[s] = "send"

Event == INSTANCE EventFlag WITH
    flag <- set, sleeping <- opc # "out"

(* A threadevent is an event flag; a sleeper always notices a set flag,    *)
(* timeout or not.                                                         *)
ImplementsEventFlag == Event!Spec

=============================================================================
