----------------------------- MODULE EventFlag -----------------------------
(***************************************************************************)
(* What a threadevent (horse64/threading.h) promises its users: a flag     *)
(* that any thread may set at any time, and one owner that may unset it or *)
(* sleep until it is set.  A sleeper that wakes because of the flag takes  *)
(* the flag with it; it may also give up after its timeout.                *)
(***************************************************************************)
VARIABLES flag,      \* the event is set
          sleeping   \* the owner is inside threadevent_WaitUntilSet

vars == <<flag, sleeping>>

TypeOK == flag \in BOOLEAN /\ sleeping \in BOOLEAN

Init == flag = FALSE /\ sleeping = FALSE

Set == flag' = TRUE /\ UNCHANGED sleeping

Unset == ~sleeping /\ flag' = FALSE /\ UNCHANGED sleeping

Sleep == ~sleeping /\ sleeping' = TRUE /\ UNCHANGED flag

Wake == sleeping /\ flag /\ flag' = FALSE /\ sleeping' = FALSE

GiveUp == sleeping /\ ~flag /\ sleeping' = FALSE /\ UNCHANGED flag

Next == Set \/ Unset \/ Sleep \/ Wake \/ GiveUp

Spec == Init /\ [][Next]_vars /\ WF_vars(Wake)

=============================================================================
