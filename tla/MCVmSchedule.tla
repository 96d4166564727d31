---------------------------- MODULE MCVmSchedule ----------------------------
(***************************************************************************)
(* Model-checking instances of VmSchedule; the .cfg files give the values. *)
(***************************************************************************)
EXTENDS VmSchedule
=============================================================================
