--------------------------- MODULE MCAsyncSysJob ---------------------------
(***************************************************************************)
(* Model-checking instances of AsyncSysJob; the .cfg files give the values.*)
(***************************************************************************)
EXTENDS AsyncSysJob
=============================================================================
