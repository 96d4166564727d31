--------------------------- MODULE MCThreadEvent ---------------------------
(***************************************************************************)
(* A model-checking instance of ThreadEvent: more setters than the socket  *)
(* holds bytes, so that a setter does meet a full socket.                  *)
(***************************************************************************)
EXTENDS ThreadEvent
=============================================================================
