--------------------------- MODULE MCEventTransfer ---------------------------
(* EventTransfer, for model checking. *)
EXTENDS EventTransfer
=============================================================================
