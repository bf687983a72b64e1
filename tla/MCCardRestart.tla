--------------------------- MODULE MCCardRestart ---------------------------
(* CardRestart needs no more than values for its constants. *)
EXTENDS CardRestart
=============================================================================
