---------------------------- MODULE MCCardTurns ----------------------------
(* CardTurns needs no more than values for its constants. *)
EXTENDS CardTurns
=============================================================================
