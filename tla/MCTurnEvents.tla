---------------------------- MODULE MCTurnEvents ----------------------------
(* One turn: a thread that streams, one that reports tools, an interaction   *)
(* and two reports of the end.                                               *)
EXTENDS TurnEvents
=============================================================================
