------------------------- MODULE MCFlushController -------------------------
(* FlushController needs no more than values for its constants. *)
EXTENDS FlushController
=============================================================================
