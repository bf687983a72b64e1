------------------------- MODULE MCFileTransaction -------------------------
(* Three targets, of which the second is created.                           *)
EXTENDS FileTransaction
MCMissing == {2}
=============================================================================
