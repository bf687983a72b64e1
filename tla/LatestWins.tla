---------------------------- MODULE LatestWins ----------------------------
(***************************************************************************)
(* What a flush controller promises to the handlers that use it: a display *)
(* of numbered updates where a newer update may overtake older ones but    *)
(* never the reverse, where nothing follows the final update, and where    *)
(* the latest update is displayed in the end.                              *)
(***************************************************************************)
EXTENDS Integers

VARIABLES
    submitted,   \* the latest update handed over
    displayed,   \* the latest update whose rendering began
    sealed       \* the final update was handed over

vars == <<submitted, displayed, sealed>>

Init == submitted = 0 /\ displayed = 0 /\ sealed = FALSE

Submit ==
    /\ ~sealed
    /\ submitted' = submitted + 1
    /\ sealed' \in BOOLEAN
    /\ UNCHANGED displayed

\* A display always shows the latest update there is when it begins.
Display ==
    /\ displayed < submitted
    /\ displayed' = submitted
    /\ UNCHANGED <<submitted, sealed>>

Next == Submit \/ Display

Spec == Init /\ [][Next]_vars
Live == WF_vars(Display)
=============================================================================
