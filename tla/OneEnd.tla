------------------------------ MODULE OneEnd ------------------------------
(***************************************************************************)
(* What the turns of a session key promise to those who read their cards:  *)
(* a turn ends once, as reported or as given up; its card says so only     *)
(* after that, and says so for good, whatever was still to be displayed.   *)
(***************************************************************************)
CONSTANT Turn

VARIABLES
    end,     \* how each turn ended, or "none"
    shown    \* what its card says: "running" or "ended"

Init ==
    /\ end = [t \in Turn |-> "none"]
    /\ shown = [t \in Turn |-> "running"]

End(t) ==
    /\ end[t] = "none"
    /\ \E kind \in {"final", "abandon"} : end' = [end EXCEPT ![t] = kind]
    /\ UNCHANGED shown

Show(t) ==
    /\ end[t] # "none"
    /\ shown' = [shown EXCEPT ![t] = "ended"]
    /\ UNCHANGED end

Next == \E t \in Turn : End(t) \/ Show(t)

Spec == Init /\ [][Next]_<<end, shown>>
=============================================================================
