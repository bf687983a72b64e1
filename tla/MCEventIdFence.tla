-------------------------- MODULE MCEventIdFence --------------------------
(* Two events for one entry: a, a runtime admission, is delivered twice with *)
(* one payload and once with another.                                        *)
EXTENDS EventIdFence, TLC

CONSTANTS r1, r2, r3, r4, a, b, p, q

MCRequests == {r1, r2, r3, r4}
MCEventOf == [r \in {r1, r2, r3} |-> a] @@ (r4 :> b)
MCPrintOf == (r3 :> q) @@ [r \in MCRequests \ {r3} |-> p]
=============================================================================
