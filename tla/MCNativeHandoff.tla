-------------------------- MODULE MCNativeHandoff --------------------------
(* Two turns on each of two keys, of which the file has room for one.       *)
EXTENDS NativeHandoff, TLC

CONSTANTS k1, k2

MCKeys == {k1, k2}
Symmetry == Permutations(MCKeys)

\* A turn of an older Hermes, and the next one, which starts before it ends.
Upgraded == {[id |-> 1, start |-> 1, end |-> 3, exact |-> FALSE],
             [id |-> 2, start |-> 2, end |-> 4, exact |-> TRUE]}
=============================================================================
