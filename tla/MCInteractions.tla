--------------------------- MODULE MCInteractions ---------------------------
EXTENDS Interactions, TLC
Symmetric == Permutations(Choices) \cup Permutations(Clicks) \cup Permutations(Questions)
             \cup Permutations(Ends)
\* One question with any four things that may happen to it, or two with any two.
OneOrTwo == [n \in 0 .. 2 |-> IF n = 2 THEN 2 ELSE 4]
=============================================================================
