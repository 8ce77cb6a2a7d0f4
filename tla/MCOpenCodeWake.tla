--------------------------- MODULE MCOpenCodeWake ---------------------------
EXTENDS OpenCodeWake

CONSTANTS o1, o2, o3, here, there

\* Two instances, rivals or successors, in one directory and one in another.
TwoPlaces == [o \in Owners |-> IF o = o3 THEN there ELSE here]
=============================================================================
