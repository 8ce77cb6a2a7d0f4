---- MODULE MCCodexWake ----
EXTENDS CodexWake, TLC

\* Endpoints that carry the same session_ref, in different containers: the case
\* in which a moved endpoint's fence shares its wake key with another one's.
CONSTANT r1
SharedRef == [e \in Endpoints |-> r1]

Symmetric == Permutations(Workers) \cup Permutations(Deliveries)
AllSymmetric == Symmetric \cup Permutations(Endpoints) \cup Permutations(Containers)
====
