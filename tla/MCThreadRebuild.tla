---- MODULE MCThreadRebuild ----
EXTENDS ThreadRebuildQueue, TLC

\* Every message asks for its thread and for the container of the thread.
AllScopes == [m \in Messages |-> Scopes]

Symmetric == Permutations(Workers) \cup Permutations(Messages) \cup Permutations(Scopes)
====
