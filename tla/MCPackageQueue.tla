---- MODULE MCPackageQueue ----
EXTENDS PackageQueue, TLC

\* All items were sent for the first package; the others process in parallel.
FirstPackage == [i \in Items |-> CHOOSE p \in Packages : \A q \in Packages : p <= q]

Symmetric == Permutations(Workers) \cup Permutations(Retries)
====
