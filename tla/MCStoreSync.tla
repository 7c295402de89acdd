---- MODULE MCStoreSync ----
EXTENDS StoreSync, TLC
Symmetry == Permutations(Files) \cup Permutations(Bodies) \cup Permutations(Metas)
====
