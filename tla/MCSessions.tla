----------------------------- MODULE MCSessions -----------------------------
EXTENDS Sessions, TLC

Symmetry == Permutations(Ids) \union Permutations(Handlers)
=============================================================================
