---------------------------- MODULE MCCallStart ----------------------------
EXTENDS CallStart, TLC

\* Two pairs that share a person, as the second of one and the first of the other.
MCPairs == {<<1, 2>>, <<2, 3>>}

Symmetry == Permutations(Executions)
=============================================================================
