------------------------------ MODULE MCGroups ------------------------------
(* Groups for TLC: who is not watched may be exchanged, and so may requests. *)
EXTENDS Groups, TLC

Symmetry == Permutations(People \ {Watched}) \union Permutations(Handlers)
=============================================================================
