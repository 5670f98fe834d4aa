-------------------------- MODULE MCRelationships --------------------------
(* Instances of Relationships for TLC.                                     *)
EXTENDS Relationships, TLC

Symmetry ==
    Permutations(People) \union Permutations(Docs) \union Permutations(Convs)
        \union Permutations(Handlers)
=============================================================================
