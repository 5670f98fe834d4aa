----------------------------- MODULE MCMessages -----------------------------
EXTENDS Messages, TLC

\* An image is not exchanged with a file that is none.
Symmetry == Permutations(Users) \union Permutations(Handlers)
=============================================================================
