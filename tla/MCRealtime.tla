----------------------------- MODULE MCRealtime -----------------------------
(* Realtime for TLC: sockets and sessions may be exchanged.                *)
EXTENDS Realtime, TLC

Symmetry == Permutations(Sockets) \union Permutations(Sessions)
=============================================================================
