------------------------------ MODULE MCAvatars ------------------------------
(***************************************************************************)
(* Requests are interchangeable, and so are reports.                       *)
(***************************************************************************)
EXTENDS Avatars, TLC

Symmetry == Permutations(Requests) \union Permutations(ReportIds)
=============================================================================
