---------------------------- MODULE MCPenalties ----------------------------
EXTENDS Penalties, TLC

CONSTANTS r1, r2, direct

\* The rule of impersonation, with a shorter time, and a reason that has none.
MCRules ==
    [reason \in {"impersonation", "none"} |->
        IF reason = "none" THEN <<>> ELSE <<[action |-> "ban", days |-> 1]>>]

\* Two reports for one reason, and one for a manual or an automatic ban.
CasesReasonOf == [r \in Reports |-> IF r = direct THEN "none" ELSE "impersonation"]

Symmetry == Permutations(Handlers) \union Permutations({r1, r2} \intersect Reports)
=============================================================================
