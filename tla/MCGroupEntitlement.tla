------------------------ MODULE MCGroupEntitlement ------------------------
(* Small instances of GroupEntitlement for TLC.                            *)
EXTENDS GroupEntitlementProofs, TLC

CONSTANTS r1, r2, r3, u1

\* One activity ends, the other lasts until an administrator revokes it; each has
\* a limit of its own.
Overlapping ==
    {[ends |-> 1, revokeAt |-> Never, limit |-> 2],
     [ends |-> Never, revokeAt |-> Never, limit |-> 3]}

\* An activity whose group is taken back.
Temporary == {[ends |-> 1, revokeAt |-> 2, limit |-> 2]}

Single == {[ends |-> 1, revokeAt |-> Never, limit |-> 2]}

\* Every call succeeds, and nobody revokes a rule early.
Smooth ==
    \A r \in Rules, u \in Users : request[r] = "none" /\ override[r][u].status # "failed"

RuleSymmetry == Permutations(Rules)
=============================================================================
