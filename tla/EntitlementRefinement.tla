----------------------- MODULE EntitlementRefinement -----------------------
(***************************************************************************)
(* The entitlements keep the promise of EntitlementContract.               *)
(***************************************************************************)
EXTENDS GroupEntitlement

Offer ==
    [r \in Rules |->
        IF stage[r] = "none" THEN "new" ELSE IF Claimable(r) THEN "open" ELSE "closed"]

\* A user asks while a claim holds the lock, from the check under the lock on.
Asking(u) ==
    IF section[u].pc # "wait" /\ Holder(u).kind = "claim" THEN {Holder(u).rule} ELSE {}

GivenTo(u) == {r \in Rules : <<r, u>> \in granted}
Managed(u) == {r \in Rules : member[r][u] = "managed"}

Account ==
    [u \in Users |->
        [asking |-> Asking(u), has |-> remote[u].groups, given |-> GivenTo(u), kept |-> Managed(u)]]

Edited == "edit" \in used

Contract == INSTANCE EntitlementContract WITH
    People <- Users, Groups <- Rules, offer <- Offer, account <- Account, edited <- Edited

\* Whatever is queued, interrupted, answered late or by an error, every step of claims,
\* runs, timer and administrators is a step of the contract or none: a group is given
\* only to who asked while it was offered (the check that claim repeats under the lock),
\* and nothing is taken back or written off before; only what was given is taken, when
\* it is no longer offered, and it is written off only when it has gone.
KeepsContract == Contract!Spec
=============================================================================
