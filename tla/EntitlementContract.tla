------------------------ MODULE EntitlementContract ------------------------
(***************************************************************************)
(* What people and administrators are promised about the groups that are   *)
(* given for a time, without queues, runs, copies or answers that get      *)
(* lost: a group is given to who asked for it while it was offered; only a *)
(* group that was given is ever taken away, and only when it is no longer  *)
(* offered; and the books say so.                                          *)
(***************************************************************************)
CONSTANTS People, Groups

VARIABLES
    offer,      \* "new", "open" or "closed", per group
    account,    \* per person: the group asked for, the groups had, those ever given,
                \* and those the books say are to be taken back
    edited      \* somebody else has changed the groups of a person

vars == <<offer, account, edited>>

Init ==
    /\ offer = [g \in Groups |-> "new"]
    /\ \E had \in [People -> SUBSET Groups] :
          account = [p \in People |-> [asking |-> {}, has |-> had[p], given |-> {}, kept |-> {}]]
    /\ edited = FALSE

-----------------------------------------------------------------------------
(* From an account a to an account b.                                      *)

Ask(a, b, g) ==
    /\ a.asking = {} /\ offer[g] = "open"
    /\ b = [asking |-> {g}, has |-> a.has, given |-> a.given, kept |-> a.kept]

LeaveOff(a, b) == b = [asking |-> {}, has |-> a.has, given |-> a.given, kept |-> a.kept]

\* Nobody is given what they have, and the books may miss what was given.
Give(a, b, g) ==
    /\ g \in a.asking /\ g \notin a.has
    /\ \E kept \in {a.kept, a.kept \cup {g}} :
          b = [asking |-> {}, has |-> a.has \cup {g}, given |-> a.given \cup {g}, kept |-> kept]

\* The books may be behind, but are not ahead: see WriteOff.
Take(a, b, g) ==
    /\ a.asking = {} /\ offer[g] = "closed"
    /\ g \in a.kept \cap a.has
    /\ \E kept \in {a.kept, a.kept \ {g}} :
          b = [asking |-> {}, has |-> a.has \ {g}, given |-> a.given, kept |-> kept]

WriteOff(a, b, g) ==
    /\ a.asking = {} /\ offer[g] = "closed"
    /\ g \in a.kept /\ (g \notin a.has \/ edited)
    /\ b = [asking |-> {}, has |-> a.has, given |-> a.given, kept |-> a.kept \ {g}]

Step(p) ==
    LET a == account[p]
        b == account'[p]
    IN  \/ LeaveOff(a, b)
        \/ \E g \in Groups : Ask(a, b, g) \/ Give(a, b, g) \/ Take(a, b, g) \/ WriteOff(a, b, g)

-----------------------------------------------------------------------------
Serve ==
    /\ account' = [p \in People |-> account'[p]]
    /\ \A p \in People : account'[p] = account[p] \/ Step(p)
    /\ UNCHANGED <<offer, edited>>

\* What was closed is not offered again.
Reoffer ==
    /\ offer' \in [Groups -> {"new", "open", "closed"}]
    /\ \A g \in Groups :
          offer'[g] # offer[g] => offer[g] = "new" \/ (offer[g] = "open" /\ offer'[g] = "closed")
    /\ UNCHANGED <<account, edited>>

Edit(p, g) ==
    /\ LET a == account[p]
           had == IF g \in a.has THEN a.has \ {g} ELSE a.has \cup {g}
       IN  account' = [account EXCEPT ![p] =
              [asking |-> a.asking, has |-> had, given |-> a.given, kept |-> a.kept]]
    /\ edited' = TRUE
    /\ UNCHANGED offer

Next == Serve \/ Reoffer \/ \E p \in People, g \in Groups : Edit(p, g)

Spec == Init /\ [][Next]_vars
=============================================================================
