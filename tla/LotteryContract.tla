-------------------------- MODULE LotteryContract --------------------------
(***************************************************************************)
(* What a lottery promises its participants, without lists, snapshots,     *)
(* database statements or processes: people join and leave while it is     *)
(* open, the circle of participants is sealed once, and one draw picks the *)
(* announced number of winners among them.                                 *)
(***************************************************************************)
EXTENDS Integers, FiniteSets

CONSTANTS
    People,    \* possible participants
    Totals,    \* possible numbers of winners
    NoResult   \* the result before the draw

VARIABLES
    stage,     \* "draft", "open", "closed", "sealed" or "gone"
    quota,     \* the number of winners announced
    entrants,  \* the participants
    result     \* the winners, or NoResult

vars == <<stage, quota, entrants, result>>

Init == stage = "draft" /\ quota = 0 /\ entrants = {} /\ result = NoResult

\* The announced prizes can change as long as the lottery is not closed.
Announce(n) ==
    /\ stage \in {"draft", "open"}
    /\ quota' = n
    /\ UNCHANGED <<stage, entrants, result>>

Open ==
    /\ stage = "draft" /\ stage' = "open"
    /\ UNCHANGED <<quota, entrants, result>>

Join(p) ==
    /\ stage = "open"
    /\ entrants' = entrants \cup {p}
    /\ UNCHANGED <<stage, quota, result>>

Leave(p) ==
    /\ stage = "open"
    /\ entrants' = entrants \ {p}
    /\ UNCHANGED <<stage, quota, result>>

Close ==
    /\ stage = "open" /\ stage' = "closed"
    /\ UNCHANGED <<quota, entrants, result>>

\* A draw that cannot go ahead opens the registration again.
Reopen ==
    /\ stage = "closed" /\ stage' = "open"
    /\ UNCHANGED <<quota, entrants, result>>

\* Only a list that can supply all winners is sealed.
Seal ==
    /\ stage = "closed" /\ stage' = "sealed"
    /\ quota > 0 /\ Cardinality(entrants) >= quota
    /\ UNCHANGED <<quota, entrants, result>>

Pick(W) ==
    /\ stage = "sealed" /\ result = NoResult
    /\ W \subseteq entrants /\ Cardinality(W) = quota
    /\ result' = W
    /\ UNCHANGED <<stage, quota, entrants>>

\* Nothing that is being decided can be removed.
Remove ==
    /\ stage \in {"draft", "open"} \/ (stage = "sealed" /\ result # NoResult)
    /\ stage' = "gone" /\ quota' = 0 /\ entrants' = {} /\ result' = NoResult

Next ==
    \/ \E n \in Totals : Announce(n)
    \/ \E p \in People : Join(p) \/ Leave(p)
    \/ Open \/ Close \/ Reopen \/ Seal \/ Remove
    \/ \E W \in SUBSET People : Pick(W)

Spec == Init /\ [][Next]_vars
=============================================================================
