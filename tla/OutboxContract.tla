--------------------------- MODULE OutboxContract ---------------------------
(***************************************************************************)
(* What the winners of a lottery are promised about their rewards, without *)
(* jobs, attempts, loops, processes or answers that get lost: a reward is  *)
(* credited at most once; nobody is told of a delivery that was not made,  *)
(* nor is a delivery ever taken back; and the lottery is only completed,   *)
(* and then removed, when nothing is owed any more.                        *)
(***************************************************************************)
EXTENDS Naturals

CONSTANTS
    Winners,    \* who is owed a reward
    Automatic   \* those whose reward upstream credits

VARIABLES
    credits,    \* how often each winner was credited
    delivered,  \* the winners whose reward is reported as delivered
    stage       \* "owing", "complete" or "gone"

vars == <<credits, delivered, stage>>

Init == credits = [w \in Winners |-> 0] /\ delivered = {} /\ stage = "owing"

\* Upstream credits a reward, before anybody is told of it.
Credit(w) ==
    /\ stage = "owing" /\ w \notin delivered
    /\ credits[w] = 0 /\ credits' = [credits EXCEPT ![w] = 1]
    /\ UNCHANGED <<delivered, stage>>

\* What was not credited is not delivered; other rewards are handed out by people.
Deliver(w) ==
    /\ stage = "owing" /\ w \notin delivered
    /\ w \in Automatic => credits[w] = 1
    /\ delivered' = delivered \cup {w}
    /\ UNCHANGED <<credits, stage>>

Complete ==
    /\ stage = "owing" /\ delivered = Winners
    /\ stage' = "complete"
    /\ UNCHANGED <<credits, delivered>>

Remove ==
    /\ stage = "complete" /\ stage' = "gone"
    /\ UNCHANGED <<credits, delivered>>

Next ==
    \/ \E w \in Automatic : Credit(w)
    \/ \E w \in Winners : Deliver(w)
    \/ Complete \/ Remove

Spec == Init /\ [][Next]_vars
=============================================================================
