-------------------------- MODULE OutboxRefinement --------------------------
(***************************************************************************)
(* The outbox of one process keeps the promise of OutboxContract.          *)
(***************************************************************************)
EXTENDS Outbox

\* How often upstream has credited a winner, under whatever codes.
Credits == [j \in Jobs |-> Cardinality({c \in redeemed : c.winner = j})]

\* Delivered is what the administrator and the winner are both told of.
Delivered == {j \in Jobs : status[j] = "succeeded" /\ reward[j] = "succeeded"}

StageOf ==
    [drawn |-> "owing", fulfilling |-> "owing", failed |-> "owing",
     fulfilled |-> "complete", deleted |-> "gone"]

Contract == INSTANCE OutboxContract WITH
    Winners <- Jobs, Automatic <- Automated,
    credits <- Credits, delivered <- Delivered, stage <- StageOf[lottery]

\* Whatever is retried, lost, late or crashes, every statement of the loops and of the
\* administrator's requests is a step of the contract or none: upstream credits a
\* winner once and before anybody is told, what is delivered stays so, and a lottery
\* that is fulfilled owes nothing and never goes back to owing (#refreshLotteryStatus
\* stores a status computed a statement earlier).
KeepsContract == Contract!Spec
=============================================================================
