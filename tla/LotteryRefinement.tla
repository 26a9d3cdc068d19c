------------------------- MODULE LotteryRefinement -------------------------
(***************************************************************************)
(* A lottery run by one process keeps the promise of LotteryContract.      *)
(***************************************************************************)
EXTENDS Lottery

\* Stands for "not drawn": no set of users.
NoResult == {NoOne}

StageOf ==
    [absent |-> "draft", not_started |-> "draft", active |-> "open",
     snapshot_ready |-> "closed", locked |-> "sealed", drawn |-> "sealed",
     fulfilling |-> "sealed", failed |-> "sealed", fulfilled |-> "sealed",
     deleted |-> "gone"]

Result == IF rounds = {} THEN NoResult ELSE (CHOOSE r \in rounds : TRUE).winners

Contract == INSTANCE LotteryContract WITH
    People <- Users, Totals <- WinnerTotals,
    stage <- StageOf[status], quota <- planned, entrants <- entries, result <- Result

\* Every statement of every handler maps to a step of the contract or to none:
\* nobody joins or leaves a closed lottery, a list is sealed once with enough
\* participants, one draw picks from all of them, and only a lottery that is
\* not being decided can be deleted.
KeepsContract == Contract!Spec
=============================================================================
