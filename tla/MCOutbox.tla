----------------------------- MODULE MCOutbox ------------------------------
(* Small instances of Outbox for TLC.                                      *)
EXTENDS OutboxProofs

CONSTANTS i1, i2

\* Bound: one crash or one retry in a behaviour.
OneMishap == crashes + retries <= 1

MCSpec == Init /\ [][Next /\ OneMishap']_vars /\ Fairness
=============================================================================
