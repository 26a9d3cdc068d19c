----------------------------- MODULE MCLottery -----------------------------
(* Small instances of Lottery for TLC.                                     *)
EXTENDS LotteryProofs

CONSTANTS u1, u2, i1, i2, k1, k2

\* A lottery without dates, one whose registration ends before the draw, and one
\* that is open until the draw.
MCSchedules ==
    {[starts |-> 0, ends |-> Never, autoDraw |-> Never],
     [starts |-> 0, ends |-> 1, autoDraw |-> 2],
     [starts |-> 1, ends |-> Never, autoDraw |-> 2]}

Undated == {[starts |-> 0, ends |-> Never, autoDraw |-> Never]}
=============================================================================
