-------------------------- MODULE RequestLimitsProofs --------------------------
(***************************************************************************)
(* Proofs about RequestLimits for any sources, limit, window, retention    *)
(* and number of requests: what a source is let through, and what becomes  *)
(* of the requests that are refused.                                       *)
(***************************************************************************)
EXTENDS RequestLimits, TLAPS

Parameters ==
    /\ Limit \in Nat /\ Window \in Nat \ {0} /\ Retention \in Nat
    /\ Horizon \in Nat /\ MaxRequests \in Nat

\* A bucket counts what was admitted until its window is over, and no bucket is
\* older than the last cleanup allows.
BucketsInv ==
    /\ lastCleanup <= now
    /\ \A s \in Sources, t \in Starts :
          /\ admitted[s][t] <= Limit /\ admitted[s][t] <= requests
          /\ buckets[s][t] <= admitted[s][t]
          /\ t >= now - Window => buckets[s][t] = admitted[s][t]
          /\ buckets[s][t] > 0 => t >= lastCleanup - Window

RefusedInv ==
    /\ RefusedAreCounted
    /\ \A s \in Sources, t \in Starts : refused[s][t] <= requests

IInv == TypeOK /\ BucketsInv /\ RefusedInv

-----------------------------------------------------------------------------
(* Windows and counts.                                                     *)

\* The window of now begins within it (windowStart in assert).
LEMMA StartInWindow ==
    ASSUME Parameters, now \in Times
    PROVE  Start \in Starts /\ Start <= now /\ Start > now - Window /\ ~Expired(Start)
  <1>1. Window \in Nat \ {0} /\ Horizon \in Nat /\ now \in Nat /\ now <= Horizon
    BY DEF Parameters, Times
  <1>2. now \div Window \in Nat
    BY <1>1, SMT
  <1>3. (now \div Window) * Window \in Nat /\ (now \div Window) * Window <= now
    BY <1>1, SMT
  <1>4. (now \div Window) * Window > now - Window
    BY <1>1, SMT
  <1>5. \A k \in Nat : (k * Window) % Window = 0
    BY <1>1, SMT
  <1>6. Start % Window = 0
    BY <1>2, <1>5 DEF Start
  <1> QED
    BY <1>1, <1>3, <1>4, <1>6 DEF Start, Starts, Times, Expired

\* Counting one more in the current window.
LEMMA OneCount ==
    ASSUME Parameters, now \in Times, NEW c \in Counts, NEW s \in Sources
    PROVE  /\ \A v \in Sources, t \in Starts :
                 One(c, s)[v][t] = IF v = s /\ t = Start THEN c[s][Start] + 1 ELSE c[v][t]
           /\ c[s][Start] < MaxRequests => One(c, s) \in Counts
  <1>1. Start \in Starts
    BY StartInWindow
  <1>2. c \in [Sources -> [Starts -> 0..MaxRequests]] /\ c[s][Start] \in 0..MaxRequests
    BY <1>1 DEF Counts
  <1>3. One(c, s) = [c EXCEPT ![s] = [c[s] EXCEPT ![Start] = c[s][Start] + 1]]
    BY DEF One
  <1>4. ASSUME NEW v \in Sources, NEW t \in Starts
        PROVE  One(c, s)[v][t] = IF v = s /\ t = Start THEN c[s][Start] + 1 ELSE c[v][t]
    BY <1>1, <1>2, <1>3
  <1>5. ASSUME c[s][Start] < MaxRequests PROVE One(c, s) \in Counts
    <2>1. c[s][Start] + 1 \in 0..MaxRequests
      BY <1>2, <1>5 DEF Parameters
    <2>2. [c[s] EXCEPT ![Start] = c[s][Start] + 1] \in [Starts -> 0..MaxRequests]
      BY <1>2, <2>1
    <2> QED
      BY <1>2, <1>3, <2>2 DEF Counts
  <1> QED
    BY <1>4, <1>5

\* Times and counts are numbers, for the arithmetic.
LEMMA CountsAreNumbers ==
    ASSUME Parameters, TypeOK
    PROVE  /\ now \in Nat /\ now <= Horizon /\ lastCleanup \in Nat /\ requests \in Nat
           /\ requests <= MaxRequests /\ Starts \subseteq Nat
           /\ \A s \in Sources, t \in Starts :
                 /\ buckets[s][t] \in Nat /\ blocked[s][t] \in Nat /\ rows[s][t] \in Nat
                 /\ admitted[s][t] \in Nat /\ refused[s][t] \in Nat
  <1>1. \A c \in Counts : \A s \in Sources, t \in Starts : c[s][t] \in Nat
    BY DEF Counts
  <1> QED
    BY <1>1 DEF TypeOK, Times, Starts, Parameters

LEMMA NothingCounts == Parameters => Nothing \in Counts /\ \A s \in Sources, t \in Starts : Nothing[s][t] = 0
  BY DEF Parameters, Nothing, Counts

\* What a cleanup of the buckets leaves (#cleanup).
LEMMA SweptCounts ==
    ASSUME Parameters, TypeOK
    PROVE  /\ Swept \in Counts
           /\ \A s \in Sources, t \in Starts :
                 Swept[s][t] = IF CleansUp /\ Expired(t) THEN 0 ELSE buckets[s][t]
  BY DEF Parameters, TypeOK, Swept, Counts

-----------------------------------------------------------------------------
(* The inductive invariant.                                                *)

LEMMA InvInit == Parameters /\ Init => IInv
  <1> SUFFICES ASSUME Parameters, Init PROVE IInv
    OBVIOUS
  <1>1. TypeOK
    <2>1. Nothing \in Counts
      BY NothingCounts
    <2>2. 0 \in Times /\ 0 \in 0..MaxRequests
      BY DEF Times, Parameters
    <2> QED
      BY <2>1, <2>2 DEF Init, TypeOK
  <1>2. BucketsInv /\ RefusedInv
    BY <1>1, CountsAreNumbers, NothingCounts DEF Init, BucketsInv, RefusedInv, RefusedAreCounted, Parameters
  <1> QED
    BY <1>1, <1>2 DEF IInv

\* A request is let through or refused.
LEMMA RequestInv ==
    ASSUME Parameters, IInv, NEW s \in Sources, Request(s)
    PROVE  IInv'
  <1> USE DEF IInv
  <1>1. /\ now' = now /\ requests' = requests + 1 /\ requests < MaxRequests
        /\ rows' = rows /\ mishap' = mishap
        /\ lastCleanup' = IF CleansUp THEN now ELSE lastCleanup
    BY DEF Request
  <1>2. Start \in Starts /\ Start > now - Window /\ ~Expired(Start) /\ now \in Times
    BY StartInWindow DEF TypeOK
  <1>3. Swept[s][Start] = buckets[s][Start] /\ buckets[s][Start] = admitted[s][Start]
    BY <1>2, SweptCounts, CountsAreNumbers DEF BucketsInv, Parameters
  <1>4. admitted[s][Start] < MaxRequests /\ refused[s][Start] < MaxRequests
    BY <1>1, <1>2, CountsAreNumbers DEF BucketsInv, RefusedInv, Parameters
  <1>5. blocked[s][Start] < MaxRequests
    BY <1>2, <1>4, CountsAreNumbers DEF RefusedInv, RefusedAreCounted, Parameters
  <1>6. requests' \in 0..MaxRequests /\ lastCleanup' \in Times /\ now' \in Times
    BY <1>1, CountsAreNumbers DEF TypeOK, Parameters
  <1>7. /\ Swept \in Counts
        /\ \A v \in Sources, t \in Starts :
              /\ Swept[v][t] <= admitted[v][t]
              /\ t >= now - Window => Swept[v][t] = admitted[v][t]
              /\ Swept[v][t] > 0 => t >= lastCleanup' - Window
    BY <1>1, SweptCounts, CountsAreNumbers DEF BucketsInv, CleansUp, Expired, Parameters
  <1>8. CASE Swept[s][Start] >= Limit
    <2>1. /\ buckets' = Swept /\ admitted' = admitted /\ timer' = TRUE
          /\ refused' = One(refused, s) /\ blocked' = One(blocked, s)
      BY <1>8 DEF Request
    <2>2. TypeOK'
      BY <1>1, <1>2, <1>4, <1>5, <1>6, <1>7, <2>1, OneCount DEF TypeOK
    <2>3. BucketsInv'
      BY <1>1, <1>7, <2>1, CountsAreNumbers DEF BucketsInv
    <2>4. /\ \A v \in Sources, t \in Starts :
                refused'[v][t] = IF v = s /\ t = Start THEN refused[s][Start] + 1 ELSE refused[v][t]
          /\ \A v \in Sources, t \in Starts :
                blocked'[v][t] = IF v = s /\ t = Start THEN blocked[s][Start] + 1 ELSE blocked[v][t]
      BY <1>2, <2>1, OneCount DEF TypeOK
    <2>5. RefusedInv'
      BY <1>1, <1>2, <2>4, CountsAreNumbers DEF RefusedInv, RefusedAreCounted, Old
    <2> QED
      BY <2>2, <2>3, <2>5
  <1>9. CASE ~(Swept[s][Start] >= Limit)
    <2>1. /\ buckets' = One(Swept, s) /\ admitted' = One(admitted, s)
          /\ refused' = refused /\ blocked' = blocked /\ timer' = timer
      BY <1>9 DEF Request
    <2>2. TypeOK'
      BY <1>1, <1>2, <1>3, <1>4, <1>6, <1>7, <2>1, OneCount DEF TypeOK
    <2>3. admitted[s][Start] < Limit
      BY <1>2, <1>3, <1>9, CountsAreNumbers DEF Parameters
    <2>4. /\ \A v \in Sources, t \in Starts :
                admitted'[v][t] = IF v = s /\ t = Start THEN admitted[s][Start] + 1 ELSE admitted[v][t]
          /\ \A v \in Sources, t \in Starts :
                buckets'[v][t] = IF v = s /\ t = Start THEN Swept[s][Start] + 1 ELSE Swept[v][t]
      BY <1>2, <1>7, <2>1, OneCount DEF TypeOK
    <2>5. lastCleanup' <= now
      BY <1>1, CountsAreNumbers DEF BucketsInv
    <2>6. ASSUME NEW v \in Sources, NEW t \in Starts
          PROVE  /\ admitted'[v][t] <= Limit /\ admitted'[v][t] <= requests'
                 /\ buckets'[v][t] <= admitted'[v][t]
                 /\ t >= now' - Window => buckets'[v][t] = admitted'[v][t]
                 /\ buckets'[v][t] > 0 => t >= lastCleanup' - Window
      <3>1. CASE v = s /\ t = Start
        BY <1>1, <1>2, <1>3, <2>3, <2>4, <2>5, <3>1, <1>6, CountsAreNumbers DEF BucketsInv, Parameters, Times
      <3>2. CASE ~(v = s /\ t = Start)
        BY <1>1, <1>7, <2>4, <3>2, CountsAreNumbers DEF BucketsInv
      <3> QED BY <3>1, <3>2
    <2>7. BucketsInv'
      BY <1>1, <2>5, <2>6 DEF BucketsInv
    <2>8. RefusedInv'
      BY <1>1, <2>1, CountsAreNumbers DEF RefusedInv, RefusedAreCounted, Old
    <2> QED
      BY <2>2, <2>7, <2>8
  <1> QED
    BY <1>8, <1>9

\* The sums are stored or lost (flush, cleanup, close, a process that dies).
LEMMA StoreInv ==
    ASSUME Parameters, IInv, blocked' = Nothing, timer' \in BOOLEAN, mishap' \in BOOLEAN,
           UNCHANGED <<now, refused, requests>>, BucketsInv', rows' \in Counts => TypeOK',
           \/ mishap' = mishap /\ rows' = Written
           \/ mishap' = mishap /\ rows' = [s \in Sources |-> [t \in Starts |->
                                               IF Old(t) THEN 0 ELSE Written[s][t]]]
           \/ (mishap' <=> mishap \/ blocked # Nothing) /\ rows' = rows
    PROVE  IInv'
  <1> USE DEF IInv
  <1>1. \A s \in Sources, t \in Starts :
           /\ Written[s][t] = rows[s][t] + blocked[s][t]
           /\ Written[s][t] <= refused[s][t] /\ Written[s][t] \in 0..MaxRequests
    BY CountsAreNumbers DEF Written, Stored, RefusedInv, RefusedAreCounted, Parameters
  <1>2. Written = [s \in Sources |-> [t \in Starts |-> Written[s][t]]]
    BY DEF Written
  <1>3. \A s \in Sources, t \in Starts : blocked'[s][t] = 0 /\ Nothing[s][t] = 0
    BY NothingCounts
  <1>4. CASE mishap' = mishap /\ rows' = Written
    <2>1. rows' \in Counts
      BY <1>1, <1>2, <1>4 DEF Counts
    <2>2. RefusedInv'
      BY <1>1, <1>3, <1>4, CountsAreNumbers DEF RefusedInv, RefusedAreCounted, Old
    <2> QED BY <2>1, <2>2
  <1>5. CASE mishap' = mishap /\ rows' = [s \in Sources |-> [t \in Starts |->
                                             IF Old(t) THEN 0 ELSE Written[s][t]]]
    <2>1. rows' \in Counts
      BY <1>1, <1>5 DEF Counts, Parameters
    <2>2. \A s \in Sources, t \in Starts : rows'[s][t] = IF Old(t) THEN 0 ELSE Written[s][t]
      BY <1>5
    <2>3. RefusedInv'
      BY <1>1, <1>3, <1>5, <2>2, CountsAreNumbers DEF RefusedInv, RefusedAreCounted, Old
    <2> QED BY <2>1, <2>3
  <1>6. CASE (mishap' <=> mishap \/ blocked # Nothing) /\ rows' = rows
    <2>1. ASSUME ~mishap' PROVE blocked = Nothing /\ ~mishap
      BY <1>6, <2>1
    <2>2. RefusedInv'
      BY <1>3, <1>6, <2>1, CountsAreNumbers DEF RefusedInv, RefusedAreCounted, Old
    <2> QED BY <1>6, <2>2 DEF TypeOK
  <1> QED BY <1>4, <1>5, <1>6

LEMMA InvNext == Parameters /\ IInv /\ [Next]_vars => IInv'
  <1> SUFFICES ASSUME Parameters, IInv, [Next]_vars PROVE IInv'
    OBVIOUS
  <1>1. ASSUME NEW s \in Sources, Request(s) PROVE IInv'
    BY <1>1, RequestInv
  <1>2. ASSUME UNCHANGED <<now, buckets, lastCleanup, admitted, requests>> PROVE BucketsInv'
    BY <1>2 DEF IInv, BucketsInv
  <1>3. Nothing \in Counts
    BY NothingCounts
  <1>4. CASE Flush
    BY <1>2, <1>3, <1>4, StoreInv DEF Flush, Cleared, IInv, TypeOK
  <1>5. CASE Cleanup
    BY <1>2, <1>3, <1>5, StoreInv DEF Cleanup, Cleared, IInv, TypeOK
  <1>6. CASE FlushFails
    <2>1. mishap' <=> mishap \/ blocked # Nothing
      BY <1>6 DEF FlushFails
    <2> QED
      BY <1>2, <1>3, <1>6, <2>1, StoreInv DEF FlushFails, Cleared, IInv, TypeOK
  <1>7. ASSUME NEW orderly \in BOOLEAN, Restart(orderly) PROVE IInv'
    <2>1. /\ buckets' = Nothing /\ lastCleanup' = 0 /\ admitted' = Nothing
          /\ blocked' = Nothing /\ timer' = FALSE /\ UNCHANGED <<now, refused, requests>>
      BY <1>7 DEF Restart, Cleared
    <2>2. BucketsInv'
      BY <2>1, NothingCounts, CountsAreNumbers DEF IInv, BucketsInv, Parameters
    <2>3. 0 \in Times
      BY DEF Times, Parameters
    <2>4. CASE orderly = TRUE
      <3>1. rows' = Written /\ mishap' = mishap
        BY <1>7, <2>4 DEF Restart
      <3> QED
        BY <1>3, <2>1, <2>2, <2>3, <3>1, StoreInv DEF IInv, TypeOK
    <2>5. CASE orderly = FALSE
      <3>1. rows' = rows /\ mishap' = (mishap \/ blocked # Nothing)
        BY <1>7, <2>5 DEF Restart
      <3>2. mishap' \in BOOLEAN /\ (mishap' <=> mishap \/ blocked # Nothing)
        BY <3>1
      <3> QED
        BY <1>3, <2>1, <2>2, <2>3, <3>1, <3>2, StoreInv DEF IInv, TypeOK
    <2> QED BY <2>4, <2>5
  <1>8. CASE Tick
    <2>1. /\ now' = now + 1 /\ now' \in Times
          /\ UNCHANGED <<buckets, lastCleanup, blocked, timer, rows, admitted, refused, mishap, requests>>
      BY <1>8, CountsAreNumbers DEF Tick, Times, IInv, Parameters
    <2>2. TypeOK'
      BY <2>1 DEF IInv, TypeOK
    <2>3. BucketsInv'
      BY <2>1, CountsAreNumbers DEF IInv, BucketsInv, Parameters
    <2>4. RefusedInv'
      BY <2>1, CountsAreNumbers DEF IInv, RefusedInv, RefusedAreCounted, Old, Parameters
    <2> QED BY <2>2, <2>3, <2>4 DEF IInv
  <1>9. CASE UNCHANGED vars
    BY <1>9 DEF vars, IInv, TypeOK, BucketsInv, RefusedInv, RefusedAreCounted, Old
  <1> QED
    BY <1>1, <1>4, <1>5, <1>6, <1>7, <1>8, <1>9 DEF Next

THEOREM InductiveInvariant ==
    ASSUME Parameters
    PROVE  Spec => []IInv
  <1>1. Init => IInv
    BY InvInit
  <1>2. IInv /\ [Next]_vars => IInv'
    BY InvNext
  <1> QED
    BY <1>1, <1>2, PTL DEF Spec

\* The limit is neither exceeded nor used up by another source or window, and old
\* buckets go (assert and #cleanup).
THEOREM LimitIsKept ==
    ASSUME Parameters
    PROVE  Spec => []LimitHolds
  <1>1. ASSUME IInv PROVE LimitHolds
    <2>1. Start \in Starts /\ Start > now - Window /\ ~Expired(Start)
      BY <1>1, StartInWindow DEF IInv, TypeOK
    <2>2. \A s \in Sources : Swept[s][Start] = admitted[s][Start]
      BY <1>1, <2>1, SweptCounts, CountsAreNumbers DEF IInv, BucketsInv, Parameters
    <2> QED
      BY <1>1, <2>2 DEF IInv, BucketsInv, LimitHolds
  <1> QED
    BY <1>1, InductiveInvariant, PTL

\* Every refused request is counted once while the log is kept, unless a sum was lost
\* (#queueBlocked, flush, cleanup).
THEOREM RefusedCounted ==
    ASSUME Parameters
    PROVE  Spec => []RefusedAreCounted
  <1>1. IInv => RefusedAreCounted
    BY DEF IInv, RefusedInv
  <1> QED
    BY <1>1, InductiveInvariant, PTL
=============================================================================
