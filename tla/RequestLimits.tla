---------------------------- MODULE RequestLimits ----------------------------
(***************************************************************************)
(* The limit on requests (server/src/rate-limiter.js) and the log of those *)
(* it refuses (server/src/request-logs.js), of one process.                *)
(*                                                                         *)
(* The limiter counts in memory, per source and fixed window of time.  The *)
(* refused requests of a source and window are added up in memory, and the *)
(* sums are written by a timer, or when the log is read, cleaned up or     *)
(* closed.                                                                 *)
(*                                                                         *)
(* Abstracted: a source is a scope and address; the other requests, which  *)
(* are logged one by one; what a row holds besides its count, and its last *)
(* request, which is taken to be at the start of the window.               *)
(***************************************************************************)
EXTENDS Integers, FiniteSets

CONSTANTS
    Sources,
    Limit,
    Window,       \* windowMs, in units of time
    Retention,    \* retentionDays, in units of time
    Horizon,      \* bound on time
    MaxRequests   \* bound on requests

VARIABLES
    now,
    buckets,      \* requests admitted, by source and start of the window
    lastCleanup,
    blocked,      \* sums not written yet
    timer,        \* whether flushTimer is set
    rows,         \* api_request_logs: the request_count of a sum
    admitted, refused,   \* history of this process, and of all of them
    mishap,       \* history: a sum was lost on the way to the database
    requests

vars == <<now, buckets, lastCleanup, blocked, timer, rows, admitted, refused, mishap, requests>>

Times   == 0..Horizon
Start   == (now \div Window) * Window
Starts  == {t \in Times : t % Window = 0}
Counts  == [Sources -> [Starts -> 0..MaxRequests]]
Nothing == [s \in Sources |-> [t \in Starts |-> 0]]

TypeOK ==
    /\ now \in Times /\ lastCleanup \in Times
    /\ buckets \in Counts /\ blocked \in Counts /\ rows \in Counts
    /\ admitted \in Counts /\ refused \in Counts
    /\ timer \in BOOLEAN /\ mishap \in BOOLEAN /\ requests \in 0..MaxRequests

Init ==
    /\ now \in Times /\ lastCleanup = 0
    /\ buckets = Nothing /\ blocked = Nothing /\ rows = Nothing
    /\ admitted = Nothing /\ refused = Nothing
    /\ timer = FALSE /\ mishap = FALSE /\ requests = 0

One(counts, s) == [counts EXCEPT ![s][Start] = @ + 1]

-----------------------------------------------------------------------------
(* Plausible faults, against which the properties below are tried.          *)

\* A cleanup that takes a bucket for old as soon as it has begun.
ExpiredOnceBegun(t) == t < now

\* A row that is overwritten by what comes after it.
StoredOver(old, sum) == IF sum > 0 THEN sum ELSE old

-----------------------------------------------------------------------------
(* RateLimiter.assert.                                                     *)

Expired(t) == t < now - Window

\* #cleanup, at most once a window.
CleansUp == now - lastCleanup >= Window
Swept ==
    IF CleansUp
    THEN [s \in Sources |-> [t \in Starts |-> IF Expired(t) THEN 0 ELSE buckets[s][t]]]
    ELSE buckets

\* A refused request goes to the log: #queueBlocked.
Request(s) ==
    /\ requests < MaxRequests /\ requests' = requests + 1
    /\ lastCleanup' = IF CleansUp THEN now ELSE lastCleanup
    /\ IF Swept[s][Start] >= Limit
       THEN /\ buckets' = Swept
            /\ refused' = One(refused, s) /\ blocked' = One(blocked, s) /\ timer' = TRUE
            /\ UNCHANGED admitted
       ELSE /\ buckets' = One(Swept, s) /\ admitted' = One(admitted, s)
            /\ UNCHANGED <<refused, blocked, timer>>
    /\ UNCHANGED <<now, rows, mishap>>

-----------------------------------------------------------------------------
(* RequestLogService.                                                      *)

\* INSERT ... ON CONFLICT(aggregation_key) DO UPDATE adds to the row.
Stored(old, sum) == old + sum

Written == [s \in Sources |-> [t \in Starts |-> Stored(rows[s][t], blocked[s][t])]]

Cleared == blocked' = Nothing /\ timer' = FALSE

\* The timer, or a reader of the log.
Flush ==
    /\ timer \/ blocked # Nothing
    /\ Cleared /\ rows' = Written
    /\ UNCHANGED <<now, buckets, lastCleanup, admitted, refused, mishap, requests>>

\* The sums are cleared before the transaction that fails.
FlushFails ==
    /\ blocked # Nothing
    /\ Cleared /\ mishap' = TRUE
    /\ UNCHANGED <<now, buckets, lastCleanup, rows, admitted, refused, requests>>

Old(t) == t < now - Retention

\* cleanup, from the application's timer.
Cleanup ==
    /\ Cleared
    /\ rows' = [s \in Sources |-> [t \in Starts |-> IF Old(t) THEN 0 ELSE Written[s][t]]]
    /\ UNCHANGED <<now, buckets, lastCleanup, admitted, refused, mishap, requests>>

-----------------------------------------------------------------------------

Tick ==
    /\ now < Horizon /\ now' = now + 1
    /\ UNCHANGED <<buckets, lastCleanup, blocked, timer, rows, admitted, refused, mishap, requests>>

\* The process ends and another starts: after a shutdown the log was closed.
Restart(orderly) ==
    /\ buckets' = Nothing /\ lastCleanup' = 0 /\ admitted' = Nothing
    /\ Cleared
    /\ IF orderly THEN rows' = Written /\ UNCHANGED mishap
       ELSE mishap' = (mishap \/ blocked # Nothing) /\ UNCHANGED rows
    /\ UNCHANGED <<now, refused, requests>>

Next ==
    \/ \E s \in Sources : Request(s)
    \/ Flush \/ FlushFails \/ Cleanup \/ Tick
    \/ \E orderly \in BOOLEAN : Restart(orderly)

Spec == Init /\ [][Next]_vars

-----------------------------------------------------------------------------
(* Properties.                                                             *)

\* A process lets a source through Limit times a window, neither more because a
\* cleanup came between nor less because another source or window used it up, and
\* what it remembers does not grow with time.
LimitHolds ==
    /\ \A s \in Sources, t \in Starts : admitted[s][t] <= Limit
    /\ \A s \in Sources : Swept[s][Start] = admitted[s][Start]
    /\ lastCleanup > 0 =>
          \A s \in Sources, t \in Starts : buckets[s][t] > 0 => t >= lastCleanup - Window

\* Every refused request is counted once, in memory or in the log, for as long as
\* the log is kept, unless a sum was lost: in a crash, or in a failing transaction.
RefusedAreCounted ==
    \A s \in Sources, t \in Starts :
        /\ rows[s][t] + blocked[s][t] <= refused[s][t]
        /\ ~mishap /\ ~Old(t) => rows[s][t] + blocked[s][t] = refused[s][t]
=============================================================================
