------------------------------- MODULE Outbox -------------------------------
(***************************************************************************)
(* Delivery of the rewards of one drawn lottery (server/src/outbox.js).    *)
(*                                                                         *)
(* A process delivers jobs in loops that await the upstream redemption of  *)
(* one job after the other: one loop of the timer, processDue, guarded by  *)
(* `running', and one of an administrator, processLottery.  Between awaits *)
(* a loop is not interrupted by its own process, only by a crash; the      *)
(* other processes sharing the database interleave everywhere.  An answer  *)
(* may be lost, and a call may take effect after its caller has given up   *)
(* or died.                                                                *)
(*                                                                         *)
(* Abstracted: time (a job is or is not past next_attempt_at), the payload *)
(* beyond its redemption code, error texts, audit rows, LIMIT 20.          *)
(***************************************************************************)
EXTENDS Integers, FiniteSets

CONSTANTS
    Jobs,          \* outbox_jobs of the lottery, in id order
    Automated,     \* those whose job_type is not manual or physical
    Instances,     \* server processes
    MaxAttempts,   \* MAX_ATTEMPTS
    MaxRetries,    \* bound on the retries an administrator asks for
    MaxCrashes     \* bound on crashes

ASSUME OutboxAssumption ==
    /\ Jobs \subseteq Nat \ {0} /\ IsFiniteSet(Jobs) /\ Automated \subseteq Jobs
    /\ MaxAttempts \in Nat \ {0} /\ MaxRetries \in Nat /\ MaxCrashes \in Nat

VARIABLES
    status,     \* outbox_jobs.status
    attempts,   \* outbox_jobs.attempts, kept at MaxAttempts once there
    ready,      \* next_attempt_at has passed
    reward,     \* winners.reward_status
    lottery,    \* lotteries.status, "deleted" when the rows are gone
    inTransit,  \* redemption codes of calls upstream has not answered to yet
    redeemed,   \* codes upstream has redeemed
    worker,     \* the loops and requests of the processes
    up,         \* processes that run
    retries, crashes

job     == <<status, attempts, ready, reward>>
bounds  == <<retries, crashes>>
vars    == <<job, lottery, inTransit, redeemed, worker, up, bounds>>

JobStatuses     == {"pending", "processing", "failed", "succeeded", "manual"}
LotteryStatuses == {"drawn", "fulfilling", "failed", "fulfilled", "deleted"}

Slots   == {"due", "lottery", "admin"}
Workers == Instances \X Slots
Phases  == {"idle", "next", "call", "count", "store", "retry"}

\* todo: rows a loop still has to visit; job: the job at hand, 0 for none;
\* seen: the status #refreshLotteryStatus has computed from its counts.
Loops == [phase : Phases, todo : SUBSET Jobs, job : Jobs \cup {0}, seen : LotteryStatuses]

Enter(phase, todo, j) == [phase |-> phase, todo |-> todo, job |-> j, seen |-> "drawn"]
Idle == Enter("idle", {}, 0)

(* Plausible faults, against which the properties below are tried.          *)

\* A code made from the attempt instead of the winner alone.
CodePerAttempt(j) == [winner |-> j, serial |-> attempts[j]]

\* makeRewardPayload: the code and the idempotency key derive from the winner.
Code(j) == [winner |-> j, serial |-> 0]
Codes   == [winner : Jobs, serial : 0..MaxAttempts]

TypeOK ==
    /\ status \in [Jobs -> JobStatuses] /\ reward \in [Jobs -> JobStatuses]
    /\ attempts \in [Jobs -> 0..MaxAttempts] /\ ready \in [Jobs -> BOOLEAN]
    /\ lottery \in LotteryStatuses
    /\ inTransit \subseteq Codes /\ redeemed \subseteq Codes
    /\ worker \in [Workers -> Loops]
    /\ up \subseteq Instances
    /\ retries \in 0..MaxRetries /\ crashes \in 0..MaxCrashes

\* The draw has just been committed (LotteryService.draw).
Init ==
    /\ status = [j \in Jobs |-> IF j \in Automated THEN "pending" ELSE "manual"]
    /\ reward = status
    /\ attempts = [j \in Jobs |-> 0] /\ ready = [j \in Jobs |-> TRUE]
    /\ lottery = "drawn"
    /\ inTransit = {} /\ redeemed = {}
    /\ worker = [w \in Workers |-> Idle]
    /\ up = Instances
    /\ retries = 0 /\ crashes = 0

-----------------------------------------------------------------------------

Phase(w)     == worker[w].phase
Become(w, l) == worker' = [worker EXCEPT ![w] = l]
Move(w, to)  == Become(w, Enter(to, worker[w].todo, worker[w].job))
Rest(w)      == Become(w, Idle)

\* No handler of the process is between two of its statements.
Free(i) == i \in up /\ \A s \in Slots : Phase(<<i, s>>) \in {"idle", "call"}

Begin(i, s, l) == Free(i) /\ Phase(<<i, s>>) = "idle" /\ Become(<<i, s>>, l)

\* After #refreshLotteryStatus a loop goes on, unless it was its last statement.
Leave(w) ==
    IF w[2] = "admin" \/ worker[w].job = 0
    THEN Rest(w) ELSE Become(w, Enter("next", worker[w].todo, 0))

\* What a call came to is written by row id, whatever the row holds by now.
Outcome(j, st, due) ==
    IF lottery = "deleted" THEN UNCHANGED job
    ELSE /\ status' = [status EXCEPT ![j] = st]
         /\ reward' = [reward EXCEPT ![j] = st]
         /\ ready' = [ready EXCEPT ![j] = due]
         /\ UNCHANGED attempts

\* The status #refreshLotteryStatus derives from the jobs.
Count(st) == Cardinality({j \in Jobs : status[j] = st})

-----------------------------------------------------------------------------
(* Plausible faults, against which the properties below are tried.          *)

\* Manual rewards are not waited for.
ComputedIgnoringManual ==
    IF Count("pending") + Count("processing") > 0 THEN "fulfilling"
    ELSE IF Count("failed") > 0 THEN "failed"
    ELSE IF Count("succeeded") + Count("manual") = Cardinality(Jobs) THEN "fulfilled"
    ELSE "drawn"

\* The last await of a loop is not followed by a refresh.
SucceedUnnoticed(w) ==
    /\ Free(w[1]) /\ Phase(w) = "call" /\ Code(worker[w].job) \in redeemed
    /\ Outcome(worker[w].job, "succeeded", TRUE)
    /\ Become(w, Enter("next", worker[w].todo, 0))
    /\ UNCHANGED <<lottery, inTransit, redeemed, up, bounds>>

\* A retry that does not refuse delivered jobs.
RetryUnchecked(i, j) ==
    /\ lottery # "deleted" /\ j \in Automated /\ status[j] # "processing"
    /\ retries < MaxRetries /\ retries' = retries + 1
    /\ Begin(i, "admin", Enter("retry", {}, j))
    /\ UNCHANGED <<job, lottery, inTransit, redeemed, up, crashes>>

\* A retry that grants further attempts by subtracting from the count.
RetryCommitSubtracting(w) ==
    /\ Phase(w) = "retry"
    /\ status' = [status EXCEPT ![worker[w].job] = "pending"]
    /\ attempts' = [attempts EXCEPT ![worker[w].job] = @ - MaxAttempts]
    /\ ready' = [ready EXCEPT ![worker[w].job] = TRUE]
    /\ Rest(w)
    /\ UNCHANGED <<reward, lottery, inTransit, redeemed, up, bounds>>

\* A start that leaves the jobs of the process that died in 'processing'.
BootWithoutRecovery(i) ==
    /\ i \notin up /\ up' = up \cup {i}
    /\ UNCHANGED <<job, lottery, inTransit, redeemed, worker, bounds>>

-----------------------------------------------------------------------------
Computed ==
    IF Count("pending") + Count("processing") > 0 THEN "fulfilling"
    ELSE IF Count("failed") > 0 THEN "failed"
    ELSE IF Count("succeeded") = Cardinality(Jobs) THEN "fulfilled"
    ELSE "drawn"

-----------------------------------------------------------------------------
(* The two loops.                                                          *)

DueJobs ==
    {j \in Automated : status[j] \in {"pending", "failed"} /\ attempts[j] < MaxAttempts /\ ready[j]}

ProcessDue(i) ==
    /\ lottery # "deleted" /\ DueJobs # {}
    /\ Begin(i, "due", Enter("next", DueJobs, 0))
    /\ UNCHANGED <<job, lottery, inTransit, redeemed, up, bounds>>

\* The administrator's loop takes every job that has not succeeded.
ProcessLottery(i) ==
    /\ lottery # "deleted"
    /\ Begin(i, "lottery", Enter("next", {j \in Automated : status[j] # "succeeded"}, 0))
    /\ UNCHANGED <<job, lottery, inTransit, redeemed, up, bounds>>

\* The row a loop visits next: ORDER BY id.
AtHead(w, j) == j \in worker[w].todo /\ \A k \in worker[w].todo : j <= k

\* What #processOne checks before and in the claiming UPDATE; the loop of an
\* administrator passes ignoreSchedule.
Claimable(w, j) ==
    /\ status[j] \in {"pending", "failed"}
    /\ w[2] = "lottery" \/ (ready[j] /\ attempts[j] < MaxAttempts)

\* The claim is committed, then the redemption is sent.
Claim(w) ==
    /\ Phase(w) = "next" /\ lottery # "deleted"
    /\ \E j \in Jobs :
          /\ AtHead(w, j) /\ Claimable(w, j)
          /\ status' = [status EXCEPT ![j] = "processing"]
          /\ reward' = [reward EXCEPT ![j] = "processing"]
          /\ attempts' = [attempts EXCEPT ![j] = IF @ < MaxAttempts THEN @ + 1 ELSE @]
          /\ inTransit' = inTransit \cup {Code(j)}
          /\ Become(w, Enter("call", worker[w].todo \ {j}, j))
    /\ UNCHANGED <<ready, lottery, redeemed, up, bounds>>

\* A job that is no longer claimable is passed over; when its row is gone, #job
\* throws and ends the loop.
Skip(w) ==
    /\ Phase(w) = "next"
    /\ \E j \in Jobs :
          /\ AtHead(w, j)
          /\ \/ lottery = "deleted" /\ Rest(w)
             \/ /\ lottery # "deleted" /\ ~Claimable(w, j)
                /\ Become(w, Enter("next", worker[w].todo \ {j}, 0))
    /\ UNCHANGED <<job, lottery, inTransit, redeemed, up, bounds>>

\* processLottery ends with a refresh of its own.
Finish(w) ==
    /\ Phase(w) = "next" /\ worker[w].todo = {}
    /\ IF w[2] = "lottery" THEN Become(w, Enter("count", {}, 0)) ELSE Rest(w)
    /\ UNCHANGED <<job, lottery, inTransit, redeemed, up, bounds>>

\* createAndRedeem returns: the code is redeemed, by this call or an earlier one.
Succeed(w) ==
    /\ Free(w[1]) /\ Phase(w) = "call" /\ Code(worker[w].job) \in redeemed
    /\ Outcome(worker[w].job, "succeeded", TRUE)
    /\ Move(w, "count")
    /\ UNCHANGED <<lottery, inTransit, redeemed, up, bounds>>

\* createAndRedeem throws: refused, timed out, or the answer is lost.
Fail(w) ==
    /\ Free(w[1]) /\ Phase(w) = "call"
    /\ Outcome(worker[w].job, "failed", FALSE)
    /\ IF lottery = "deleted" THEN Rest(w) ELSE Move(w, "count")
    /\ UNCHANGED <<lottery, inTransit, redeemed, up, bounds>>

\* #refreshLotteryStatus: a SELECT of the counts, which returns early when no
\* job is left, ...
CountJobs(w) ==
    /\ Phase(w) = "count"
    /\ IF lottery = "deleted" THEN Leave(w)
       ELSE Become(w, [phase |-> "store", todo |-> worker[w].todo, job |-> worker[w].job,
                       seen |-> Computed])
    /\ UNCHANGED <<job, lottery, inTransit, redeemed, up, bounds>>

\* ... then an UPDATE of the lottery.
StoreStatus(w) ==
    /\ Phase(w) = "store"
    /\ lottery' = IF lottery = "deleted" THEN lottery ELSE worker[w].seen
    /\ Leave(w)
    /\ UNCHANGED <<job, inTransit, redeemed, up, bounds>>

-----------------------------------------------------------------------------
(* Administration.                                                         *)

\* retry reads the job, then resets it unconditionally.
Retry(i, j) ==
    /\ lottery # "deleted" /\ j \in Automated /\ status[j] = "failed"
    /\ retries < MaxRetries /\ retries' = retries + 1
    /\ Begin(i, "admin", Enter("retry", {}, j))
    /\ UNCHANGED <<job, lottery, inTransit, redeemed, up, crashes>>

RetryCommit(w) ==
    /\ Phase(w) = "retry"
    /\ IF lottery = "deleted" THEN UNCHANGED job
       ELSE /\ status' = [status EXCEPT ![worker[w].job] = "pending"]
            /\ attempts' = [attempts EXCEPT ![worker[w].job] = 0]
            /\ ready' = [ready EXCEPT ![worker[w].job] = TRUE]
            /\ UNCHANGED reward
    /\ Rest(w)
    /\ UNCHANGED <<lottery, inTransit, redeemed, up, bounds>>

CompleteManual(i, j) ==
    /\ lottery # "deleted" /\ j \in Jobs \ Automated
    /\ status' = [status EXCEPT ![j] = "succeeded"]
    /\ reward' = [reward EXCEPT ![j] = "succeeded"]
    /\ Begin(i, "admin", Enter("count", {}, j))
    /\ UNCHANGED <<attempts, ready, lottery, inTransit, redeemed, up, bounds>>

\* LotteryService.delete of a fulfilled lottery removes jobs and winners.
DeleteLottery(i) ==
    /\ Free(i) /\ lottery = "fulfilled"
    /\ lottery' = "deleted"
    /\ UNCHANGED <<job, inTransit, redeemed, worker, up, bounds>>

-----------------------------------------------------------------------------
(* The surroundings.                                                       *)

\* Upstream redeems a code once; a repeated call finds it redeemed.
UpstreamRedeems(c) ==
    /\ c \in inTransit
    /\ redeemed' = redeemed \cup {c} /\ inTransit' = inTransit \ {c}
    /\ UNCHANGED <<job, lottery, worker, up, bounds>>

UpstreamDrops(c) ==
    /\ c \in inTransit
    /\ inTransit' = inTransit \ {c}
    /\ UNCHANGED <<job, lottery, redeemed, worker, up, bounds>>

BackoffElapses(j) ==
    /\ ~ready[j]
    /\ ready' = [ready EXCEPT ![j] = TRUE]
    /\ UNCHANGED <<status, attempts, reward, lottery, inTransit, redeemed, worker, up, bounds>>

Crash(i) ==
    /\ i \in up /\ crashes < MaxCrashes
    /\ up' = up \ {i} /\ crashes' = crashes + 1
    /\ worker' = [w \in Workers |-> IF w[1] = i THEN Idle ELSE worker[w]]
    /\ UNCHANGED <<job, lottery, inTransit, redeemed, retries>>

\* start(): the jobs found in 'processing' are taken for abandoned.
Boot(i) ==
    /\ i \notin up
    /\ up' = up \cup {i}
    /\ IF lottery = "deleted" THEN UNCHANGED job
       ELSE LET found == {j \in Jobs : status[j] = "processing"}
            IN  /\ status' = [j \in Jobs |-> IF j \in found THEN "failed" ELSE status[j]]
                /\ ready' = [j \in Jobs |-> j \in found \/ ready[j]]
                /\ reward' = [j \in Jobs |-> IF status'[j] = "failed" /\ reward[j] = "processing"
                                             THEN "failed" ELSE reward[j]]
                /\ UNCHANGED attempts
    /\ UNCHANGED <<lottery, inTransit, redeemed, worker, bounds>>

\* A loop or request goes on, without awaiting anything.
Continue(w) ==
    Claim(w) \/ Skip(w) \/ Finish(w) \/ CountJobs(w) \/ StoreStatus(w) \/ RetryCommit(w)

\* The awaited call of a loop ends.
Settle(w) == Succeed(w) \/ Fail(w)

Next ==
    \/ \E w \in Workers : Continue(w) \/ Settle(w)
    \/ \E i \in Instances :
          \/ ProcessDue(i) \/ ProcessLottery(i) \/ DeleteLottery(i) \/ Crash(i) \/ Boot(i)
          \/ \E j \in Jobs : Retry(i, j) \/ CompleteManual(i, j)
    \/ \E c \in inTransit : UpstreamRedeems(c) \/ UpstreamDrops(c)
    \/ \E j \in Jobs : BackoffElapses(j)

Spec == Init /\ [][Next]_vars

\* A process runs on; every call ends because the client has a time limit; the
\* event loop serves the timer and the answers whatever else arrives; a process
\* that died is started again (restart policy of the container).
Fairness ==
    /\ \A w \in Workers : WF_vars(Continue(w)) /\ SF_vars(Settle(w))
    /\ \A i \in Instances : SF_vars(ProcessDue(i)) /\ WF_vars(Boot(i))
    /\ \A j \in Jobs : WF_vars(BackoffElapses(j))

FairSpec == Spec /\ Fairness

-----------------------------------------------------------------------------
(* Properties.                                                             *)

\* However often a job is called, timed out, reset or retried, upstream credits
\* its winner once; and a job is reported delivered only when it was credited.
CreditedOnce ==
    /\ \A c, d \in redeemed : c.winner = d.winner => c = d
    /\ \A j \in Automated : status[j] = "succeeded" => \E c \in redeemed : c.winner = j

\* A delivered reward stays delivered: no late answer, restart or retry takes it
\* back, so that upstream is not called for it again (lotteries.test.js:
\* "已成功发放的奖励不重复调用上游").
DeliveredIsFinal ==
    [][\A j \in Jobs : status[j] = "succeeded" => status'[j] = "succeeded"]_vars

\* A lottery counts as fulfilled (and may be deleted) only when every reward,
\* automatic or manual, has been delivered.
FulfilledIsComplete ==
    lottery \in {"fulfilled", "deleted"} =>
        \A j \in Jobs : status[j] = "succeeded" /\ reward[j] = "succeeded"

\* A job never stays with nobody working on it: it is delivered, or it has used
\* up its attempts and waits for an administrator.
JobsSettle ==
    \A j \in Automated :
        status[j] \in {"pending", "processing"} ~>
            \/ status[j] = "succeeded"
            \/ status[j] = "failed" /\ attempts[j] = MaxAttempts

\* Once everything is delivered the lottery becomes fulfilled, unless a process
\* died: nothing refreshes the status at start.
CompletionIsNoticed ==
    (\A j \in Jobs : status[j] = "succeeded") ~>
        lottery \in {"fulfilled", "deleted"} \/ crashes > 0
=============================================================================
