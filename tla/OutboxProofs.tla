---------------------------- MODULE OutboxProofs ----------------------------
(***************************************************************************)
(* Proofs about Outbox for every set of jobs and any bounds: what upstream *)
(* credits, for any number of processes; what a process has reported, when *)
(* a lottery counts as fulfilled and the refinement of OutboxContract, for *)
(* one process.                                                            *)
(***************************************************************************)
EXTENDS OutboxRefinement, FiniteSetTheorems, TLAPS

\* One server process (SQLite, or PostgreSQL with a single instance).
SingleInstance == \A i, j \in Instances : i = j

\* Every call made, and every credit given, carries the code of its winner, and
\* no job is marked delivered without one.
CreditInv ==
    /\ \A c \in inTransit \cup redeemed : c = Code(c.winner)
    /\ \A j \in Automated : status[j] = "succeeded" => Code(j) \in redeemed

Busy(w) == Phase(w) \notin {"idle", "call"}

\* At most one handler runs, a call in flight owns the job it has claimed, and
\* nothing touches a failed job between the two statements of retry.
LoopInv ==
    /\ \A w \in Workers : w[1] \notin up => worker[w] = Idle
    /\ \A v, w \in Workers : Busy(v) /\ Busy(w) => v = w
    /\ \A w \in Workers : worker[w].todo \subseteq Automated
    /\ \A w \in Workers : Phase(w) = "call" =>
          worker[w].job \in Automated /\ status[worker[w].job] = "processing"
    /\ \A v, w \in Workers :
          Phase(v) = "call" /\ Phase(w) = "call" /\ worker[v].job = worker[w].job => v = w
    /\ \A w \in Workers : Phase(w) = "retry" =>
          worker[w].job \in Automated /\ status[worker[w].job] = "failed"

AllDelivered == \A j \in Jobs : status[j] = "succeeded"

\* A status computed from the jobs is still true when it is stored.
FulfilledInv ==
    /\ \A j \in Jobs : status[j] = "succeeded" => reward[j] = "succeeded"
    /\ \A w \in Workers : worker[w].seen # "deleted"
    /\ \A w \in Workers : worker[w].seen = "fulfilled" => AllDelivered
    /\ lottery \in {"fulfilled", "deleted"} => AllDelivered

IInv == TypeOK /\ LoopInv /\ FulfilledInv

-----------------------------------------------------------------------------
(* Type correctness.                                                       *)

LEMMA CodeTyped == \A j \in Jobs : Code(j) \in Codes
  BY OutboxAssumption DEF Code, Codes

LEMMA ComputedTyped == Computed \in LotteryStatuses
  BY DEF Computed, LotteryStatuses

LEMMA IdleTyped == Idle \in Loops
  BY DEF Idle, Enter, Loops, Phases, LotteryStatuses

LEMMA EnterTyped ==
    ASSUME NEW phase \in Phases, NEW todo \in SUBSET Jobs, NEW j \in Jobs \cup {0}
    PROVE  Enter(phase, todo, j) \in Loops
  BY DEF Enter, Loops, LotteryStatuses

LEMMA BecomeTyped ==
    ASSUME worker \in [Workers -> Loops], NEW w \in Workers, NEW l \in Loops, Become(w, l)
    PROVE  worker' \in [Workers -> Loops]
  BY DEF Become

LEMMA BeginTyped ==
    ASSUME worker \in [Workers -> Loops], NEW i \in Instances, NEW s \in Slots,
           NEW l \in Loops, Begin(i, s, l)
    PROVE  worker' \in [Workers -> Loops]
  <1>1. <<i, s>> \in Workers
    BY DEF Workers
  <1> QED
    BY <1>1, BecomeTyped DEF Begin

LEMMA MoveTyped ==
    ASSUME worker \in [Workers -> Loops], NEW w \in Workers, NEW to \in Phases, Move(w, to)
    PROVE  worker' \in [Workers -> Loops]
  <1>1. Enter(to, worker[w].todo, worker[w].job) \in Loops
    <2>1. worker[w].todo \in SUBSET Jobs /\ worker[w].job \in Jobs \cup {0}
      BY DEF Loops
    <2> QED
      BY <2>1, EnterTyped
  <1> QED
    BY <1>1, BecomeTyped DEF Move

LEMMA LeaveTyped ==
    ASSUME worker \in [Workers -> Loops], NEW w \in Workers, Leave(w)
    PROVE  worker' \in [Workers -> Loops]
  <1>1. Enter("next", worker[w].todo, 0) \in Loops
    BY EnterTyped DEF Loops, Phases
  <1> QED
    BY <1>1, IdleTyped, BecomeTyped DEF Leave, Rest

LEMMA CountTyped ==
    ASSUME worker \in [Workers -> Loops], NEW w \in Workers
    PROVE  [phase |-> "store", todo |-> worker[w].todo, job |-> worker[w].job,
            seen |-> Computed] \in Loops
  BY ComputedTyped DEF Loops, Phases

LEMMA OutcomeTyped ==
    ASSUME TypeOK, NEW j, NEW st \in JobStatuses, NEW due \in BOOLEAN, Outcome(j, st, due)
    PROVE  /\ status' \in [Jobs -> JobStatuses] /\ reward' \in [Jobs -> JobStatuses]
           /\ attempts' \in [Jobs -> 0..MaxAttempts] /\ ready' \in [Jobs -> BOOLEAN]
  BY DEF TypeOK, Outcome, job

LEMMA TypeInit == Init => TypeOK
  BY OutboxAssumption, IdleTyped DEF Init, TypeOK, JobStatuses, LotteryStatuses

LEMMA ClaimTyped ==
    ASSUME TypeOK, NEW w \in Workers, Claim(w)
    PROVE  /\ status' \in [Jobs -> JobStatuses] /\ reward' \in [Jobs -> JobStatuses]
           /\ attempts' \in [Jobs -> 0..MaxAttempts]
           /\ inTransit' \subseteq Codes
           /\ worker' \in [Workers -> Loops]
  <1>1. PICK j \in Jobs :
          /\ status' = [status EXCEPT ![j] = "processing"]
          /\ reward' = [reward EXCEPT ![j] = "processing"]
          /\ attempts' = [attempts EXCEPT ![j] = IF @ < MaxAttempts THEN @ + 1 ELSE @]
          /\ inTransit' = inTransit \cup {Code(j)}
          /\ Become(w, Enter("call", worker[w].todo \ {j}, j))
    BY DEF Claim
  <1>2. attempts' \in [Jobs -> 0..MaxAttempts]
    BY <1>1, OutboxAssumption DEF TypeOK
  <1>3. Enter("call", worker[w].todo \ {j}, j) \in Loops
    <2>1. worker[w].todo \ {j} \in SUBSET Jobs
      BY DEF TypeOK, Loops
    <2> QED
      BY <2>1, EnterTyped DEF Phases
  <1> QED
    BY <1>1, <1>2, <1>3, BecomeTyped, CodeTyped DEF TypeOK, JobStatuses

LEMMA SkipTyped ==
    ASSUME TypeOK, NEW w \in Workers, Skip(w)
    PROVE  worker' \in [Workers -> Loops]
  <1>1. \A j \in Jobs : Enter("next", worker[w].todo \ {j}, 0) \in Loops
    <2>1. \A j \in Jobs : worker[w].todo \ {j} \in SUBSET Jobs
      BY DEF TypeOK, Loops
    <2> QED
      BY <2>1, EnterTyped DEF Phases
  <1> QED
    BY <1>1, IdleTyped, BecomeTyped DEF TypeOK, Skip, Rest

LEMMA BootTyped ==
    ASSUME TypeOK, NEW i \in Instances, Boot(i)
    PROVE  /\ status' \in [Jobs -> JobStatuses] /\ reward' \in [Jobs -> JobStatuses]
           /\ attempts' \in [Jobs -> 0..MaxAttempts] /\ ready' \in [Jobs -> BOOLEAN]
  <1>1. CASE lottery = "deleted"
    BY <1>1 DEF TypeOK, Boot, job
  <1>2. CASE lottery # "deleted"
    <2> DEFINE found == {j \in Jobs : status[j] = "processing"}
    <2>1. /\ status' = [j \in Jobs |-> IF j \in found THEN "failed" ELSE status[j]]
          /\ ready' = [j \in Jobs |-> j \in found \/ ready[j]]
          /\ reward' = [j \in Jobs |-> IF status'[j] = "failed" /\ reward[j] = "processing"
                                       THEN "failed" ELSE reward[j]]
          /\ attempts' = attempts
      BY <1>2 DEF Boot
    <2>2. \A j \in Jobs : (j \in found \/ ready[j]) \in BOOLEAN
      OBVIOUS
    <2>3. status' \in [Jobs -> JobStatuses] /\ reward' \in [Jobs -> JobStatuses]
      BY <2>1 DEF TypeOK, JobStatuses
    <2>4. ready' \in [Jobs -> BOOLEAN]
      BY <2>1, <2>2, Zenon
    <2> QED
      BY <2>1, <2>3, <2>4 DEF TypeOK
  <1> QED
    BY <1>1, <1>2

\* Every statement of every handler keeps every column in its domain.
LEMMA TypeStep == ASSUME TypeOK, [Next]_vars PROVE TypeOK' 
  <1>1. ASSUME NEW w \in Workers, Claim(w) PROVE TypeOK'
    BY <1>1, ClaimTyped DEF TypeOK, Claim, bounds
  <1>2. ASSUME NEW w \in Workers, Skip(w) PROVE TypeOK'
    BY <1>2, SkipTyped DEF TypeOK, Skip, job, bounds
  <1>3. ASSUME NEW w \in Workers, Finish(w) PROVE TypeOK'
    BY <1>3, IdleTyped, EnterTyped, BecomeTyped DEF TypeOK, Finish, Rest, Phases, job, bounds
  <1>4. ASSUME NEW w \in Workers, CountJobs(w) PROVE TypeOK'
    BY <1>4, LeaveTyped, CountTyped, BecomeTyped DEF TypeOK, CountJobs, job, bounds
  <1>5. ASSUME NEW w \in Workers, StoreStatus(w) PROVE TypeOK'
    BY <1>5, LeaveTyped DEF TypeOK, StoreStatus, Loops, job, bounds
  <1>6. ASSUME NEW w \in Workers, RetryCommit(w) PROVE TypeOK'
    <2>1. worker' \in [Workers -> Loops]
      BY <1>6, IdleTyped, BecomeTyped DEF TypeOK, RetryCommit, Rest
    <2>2. CASE lottery = "deleted"
      BY <1>6, <2>1, <2>2 DEF TypeOK, RetryCommit, job, bounds
    <2>3. CASE lottery # "deleted"
      <3>1. /\ status' = [status EXCEPT ![worker[w].job] = "pending"]
            /\ attempts' = [attempts EXCEPT ![worker[w].job] = 0]
            /\ ready' = [ready EXCEPT ![worker[w].job] = TRUE]
            /\ reward' = reward
        BY <1>6, <2>3 DEF RetryCommit
      <3>2. attempts' \in [Jobs -> 0..MaxAttempts]
        <4>1. 0 \in 0..MaxAttempts
          BY OutboxAssumption
        <4> QED
          BY <3>1, <4>1 DEF TypeOK
      <3> QED
        BY <1>6, <2>1, <3>1, <3>2 DEF TypeOK, RetryCommit, JobStatuses, bounds
    <2> QED
      BY <2>2, <2>3
  <1>7. ASSUME NEW w \in Workers, Succeed(w) PROVE TypeOK'
    BY <1>7, OutcomeTyped, MoveTyped DEF TypeOK, Succeed, JobStatuses, Phases, bounds
  <1>8. ASSUME NEW w \in Workers, Fail(w) PROVE TypeOK'
    BY <1>8, OutcomeTyped, MoveTyped, IdleTyped, BecomeTyped DEF TypeOK, Fail, Rest,
       JobStatuses, Phases, bounds
  <1>9. ASSUME NEW i \in Instances, ProcessDue(i) PROVE TypeOK'
    BY <1>9, OutboxAssumption, BeginTyped, EnterTyped DEF TypeOK, ProcessDue, DueJobs,
       Phases, Slots, job, bounds
  <1>10. ASSUME NEW i \in Instances, ProcessLottery(i) PROVE TypeOK'
    BY <1>10, OutboxAssumption, BeginTyped, EnterTyped DEF TypeOK, ProcessLottery, Phases,
       Slots, job, bounds
  <1>11. ASSUME NEW i \in Instances, DeleteLottery(i) PROVE TypeOK'
    BY <1>11 DEF TypeOK, DeleteLottery, LotteryStatuses, job, bounds
  <1>12. ASSUME NEW i \in Instances, Crash(i) PROVE TypeOK'
    BY <1>12, OutboxAssumption, IdleTyped DEF TypeOK, Crash, job
  <1>13. ASSUME NEW i \in Instances, Boot(i) PROVE TypeOK'
    BY <1>13, BootTyped DEF TypeOK, Boot, bounds
  <1>14. ASSUME NEW i \in Instances, NEW j \in Jobs, Retry(i, j) PROVE TypeOK'
    BY <1>14, OutboxAssumption, BeginTyped, EnterTyped DEF TypeOK, Retry, Phases, Slots, job
  <1>15. ASSUME NEW i \in Instances, NEW j \in Jobs, CompleteManual(i, j) PROVE TypeOK'
    BY <1>15, BeginTyped, EnterTyped DEF TypeOK, CompleteManual, JobStatuses, Phases,
       Slots, bounds
  <1>16. ASSUME NEW c \in inTransit, UpstreamRedeems(c) PROVE TypeOK'
    BY <1>16 DEF TypeOK, UpstreamRedeems, job, bounds
  <1>17. ASSUME NEW c \in inTransit, UpstreamDrops(c) PROVE TypeOK'
    BY <1>17 DEF TypeOK, UpstreamDrops, job, bounds
  <1>18. ASSUME NEW j \in Jobs, BackoffElapses(j) PROVE TypeOK'
    BY <1>18 DEF TypeOK, BackoffElapses, bounds
  <1>19. CASE UNCHANGED vars
    BY <1>19 DEF TypeOK, vars, job, bounds
  <1> QED
    BY <1>1, <1>2, <1>3, <1>4, <1>5, <1>6, <1>7, <1>8, <1>9, <1>10, <1>11, <1>12, <1>13,
       <1>14, <1>15, <1>16, <1>17, <1>18, <1>19 DEF Next, Continue, Settle


\* The types hold for any number of processes and jobs.
THEOREM TypeCorrect == Spec => []TypeOK
  BY TypeInit, TypeStep, PTL DEF Spec

-----------------------------------------------------------------------------
(* What upstream credits.                                                  *)

\* A call writes its job only, and "succeeded" only with its code redeemed.
LEMMA OutcomeCredited ==
    ASSUME TypeOK, CreditInv, NEW j \in Jobs \cup {0}, NEW st \in JobStatuses,
           NEW due \in BOOLEAN, Outcome(j, st, due),
           st = "succeeded" => Code(j) \in redeemed,
           UNCHANGED <<inTransit, redeemed>>
    PROVE  CreditInv'
  <1>1. CASE lottery = "deleted"
    BY <1>1 DEF CreditInv, Outcome, job, Code
  <1>2. CASE lottery # "deleted"
    <2>1. status' = [status EXCEPT ![j] = st]
      BY <1>2 DEF Outcome
    <2>2. \A k \in Automated : status'[k] = "succeeded" => Code(k) \in redeemed
      BY <2>1, OutboxAssumption DEF TypeOK, CreditInv
    <2> QED
      BY <2>2 DEF CreditInv, Code
  <1> QED
    BY <1>1, <1>2

\* A start and a retry make no job delivered.
LEMMA NoneDelivered ==
    ASSUME TypeOK, CreditInv, UNCHANGED <<inTransit, redeemed>>,
           \A j \in Automated : status'[j] = "succeeded" => status[j] = "succeeded"
    PROVE  CreditInv'
  BY DEF CreditInv, Code

LEMMA CreditStep == ASSUME TypeOK, CreditInv, [Next]_vars PROVE CreditInv' 
  <1>1. ASSUME NEW w \in Workers, Claim(w) PROVE CreditInv'
    BY <1>1, CodeTyped DEF TypeOK, CreditInv, Claim, job, Code
  <1>2. ASSUME NEW w \in Workers, Skip(w) PROVE CreditInv'
    BY <1>2 DEF TypeOK, CreditInv, Skip, job, Code
  <1>3. ASSUME NEW w \in Workers, Finish(w) PROVE CreditInv'
    BY <1>3 DEF TypeOK, CreditInv, Finish, job, Code
  <1>4. ASSUME NEW w \in Workers, CountJobs(w) PROVE CreditInv'
    BY <1>4 DEF TypeOK, CreditInv, CountJobs, job, Code
  <1>5. ASSUME NEW w \in Workers, StoreStatus(w) PROVE CreditInv'
    BY <1>5 DEF TypeOK, CreditInv, StoreStatus, job, Code
  <1>6. ASSUME NEW w \in Workers, RetryCommit(w) PROVE CreditInv'
    <2>1. UNCHANGED status \/ lottery # "deleted"
      BY <1>6 DEF RetryCommit, job
    <2>2. \A j \in Automated : status'[j] = "succeeded" => status[j] = "succeeded"
      BY <1>6, <2>1, OutboxAssumption DEF TypeOK, RetryCommit
    <2> QED
      BY <1>6, <2>2, NoneDelivered DEF RetryCommit
  <1>7. ASSUME NEW w \in Workers, Succeed(w) PROVE CreditInv'
    BY <1>7, OutcomeCredited DEF TypeOK, Succeed, Loops, JobStatuses
  <1>8. ASSUME NEW w \in Workers, Fail(w) PROVE CreditInv'
    BY <1>8, OutcomeCredited DEF TypeOK, Fail, Loops, JobStatuses
  <1>9. ASSUME NEW i \in Instances, ProcessDue(i) PROVE CreditInv'
    BY <1>9 DEF TypeOK, CreditInv, ProcessDue, job, Code
  <1>10. ASSUME NEW i \in Instances, ProcessLottery(i) PROVE CreditInv'
    BY <1>10 DEF TypeOK, CreditInv, ProcessLottery, job, Code
  <1>11. ASSUME NEW i \in Instances, DeleteLottery(i) PROVE CreditInv'
    BY <1>11 DEF TypeOK, CreditInv, DeleteLottery, job, Code
  <1>12. ASSUME NEW i \in Instances, Crash(i) PROVE CreditInv'
    BY <1>12 DEF TypeOK, CreditInv, Crash, job, Code
  <1>13. ASSUME NEW i \in Instances, Boot(i) PROVE CreditInv'
    <2>1. UNCHANGED status \/ lottery # "deleted"
      BY <1>13 DEF Boot, job
    <2>2. \A j \in Automated : status'[j] = "succeeded" => status[j] = "succeeded"
      BY <1>13, <2>1, OutboxAssumption DEF TypeOK, Boot
    <2> QED
      BY <1>13, <2>2, NoneDelivered DEF Boot
  <1>14. ASSUME NEW i \in Instances, NEW j \in Jobs, Retry(i, j) PROVE CreditInv'
    BY <1>14 DEF TypeOK, CreditInv, Retry, job, Code
  <1>15. ASSUME NEW i \in Instances, NEW j \in Jobs, CompleteManual(i, j) PROVE CreditInv'
    BY <1>15 DEF TypeOK, CreditInv, CompleteManual, job, Code
  <1>16. ASSUME NEW c \in inTransit, UpstreamRedeems(c) PROVE CreditInv'
    BY <1>16 DEF TypeOK, CreditInv, UpstreamRedeems, job, Code
  <1>17. ASSUME NEW c \in inTransit, UpstreamDrops(c) PROVE CreditInv'
    BY <1>17 DEF TypeOK, CreditInv, UpstreamDrops, job, Code
  <1>18. ASSUME NEW j \in Jobs, BackoffElapses(j) PROVE CreditInv'
    BY <1>18 DEF TypeOK, CreditInv, BackoffElapses, job, Code
  <1>19. CASE UNCHANGED vars
    BY <1>19 DEF TypeOK, CreditInv, vars, job, Code
  <1> QED
    BY <1>1, <1>2, <1>3, <1>4, <1>5, <1>6, <1>7, <1>8, <1>9, <1>10, <1>11, <1>12, <1>13,
       <1>14, <1>15, <1>16, <1>17, <1>18, <1>19 DEF Next, Continue, Settle


\* CreditedOnce for every interleaving of any number of processes, with any
\* number of crashes and retries: two credits of a winner are the same credit,
\* and what is reported delivered has been credited (createAndRedeem's key).
THEOREM CreditCorrect == Spec => []CreditedOnce
  <1>1. Init => CreditInv
    BY OutboxAssumption DEF Init, CreditInv
  <1>2. TypeOK /\ CreditInv => CreditedOnce
    BY OutboxAssumption DEF TypeOK, CreditInv, CreditedOnce, Code, Codes
  <1> QED
    BY <1>1, <1>2, TypeCorrect, CreditStep, PTL DEF Spec
-----------------------------------------------------------------------------
(* One process.                                                            *)

LEMMA LoopInit == Init => LoopInv
  BY DEF Init, LoopInv, Idle, Enter, Busy, Phase

LEMMA FreeMeansNoneBusy ==
    ASSUME SingleInstance, NEW i \in Instances, Free(i), NEW v \in Workers
    PROVE  ~Busy(v)
  <1>1. v = <<i, v[2]>> /\ v[2] \in Slots
    BY DEF SingleInstance, Workers
  <1> QED
    BY <1>1 DEF Free, Busy

\* A worker that moves on keeps LoopInv when it is the only busy one, owns what
\* it calls, and leaves alone what the others hold.
LEMMA LoopFrame ==
    ASSUME TypeOK, LoopInv, NEW w \in Workers, NEW l \in Loops, Become(w, l),
           UNCHANGED up, w[1] \in up \/ l = Idle,
           l.phase \notin {"idle", "call"} => \A v \in Workers : Busy(v) => v = w,
           l.todo \subseteq Automated,
           l.phase = "call" =>
               /\ l.job \in Automated /\ status'[l.job] = "processing"
               /\ \A v \in Workers : Phase(v) = "call" => worker[v].job # l.job,
           l.phase = "retry" => l.job \in Automated /\ status'[l.job] = "failed",
           \A v \in Workers : v # w /\ Phase(v) \in {"call", "retry"} =>
               status'[worker[v].job] = status[worker[v].job]
    PROVE  LoopInv'
  <1>1. worker'[w] = l /\ \A v \in Workers : v # w => worker'[v] = worker[v]
    BY DEF TypeOK, Become
  <1>2. \A v \in Workers : v[1] \notin up' => worker'[v] = Idle
    BY <1>1 DEF LoopInv
  <1>3. \A v, x \in Workers : Busy(v)' /\ Busy(x)' => v = x
    BY <1>1 DEF LoopInv, Busy, Phase
  <1>4. \A v \in Workers : worker'[v].todo \subseteq Automated
    BY <1>1 DEF LoopInv
  <1>5. \A v \in Workers : Phase(v)' = "call" =>
           worker'[v].job \in Automated /\ status'[worker'[v].job] = "processing"
    BY <1>1 DEF LoopInv, Phase
  <1>6. \A v, x \in Workers :
           Phase(v)' = "call" /\ Phase(x)' = "call" /\ worker'[v].job = worker'[x].job => v = x
    BY <1>1 DEF LoopInv, Phase
  <1>7. \A v \in Workers : Phase(v)' = "retry" =>
           worker'[v].job \in Automated /\ status'[worker'[v].job] = "failed"
    BY <1>1 DEF LoopInv, Phase
  <1> QED
    BY <1>2, <1>3, <1>4, <1>5, <1>6, <1>7 DEF LoopInv

\* The same when the step changes no job.
LEMMA LoopMoves ==
    ASSUME TypeOK, LoopInv, NEW w \in Workers, NEW l \in Loops, Become(w, l),
           UNCHANGED <<up, status>>, w[1] \in up \/ l = Idle,
           l.phase \notin {"idle", "call"} => \A v \in Workers : Busy(v) => v = w,
           l.todo \subseteq Automated, l.phase # "call",
           l.phase = "retry" => l.job \in Automated /\ status[l.job] = "failed"
    PROVE  LoopInv'
  BY LoopFrame

\* A busy worker runs in a living process and is the only busy one.
LEMMA BusyAlone ==
    ASSUME LoopInv, NEW w \in Workers, Busy(w)
    PROVE  w[1] \in up /\ \A v \in Workers : Busy(v) => v = w
  BY DEF LoopInv, Busy, Phase, Idle, Enter

LEMMA IdleFields ==
    Idle \in Loops /\ Idle.phase = "idle" /\ Idle.todo = {} /\ Idle.job = 0
  BY IdleTyped DEF Idle, Enter

LEMMA EnterFields ==
    ASSUME NEW phase, NEW todo, NEW j
    PROVE  /\ Enter(phase, todo, j).phase = phase /\ Enter(phase, todo, j).todo = todo
           /\ Enter(phase, todo, j).job = j /\ Enter(phase, todo, j).seen = "drawn"
  BY DEF Enter

\* The fields of a loop and the two ways a statement may end it.
LEMMA WorkerFields ==
    ASSUME TypeOK, NEW w \in Workers
    PROVE  worker[w].todo \in SUBSET Jobs /\ worker[w].job \in Jobs \cup {0}
  BY DEF TypeOK, Loops

LEMMA LoopLeaves ==
    ASSUME TypeOK, LoopInv, NEW w \in Workers, Busy(w), Leave(w), UNCHANGED <<up, status>>
    PROVE  LoopInv'
  <1>1. CASE Rest(w)
    BY <1>1, LoopMoves, IdleFields DEF Rest
  <1>2. CASE Become(w, Enter("next", worker[w].todo, 0))
    <2>1. Enter("next", worker[w].todo, 0) \in Loops
      BY WorkerFields, EnterTyped DEF Phases
    <2> QED
      BY <1>2, <2>1, LoopMoves, EnterFields, BusyAlone DEF LoopInv
  <1> QED
    BY <1>1, <1>2 DEF Leave

LEMMA LoopBegins ==
    ASSUME SingleInstance, TypeOK, LoopInv, NEW i \in Instances, NEW s \in Slots,
           NEW l \in Loops, Begin(i, s, l), UNCHANGED up,
           l.todo \subseteq Automated, l.phase # "call",
           l.phase = "retry" => l.job \in Automated /\ status'[l.job] = "failed",
           \A j \in Automated : status'[j] = status[j]
    PROVE  LoopInv'
  <1>1. <<i, s>> \in Workers /\ i \in up /\ Become(<<i, s>>, l)
    BY DEF Workers, Begin, Free
  <1>2. \A v \in Workers : ~Busy(v)
    BY FreeMeansNoneBusy DEF Begin
  <1>3. \A v \in Workers : Phase(v) \in {"call", "retry"} =>
           status'[worker[v].job] = status[worker[v].job]
    BY DEF LoopInv
  <1> QED
    BY <1>1, <1>2, <1>3, LoopFrame

LEMMA LoopStep ==
    ASSUME SingleInstance, TypeOK, LoopInv, [Next]_vars PROVE LoopInv'
  <1>1. ASSUME NEW w \in Workers, Claim(w) PROVE LoopInv'
    <2>1. PICK j \in Jobs :
            /\ AtHead(w, j) /\ Claimable(w, j)
            /\ status' = [status EXCEPT ![j] = "processing"]
            /\ Become(w, Enter("call", worker[w].todo \ {j}, j))
      BY <1>1 DEF Claim
    <2> DEFINE l == Enter("call", worker[w].todo \ {j}, j)
    <2>2. Busy(w)
      BY <1>1 DEF Claim, Busy
    <2>3. j \in Automated /\ worker[w].todo \ {j} \subseteq Automated
      BY <2>1 DEF LoopInv, AtHead
    <2>4. l \in Loops
      <3>1. worker[w].todo \ {j} \in SUBSET Jobs
        BY WorkerFields
      <3> QED
        BY <3>1, EnterTyped DEF Phases
    <2>5. \A v \in Workers : Phase(v) = "call" => worker[v].job # j
      BY <2>1 DEF LoopInv, Claimable
    <2>6. status'[j] = "processing" /\ \A k \in Jobs : k # j => status'[k] = status[k]
      BY <2>1 DEF TypeOK
    <2>7. \A v \in Workers : v # w /\ Phase(v) \in {"call", "retry"} =>
             status'[worker[v].job] = status[worker[v].job]
      <3>1. \A v \in Workers : v # w => Phase(v) # "retry"
        BY <2>2, BusyAlone DEF Busy
      <3> QED
        BY <2>5, <2>6, <3>1, OutboxAssumption DEF LoopInv
    <2>8. l.phase = "call" /\ l.todo \subseteq Automated /\ l.job = j
      BY <2>3, EnterFields
    <2>9. up' = up /\ w[1] \in up
      BY <1>1, <2>2, BusyAlone DEF Claim
    <2> HIDE DEF l
    <2>10. Become(w, l)
      BY <2>1 DEF l
    <2> QED
      BY <2>3, <2>4, <2>5, <2>6, <2>7, <2>8, <2>9, <2>10, LoopFrame
  <1>2. ASSUME NEW w \in Workers, Skip(w) PROVE LoopInv'
    <2>1. PICK j \in Jobs :
            Rest(w) \/ Become(w, Enter("next", worker[w].todo \ {j}, 0))
      BY <1>2 DEF Skip
    <2>2. Busy(w)
      BY <1>2 DEF Skip, Busy
    <2>3. Enter("next", worker[w].todo \ {j}, 0) \in Loops
      <3>1. worker[w].todo \ {j} \in SUBSET Jobs
        BY WorkerFields
      <3> QED
        BY <3>1, EnterTyped DEF Phases
    <2>4. worker[w].todo \ {j} \subseteq Automated
      BY DEF LoopInv
    <2>5. UNCHANGED <<up, status>>
      BY <1>2 DEF Skip, job
    <2>6. CASE Rest(w)
      BY <2>5, <2>6, LoopMoves, IdleFields DEF Rest
    <2>7. CASE Become(w, Enter("next", worker[w].todo \ {j}, 0))
      BY <2>2, <2>3, <2>4, <2>5, <2>7, LoopMoves, EnterFields, BusyAlone
    <2> QED
      BY <2>1, <2>6, <2>7
  <1>3. ASSUME NEW w \in Workers, Finish(w) PROVE LoopInv'
    <2>1. Busy(w) /\ UNCHANGED <<up, status>>
      BY <1>3 DEF Finish, Busy, job
    <2>2. CASE Rest(w)
      BY <2>1, <2>2, LoopMoves, IdleFields DEF Rest
    <2>3. CASE Become(w, Enter("count", {}, 0))
      <3>1. Enter("count", {}, 0) \in Loops
        BY EnterTyped DEF Phases
      <3> QED
        BY <2>1, <2>3, <3>1, LoopMoves, EnterFields, BusyAlone
    <2> QED
      BY <1>3, <2>2, <2>3 DEF Finish
  <1>4. ASSUME NEW w \in Workers, CountJobs(w) PROVE LoopInv'
    <2>1. Busy(w) /\ UNCHANGED <<up, status>>
      BY <1>4 DEF CountJobs, Busy, job
    <2>2. CASE Leave(w)
      BY <2>1, <2>2, LoopLeaves
    <2> DEFINE l == [phase |-> "store", todo |-> worker[w].todo, job |-> worker[w].job,
                     seen |-> Computed]
    <2>3. CASE Become(w, l)
      <3>1. l \in Loops /\ l.phase = "store" /\ l.todo = worker[w].todo
        BY CountTyped DEF TypeOK
      <3>2. worker[w].todo \subseteq Automated
        BY DEF LoopInv
      <3> HIDE DEF l
      <3> QED
        BY <2>1, <2>3, <3>1, <3>2, LoopMoves, BusyAlone
    <2> QED
      BY <1>4, <2>2, <2>3 DEF CountJobs
  <1>5. ASSUME NEW w \in Workers, StoreStatus(w) PROVE LoopInv'
    BY <1>5, LoopLeaves DEF StoreStatus, Busy, job
  <1>6. ASSUME NEW w \in Workers, RetryCommit(w) PROVE LoopInv'
    <2>1. Busy(w) /\ Become(w, Idle) /\ UNCHANGED up
      BY <1>6 DEF RetryCommit, Busy, Rest
    <2>2. status' = status \/ status' = [status EXCEPT ![worker[w].job] = "pending"]
      BY <1>6 DEF RetryCommit, job
    <2>3. worker[w].job \in Jobs /\ status[worker[w].job] = "failed"
      BY <1>6, OutboxAssumption DEF RetryCommit, LoopInv
    <2>4. \A v \in Workers : v # w /\ Phase(v) \in {"call", "retry"} =>
             status'[worker[v].job] = status[worker[v].job]
      <3>1. \A v \in Workers : v # w => Phase(v) # "retry"
        BY <2>1, BusyAlone DEF Busy
      <3>2. \A v \in Workers : Phase(v) = "call" =>
               worker[v].job \in Jobs /\ worker[v].job # worker[w].job
        BY <2>3, OutboxAssumption DEF LoopInv
      <3> QED
        BY <2>2, <3>1, <3>2 DEF TypeOK
    <2> QED
      BY <2>1, <2>4, LoopFrame, IdleFields
  <1>7. ASSUME NEW w \in Workers, Succeed(w) \/ Fail(w) PROVE LoopInv'
    <2>1. /\ Free(w[1]) /\ Phase(w) = "call" /\ w[1] \in Instances /\ w[1] \in up
          /\ UNCHANGED up
      BY <1>7 DEF Succeed, Fail, Workers, Free
    <2>2. \A v \in Workers : ~Busy(v)
      BY <2>1, FreeMeansNoneBusy
    <2>3. status' = status \/ \E st : status' = [status EXCEPT ![worker[w].job] = st]
      BY <1>7 DEF Succeed, Fail, Outcome, job
    <2>4. \A v \in Workers : v # w /\ Phase(v) \in {"call", "retry"} =>
             status'[worker[v].job] = status[worker[v].job]
      <3>1. \A v \in Workers : v # w /\ Phase(v) = "call" =>
               worker[v].job \in Jobs /\ worker[v].job # worker[w].job
        BY <2>1, OutboxAssumption DEF LoopInv
      <3> QED
        BY <2>2, <2>3, <3>1 DEF TypeOK, Busy
    <2>5. CASE Rest(w)
      BY <2>1, <2>4, <2>5, LoopFrame, IdleFields DEF Rest
    <2>6. CASE Move(w, "count")
      <3>1. Enter("count", worker[w].todo, worker[w].job) \in Loops
        BY WorkerFields, EnterTyped DEF Phases
      <3>2. worker[w].todo \subseteq Automated
        BY DEF LoopInv
      <3> QED
        BY <2>1, <2>2, <2>4, <2>6, <3>1, <3>2, LoopFrame, EnterFields DEF Move
    <2> QED
      BY <1>7, <2>5, <2>6 DEF Succeed, Fail
  <1>8. ASSUME NEW i \in Instances, ProcessDue(i) \/ ProcessLottery(i) PROVE LoopInv'
    <2>1. PICK s \in Slots, S \in SUBSET Automated : Begin(i, s, Enter("next", S, 0))
      BY <1>8 DEF ProcessDue, ProcessLottery, DueJobs, Slots
    <2>2. Enter("next", S, 0) \in Loops
      BY OutboxAssumption, EnterTyped DEF Phases
    <2>3. UNCHANGED <<up, status>>
      BY <1>8 DEF ProcessDue, ProcessLottery, job
    <2> QED
      BY <2>1, <2>2, <2>3, LoopBegins, EnterFields
  <1>9. ASSUME NEW i \in Instances, Crash(i) PROVE LoopInv'
    <2>1. \A w \in Workers : worker'[w] = worker[w] \/ worker'[w] = Idle
      BY <1>9 DEF Crash
    <2>2. UNCHANGED status
      BY <1>9 DEF Crash, job
    <2>3. \A w \in Workers : w[1] \notin up' => worker'[w] = Idle
      BY <1>9 DEF Crash, LoopInv, Workers
    <2> QED
      BY <2>1, <2>2, <2>3, IdleFields DEF LoopInv, Busy, Phase
  <1>10. ASSUME NEW i \in Instances, Boot(i) PROVE LoopInv'
    <2>1. \A w \in Workers : worker[w] = Idle
      BY <1>10 DEF Boot, LoopInv, SingleInstance, Workers
    <2>2. UNCHANGED worker
      BY <1>10 DEF Boot
    <2> QED
      BY <2>1, <2>2, IdleFields DEF LoopInv, Busy, Phase
  <1>11. ASSUME NEW i \in Instances, NEW j \in Jobs, Retry(i, j) PROVE LoopInv'
    <2>1. Enter("retry", {}, j) \in Loops
      BY EnterTyped DEF Phases
    <2> QED
      BY <1>11, <2>1, LoopBegins, EnterFields DEF Retry, job, Slots
  <1>12. ASSUME NEW i \in Instances, NEW j \in Jobs, CompleteManual(i, j) PROVE LoopInv'
    <2>1. Enter("count", {}, j) \in Loops
      BY EnterTyped DEF Phases
    <2>2. \A k \in Automated : status'[k] = status[k]
      BY <1>12, OutboxAssumption DEF TypeOK, CompleteManual
    <2> QED
      BY <1>12, <2>1, <2>2, LoopBegins, EnterFields DEF CompleteManual, Slots
  <1>13. CASE UNCHANGED <<worker, up, status>>
    BY <1>13 DEF LoopInv, Busy, Phase
  <1> QED
    BY <1>1, <1>2, <1>3, <1>4, <1>5, <1>6, <1>7, <1>8, <1>9, <1>10, <1>11, <1>12, <1>13
       DEF Next, Continue, Settle, DeleteLottery, UpstreamRedeems, UpstreamDrops,
           BackoffElapses, vars, job

-----------------------------------------------------------------------------
(* A delivered reward stays delivered, and is what "fulfilled" is made of.  *)

LEMMA DeliveredStays ==
    ASSUME TypeOK, LoopInv, [Next]_vars, NEW j \in Jobs, status[j] = "succeeded"
    PROVE  status'[j] = "succeeded"
  <1>1. ASSUME NEW w \in Workers, Claim(w) PROVE status'[j] = "succeeded"
    BY <1>1 DEF Claim, Claimable, TypeOK
  <1>2. ASSUME NEW w \in Workers, RetryCommit(w) PROVE status'[j] = "succeeded"
    <2>1. status' = status \/ status' = [status EXCEPT ![worker[w].job] = "pending"]
      BY <1>2 DEF RetryCommit, job
    <2>2. worker[w].job # j
      BY <1>2 DEF RetryCommit, LoopInv
    <2> QED
      BY <2>1, <2>2 DEF TypeOK
  <1>3. ASSUME NEW w \in Workers, Succeed(w) \/ Fail(w) PROVE status'[j] = "succeeded"
    <2>1. status' = status \/ \E st : status' = [status EXCEPT ![worker[w].job] = st]
      BY <1>3 DEF Succeed, Fail, Outcome, job
    <2>2. worker[w].job # j
      BY <1>3 DEF Succeed, Fail, LoopInv
    <2> QED
      BY <2>1, <2>2 DEF TypeOK
  <1>4. ASSUME NEW i \in Instances, Boot(i) PROVE status'[j] = "succeeded"
    <2>1. CASE lottery = "deleted"
      BY <1>4, <2>1 DEF Boot, job
    <2>2. CASE lottery # "deleted"
      BY <1>4, <2>2 DEF Boot
    <2> QED
      BY <2>1, <2>2
  <1>5. ASSUME NEW i \in Instances, NEW k \in Jobs, CompleteManual(i, k)
        PROVE  status'[j] = "succeeded"
    BY <1>5 DEF CompleteManual, TypeOK
  <1>6. CASE UNCHANGED status
    BY <1>6
  <1> QED
    BY <1>1, <1>2, <1>3, <1>4, <1>5, <1>6
       DEF Next, Continue, Settle, Skip, Finish, CountJobs, StoreStatus, ProcessDue,
           ProcessLottery, DeleteLottery, Crash, Retry, UpstreamRedeems, UpstreamDrops,
           BackoffElapses, vars, job

LEMMA ComputedFulfilled ==
    ASSUME Computed = "fulfilled"
    PROVE  AllDelivered
  <1> DEFINE S == {j \in Jobs : status[j] = "succeeded"}
  <1>1. Cardinality(S) = Cardinality(Jobs)
    BY DEF Computed, Count
  <1>2. S = Jobs
    BY <1>1, FS_Subset, OutboxAssumption
  <1> QED
    BY <1>2 DEF AllDelivered

LEMMA FulfilledInit == Init => FulfilledInv
  BY DEF Init, FulfilledInv, Idle, Enter

LEMMA SeenStep ==
    ASSUME TypeOK, [Next]_vars, NEW v \in Workers
    PROVE  worker'[v].seen \in {worker[v].seen, "drawn", Computed}
  <1>1. ASSUME NEW w \in Workers, NEW l, Become(w, l), l.seen \in {"drawn", Computed}
        PROVE  worker'[v].seen \in {worker[v].seen, "drawn", Computed}
    BY <1>1 DEF Become, TypeOK
  <1>2. Idle.seen = "drawn" /\ \A p, t, j : Enter(p, t, j).seen = "drawn"
    BY DEF Idle, Enter
  <1>3. ASSUME NEW w \in Workers, Continue(w) \/ Settle(w)
        PROVE  worker'[v].seen \in {worker[v].seen, "drawn", Computed}
    <2>1. CASE Claim(w) \/ Skip(w)
      <3>1. \/ Rest(w)
            \/ \E p, t, j : Become(w, Enter(p, t, j))
        BY <2>1 DEF Claim, Skip
      <3> QED
        BY <1>1, <1>2, <3>1 DEF Rest
    <2>2. CASE Finish(w) \/ RetryCommit(w)
      BY <1>1, <1>2, <2>2 DEF Finish, RetryCommit, Rest
    <2>3. CASE Leave(w)
      BY <1>1, <1>2, <2>3 DEF Leave, Rest
    <2>4. CASE CountJobs(w)
      <3> DEFINE l == [phase |-> "store", todo |-> worker[w].todo, job |-> worker[w].job,
                       seen |-> Computed]
      <3>1. l.seen = Computed
        OBVIOUS
      <3>2. Leave(w) \/ Become(w, l)
        BY <2>4 DEF CountJobs
      <3> HIDE DEF l
      <3> QED
        BY <1>1, <2>3, <3>1, <3>2
    <2>5. CASE StoreStatus(w)
      BY <2>3, <2>5 DEF StoreStatus
    <2>6. CASE Succeed(w) \/ Fail(w)
      BY <1>1, <1>2, <2>6 DEF Succeed, Fail, Rest, Move
    <2> QED
      BY <1>3, <2>1, <2>2, <2>4, <2>5, <2>6 DEF Continue, Settle
  <1>4. ASSUME NEW i \in Instances, NEW s \in Slots, NEW p, NEW t, NEW j,
               Begin(i, s, Enter(p, t, j))
        PROVE  worker'[v].seen \in {worker[v].seen, "drawn", Computed}
    BY <1>1, <1>2, <1>4 DEF Begin, Workers
  <1>5. ASSUME NEW i \in Instances, ProcessDue(i) \/ ProcessLottery(i)
        PROVE  worker'[v].seen \in {worker[v].seen, "drawn", Computed}
    BY <1>4, <1>5 DEF ProcessDue, ProcessLottery, Slots
  <1>6. ASSUME NEW i \in Instances, NEW j \in Jobs, Retry(i, j) \/ CompleteManual(i, j)
        PROVE  worker'[v].seen \in {worker[v].seen, "drawn", Computed}
    BY <1>4, <1>6 DEF Retry, CompleteManual, Slots
  <1>7. ASSUME NEW i \in Instances, Crash(i)
        PROVE  worker'[v].seen \in {worker[v].seen, "drawn", Computed}
    BY <1>2, <1>7 DEF Crash
  <1>8. CASE UNCHANGED worker
    BY <1>8
  <1> QED
    BY <1>3, <1>5, <1>6, <1>7, <1>8
       DEF Next, DeleteLottery, Boot, UpstreamRedeems, UpstreamDrops, BackoffElapses, vars

LEMMA LotteryStep ==
    ASSUME [Next]_vars
    PROVE  \/ lottery' = lottery
           \/ \E w \in Workers : lottery' = worker[w].seen
           \/ lottery = "fulfilled" /\ lottery' = "deleted"
  BY DEF Next, Continue, Settle, Claim, Skip, Finish, CountJobs, StoreStatus, RetryCommit,
         Succeed, Fail, ProcessDue, ProcessLottery, DeleteLottery, Crash, Boot, Retry,
         CompleteManual, UpstreamRedeems, UpstreamDrops, BackoffElapses, vars

\* The reward status of a winner agrees with a delivered job.
LEMMA RewardStep ==
    ASSUME TypeOK, [Next]_vars, NEW j \in Jobs,
           status[j] = "succeeded" => reward[j] = "succeeded",
           status'[j] = "succeeded"
    PROVE  reward'[j] = "succeeded"
  <1>1. ASSUME NEW w \in Workers, Claim(w) PROVE reward'[j] = "succeeded"
    BY <1>1 DEF Claim, TypeOK
  <1>2. ASSUME NEW w \in Workers, RetryCommit(w) PROVE reward'[j] = "succeeded"
    <2>1. \/ status' = status
          \/ status' = [status EXCEPT ![worker[w].job] = "pending"]
      BY <1>2 DEF RetryCommit, job
    <2>2. reward' = reward
      BY <1>2 DEF RetryCommit, job
    <2> QED
      BY <2>1, <2>2 DEF TypeOK
  <1>3. ASSUME NEW w \in Workers, Succeed(w) \/ Fail(w) PROVE reward'[j] = "succeeded"
    <2>1. \/ status' = status /\ reward' = reward
          \/ \E st : /\ status' = [status EXCEPT ![worker[w].job] = st]
                     /\ reward' = [reward EXCEPT ![worker[w].job] = st]
      BY <1>3 DEF Succeed, Fail, Outcome, job
    <2> QED
      BY <2>1 DEF TypeOK
  <1>4. ASSUME NEW i \in Instances, Boot(i) PROVE reward'[j] = "succeeded"
    <2>1. CASE lottery = "deleted"
      BY <1>4, <2>1 DEF Boot, job
    <2>2. CASE lottery # "deleted"
      <3>1. /\ status'[j] \in {"failed", status[j]}
            /\ reward'[j] = IF status'[j] = "failed" /\ reward[j] = "processing"
                            THEN "failed" ELSE reward[j]
        BY <1>4, <2>2 DEF Boot
      <3> QED
        BY <3>1
    <2> QED
      BY <2>1, <2>2
  <1>5. ASSUME NEW i \in Instances, NEW k \in Jobs, CompleteManual(i, k)
        PROVE  reward'[j] = "succeeded"
    BY <1>5 DEF CompleteManual, TypeOK
  <1>6. CASE UNCHANGED <<status, reward>>
    BY <1>6
  <1> QED
    BY <1>1, <1>2, <1>3, <1>4, <1>5, <1>6
       DEF Next, Continue, Settle, Skip, Finish, CountJobs, StoreStatus, ProcessDue,
           ProcessLottery, DeleteLottery, Crash, Retry, UpstreamRedeems, UpstreamDrops,
           BackoffElapses, vars, job

LEMMA FulfilledStep ==
    ASSUME TypeOK, LoopInv, FulfilledInv, [Next]_vars PROVE FulfilledInv'
  <1>1. AllDelivered => AllDelivered'
    BY DeliveredStays DEF AllDelivered
  <1>2. \A j \in Jobs : status'[j] = "succeeded" => reward'[j] = "succeeded"
    BY RewardStep DEF FulfilledInv
  <1>3. \A v \in Workers :
           worker'[v].seen # "deleted" /\ (worker'[v].seen = "fulfilled" => AllDelivered')
    BY <1>1, SeenStep, ComputedFulfilled DEF FulfilledInv, Computed
  <1>4. lottery' \in {"fulfilled", "deleted"} => AllDelivered'
    <2>1. \A w \in Workers : worker[w].seen # "deleted"
      BY DEF FulfilledInv
    <2> QED
      BY <1>1, <2>1, LotteryStep DEF FulfilledInv
  <1> QED
    BY <1>2, <1>3, <1>4 DEF FulfilledInv

-----------------------------------------------------------------------------
(* Results for one process.                                                *)

\* The strengthening the two results below rest on.
THEOREM InductiveInvariant ==
    ASSUME SingleInstance
    PROVE  Spec => []IInv
  <1>1. Init => IInv
    BY TypeInit, LoopInit, FulfilledInit DEF IInv
  <1>2. IInv /\ [Next]_vars => IInv'
    BY TypeStep, LoopStep, FulfilledStep DEF IInv
  <1> QED
    BY <1>1, <1>2, PTL DEF Spec

\* DeliveredIsFinal for one process: no late answer, restart or retry takes a
\* delivered reward back, because a call owns its job from the claim to the
\* answer and a start finds no call in flight.
THEOREM DeliveredCorrect ==
    ASSUME SingleInstance
    PROVE  Spec => DeliveredIsFinal
  <1>1. IInv /\ [Next]_vars =>
          [\A j \in Jobs : status[j] = "succeeded" => status'[j] = "succeeded"]_vars
    BY DeliveredStays DEF IInv
  <1> QED
    BY <1>1, InductiveInvariant, PTL DEF Spec, DeliveredIsFinal

\* FulfilledIsComplete for one process: a lottery that counts as fulfilled, and
\* may be deleted, owes nobody a reward.
THEOREM FulfilledCorrect ==
    ASSUME SingleInstance
    PROVE  Spec => []FulfilledIsComplete
  <1>1. IInv => FulfilledIsComplete
    BY DEF IInv, FulfilledInv, FulfilledIsComplete, AllDelivered
  <1> QED
    BY <1>1, InductiveInvariant, PTL

-----------------------------------------------------------------------------
(* One process keeps the contract.                                         *)

\* Only rewards that upstream credits are sent there, and the status a process is
\* about to store is the one its jobs have.
ContractInv ==
    /\ IInv /\ CreditInv
    /\ \A c \in inTransit : c.winner \in Automated
    /\ \A w \in Workers : Phase(w) = "store" => worker[w].seen = Computed

\* No job changes while a process has yet to store what it has counted.
LEMMA StoredIsComputed ==
    ASSUME SingleInstance, IInv, [Next]_vars,
           \A w \in Workers : Phase(w) = "store" => worker[w].seen = Computed
    PROVE  \A w \in Workers : Phase(w)' = "store" => worker'[w].seen = Computed'
  <1> DEFINE Goal == \A w \in Workers : Phase(w)' = "store" => worker'[w].seen = Computed'
  <1> USE DEF IInv
  <1>1. status' = status => Computed' = Computed
    BY DEF Computed, Count
  <1>2. ASSUME NEW w \in Workers, NEW l, Become(w, l), l.phase # "store",
               \A v \in Workers : v # w => Phase(v) # "store"
        PROVE  Goal
    BY <1>2 DEF Become, TypeOK, Phase
  <1>3. /\ Idle.phase # "store"
        /\ \A p, t, j : Enter(p, t, j).phase = p
    BY IdleFields, EnterFields
  <1>4. ASSUME NEW w \in Workers, Busy(w) PROVE \A v \in Workers : v # w => Phase(v) # "store"
    BY <1>4, BusyAlone DEF Busy
  <1>5. ASSUME NEW i \in Instances, Free(i) PROVE \A v \in Workers : Phase(v) # "store"
    BY <1>5, FreeMeansNoneBusy DEF Busy
  <1>6. ASSUME NEW w \in Workers, Claim(w) \/ Skip(w) \/ Finish(w) \/ RetryCommit(w) PROVE Goal
    <2>1. Busy(w)
      BY <1>6 DEF Claim, Skip, Finish, RetryCommit, Busy
    <2>2. \/ Rest(w)
          \/ \E p \in {"call", "next", "count"} : \E t, j : Become(w, Enter(p, t, j))
      BY <1>6 DEF Claim, Skip, Finish, RetryCommit
    <2> QED
      BY <1>2, <1>3, <1>4, <2>1, <2>2 DEF Rest
  <1>7. ASSUME NEW w \in Workers, Busy(w), Leave(w) PROVE Goal
    BY <1>2, <1>3, <1>4, <1>7 DEF Leave, Rest
  <1>8. ASSUME NEW w \in Workers, StoreStatus(w) PROVE Goal
    BY <1>7, <1>8 DEF StoreStatus, Busy
  <1>9. ASSUME NEW w \in Workers, CountJobs(w) PROVE Goal
    <2>1. Busy(w) /\ status' = status
      BY <1>9 DEF CountJobs, Busy, job
    <2> DEFINE l == [phase |-> "store", todo |-> worker[w].todo, job |-> worker[w].job,
                     seen |-> Computed]
    <2>2. CASE Become(w, l)
      <3>1. l.seen = Computed
        OBVIOUS
      <3> HIDE DEF l
      <3>2. worker'[w] = l /\ \A v \in Workers : v # w => worker'[v] = worker[v]
        BY <2>2 DEF Become, TypeOK
      <3> QED
        BY <1>1, <1>4, <2>1, <3>1, <3>2 DEF Phase
    <2> QED
      BY <1>7, <1>9, <2>1, <2>2 DEF CountJobs
  <1>10. ASSUME NEW w \in Workers, Settle(w) PROVE Goal
    <2>1. Free(w[1]) /\ w[1] \in Instances
      BY <1>10 DEF Settle, Succeed, Fail, Workers
    <2>2. Rest(w) \/ Become(w, Enter("count", worker[w].todo, worker[w].job))
      BY <1>10 DEF Settle, Succeed, Fail, Move
    <2> QED
      BY <1>2, <1>3, <1>5, <2>1, <2>2 DEF Rest
  <1>11. ASSUME NEW i \in Instances, NEW s \in Slots, NEW l, Begin(i, s, l), l.phase # "store"
         PROVE  Goal
    BY <1>2, <1>5, <1>11 DEF Begin, Workers
  <1>12. ASSUME NEW i \in Instances,
                \/ ProcessDue(i) \/ ProcessLottery(i)
                \/ \E j \in Jobs : Retry(i, j) \/ CompleteManual(i, j)
         PROVE  Goal
    BY <1>3, <1>11, <1>12 DEF ProcessDue, ProcessLottery, Retry, CompleteManual, Slots
  <1>13. ASSUME NEW i \in Instances, Crash(i) PROVE Goal
    <2>1. /\ status' = status
          /\ \A w \in Workers : worker'[w] = worker[w] \/ worker'[w] = Idle
      BY <1>13 DEF Crash, job
    <2> QED
      BY <1>1, <1>3, <2>1 DEF Phase
  <1>14. ASSUME NEW i \in Instances, Boot(i) PROVE Goal
    <2>1. \A w \in Workers : worker'[w] = Idle
      BY <1>14 DEF Boot, LoopInv, SingleInstance, Workers
    <2> QED
      BY <1>3, <2>1 DEF Phase
  <1>15. CASE UNCHANGED <<worker, status>>
    BY <1>1, <1>15 DEF Phase
  <1> QED
    BY <1>6, <1>8, <1>9, <1>10, <1>12, <1>13, <1>14, <1>15
       DEF Next, Continue, DeleteLottery, UpstreamRedeems, UpstreamDrops, BackoffElapses,
           vars, job

LEMMA SentAreAutomatic ==
    ASSUME IInv, [Next]_vars, \A c \in inTransit : c.winner \in Automated
    PROVE  \A c \in inTransit' : c.winner \in Automated
  <1>1. ASSUME NEW w \in Workers, Claim(w) PROVE \A c \in inTransit' : c.winner \in Automated
    <2>1. PICK j \in Jobs : AtHead(w, j) /\ inTransit' = inTransit \cup {Code(j)}
      BY <1>1 DEF Claim
    <2>2. j \in Automated
      BY <2>1 DEF IInv, LoopInv, AtHead
    <2> QED
      BY <2>1, <2>2 DEF Code
  <1>2. inTransit' \subseteq inTransit \/ \E w \in Workers : Claim(w)
    BY DEF Next, Continue, Settle, Skip, Finish, CountJobs, StoreStatus, RetryCommit, Succeed,
           Fail, ProcessDue, ProcessLottery, DeleteLottery, Crash, Boot, Retry, CompleteManual,
           UpstreamRedeems, UpstreamDrops, BackoffElapses, vars
  <1> QED
    BY <1>1, <1>2

\* What the refinement rests on: the invariants of credits and of loops together.
THEOREM ContractInvariant ==
    ASSUME SingleInstance
    PROVE  Spec => []ContractInv
  <1>1. Init => ContractInv
    <2> SUFFICES ASSUME Init PROVE ContractInv
      OBVIOUS
    <2>1. IInv
      BY TypeInit, LoopInit, FulfilledInit DEF IInv
    <2>2. CreditInv
      BY OutboxAssumption DEF Init, CreditInv
    <2>3. inTransit = {} /\ \A w \in Workers : Phase(w) = "idle"
      BY IdleFields DEF Init, Phase
    <2> QED
      BY <2>1, <2>2, <2>3 DEF ContractInv
  <1>2. ContractInv /\ [Next]_vars => ContractInv'
    <2> SUFFICES ASSUME ContractInv, [Next]_vars PROVE ContractInv'
      OBVIOUS
    <2>1. IInv'
      BY TypeStep, LoopStep, FulfilledStep DEF ContractInv, IInv
    <2>2. CreditInv'
      BY CreditStep DEF ContractInv, IInv
    <2>3. \A w \in Workers : Phase(w)' = "store" => worker'[w].seen = Computed'
      BY StoredIsComputed DEF ContractInv
    <2>4. \A c \in inTransit' : c.winner \in Automated
      BY SentAreAutomatic DEF ContractInv
    <2> QED
      BY <2>1, <2>2, <2>3, <2>4 DEF ContractInv, Phase
  <1> QED
    BY <1>1, <1>2, PTL DEF Spec

\* A winner is credited as often as the one code there is of a winner.
LEMMA CreditsOf ==
    ASSUME NEW R, \A c \in R : c = Code(c.winner), NEW j
    PROVE  Cardinality({c \in R : c.winner = j}) = IF Code(j) \in R THEN 1 ELSE 0
  <1>1. Code(j).winner = j
    BY DEF Code
  <1>2. CASE Code(j) \in R
    <2>1. {c \in R : c.winner = j} = {Code(j)}
      BY <1>1, <1>2
    <2> QED
      BY <1>2, <2>1, FS_Singleton
  <1>3. CASE Code(j) \notin R
    <2>1. {c \in R : c.winner = j} = {}
      BY <1>3
    <2> QED
      BY <1>3, <2>1, FS_EmptySet
  <1> QED
    BY <1>2, <1>3

\* Whoever is told of a delivery, the winner or the administrator, both are.
LEMMA DeliveredIsSucceeded ==
    ASSUME FulfilledInv PROVE Delivered = {j \in Jobs : status[j] = "succeeded"}
  BY DEF FulfilledInv, Delivered

LEMMA AllDeliveredComputed == ASSUME AllDelivered PROVE Computed = "fulfilled"
  <1>1. /\ {j \in Jobs : status[j] = "pending"} = {}
        /\ {j \in Jobs : status[j] = "processing"} = {}
        /\ {j \in Jobs : status[j] = "failed"} = {}
        /\ {j \in Jobs : status[j] = "succeeded"} = Jobs
    BY DEF AllDelivered
  <1> QED
    BY <1>1, FS_EmptySet DEF Computed, Count

\* While a reward is not delivered the lottery owes it.
LEMMA OwingUntilDelivered ==
    ASSUME IInv, NEW j \in Jobs, status[j] # "succeeded"
    PROVE  lottery \notin {"fulfilled", "deleted"} /\ StageOf[lottery] = "owing"
  <1>1. lottery \in {"drawn", "fulfilling", "failed"}
    BY DEF IInv, TypeOK, LotteryStatuses, FulfilledInv, AllDelivered
  <1> QED
    BY <1>1 DEF StageOf

LEMMA ContractInit == Init => Contract!Init
  <1> SUFFICES ASSUME Init PROVE Contract!Init
    OBVIOUS
  <1>1. Credits = [j \in Jobs |-> 0]
    <2>1. \A j \in Jobs : {c \in redeemed : c.winner = j} = {}
      BY DEF Init
    <2> QED
      BY <2>1, FS_EmptySet DEF Credits
  <1>2. Delivered = {} /\ StageOf[lottery] = "owing"
    BY DEF Init, Delivered, StageOf
  <1> QED
    BY <1>1, <1>2 DEF Contract!Init

LEMMA ContractStutters ==
    ASSUME redeemed' = redeemed, Delivered' = Delivered, StageOf[lottery'] = StageOf[lottery]
    PROVE  UNCHANGED Contract!vars
  BY DEF Contract!vars, Credits

\* A job that succeeds is a delivery, if it had not succeeded before.
LEMMA Delivers ==
    ASSUME ContractInv, ContractInv', NEW j \in Jobs, status' = [status EXCEPT ![j] = "succeeded"],
           j \in Automated => Code(j) \in redeemed, UNCHANGED <<redeemed, lottery>>
    PROVE  Contract!Deliver(j) \/ UNCHANGED Contract!vars
  <1>1. /\ Delivered = {k \in Jobs : status[k] = "succeeded"}
        /\ Delivered' = {k \in Jobs : status'[k] = "succeeded"}
    BY DeliveredIsSucceeded DEF ContractInv, IInv, FulfilledInv, Delivered
  <1>2. Delivered' = Delivered \cup {j}
    BY <1>1 DEF ContractInv, IInv, TypeOK
  <1>3. CASE status[j] = "succeeded"
    BY <1>1, <1>2, <1>3, ContractStutters
  <1>4. CASE status[j] # "succeeded"
    <2>1. StageOf[lottery] = "owing" /\ j \notin Delivered
      BY <1>1, <1>4, OwingUntilDelivered DEF ContractInv
    <2>2. j \in Automated => Credits[j] = 1
      BY CreditsOf DEF ContractInv, CreditInv, Credits
    <2>3. Credits' = Credits /\ StageOf[lottery'] = StageOf[lottery]
      BY DEF Credits
    <2> QED
      BY <1>2, <2>1, <2>2, <2>3 DEF Contract!Deliver
  <1> QED
    BY <1>3, <1>4

\* Each statement of the code, and the step of the contract it takes.
LEMMA ContractStep ==
    ASSUME ContractInv, ContractInv', [Next]_vars
    PROVE  [Contract!Next]_(Contract!vars)
  <1> DEFINE Goal == Contract!Next \/ UNCHANGED Contract!vars
  <1> SUFFICES Goal
    OBVIOUS
  <1>0. IInv /\ TypeOK /\ LoopInv /\ FulfilledInv /\ CreditInv
    BY DEF ContractInv, IInv
  <1>1. /\ Delivered = {j \in Jobs : status[j] = "succeeded"}
        /\ Delivered' = {j \in Jobs : status'[j] = "succeeded"}
    BY DeliveredIsSucceeded DEF ContractInv, IInv, FulfilledInv, Delivered
  <1>2. ASSUME NEW w \in Workers, Succeed(w) PROVE Goal
    <2>1. CASE lottery = "deleted"
      BY <1>1, <1>2, <2>1, ContractStutters DEF Succeed, Outcome, job
    <2>2. CASE lottery # "deleted"
      <3>1. /\ worker[w].job \in Automated /\ Code(worker[w].job) \in redeemed
            /\ status' = [status EXCEPT ![worker[w].job] = "succeeded"]
            /\ UNCHANGED <<redeemed, lottery>>
        BY <1>0, <1>2, <2>2 DEF Succeed, Outcome, LoopInv
      <3> QED
        BY <3>1, Delivers, OutboxAssumption DEF Contract!Next
    <2> QED
      BY <2>1, <2>2
  <1>3. ASSUME NEW i \in Instances, NEW j \in Jobs, CompleteManual(i, j) PROVE Goal
    BY <1>3, Delivers DEF CompleteManual, Contract!Next
  <1>4. ASSUME \A j \in Jobs : status'[j] = "succeeded" => status[j] = "succeeded",
               UNCHANGED <<redeemed, lottery>>
        PROVE  Goal
    <2>1. Delivered' = Delivered
      BY <1>0, <1>1, <1>4, DeliveredStays
    <2> QED
      BY <1>4, <2>1, ContractStutters
  <1>5. ASSUME NEW w \in Workers, Claim(w) \/ RetryCommit(w) \/ Fail(w) PROVE Goal
    <2>1. /\ \/ status' = status
             \/ \E j, st : st # "succeeded" /\ status' = [status EXCEPT ![j] = st]
          /\ UNCHANGED <<redeemed, lottery>>
      BY <1>5 DEF Claim, RetryCommit, Fail, Outcome, job
    <2> QED
      BY <1>0, <1>4, <2>1 DEF TypeOK
  <1>6. ASSUME NEW i \in Instances, Boot(i) PROVE Goal
    <2>1. \A j \in Jobs : status'[j] \in {status[j], "failed"}
      BY <1>6 DEF Boot, job
    <2> QED
      BY <1>4, <1>6, <2>1 DEF Boot
  <1>7. ASSUME NEW w \in Workers, StoreStatus(w) PROVE Goal
    <2>1. /\ lottery' = IF lottery = "deleted" THEN lottery ELSE Computed
          /\ UNCHANGED <<status, redeemed>>
      BY <1>7 DEF StoreStatus, ContractInv, job
    <2>2. Delivered' = Delivered
      BY <1>1, <2>1
    <2>3. CASE lottery' = lottery
      BY <2>1, <2>2, <2>3, ContractStutters
    <2>4. CASE lottery' # lottery /\ AllDelivered
      <3>1. lottery' = "fulfilled" /\ lottery \in {"drawn", "fulfilling", "failed"}
        BY <1>0, <2>1, <2>4, AllDeliveredComputed DEF TypeOK, LotteryStatuses
      <3>2. StageOf[lottery] = "owing" /\ StageOf[lottery'] = "complete"
        BY <3>1 DEF StageOf
      <3>3. Delivered = Jobs
        BY <1>1, <2>4 DEF AllDelivered
      <3>4. Contract!Complete
        BY <2>1, <2>2, <3>2, <3>3 DEF Contract!Complete, Credits
      <3> QED
        BY <3>4 DEF Contract!Next
    <2>5. CASE lottery' # lottery /\ ~AllDelivered
      <3>1. lottery \notin {"fulfilled", "deleted"} /\ Computed # "fulfilled"
        BY <1>0, <2>5, ComputedFulfilled DEF FulfilledInv
      <3>2. {lottery, lottery'} \subseteq {"drawn", "fulfilling", "failed"}
        BY <1>0, <2>1, <3>1 DEF TypeOK, LotteryStatuses, Computed
      <3>3. StageOf[lottery'] = StageOf[lottery]
        BY <3>2 DEF StageOf
      <3> QED
        BY <2>1, <2>2, <3>3, ContractStutters
    <2> QED
      BY <2>3, <2>4, <2>5
  <1>8. ASSUME NEW i \in Instances, DeleteLottery(i) PROVE Goal
    <2>1. StageOf[lottery] = "complete" /\ StageOf[lottery'] = "gone"
      BY <1>8 DEF DeleteLottery, StageOf
    <2>2. Credits' = Credits /\ Delivered' = Delivered
      BY <1>8 DEF DeleteLottery, job, Credits, Delivered
    <2> QED
      BY <2>1, <2>2 DEF Contract!Remove, Contract!Next
  <1>9. ASSUME NEW c \in inTransit, UpstreamRedeems(c) PROVE Goal
    <2>1. /\ redeemed' = redeemed \cup {c} /\ UNCHANGED <<status, lottery>>
          /\ c = Code(c.winner) /\ c.winner \in Automated
      BY <1>9 DEF UpstreamRedeems, ContractInv, CreditInv, job
    <2>2. Delivered' = Delivered /\ StageOf[lottery'] = StageOf[lottery]
      BY <1>1, <2>1
    <2>3. CASE c \in redeemed
      <3>1. redeemed' = redeemed
        BY <2>1, <2>3
      <3> QED
        BY <2>2, <3>1, ContractStutters
    <2>4. CASE c \notin redeemed
      <3> DEFINE w == c.winner
      <3>1. w \in Jobs /\ status[w] # "succeeded"
        BY <1>0, <2>1, <2>4, OutboxAssumption DEF CreditInv
      <3>2. StageOf[lottery] = "owing" /\ w \notin Delivered
        BY <1>0, <1>1, <3>1, OwingUntilDelivered
      <3>3. \A j \in Jobs : Credits[j] = IF Code(j) \in redeemed THEN 1 ELSE 0
        BY <1>0, CreditsOf DEF CreditInv, Credits
      <3>4. Credits' = [j \in Jobs |-> IF Code(j) \in redeemed' THEN 1 ELSE 0]
        <4>1. \A d \in redeemed' : d = Code(d.winner)
          BY <1>0, <2>1 DEF CreditInv
        <4>2. Credits' = [j \in Jobs |-> Cardinality({d \in redeemed' : d.winner = j})]
          BY DEF Credits
        <4>3. \A j \in Jobs : Cardinality({d \in redeemed' : d.winner = j})
                                = IF Code(j) \in redeemed' THEN 1 ELSE 0
          BY <4>1, CreditsOf
        <4> QED
          BY <4>2, <4>3
      <3>5. \A j \in Jobs : Code(j) = c <=> j = w
        BY <2>1 DEF Code
      <3>6. Credits[w] = 0
        BY <2>1, <2>4, <3>1, <3>3
      <3>7. Credits' = [Credits EXCEPT ![w] = 1]
        <4>1. Credits \in [Jobs -> {0, 1}]
          BY <3>3 DEF Credits
        <4>2. \A j \in Jobs : Credits'[j] = IF j = w THEN 1 ELSE Credits[j]
          BY <2>1, <3>1, <3>3, <3>4, <3>5
        <4>3. Credits' = [j \in Jobs |-> Credits'[j]]
          BY <3>4
        <4> QED
          BY <4>1, <4>2, <4>3
      <3>8. Contract!Credit(w)
        BY <2>2, <3>2, <3>6, <3>7 DEF Contract!Credit
      <3> QED
        BY <2>1, <3>8 DEF Contract!Next
    <2> QED
      BY <2>3, <2>4
  <1>10. CASE UNCHANGED <<status, redeemed, lottery>>
    BY <1>4, <1>10
  <1> QED
    BY <1>2, <1>3, <1>5, <1>6, <1>7, <1>8, <1>9, <1>10
       DEF Next, Continue, Settle, Skip, Finish, CountJobs, ProcessDue, ProcessLottery, Crash,
           Retry, UpstreamDrops, BackoffElapses, vars, job

\* One process keeps the contract with the winners.
THEOREM Implements ==
    ASSUME SingleInstance
    PROVE  Spec => KeepsContract
  <1>1. ContractInv /\ ContractInv' /\ [Next]_vars => [Contract!Next]_(Contract!vars)
    BY ContractStep
  <1> QED
    BY <1>1, ContractInit, ContractInvariant, PTL DEF Spec, KeepsContract, Contract!Spec
=============================================================================
