---------------------------- MODULE LotteryProofs ----------------------------
(***************************************************************************)
(* Proofs about Lottery for every set of users, keys, schedules and totals: *)
(* type correctness for any number of processes, and, for one process, the  *)
(* safety properties and the refinement of LotteryContract.                 *)
(***************************************************************************)
EXTENDS LotteryRefinement, TLAPS

\* One server process (SQLite, or PostgreSQL with a single instance).
SingleInstance == \A i, j \in Instances : i = j

\* The list: none while users register, exactly the participants once locked.
ListInv ==
    /\ RegistrationHasNoList
    /\ status \in Gone => candidates = {} /\ ~listLocked /\ ~generated
    /\ ListIsParticipants
    /\ ~generated => candidates = {} /\ ~listLocked
    /\ status \in Sealed => listLocked /\ candidates = entries /\ EnoughCandidates

\* What the run of a process still knows when it reaches a statement.  Only a
\* crash can have come in between.
RunInv(i) ==
    /\ At(i, "edit") => status \in Mutable
    /\ At(i, "delete") => status \in Deletable
    /\ At(i, "insert") => status = "active" /\ cpu[i].user \in Users
    /\ At(i, "gen_close") => status = "active"
    /\ At(i, "gen_entries") => status = "snapshot_ready"
    /\ At(i, "gen_store") => status = "snapshot_ready" /\ cpu[i].read = entries
    /\ At(i, "lock_count") =>
          status = "snapshot_ready" /\ generated /\ candidates = entries
    /\ At(i, "lock_commit") =>
          status = "snapshot_ready" /\ generated /\ candidates = entries /\ EnoughCandidates
    /\ At(i, "draw_commit") => status = "locked"

IInv == TypeOK /\ ListInv /\ OneDraw /\ \A i \in Instances : RunInv(i)

-----------------------------------------------------------------------------
(* Type correctness.                                                       *)

LEMMA RestIsRun == Rest \in Runs
  BY DEF Rest, Runs, Calls, Labels, Keys

LEMMA StartTyped ==
    ASSUME cpu \in [Instances -> Runs], NEW i \in Instances, NEW call \in Calls,
           NEW pc \in Labels \ {"insert"}, NEW k \in Keys, Start(i, call, pc, k)
    PROVE  cpu' \in [Instances -> Runs]
  <1>1. [Rest EXCEPT !.call = call, !.pc = pc, !.key = k] \in Runs
    BY DEF Rest, Runs, Calls, Labels, Keys
  <1> QED
    BY <1>1 DEF Start

LEMMA UnsetDates ==
    [starts |-> 0, ends |-> Never, autoDraw |-> Never] \in ValidSchedules
  BY LotteryAssumption DEF ValidSchedules, Never

LEMMA TypeInit == Init => TypeOK
  <1> SUFFICES ASSUME Init PROVE TypeOK
    OBVIOUS
  <1>1. cpu \in [Instances -> Runs] /\ waiting \in [Users -> Instances \cup {NoOne}]
    BY RestIsRun DEF Init
  <1>2. schedule \in ValidSchedules
    BY UnsetDates DEF Init
  <1>3. now \in 0..Horizon /\ crashes \in 0..MaxCrashes /\ planned \in Nat
    BY LotteryAssumption DEF Init
  <1>4. status \in Statuses
    BY DEF Init, Statuses, Gone
  <1> QED
    BY <1>1, <1>2, <1>3, <1>4 DEF Init, TypeOK

LEMMA TypeNext == TypeOK /\ [Next]_vars => TypeOK'
  <1> SUFFICES ASSUME TypeOK, [Next]_vars PROVE TypeOK'
    OBVIOUS
  <1> USE RestIsRun, UnsetDates, LotteryAssumption
  <1> USE DEF TypeOK, Statuses, Gone, Mutable, Rewarded, row, tables, env, Runs, Labels, Calls, Keys,
          At, Goto, Stop, Throw, Refuse, ReplayOrRefuse
  <1>1. ASSUME NEW i \in Instances, Request(i) PROVE TypeOK'
    <2>1. ASSUME NEW s \in Schedules, NEW n \in WinnerTotals, Create(i, s, n) PROVE TypeOK'
      BY <2>1 DEF Create
    <2>2. CASE StartLottery(i)
      BY <2>2 DEF StartLottery
    <2>3. CASE BeginEdit(i)
      <3>1. cpu' \in [Instances -> Runs]
        BY <2>3, StartTyped DEF BeginEdit
      <3> QED
        BY <2>3, <3>1 DEF BeginEdit
    <2>4. CASE BeginDelete(i)
      <3>1. cpu' \in [Instances -> Runs]
        BY <2>4, StartTyped DEF BeginDelete
      <3> QED
        BY <2>4, <3>1 DEF BeginDelete
    <2>5. ASSUME NEW u \in Users, Participate(i, u) PROVE TypeOK'
      BY <2>5 DEF Participate
    <2>6. ASSUME NEW u \in Users, Withdraw(i, u) PROVE TypeOK'
      BY <2>6 DEF Withdraw
    <2>7. CASE Generate(i)
      <3>1. cpu' \in [Instances -> Runs]
        BY <2>7, StartTyped DEF Generate
      <3> QED
        BY <2>7, <3>1 DEF Generate
    <2>8. CASE Lock(i)
      <3>1. cpu' \in [Instances -> Runs]
        BY <2>8, StartTyped DEF Lock
      <3> QED
        BY <2>8, <3>1 DEF Lock
    <2>9. ASSUME NEW k \in DrawKeys, DrawNow(i, k) PROVE TypeOK'
      <3>1. cpu' \in [Instances -> Runs]
        BY <2>9, StartTyped DEF DrawNow
      <3> QED
        BY <2>9, <3>1 DEF DrawNow
    <2> QED
      BY <1>1, <2>1, <2>2, <2>3, <2>4, <2>5, <2>6, <2>7, <2>8, <2>9 DEF Request
  <1>2. ASSUME NEW i \in Instances, Step(i) PROVE TypeOK'
    <2>1. ASSUME NEW s \in Schedules, NEW n \in WinnerTotals, CommitUpdate(i, s, n) PROVE TypeOK'
      BY <2>1 DEF CommitUpdate, InvalidateSnapshot
    <2>2. ASSUME NEW n \in WinnerTotals, CommitPrizes(i, n) PROVE TypeOK'
      BY <2>2 DEF CommitPrizes, InvalidateSnapshot
    <2>3. CASE EditFails(i)
      BY <2>3 DEF EditFails
    <2>4. CASE CommitDelete(i)
      <3>1. rounds' = {} /\ cpu' \in [Instances -> Runs]
        BY <2>4 DEF CommitDelete
      <3> QED
        BY <2>4, <3>1 DEF CommitDelete
    <2>5. CASE InsertEntry(i)
      <3>1. cpu' \in [Instances -> Runs] /\ waiting' \in [Users -> Instances \cup {NoOne}]
        BY <2>5 DEF InsertEntry
      <3>2. entries' \subseteq Users
        BY <2>5 DEF InsertEntry
      <3> QED
        BY <2>5, <3>1, <3>2 DEF InsertEntry
    <2>6. CASE GenRow(i)
      BY <2>6 DEF GenRow
    <2>7. CASE GenClose(i)
      BY <2>7 DEF GenClose
    <2>8. CASE GenEntries(i)
      BY <2>8 DEF GenEntries
    <2>9. CASE GenStore(i)
      <3>1. cpu' \in [Instances -> Runs]
        BY <2>9 DEF GenStore
      <3>2. generated' \in BOOLEAN
        BY <2>9, Zenon DEF GenStore
      <3>3. candidates' \subseteq Users
        BY <2>9 DEF GenStore
      <3> QED
        BY <2>9, <3>1, <3>2, <3>3 DEF GenStore
    <2>10. CASE GenAbort(i)
      BY <2>10 DEF GenAbort
    <2>11. CASE LockRow(i)
      BY <2>11 DEF LockRow
    <2>12. CASE LockCount(i)
      BY <2>12 DEF LockCount
    <2>13. CASE LockCommit(i)
      BY <2>13 DEF LockCommit
    <2>14. CASE NowRow(i)
      BY <2>14 DEF NowRow
    <2>15. CASE NowLocked(i)
      BY <2>15 DEF NowLocked
    <2>16. CASE DrawCheck(i)
      BY <2>16 DEF DrawCheck
    <2>17. CASE DrawCommit(i)
      <3>1. PICK W \in SUBSET Pool : rounds' = rounds \cup {[key |-> cpu[i].key, winners |-> W]}
        BY <2>17 DEF DrawCommit
      <3>2. W \subseteq Users /\ cpu[i].key \in Keys
        BY DEF Pool
      <3>3. rounds' \subseteq [key : Keys, winners : SUBSET Users]
        BY <3>1, <3>2
      <3> QED
        BY <2>17, <3>3 DEF DrawCommit
    <2>18. CASE DrawReplayed(i)
      BY <2>18 DEF DrawReplayed
    <2>19. CASE TransactionFails(i)
      BY <2>19 DEF TransactionFails
    <2>20. CASE Restore(i)
      <3>1. cpu' \in [Instances -> Runs]
        BY <2>20 DEF Restore
      <3>2. status' \in Statuses /\ candidates' \subseteq Users
        BY <2>20 DEF Restore
      <3>3. generated' \in BOOLEAN /\ listLocked' \in BOOLEAN
        BY <2>20, Zenon DEF Restore
      <3> QED
        BY <2>20, <3>1, <3>2, <3>3 DEF Restore
    <2>21. CASE Report(i)
      BY <2>21 DEF Report
    <2> QED
      BY <1>2, <2>1, <2>2, <2>3, <2>4, <2>5, <2>6, <2>7, <2>8, <2>9, <2>10, <2>11,
         <2>12, <2>13, <2>14, <2>15, <2>16, <2>17, <2>18, <2>19, <2>20, <2>21 DEF Step
  <1>3. ASSUME NEW i \in Instances, Answer(i) PROVE TypeOK'
    <2>1. ASSUME NEW u \in Users, AdmitParticipant(i, u) PROVE TypeOK'
      BY <2>1 DEF AdmitParticipant
    <2>2. ASSUME NEW u \in Users, EndParticipation(i, u) PROVE TypeOK'
      BY <2>2 DEF EndParticipation
    <2> QED
      BY <1>3, <2>1, <2>2 DEF Answer
  <1>4. ASSUME NEW i \in Instances, AutoDraw(i) PROVE TypeOK'
    <2>1. cpu' \in [Instances -> Runs]
      BY <1>4, StartTyped DEF AutoDraw
    <2> QED
      BY <1>4, <2>1 DEF AutoDraw
  <1>5. ASSUME NEW i \in Instances, NEW s \in Rewarded, RefreshStatus(i, s) PROVE TypeOK'
    BY <1>5 DEF RefreshStatus
  <1>6. ASSUME NEW i \in Instances, Crash(i) PROVE TypeOK'
    BY <1>6 DEF Crash
  <1>7. CASE Tick
    BY <1>7 DEF Tick
  <1>8. CASE UNCHANGED vars
    BY <1>8 DEF vars
  <1> QED
    BY <1>1, <1>2, <1>3, <1>4, <1>5, <1>6, <1>7, <1>8 DEF Next

\* Every variable keeps its type, with any number of processes and crashes.
THEOREM TypeCorrect == Spec => []TypeOK
  BY TypeInit, TypeNext, PTL DEF Spec

-----------------------------------------------------------------------------
(* Safety with one process.                                                *)

LEMMA SafetyInit == Init => ListInv /\ OneDraw /\ \A i \in Instances : RunInv(i)
  BY DEF Init, ListInv, RegistrationHasNoList, ListIsParticipants, OneDraw, RunInv, At, Rest,
         Mutable, Gone, Sealed, Rewarded

\* A process that is idle after a step knows nothing.
LEMMA IdleRuns ==
    ASSUME SingleInstance, NEW i \in Instances, cpu'[i].pc = "idle"
    PROVE  \A j \in Instances : RunInv(j)'
  BY DEF SingleInstance, RunInv, At

LEMMA StopRuns ==
    ASSUME SingleInstance, TypeOK, NEW i \in Instances, Stop(i)
    PROVE  \A j \in Instances : RunInv(j)'
  <1>1. cpu'[i].pc = "idle"
    BY DEF Stop, Rest, TypeOK
  <1> QED
    BY <1>1, IdleRuns

LEMMA SafetyNext ==
    ASSUME SingleInstance, IInv, [Next]_vars
    PROVE  ListInv' /\ OneDraw' /\ \A i \in Instances : RunInv(i)'
  <1> DEFINE Goal == ListInv' /\ OneDraw' /\ \A j \in Instances : RunInv(j)'
  <1> SUFFICES Goal
    OBVIOUS
  <1> USE DEF IInv, ListInv, RegistrationHasNoList, ListIsParticipants, EnoughCandidates,
          OneDraw, RunInv, SingleInstance
  <1> USE DEF TypeOK, Runs, Rest, Statuses, Mutable, Deletable, Gone, Sealed, Rewarded, row, tables, env,
          At, Goto, Stop, Start, Throw, Refuse, ReplayOrRefuse
  <1>1. ASSUME NEW i \in Instances, Request(i) PROVE Goal
    <2>1. ASSUME NEW s \in Schedules, NEW n \in WinnerTotals, Create(i, s, n) PROVE Goal
      BY <2>1 DEF Create
    <2>2. CASE StartLottery(i)
      BY <2>2 DEF StartLottery
    <2>3. CASE BeginEdit(i)
      BY <2>3 DEF BeginEdit
    <2>4. CASE BeginDelete(i)
      BY <2>4 DEF BeginDelete
    <2>5. ASSUME NEW u \in Users, Participate(i, u) PROVE Goal
      BY <2>5 DEF Participate
    <2>6. ASSUME NEW u \in Users, Withdraw(i, u) PROVE Goal
      BY <2>6 DEF Withdraw
    <2>7. CASE Generate(i)
      BY <2>7 DEF Generate
    <2>8. CASE Lock(i)
      BY <2>8 DEF Lock
    <2>9. ASSUME NEW k \in DrawKeys, DrawNow(i, k) PROVE Goal
      BY <2>9 DEF DrawNow
    <2> QED
      BY <1>1, <2>1, <2>2, <2>3, <2>4, <2>5, <2>6, <2>7, <2>8, <2>9 DEF Request
  <1>2. ASSUME NEW i \in Instances, Step(i) PROVE Goal
    <2>1. ASSUME NEW s \in Schedules, NEW n \in WinnerTotals, CommitUpdate(i, s, n) PROVE Goal
      BY <2>1 DEF CommitUpdate, InvalidateSnapshot
    <2>2. ASSUME NEW n \in WinnerTotals, CommitPrizes(i, n) PROVE Goal
      BY <2>2 DEF CommitPrizes, InvalidateSnapshot
    <2>3. CASE EditFails(i)
      BY <2>3 DEF EditFails
    <2>4. CASE CommitDelete(i)
      BY <2>4 DEF CommitDelete
    <2>5. CASE InsertEntry(i)
      BY <2>5 DEF InsertEntry
    <2>6. CASE GenRow(i)
      BY <2>6 DEF GenRow
    <2>7. CASE GenClose(i)
      BY <2>7 DEF GenClose
    <2>8. CASE GenEntries(i)
      BY <2>8 DEF GenEntries
    <2>9. CASE GenStore(i)
      <3>1. /\ status = "snapshot_ready" /\ status' = status /\ candidates' = entries
            /\ entries' = entries /\ rounds' = rounds /\ planned' = planned
        BY <2>9 DEF GenStore
      <3>2. generated' /\ ~listLocked'
        BY <2>9, <3>1, Zenon DEF GenStore
      <3>3. ListInv' /\ OneDraw'
        BY <3>1, <3>2
      <3>4. \A j \in Instances : RunInv(j)'
        BY <2>9, <3>1, <3>2 DEF GenStore
      <3> QED
        BY <3>3, <3>4
    <2>10. CASE GenAbort(i)
      BY <2>10 DEF GenAbort
    <2>11. CASE LockRow(i)
      BY <2>11 DEF LockRow
    <2>12. CASE LockCount(i)
      BY <2>12 DEF LockCount
    <2>13. CASE LockCommit(i)
      BY <2>13 DEF LockCommit
    <2>14. CASE NowRow(i)
      BY <2>14 DEF NowRow
    <2>15. CASE NowLocked(i)
      BY <2>15 DEF NowLocked
    <2>16. CASE DrawCheck(i)
      BY <2>16 DEF DrawCheck
    <2>17. CASE DrawCommit(i)
      <3>1. /\ status = "locked" /\ status' = "drawn" /\ candidates' = candidates
            /\ entries' = entries /\ planned' = planned /\ listLocked' = listLocked
        BY <2>17 DEF DrawCommit
      <3>2. rounds = {} /\ listLocked /\ Pool = entries
        BY <3>1 DEF Pool
      <3>3. PICK W \in SUBSET Pool :
              /\ Cardinality(W) = planned
              /\ rounds' = rounds \cup {[key |-> cpu[i].key, winners |-> W]}
        BY <2>17 DEF DrawCommit
      <3>4. OneDraw'
        BY <3>1, <3>2, <3>3 DEF OneDraw, Rewarded
      <3>5. ListInv'
        BY <2>17, <3>1, <3>2 DEF DrawCommit
      <3>6. \A j \in Instances : RunInv(j)'
        BY <2>17, StopRuns DEF DrawCommit, IInv
      <3> QED
        BY <3>4, <3>5, <3>6
    <2>18. CASE DrawReplayed(i)
      BY <2>18 DEF DrawReplayed
    <2>19. CASE TransactionFails(i)
      BY <2>19 DEF TransactionFails
    <2>20. CASE Restore(i)
      BY <2>20 DEF Restore
    <2>21. CASE Report(i)
      BY <2>21 DEF Report
    <2> QED
      BY <1>2, <2>1, <2>2, <2>3, <2>4, <2>5, <2>6, <2>7, <2>8, <2>9, <2>10, <2>11,
         <2>12, <2>13, <2>14, <2>15, <2>16, <2>17, <2>18, <2>19, <2>20, <2>21 DEF Step
  <1>3. ASSUME NEW i \in Instances, Answer(i) PROVE Goal
    <2>1. ASSUME NEW u \in Users, AdmitParticipant(i, u) PROVE Goal
      BY <2>1 DEF AdmitParticipant
    <2>2. ASSUME NEW u \in Users, EndParticipation(i, u) PROVE Goal
      BY <2>2 DEF EndParticipation
    <2> QED
      BY <1>3, <2>1, <2>2 DEF Answer
  <1>4. ASSUME NEW i \in Instances, AutoDraw(i) PROVE Goal
    BY <1>4 DEF AutoDraw
  <1>5. ASSUME NEW i \in Instances, NEW s \in Rewarded, RefreshStatus(i, s) PROVE Goal
    BY <1>5 DEF RefreshStatus
  <1>6. ASSUME NEW i \in Instances, Crash(i) PROVE Goal
    BY <1>6 DEF Crash
  <1>7. CASE Tick
    BY <1>7 DEF Tick
  <1>8. CASE UNCHANGED vars
    BY <1>8 DEF vars
  <1> QED
    BY <1>1, <1>2, <1>3, <1>4, <1>5, <1>6, <1>7, <1>8 DEF Next

THEOREM InductiveInvariant ==
    ASSUME SingleInstance
    PROVE  Spec => []IInv
  <1>1. Init => IInv
    BY TypeInit, SafetyInit DEF IInv
  <1>2. IInv /\ [Next]_vars => IInv'
    BY TypeNext, SafetyNext DEF IInv
  <1> QED
    BY <1>1, <1>2, PTL DEF Spec

\* No user who has left is on the candidate list.
THEOREM ListCorrect ==
    ASSUME SingleInstance
    PROVE  Spec => []ListIsParticipants
  <1>1. IInv => ListIsParticipants
    BY DEF IInv, ListInv
  <1> QED
    BY <1>1, InductiveInvariant, PTL

\* A lottery is drawn at most once, and then for all its prizes among its participants.
THEOREM DrawCorrect ==
    ASSUME SingleInstance
    PROVE  Spec => []OneDraw
  <1>1. IInv => OneDraw
    BY DEF IInv
  <1> QED
    BY <1>1, InductiveInvariant, PTL

\* No list survives into a registration, neither from a failed draw or list nor from an edit.
THEOREM RegistrationCorrect ==
    ASSUME SingleInstance
    PROVE  Spec => []RegistrationHasNoList
  <1>1. IInv => RegistrationHasNoList
    BY DEF IInv, ListInv
  <1> QED
    BY <1>1, InductiveInvariant, PTL

\* One key makes one round, with any number of processes: the replay and the unique
\* key of the rounds do not depend on there being one.
THEOREM KeyCorrect == Spec => []OneRoundPerKey
  <1> USE DEF OneRoundPerKey, row, tables, env
  <1>1. Init => OneRoundPerKey
    BY DEF Init
  <1>2. OneRoundPerKey /\ [Next]_vars => OneRoundPerKey'
    <2> SUFFICES ASSUME OneRoundPerKey, [Next]_vars PROVE OneRoundPerKey'
      OBVIOUS
    <2>1. ASSUME NEW i \in Instances, Request(i) PROVE rounds' = rounds
      BY <2>1 DEF Request, Create, StartLottery, BeginEdit, BeginDelete, Participate, Withdraw,
               Generate, Lock, DrawNow
    <2>2. ASSUME NEW i \in Instances, DrawCommit(i) PROVE OneRoundPerKey'
      <3>1. PICK W : rounds' = rounds \cup {[key |-> cpu[i].key, winners |-> W]}
        BY <2>2 DEF DrawCommit
      <3>2. \A r \in rounds : r.key # cpu[i].key
        BY <2>2 DEF DrawCommit, Drawn
      <3> QED
        BY <3>1, <3>2
    <2>3. ASSUME NEW i \in Instances, Step(i), ~DrawCommit(i)
          PROVE  rounds' = rounds \/ rounds' = {}
      BY <2>3 DEF Step, CommitUpdate, CommitPrizes, EditFails, CommitDelete, InsertEntry,
               GenRow, GenClose, GenEntries, GenStore, GenAbort, LockRow, LockCount, LockCommit,
               NowRow, NowLocked, DrawCheck, DrawReplayed, TransactionFails, Restore, Report
    <2>4. ASSUME NEW i \in Instances, Answer(i) PROVE rounds' = rounds
      BY <2>4 DEF Answer, AdmitParticipant, EndParticipation
    <2>5. ASSUME NEW i \in Instances, AutoDraw(i) \/ Crash(i) \/ \E s \in Rewarded : RefreshStatus(i, s)
          PROVE  rounds' = rounds
      BY <2>5 DEF AutoDraw, Crash, RefreshStatus
    <2>6. Tick \/ UNCHANGED vars => rounds' = rounds
      BY DEF Tick, vars
    <2>7. CASE rounds' = rounds \/ rounds' = {}
      BY <2>7
    <2> QED
      BY <2>1, <2>2, <2>3, <2>4, <2>5, <2>6, <2>7 DEF Next
  <1> QED
    BY <1>1, <1>2, PTL DEF Spec

-----------------------------------------------------------------------------
(* Locking is irreversible.                                                *)

\* The only steps that can change a sealed lottery: the draw, the delivery of
\* its rewards, and the deletion of a fulfilled one.
LEMMA SealedStep ==
    ASSUME SingleInstance, IInv, [Next]_vars, status \in Sealed
    PROVE  \/ UNCHANGED <<schedule, planned, entries, candidates, listLocked, status>>
           \/ StaysSealed
           \/ status = "fulfilled" /\ status' = "deleted"
  <1> DEFINE Goal == \/ UNCHANGED <<schedule, planned, entries, candidates, listLocked, status>>
                     \/ StaysSealed
                     \/ status = "fulfilled" /\ status' = "deleted"
  <1> SUFFICES Goal
    OBVIOUS
  <1> USE DEF IInv, RunInv, At, Sealed, Rewarded, Mutable, Deletable, row, tables, env
  <1>1. ASSUME NEW i \in Instances, Request(i) PROVE Goal
    BY <1>1 DEF Request, Create, StartLottery, BeginEdit, BeginDelete, Participate, Withdraw,
                Generate, Lock, DrawNow, Gone
  <1>2. ASSUME NEW i \in Instances, Step(i) PROVE Goal
    <2>1. ASSUME NEW s \in Schedules, NEW n \in WinnerTotals, CommitUpdate(i, s, n) PROVE Goal
      BY <2>1 DEF CommitUpdate
    <2>2. ASSUME NEW n \in WinnerTotals, CommitPrizes(i, n) PROVE Goal
      BY <2>2 DEF CommitPrizes
    <2>3. CASE CommitDelete(i)
      BY <2>3 DEF CommitDelete
    <2>4. CASE InsertEntry(i)
      BY <2>4 DEF InsertEntry
    <2>5. CASE GenClose(i) \/ GenStore(i) \/ GenAbort(i) \/ LockCommit(i) \/ Restore(i)
      BY <2>5 DEF GenClose, GenStore, GenAbort, LockCommit, Restore
    <2>6. CASE DrawCommit(i)
      BY <2>6 DEF DrawCommit, StaysSealed
    <2>7. CASE EditFails(i) \/ GenRow(i) \/ GenEntries(i) \/ LockRow(i) \/ LockCount(i)
               \/ NowRow(i) \/ NowLocked(i) \/ DrawCheck(i) \/ DrawReplayed(i)
               \/ TransactionFails(i) \/ Report(i)
      BY <2>7 DEF EditFails, GenRow, GenEntries, LockRow, LockCount, NowRow, NowLocked,
                  DrawCheck, DrawReplayed, TransactionFails, Report
    <2> QED
      BY <1>2, <2>1, <2>2, <2>3, <2>4, <2>5, <2>6, <2>7 DEF Step
  <1>3. ASSUME NEW i \in Instances, Answer(i) \/ AutoDraw(i) \/ Crash(i) PROVE Goal
    BY <1>3 DEF Answer, AdmitParticipant, EndParticipation, AutoDraw, Crash
  <1>4. ASSUME NEW i \in Instances, NEW s \in Rewarded, RefreshStatus(i, s) PROVE Goal
    BY <1>4 DEF RefreshStatus, StaysSealed
  <1>5. CASE Tick \/ UNCHANGED vars
    BY <1>5 DEF Tick, vars
  <1> QED
    BY <1>1, <1>2, <1>3, <1>4, <1>5 DEF Next

\* Once locked, a lottery keeps its participants, its list and its prizes, and is
\* never reopened.
THEOREM LockFinal ==
    ASSUME SingleInstance
    PROVE  Spec => LockIsIrreversible
  <1>1. IInv /\ [Next]_vars =>
          [(status \in Sealed) =>
              StaysSealed \/ (status = "fulfilled" /\ status' = "deleted")]_vars
    <2> SUFFICES ASSUME IInv, [Next]_vars, status \in Sealed
                 PROVE  StaysSealed \/ (status = "fulfilled" /\ status' = "deleted")
      OBVIOUS
    <2>1. UNCHANGED <<schedule, planned, entries, candidates, listLocked, status>> => StaysSealed
      BY DEF StaysSealed, Sealed
    <2> QED
      BY <2>1, SealedStep
  <1> QED
    BY <1>1, InductiveInvariant, PTL DEF Spec, LockIsIrreversible

-----------------------------------------------------------------------------
(* The contract.                                                           *)

LEMMA ContractInit == Init => Contract!Init
  BY DEF Init, Contract!Init, StageOf, Result

LEMMA ResultIsSet ==
    ASSUME IInv, rounds # {}
    PROVE  Result # NoResult
  <1>1. (CHOOSE r \in rounds : TRUE) \in rounds
    OBVIOUS
  <1> QED
    BY <1>1, LotteryAssumption DEF NoResult, Result, IInv, TypeOK

LEMMA ContractStutters ==
    ASSUME StageOf[status'] = StageOf[status],
           planned' = planned, entries' = entries, rounds' = rounds
    PROVE  UNCHANGED Contract!vars
  BY DEF Contract!vars, Result

LEMMA SameCardinality ==
    ASSUME NEW S PROVE Contract!Cardinality(S) = Cardinality(S)
  BY DEF Contract!Cardinality, Cardinality

\* Each statement of the code, and the step of the contract it takes.
LEMMA ContractStep ==
    ASSUME SingleInstance, IInv, IInv', [Next]_vars
    PROVE  [Contract!Next]_(Contract!vars)
  <1> DEFINE Goal == Contract!Next \/ UNCHANGED Contract!vars
  <1> SUFFICES Goal
    OBVIOUS
  <1> USE DEF IInv, At, row, tables, env
  <1>1. ASSUME NEW i \in Instances, Request(i) PROVE Goal
    <2>1. ASSUME NEW s \in Schedules, NEW n \in WinnerTotals, Create(i, s, n) PROVE Goal
      <3>1. Contract!Announce(n)
        BY <2>1 DEF Create, Contract!Announce, StageOf, Result
      <3> QED
        BY <3>1 DEF Contract!Next
    <2>2. CASE StartLottery(i)
      <3>1. Contract!Open
        BY <2>2 DEF StartLottery, Contract!Open, StageOf, Result
      <3> QED
        BY <3>1 DEF Contract!Next
    <2>3. ASSUME NEW u \in Users, Withdraw(i, u) PROVE Goal
      <3>1. Contract!Leave(u)
        BY <2>3 DEF Withdraw, Contract!Leave, StageOf, Result
      <3> QED
        BY <3>1 DEF Contract!Next
    <2>4. CASE \/ BeginEdit(i) \/ BeginDelete(i) \/ Generate(i) \/ Lock(i)
               \/ \E u \in Users : Participate(i, u)
               \/ \E k \in DrawKeys : DrawNow(i, k)
      BY <2>4, ContractStutters DEF BeginEdit, BeginDelete, Generate, Lock, Participate, DrawNow
    <2> QED
      BY <1>1, <2>1, <2>2, <2>3, <2>4 DEF Request
  <1>2. ASSUME NEW i \in Instances, Step(i) PROVE Goal
    <2>1. ASSUME NEW s \in Schedules, NEW n \in WinnerTotals, CommitUpdate(i, s, n) PROVE Goal
      <3>1. Contract!Announce(n)
        BY <2>1 DEF CommitUpdate, Contract!Announce, StageOf, Result, RunInv, Mutable
      <3> QED
        BY <3>1 DEF Contract!Next
    <2>2. ASSUME NEW n \in WinnerTotals, CommitPrizes(i, n) PROVE Goal
      <3>1. Contract!Announce(n)
        BY <2>2 DEF CommitPrizes, Contract!Announce, StageOf, Result, RunInv, Mutable
      <3> QED
        BY <3>1 DEF Contract!Next
    <2>3. CASE CommitDelete(i)
      <3>1. status \in Mutable \/ (status = "fulfilled" /\ rounds # {})
        BY <2>3 DEF CommitDelete, RunInv, Deletable, OneDraw, Rewarded
      <3>2. Contract!Remove
        BY <2>3, <3>1, ResultIsSet DEF CommitDelete, Contract!Remove, StageOf, Result, Mutable
      <3> QED
        BY <3>2 DEF Contract!Next
    <2>4. CASE InsertEntry(i)
      <3>1. status = "active" /\ cpu[i].user \in Users
        BY <2>4 DEF InsertEntry, RunInv
      <3>2. Contract!Join(cpu[i].user)
        BY <2>4, <3>1 DEF InsertEntry, Contract!Join, StageOf, Result, Gone
      <3> QED
        BY <3>1, <3>2 DEF Contract!Next
    <2>5. CASE GenClose(i)
      <3>1. Contract!Close
        BY <2>5 DEF GenClose, Contract!Close, StageOf, Result, RunInv
      <3> QED
        BY <3>1 DEF Contract!Next
    <2>6. CASE GenAbort(i) \/ Restore(i)
      <3>1. UNCHANGED <<planned, entries, rounds>>
        BY <2>6 DEF GenAbort, Restore
      <3>2. CASE status = "snapshot_ready" /\ status' = "active"
        <4>1. Contract!Reopen
          BY <3>1, <3>2 DEF Contract!Reopen, StageOf, Result
        <4> QED
          BY <4>1 DEF Contract!Next
      <3>3. CASE status' = status
        BY <3>1, <3>3, ContractStutters
      <3> QED
        BY <2>6, <3>2, <3>3 DEF GenAbort, Restore
    <2>7. CASE LockCommit(i)
      <3>1. status = "snapshot_ready" /\ candidates = entries /\ EnoughCandidates
        BY <2>7 DEF LockCommit, RunInv
      <3>2. planned > 0 /\ Cardinality(entries) >= planned
        BY <3>1 DEF EnoughCandidates
      <3>3. status' = "locked" /\ UNCHANGED <<planned, entries, rounds>>
        BY <2>7 DEF LockCommit
      <3>4. StageOf[status] = "closed" /\ StageOf[status'] = "sealed" /\ Result' = Result
        BY <3>1, <3>3 DEF StageOf, Result
      <3>5. Contract!Seal
        BY <3>2, <3>3, <3>4, SameCardinality DEF Contract!Seal
      <3> QED
        BY <3>5 DEF Contract!Next
    <2>8. CASE DrawCommit(i)
      <3>1. status = "locked" /\ rounds = {} /\ Pool = entries
        BY <2>8 DEF DrawCommit, RunInv, OneDraw, ListInv, Sealed, Rewarded, Pool
      <3>2. PICK W \in SUBSET Pool :
              /\ Cardinality(W) = planned
              /\ rounds' = rounds \cup {[key |-> cpu[i].key, winners |-> W]}
        BY <2>8 DEF DrawCommit
      <3>3. W \in SUBSET Users
        BY <3>1, <3>2 DEF TypeOK
      <3>4. Result = NoResult /\ Result' = W
        <4>1. rounds' = {[key |-> cpu[i].key, winners |-> W]}
          BY <3>1, <3>2
        <4>2. (CHOOSE r \in rounds' : TRUE) = [key |-> cpu[i].key, winners |-> W]
          BY <4>1
        <4> QED
          BY <3>1, <4>1, <4>2 DEF Result
      <3>5. StageOf[status] = "sealed" /\ StageOf[status'] = "sealed"
        BY <2>8, <3>1 DEF DrawCommit, StageOf
      <3>6. UNCHANGED <<planned, entries>>
        BY <2>8 DEF DrawCommit
      <3>7. Contract!Pick(W)
        BY <3>1, <3>2, <3>4, <3>5, <3>6, SameCardinality DEF Contract!Pick
      <3> QED
        BY <3>3, <3>7 DEF Contract!Next
    <2>9. CASE EditFails(i) \/ GenRow(i) \/ GenEntries(i) \/ GenStore(i) \/ LockRow(i)
               \/ LockCount(i) \/ NowRow(i) \/ NowLocked(i) \/ DrawCheck(i)
               \/ DrawReplayed(i) \/ TransactionFails(i) \/ Report(i)
      BY <2>9, ContractStutters DEF EditFails, GenRow, GenEntries, GenStore, LockRow, LockCount,
           NowRow, NowLocked, DrawCheck, DrawReplayed, TransactionFails, Report
    <2> QED
      BY <1>2, <2>1, <2>2, <2>3, <2>4, <2>5, <2>6, <2>7, <2>8, <2>9 DEF Step
  <1>3. ASSUME NEW i \in Instances, Answer(i) \/ AutoDraw(i) \/ Crash(i) PROVE Goal
    BY <1>3, ContractStutters DEF Answer, AdmitParticipant, EndParticipation, AutoDraw, Crash
  <1>4. ASSUME NEW i \in Instances, NEW s \in Rewarded, RefreshStatus(i, s) PROVE Goal
    <2>1. status \in Rewarded /\ status' \in Rewarded
      BY <1>4 DEF RefreshStatus, OneDraw
    <2>2. StageOf[status'] = StageOf[status]
      BY <2>1 DEF StageOf, Rewarded
    <2> QED
      BY <1>4, <2>2, ContractStutters DEF RefreshStatus
  <1>5. CASE Tick \/ UNCHANGED vars
    BY <1>5, ContractStutters DEF Tick, vars
  <1> QED
    BY <1>1, <1>2, <1>3, <1>4, <1>5 DEF Next

\* One process keeps the contract with the participants.
THEOREM Implements ==
    ASSUME SingleInstance
    PROVE  Spec => KeepsContract
  <1>1. IInv /\ IInv' /\ [Next]_vars => [Contract!Next]_(Contract!vars)
    BY ContractStep
  <1> QED
    BY <1>1, ContractInit, InductiveInvariant, PTL DEF Spec, KeepsContract, Contract!Spec
=============================================================================
