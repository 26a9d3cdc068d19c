------------------------------ MODULE Lottery ------------------------------
(***************************************************************************)
(* The life of one lottery (server/src/lotteries.js): creation, editing,   *)
(* registration, the candidate list, the draw and the scheduled draw, as   *)
(* run by one or several server instances over one database.               *)
(*                                                                         *)
(* A JavaScript process runs a handler to its next real await without      *)
(* interruption, so an instance is either idle or inside one synchronous   *)
(* run, cpu[i], whose steps are the database statements and transactions   *)
(* it commits.  Steps of two instances interleave; on one instance only a  *)
(* crash can come between two steps of a run.  The one real await is the   *)
(* upstream look-up of participate(), held in waiting[u].  (So `generating' *)
(* and `autoDrawing', set and cleared inside one synchronous run, are never *)
(* seen set by another request of the same process.)                       *)
(*                                                                         *)
(* Abstracted: what a rule says (an answer either satisfies it or not),    *)
(* the identity of prizes (only the total number of winners matters),      *)
(* names, facts and explanations stored with an entry, audit rows.         *)
(***************************************************************************)
EXTENDS Integers, FiniteSets

CONSTANTS
    Users,         \* users who may take part
    Instances,     \* server processes sharing the database
    DrawKeys,      \* Idempotency-Key values sent with manual draws
    AutoKey,       \* the key processDueAutoDraws builds from the schedule
    WinnerTotals,  \* totals of winner_count over the prizes, 0 = no prize
    Schedules,     \* the starts_at / ends_at / auto_draw_at settings in use
    Horizon,       \* bound on the clock
    MaxCrashes,    \* bound on the number of process crashes
    NoOne          \* "no user" and "no instance"

\* A date that is not set never arrives; starts_at is 0 when it is not set.
Never == Horizon + 1

\* normalizeLotteryInput: registration must open before it ends and before the draw.
ValidSchedules ==
    {s \in [starts : 0..Horizon, ends : 1..Never, autoDraw : 1..Never] :
        s.starts < s.ends /\ s.starts < s.autoDraw}

ASSUME LotteryAssumption ==
    /\ Horizon \in Nat
    /\ MaxCrashes \in Nat
    /\ WinnerTotals \subseteq Nat
    /\ Schedules \subseteq ValidSchedules
    /\ AutoKey \notin DrawKeys
    /\ NoOne \notin Users \cup Instances

VARIABLES
    status,      \* lotteries.status; "absent" before create, "deleted" after delete
    schedule,    \* starts_at, ends_at, auto_draw_at
    planned,     \* SUM(winner_count) over the prizes
    generated,   \* candidates_generated_at IS NOT NULL
    attempted,   \* auto_draw_attempted_at IS NOT NULL
    drawError,   \* auto_draw_error IS NOT NULL
    entries,     \* users with a row in lottery_entries
    candidates,  \* users with a row in candidate_snapshots
    listLocked,  \* those rows have locked_at set
    rounds,      \* draw_rounds with their winners
    now,         \* the clock
    crashes,     \* crashes so far
    cpu,         \* the synchronous run each instance is inside
    waiting      \* per user: the instance whose participate() awaits upstream

row    == <<status, schedule, planned, generated, attempted, drawError>>
tables == <<entries, candidates, listLocked, rounds>>
env    == <<now, crashes>>
vars   == <<row, tables, env, cpu, waiting>>

-----------------------------------------------------------------------------

Mutable   == {"not_started", "active"}
Deletable == Mutable \cup {"fulfilled"}
Rewarded  == {"drawn", "fulfilling", "failed", "fulfilled"}
Gone      == {"absent", "deleted"}
Statuses  == Gone \cup Mutable \cup {"snapshot_ready", "locked"} \cup Rewarded

\* start() sets published together with the status, and nothing clears it.
Published == status \notin Gone \cup {"not_started"}

\* lotteryWindowStatus(...) = 'active'
WindowActive ==
    schedule.starts <= now /\ now < schedule.ends /\ now < schedule.autoDraw

Keys     == DrawKeys \cup {AutoKey}
Drawn(k) == \E r \in rounds : r.key = k
Pool     == IF listLocked THEN candidates ELSE {}

Calls  == {"none", "generate", "lock", "drawNow", "autoDraw"}
Labels == {"idle", "edit", "delete", "insert",
           "gen_row", "gen_close", "gen_entries", "gen_store", "gen_abort",
           "lock_row", "lock_count", "lock_commit",
           "now_row", "now_locked", "draw_check", "draw_commit",
           "restore", "report"}

\* call: the operation asked for; user: whose entry is inserted; key: the draw
\* key; read: entries read for the list; began: startedActive; closed:
\* closedRegistration; inLock: generateSnapshot was called by lock().
Runs ==
    {r \in [call : Calls, pc : Labels, user : Users \cup {NoOne}, key : Keys,
            read : SUBSET Users, began : BOOLEAN, closed : BOOLEAN, inLock : BOOLEAN] :
        r.pc = "insert" => r.user \in Users}

Rest == [call |-> "none", pc |-> "idle", user |-> NoOne, key |-> AutoKey,
         read |-> {}, began |-> FALSE, closed |-> FALSE, inLock |-> FALSE]

TypeOK ==
    /\ status \in Statuses
    /\ schedule \in ValidSchedules
    /\ planned \in Nat
    /\ generated \in BOOLEAN /\ attempted \in BOOLEAN /\ drawError \in BOOLEAN
    /\ entries \subseteq Users /\ candidates \subseteq Users /\ listLocked \in BOOLEAN
    /\ rounds \subseteq [key : Keys, winners : SUBSET Users]
    /\ now \in 0..Horizon /\ crashes \in 0..MaxCrashes
    /\ cpu \in [Instances -> Runs]
    /\ waiting \in [Users -> Instances \cup {NoOne}]

Init ==
    /\ status = "absent"
    /\ schedule = [starts |-> 0, ends |-> Never, autoDraw |-> Never]
    /\ planned = 0
    /\ generated = FALSE /\ attempted = FALSE /\ drawError = FALSE
    /\ entries = {} /\ candidates = {} /\ listLocked = FALSE /\ rounds = {}
    /\ now = 0 /\ crashes = 0
    /\ cpu = [i \in Instances |-> Rest]
    /\ waiting = [u \in Users |-> NoOne]

-----------------------------------------------------------------------------
(* Moves of an instance.                                                   *)

At(i, pc)   == cpu[i].pc = pc
Goto(i, pc) == cpu' = [cpu EXCEPT ![i].pc = pc]
Stop(i)     == cpu' = [cpu EXCEPT ![i] = Rest]

Start(i, call, pc, k) ==
    /\ At(i, "idle")
    /\ cpu' = [cpu EXCEPT ![i] = [Rest EXCEPT !.call = call, !.pc = pc, !.key = k]]

\* An exception out of generateSnapshot, lock or draw: drawNow catches it,
\* the two admin calls answer with it.
Throw(i) == IF cpu[i].call \in {"drawNow", "autoDraw"} THEN Goto(i, "restore") ELSE Stop(i)

\* drawNow has failed: processDueAutoDraws persists the failure.
Refuse(i) == IF cpu[i].call = "autoDraw" THEN Goto(i, "report") ELSE Stop(i)

-----------------------------------------------------------------------------
(* Faulty variants: what an action would be with a plausible mistake in it. *)
(* No action of the specification uses them; each shows that a property     *)
(* below can fail.                                                          *)

\* deletePrize that subtracts instead of summing the remaining prizes.
CommitPrizesSubtracting(i, n) ==
    /\ At(i, "edit") /\ status \notin Gone
    /\ planned' = planned - n
    /\ Stop(i)
    /\ UNCHANGED <<status, schedule, generated, attempted, drawError, tables, env, waiting>>

\* An edit that forgets the status check.
BeginEditUnchecked(i) ==
    /\ status \notin Gone
    /\ Start(i, "none", "edit", AutoKey)
    /\ UNCHANGED <<row, tables, env, waiting>>

\* A participation that does not repeat its checks after the await.
AdmitUnchecked(i, u) ==
    /\ At(i, "idle") /\ waiting[u] = i
    /\ cpu' = [cpu EXCEPT ![i] = [Rest EXCEPT !.pc = "insert", !.user = u]]
    /\ UNCHANGED <<row, tables, env, waiting>>

\* Leaving while the list exists, without removing the candidate row.
WithdrawEntryOnly(i, u) ==
    /\ At(i, "idle") /\ waiting[u] = NoOne
    /\ status \in {"active", "snapshot_ready"} /\ u \in entries
    /\ entries' = entries \ {u}
    /\ UNCHANGED <<row, candidates, listLocked, rounds, env, cpu, waiting>>

\* One candidate fewer than winners is let through.
LockCountOffByOne(i) ==
    /\ At(i, "lock_count")
    /\ IF planned > 0 /\ Cardinality(candidates) >= planned - 1
       THEN Goto(i, "lock_commit") ELSE Throw(i)
    /\ UNCHANGED <<row, tables, env, waiting>>

\* The draw transaction without replayInside and without the unique key.
DrawCommitUnchecked(i) ==
    /\ At(i, "draw_commit") /\ status \notin Gone
    /\ \E W \in SUBSET (IF listLocked THEN candidates ELSE {}) :
          /\ Cardinality(W) = planned
          /\ rounds' = rounds \cup {[key |-> cpu[i].key, winners |-> W]}
    /\ status' = "drawn" /\ drawError' = FALSE
    /\ Stop(i)
    /\ UNCHANGED <<schedule, planned, generated, attempted,
                   entries, candidates, listLocked, env, waiting>>

\* A failed draw puts the status back and nothing else.
RestoreStatusOnly(i) ==
    /\ At(i, "restore")
    /\ status' = IF cpu[i].began /\ status = "snapshot_ready" THEN "active" ELSE status
    /\ Refuse(i)
    /\ UNCHANGED <<schedule, planned, generated, attempted, drawError, tables, env, waiting>>

\* A failed scheduled draw that is not persisted.
ReportNothing(i) ==
    /\ At(i, "report")
    /\ Stop(i)
    /\ UNCHANGED <<row, tables, env, waiting>>

-----------------------------------------------------------------------------
(* Administration.                                                         *)

Create(i, s, n) ==
    /\ At(i, "idle") /\ status = "absent" /\ n > 0
    /\ status' = "not_started" /\ schedule' = s /\ planned' = n
    /\ UNCHANGED <<generated, attempted, drawError, tables, env, cpu, waiting>>

\* start: one conditional UPDATE.
StartLottery(i) ==
    /\ At(i, "idle") /\ status = "not_started"
    /\ status' = "active"
    /\ UNCHANGED <<schedule, planned, generated, attempted, drawError, tables, env, cpu, waiting>>

\* update and the prize editors read the status, then write unconditionally.
BeginEdit(i) ==
    /\ status \in Mutable
    /\ Start(i, "none", "edit", AutoKey)
    /\ UNCHANGED <<row, tables, env, waiting>>

\* #invalidateSnapshot, which every edit performs.
InvalidateSnapshot ==
    /\ candidates' = {} /\ listLocked' = FALSE
    /\ generated' = FALSE /\ attempted' = FALSE /\ drawError' = FALSE

\* Prizes with winners cannot be replaced (winners.prize_id is RESTRICT).
CommitUpdate(i, s, n) ==
    /\ At(i, "edit") /\ status \notin Gone /\ rounds = {} /\ n > 0
    /\ schedule' = s /\ planned' = n
    /\ InvalidateSnapshot
    /\ Stop(i)
    /\ UNCHANGED <<status, entries, rounds, env, waiting>>

\* addPrize, updatePrize, deletePrize, replacePrizes.
CommitPrizes(i, n) ==
    /\ At(i, "edit") /\ status \notin Gone
    /\ planned' = n
    /\ InvalidateSnapshot
    /\ Stop(i)
    /\ UNCHANGED <<status, schedule, entries, rounds, env, waiting>>

\* The transaction fails (a vanished lottery, a referenced prize, the database).
EditFails(i) ==
    /\ At(i, "edit")
    /\ Stop(i)
    /\ UNCHANGED <<row, tables, env, waiting>>

BeginDelete(i) ==
    /\ status \in Deletable
    /\ Start(i, "none", "delete", AutoKey)
    /\ UNCHANGED <<row, tables, env, waiting>>

CommitDelete(i) ==
    /\ At(i, "delete")
    /\ status' = "deleted" /\ planned' = 0
    /\ schedule' = [starts |-> 0, ends |-> Never, autoDraw |-> Never]
    /\ generated' = FALSE /\ attempted' = FALSE /\ drawError' = FALSE
    /\ entries' = {} /\ candidates' = {} /\ listLocked' = FALSE /\ rounds' = {}
    /\ Stop(i)
    /\ UNCHANGED <<env, waiting>>

-----------------------------------------------------------------------------
(* Registration.  The entry lock of (lottery, user) is held from            *)
(* Participate to EndParticipation or InsertEntry, and during Withdraw.     *)

Participate(i, u) ==
    /\ At(i, "idle") /\ waiting[u] = NoOne
    /\ status = "active" /\ u \notin entries /\ WindowActive
    /\ waiting' = [waiting EXCEPT ![u] = i]
    /\ UNCHANGED <<row, tables, env, cpu>>

\* The upstream answer satisfies the rule and every check made before the
\* await still holds after it.
AdmitParticipant(i, u) ==
    /\ At(i, "idle") /\ waiting[u] = i
    /\ status = "active" /\ u \notin entries /\ WindowActive
    /\ cpu' = [cpu EXCEPT ![i] = [Rest EXCEPT !.pc = "insert", !.user = u]]
    /\ UNCHANGED <<row, tables, env, waiting>>

\* Upstream failed, the rule is not met, or a repeated check refuses.
EndParticipation(i, u) ==
    /\ At(i, "idle") /\ waiting[u] = i
    /\ waiting' = [waiting EXCEPT ![u] = NoOne]
    /\ UNCHANGED <<row, tables, env, cpu>>

\* INSERT ... ON CONFLICT DO NOTHING; the foreign key refuses a deleted lottery.
InsertEntry(i) ==
    /\ At(i, "insert")
    /\ entries' = IF status \in Gone THEN entries ELSE entries \cup {cpu[i].user}
    /\ waiting' = [waiting EXCEPT ![cpu[i].user] = NoOne]
    /\ Stop(i)
    /\ UNCHANGED <<row, candidates, listLocked, rounds, env>>

Withdraw(i, u) ==
    /\ At(i, "idle") /\ waiting[u] = NoOne
    /\ status = "active" /\ WindowActive /\ u \in entries
    /\ entries' = entries \ {u} /\ candidates' = candidates \ {u}
    /\ UNCHANGED <<row, listLocked, rounds, env, cpu, waiting>>

-----------------------------------------------------------------------------
(* generateSnapshot.                                                       *)

Generate(i) ==
    /\ Start(i, "generate", "gen_row", AutoKey)
    /\ UNCHANGED <<row, tables, env, waiting>>

GenRow(i) ==
    /\ At(i, "gen_row")
    /\ \/ /\ status = "active"
          /\ cpu' = [cpu EXCEPT ![i].pc = "gen_close", ![i].closed = FALSE]
       \/ /\ status = "snapshot_ready"
          /\ cpu' = [cpu EXCEPT ![i].pc = "gen_entries", ![i].closed = FALSE]
       \/ /\ status \notin {"active", "snapshot_ready"}
          /\ Throw(i)
    /\ UNCHANGED <<row, tables, env, waiting>>

\* UPDATE ... SET status = 'snapshot_ready' WHERE status = 'active'
GenClose(i) ==
    /\ At(i, "gen_close")
    /\ \/ /\ status = "active"
          /\ status' = "snapshot_ready"
          /\ cpu' = [cpu EXCEPT ![i].pc = "gen_entries", ![i].closed = TRUE]
       \/ /\ status # "active"
          /\ Goto(i, "gen_abort")
          /\ UNCHANGED status
    /\ UNCHANGED <<schedule, planned, generated, attempted, drawError, tables, env, waiting>>

GenEntries(i) ==
    /\ At(i, "gen_entries")
    /\ \/ /\ status = "snapshot_ready"
          /\ cpu' = [cpu EXCEPT ![i].pc = "gen_store", ![i].read = entries]
       \/ /\ status # "snapshot_ready"
          /\ Goto(i, "gen_abort")
    /\ UNCHANGED <<row, tables, env, waiting>>

\* The transaction that replaces the candidate rows: the rows are written
\* whatever the status, candidates_generated_at only in 'snapshot_ready'.
GenStore(i) ==
    /\ At(i, "gen_store") /\ status \notin Gone
    /\ candidates' = cpu[i].read /\ listLocked' = FALSE
    /\ generated' = (generated \/ status = "snapshot_ready")
    /\ IF cpu[i].call = "generate" THEN Stop(i)
       ELSE Goto(i, IF cpu[i].inLock THEN "lock_count" ELSE "lock_row")
    /\ UNCHANGED <<status, schedule, planned, attempted, drawError, entries, rounds, env, waiting>>

\* The catch block: a registration closed by this call is opened again.
GenAbort(i) ==
    /\ At(i, "gen_abort")
    /\ status' = IF cpu[i].closed /\ status = "snapshot_ready" /\ ~generated
                 THEN "active" ELSE status
    /\ Throw(i)
    /\ UNCHANGED <<schedule, planned, generated, attempted, drawError, tables, env, waiting>>

-----------------------------------------------------------------------------
(* lock.                                                                   *)

Lock(i) ==
    /\ Start(i, "lock", "lock_row", AutoKey)
    /\ UNCHANGED <<row, tables, env, waiting>>

LockRow(i) ==
    /\ At(i, "lock_row")
    /\ \/ /\ status = "locked"
          /\ IF cpu[i].call = "lock" THEN Stop(i) ELSE Goto(i, "now_locked")
       \/ /\ status = "snapshot_ready"
          /\ cpu' = [cpu EXCEPT ![i].pc = "gen_row", ![i].inLock = TRUE]
       \/ /\ status \notin {"locked", "snapshot_ready"}
          /\ Throw(i)
    /\ UNCHANGED <<row, tables, env, waiting>>

EnoughCandidates == planned > 0 /\ Cardinality(candidates) >= planned

LockCount(i) ==
    /\ At(i, "lock_count")
    /\ IF EnoughCandidates THEN Goto(i, "lock_commit") ELSE Throw(i)
    /\ UNCHANGED <<row, tables, env, waiting>>

\* Unconditional: whatever the status has become meanwhile.
LockCommit(i) ==
    /\ At(i, "lock_commit") /\ status \notin Gone
    /\ status' = "locked"
    /\ listLocked' = TRUE
    /\ IF cpu[i].call = "lock" THEN Stop(i) ELSE Goto(i, "now_locked")
    /\ UNCHANGED <<schedule, planned, generated, attempted, drawError,
                   entries, candidates, rounds, env, waiting>>

-----------------------------------------------------------------------------
(* drawNow and draw.                                                       *)

DrawNow(i, k) ==
    /\ Start(i, "drawNow", "now_row", k)
    /\ UNCHANGED <<row, tables, env, waiting>>

\* The end of drawNow for a lottery that is past 'locked': a replay, or refused.
ReplayOrRefuse(i) == IF Drawn(cpu[i].key) THEN Stop(i) ELSE Refuse(i)

NowRow(i) ==
    /\ At(i, "now_row")
    /\ \/ /\ status = "active"
          /\ cpu' = [cpu EXCEPT ![i].pc = "gen_row", ![i].began = TRUE]
       \/ status = "snapshot_ready" /\ Goto(i, "lock_row")
       \/ status = "locked" /\ Goto(i, "draw_check")
       \/ /\ status \notin {"active", "snapshot_ready", "locked"}
          /\ ReplayOrRefuse(i)
    /\ UNCHANGED <<row, tables, env, waiting>>

\* lottery = this.#row(id) after lock() has returned.
NowLocked(i) ==
    /\ At(i, "now_locked")
    /\ IF status = "locked" THEN Goto(i, "draw_check") ELSE ReplayOrRefuse(i)
    /\ UNCHANGED <<row, tables, env, waiting>>

DrawCheck(i) ==
    /\ At(i, "draw_check")
    /\ \/ Drawn(cpu[i].key) /\ Stop(i)
       \/ ~Drawn(cpu[i].key) /\ status = "locked" /\ Goto(i, "draw_commit")
       \/ ~Drawn(cpu[i].key) /\ status # "locked" /\ Throw(i)
    /\ UNCHANGED <<row, tables, env, waiting>>

\* The draw transaction: randomUnique over the locked list, the round, its
\* winners and their reward jobs, and the status.
DrawCommit(i) ==
    /\ At(i, "draw_commit") /\ status \notin Gone /\ ~Drawn(cpu[i].key)
    /\ \E W \in SUBSET Pool :
          /\ Cardinality(W) = planned
          /\ rounds' = rounds \cup {[key |-> cpu[i].key, winners |-> W]}
    /\ status' = "drawn" /\ drawError' = FALSE
    /\ Stop(i)
    /\ UNCHANGED <<schedule, planned, generated, attempted,
                   entries, candidates, listLocked, env, waiting>>

\* replayInside: the round exists already, nothing is written.
DrawReplayed(i) ==
    /\ At(i, "draw_commit") /\ Drawn(cpu[i].key)
    /\ Stop(i)
    /\ UNCHANGED <<row, tables, env, waiting>>

\* A transaction of the run does not commit: the database fails, the lottery
\* is gone, or randomUnique finds too few candidates.
TransactionFails(i) ==
    /\ \/ At(i, "gen_store") /\ Goto(i, "gen_abort")
       \/ At(i, "lock_commit") /\ Throw(i)
       \/ At(i, "draw_commit") /\ Throw(i)
    /\ UNCHANGED <<row, tables, env, waiting>>

\* drawNow's catch: a lottery it found active goes back to registration.
Restore(i) ==
    /\ At(i, "restore")
    /\ IF cpu[i].began /\ status = "snapshot_ready"
       THEN /\ status' = "active" /\ generated' = FALSE
            /\ candidates' = {} /\ listLocked' = FALSE
       ELSE UNCHANGED <<status, generated, candidates, listLocked>>
    /\ Refuse(i)
    /\ UNCHANGED <<schedule, planned, attempted, drawError, entries, rounds, env, waiting>>

-----------------------------------------------------------------------------
(* The scheduled draw.                                                     *)

Due ==
    /\ Published /\ schedule.autoDraw <= now /\ ~attempted
    /\ status \in {"active", "snapshot_ready", "locked"}

\* The claim of processDueAutoDraws, then drawNow with the schedule's key.
AutoDraw(i) ==
    /\ Due
    /\ attempted' = TRUE /\ drawError' = FALSE
    /\ Start(i, "autoDraw", "now_row", AutoKey)
    /\ UNCHANGED <<status, schedule, planned, generated, tables, env, waiting>>

Report(i) ==
    /\ At(i, "report")
    /\ drawError' = (status \notin Gone)
    /\ Stop(i)
    /\ UNCHANGED <<status, schedule, planned, generated, attempted, tables, env, waiting>>

-----------------------------------------------------------------------------
(* The surroundings.                                                       *)

\* OutboxService.#refreshLotteryStatus, once reward jobs exist.  Which status
\* it computes from the jobs is modelled in module Outbox.
RefreshStatus(i, s) ==
    /\ At(i, "idle") /\ \E r \in rounds : r.winners # {}
    /\ status' = s
    /\ UNCHANGED <<schedule, planned, generated, attempted, drawError, tables, env, cpu, waiting>>

\* The process dies and is started again: its runs and its locks are gone.
Crash(i) ==
    /\ crashes < MaxCrashes
    /\ crashes' = crashes + 1
    /\ Stop(i)
    /\ waiting' = [u \in Users |-> IF waiting[u] = i THEN NoOne ELSE waiting[u]]
    /\ UNCHANGED <<row, tables, now>>

Tick ==
    /\ now < Horizon
    /\ now' = now + 1
    /\ UNCHANGED <<row, tables, crashes, cpu, waiting>>

\* The next statement of the run an instance is inside.
Step(i) ==
    \/ \E s \in Schedules, n \in WinnerTotals : CommitUpdate(i, s, n)
    \/ \E n \in WinnerTotals : CommitPrizes(i, n)
    \/ EditFails(i) \/ CommitDelete(i) \/ InsertEntry(i)
    \/ GenRow(i) \/ GenClose(i) \/ GenEntries(i) \/ GenStore(i) \/ GenAbort(i)
    \/ LockRow(i) \/ LockCount(i) \/ LockCommit(i)
    \/ NowRow(i) \/ NowLocked(i) \/ DrawCheck(i) \/ DrawCommit(i) \/ DrawReplayed(i)
    \/ TransactionFails(i) \/ Restore(i) \/ Report(i)

\* Requests of administrators and users.
Request(i) ==
    \/ \E s \in Schedules, n \in WinnerTotals : Create(i, s, n)
    \/ StartLottery(i) \/ BeginEdit(i) \/ BeginDelete(i)
    \/ \E u \in Users : Participate(i, u) \/ Withdraw(i, u)
    \/ Generate(i) \/ Lock(i)
    \/ \E k \in DrawKeys : DrawNow(i, k)

\* An upstream answer to a participation.
Answer(i) == \E u \in Users : AdmitParticipant(i, u) \/ EndParticipation(i, u)

Next ==
    \/ \E i \in Instances :
          \/ Request(i) \/ Step(i) \/ Answer(i) \/ AutoDraw(i) \/ Crash(i)
          \/ \E s \in Rewarded : RefreshStatus(i, s)
    \/ Tick

Spec == Init /\ [][Next]_vars

\* A run never stops between two statements; the event loop serves an expired
\* timer however many requests compete with it.
Fairness == \A i \in Instances : WF_vars(Step(i)) /\ SF_vars(AutoDraw(i))

FairSpec == Spec /\ Fairness

-----------------------------------------------------------------------------
(* Properties.                                                             *)

\* A user who has left the lottery is not on the candidate list, whatever
\* regenerations, failed draws and reopenings happened in between (README:
\* "退出后不会进入候选名单").
ListIsParticipants == candidates \subseteq entries

\* The lottery is drawn exactly when it has a round, it never has two, and the
\* winners of the round are as many participants as the prizes plan for, also
\* after manual, repeated and scheduled draws of the same lottery (draw, drawNow).
OneDraw ==
    /\ rounds # {} <=> status \in Rewarded
    /\ \A q, r \in rounds : q = r
    /\ \A r \in rounds : r.winners \subseteq entries /\ Cardinality(r.winners) = planned

\* "Locking is the irreversible boundary" (the comment in lock): from then on the
\* participants, the list and the prizes stay as they are and the status never
\* goes back, until the finished lottery is deleted.
Sealed == {"locked"} \cup Rewarded

StaysSealed ==
    /\ status' \in Rewarded \/ (status = "locked" /\ status' = "locked")
    /\ UNCHANGED <<schedule, planned, entries, candidates, listLocked>>

LockIsIrreversible ==
    [][(status \in Sealed) =>
          StaysSealed \/ (status = "fulfilled" /\ status' = "deleted")]_vars

\* While users can register no candidate list exists, so that the guard
\* "candidates_generated_at IS NULL" of the catch block of generateSnapshot
\* is true of every registration that call has closed.
RegistrationHasNoList ==
    status \in Mutable => candidates = {} /\ ~listLocked /\ ~generated

\* A draw request repeated with its key, to the same process or another, before
\* or after the first has been answered, makes one round.
OneRoundPerKey == \A q, r \in rounds : q.key = r.key => q = r

Resolved == rounds # {} \/ drawError \/ status = "deleted" \/ schedule.autoDraw > now

\* A scheduled draw that has come due is resolved, among edits, deletions and
\* manual draws: the lottery is drawn or the failure is recorded on it, unless an
\* administrator moves the date or deletes the lottery, or the process dies.
DueDrawResolves == Due ~> Resolved \/ crashes > 0

\* No one who has left wins: README "退出后不会进入候选名单", and the comment in
\* #withdraw that it is serialised with listing, locking and drawing.
WinnersAreParticipants == \A r \in rounds : r.winners \subseteq entries
=============================================================================
