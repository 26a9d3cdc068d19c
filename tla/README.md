# TLA+ models and proofs for sub2api-extension

This directory models the server of this repository (`server/src`), and the parts of
its web front-end that keep state of their own, in TLA+, checks the models with TLC
on small instances and proves their central properties with TLAPS for every value of
the constants. It assumes the repository at hand; every definition is translated from
the code.

    tlc -workers 2 -config MCLottery.cfg MCLottery     # a run of the table below
    tlapm LotteryProofs.tla                            # the proofs of a module

## 1. The system

One Node.js process serves an HTTP API for a companion of Sub2API: lotteries,
reward delivery, group entitlements, check-ins, and the synchronisation of
upstream users and recharges. State is in SQLite, or in PostgreSQL when
`DATABASE_URL` is set; in the second case several instances may share it.

**What can interleave.** The database layer is synchronous on both back ends
(`postgres-database.js` blocks on a worker thread). Inside one process a handler
therefore runs without interruption from one *real* await to the next, and the
only real awaits are HTTP calls to Sub2API, timers and the polling of advisory
locks. Between two processes everything interleaves, statement by statement or
transaction by transaction. A crash can come after any statement. A call
upstream may time out, be lost, or take effect after its caller has given up.

| component | source | state | operations | modelled in |
|---|---|---|---|---|
| LotteryService | `lotteries.js`, `random.js` | lotteries, prizes, entries, candidate list, draw rounds | create, start, update, delete, prize edits, participate, withdraw, generateSnapshot, lock, draw, drawNow, processDueAutoDraws | `Lottery` |
| OutboxService | `outbox.js` | outbox jobs, reward status of winners, lottery status | start, processDue, processLottery, retry, completeManual | `Outbox` |
| GroupEntitlementService | `group-entitlements.js` | rules, memberships, runs, concurrency overrides | createRule, updateRule, deleteRule, revokeNow, claim, execute, runScheduledTasks | `GroupEntitlement` |
| ActivityService | `activities.js` | campaigns, check-in records, streaks | checkin, campaign edits, reward issue and retry | `Checkin`, but for the lists |
| SyncService | `sync.js` | synced users and groups, recharge events, cursors | refreshUser, run, refreshGroups, getRechargeSummary | `RechargeLedger`, `Directory` |
| rules, amounts | `rules.js`, `money.js` | none | conditionFromApi, conditionToApi, evaluateRule, decimal arithmetic | `Rules` |
| PostgreSQL bridge | `postgres-database.js`, `postgres-worker.js` | control words and bytes shared by two threads | query, transaction, close, migrate | `PostgresBridge`, `Migration`; SQL is not translated |
| rate limiter | `rate-limiter.js` | buckets per source and window | assert, cleanup | `RequestLimits` |
| request log | `request-logs.js` | aggregated counts, log rows | record, flush, cleanup | `RequestLimits`, the refused requests |
| sessions | `sessions.js`, `security.js` | session rows, tokens | create, getFromRequest, verifyCsrf, csrfTokenForSession, delete, cleanup | `Sessions`, without hashing |
| schema, transactions | `db.js`, `postgres-schema.js` | the tables, their version | migrate, transaction | `Migration`, `PostgresBridge`; constraints appear as guards |
| HTTP, upstream client | `http.js`, `sub2api-client.js`, `static.js`, `validation.js`, `errors.js` | none | dispatch, paged lists | who may pass in `Sessions`, pages in `RechargeLedger` and `Directory` |
| start, configuration | `app.js`, `index.js`, `config.js` | timers | wiring | start and crash are actions |
| web front-end | `web/src` | view state | rules that grant a group, conditions, session store; other views | `GrantsPage`, `Rules`, `Sessions`; other views not |

**Interactions.** `app.js` starts the timers of the outbox, of the scheduled
draws and of the entitlement expiry. The draw of a lottery creates the outbox
jobs; the outbox writes the lottery's status back (`#refreshLotteryStatus`) and
so decides when it may be deleted. Participation, claims and check-ins await
`SyncService.refreshUser`. Rewards, groups and concurrency limits are written by
`Sub2apiClient`, whose answers may be lost.

**What makes each part correct.**

* Lotteries: who left is not listed; a list is sealed once and only with
  participants enough for the prizes; one draw per key and per lottery; a failure
  half-way leaves a lottery that can be used; a due draw is made or its failure
  is recorded.
* Outbox: a winner is credited once whatever is retried or lost; a delivered
  reward stays delivered; a lottery counts as fulfilled when it is; no job is
  left with nobody working on it.
* Entitlements: a group that the extension granted is revoked at expiry and one
  it did not grant never is; overlapping activities restore the concurrency
  limit a user had before the first of them.
* Check-ins: one reward a day and user, streaks without gaps, no reward undecided
  with nobody deciding it.
* Synchronisation: no recharge is missed between two pages, nobody who is listed is
  deleted.
* Bridge and schema: an answer belongs to the query it is taken for, a transaction is
  what its caller was told, the schema is complete when a process serves.
* Limiter, log, sessions: a bucket in use is not dropped; counts are neither
  lost nor doubled; only a current administrator passes, and the tab that loaded the
  session last can use it.
* Conditions: the same meaning wherever and whenever they are judged.
* Administration page: what it shows of a rule is what the server does.

The hazards behind these lists are in `PROJECT.json`, each at its line.

## 2. Modules

### Lottery (`lotteries.js`)

One lottery, with its row (`status`, `schedule`, `planned`, `generated`,
`attempted`, `drawError`), its tables (`entries`, `candidates`, `listLocked`,
`rounds`), and, per process, the synchronous run it is inside (`cpu[i]`). A run
is a record with a program counter; each action is one statement or one
transaction of a handler, so that two processes interleave exactly where the
code lets them, and on one process only `Crash` can come between. The one real
await, the upstream look-up of `participate`, is `waiting[u]`.

| action | code |
|---|---|
| `Create`, `StartLottery`, `BeginEdit`/`CommitUpdate`/`CommitPrizes`/`EditFails`, `BeginDelete`/`CommitDelete` | `create`, `start`, `update` and the prize operations, `delete` |
| `Participate`, then `AdmitParticipant` or `EndParticipation`, then `InsertEntry` | `participate`: checks, await, checks again, transaction |
| `Withdraw` | `withdraw` |
| `Generate`, `GenRow`, `GenClose`, `GenEntries`, `GenStore`, `GenAbort` | `generateSnapshot`, its statements and its catch block |
| `Lock`, `LockRow`, `LockCount`, `LockCommit` | `lock` |
| `DrawNow`, `NowRow`, `NowLocked`, `DrawCheck`, `DrawCommit`, `DrawReplayed`, `Restore` | `drawNow`, `draw`, and the catch block that reopens |
| `AutoDraw`, `Report` | one row of `processDueAutoDraws` |
| `RefreshStatus` | what `Outbox` may do to the row |

Abstracted: what a rule says (an answer satisfies it or not), the identity of
prizes (only the number of winners planned matters), names, facts stored with an
entry, audit rows. The random choice is any subset of the planned size. The
in-memory flags `generating` and `autoDrawing` are set and cleared inside one
synchronous run, so another request of the process never sees them set.

`LotteryContract` says what a lottery promises without lists, statements or
processes: people join and leave while it is open, the circle is sealed once with
participants enough, one draw picks the announced number among them, nothing that
is being decided is removed. `LotteryRefinement` holds the mapping (`StageOf`,
`Result`) and `KeepsContract`.

### Outbox (`outbox.js`)

The jobs of one drawn lottery, the loops of the timer and of an administrator in
each process, and upstream as a set of codes in transit and a set of codes
redeemed. `Claim` is the conditional UPDATE followed by the call; `Succeed` and
`Fail` are its two outcomes; upstream takes effect in between, later, or never
(`UpstreamRedeems`, `UpstreamDrops`), whether or not the caller still waits.
`CountJobs` and `StoreStatus` are the two statements of `#refreshLotteryStatus`.
`Crash` loses the loops, `Boot` is `start()` with its recovery of jobs in
`processing`. `Retry`/`RetryCommit`, `CompleteManual` and `DeleteLottery` are the
administrator's.

Abstracted: time (a job is past `next_attempt_at` or not), payloads but for the
code, error texts, audit rows, the LIMIT 20 of a batch. At most one loop of an
administrator runs per process at a time. Deleting the lottery is one step here;
its two are in `Lottery`.

`OutboxContract` says what the winners are promised without jobs, attempts, loops or
answers: a reward is credited once at most and before anybody is told of it, what is
delivered stays so, and a lottery is completed, and then removed, when nothing is owed.
`OutboxRefinement` holds the mapping: `Credits` counts the redemptions of upstream whatever
their codes, `Delivered` wants the job and the winner to agree, `StageOf` has one "owing"
for `drawn`, `fulfilling` and `failed`.

### GroupEntitlement (`group-entitlements.js`)

Rules (each with its group), the memberships and overrides of users, the local
copy of each user (`local`) and the user at Sub2API (`remote`). What changes a user
runs under the lock of that user: `queue[u]` is the chain of `#withUserLock`, whose
head is a claim, one user of a run, or one row of the restoration; `section[u]` is
what that job awaits. `run[r]` is `#executeOnce`, `sched` the timer.

| action | code |
|---|---|
| `Claim`, `EnterClaim`, `AnswerClaim` | `claim`: check, lock and check again, answer and decision |
| `EnterRevoke`, `AnswerRevoke` | one user in `#executeOnce`: decision by the local copy, answer and second decision |
| `EnterRestore`, `AnswerRestore` | one row of `restoreScheduledConcurrency` |
| `ReadFails`, `WriteSucceeds`, `WriteFails` | the outcomes of a call and what follows; a failed write may have taken effect |
| `RunNext`, `RunEnd`, `Requested` | the loop of `#executeOnce`, its end with the row of the run and the deletion of the rule, `execute` waiting its turn |
| `Schedule`, `SchedRestore`, `SchedDue`, `SchedRevoke`, `SchedEnd` | `runScheduledTasks` |
| `CreateRule`, `UpdateRule`, `RevokeNow`, `DeleteRule` | the administrator's |
| `LookupReads`, `LookupStores` | `refreshUser` of a handler that takes no lock (an activity page, a check-in, a lottery) |

`Baseline`, `RestoreTo` and `Carried` are `#concurrencyRestore`, `Prepared` and
`Targets` are `#prepareConcurrencyOverride`. `ReturnsRowId` tells PostgreSQL from
SQLite: there an upsert that finds its row does not report its id.

One process; advisory locks are not modelled. Abstracted: whether the condition is
met (any answer), start dates, batches, users that disappear upstream. A write
lands before its caller gives up, or at a crash. One claim per rule and user waits
at a time, one request of an administrator per rule, and a deleted rule is not
created again. A group is edited by hand at Sub2API at any time but during a write,
which `README.md:35` asks for. `Kinds` are the disturbances a run allows, each once,
`MaxDisturbances` how many of them in all.

`EntitlementContract` says what people and administrators are promised without queues, runs, copies
or answers: a group is given to who asked for it while it was offered, and from asking to the answer nothing
else happens to that person; only what was given and is kept in the books is taken away, when it is no longer
offered; it is written off only when it has gone, unless somebody else has edited the groups; what was closed is
not offered again. `EntitlementRefinement` holds the mapping: `Offer` is `#requireClaimable`, `Asking` a
claim from the check under the lock on, `Managed` the memberships a run would list.
The contract lets a group be given that the books miss: a grant that fails with effect, after
which it counts as preexisting. Limits are not part of it.

### Checkin (`activities.js`)

One campaign, its record per user and local date, and requests as they await
first the user, then the redemption; upstream as in `Outbox`. `Begin` is the part of
`checkin` before the first await, `Record` and `Accept` the transaction and the
call after it (the second one when the reward of that day had failed before), `Refuse`
a check-in that is not made, `RedeemSucceeds` and `RedeemFails` the outcomes of
`#issueCheckinReward`, `Midnight` the local date. Processes that share a data base are
just more requests.

### RechargeLedger and Directory (`sync.js`)

`RechargeLedger` is the table `recharge_events` with its two writers: the
synchronisation, page by page down to the saved cursor (`StartRun`, `ReadPage`,
`SaveCursor`, `FailRun`), and any number of `refreshUser` (`Begin`, `Fetch`, `Commit`,
`FailRefresh`) which replace the window of one user. Upstream lists used codes
newest first, and new ones shift the pages at any time. `Directory` is the local
copy of users, or of groups: sweeps that write what they read and in the end delete
what is older than they are, and refreshes of single users beside them.

### Migration (`db.js`, `postgres-worker.js`, `postgres-schema.js`)

Processes of different builds that start at a time, on SQLite script by script, on
PostgreSQL in one transaction under an advisory lock with the version read again. Before that
lock the PostgreSQL worker makes the table of versions where it is missing (`CREATE TABLE IF NOT
EXISTS`, `postgres-worker.js:42`): the statement looks (`FindTable`) and then makes it
(`CreateTable`), and who finds it made in between fails its start (`beaten`).

### PostgresBridge (`postgres-database.js`, `postgres-worker.js`, `transaction` of `db.js`)

The shared memory at the grain of single stores: the main thread resets, posts and
sleeps (`Begin`, `Wake`, `Take`, `TimeOut`), the worker answers in four stores
(`Run`, `ClearBytes`, `StoreBytes`, `StoreLength`, `StoreState`), late answers
included; on top of it single statements and transactions, and the session of
PostgreSQL they run in.

### RequestLimits (`rate-limiter.js`, `request-logs.js`)

The buckets of the limiter with their cleanup, and the sums of refused requests on their
way from memory to the log, with a failing transaction and a restart.

### Sessions (`sessions.js`, `http.js`, and `client.ts`, `session.ts` in each tab)

The sessions of one browser, the CSRF token each tab holds, and requests to the
administration between their awaits.

### Rules (`rules.js`, `money.js`, `conditions.ts`)

A condition is the sequence of its nodes in the order in which `validateRuleTree` and
`evaluateNode` visit them, the root first; a group names its children by their places, which
come later. So every recursive function of the code is a function on places, defined from the
end. State: the condition in the editor (`form`, in thousandths of a yuan), the rule in the
data base (`stored`, in cents), and whether the editor shows that rule. Actions: `Save`
(`conditionFromApi` of what is sent), `Open` (`conditionToApi`, then the `normalizeCondition` of the
page, `conditions.ts:28`), and `Keep`, an edit of the rest of
a campaign that brings no condition and stores what it would show, or the switch in the list of rules,
which sends the rule as it was returned. A rule the form shows is normalized once more when it is sent
(`Sent`, `GroupGrantsView.vue:226`): a value that is no number becomes 0, so the status of a user, a string, does
not survive (`Statuses`). The judgement is `Matches`,
the reasons given `Reasons`, the windows asked for `WindowsOf`, the judgement of the browser
`BrowserMatches`; `WithinLimits`, `Suits` and `Accepted` are what the two validations refuse.

### GrantsPage (`GroupGrantsView.vue`, `groupGrantLifecycle.ts`, `groupGrants.ts`)

The administrators' page of a rule beside what the server makes of it
(`group-entitlements.js`): lists that arrive in any order, toggles that write back a
copy, early revocation, deletion, and the runs of the server. `Status` is what the page
shows, `Due` and `Claimable` are what the server does.

### Services and MCServices

The nine modules above do not meet but in the process they run in. `Services` composes them:
the initial state chooses a `part`, which alone moves, and the others rest. It is the home of their
properties, and what `ServicesProofs` is about. `MCServices` has the small instances and fixes one
first state for the parts that rest. Modules that have
proofs of their own are instanced with them, so that their theorems can be cited. Names that two
of the modules use are renamed in their INSTANCE.

### Runs

| run | what it asks | instance |
|---|---|---|
| `lottery` | safety, the contract, a due draw is resolved | 2 users, 1 process, fair, 2 manual keys and the scheduled one, 0 to 2 winners, three schedules, 1 crash |
| `replicas` | one round per key, also on the replay inside the transaction | 2 processes, 2 users, 1 winner |
| `replicas_list` | winners are participants: violated | 2 users, 2 processes |
| `outbox` | safety, jobs settle, completion is noticed, implements `OutboxContract` | 2 automatic jobs and a manual one, 2 attempts, 1 crash or 1 administrator retry (`OneMishap`), fair |
| `services` | the nine modules of `Services` | see below |
| `outbox_replicas` | delivered is final: violated | 2 processes, 1 job |
| `group` | no foreign group is touched, revocations and restorations are real, the limit returns, implements `EntitlementContract` | PostgreSQL, 2 rules with limits, one of which ends, 1 user, every failure of a call, a crash |
| `group_live` | the due revocation and restoration succeed in the end | SQLite, 1 rule with end and revocation, fair, one of: update, deletion, unlocked look-up, manual edit, crash |
| `group_expiry`, `group_lookup` | documented promises that fail, see Findings | 1 rule, 1 user; one look-up in the second |
| `group_limit` | the limit returns: violated | PostgreSQL, 3 rules, 1 user, no call fails and nobody revokes early (`Smooth`) |
| `group_sqlite` | restored stays restored: violated | SQLite, 2 rules |

*Bounds of the group runs.* Users only meet in a run, which visits them one by one,
so one user and two rules give every conflict of two jobs over one account, and two overrides on
the stack. Three behave otherwise: that is the run `group_limit`. The clock passes each date that is set.
Calls may fail any number of times, with and without effect.

*Fairness of the group runs.* The timer comes back every `GROUP_EXPIRY_INTERVAL`
and the loop of a run goes on (weak); an answer that comes again and again is
delivered and Sub2API does not refuse for ever (strong): the retry the README
promises can only succeed if upstream once does. No claim, request or edit
is assumed. Deadlock is not checked: when all dates have passed and nobody
asks for anything the system rests.

*The run `services`.* Instances: check-ins with 1 user, 2 requests, 3 days, 2 amounts, 1 edit and
1 crash; the ledger with 3 codes of which 1 is a reward, pages of 1, 1 refresh, 2
synchronisations; the directory with 2 ids, pages of 1, 1 sweep and 1 refresh; 2 processes
of builds 2 and 3 upgrading to at most 3; 2 units of work and 2 time-outs over the bridge;
2 sources, 4 requests, windows of 2; 2 tabs, 2 sessions, 3 tokens; conditions of at most 5 nodes, 3 children and 3 levels (one that is deeper and one that
is wider may not be saved); a rule that is over beside a schedule not yet open, 2 changes, 2 runs.
A page of one row makes every insertion shift the next page; a second process, tab, request
or time-out is what each of these hazards needs, and a third meets the same states.
A span of 0 is a window shorter than the unit of time, whose start is an instant where
events are: the boundary that the fetch and the replacement have to treat alike.
The part `rules` begins with one of some 260 conditions: every fact with every operator the API
knows and some it refuses, amounts around zero, half a cent and a cent, windows of 1 and 7 days,
groups of none, two and four, groups in groups, two statuses (and numbers in their place), and the rules earlier versions stored. Each is
judged with all facts of a user over two amounts, two counts and an unknown balance (-1).
The limits of the code (8 levels, 100 nodes, 20 children) are constants; the theorems hold for any.
No fairness is assumed: what the part `checkin` says about pending rewards is an
invariant (a request still has them in hand), not a liveness property. Deadlock is not
checked: each part may come to rest at its bounds.

*Properties with a condition.* Each names what it leaves out. `PendingIsUnderWay`: a process
that died. `StreakCounts`: a day recorded after its midnight may begin a new streak.
`LedgerComplete`: two losses the code allows, see Findings. `ListedIsKept`: a list that somebody left,
and a row a refresh had overwritten. `OwnAnswer` and `UnitsAtomic`: queries given up. `RefusedAreCounted`:
a crash, or a transaction that failed. `TokenInStep`: tabs that are not the last to have
loaded the session. `StatusAgrees`: a revocation overtaken by a later change.

*Why these bounds.* With two users and 0 to 2 winners a list can be too short,
exact or too long, and still lose somebody; two manual keys and the scheduled key give repeated, competing and mixed draws; the three
schedules are none, registration ending before the draw, and registration open
until the draw; one crash can hit every statement. Two attempts let a job fail,
be retried and be used up; a second automatic job makes loops hold rows read
earlier; the manual job keeps a lottery from being fulfilled. A second crash or
retry repeats what the first does: each leaves a state the invariant describes, which
is proved for any number of them.

*Fairness.* `Lottery`: a run goes on to its next statement (weak, it is plain
sequential code), and the timer of the scheduled draw is served whatever other
requests compete (strong, the event loop runs expired timers). `Outbox`: the
same for loops and the timer, every call ends (the client has a time limit), a
backoff passes, and a process that died is started again (restart policy in
`docker-compose.yml`). No request of a user or an administrator, no success of
upstream and no crash is ever assumed. Deadlock is not checked in `Outbox`:
when the lottery is deleted, or everything is delivered, nothing may be left to
do.

## 3. Findings

Each is a violation run of a promise the repository makes.

* `replicas_list`: with two processes, a list generation that has read the entries
  earlier lists a user who has left (in the same way it can replace a list that
  the other process has locked). With one process this is impossible (proved).
* `outbox_replicas`: a process that starts takes the jobs of the others for
  abandoned, and the late failure of one call overwrites the success of another.
  The winner is still credited once (proved for any number of processes).
* `group_expiry`: a claim that has passed the check of the activity window awaits the
  user, and writes the grant even if the expiry run has been and gone.
* `group_lookup`: a revocation trusts the local copy; an unlocked look-up that
  began before the grant puts an old copy there, and the group stays for ever.
* `group_limit`: an override that is restored hands the value from before to the newest of the
  others only. Of three overlapping limits whose activities end in the order they were claimed in, the
  second still has the limit of the first for its original, and the concurrency ends at that; the test
  of the repository tries two. With two the same happens when an update opens a rule again that has
  ended: a renewed override keeps its old id, and the ids are no longer in the order of the claims.
* `group_sqlite`: on SQLite the id of a renewed override is wrong, and a mark goes to
  another row: a restored override of any user becomes active again.

Further behaviour the models contain, where no document promises otherwise and a
conditional property says what still holds:

* A refresh answered before a recharge, but stored after the synchronisation has passed
  it, deletes that row, and no synchronisation reads it again; and of two codes used in the same
  instant the one with the smaller id is never read once the other was (`LedgerComplete`).
* A sweep deletes users that are listed when somebody else leaves the list
  meanwhile, or when a refresh that began before the sweep has written their row
  (`ListedIsKept`); they come back with the next sweep.
* A reward of a check-in whose process died stays pending for ever; a failed one is only retried
  on the same day; and a late failure may be written over the success of another attempt
  (`PendingIsUnderWay`, `OnceADay`: it is never credited twice).
* After a time-out a query may be given the answer of an earlier one, a COMMIT may have
  committed, and a BEGIN leaves a transaction open (`OwnAnswer`, `UnitsAtomic`).
* On PostgreSQL two processes that start together on an empty data base may both find that the table of
  versions is missing; the slower statement fails, and that process has to start again. The next start finds the
  table, and no upgrade begins without it (`SchemaComplete`).
* On SQLite a second process that starts while the first upgrades fails on a script, and the
  version may be written back; on PostgreSQL an older build that waited for
  the lock serves a newer schema (`SchemaComplete`).
* A flush that fails loses the sums it had taken (`RefusedAreCounted`).
* An amount may be stored under its own name and compared by `neq` (`rules.js:311` passes it on), is
  shown as the amount of the editor, and as such is refused (`rules.js:283`): such a rule
  judges users, but can neither be saved again nor kept by an edit without a condition, and the browser
  has no such operator (`NoAmountDiffers` in `MeaningIsKept` and `VerdictsAgree`).
* A rule may ask for the status of a user (`rules.js:311`). The editor makes every value a number, here 0, so such
  a rule, opened there and saved, is refused (`rules.js:86`); it is not changed, and the switch in the
  list of rules, an edit without a condition and other clients still store it (`AsksNoStatus` in `MeaningIsKept`).
* A toggle writes back the whole rule as the page had it, so it may undo what another
  administrator saved and enable a rule that was revoked early; a revocation that waits
  its turn may revoke after the rule was enabled again (`StatusAgrees` exempts these).

## 4. What is proved

All proofs are for any sets of users, keys, jobs and schedules and any bounds; what a
theorem needs of its constants is named in it (`SingleInstance`, `FiniteRules`, `ReturnsRowId`, `Calm`,
`NoReopening`, and the `Parameters` of each service: bounds are numbers, pages are not empty,
builds are versions there are). Each inductive invariant was checked by TLC before it was proved.

* `LotteryProofs!TypeCorrect` and `KeyCorrect` (one key, one round) for any number of
  processes. The other theorems of that module assume `SingleInstance`. Their inductive invariant `IInv` adds to
  the checked properties what a run may still rely on at each program counter:
  between `gen_entries` and `gen_store` the entries read are still the entries;
  between `lock_count` and `lock_commit` the count still holds; a run that will
  draw has a locked list. Without these facts the properties do not survive
  the second statement of any handler. `ListCorrect`,
  `RegistrationCorrect`, `DrawCorrect` and `LockFinal` follow; `Implements` shows every step to be one of the contract or
  a stutter.
* `OutboxProofs!TypeCorrect` and `CreditCorrect` for any number of processes:
  codes derive from winners only, and success is written only for a redeemed
  code. `DeliveredCorrect` and `FulfilledCorrect` assume `SingleInstance`; their
  invariant says that at most one handler runs at a time, that a call owns the
  job it has claimed, and that a status computed from the jobs is still true when
  it is stored. `Implements` shows every step to be one of `OutboxContract` or a stutter. It needs
  more (`ContractInv`, in `ContractInvariant`): the status about to be stored is the very one the jobs have,
  because no handler comes between the two statements of `#refreshLotteryStatus`,
  and only rewards that upstream pays are ever sent there. A redemption that
  takes effect late is a credit of the contract because the
  job is not delivered while its code is not redeemed, so the lottery still owes it.
* `GroupEntitlementProofs!OwnGroupsKept` for any rules, users, dates and disturbances
  and on either data base: only the group of the job at hand changes, and only a
  given group is taken away. A write overwrites the whole list of groups with one
  computed before an await, so the step alone shows nothing: the invariant `IInv` says that
  while a write is under way the list it carries still differs from the list upstream
  in that one group (because the lock is held and nobody edits in the middle of a write),
  and that a managed membership is always of a given group, also after a failed
  write or a crash.
* `CheckinProofs` for any users, requests, values and bounds. `CreditCorrect`: the code of
  a redemption derives from user and date alone, and every call under way belongs to
  a record, so that two credits of a day are one. `PendingCorrect`: a record turns pending
  only in the step that starts its call, and the call ends it. `StreakCorrect`: the inductive invariant says that
  a streak of n is a run of n recorded days and continues the streak of the day
  before if that was recorded in time; that what is shown is no more than the
  number of days needs the cardinality of an interval.
* `GroupEntitlementProofs!TypeCorrect` for any finite set of rules (`FiniteRules`) and any number of
  them on top of each other. What makes it more than bookkeeping is the stack of
  overrides: the row a claim, an end or a restoration reads is the one with the largest
  or smallest id among the active ones, so there has to be one. `StackEnds` shows that
  every finite stack that is not empty has both ends, and the invariant carries `IInv` along.
* `GroupEntitlementProofs!WrittenOffIsGone`, whatever calls fail and should the process crash. A
  membership is written off by the local copy, so `GoneInv` relates the copies: a managed group that
  the local one lacks is missing at Sub2API too (`InStep`), and one missing there belongs to a rule
  that is `Closed`, so that no claim gives it again; revocations are only ever asked for of such rules
  (`Closing`), and what a write under way was decided on still holds (`Sent`). The hypothesis `Calm` is
  needed: TLC refutes the property with an unlocked look-up (`group_lookup`), and with an update or
  deletion that opens a rule again after a revocation that failed with effect. After an edit at Sub2API
  the property claims nothing.
* `GroupEntitlementProofs!Implements`, that every step is one of `EntitlementContract` or a stutter, for any rules and
  users and also when users are edited at Sub2API, under `Calm` as before. Its invariant adds `Sending`
  to those of the two theorems above: a write under way was decided on the groups and the membership as they still are, even
  after an edit, because only the holder of the lock changes a membership and nobody edits during a write.
  So a grant that lands, at once, late or at a crash, is of a group the user lacks and has asked for, and a
  revocation is of a managed group of a closed rule. `OfferMoves` needs that no rule opens again.
* `GroupEntitlementProofs!RestoredStays`, under every disturbance: a write under way marks the row of
  its own user and rule or none, and a job that is not a claim marks none that is restored (`Marking`).
  It needs `ReturnsRowId`; on SQLite it is false (`group_sqlite`).
* `GroupEntitlementProofs!LimitComesBack`, for any rules and users, whatever calls fail and should the
  process crash. What is restored is never the value a user has but one stored in some row, and the rows change hands:
  the invariant `UserLimit` says that the oldest open override owns the first value, that without
  an open one it is the limit, and that a restoration under way has handed it on or is about to
  set it. It needs `AtMostTwo` (an assumption on the behaviour: nobody holds three limits at
  a time, for then the newest is not the next oldest), `NoReopening` (a renewed override keeps its
  old id) and `ReturnsRowId`; TLC refutes it without either of the first two (Findings). `LimitOfTwoComesBack` is the
  case of two rules, where `AtMostTwo` holds by itself.
* `PostgresBridgeProofs` for any units of work and any number of queries given up.
  `PipelineCorrect` is the inductive invariant of the shared memory: queries are taken in
  the order they were sent, the bytes and the length found there come from the query the
  worker is at or the one before, each query given up leaves at most one answer that
  nobody waits for, and a query sent to an idle worker is alone. `AnswersMatch`
  follows. `UnitsAreAtomic` adds `Agreement`: while no query was given up, the
  transaction open at the data base, its writes and its failure are those the caller
  has been told of, at each statement of `transaction`.
* `RequestLimitsProofs` for any sources, limit, window, retention and number of requests.
  `LimitIsKept`: a bucket counts exactly what was admitted until its window is over
  and only then may go, and none is older than the last cleanup allows. `RefusedCounted`:
  sums move from memory to the log, where only old rows go, by steps that neither double
  nor, but for a failed flush or a crash, drop them.
* `RechargeLedgerProofs` for any codes, pages, refreshes and number of synchronisations. `LedgerCorrect`: a
  code that is used later is put before the others, so its rank in the list only grows, and one
  that a run has still to meet is never on a page the run has passed; the cursor is stored only
  when all above the old one are in. `RefreshCorrect`: the same argument for the pages of a refresh, down to
  the instant its window starts at.
* `ServicesProofs` is about `Services`. `OfEach` shows that a property of a service alone is one of the
  composition; the theorems carry over what the modules above prove, and prove the rest:
  `MigrationCompletes` (on SQLite a process has passed the scripts it is beyond, on PostgreSQL who holds the lock knows the
  version, and whoever is past the table of versions has it); `MembersAreKept` (new members come last, so while nobody leaves the
  place of a member stays, and a row that the sweep would delete is of a member on a page still to
  be read or stored); `TokensAreInStep` (a session expects the newest token, and the tab that loaded it last has that
  one or is about to be sent it; `"none"` is no tab) and `AdministrationIsCurrent`; `StatusIsRight`
  (what the page or a request has of a rule was valid once, the newest run is the one under way, and no
  successful expiry is newer than it; schedules have integer dates).
* `ServicesProofs!VerdictsCorrect` and `MeaningCorrect`, for conditions of any size, depth and width,
  any amounts, windows and facts of a user. What a condition says is defined from the leaves up, so each
  of these facts is an induction over its places, from the last to the first: `FromTheEnd` is that
  induction, taken from the well-foundedness of the natural numbers (the least distance from the
  end at which a fact fails, `WFMin`), and `Recursion` that a function defined from later places exists.
  From them follow, for whole conditions: a rule judged with the windows it asks for is judged as with
  all (`JudgedAlike`); a refusal has a reason and reasons are true (`ReasonsAreTrue`);
  the browser agrees (`BrowserAgrees`), which needs that amounts in yuan compare as
  amounts in cents do (`ComparesInYuan`); a rule shown and stored again means the same (`MeaningSame`),
  for all its nodes together; and what the page sends of a rule it shows is what it was given, or it is refused
  (`PageSends`). The inductive invariant
  `RulesInv` says that what is stored is storable, and came from the form unless the form shows it, normalized.
  `RuleParameters` asks that windows are of 1 to 365 days, amounts integers, statuses no numbers, entered conditions have the
  shape the editor and the API give them, and rules of earlier versions were valid when they
  were stored; like everything that `conditionFromApi` has stored they have no group `any` without
  conditions, which holds for nobody on the server and for everybody in the browser.

Only model-checked: the liveness properties `DueDrawResolves`, `JobsSettle`, `CompletionIsNoticed`,
`ExpiryIsRetried` and `RestoreIsRetried`, which TLAPS does not reach. The safety properties of violation runs are
false of the code, but for the hypotheses named above.

## 5. Not modelled, and the plan

The plan, in order:

1. The limits in `EntitlementContract`: a set of active limits over one baseline, which the code
   keeps for two at a time only (Findings); two processes with advisory locks.
2. The amounts a user was rewarded, which `extensionRewardTotal` (`sync.js:137`) takes from the
   campaign and prize as they are now, not as they were when the reward was paid.

Not modelled: the views of the front-end but for the page of rules, which show what the
server returned and keep nothing; the translation of SQL to PostgreSQL, routing, the
validation of input, configuration, files, hashing and random bytes, which are input
and output or pure; lists composed of what other services hold; users that disappear
upstream, and several processes under the advisory locks of the group rules.

The claim of a scheduled draw is committed before the draw and never released
(`lotteries.js:524`): after a crash in between the draw is neither made nor
recorded as failed. `DueDrawResolves` exempts executions with a crash.
After a crash between the last delivery and the refresh a lottery stays
`fulfilling` until somebody acts on it, which the page of that lottery does not offer; no document promises otherwise, and
`CompletionIsNoticed` exempts executions with a crash.

