-------------------------- MODULE GroupEntitlement --------------------------
(***************************************************************************)
(* Group entitlements (server/src/group-entitlements.js): users claim the  *)
(* group of a rule and with it, perhaps, a temporary concurrency limit;    *)
(* the limit goes back when the activity ends, the group is taken back at  *)
(* the revocation time, or earlier by an administrator.                    *)
(*                                                                         *)
(* One process.  Whatever changes a user at Sub2API runs under the lock of *)
(* that user (#withUserLock): queue[u] is the chain of jobs, its head holds *)
(* the lock, section[u] says what the head awaits.  Between two awaits a   *)
(* job is not interrupted.  A write may take effect although its answer is *)
(* an error.                                                               *)
(* Each "Faulty variant" is a plausible bug, used only to try a property.  *)
(*                                                                         *)
(* Abstracted: a rule and its group are one (a group has one rule), whether *)
(* a user meets the condition is any answer, activity_starts_at has passed, *)
(* groups stay assignable and users exist upstream, summaries, audit rows, *)
(* LIMITs.                                                                 *)
(***************************************************************************)
EXTENDS Integers, Sequences, FiniteSets

CONSTANTS
    Rules,       \* rules, one per exclusive group
    Users,
    Terms,       \* the settings given to rules
    Base,        \* a user's concurrency before any activity
    NoLimit,     \* concurrency_limit IS NULL
    ReturnsRowId,  \* what an upsert reports, see Targets
    Horizon,     \* bound on the clock
    Disturbances,      \* bound: which of Kinds may happen, once each
    MaxDisturbances    \* bound: how many of them

Kinds == {"update", "delete", "lookup", "edit", "crash"}

\* A date that is not set never arrives.
Never == Horizon + 1

Limits  == Nat \cup {NoLimit}

\* normalizeRuleInput: a revocation time needs an earlier end of the activity.
ValidTerms ==
    {t \in [ends : 1..Never, revokeAt : 1..Never, limit : Limits] :
        t.revokeAt # Never => t.ends < t.revokeAt}

ASSUME GroupAssumption ==
    /\ Terms \subseteq ValidTerms
    /\ Base \in Nat /\ NoLimit \notin Nat
    /\ ReturnsRowId \in BOOLEAN
    /\ Horizon \in Nat
    /\ Disturbances \subseteq Kinds /\ MaxDisturbances \in Nat

VARIABLES
    stage,      \* "none", "live" or "deleted", per rule
    enabled,    \* rules.enabled
    terms,      \* activity_ends_at, revoke_at, concurrency_limit
    expired,    \* an 'expire' run succeeded since updated_at and revoke_at
    member,     \* group_entitlement_memberships, per rule and user
    override,   \* group_entitlement_concurrency_overrides, per rule and user
    local,      \* synced_users: allowed_groups and concurrency
    remote,     \* the same at Sub2API
    queue,      \* userLocks
    section,    \* what the holder of a user's lock is at
    run,        \* #executeOnce, per rule
    request,    \* an administrator's execution that waits for its turn
    sched,      \* runScheduledTasks
    lookup,     \* a refreshUser of another handler, outside the lock
    granted,    \* history: groups this extension has ever given a user
    now,        \* the clock
    used        \* disturbances so far

rules    == <<stage, enabled, terms, expired>>
rows     == <<member, override>>
copies   == <<local, remote, granted>>
locks    == <<queue, section>>
tasks    == <<run, request, sched>>
vars     == <<rules, rows, copies, locks, tasks, lookup, now, used>>

Accounts == [groups : SUBSET Rules, limit : Nat]
Members  == {"none", "managed", "preexisting", "revoked"}

\* id 0: there is no row.
Overrides ==
    [status : {"none", "pending", "active", "failed", "restored"},
     original : Nat, applied : Nat, id : Nat]

NoRow == [status |-> "none", original |-> 0, applied |-> 0, id |-> 0]

Jobs == [kind : {"claim", "revoke", "restore"}, rule : Rules]

\* pc: waiting for the lock, awaiting getUser, awaiting a write; limit: the
\* limit of the rule a claim has read; the write: what it is for, the groups it
\* sets, the concurrency it sets or NoLimit, and the override marked afterwards.
Sections ==
    [pc : {"wait", "read", "write"}, limit : Limits,
     write : {"none", "grant", "keep", "revoke", "missing", "restore"},
     groups : SUBSET Rules, to : Limits, mark : SUBSET (Rules \X Users)]

Outside == [pc |-> "wait", limit |-> NoLimit, write |-> "none", groups |-> {}, to |-> NoLimit,
            mark |-> {}]

Modes == {"none", "expire", "revoke", "delete"}
Runs  == [mode : Modes, todo : SUBSET Users, busy : BOOLEAN, failed : BOOLEAN, fresh : BOOLEAN]
NoRun == [mode |-> "none", todo |-> {}, busy |-> FALSE, failed |-> FALSE, fresh |-> FALSE]

Scheds  == [phase : {"idle", "restore", "revoke"}, rows : SUBSET (Rules \X Users),
            due : SUBSET Rules, busy : BOOLEAN]
NoSched == [phase |-> "idle", rows |-> {}, due |-> {}, busy |-> FALSE]

NoLookup == [groups |-> {}, limit |-> NoLimit]

TypeOK ==
    /\ stage \in [Rules -> {"none", "live", "deleted"}]
    /\ enabled \in [Rules -> BOOLEAN] /\ expired \in [Rules -> BOOLEAN]
    /\ terms \in [Rules -> ValidTerms]
    /\ member \in [Rules -> [Users -> Members]]
    /\ override \in [Rules -> [Users -> Overrides]]
    /\ local \in [Users -> Accounts] /\ remote \in [Users -> Accounts]
    /\ queue \in [Users -> Seq(Jobs)] /\ section \in [Users -> Sections]
    /\ \A u \in Users : section[u].pc # "wait" => queue[u] # <<>>
    /\ run \in [Rules -> Runs]
    /\ request \in [Rules -> {"none", "revoke", "delete"}]
    /\ sched \in Scheds
    /\ lookup \in [Users -> Accounts \cup {NoLookup}]
    /\ granted \subseteq Rules \X Users
    /\ now \in 0..Horizon
    /\ used \subseteq Disturbances

\* Users may have some of the groups already.
Init ==
    /\ stage = [r \in Rules |-> "none"]
    /\ enabled = [r \in Rules |-> FALSE] /\ expired = [r \in Rules |-> FALSE]
    /\ terms = [r \in Rules |-> [ends |-> Never, revokeAt |-> Never, limit |-> NoLimit]]
    /\ member = [r \in Rules |-> [u \in Users |-> "none"]]
    /\ override = [r \in Rules |-> [u \in Users |-> NoRow]]
    /\ remote \in [Users -> [groups : SUBSET Rules, limit : {Base}]]
    /\ local = remote
    /\ queue = [u \in Users |-> <<>>] /\ section = [u \in Users |-> Outside]
    /\ run = [r \in Rules |-> NoRun] /\ request = [r \in Rules |-> "none"]
    /\ sched = NoSched
    /\ lookup = [u \in Users |-> NoLookup]
    /\ granted = {}
    /\ now = 0 /\ used = {}

Disturb(c) ==
    /\ c \in Disturbances \ used /\ Cardinality(used) < MaxDisturbances
    /\ used' = used \cup {c}

-----------------------------------------------------------------------------
(* The overrides of a user, a stack in the order of their ids.             *)

Live(r, u) == override[r][u].status \in {"active", "pending", "failed"}

Others(r, u) == {s \in Rules \ {r} : Live(s, u)}

Oldest(S, u) == CHOOSE s \in S : \A t \in S : override[s][u].id <= override[t][u].id
Newest(S, u) == CHOOSE s \in S : \A t \in S : override[t][u].id <= override[s][u].id

\* The earliest remaining row owns the value from before the activities.
Baseline(r, u) ==
    LET first == Oldest(Others(r, u), u)
    IN  IF Others(r, u) # {} /\ override[first][u].id < override[r][u].id
        THEN override[first][u].original ELSE override[r][u].original

\* #concurrencyRestore: the value to write, and the baseline carried over to the
\* newest of the other rows.
RestoreTo(r, u) ==
    IF ~Live(r, u) THEN NoLimit
    ELSE IF Others(r, u) = {} THEN Baseline(r, u)
    ELSE override[Newest(Others(r, u), u)][u].applied

\* Faulty variant: the baseline is not handed on.
CarriedNothing(r, u) == override

Carried(r, u) ==
    IF Live(r, u) /\ Others(r, u) # {}
    THEN [override EXCEPT ![Newest(Others(r, u), u)][u].original = Baseline(r, u)]
    ELSE override

NextId(u) == 1 + CHOOSE n \in {0} \cup {override[s][u].id : s \in Rules} :
                     \A s \in Rules : override[s][u].id <= n

\* #prepareConcurrencyOverride; a row keeps its id for ever.
Prepared(r, u, limit, current) ==
    IF limit = NoLimit THEN override
    ELSE [override EXCEPT ![r][u] =
            [status |-> "pending",
             original |-> IF Live(r, u) THEN @.original ELSE current,
             applied |-> limit,
             id |-> IF @.id = 0 THEN NextId(u) ELSE @.id]]

\* Faulty variant: the last row inserted into any table.
LastInserted(r, u, limit) ==
    IF limit = NoLimit THEN {{}}
    ELSE {{}} \cup {{q} : q \in {p \in Rules \X Users : override[p[1]][p[2]].id # 0}}

\* The row whose id the upsert has reported (lastInsertRowid).  PostgreSQL returns
\* the row.  On SQLite an upsert that finds its row inserts nothing and reports the
\* last row inserted into any table: any row here, or none.
Targets(r, u, limit) ==
    IF limit = NoLimit THEN {{}}
    ELSE IF ReturnsRowId \/ override[r][u].id = 0 THEN {{<<r, u>>}}
    ELSE {{}} \cup {{q} : q \in {p \in Rules \X Users : override[p[1]][p[2]].id # 0}}

\* #markConcurrencyOverride...; nothing when the row went with its rule.
Marked(rws, T, st) ==
    [r \in Rules |-> [u \in Users |->
        IF <<r, u>> \in T /\ rws[r][u].id # 0 THEN [rws[r][u] EXCEPT !.status = st] ELSE rws[r][u]]]

-----------------------------------------------------------------------------
(* The lock of a user.                                                     *)

Holder(u)     == Head(queue[u])
AtLock(u, pc) == queue[u] # <<>> /\ section[u].pc = pc
Enqueue(u, j) == queue' = [queue EXCEPT ![u] = Append(@, j)]

\* What a run or the scheduler learns when its job is over.
Notify(j, ok) ==
    /\ run' = IF j.kind = "revoke"
              THEN [run EXCEPT ![j.rule].busy = FALSE, ![j.rule].failed = @ \/ ~ok]
              ELSE run
    /\ sched' = IF j.kind = "restore" THEN [sched EXCEPT !.busy = FALSE] ELSE sched
    /\ UNCHANGED request

\* Faulty variant: what the job awaited is not cleared.
ReleaseKeeps(u, ok) ==
    /\ queue' = [queue EXCEPT ![u] = Tail(@)]
    /\ UNCHANGED section
    /\ Notify(Holder(u), ok)

\* The finally of #withUserLock.
Release(u, ok) ==
    /\ queue' = [queue EXCEPT ![u] = Tail(@)]
    /\ section' = [section EXCEPT ![u] = Outside]
    /\ Notify(Holder(u), ok)

Await(u, s) == section' = [section EXCEPT ![u] = s] /\ UNCHANGED <<queue, tasks>>

Read(u, limit) == Await(u, [Outside EXCEPT !.pc = "read", !.limit = limit])

\* updateUserAllowedGroups or updateUserConcurrency is called.
Send(u, write, groups, to, mark) ==
    Await(u, [pc |-> "write", limit |-> section[u].limit,
              write |-> write, groups |-> groups, to |-> to, mark |-> mark])

\* The override a restoration marks.
Own(r, u) == IF Live(r, u) THEN {<<r, u>>} ELSE {}

Become(r, u, m) == member' = [member EXCEPT ![r][u] = m]

\* #requireClaimable
Claimable(r) == stage[r] = "live" /\ enabled[r] /\ now < terms[r].ends

-----------------------------------------------------------------------------
(* decide and #applyDecision for a user found to be v.                     *)

\* Faulty variant: whose the group was is not asked.
KeepsAnyOwner(r, u, v) == r \in v.groups

Grants(r, v)         == r \notin v.groups
KeepsManaged(r, u, v) == r \in v.groups /\ member[r][u] = "managed"
KeepsOther(r, u, v)   == r \in v.groups /\ member[r][u] # "managed"

\* A claim whose condition is met.  Rows of a rule deleted meanwhile cannot be
\* written: the foreign key fails, and the exception ends the job.
ApplyClaim(u, r, limit, v) ==
    \/ /\ Grants(r, v) /\ (stage[r] = "live" \/ limit = NoLimit)
       /\ override' = Prepared(r, u, limit, v.limit)
       /\ \E T \in Targets(r, u, limit) : Send(u, "grant", v.groups \cup {r}, limit, T)
       /\ UNCHANGED member
    \/ /\ KeepsManaged(r, u, v) /\ limit \notin {NoLimit, v.limit} /\ stage[r] = "live"
       /\ override' = Prepared(r, u, limit, v.limit)
       /\ \E T \in Targets(r, u, limit) : Send(u, "keep", v.groups, limit, T)
       /\ UNCHANGED member
    \/ /\ KeepsManaged(r, u, v) /\ limit \in {NoLimit, v.limit} /\ stage[r] = "live"
       /\ \E T \in Targets(r, u, limit) :
             override' = Marked(Prepared(r, u, limit, v.limit), T, "active")
       /\ Release(u, TRUE)
       /\ UNCHANGED member
    \/ /\ KeepsOther(r, u, v) /\ stage[r] = "live"
       /\ Become(r, u, "preexisting")
       /\ Release(u, TRUE)
       /\ UNCHANGED override
    \/ /\ stage[r] # "live" /\ (r \in v.groups \/ limit # NoLimit)
       /\ Release(u, FALSE)
       /\ UNCHANGED rows

\* A revocation that does not have to write the groups of the user: the group
\* was there before, or it has gone.
ApplyNoRevoke(u, r, v) ==
    \/ /\ KeepsOther(r, u, v)
       /\ Become(r, u, "preexisting")
       /\ Release(u, TRUE)
       /\ UNCHANGED override
    \/ /\ r \notin v.groups /\ member[r][u] \in {"managed", "preexisting"} /\ Live(r, u)
       /\ override' = Carried(r, u)
       /\ Send(u, "missing", v.groups, RestoreTo(r, u), Own(r, u))
       /\ UNCHANGED member
    \/ /\ r \notin v.groups /\ member[r][u] \in {"managed", "preexisting"} /\ ~Live(r, u)
       /\ Become(r, u, "revoked")
       /\ Release(u, TRUE)
       /\ UNCHANGED override
    \/ /\ r \notin v.groups /\ member[r][u] \in {"none", "revoked"}
       /\ Release(u, TRUE)
       /\ UNCHANGED rows

ApplyRevoke(u, r, v) ==
    \/ /\ KeepsManaged(r, u, v)
       /\ override' = Carried(r, u)
       /\ Send(u, "revoke", v.groups \ {r}, RestoreTo(r, u), Own(r, u))
       /\ UNCHANGED member
    \/ ApplyNoRevoke(u, r, v)

-----------------------------------------------------------------------------
(* claim.                                                                  *)

\* A user has at most one claim of a rule under way.
Claim(r, u) ==
    /\ Claimable(r)
    /\ \A k \in 1..Len(queue[u]) : queue[u][k] # [kind |-> "claim", rule |-> r]
    /\ Enqueue(u, [kind |-> "claim", rule |-> r])
    /\ UNCHANGED <<rules, rows, copies, section, tasks, lookup, now, used>>

\* Faulty variant: the rule is not checked again under the lock.
EnterClaimUnchecked(u) ==
    /\ AtLock(u, "wait") /\ Holder(u).kind = "claim"
    /\ Read(u, terms[Holder(u).rule].limit)
    /\ UNCHANGED <<rules, rows, copies, lookup, now, used>>

\* The recheck under the lock, then refreshUser.
EnterClaim(u) ==
    /\ AtLock(u, "wait") /\ Holder(u).kind = "claim"
    /\ IF Claimable(Holder(u).rule) THEN Read(u, terms[Holder(u).rule].limit) ELSE Release(u, FALSE)
    /\ UNCHANGED <<rules, rows, copies, lookup, now, used>>

AnswerClaim(u) ==
    /\ AtLock(u, "read") /\ Holder(u).kind = "claim"
    /\ local' = [local EXCEPT ![u] = remote[u]]
    /\ \/ ApplyClaim(u, Holder(u).rule, section[u].limit, remote[u])
       \/ Release(u, TRUE) /\ UNCHANGED rows          \* the condition is not met
    /\ UNCHANGED <<rules, remote, granted, lookup, now, used>>

-----------------------------------------------------------------------------
(* One user of #executeOnce.                                               *)

\* The decision from the local copy; only a revocation reads the user again.
EnterRevoke(u) ==
    /\ AtLock(u, "wait") /\ Holder(u).kind = "revoke"
    /\ LET r == Holder(u).rule
       IN  \/ KeepsManaged(r, u, local[u]) /\ Read(u, NoLimit) /\ UNCHANGED rows
           \/ ApplyNoRevoke(u, r, local[u])
    /\ UNCHANGED <<rules, copies, lookup, now, used>>

AnswerRevoke(u) ==
    /\ AtLock(u, "read") /\ Holder(u).kind = "revoke"
    /\ local' = [local EXCEPT ![u] = remote[u]]
    /\ ApplyRevoke(u, Holder(u).rule, remote[u])
    /\ UNCHANGED <<rules, remote, granted, lookup, now, used>>

-----------------------------------------------------------------------------
(* One row of restoreScheduledConcurrency.                                 *)

EnterRestore(u) ==
    /\ AtLock(u, "wait") /\ Holder(u).kind = "restore"
    /\ IF Live(Holder(u).rule, u) THEN Read(u, NoLimit) ELSE Release(u, TRUE)
    /\ UNCHANGED <<rules, rows, copies, lookup, now, used>>

AnswerRestore(u) ==
    /\ AtLock(u, "read") /\ Holder(u).kind = "restore"
    /\ local' = [local EXCEPT ![u] = remote[u]]
    /\ LET r == Holder(u).rule
       IN  IF ~Live(r, u) THEN Release(u, TRUE) /\ UNCHANGED rows
           ELSE \/ /\ remote[u].limit # RestoreTo(r, u)
                   /\ override' = Carried(r, u)
                   /\ Send(u, "restore", remote[u].groups, RestoreTo(r, u), Own(r, u))
                   /\ UNCHANGED member
                \/ /\ remote[u].limit = RestoreTo(r, u)
                   /\ override' = Marked(Carried(r, u), {<<r, u>>}, "restored")
                   /\ Release(u, TRUE)
                   /\ UNCHANGED member
    /\ UNCHANGED <<rules, remote, granted, lookup, now, used>>

\* getUser or a part of refreshUser fails; a restoration marks its row.
ReadFails(u) ==
    /\ AtLock(u, "read")
    /\ override' = IF Holder(u).kind = "restore"
                   THEN Marked(override, {<<Holder(u).rule, u>>}, "failed") ELSE override
    /\ Release(u, FALSE)
    /\ UNCHANGED <<rules, member, copies, lookup, now, used>>

-----------------------------------------------------------------------------
(* The write upstream and what follows it.                                 *)

\* The user once the write of section[u] has taken effect.
Written(u) ==
    LET s == section[u]
    IN  [groups |-> IF s.write \in {"grant", "revoke"} THEN s.groups ELSE remote[u].groups,
         limit |-> IF s.to = NoLimit THEN remote[u].limit ELSE s.to]

Given(u) == IF section[u].write = "grant" THEN {<<Holder(u).rule, u>>} ELSE {}

Land(u) == remote' = [remote EXCEPT ![u] = Written(u)] /\ granted' = granted \cup Given(u)

\* A membership of a rule deleted meanwhile cannot be stored.
AfterWrite ==
    [grant |-> "managed", keep |-> "managed", revoke |-> "revoked", missing |-> "revoked"]

WriteSucceeds(u) ==
    /\ AtLock(u, "write")
    /\ LET r == Holder(u).rule
           w == section[u].write
       IN  /\ Land(u)
           /\ local' = [local EXCEPT ![u] = Written(u)]
           /\ override' = Marked(override, section[u].mark,
                                 IF w \in {"grant", "keep"} THEN "active" ELSE "restored")
           /\ IF w = "restore" \/ stage[r] # "live" THEN UNCHANGED member
              ELSE Become(r, u, AfterWrite[w])
           /\ Release(u, stage[r] = "live")
    /\ UNCHANGED <<rules, lookup, now, used>>

\* Faulty variant: the membership is written off although the write has failed.
WriteFailsWrittenOff(u) ==
    /\ AtLock(u, "write")
    /\ Land(u) \/ UNCHANGED <<remote, granted>>
    /\ override' = Marked(override, section[u].mark, "failed")
    /\ IF section[u].write = "revoke" THEN Become(Holder(u).rule, u, "revoked") ELSE UNCHANGED member
    /\ Release(u, FALSE)
    /\ UNCHANGED <<rules, local, lookup, now, used>>

\* An error comes back, whether or not the write has taken effect.
WriteFails(u) ==
    /\ AtLock(u, "write")
    /\ Land(u) \/ UNCHANGED <<remote, granted>>
    /\ override' = Marked(override, section[u].mark, "failed")
    /\ Release(u, FALSE)
    /\ UNCHANGED <<rules, member, local, lookup, now, used>>

-----------------------------------------------------------------------------
(* #executeOnce, one at a time per rule.                                   *)

\* The managed members are listed once, at the start.
BeginRun(r, mode) ==
    /\ run[r].mode = "none" /\ stage[r] = "live"
    /\ run' = [run EXCEPT ![r] =
                  [mode |-> mode, todo |-> {u \in Users : member[r][u] = "managed"},
                   busy |-> FALSE, failed |-> FALSE, fresh |-> terms[r].revokeAt <= now]]

RunNext(r) ==
    /\ run[r].mode # "none" /\ ~run[r].busy
    /\ \E u \in run[r].todo :
          /\ Enqueue(u, [kind |-> "revoke", rule |-> r])
          /\ run' = [run EXCEPT ![r].todo = @ \ {u}, ![r].busy = TRUE]
    /\ UNCHANGED <<rules, rows, copies, section, request, sched, lookup, now, used>>

\* Faulty variant: a run counts whether or not every user was revoked.
RunEndAnyway(r) ==
    /\ run[r].mode # "none" /\ ~run[r].busy /\ run[r].todo = {}
    /\ run' = [run EXCEPT ![r] = NoRun]
    /\ expired' = [expired EXCEPT ![r] = @ \/ (run[r].mode = "expire" /\ run[r].fresh)]
    /\ IF run[r].mode = "delete"
       THEN /\ stage' = [stage EXCEPT ![r] = "deleted"]
            /\ override' = [override EXCEPT ![r] = [u \in Users |-> NoRow]]
       ELSE UNCHANGED <<stage, override>>
    /\ sched' = IF run[r].mode = "expire" THEN [sched EXCEPT !.busy = FALSE] ELSE sched
    /\ UNCHANGED <<enabled, terms, member, copies, locks, request, lookup, now, used>>

\* The run is recorded; deleteRule goes on when nobody failed, and with the rule
\* go its overrides, while its memberships only lose their rule.
RunEnd(r) ==
    /\ run[r].mode # "none" /\ ~run[r].busy /\ run[r].todo = {}
    /\ run' = [run EXCEPT ![r] = NoRun]
    /\ expired' = [expired EXCEPT ![r] =
                      @ \/ (run[r].mode = "expire" /\ ~run[r].failed /\ run[r].fresh)]
    /\ IF run[r].mode = "delete" /\ ~run[r].failed
       THEN /\ stage' = [stage EXCEPT ![r] = "deleted"]
            /\ override' = [override EXCEPT ![r] = [u \in Users |-> NoRow]]
       ELSE UNCHANGED <<stage, override>>
    /\ sched' = IF run[r].mode = "expire" THEN [sched EXCEPT !.busy = FALSE] ELSE sched
    /\ UNCHANGED <<enabled, terms, member, copies, locks, request, lookup, now, used>>

-----------------------------------------------------------------------------
(* The timer: runScheduledTasks.                                           *)

\* Faulty variant: a restoration that has failed once is not listed again.
DueRowsOnce ==
    {q \in Rules \X Users :
        /\ stage[q[1]] = "live" /\ terms[q[1]].ends <= now
        /\ override[q[1]][q[2]].status \in {"active", "pending"}}

DueRows ==
    {q \in Rules \X Users :
        stage[q[1]] = "live" /\ terms[q[1]].ends <= now /\ Live(q[1], q[2])}

DueRules == {r \in Rules : stage[r] = "live" /\ terms[r].revokeAt <= now /\ ~expired[r]}

Schedule ==
    /\ sched.phase = "idle" /\ DueRows \cup DueRules # {}
    /\ sched' = [NoSched EXCEPT !.phase = "restore", !.rows = DueRows]
    /\ UNCHANGED <<rules, rows, copies, locks, run, request, lookup, now, used>>

\* ORDER BY the end of the activity, then id.
FirstRow(q) ==
    /\ q \in sched.rows
    /\ \A p \in sched.rows :
          \/ terms[q[1]].ends < terms[p[1]].ends
          \/ /\ terms[q[1]].ends = terms[p[1]].ends
             /\ override[q[1]][q[2]].id <= override[p[1]][p[2]].id

SchedRestore ==
    /\ sched.phase = "restore" /\ ~sched.busy
    /\ \E q \in sched.rows :
          /\ FirstRow(q)
          /\ Enqueue(q[2], [kind |-> "restore", rule |-> q[1]])
          /\ sched' = [sched EXCEPT !.rows = @ \ {q}, !.busy = TRUE]
    /\ UNCHANGED <<rules, rows, copies, section, run, request, lookup, now, used>>

\* executeScheduled lists the due rules once ...
SchedDue ==
    /\ sched.phase = "restore" /\ ~sched.busy /\ sched.rows = {}
    /\ sched' = [sched EXCEPT !.phase = "revoke", !.due = DueRules]
    /\ UNCHANGED <<rules, rows, copies, locks, run, request, lookup, now, used>>

\* ... and runs them one after the other; a rule deleted meanwhile is an error.
SchedRevoke(r) ==
    /\ sched.phase = "revoke" /\ ~sched.busy /\ r \in sched.due
    /\ \A s \in sched.due : terms[r].revokeAt <= terms[s].revokeAt
    /\ IF stage[r] = "live"
       THEN BeginRun(r, "expire") /\ sched' = [sched EXCEPT !.due = @ \ {r}, !.busy = TRUE]
       ELSE sched' = [sched EXCEPT !.due = @ \ {r}] /\ UNCHANGED run
    /\ UNCHANGED <<rules, rows, copies, locks, request, lookup, now, used>>

SchedEnd ==
    /\ sched.phase = "revoke" /\ ~sched.busy /\ sched.due = {}
    /\ sched' = NoSched
    /\ UNCHANGED <<rules, rows, copies, locks, run, request, lookup, now, used>>

-----------------------------------------------------------------------------
(* Administration.                                                         *)

CreateRule(r, t) ==
    /\ stage[r] = "none"
    /\ stage' = [stage EXCEPT ![r] = "live"]
    /\ enabled' = [enabled EXCEPT ![r] = TRUE]
    /\ terms' = [terms EXCEPT ![r] = t]
    /\ UNCHANGED <<expired, rows, copies, locks, tasks, lookup, now, used>>

\* updated_at is set: no run so far counts as the revocation of the new terms.
UpdateRule(r, t, on) ==
    /\ stage[r] = "live" /\ Disturb("update")
    /\ terms' = [terms EXCEPT ![r] = t] /\ enabled' = [enabled EXCEPT ![r] = on]
    /\ expired' = [expired EXCEPT ![r] = FALSE]
    /\ run' = [run EXCEPT ![r].fresh = FALSE]
    /\ UNCHANGED <<stage, rows, copies, locks, request, sched, lookup, now>>

\* revokeNow disables the rule at once.  One request per rule at a time, and
\* none for a rule already disabled, bound the model.
RevokeNow(r) ==
    /\ stage[r] = "live" /\ enabled[r] /\ request[r] = "none"
    /\ enabled' = [enabled EXCEPT ![r] = FALSE]
    /\ expired' = [expired EXCEPT ![r] = FALSE]
    /\ run' = [run EXCEPT ![r].fresh = FALSE]
    /\ request' = [request EXCEPT ![r] = "revoke"]
    /\ UNCHANGED <<stage, terms, rows, copies, locks, sched, lookup, now, used>>

DeleteRule(r) ==
    /\ stage[r] = "live" /\ request[r] = "none" /\ Disturb("delete")
    /\ request' = [request EXCEPT ![r] = "delete"]
    /\ UNCHANGED <<rules, rows, copies, locks, run, sched, lookup, now>>

\* The execution asked for, when the one before it is over.
Requested(r) ==
    /\ request[r] # "none"
    /\ request' = [request EXCEPT ![r] = "none"]
    /\ BeginRun(r, request[r]) \/ (stage[r] # "live" /\ UNCHANGED run)
    /\ UNCHANGED <<rules, rows, copies, locks, sched, lookup, now, used>>

-----------------------------------------------------------------------------
(* The surroundings.                                                       *)

\* Another handler (an activity page, a check-in, a lottery) refreshes the user
\* without the lock: getUser has answered, the other answers are awaited.
LookupReads(u) ==
    /\ lookup[u] = NoLookup /\ Disturb("lookup")
    /\ lookup' = [lookup EXCEPT ![u] = remote[u]]
    /\ UNCHANGED <<rules, rows, copies, locks, tasks, now>>

LookupStores(u) ==
    /\ lookup[u] # NoLookup
    /\ local' = [local EXCEPT ![u] = lookup[u]]
    /\ lookup' = [lookup EXCEPT ![u] = NoLookup]
    /\ UNCHANGED <<rules, rows, remote, granted, locks, tasks, now, used>>

\* An administrator of Sub2API edits the groups of a user, not in the very
\* moment of a write (README.md asks for that).
ManualEdit(u, r) ==
    /\ section[u].pc # "write" /\ Disturb("edit")
    /\ remote' = [remote EXCEPT ![u].groups = IF r \in @ THEN @ \ {r} ELSE @ \cup {r}]
    /\ UNCHANGED <<rules, rows, local, granted, locks, tasks, lookup, now>>

\* Writes that are under way take effect or not.
Crash ==
    /\ Disturb("crash")
    /\ \E L \in SUBSET {u \in Users : section[u].pc = "write"} :
          /\ remote' = [u \in Users |-> IF u \in L THEN Written(u) ELSE remote[u]]
          /\ granted' = granted \cup UNION {Given(u) : u \in L}
    /\ queue' = [u \in Users |-> <<>>] /\ section' = [u \in Users |-> Outside]
    /\ run' = [r \in Rules |-> NoRun] /\ request' = [r \in Rules |-> "none"]
    /\ sched' = NoSched /\ lookup' = [u \in Users |-> NoLookup]
    /\ UNCHANGED <<rules, rows, local, now>>

Tick ==
    /\ now < Horizon /\ now' = now + 1
    /\ UNCHANGED <<rules, rows, copies, locks, tasks, lookup, used>>

-----------------------------------------------------------------------------
Enter(u)  == EnterClaim(u) \/ EnterRevoke(u) \/ EnterRestore(u)
Answer(u) == AnswerClaim(u) \/ AnswerRevoke(u) \/ AnswerRestore(u)
Settle(u) == ReadFails(u) \/ WriteSucceeds(u) \/ WriteFails(u)
Timer     == Schedule \/ SchedRestore \/ SchedDue \/ SchedEnd \/ \E r \in Rules : SchedRevoke(r)

Next ==
    \/ \E u \in Users :
          \/ Enter(u) \/ Answer(u) \/ Settle(u) \/ LookupReads(u) \/ LookupStores(u)
          \/ \E r \in Rules : Claim(r, u) \/ ManualEdit(u, r)
    \/ \E r \in Rules :
          \/ RunNext(r) \/ RunEnd(r) \/ RevokeNow(r) \/ DeleteRule(r) \/ Requested(r)
          \/ \E t \in Terms : CreateRule(r, t) \/ \E on \in BOOLEAN : UpdateRule(r, t, on)
    \/ Timer \/ Crash \/ Tick

Spec == Init /\ [][Next]_vars

\* The event loop serves jobs and the timer; every call ends; Sub2API does not
\* refuse for ever.
Fairness ==
    /\ WF_vars(Timer)
    /\ \A u \in Users : WF_vars(Enter(u)) /\ SF_vars(Answer(u)) /\ SF_vars(WriteSucceeds(u))
    /\ \A r \in Rules : WF_vars(RunNext(r)) /\ WF_vars(RunEnd(r)) /\ WF_vars(Requested(r))

FairSpec == Spec /\ Fairness

-----------------------------------------------------------------------------
(* Properties.                                                             *)

\* What a user had of other groups is never overwritten, and a group is taken away
\* only when this extension has given it (README: "用户原本就有的授权会标记为
\* preexisting，不会被扩展删除"; "不会覆盖用户的其他分组").
OwnGroup(u, r) ==
    /\ \A s \in Rules \ {r} : s \in remote'[u].groups <=> s \in remote[u].groups
    /\ r \in remote[u].groups \ remote'[u].groups => <<r, u>> \in granted

OnlyOwnGroups ==
    [][\A u \in Users :
          remote'[u].groups # remote[u].groups /\ "edit" \notin used' \ used
              => OwnGroup(u, Holder(u).rule)]_vars

\* A membership is written off only when the group has really gone.
RevokedMeansGone ==
    [][\A r \in Rules, u \in Users :
          member[r][u] = "managed" /\ member'[r][u] = "revoked" =>
              r \notin remote'[u].groups \/ "edit" \in used]_vars

\* An activity holds the concurrency of a user while its override is open; an
\* active one belongs to a user who has the group from it.
Holds(r, u) == Live(r, u) /\ (override[r][u].status = "active" => member[r][u] = "managed")

\* When no activity holds the concurrency of a user it is what it was before the
\* first of them, whichever order they end in and whatever fails on the way
\* (README: "活动结束时会恢复每个用户申请前的并发数").  True of two at a time, not of
\* three (MCGroupEntitlementLimit).
LimitReturns ==
    \A u \in Users :
        \/ \E r \in Rules : Holds(r, u)
        \/ AtLock(u, "write")
        \/ remote[u].limit = Base

\* A restored limit is taken up again by a claim of the same user only (README:
\* "活动结束时会恢复每个用户申请前的并发数").
RestoredUntilClaimed ==
    [][\A r \in Rules, u \in Users :
          override[r][u].status = "restored" /\ override'[r][u].status \notin {"restored", "none"} =>
              queue[u] # <<>> /\ Holder(u) = [kind |-> "claim", rule |-> r]]_vars

\* What an expired activity has granted is not left standing: a claim that was
\* queued at the end cannot outlive the revocation (the comment in claim).
ExpiredIsRevoked ==
    \A r \in Rules, u \in Users : expired[r] => member[r][u] # "managed"

\* Whomever a due run has found is revoked in the end, whatever fails and should
\* the process crash (README: "失败会在后续周期继续重试").
ExpiryIsRetried ==
    \A r \in Rules, u \in Users :
        run[r].mode = "expire" /\ u \in run[r].todo ~> member[r][u] # "managed"

\* A limit held beyond the end of its activity is given back in the end.
Held(r, u) ==
    /\ stage[r] = "live" /\ terms[r].ends <= now
    /\ override[r][u].status \notin {"none", "restored"}

RestoreIsRetried == \A r \in Rules, u \in Users : Held(r, u) ~> ~Held(r, u)
=============================================================================
