------------------------------- MODULE Services -------------------------------
(***************************************************************************)
(* The services that meet nowhere but in the process they run in: an       *)
(* execution is one of `part', the others rest in a first state of theirs. *)
(*                                                                         *)
(* Modules that have proofs are taken with them, for ServicesProofs.       *)
(* Each property is that of its module.                                    *)
(***************************************************************************)
EXTENDS Checkin

CONSTANTS
    RedeemCodes, OwnCodes, Buyers, Spans, LedgerHorizon, MaxSyncs,        \* RechargeLedger
    Refreshes, PageSize,                                                  \* both of sync.js
    MaxId, Sweepers, SweepHorizon,                                        \* Directory
    Processes, LastVersion, Builds, Inspected,                            \* Migration
    Units, MaxTimeouts,                                                   \* PostgresBridge
    Sources, Limit, Window, Retention, LimitsHorizon, MaxRequests,        \* RequestLimits
    Tabs, AdminRequests, Lifetime, SessionHorizon, MaxSessions, MaxTokens,\* Sessions
    Schedules, PageHorizon, MaxChanges, MaxRevocations, MaxAnswers,       \* GrantsPage
    Forms, OldRules, RecentDays, Numbers, Statuses, Totals,               \* Rules
    MaxDepth, MaxNodes, MaxChildren

VARIABLES
    part,
    now, used, store, cursor, run, refresh, erased, runs,                 \* RechargeLedger
    sweepTime, members, issued, rows, sweep, upsert, left,                \* Directory
    dialect, version, applied, table, lock, proc,                         \* Migration
    main, state, length, bytes, mailbox, worker, answers, session,        \* PostgresBridge
    committed, outcome, timeouts,
    clock, buckets, lastCleanup, blocked, timer, logRows, admitted,       \* RequestLimits
    refused, mishap, requests,
    hour, standing, sessions, made, tokens, cookie, held, loads, calls,   \* Sessions
    last, crossed,
    pageTime, grantRule, asked, revoking, lastRun, expired, copy,         \* GrantsPage
    toggles, lists, changes, revocations,
    form, stored, shown                                                   \* Rules

ledgerVars    == <<now, used, store, cursor, run, refresh, erased, runs>>
directoryVars == <<sweepTime, members, issued, rows, sweep, upsert, left>>
schemaVars    == <<dialect, version, applied, table, lock, proc>>
bridgeVars    == <<main, state, length, bytes, mailbox, worker, answers, session, committed,
                   outcome, timeouts>>
limitsVars    == <<clock, buckets, lastCleanup, blocked, timer, logRows, admitted, refused,
                   mishap, requests>>
browserVars   == <<hour, standing, sessions, made, tokens, cookie, held, loads, calls, last,
                   crossed>>
pageVars      == <<pageTime, grantRule, asked, revoking, lastRun, expired, copy, toggles, lists,
                   changes, revocations>>
rulesVars     == <<form, stored, shown>>
allVars       == <<part, vars, ledgerVars, directoryVars, schemaVars, bridgeVars, limitsVars,
                   browserVars, pageVars, rulesVars>>

Ledger == INSTANCE RechargeLedgerProofs WITH
    Codes <- RedeemCodes, Rewards <- OwnCodes, Users <- Buyers, Horizon <- LedgerHorizon,
    MaxRuns <- MaxSyncs

Listed == INSTANCE Directory WITH
    Horizon <- SweepHorizon, now <- sweepTime, refresh <- upsert

Schema == INSTANCE Migration

Bridge == INSTANCE PostgresBridgeProofs

Limits == INSTANCE RequestLimitsProofs WITH
    Horizon <- LimitsHorizon, now <- clock, rows <- logRows

Browser == INSTANCE Sessions WITH
    Requests <- AdminRequests, Horizon <- SessionHorizon, now <- hour, answers <- loads,
    req <- calls

Page == INSTANCE GrantsPage WITH
    Horizon <- PageHorizon, MaxRuns <- MaxRevocations, now <- pageTime, rule <- grantRule,
    waiting <- asked, run <- revoking, last <- lastRun, done <- expired, answers <- lists,
    runs <- revocations

Conditions == INSTANCE Rules WITH Windows <- RecentDays

-----------------------------------------------------------------------------

Parts == {"checkin", "ledger", "directory", "schema", "bridge", "limits", "sessions", "page", "rules"}

ServicesInit ==
    /\ part \in Parts
    /\ Init /\ Ledger!Init /\ Listed!Init /\ Schema!Init /\ Bridge!Init /\ Limits!Init
    /\ Browser!Init /\ Page!Init /\ Conditions!Init

ServicesNext ==
    /\ UNCHANGED part
    /\ IF part = "checkin"   THEN Next         ELSE UNCHANGED vars
    /\ IF part = "ledger"    THEN Ledger!Next  ELSE UNCHANGED ledgerVars
    /\ IF part = "directory" THEN Listed!Next  ELSE UNCHANGED directoryVars
    /\ IF part = "schema"    THEN Schema!Next  ELSE UNCHANGED schemaVars
    /\ IF part = "bridge"    THEN Bridge!Next  ELSE UNCHANGED bridgeVars
    /\ IF part = "limits"    THEN Limits!Next  ELSE UNCHANGED limitsVars
    /\ IF part = "sessions"  THEN Browser!Next ELSE UNCHANGED browserVars
    /\ IF part = "page"      THEN Page!Next    ELSE UNCHANGED pageVars
    /\ IF part = "rules"     THEN Conditions!Next ELSE UNCHANGED rulesVars

ServicesSpec == ServicesInit /\ [][ServicesNext]_allVars

-----------------------------------------------------------------------------

\* Every variable of the part that moves has its type.
PartTypeOK ==
    CASE part = "checkin"   -> TypeOK
      [] part = "ledger"    -> Ledger!TypeOK
      [] part = "directory" -> Listed!TypeOK
      [] part = "schema"    -> Schema!TypeOK
      [] part = "bridge"    -> Bridge!TypeOK
      [] part = "limits"    -> Limits!TypeOK
      [] part = "sessions"  -> Browser!TypeOK
      [] part = "page"      -> Page!TypeOK
      [] part = "rules"     -> Conditions!TypeOK

\* A refresh leaves the recharges of its window complete (sync.js, refreshUser).
RecentIsExact == Ledger!RecentIsExact

\* What the synchronisation will not read again is in the ledger (sync.js, #syncRedeemCodes).
LedgerComplete == part = "ledger" => Ledger!LedgerComplete

\* A sweep deletes no one who is listed upstream (sync.js, #syncUsers, #syncGroups).
ListedIsKept == Listed!ListedIsKept

\* Processes that start together leave the schema complete (db.js, postgres-worker.js).
SchemaComplete == part = "schema" => Schema!SchemaComplete

\* A query is given its own answer (postgres-database.js, #waitForResponse).
OwnAnswer == part = "bridge" => Bridge!OwnAnswer

\* A transaction is what its caller was told (db.js, transaction).
UnitsAtomic == part = "bridge" => Bridge!UnitsAtomic

\* A source has its limit in each window, whatever is cleaned up (rate-limiter.js).
LimitHolds == part = "limits" => Limits!LimitHolds

\* No refused request is lost or counted twice on its way to the log (request-logs.js).
RefusedAreCounted == part = "limits" => Limits!RefusedAreCounted

\* The administration is for current administrators (http.js, #verifyCurrentAdmin).
AdminIsCurrent == Browser!AdminIsCurrent

\* The tab that loaded the session last can use it (sessions.js, csrfTokenForSession).
TokenInStep == part = "sessions" => Browser!TokenInStep

\* Administrators are shown what the server makes of a rule (groupGrantLifecycle.ts).
StatusAgrees == part = "page" => Page!StatusAgrees

\* A condition means the same after it was shown and saved again (rules.js).
MeaningIsKept == Conditions!MeaningIsKept

\* Evaluation, reasons, needed windows and the browser agree (rules.js, conditions.ts).
VerdictsAgree == part = "rules" => Conditions!VerdictsAgree
=============================================================================
