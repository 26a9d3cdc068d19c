------------------------------ MODULE GrantsPage ------------------------------
(***************************************************************************)
(* What an administrator is shown of a rule that grants a group, and does  *)
(* to it, while the server revokes on its own schedule: the page           *)
(* (web/src/views/admin/GroupGrantsView.vue) polls the rules and computes  *)
(* the state of each (web/src/domain/groupGrantLifecycle.ts) from its      *)
(* dates and its last run; the server (server/src/group-entitlements.js)   *)
(* decides from the dates and all runs what is still to revoke.  A toggle  *)
(* writes back the whole rule as the page had it.                          *)
(*                                                                         *)
(* One rule, one page that is looked at, and the requests of all           *)
(* administrators.  Abstracted: what a form holds but the dates and        *)
(* whether the rule is enabled (anything valid may be entered), the groups *)
(* to choose from, and what a run does to its members (GroupEntitlement):  *)
(* it succeeds or not, and `partial' is shown as `failed'.  Requests for   *)
(* the same kind of run that wait together are served by one run.  Forms   *)
(* count from the moment the server has them; only a toggle carries a copy *)
(* that may be out of date.                                                *)
(***************************************************************************)
EXTENDS Integers, FiniteSets

CONSTANTS
    Schedules,   \* [start, end, revoke] in units of time, 0 when the page opens;
                 \* Horizon + 1 is never
    Horizon,     \* bound on time
    MaxChanges,  \* bound on requests that change the rule
    MaxRuns,     \* bound on runs
    MaxAnswers   \* bound on answers under way to the page

VARIABLES
    now,
    rule,        \* group_entitlement_rules
    waiting,     \* runs asked for, that wait for the one before
    run,         \* #executeOnce
    last,        \* the newest row of group_entitlement_runs
    done,        \* starts of the expiry runs that have succeeded
    copy,        \* the rule as the page has it
    toggles,     \* under way to the server
    answers,     \* lists, and answers to toggles, under way to the page
    changes, runs

runVars  == <<run, last, done, runs>>
pageVars == <<copy, toggles, answers, changes>>
vars     == <<now, rule, waiting, runVars, pageVars>>

Times   == 0..Horizon
Never   == Horizon + 1
Modes   == {"expire", "revoke", "delete"}
NoRule  == [row |-> "none"]
Deleted == [row |-> "deleted"]
Rules   == [row : {"live"}, enabled : BOOLEAN, dates : Schedules, updated : Times]
Idle    == [mode |-> "none"]
NoRun   == [mode |-> "none", status |-> "none", started |-> -1]
RunRows == [mode : {"expire", "revoke"}, status : {"running", "succeeded", "failed"}, started : Times]
Copies  == [row : {"live"}, enabled : BOOLEAN, dates : Schedules, updated : Times,
            last : RunRows \cup {NoRun}]
Inputs  == [enabled : BOOLEAN, dates : Schedules]

TypeOK ==
    /\ now \in Times
    /\ rule \in Rules \cup {NoRule, Deleted} /\ copy \in Copies \cup {NoRule}
    /\ waiting \subseteq Modes /\ run \in [mode : Modes, started : Times] \cup {Idle}
    /\ last \in RunRows \cup {NoRun} /\ done \subseteq Times
    /\ toggles \subseteq Inputs /\ answers \subseteq Copies \cup {NoRule}
    /\ changes \in 0..MaxChanges /\ runs \in 0..MaxRuns

\* normalizeRuleInput.
ValidDates(d) ==
    /\ d.start < d.end \/ d.end = Never
    /\ d.revoke # Never => d.end # Never /\ d.revoke > d.end

\* The page is opened; there may be a rule that has not run yet.
Init ==
    /\ now = 0
    /\ rule \in {NoRule} \cup {r \in Rules : ValidDates(r.dates) /\ r.updated = now}
    /\ copy = NoRule
    /\ waiting = {} /\ run = Idle /\ last = NoRun /\ done = {}
    /\ toggles = {} /\ answers = {}
    /\ changes = 0 /\ runs = 0

-----------------------------------------------------------------------------
(* What both sides make of a rule.                                         *)

\* #executeScheduledRevocations: whether or not the rule is enabled.
Due ==
    /\ rule.row = "live" /\ rule.dates.revoke <= now
    /\ ~\E t \in done : t >= rule.updated /\ t >= rule.dates.revoke

\* #requireClaimable.
Claimable == rule.row = "live" /\ rule.enabled /\ rule.dates.start <= now /\ now < rule.dates.end

\* #ruleToApi with #lastExecution.
Api ==
    IF rule.row = "live"
    THEN [row |-> "live", enabled |-> rule.enabled, dates |-> rule.dates, updated |-> rule.updated,
          last |-> last]
    ELSE NoRule

\* A plausible fault: the last run, whatever has become of the rule since.
LastRun(c) == IF c.last.mode = "none" THEN "none" ELSE c.last.status

\* currentRevocationExecution: not a run of before the rule was changed.
CurrentRun(c) == IF c.last.mode = "none" \/ c.last.started < c.updated THEN "none" ELSE c.last.status

\* groupGrantLifecycleStatus.
Status(c, t) ==
    IF CurrentRun(c) = "failed" THEN "revoke_failed"
    ELSE IF ~c.enabled THEN IF CurrentRun(c) = "succeeded" THEN "revoked" ELSE "disabled"
    ELSE IF c.dates.start > t THEN "upcoming"
    ELSE IF c.dates.end > t THEN "active"
    ELSE IF c.dates.revoke = Never THEN "activity_ended"
    ELSE IF c.dates.revoke > t THEN "pending_revoke"
    ELSE IF CurrentRun(c) = "succeeded" THEN "revoked"
    ELSE "revoking"

-----------------------------------------------------------------------------
(* The administrators.  What a form sends may be anything, and counts from *)
(* the moment the server has it; a toggle sends what the page had.         *)

Change == changes < MaxChanges /\ changes' = changes + 1

\* save, then createRule.
CreateRule(input) ==
    /\ rule.row = "none" /\ ValidDates(input.dates) /\ Change
    /\ rule' = [row |-> "live", enabled |-> input.enabled, dates |-> input.dates, updated |-> now]
    /\ UNCHANGED <<now, waiting, runVars, copy, toggles, answers>>

\* The UPDATE of updateRule.
Store(input) ==
    rule' = [rule EXCEPT !.enabled = input.enabled, !.dates = input.dates, !.updated = now]

\* save, then updateRule.
UpdateRule(input) ==
    /\ rule.row = "live" /\ ValidDates(input.dates) /\ Change
    /\ Store(input)
    /\ UNCHANGED <<now, waiting, runVars, copy, toggles, answers>>

\* confirmRevoke; revokeNow disables the rule before it asks for a run.
RevokeNow ==
    /\ rule.row = "live" /\ Change
    /\ rule' = [rule EXCEPT !.enabled = FALSE, !.updated = now]
    /\ waiting' = waiting \cup {"revoke"}
    /\ UNCHANGED <<now, runVars, copy, toggles, answers>>

\* confirmDelete; deleteRule.
DeleteRule ==
    /\ rule.row = "live" /\ Change
    /\ waiting' = waiting \cup {"delete"}
    /\ UNCHANGED <<now, rule, runVars, copy, toggles, answers>>

-----------------------------------------------------------------------------
(* The page.                                                               *)

\* A poll or a refresh; polls do not wait for one another.
ListRules ==
    /\ Cardinality(answers) < MaxAnswers /\ answers' = answers \cup {Api}
    /\ UNCHANGED <<now, rule, waiting, runVars, copy, toggles, changes>>

\* In whatever order.
Arrive(c) ==
    /\ c \in answers /\ answers' = answers \ {c}
    /\ copy' = c
    /\ UNCHANGED <<now, rule, waiting, runVars, toggles, changes>>

\* toggleEnabled, with inputFromRule.
Toggle ==
    /\ copy.row = "live" /\ Change
    /\ toggles' = toggles \cup {[enabled |-> ~copy.enabled, dates |-> copy.dates]}
    /\ UNCHANGED <<now, rule, waiting, runVars, copy, answers>>

\* updateRule answers with the rule, which takes its place in the list; a rule that
\* is gone is an error.
ServeToggle(input) ==
    /\ input \in toggles /\ toggles' = toggles \ {input}
    /\ UNCHANGED <<now, waiting, runVars, copy, changes>>
    /\ IF rule.row = "live"
       THEN Store(input) /\ answers' = answers \cup {Api'}
       ELSE UNCHANGED <<rule, answers>>

-----------------------------------------------------------------------------
(* The server's runs.                                                      *)

\* The timer finds the rule due, and has the run wait for its turn.
Expire ==
    /\ Due /\ "expire" \notin waiting /\ run.mode # "expire" /\ runs < MaxRuns
    /\ waiting' = waiting \cup {"expire"}
    /\ UNCHANGED <<now, rule, runVars, pageVars>>

\* execute, then #executeOnce up to its first user.
BeginRun(m) ==
    /\ m \in waiting /\ run = Idle /\ waiting' = waiting \ {m}
    /\ IF rule.row = "live"
       THEN /\ runs < MaxRuns /\ runs' = runs + 1
            /\ run' = [mode |-> m, started |-> now]
            /\ last' = [mode |-> IF m = "expire" THEN m ELSE "revoke", status |-> "running", started |-> now]
       ELSE UNCHANGED <<runs, run, last>>
    /\ UNCHANGED <<now, rule, done, pageVars>>

\* The row is completed.  deleteRule goes on only when nobody failed.
EndRun(status) ==
    /\ run # Idle /\ run' = Idle
    /\ last' = [last EXCEPT !.status = status]
    /\ done' = IF run.mode = "expire" /\ status = "succeeded" THEN done \cup {run.started} ELSE done
    /\ rule' = IF run.mode = "delete" /\ status = "succeeded" THEN Deleted ELSE rule
    /\ UNCHANGED <<now, waiting, runs, pageVars>>

Crash ==
    /\ run # Idle \/ waiting # {}
    /\ run' = Idle /\ waiting' = {}
    /\ UNCHANGED <<now, rule, last, done, runs, pageVars>>

Tick ==
    /\ now < Horizon /\ now' = now + 1
    /\ UNCHANGED <<rule, waiting, runVars, pageVars>>

Next ==
    \/ \E input \in Inputs : CreateRule(input) \/ UpdateRule(input)
    \/ RevokeNow \/ DeleteRule
    \/ ListRules \/ Toggle
    \/ \E c \in answers : Arrive(c)
    \/ \E input \in toggles : ServeToggle(input)
    \/ Expire \/ \E m \in Modes : BeginRun(m)
    \/ \E status \in {"succeeded", "failed"} : EndRun(status)
    \/ Crash \/ Tick

Spec == Init /\ [][Next]_vars

-----------------------------------------------------------------------------
(* A property.                                                             *)

\* A page that is up to date, at a tick of its timer, says of an enabled rule what the
\* server makes of it, in whatever order changes, runs and failures came: a rule that
\* users can claim is never shown as over, a rule shown as active can be claimed, what
\* the timer has still to revoke is not shown as revoked, and a revocation shown as going
\* on is due or has begun.  Two runs may say `revoked' too early: one that an administrator
\* asked for, which a change overtook that enables the rule again, and one that began
\* before a deadline that was moved since.
StatusAgrees ==
    copy.row = "live" /\ copy = Api /\ rule.enabled =>
        LET status == Status(copy, now) IN
        /\ Claimable => status \in {"active", "revoke_failed"}
        /\ status = "active" => Claimable
        /\ Due => \/ status \in {"revoking", "revoke_failed"}
                  \/ status = "revoked" /\ (last.mode = "revoke" \/ last.started < rule.dates.revoke)
        /\ status = "revoking" => Due \/ last.status = "running"
=============================================================================
