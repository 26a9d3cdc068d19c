------------------------------- MODULE Checkin -------------------------------
(***************************************************************************)
(* The daily check-in of one campaign (server/src/activities.js).          *)
(*                                                                         *)
(* A request reads the campaign and the local date, awaits the upstream    *)
(* user, records the check-in, and awaits the redemption of the reward; a  *)
(* request of the same day whose reward had failed redeems it again.  What *)
(* it has read before an await it uses after it.  Processes that share the *)
(* database behave like more requests.  An answer may be lost, and a call  *)
(* may take effect after its caller has given up or died.                  *)
(*                                                                         *)
(* Abstracted: the rule (the awaited user satisfies it or not), instants   *)
(* within a day, names, notes, audit rows.  A reward_value of 0 stands for *)
(* the reward type `none', the other values for `balance'.                 *)
(***************************************************************************)
EXTENDS Integers, FiniteSets

CONSTANTS
    Users,
    Requests,
    LastDay,     \* bound on the calendar, days 0..LastDay
    Values,      \* amounts an administrator may set
    Windows,     \* pairs <<starts_at, ends_at>>, in days
    MaxEdits,    \* bound on updates of the campaign
    MaxCrashes   \* bound on crashes

\* A balance reward is more than nothing.
ASSUME CheckinAssumption ==
    LastDay \in Nat /\ MaxEdits \in Nat /\ MaxCrashes \in Nat /\ Values \subseteq Nat \ {0}

VARIABLES
    campaign,    \* the row of checkin_campaigns
    day,         \* localDate(activityTimeZone)
    records,     \* checkin_records, by user and local_date
    req,         \* requests between their statements
    inTransit,   \* redemptions upstream has not answered to yet
    credits,     \* redemptions upstream has made
    edits, crashes

vars == <<campaign, day, records, req, inTransit, credits, edits, crashes>>

Days      == 0..LastDay
Amounts   == Values \cup {0}
Settings  == [published : BOOLEAN, value : Amounts, window : Windows]
Campaigns == [row : {"live"}, published : BOOLEAN, value : Amounts, window : Windows]
NoCampaign == [row |-> "none"]
Deleted    == [row |-> "deleted"]
Codes     == [user : Users, date : Days, serial : Amounts]
Rewards   == {"none", "pending", "succeeded", "failed"}

\* The rows of one user and day; created is the day of created_at.
NoRow  == [reward |-> "absent", streak |-> 0, created |-> 0]
Row    == [reward : Rewards, streak : 1..LastDay + 1, created : Days]

\* user, date and value are what the request has read at its start.
Flights == [phase : {"refresh", "redeem"}, user : Users, date : Days, value : Amounts]
Idle    == [phase |-> "idle"]

TypeOK ==
    /\ campaign \in Campaigns \cup {NoCampaign, Deleted} /\ day \in Days
    /\ records \in [Users -> [Days -> Row \cup {NoRow}]]
    /\ req \in [Requests -> Flights \cup {Idle}]
    /\ inTransit \subseteq Codes /\ credits \subseteq Codes
    /\ edits \in 0..MaxEdits /\ crashes \in 0..MaxCrashes

Init ==
    /\ campaign = NoCampaign
    /\ day = 0
    /\ records = [u \in Users |-> [d \in Days |-> NoRow]]
    /\ req = [q \in Requests |-> Idle]
    /\ inTransit = {} /\ credits = {}
    /\ edits = 0 /\ crashes = 0

-----------------------------------------------------------------------------

Has(u, d)       == records[u][d].reward # "absent"
SetRow(u, d, r) == records' = [records EXCEPT ![u][d] = r]
Rest(q)         == req' = [req EXCEPT ![q] = Idle]

\* windowStatus: the end itself is outside.
WindowActive == campaign.window[1] <= day /\ day < campaign.window[2]

\* What a user is shown: #checkinSummary.
Dates(u)  == {d \in Days : Has(u, d)}
Latest(u) == CHOOSE d \in Dates(u) : \A e \in Dates(u) : e <= d
Summary(u) ==
    [checked_today |-> Has(u, day),
     total_days    |-> Cardinality(Dates(u)),
     streak_days   |-> IF Dates(u) = {} THEN 0
                       ELSE records[u][IF Has(u, day) THEN day ELSE Latest(u)].streak,
     reward_status |-> IF Has(u, day) THEN records[u][day].reward ELSE "none"]

-----------------------------------------------------------------------------
(* Plausible faults, against which the properties below are tried.          *)

\* A code made from the date and the amount instead of the record.
CodeOfAmount(u, d) == [user |-> u, date |-> d, serial |-> campaign.value]

\* A streak that continues from the latest record, whatever its date.
NextStreakOfLatest(u, d) == IF Dates(u) = {} THEN 1 ELSE records[u][Latest(u)].streak + 1

\* A campaign deleted together with its check-ins.
DeleteWithRecords ==
    /\ campaign.row = "live" /\ campaign' = Deleted
    /\ records' = [u \in Users |-> [d \in Days |-> NoRow]]
    /\ UNCHANGED <<day, req, inTransit, credits, edits, crashes>>

\* A reward that is owed if the campaign has one by now.
RecordOfCampaign(q) ==
    LET f == req[q] IN
    IF Has(f.user, f.date) THEN UNCHANGED records
    ELSE SetRow(f.user, f.date, [reward  |-> IF campaign.value > 0 THEN "pending" ELSE "none",
                                 streak  |-> 1, created |-> day])

-----------------------------------------------------------------------------
(* Administration.                                                         *)

\* normalizeCheckinInput: the end lies after the start.
ValidInput(s) == s.window[1] < s.window[2]

StoreSettings(s) ==
    campaign' = [row |-> "live", published |-> s.published, value |-> s.value,
                 window |-> s.window]

CreateCheckin(s) ==
    /\ campaign.row = "none" /\ ValidInput(s) /\ StoreSettings(s)
    /\ UNCHANGED <<day, records, req, inTransit, credits, edits, crashes>>

UpdateCheckin(s) ==
    /\ campaign.row = "live" /\ ValidInput(s) /\ StoreSettings(s)
    /\ edits < MaxEdits /\ edits' = edits + 1
    /\ UNCHANGED <<day, records, req, inTransit, credits, crashes>>

\* Only without records; a request may still be awaiting its user.
DeleteCheckin ==
    /\ campaign.row = "live" /\ \A u \in Users : Dates(u) = {}
    /\ campaign' = Deleted
    /\ UNCHANGED <<day, records, req, inTransit, credits, edits, crashes>>

-----------------------------------------------------------------------------
(* checkin.                                                                *)

\* #nextStreak: yesterday's row alone decides.
NextStreak(u, d) ==
    IF d > 0 /\ Has(u, d - 1) THEN records[u][d - 1].streak + 1 ELSE 1

\* #issueCheckinReward: code and idempotency key derive from the record.
Code(u, d) == [user |-> u, date |-> d, serial |-> 0]

Redeem(q, u, d, v) ==
    /\ req' = [req EXCEPT ![q] = [phase |-> "redeem", user |-> u, date |-> d, value |-> v]]
    /\ inTransit' = inTransit \cup {Code(u, d)}

\* Up to the first await.  A record of today leaves only a failed reward to do.
Begin(q, u) ==
    /\ req[q].phase = "idle"
    /\ campaign.row = "live" /\ campaign.published /\ WindowActive
    /\ IF Has(u, day)
       THEN /\ campaign.value > 0 /\ records[u][day].reward = "failed"
            /\ Redeem(q, u, day, campaign.value)
       ELSE /\ req' = [req EXCEPT ![q] = [phase |-> "refresh", user |-> u, date |-> day,
                                          value |-> campaign.value]]
            /\ UNCHANGED inTransit
    /\ UNCHANGED <<campaign, day, records, credits, edits, crashes>>

\* The user cannot be read, or may not check in.
Refuse(q) ==
    /\ req[q].phase = "refresh" /\ Rest(q)
    /\ UNCHANGED <<campaign, day, records, inTransit, credits, edits, crashes>>

\* INSERT ... ON CONFLICT DO NOTHING.
Record(q) ==
    LET f == req[q] IN
    IF Has(f.user, f.date) THEN UNCHANGED records
    ELSE SetRow(f.user, f.date, [reward  |-> IF f.value > 0 THEN "pending" ELSE "none",
                                 streak  |-> NextStreak(f.user, f.date),
                                 created |-> day])

\* The user is eligible.  The insert fails on a deleted campaign (foreign key);
\* only the request that has made the record goes on to its reward.
Accept(q) ==
    LET f == req[q] IN
    /\ f.phase = "refresh"
    /\ IF campaign.row = "deleted" THEN UNCHANGED records ELSE Record(q)
    /\ IF campaign.row # "deleted" /\ ~Has(f.user, f.date) /\ f.value > 0
       THEN Redeem(q, f.user, f.date, f.value)
       ELSE Rest(q) /\ UNCHANGED inTransit
    /\ UNCHANGED <<campaign, day, credits, edits, crashes>>

\* What the call came to is written by record id, whatever the row holds by now.
Outcome(q, reward) ==
    /\ SetRow(req[q].user, req[q].date, [records[req[q].user][req[q].date] EXCEPT !.reward = reward])
    /\ Rest(q)
    /\ UNCHANGED <<campaign, day, inTransit, credits, edits, crashes>>

RedeemSucceeds(q) ==
    req[q].phase = "redeem" /\ Code(req[q].user, req[q].date) \in credits /\ Outcome(q, "succeeded")

RedeemFails(q) == req[q].phase = "redeem" /\ Outcome(q, "failed")

-----------------------------------------------------------------------------
(* The surroundings.                                                       *)

\* Upstream redeems a code once; a repeated call finds it redeemed.
UpstreamRedeems(c) ==
    /\ c \in inTransit /\ inTransit' = inTransit \ {c}
    /\ credits' = credits \cup {c}
    /\ UNCHANGED <<campaign, day, records, req, edits, crashes>>

UpstreamDrops(c) ==
    /\ c \in inTransit /\ inTransit' = inTransit \ {c}
    /\ UNCHANGED <<campaign, day, records, req, credits, edits, crashes>>

Midnight ==
    /\ day < LastDay /\ day' = day + 1
    /\ UNCHANGED <<campaign, records, req, inTransit, credits, edits, crashes>>

Crash ==
    /\ crashes < MaxCrashes /\ crashes' = crashes + 1
    /\ req' = [q \in Requests |-> Idle]
    /\ UNCHANGED <<campaign, day, records, inTransit, credits, edits>>

Next ==
    \/ \E s \in Settings : CreateCheckin(s) \/ UpdateCheckin(s)
    \/ DeleteCheckin
    \/ \E q \in Requests : \/ Refuse(q) \/ Accept(q) \/ RedeemSucceeds(q) \/ RedeemFails(q)
                            \/ \E u \in Users : Begin(q, u)
    \/ \E c \in inTransit : UpstreamRedeems(c) \/ UpstreamDrops(c)
    \/ Midnight \/ Crash

Spec == Init /\ [][Next]_vars

-----------------------------------------------------------------------------
(* Properties.                                                             *)

\* However often a user asks, retries or is answered late, a day is credited
\* once, and a reward is reported as paid only when it was
\* (activities.test.js:58, "签到同一天只记录并奖励一次").
OnceADay ==
    /\ \A c, e \in credits : c.user = e.user /\ c.date = e.date => c = e
    /\ \A u \in Users, d \in Days :
          records[u][d].reward = "succeeded" =>
              \E c \in credits : c.user = u /\ c.date = d

\* A streak never counts a day without a record; it continues the streak of the
\* day before unless that day was only recorded after its midnight; and no user
\* is shown a streak longer than the days checked in.
StreakCounts ==
    \A u \in Users :
        /\ \A d \in Dates(u) : LET row == records[u][d] IN
              /\ \A k \in 0..row.streak - 1 : d - k \in Dates(u)
              /\ d - 1 \in Dates(u) /\ records[u][d - 1].created = d - 1 =>
                     row.streak = records[u][d - 1].streak + 1
        /\ Summary(u).streak_days <= Summary(u).total_days

\* A reward is undecided only while a request awaits its redemption, so that it is
\* decided when the client's time limit has passed, unless a process died.
PendingIsUnderWay ==
    \A u \in Users, d \in Days :
        records[u][d].reward = "pending" =>
            \/ \E q \in Requests : req[q].phase = "redeem" /\ req[q].user = u /\ req[q].date = d
            \/ crashes > 0
=============================================================================
