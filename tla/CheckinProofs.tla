----------------------------- MODULE CheckinProofs -----------------------------
(***************************************************************************)
(* Proofs about Checkin for every set of users, requests and amounts, any  *)
(* calendar and any number of crashes.                                     *)
(***************************************************************************)
EXTENDS Checkin, FiniteSetTheorems, WellFoundedInduction, TLAPS

\* A redemption is of a check-in that is there.
FlightsRecorded ==
    \A q \in Requests : req[q].phase = "redeem" => Has(req[q].user, req[q].date)

\* Nobody is ahead of the calendar.
NothingAhead ==
    /\ \A u \in Users, d \in Days : Has(u, d) => d <= day
    /\ \A q \in Requests : req[q].phase # "idle" => req[q].date <= day

\* The two halves of a correct streak.
Unbroken(u, d)  == \A k \in 0..records[u][d].streak - 1 : d - k \in Dates(u)
Continues(u, d) ==
    d - 1 \in Dates(u) /\ records[u][d - 1].created = d - 1 =>
        records[u][d].streak = records[u][d - 1].streak + 1
StreakInv == \A u \in Users : \A d \in Dates(u) : Unbroken(u, d) /\ Continues(u, d)

\* Only codes of records are sent, and success is written for a redeemed one.
CreditInv ==
    /\ \A c \in inTransit \cup credits : c = Code(c.user, c.date)
    /\ \A u \in Users, d \in Days : records[u][d].reward = "succeeded" => Code(u, d) \in credits

IInv == TypeOK /\ FlightsRecorded /\ NothingAhead /\ StreakInv /\ CreditInv /\ PendingIsUnderWay

-----------------------------------------------------------------------------
(* Rows, flights and codes.                                                *)

LEMMA RowOf ==
    ASSUME TypeOK, NEW u \in Users, NEW d \in Days
    PROVE  /\ records[u][d] \in Row \cup {NoRow}
           /\ Has(u, d) <=> records[u][d] \in Row
           /\ ~Has(u, d) <=> records[u][d] = NoRow
  BY DEF TypeOK, Has, Row, NoRow, Rewards

LEMMA FlightTyped ==
    ASSUME TypeOK, NEW q \in Requests, req[q].phase # "idle"
    PROVE  /\ req[q] \in Flights
           /\ req[q].user \in Users /\ req[q].date \in Days /\ req[q].value \in Amounts
  BY DEF TypeOK, Idle, Flights

LEMMA CodeTyped ==
    ASSUME NEW u \in Users, NEW d \in Days
    PROVE  Code(u, d) \in Codes
  BY DEF Code, Codes, Amounts

LEMMA SetRowTyped ==
    ASSUME TypeOK, NEW u \in Users, NEW d \in Days, NEW r \in Row, SetRow(u, d, r)
    PROVE  /\ records' \in [Users -> [Days -> Row \cup {NoRow}]]
           /\ records'[u][d] = r
           /\ \A v \in Users, e \in Days : v # u \/ e # d => records'[v][e] = records[v][e]
  BY DEF SetRow, TypeOK

\* An unbroken streak does not begin before the first day.
LEMMA StreakBounded ==
    ASSUME TypeOK, StreakInv, NEW u \in Users, NEW d \in Days, Has(u, d)
    PROVE  records[u][d].streak \in 1..d + 1
  <1>1. records[u][d].streak \in 1..LastDay + 1
    BY RowOf DEF Row
  <1>2. Unbroken(u, d)
    BY DEF StreakInv, Dates
  <1>3. ASSUME records[u][d].streak > d + 1 PROVE FALSE
    <2>1. d + 1 \in 0..records[u][d].streak - 1
      BY <1>1, <1>3, CheckinAssumption DEF Days
    <2>2. d - (d + 1) \in Dates(u)
      BY <1>2, <2>1 DEF Unbroken
    <2> QED
      BY <2>2, CheckinAssumption DEF Dates, Days
  <1> QED
    BY <1>1, <1>3, CheckinAssumption DEF Days

LEMMA NextStreakTyped ==
    ASSUME TypeOK, StreakInv, NEW u \in Users, NEW d \in Days
    PROVE  NextStreak(u, d) \in 1..LastDay + 1
  <1>1. CASE d > 0 /\ Has(u, d - 1)
    <2>1. d - 1 \in Days
      BY <1>1, CheckinAssumption DEF Days
    <2>2. records[u][d - 1].streak \in 1..(d - 1) + 1
      BY <1>1, <2>1, StreakBounded
    <2> QED
      BY <1>1, <2>2, CheckinAssumption DEF NextStreak, Days
  <1>2. CASE ~(d > 0 /\ Has(u, d - 1))
    BY <1>2, CheckinAssumption DEF NextStreak
  <1> QED
    BY <1>1, <1>2

\* What writing the outcome of a redemption does to the rows.
LEMMA OutcomeRow ==
    ASSUME TypeOK, FlightsRecorded, NEW q \in Requests, NEW reward \in Rewards,
           req[q].phase = "redeem", Outcome(q, reward)
    PROVE  \E u \in Users, d \in Days :
              /\ u = req[q].user /\ d = req[q].date /\ Has(u, d)
              /\ SetRow(u, d, [records[u][d] EXCEPT !.reward = reward])
              /\ [records[u][d] EXCEPT !.reward = reward] \in Row
              /\ records'[u][d].streak = records[u][d].streak
              /\ records'[u][d].created = records[u][d].created
              /\ records'[u][d].reward = reward
  <1> DEFINE u == req[q].user
             d == req[q].date
             r == [records[u][d] EXCEPT !.reward = reward]
  <1>1. u \in Users /\ d \in Days
    BY FlightTyped
  <1>2. Has(u, d)
    BY DEF FlightsRecorded
  <1>3. records[u][d] \in Row
    BY <1>1, <1>2, RowOf
  <1>4. /\ r \in Row /\ r.streak = records[u][d].streak
        /\ r.created = records[u][d].created /\ r.reward = reward
    BY <1>3 DEF Row
  <1>5. SetRow(u, d, r)
    BY DEF Outcome
  <1>6. records'[u][d] = r
    BY <1>1, <1>4, <1>5, SetRowTyped
  <1>7. records'[u][d].streak = records[u][d].streak
    BY <1>4, <1>6
  <1>8. records'[u][d].created = records[u][d].created
    BY <1>4, <1>6
  <1>9. records'[u][d].reward = reward
    BY <1>4, <1>6
  <1>10. u \in Users
    BY <1>1
  <1>11. d \in Days
    BY <1>1
  <1> WITNESS u \in Users, d \in Days
  <1> QED
    BY <1>2, <1>4, <1>5, <1>7, <1>8, <1>9

\* What recording a check-in does to the rows.
NewRow(q) ==
    [reward  |-> IF req[q].value > 0 THEN "pending" ELSE "none",
     streak  |-> NextStreak(req[q].user, req[q].date),
     created |-> day]

LEMMA NewRowTyped ==
    ASSUME TypeOK, StreakInv, NEW q \in Requests, req[q].phase # "idle"
    PROVE  NewRow(q) \in Row
  <1>1. NextStreak(req[q].user, req[q].date) \in 1..LastDay + 1
    BY FlightTyped, NextStreakTyped
  <1> QED
    BY <1>1 DEF NewRow, Row, Rewards, TypeOK

-----------------------------------------------------------------------------
(* The invariant holds at first.                                           *)

LEMMA InitInvariant == Init => IInv
  <1> SUFFICES ASSUME Init PROVE IInv
    OBVIOUS
  <1> USE CheckinAssumption DEF Init
  <1>1. TypeOK
    BY DEF TypeOK, Days, NoRow, Idle, NoCampaign
  <1>2. \A u \in Users, d \in Days : ~Has(u, d) /\ records[u][d].reward = "absent"
    BY DEF Has, NoRow
  <1>3. FlightsRecorded /\ NothingAhead
    BY <1>2 DEF FlightsRecorded, NothingAhead, Idle
  <1>4. StreakInv
    BY <1>2 DEF StreakInv, Dates
  <1>5. CreditInv /\ PendingIsUnderWay
    BY <1>2 DEF CreditInv, PendingIsUnderWay
  <1> QED
    BY <1>1, <1>3, <1>4, <1>5 DEF IInv

-----------------------------------------------------------------------------
(* Every step keeps it.  Most steps leave the rows alone.                  *)

RowsKept == UNCHANGED records

LEMMA SameRows ==
    ASSUME RowsKept
    PROVE  /\ \A u, d : Has(u, d)' <=> Has(u, d)
           /\ \A u : Dates(u)' = Dates(u)
           /\ StreakInv => StreakInv'
  BY DEF RowsKept, Has, Dates, StreakInv, Unbroken, Continues

\* A step that sends a request on its way with a redemption.
LEMMA RedeemTyped ==
    ASSUME TypeOK, NEW q \in Requests, NEW u \in Users, NEW d \in Days, NEW v \in Amounts,
           Redeem(q, u, d, v)
    PROVE  /\ req' \in [Requests -> Flights \cup {Idle}]
           /\ inTransit' \subseteq Codes
           /\ req'[q] = [phase |-> "redeem", user |-> u, date |-> d, value |-> v]
           /\ \A p \in Requests \ {q} : req'[p] = req[p]
           /\ inTransit' = inTransit \cup {Code(u, d)}
  BY CodeTyped DEF Redeem, TypeOK, Flights

LEMMA RestTyped ==
    ASSUME TypeOK, NEW q \in Requests, Rest(q)
    PROVE  /\ req' \in [Requests -> Flights \cup {Idle}]
           /\ req'[q] = Idle
           /\ \A p \in Requests \ {q} : req'[p] = req[p]
  BY DEF Rest, TypeOK

\* The code of a record names it.
LEMMA CodeNames ==
    ASSUME NEW u, NEW d
    PROVE  Code(u, d).user = u /\ Code(u, d).date = d /\ Code(u, d) = Code(Code(u, d).user, Code(u, d).date)
  BY DEF Code

LEMMA AdministrationKeeps ==
    ASSUME IInv, DeleteCheckin \/ \E s \in Settings : CreateCheckin(s) \/ UpdateCheckin(s)
    PROVE  IInv'
  <1>1. /\ campaign' \in Campaigns \cup {NoCampaign, Deleted} /\ edits' \in 0..MaxEdits
        /\ UNCHANGED <<day, records, req, inTransit, credits, crashes>>
    BY CheckinAssumption DEF IInv, TypeOK, CreateCheckin, UpdateCheckin, DeleteCheckin, StoreSettings,
       Settings, Campaigns
  <1>2. RowsKept
    BY <1>1 DEF RowsKept
  <1>3. TypeOK' /\ StreakInv'
    BY <1>1, <1>2, SameRows DEF IInv, TypeOK
  <1>4. FlightsRecorded' /\ NothingAhead' /\ PendingIsUnderWay'
    BY <1>1, <1>2, SameRows DEF IInv, FlightsRecorded, NothingAhead, PendingIsUnderWay
  <1>5. CreditInv'
    BY <1>1 DEF IInv, CreditInv, Code
  <1> QED
    BY <1>3, <1>4, <1>5 DEF IInv

LEMMA SurroundingsKeep ==
    ASSUME IInv, \/ \E c \in inTransit : UpstreamRedeems(c) \/ UpstreamDrops(c)
                 \/ Midnight \/ Crash
    PROVE  IInv'
  <1> USE DEF IInv
  <1>1. UNCHANGED <<campaign, records, edits>>
    BY DEF UpstreamRedeems, UpstreamDrops, Midnight, Crash
  <1>2. RowsKept
    BY <1>1 DEF RowsKept
  <1>3. /\ day' \in Days /\ day' >= day /\ crashes' \in 0..MaxCrashes
        /\ inTransit' \subseteq inTransit /\ credits \subseteq credits'
        /\ credits' \subseteq inTransit \cup credits
    BY CheckinAssumption DEF UpstreamRedeems, UpstreamDrops, Midnight, Crash, TypeOK, Days
  <1>4. \/ req' = req /\ crashes' = crashes
        \/ crashes' > 0 /\ req' = [q \in Requests |-> Idle]
    <2>1. CASE \E c \in inTransit : UpstreamRedeems(c) \/ UpstreamDrops(c)
      BY <2>1 DEF UpstreamRedeems, UpstreamDrops
    <2>2. CASE Midnight
      BY <2>2 DEF Midnight
    <2>3. CASE Crash
      BY <2>3, CheckinAssumption DEF Crash, TypeOK
    <2> QED
      BY <2>1, <2>2, <2>3
  <1>5. TypeOK' /\ StreakInv'
    BY <1>1, <1>2, <1>3, <1>4, SameRows DEF TypeOK
  <1>6. FlightsRecorded'
    BY <1>2, <1>4, SameRows DEF FlightsRecorded, Idle
  <1>7. NothingAhead'
    <2>1. \A u \in Users, d \in Days : Has(u, d)' => d <= day'
      BY <1>2, <1>3, SameRows, CheckinAssumption DEF NothingAhead, TypeOK, Days
    <2>2. \A q \in Requests : req[q].phase # "idle" => req[q].date <= day'
      BY <1>3, FlightTyped, CheckinAssumption DEF NothingAhead, TypeOK, Days
    <2> QED
      BY <1>4, <2>1, <2>2 DEF NothingAhead, Idle
  <1>8. PendingIsUnderWay'
    BY <1>1, <1>4 DEF PendingIsUnderWay
  <1>9. CreditInv'
    BY <1>1, <1>3 DEF CreditInv, Code
  <1> QED
    BY <1>5, <1>6, <1>7, <1>8, <1>9

\* A request without a redemption may rest: no pending reward depends on it.
LEMMA RestKeepsPending ==
    ASSUME IInv, RowsKept, UNCHANGED crashes, NEW q \in Requests, req[q].phase # "redeem",
           \A p \in Requests \ {q} : req'[p] = req[p]
    PROVE  PendingIsUnderWay'
  <1> SUFFICES ASSUME NEW u \in Users, NEW d \in Days, records'[u][d].reward = "pending",
                      ~(crashes' > 0)
               PROVE  \E p \in Requests : /\ req'[p].phase = "redeem" /\ req'[p].user = u
                                          /\ req'[p].date = d
    BY DEF PendingIsUnderWay
  <1>1. PICK p \in Requests : req[p].phase = "redeem" /\ req[p].user = u /\ req[p].date = d
    BY DEF IInv, PendingIsUnderWay, RowsKept
  <1>2. p # q
    BY <1>1
  <1> QED
    BY <1>1, <1>2

LEMMA RefuseKeeps ==
    ASSUME IInv, NEW q \in Requests, Refuse(q)
    PROVE  IInv'
  <1> USE DEF IInv
  <1>1. /\ UNCHANGED <<campaign, day, records, inTransit, credits, edits, crashes>>
        /\ req[q].phase = "refresh" /\ Rest(q)
    BY DEF Refuse
  <1>2. RowsKept
    BY <1>1 DEF RowsKept
  <1>3. /\ req' \in [Requests -> Flights \cup {Idle}] /\ req'[q] = Idle
        /\ \A p \in Requests \ {q} : req'[p] = req[p]
    BY <1>1, RestTyped
  <1>4. TypeOK' /\ StreakInv'
    BY <1>1, <1>2, <1>3, SameRows DEF TypeOK
  <1>5. FlightsRecorded'
    BY <1>2, <1>3, SameRows DEF FlightsRecorded, Idle
  <1>6. NothingAhead'
    BY <1>1, <1>2, <1>3, SameRows DEF NothingAhead, Idle
  <1>7. PendingIsUnderWay'
    BY <1>1, <1>2, <1>3, RestKeepsPending
  <1>8. CreditInv'
    BY <1>1 DEF CreditInv, Code
  <1> QED
    BY <1>4, <1>5, <1>6, <1>7, <1>8

LEMMA BeginKeeps ==
    ASSUME IInv, NEW q \in Requests, NEW u \in Users, Begin(q, u)
    PROVE  IInv'
  <1> USE DEF IInv
  <1>1. /\ UNCHANGED <<campaign, day, records, credits, edits, crashes>>
        /\ req[q].phase = "idle" /\ day \in Days /\ campaign.value \in Amounts
    BY DEF Begin, TypeOK, Campaigns, NoCampaign, Deleted
  <1>2. RowsKept
    BY <1>1 DEF RowsKept
  <1>3. /\ req' \in [Requests -> Flights \cup {Idle}]
        /\ \A p \in Requests \ {q} : req'[p] = req[p]
        /\ req'[q].date = day
        /\ req'[q].phase = "redeem" => Has(req'[q].user, req'[q].date)
        /\ inTransit' = inTransit \/ inTransit' = inTransit \cup {Code(u, day)}
    <2>1. CASE Has(u, day)
      <3>1. Redeem(q, u, day, campaign.value)
        BY <2>1 DEF Begin
      <3>2. /\ req' \in [Requests -> Flights \cup {Idle}]
            /\ req'[q] = [phase |-> "redeem", user |-> u, date |-> day, value |-> campaign.value]
            /\ \A p \in Requests \ {q} : req'[p] = req[p]
            /\ inTransit' = inTransit \cup {Code(u, day)}
        BY <1>1, <3>1, RedeemTyped
      <3>3. req'[q].user = u /\ req'[q].date = day
        BY <3>2
      <3> QED
        BY <2>1, <3>2, <3>3
    <2>2. CASE ~Has(u, day)
      <3>1. /\ req' = [req EXCEPT ![q] = [phase |-> "refresh", user |-> u, date |-> day,
                                          value |-> campaign.value]]
            /\ inTransit' = inTransit
        BY <2>2 DEF Begin
      <3> QED
        BY <1>1, <3>1 DEF TypeOK, Flights
    <2> QED
      BY <2>1, <2>2
  <1>4. TypeOK' /\ StreakInv'
    BY <1>1, <1>2, <1>3, SameRows, CodeTyped DEF TypeOK
  <1>5. FlightsRecorded'
    BY <1>2, <1>3, SameRows DEF FlightsRecorded
  <1>6. NothingAhead'
    BY <1>1, <1>2, <1>3, SameRows, CheckinAssumption DEF NothingAhead, Days
  <1>7. PendingIsUnderWay'
    BY <1>1, <1>2, <1>3, RestKeepsPending
  <1>8. CreditInv'
    <2>1. \A c \in inTransit' \cup credits' : c = Code(c.user, c.date)
      BY <1>1, <1>3, CodeNames DEF CreditInv
    <2>2. \A v \in Users, d \in Days : records'[v][d].reward = "succeeded" => Code(v, d)' \in credits'
      BY <1>1 DEF CreditInv, Code
    <2> QED
      BY <2>1, <2>2 DEF CreditInv, Code
  <1> QED
    BY <1>4, <1>5, <1>6, <1>7, <1>8

\* A new row keeps every streak correct: it continues the day before, and no later
\* day can have been recorded.
LEMMA NewRowKeepsStreaks ==
    ASSUME IInv, NEW u \in Users, NEW d \in Days, NEW r \in Row, d <= day, ~Has(u, d),
           r.streak = NextStreak(u, d), r.created = day, SetRow(u, d, r)
    PROVE  /\ StreakInv'
           /\ \A v \in Users, e \in Days : Has(v, e)' <=> Has(v, e) \/ (v = u /\ e = d)
  <1> USE DEF IInv
  <1>1. d \in Nat /\ day \in Nat /\ Days \subseteq Nat
    BY CheckinAssumption DEF Days, TypeOK
  <1>3. /\ records'[u][d] = r
        /\ \A v \in Users, e \in Days : v # u \/ e # d => records'[v][e] = records[v][e]
    BY SetRowTyped
  <1>4. \A v \in Users, e \in Days : Has(v, e)' <=> Has(v, e) \/ (v = u /\ e = d)
    BY <1>3 DEF Has, Row, Rewards
  <1>5. \A v \in Users : Dates(v) \subseteq Dates(v)' /\ Dates(v)' \subseteq Dates(v) \cup {d}
    BY <1>4 DEF Dates
  <1>6. Dates(u)' = Dates(u) \cup {d} /\ d \notin Dates(u)
    BY <1>1, <1>4 DEF Dates
  <1>7. /\ records'[u][d].streak = NextStreak(u, d) /\ records'[u][d].created = day
        /\ NextStreak(u, d) \in Nat
    BY <1>1, <1>3, NextStreakTyped, CheckinAssumption
  <1>8. ASSUME NEW v \in Users, NEW e \in Dates(v)'
        PROVE  Unbroken(v, e)' /\ Continues(v, e)'
    <2>1. e \in Days /\ e \in Nat
      BY <1>1 DEF Dates
    <2>2. CASE v = u /\ e = d
      <3>1. ASSUME NEW k \in 0..NextStreak(u, d) - 1 PROVE d - k \in Dates(u)'
        <4>1. CASE k = 0
          BY <1>1, <1>6, <4>1
        <4>2. CASE k # 0
          <5>1. d > 0 /\ Has(u, d - 1) /\ NextStreak(u, d) = records[u][d - 1].streak + 1
            BY <1>7, <4>2 DEF NextStreak
          <5>2. d - 1 \in Days /\ d - 1 \in Dates(u)
            BY <1>1, <5>1, CheckinAssumption DEF Days, Dates
          <5>3. Unbroken(u, d - 1) /\ records[u][d - 1].streak \in Nat
            BY <1>1, <5>1, <5>2, StreakBounded DEF StreakInv
          <5>4. (d - 1) - (k - 1) \in Dates(u)
            <6>1. k - 1 \in 0..records[u][d - 1].streak - 1
              BY <4>2, <5>1, <5>3, <1>7
            <6> QED
              BY <5>3, <6>1 DEF Unbroken
          <5>5. (d - 1) - (k - 1) = d - k
            BY <1>1, <1>7
          <5> QED
            BY <5>4, <5>5, <1>6
        <4> QED
          BY <4>1, <4>2
      <3>2. Unbroken(v, e)'
        BY <2>2, <3>1, <1>7 DEF Unbroken
      <3>3. ASSUME d - 1 \in Dates(u)' PROVE NextStreak(u, d) = records'[u][d - 1].streak + 1
        <4>1. d - 1 # d
          BY <1>1
        <4>2. d - 1 \in Dates(u)
          BY <1>6, <3>3, <4>1
        <4>3. d > 0 /\ Has(u, d - 1) /\ d - 1 \in Days
          BY <1>1, <4>2 DEF Dates
        <4>4. records'[u][d - 1] = records[u][d - 1]
          BY <1>1, <1>3, <4>1, <4>3
        <4> QED
          BY <4>3, <4>4 DEF NextStreak
      <3>4. Continues(v, e)'
        BY <2>2, <3>3, <1>7 DEF Continues
      <3> QED
        BY <3>2, <3>4
    <2>3. CASE ~(v = u /\ e = d)
      <3>1. e \in Dates(v) /\ records'[v][e] = records[v][e]
        BY <1>3, <1>4, <2>1, <2>3 DEF Dates
      <3>2. Unbroken(v, e) /\ Continues(v, e)
        BY <3>1 DEF StreakInv
      <3>3. Unbroken(v, e)'
        BY <1>5, <3>1, <3>2 DEF Unbroken
      <3>4. CASE v = u /\ e - 1 = d
        <4>1. e <= day
          BY <2>1, <3>1 DEF NothingAhead, Dates
        <4>2. records'[v][e - 1].created # e - 1
          BY <1>1, <1>7, <2>1, <3>4, <4>1
        <4> QED
          BY <3>3, <4>2 DEF Continues
      <3>5. CASE ~(v = u /\ e - 1 = d)
        <4>1. e - 1 \in Dates(v)' => e - 1 \in Dates(v) /\ records'[v][e - 1] = records[v][e - 1]
          BY <1>3, <1>4, <3>5 DEF Dates
        <4> QED
          BY <3>1, <3>2, <3>3, <4>1 DEF Continues
      <3> QED
        BY <3>4, <3>5
    <2> QED
      BY <2>2, <2>3
  <1>9. StreakInv'
    BY <1>8 DEF StreakInv
  <1> QED
    BY <1>4, <1>9

\* The eligible user was recorded by someone else, or the campaign is gone.
LEMMA AcceptNothingKeeps ==
    ASSUME IInv, NEW q \in Requests, req[q].phase = "refresh", Rest(q),
           UNCHANGED <<campaign, day, records, inTransit, credits, edits, crashes>>
    PROVE  IInv'
  <1>1. Refuse(q)
    BY DEF Refuse
  <1> QED
    BY <1>1, RefuseKeeps

LEMMA AcceptRecordKeeps ==
    ASSUME IInv, NEW q \in Requests, req[q].phase = "refresh",
           ~Has(req[q].user, req[q].date),
           SetRow(req[q].user, req[q].date, NewRow(q)),
           IF req[q].value > 0
           THEN Redeem(q, req[q].user, req[q].date, req[q].value)
           ELSE Rest(q) /\ UNCHANGED inTransit,
           UNCHANGED <<campaign, day, credits, edits, crashes>>
    PROVE  IInv'
  <1> USE DEF IInv
  <1>1. PICK u \in Users, d \in Days, r \in Row, w \in Amounts :
            /\ u = req[q].user /\ d = req[q].date /\ r = NewRow(q) /\ w = req[q].value
    BY FlightTyped, NewRowTyped
  <1>2. /\ r.reward = IF w > 0 THEN "pending" ELSE "none"
        /\ r.streak = NextStreak(u, d) /\ r.created = day
    BY <1>1 DEF NewRow
  <1>3. d <= day /\ ~Has(u, d) /\ SetRow(u, d, r)
    BY <1>1 DEF NothingAhead
  <1>4. /\ StreakInv'
        /\ \A v \in Users, e \in Days : Has(v, e)' <=> Has(v, e) \/ (v = u /\ e = d)
    BY <1>2, <1>3, NewRowKeepsStreaks
  <1>5. /\ records' \in [Users -> [Days -> Row \cup {NoRow}]]
        /\ records'[u][d] = r
        /\ \A v \in Users, e \in Days : v # u \/ e # d => records'[v][e] = records[v][e]
    BY <1>3, SetRowTyped
  <1>6. /\ req' \in [Requests -> Flights \cup {Idle}] /\ inTransit' \subseteq Codes
        /\ \A p \in Requests \ {q} : req'[p] = req[p]
        /\ \/ /\ w > 0 /\ inTransit' = inTransit \cup {Code(u, d)}
              /\ req'[q] = [phase |-> "redeem", user |-> u, date |-> d, value |-> w]
           \/ ~(w > 0) /\ req'[q] = Idle /\ inTransit' = inTransit
    <2>1. CASE w > 0
      <3>1. Redeem(q, u, d, w)
        BY <1>1, <2>1
      <3> QED
        BY <2>1, <3>1, RedeemTyped
    <2>2. CASE ~(w > 0)
      <3>1. Rest(q) /\ inTransit' = inTransit
        BY <1>1, <2>2
      <3> QED
        BY <2>2, <3>1, RestTyped DEF TypeOK
    <2> QED
      BY <2>1, <2>2
  <1>7. TypeOK'
    BY <1>5, <1>6 DEF TypeOK
  <1>8. FlightsRecorded'
    <2>1. ASSUME NEW p \in Requests, req'[p].phase = "redeem"
          PROVE  \E v \in Users, e \in Days : v = req'[p].user /\ e = req'[p].date /\ Has(v, e)'
      <3>1. CASE p = q
        BY <1>4, <1>6, <2>1, <3>1 DEF Idle
      <3>2. CASE p # q
        BY <1>4, <1>6, <2>1, <3>2, FlightTyped DEF FlightsRecorded
      <3> QED
        BY <3>1, <3>2
    <2>2. ASSUME NEW p \in Requests, req'[p].phase = "redeem"
          PROVE  Has(req[p].user, req[p].date)'
      <3>1. PICK v \in Users, e \in Days : v = req'[p].user /\ e = req'[p].date /\ Has(v, e)'
        BY <2>1, <2>2
      <3> QED
        BY <3>1 DEF Has
    <2> QED
      BY <2>2 DEF FlightsRecorded
  <1>9. NothingAhead'
    BY <1>3, <1>4, <1>6 DEF NothingAhead, Idle
  <1>10. PendingIsUnderWay'
    <2> SUFFICES ASSUME NEW v \in Users, NEW e \in Days, records'[v][e].reward = "pending",
                        ~(crashes' > 0)
                 PROVE  \E p \in Requests : /\ req'[p].phase = "redeem" /\ req'[p].user = v
                                            /\ req'[p].date = e
      BY DEF PendingIsUnderWay
    <2>1. CASE v = u /\ e = d
      <3>1. req'[q] = [phase |-> "redeem", user |-> u, date |-> d, value |-> w]
        BY <1>2, <1>5, <1>6, <2>1
      <3> QED
        BY <2>1, <3>1
    <2>2. CASE ~(v = u /\ e = d)
      <3>1. PICK p \in Requests : req[p].phase = "redeem" /\ req[p].user = v /\ req[p].date = e
        BY <1>5, <2>2 DEF PendingIsUnderWay
      <3>2. p # q
        BY <3>1
      <3> QED
        BY <1>6, <3>1, <3>2
    <2> QED
      BY <2>1, <2>2
  <1>11. CreditInv'
    <2>1. \A c \in inTransit' \cup credits' : c = Code(c.user, c.date)
      BY <1>6, CodeNames DEF CreditInv
    <2>2. \A v \in Users, e \in Days : records'[v][e].reward = "succeeded" => Code(v, e) \in credits'
      <3> TAKE v \in Users, e \in Days
      <3>1. CASE v = u /\ e = d
        BY <1>2, <1>5, <3>1
      <3>2. CASE ~(v = u /\ e = d)
        BY <1>5, <3>2 DEF CreditInv
      <3> QED
        BY <3>1, <3>2
    <2> QED
      BY <2>1, <2>2 DEF CreditInv, Code
  <1> QED
    BY <1>4, <1>7, <1>8, <1>9, <1>10, <1>11

LEMMA AcceptKeeps ==
    ASSUME IInv, NEW q \in Requests, Accept(q)
    PROVE  IInv'
  <1>1. CASE campaign.row = "deleted" \/ Has(req[q].user, req[q].date)
    BY <1>1, AcceptNothingKeeps DEF Accept, Record
  <1>2. CASE campaign.row # "deleted" /\ ~Has(req[q].user, req[q].date)
    BY <1>2, AcceptRecordKeeps DEF Accept, Record, NewRow
  <1> QED
    BY <1>1, <1>2

LEMMA OutcomeKeeps ==
    ASSUME IInv, NEW q \in Requests, NEW reward \in {"succeeded", "failed"},
           req[q].phase = "redeem", Outcome(q, reward),
           reward = "succeeded" => Code(req[q].user, req[q].date) \in credits
    PROVE  IInv'
  <1> USE DEF IInv
  <1>1. PICK u \in Users, d \in Days :
            /\ u = req[q].user /\ d = req[q].date /\ Has(u, d)
            /\ SetRow(u, d, [records[u][d] EXCEPT !.reward = reward])
            /\ [records[u][d] EXCEPT !.reward = reward] \in Row
            /\ records'[u][d].streak = records[u][d].streak
            /\ records'[u][d].created = records[u][d].created
            /\ records'[u][d].reward = reward
    BY OutcomeRow DEF Rewards
  <1>2. /\ records' \in [Users -> [Days -> Row \cup {NoRow}]]
        /\ \A v \in Users, e \in Days : v # u \/ e # d => records'[v][e] = records[v][e]
    BY <1>1, SetRowTyped
  <1>3. /\ req' \in [Requests -> Flights \cup {Idle}] /\ req'[q] = Idle
        /\ \A p \in Requests \ {q} : req'[p] = req[p]
        /\ UNCHANGED <<campaign, day, inTransit, credits, edits, crashes>>
    BY RestTyped DEF Outcome
  <1>4. TypeOK'
    BY <1>2, <1>3 DEF TypeOK
  <1>5. \A v \in Users, e \in Days :
            /\ Has(v, e)' <=> Has(v, e)
            /\ records'[v][e].streak = records[v][e].streak
            /\ records'[v][e].created = records[v][e].created
    BY <1>1, <1>2 DEF Has
  <1>6. \A v \in Users : Dates(v)' = Dates(v)
    BY <1>5 DEF Dates
  <1>7. FlightsRecorded'
    <2>1. ASSUME NEW p \in Requests, req'[p].phase = "redeem"
          PROVE  Has(req[p].user, req[p].date)'
      <3>1. p # q /\ req'[p] = req[p]
        BY <1>3, <2>1 DEF Idle
      <3>2. PICK v \in Users, e \in Days : v = req[p].user /\ e = req[p].date
        BY <2>1, <3>1, FlightTyped
      <3>3. Has(v, e)'
        BY <1>5, <2>1, <3>1, <3>2 DEF FlightsRecorded
      <3> QED
        BY <3>1, <3>2, <3>3 DEF Has
    <2> QED
      BY <2>1 DEF FlightsRecorded
  <1>8. NothingAhead'
    BY <1>3, <1>5 DEF NothingAhead, Idle
  <1>9. StreakInv'
    <2>1. ASSUME NEW v \in Users, NEW e \in Dates(v)
          PROVE  Unbroken(v, e)' /\ Continues(v, e)'
      <3>1. Unbroken(v, e) /\ Continues(v, e) /\ e \in Days
        BY DEF StreakInv, Dates
      <3>2. Unbroken(v, e)'
        BY <1>5, <1>6, <3>1 DEF Unbroken
      <3>3. Continues(v, e)'
        BY <1>5, <1>6, <3>1 DEF Continues, Dates
      <3> QED
        BY <3>2, <3>3
    <2> QED
      BY <1>6, <2>1 DEF StreakInv
  <1>10. PendingIsUnderWay'
    <2> SUFFICES ASSUME NEW v \in Users, NEW e \in Days, records'[v][e].reward = "pending",
                        ~(crashes' > 0)
                 PROVE  \E p \in Requests : /\ req'[p].phase = "redeem" /\ req'[p].user = v
                                            /\ req'[p].date = e
      BY DEF PendingIsUnderWay
    <2>1. ~(v = u /\ e = d)
      BY <1>1
    <2>2. PICK p \in Requests : req[p].phase = "redeem" /\ req[p].user = v /\ req[p].date = e
      BY <1>2, <1>3, <2>1 DEF PendingIsUnderWay
    <2>3. p # q
      BY <1>1, <2>1, <2>2
    <2> QED
      BY <1>3, <2>2, <2>3
  <1>11. CreditInv'
    <2>1. \A v \in Users, e \in Days : records'[v][e].reward = "succeeded" => Code(v, e) \in credits
      <3> TAKE v \in Users, e \in Days
      <3>1. CASE v = u /\ e = d
        BY <1>1, <3>1
      <3>2. CASE ~(v = u /\ e = d)
        BY <1>2, <3>2 DEF CreditInv
      <3> QED
        BY <3>1, <3>2
    <2> QED
      BY <1>3, <2>1 DEF CreditInv, Code
  <1> QED
    BY <1>4, <1>7, <1>8, <1>9, <1>10, <1>11

LEMMA StepInvariant ==
    ASSUME IInv, [Next]_vars
    PROVE  IInv'
  <1>1. CASE \E s \in Settings : CreateCheckin(s) \/ UpdateCheckin(s)
    BY <1>1, AdministrationKeeps
  <1>2. CASE DeleteCheckin
    BY <1>2, AdministrationKeeps
  <1>3. CASE \E q \in Requests : Refuse(q)
    BY <1>3, RefuseKeeps
  <1>4. CASE \E q \in Requests : Accept(q)
    BY <1>4, AcceptKeeps
  <1>5. CASE \E q \in Requests : RedeemSucceeds(q)
    BY <1>5, OutcomeKeeps DEF RedeemSucceeds
  <1>6. CASE \E q \in Requests : RedeemFails(q)
    BY <1>6, OutcomeKeeps DEF RedeemFails
  <1>7. CASE \E q \in Requests, u \in Users : Begin(q, u)
    BY <1>7, BeginKeeps
  <1>8. CASE \/ \E c \in inTransit : UpstreamRedeems(c) \/ UpstreamDrops(c)
             \/ Midnight \/ Crash
    BY <1>8, SurroundingsKeep
  <1>9. CASE UNCHANGED vars
    <2>1. RowsKept /\ UNCHANGED vars
      BY <1>9 DEF vars, RowsKept
    <2>2. TypeOK' /\ StreakInv' /\ NothingAhead' /\ FlightsRecorded' /\ PendingIsUnderWay'
      BY <2>1, SameRows DEF vars, IInv, TypeOK, NothingAhead, FlightsRecorded, PendingIsUnderWay
    <2>3. CreditInv'
      BY <2>1 DEF vars, IInv, CreditInv, Code
    <2> QED
      BY <2>2, <2>3 DEF IInv
  <1> QED
    BY <1>1, <1>2, <1>3, <1>4, <1>5, <1>6, <1>7, <1>8, <1>9 DEF Next

-----------------------------------------------------------------------------
(* The theorems.                                                           *)

\* Whatever is retried, late, lost or interrupted, every record is of a day that has
\* come, its streak is a run of recorded days, and success is only written for a
\* redemption made.
THEOREM InductiveInvariant == Spec => []IInv
  BY InitInvariant, StepInvariant, PTL DEF Spec

\* A user is credited at most once a day, and no reward is reported that was not paid.
THEOREM CreditCorrect == Spec => []OnceADay
  <1>1. IInv => OnceADay
    <2> SUFFICES ASSUME IInv PROVE OnceADay
      OBVIOUS
    <2>1. \A c, e \in credits : c.user = e.user /\ c.date = e.date => c = e
      <3> SUFFICES ASSUME NEW c \in credits, NEW e \in credits, c.user = e.user, c.date = e.date
                   PROVE  c = e
        OBVIOUS
      <3>1. c = Code(c.user, c.date) /\ e = Code(e.user, e.date)
        BY DEF IInv, CreditInv
      <3> QED
        BY <3>1
    <2>2. ASSUME NEW u \in Users, NEW d \in Days, records[u][d].reward = "succeeded"
          PROVE  \E c \in credits : c.user = u /\ c.date = d
      BY <2>2, CodeNames DEF IInv, CreditInv
    <2> QED
      BY <2>1, <2>2 DEF OnceADay
  <1> QED
    BY <1>1, InductiveInvariant, PTL

\* A pending reward has a request that will decide it, unless a process died.
THEOREM PendingCorrect == Spec => []PendingIsUnderWay
  <1>1. IInv => PendingIsUnderWay
    BY DEF IInv
  <1> QED
    BY <1>1, InductiveInvariant, PTL

\* An unbroken streak is no longer than the days checked in: its days are some of them.
LEMMA StreakWithinDates ==
    ASSUME TypeOK, NEW u \in Users, NEW d \in Dates(u), Unbroken(u, d)
    PROVE  records[u][d].streak <= Cardinality(Dates(u))
  <1> DEFINE s == records[u][d].streak
             run == d - s + 1..d
  <1>1. d \in Int /\ s \in Nat /\ s > 0 /\ Dates(u) \subseteq 0..LastDay
    BY RowOf, CheckinAssumption DEF Dates, Days, Row
  <1>2. IsFiniteSet(Dates(u))
    <2>1. 0 \in Int /\ LastDay \in Int
      BY CheckinAssumption
    <2>2. IsFiniteSet(0..LastDay)
      BY <2>1, FS_Interval
    <2>3. Dates(u) \in SUBSET (0..LastDay)
      BY <1>1
    <2> HIDE DEF run
    <2> QED
      BY <2>2, <2>3, FS_Subset
  <1>3. run \subseteq Dates(u)
    <2> SUFFICES ASSUME NEW e \in run PROVE e \in Dates(u)
      OBVIOUS
    <2>1. d - e \in 0..s - 1 /\ d - (d - e) = e
      BY <1>1
    <2> QED
      BY <2>1 DEF Unbroken
  <1>4. Cardinality(run) = s
    <2>1. d - s + 1 \in Int /\ d \in Int
      BY <1>1
    <2>2. Cardinality(run) = IF d - s + 1 > d THEN 0 ELSE d - (d - s + 1) + 1
      BY <2>1, FS_Interval
    <2> HIDE DEF run
    <2> QED
      BY <1>1, <2>2
  <1> HIDE DEF run
  <1>5. Cardinality(run) <= Cardinality(Dates(u))
    BY <1>2, <1>3, FS_Subset
  <1> QED
    BY <1>4, <1>5

\* A user with a check-in has a latest one.
LEMMA LatestIsADate ==
    ASSUME NEW u \in Users, Dates(u) # {}
    PROVE  Latest(u) \in Dates(u)
  <1> DEFINE back == {LastDay - d : d \in Dates(u)}
  <1>1. Dates(u) \subseteq 0..LastDay
    BY DEF Dates, Days
  <1>2. back \subseteq Nat /\ back # {}
    BY <1>1, CheckinAssumption
  <1>3. PICK b \in back : \A c \in back : ~(<<c, b>> \in OpToRel(<, Nat))
    BY <1>2, NatLessThanWellFounded, WFMin
  <1>4. PICK d \in Dates(u) : b = LastDay - d
    OBVIOUS
  <1>5. \A e \in Dates(u) : e <= d
    <2> SUFFICES ASSUME NEW e \in Dates(u) PROVE e <= d
      OBVIOUS
    <2>1. LastDay - e \in back /\ ~(LastDay - e < b)
      BY <1>2, <1>3 DEF OpToRel
    <2> QED
      BY <1>1, <1>4, <2>1, CheckinAssumption
  <1> QED
    BY <1>5 DEF Latest

\* Streaks count recorded days only, without a gap, and never more than there are.
THEOREM StreakCorrect == Spec => []StreakCounts
  <1>1. IInv => StreakCounts
    <2> SUFFICES ASSUME IInv, NEW u \in Users
                 PROVE  /\ \A d \in Dates(u) : LET row == records[u][d] IN
                              /\ \A k \in 0..row.streak - 1 : d - k \in Dates(u)
                              /\ d - 1 \in Dates(u) /\ records[u][d - 1].created = d - 1 =>
                                     row.streak = records[u][d - 1].streak + 1
                        /\ Summary(u).streak_days <= Summary(u).total_days
      BY DEF StreakCounts
    <2>1. \A d \in Dates(u) : Unbroken(u, d) /\ Continues(u, d)
      BY DEF IInv, StreakInv
    <2>2. \A d \in Dates(u) : records[u][d].streak <= Cardinality(Dates(u))
      BY <2>1, StreakWithinDates DEF IInv
    <2>3. Summary(u).streak_days <= Summary(u).total_days
      <3>1. CASE Dates(u) = {}
        BY <3>1, FS_EmptySet DEF Summary
      <3>2. CASE Dates(u) # {}
        <4>1. Latest(u) \in Dates(u)
          BY <3>2, LatestIsADate
        <4>2. Has(u, day) => day \in Dates(u)
          BY DEF Dates, IInv, TypeOK
        <4> QED
          BY <2>2, <3>2, <4>1, <4>2 DEF Summary
      <3> QED
        BY <3>1, <3>2
    <2> QED
      BY <2>1, <2>3 DEF Unbroken, Continues
  <1> QED
    BY <1>1, InductiveInvariant, PTL
=============================================================================
