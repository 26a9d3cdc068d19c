------------------------------ MODULE MCServices ------------------------------
(***************************************************************************)
(* Small instances for TLC of the services.                                *)
(***************************************************************************)
EXTENDS Services

CONSTANTS u1, a1, a2, q1, q2, t1, t2, r1, s1, s2, p1, p2, active, blockedUser

\* A campaign that ends before the last day, and one that may not be stored.
CheckinWindows == {<<0, 2>>, <<1, 1>>}

\* A rule that is over and soon to be revoked, and one that is not yet open.
GrantSchedules == {[start |-> -1, end |-> 0, revoke |-> 1], [start |-> 1, end |-> 2, revoke |-> 3]}

\* Conditions of one fact, as the editor offers them and as only the API takes them:
\* in thousandths of a yuan around zero, half a cent and a cent.
Fact(fact, op, value, window) ==
    [type |-> "fact", fact |-> fact, operator |-> op, value |-> value, window |-> window]
Group(op, children) == [type |-> "group", operator |-> op, children |-> children]
Operators == {"gt", "gte", "eq", "lt", "lte", "neq"}
Yuan == {-5, 0, 5, 8}
Single ==
    {Fact(fact, op, v, 0) :
        fact \in {"current_balance", "recharge_total"}, op \in Operators, v \in Yuan}
    \cup {Fact("recent_recharge_total", op, v, w) :
            op \in Operators, v \in Yuan, w \in RecentDays}
    \cup {Fact(fact, op, v, 0) :
            fact \in {"has_recharged", "recharge_count", "user_status", "balance_cents"},
            op \in Operators, v \in Numbers}
    \cup {Fact("user_status", op, v, 0) : op \in Operators, v \in Statuses}
    \cup {Fact("recharge_count", "eq", -1, 0)}
    \cup {Fact("recent_recharge_total_cents", "gt", 0, w) : w \in RecentDays}

\* Groups of two and of none, in a group with one more fact, and three groups deep.
Few == {Fact("current_balance", "gte", v, 0) : v \in {-5, 8}}
       \cup {Fact("recent_recharge_total", "lt", v, w) : v \in {-5, 8}, w \in RecentDays}
       \cup {Fact("has_recharged", "eq", 1, 0), Fact("user_status", "neq", active, 0)}
AndOr == {"and", "or"}
Grouped ==
    {<<Group(op, {})>> : op \in AndOr}
    \cup {<<Group(op, {2, 3}), a, b>> : op \in AndOr, a, b \in Few}
    \cup {<<Group(op, {2, 5}), Group(inner, {3, 4}), a, b,
             Fact("recharge_total", "gt", 0, 0)>> : op, inner \in AndOr, a, b \in Few}
    \cup {<<Group("or", {2}), Group("and", {3}), Group(op, {})>> :
            op \in AndOr}
TooLarge ==
    {<<Group("or", {2}), Group("and", {3}), Group("or", {4}),
       Group("and", {})>>,
     [i \in 1..5 |-> IF i = 1 THEN Group("and", 2..5)
                     ELSE Fact("recharge_count", "gt", 0, 0)]}
SampleForms == {<<node>> : node \in Single} \cup Grouped \cup TooLarge

\* Whether somebody has recharged, as it was asked before the amounts.
SampleOldRules ==
    {<<Fact("has_recharged", op, v, 0)>> : op \in {"eq", "neq"}, v \in {0, 1}}
    \cup {<<Group("any", {2, 3}), Fact("has_recharged", "eq", v, 0),
             Fact("balance_cents", "lt", 1, 0)>> : v \in {0, 1}}

\* ServicesInit, but that one first state does for a part that rests.
MCInit ==
    /\ part \in Parts
    /\ Init /\ Ledger!Init /\ Listed!Init /\ Bridge!Init
    /\ Schema!Init
    /\ part # "schema" => dialect = "sqlite" /\ proc = [p \in {p1, p2} |-> Schema!Off(3)]
    /\ Limits!Init
    /\ part # "limits" => clock = 0
    /\ Browser!Init
    /\ part # "sessions" => standing = "user"
    /\ IF part = "rules" THEN Conditions!Init
       ELSE stored = Conditions!NoRule /\ shown = FALSE /\ form = CHOOSE condition \in Forms : TRUE
    /\ Page!Init
    /\ grantRule = Page!NoRule \/ (part = "page" /\ grantRule.enabled /\ grantRule.dates.end = 0)

MCSpec == MCInit /\ [][ServicesNext]_allVars
=============================================================================
