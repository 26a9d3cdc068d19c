-------------------------------- MODULE Rules --------------------------------
(***************************************************************************)
(* The conditions of activities (server/src/rules.js, the amounts of       *)
(* server/src/money.js, and the evaluation in the browser,                 *)
(* web/src/domain/conditions.ts): how one is entered, stored, shown again  *)
(* and judged.                                                             *)
(*                                                                         *)
(* An administrator's form holds a condition as the API has it: amounts in *)
(* yuan, here in thousandths.  It is stored as a rule with amounts in      *)
(* cents.  Truth values are 0 and 1.  A user's status is no number, which  *)
(* the page of rules does not know: what it is given it makes a number.    *)
(* A condition is the sequence of its nodes in the order in which they are *)
(* visited: the root is the first, the children of a group, given by their *)
(* places, come after it.                                                  *)
(*                                                                         *)
(* Abstracted: wording of reasons, the account's age (another number like  *)
(* the count), keys, and checks of types but for that of a status.         *)
(***************************************************************************)
EXTENDS Integers, Sequences, FiniteSets

CONSTANTS
    Forms,        \* conditions that are entered
    OldRules,     \* rules that earlier versions stored
    Windows,      \* days of a recharge window
    Numbers,      \* counts
    Statuses,     \* strings, and none is a numeral
    Totals,       \* amounts in cents that users have
    MaxDepth, MaxNodes, MaxChildren

VARIABLES
    form,         \* the condition in the editor
    stored,       \* the rule in the database
    shown         \* whether the form shows the stored rule

vars == <<form, stored, shown>>

NoRule == <<>>

Orders    == {"gt", "gte", "eq", "lt", "lte"}
Operators == Orders \cup {"neq"}

Fact(fact, op, value, window) ==
    [type |-> "fact", fact |-> fact, operator |-> op, value |-> value, window |-> window]
Group(op, children) == [type |-> "group", operator |-> op, children |-> children]

AmountFacts == {"current_balance", "recharge_total", "recent_recharge_total"}
StoredName(fact) ==
    CASE fact = "current_balance" -> "balance_cents"
      [] fact = "recharge_total" -> "recharge_total_cents"
      [] fact = "recent_recharge_total" -> "recent_recharge_total_cents"
ShownName(fact) == CHOOSE name \in AmountFacts : StoredName(name) = fact
StoredNames == {StoredName(fact) : fact \in AmountFacts}
StoredFacts == StoredNames \cup {"has_recharged", "recharge_count", "user_status"}

\* The conditions with these facts and these operators of groups.
Nodes(facts, ops) ==
    [type : {"fact"}, fact : facts, operator : Operators, value : Statuses \cup Int,
     window : Windows \cup {0}]
    \cup [type : {"group"}, operator : ops, children : SUBSET Nat]
IsCondition(rule, facts, ops) ==
    /\ rule \in Seq(Nodes(facts, ops)) /\ rule # NoRule
    /\ \A i \in DOMAIN rule :
          /\ rule[i].type = "group" => rule[i].children \subseteq (i + 1)..Len(rule)
          /\ rule[i].type = "fact" =>
                /\ rule[i].fact # "user_status" => rule[i].value \in Int
                /\ rule[i].fact = "has_recharged" => rule[i].value \in {0, 1}
                /\ rule[i].fact \in {"recent_recharge_total", "recent_recharge_total_cents"} =>
                      rule[i].window \in Windows

-----------------------------------------------------------------------------
(* Amounts.                                                                *)

\* A plausible fault: amounts cut off instead of rounded.
CutOff(thousandths) == thousandths \div 10

\* decimalToScaledInteger rounds half away from zero; centsToDecimal.
Cents(thousandths) ==
    IF thousandths < 0 THEN -((5 - thousandths) \div 10) ELSE (thousandths + 5) \div 10
Thousandths(cents) == 10 * cents

-----------------------------------------------------------------------------
(* The facts of a user.                                                    *)

\* What makeUserFacts is given; recent has the windows that were asked for.
Inputs ==
    [balance : Totals \cup {-1}, upstream : Totals, excluded : Totals, events : Totals,
     count : Numbers, status : Statuses, recent : [Windows -> Totals]]

\* Rewards of the extension itself are taken from what upstream counts.
Direct(in) == IF in.upstream > in.excluded THEN in.upstream - in.excluded ELSE 0
Total(in)  == IF in.events > Direct(in) THEN in.events ELSE Direct(in)
MakeUserFacts(in) ==
    [balance_cents        |-> in.balance,
     has_recharged        |-> IF Total(in) > 0 THEN 1 ELSE 0,
     recharge_total_cents |-> Total(in),
     recharge_count       |-> IF in.count > 0 THEN in.count ELSE IF Direct(in) > 0 THEN 1 ELSE 0,
     user_status          |-> in.status,
     recent               |-> in.recent]

Facts == {MakeUserFacts(in) : in \in Inputs}

\* factsToApi.
FactsToApi(f) ==
    [current_balance |-> Thousandths(f.balance_cents),
     recharge_total  |-> Thousandths(f.recharge_total_cents),
     recent          |-> [w \in DOMAIN f.recent |-> Thousandths(f.recent[w])]]

-----------------------------------------------------------------------------
(* Judging a rule.                                                         *)

Compare(actual, op, expected) ==
    \/ op = "eq"  /\ actual = expected
    \/ op = "neq" /\ actual # expected
    \/ op = "gt"  /\ actual > expected
    \/ op = "gte" /\ actual >= expected
    \/ op = "lt"  /\ actual < expected
    \/ op = "lte" /\ actual <= expected

\* compareFact of a node that is a fact; a window nobody has asked for is not matched.
Holds(node, f) ==
    IF node.fact = "recent_recharge_total_cents"
    THEN node.window \in DOMAIN f.recent /\ Compare(f.recent[node.window], node.operator, node.value)
    ELSE Compare(f[node.fact], node.operator, node.value)

\* evaluateNode, of every node.
Verdicts(rule, f) ==
    LET matched[i \in DOMAIN rule] ==
          IF rule[i].type = "fact" THEN Holds(rule[i], f)
          ELSE IF rule[i].operator = "all" THEN \A c \in rule[i].children : matched[c]
          ELSE \E c \in rule[i].children : matched[c]
    IN  matched
Matches(rule, f) == Verdicts(rule, f)[1]

\* collectFailureReasons: the facts that fail, and that no option was met.
NoOption == [type |-> "none"]
ReasonsOf(rule, f) ==
    LET reasons[i \in DOMAIN rule] ==
          IF Verdicts(rule, f)[i] THEN {}
          ELSE IF rule[i].type = "fact" THEN {rule[i]}
          ELSE LET below == UNION {reasons[c] : c \in rule[i].children}
               IN  IF rule[i].operator = "any" THEN below \cup {NoOption} ELSE below
    IN  reasons
Reasons(rule, f) == ReasonsOf(rule, f)[1]

\* evaluateCondition, in the browser: there is no window of no days, and no neq.
BrowserHolds(node, api) ==
    LET days == IF node.window = 0 THEN 7 ELSE node.window IN
    /\ node.operator \in Orders
    /\ Compare(CASE node.fact = "current_balance" -> api.current_balance
                  [] node.fact = "recharge_total"  -> api.recharge_total
                  [] OTHER -> IF days \in DOMAIN api.recent THEN api.recent[days] ELSE 0,
               node.operator, node.value)
BrowserVerdicts(condition, api) ==
    LET matched[i \in DOMAIN condition] ==
          IF condition[i].type = "fact" THEN BrowserHolds(condition[i], api)
          ELSE \/ condition[i].children = {}
               \/ IF condition[i].operator = "and" THEN \A c \in condition[i].children : matched[c]
                                                   ELSE \E c \in condition[i].children : matched[c]
    IN  matched
BrowserMatches(condition, api) == BrowserVerdicts(condition, api)[1]

\* rechargeWindowDays: what is asked for before a rule is judged.
WindowsOf(rule) ==
    {rule[i].window : i \in {j \in DOMAIN rule : /\ rule[j].type = "fact"
                                               /\ rule[j].fact = "recent_recharge_total_cents"}}

Asked(rule, f) == [f EXCEPT !.recent = [w \in DOMAIN f.recent \cap WindowsOf(rule) |-> f.recent[w]]]

-----------------------------------------------------------------------------
(* A plausible fault, against which a property below is tried.             *)

\* The old condition shown by its value alone, whatever its operator.
RequiresByValue(node) == node.value = 1

-----------------------------------------------------------------------------
(* Between the form and the database.                                      *)

\* The levels of the nodes, which visit counts from the root down, if none is too deep.
Levels(rule) == {level \in [DOMAIN rule -> 1..MaxDepth] :
                   /\ level[1] = 1
                   /\ \A i \in DOMAIN rule : rule[i].type = "group" =>
                         \A c \in rule[i].children : level[c] = level[i] + 1}
\* What validateRuleTree and conditionFromApi limit.
WithinLimits(rule) ==
    /\ Len(rule) <= MaxNodes
    /\ Levels(rule) # {}
    /\ \A i \in DOMAIN rule : rule[i].type = "group" => Cardinality(rule[i].children) <= MaxChildren

\* The operators and values that suit a stored fact.
Suits(node) ==
    node.type = "fact" =>
        /\ node.fact \in {"has_recharged", "user_status"} => node.operator \in {"eq", "neq"}
        /\ node.fact = "user_status" => node.value \in Statuses
        /\ node.fact = "recharge_count" => node.value >= 0

\* Those conditionFromApi accepts: an old condition has no order but eq; a fact of the
\* storage's own names any that suits it, but recent recharges, whose window is dropped.
Accepted(node) ==
    node.type = "fact" =>
        CASE node.fact \in AmountFacts                 -> node.operator \in Orders
          [] node.fact = "has_recharged"               -> node.operator = "eq"
          [] node.fact = "recent_recharge_total_cents" -> FALSE
          [] OTHER                                     -> Suits(node)

\* validateRuleTree, and conditionFromApi before it.
Storable(rule)   == WithinLimits(rule) /\ \A i \in DOMAIN rule : Suits(rule[i])
Valid(condition) == WithinLimits(condition) /\ \A i \in DOMAIN condition : Accepted(condition[i])

\* conditionFromApi: a group without conditions holds for everyone.
StoredNode(node) ==
    IF node.type = "group"
    THEN Group(IF node.children = {} \/ node.operator = "and" THEN "all" ELSE "any", node.children)
    ELSE IF node.fact \in AmountFacts
         THEN Fact(StoredName(node.fact), node.operator, Cents(node.value), node.window)
         ELSE node
FromApi(condition) == [i \in DOMAIN condition |-> StoredNode(condition[i])]

\* conditionToApi: the old yes-or-no condition is shown as an amount.
RequiresRecharge(node) == IF node.operator = "eq" THEN node.value = 1 ELSE node.value = 0

ShownNode(node) ==
    IF node.type = "group"
    THEN Group(IF node.operator = "all" THEN "and" ELSE "or", node.children)
    ELSE IF node.fact \in StoredNames
         THEN Fact(ShownName(node.fact), node.operator, Thousandths(node.value), node.window)
    ELSE IF node.fact = "has_recharged"
         THEN Fact("recharge_total", IF RequiresRecharge(node) THEN "gt" ELSE "lte", 0, 0)
         ELSE node
ToApi(rule) == [i \in DOMAIN rule |-> ShownNode(rule[i])]

\* normalizeCondition, of the pages: a value that is no number becomes 0, and a window
\* is cut to a year.
Number(value) == IF value \in Statuses THEN 0 ELSE value
Days(window)  == IF window < 1 THEN 1 ELSE IF window > 365 THEN 365 ELSE window
NormalizedNode(node) ==
    IF node.type = "group" THEN node
    ELSE Fact(node.fact, node.operator, Number(node.value),
              IF node.fact = "recent_recharge_total" THEN Days(node.window) ELSE node.window)
Normalized(condition) == [i \in DOMAIN condition |-> NormalizedNode(condition[i])]

\* What is sent: the page normalizes what it shows once more, other clients do not.
Sent == IF shown THEN Normalized(form) ELSE form

-----------------------------------------------------------------------------

Init ==
    /\ shown = FALSE
    /\ \/ form \in Forms /\ stored = NoRule
       \/ form = NoRule /\ stored \in OldRules

Save ==
    /\ form # NoRule /\ Valid(Sent)
    /\ stored' = FromApi(Sent)
    /\ UNCHANGED <<form, shown>>

\* A rule that is not storable cannot be read either.
Open ==
    /\ stored # NoRule /\ Storable(stored)
    /\ form' = Normalized(ToApi(stored)) /\ shown' = TRUE
    /\ UNCHANGED stored

\* An edit of the rest of a campaign brings no condition: it stores what it would show.
\* The switch in the list of group rules sends a rule as it was returned.
Keep ==
    /\ stored # NoRule /\ Storable(stored) /\ Valid(ToApi(stored))
    /\ stored' = FromApi(ToApi(stored))
    /\ UNCHANGED <<form, shown>>

Next == Save \/ Open \/ Keep

Spec == Init /\ [][Next]_vars

-----------------------------------------------------------------------------
(* Properties.                                                             *)

ApiFacts == AmountFacts \cup StoredFacts

TypeOK ==
    /\ form = NoRule \/ IsCondition(form, ApiFacts, {"and", "or"})
    /\ stored = NoRule \/ IsCondition(stored, StoredFacts, {"all", "any"})
    /\ shown \in BOOLEAN

\* No amount is compared by neq, which only a fact of the storage's own names may be.
NoAmountDiffers(rule) ==
    \A i \in DOMAIN rule : rule[i].type = "fact" /\ rule[i].fact \in StoredNames => rule[i].operator # "neq"

AsksNoStatus(rule) ==
    \A i \in DOMAIN rule : rule[i].type = "fact" => rule[i].fact # "user_status"

\* A rule that is opened and saved again, or kept by an edit of the rest, the old kind
\* included, lets in whom it let in before, or is refused.  None is refused that
\* compares no amount by neq and, where the page has made its values numbers, asks
\* for no status.
MeaningIsKept ==
    [][shown \/ Keep =>
         /\ NoAmountDiffers(stored) => Valid(ToApi(stored))
         /\ shown /\ NoAmountDiffers(stored) /\ AsksNoStatus(stored) => Valid(Sent)
         /\ \A f \in Facts : Matches(stored', f) = Matches(stored, f)]_<<form, stored, shown>>

\* Everyone who judges a rule says the same, and it can be judged: an amount is taken
\* as what is nearest to it in cents; the windows asked for are all that it needs; a
\* user who is refused is told a reason, and only things that are wrong; and the
\* browser agrees for the conditions its editor offers.
VerdictsAgree ==
    stored # NoRule =>
        /\ Storable(stored)
        /\ ~shown /\ form # NoRule =>
              \A i \in DOMAIN form : form[i].type = "fact" /\ form[i].fact \in AmountFacts =>
                 form[i].value - Thousandths(stored[i].value) \in -5..5
        /\ \A f \in Facts :
              LET asked == Asked(stored, f) IN
              /\ Matches(stored, asked) = Matches(stored, f)
              /\ Matches(stored, asked) <=> Reasons(stored, asked) = {}
              /\ \A r \in Reasons(stored, asked) \ {NoOption} : ~Holds(r, asked)
              /\ /\ NoAmountDiffers(stored)
                 /\ \A i \in DOMAIN stored : stored[i].type = "fact" => stored[i].fact \in StoredNames
                 => BrowserMatches(ToApi(stored), FactsToApi(asked)) = Matches(stored, asked)
=============================================================================
