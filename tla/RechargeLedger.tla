---------------------------- MODULE RechargeLedger ----------------------------
(***************************************************************************)
(* The local copy of the recharge history (server/src/sync.js): the table  *)
(* recharge_events, which SyncService.run extends down to a saved cursor   *)
(* and refreshUser replaces, for one user and a window of days, by what it *)
(* has fetched.  Both read a paged list, newest first, that grows          *)
(* meanwhile; the requests of refreshUser run beside the synchronisation.  *)
(*                                                                         *)
(* Abstracted: one type of redemption code (each has a list and a cursor   *)
(* of its own), the amounts, and everything of a code but who used it when *)
(* and whether it counts (shouldIncludeRecharge).  A code does not change  *)
(* once used.  A page is stored when it is read: an answer stored later    *)
(* writes the same rows.                                                   *)
(***************************************************************************)
EXTENDS Integers, FiniteSets

CONSTANTS
    Codes,       \* redemption codes, by their id
    Rewards,     \* those of them the extension has issued itself
    Users,
    Refreshes,   \* concurrent calls of refreshUser
    Spans,       \* recharge windows, in units of time
    PageSize,
    Horizon,     \* bound on time
    MaxRuns      \* bound on synchronisations

VARIABLES
    now,
    used,        \* the used codes, as upstream keeps them: code -> [user, at]
    store,       \* the rows of recharge_events, by source_id
    cursor,      \* sync_cursors
    run,         \* #syncRedeemCodes
    refresh,     \* the calls of refreshUser
    erased,      \* history: codes whose row a refresh has deleted
    runs

vars == <<now, used, store, cursor, run, refresh, erased, runs>>

Times   == 0..Horizon
Marks   == [at : Times \cup {-1}, id : Codes \cup {0}]
NoMark  == [at |-> -1, id |-> 0]
Running == [phase : {"read", "save"}, page : Nat, previous : Marks, next : Marks]
\* known is history: what upstream had to report when the call was made.
Calls   == [phase : {"fetch", "commit"}, page : Nat, user : Users, cutoff : Int,
            got : SUBSET Codes, known : SUBSET Codes]
Idle    == [phase |-> "idle"]

TypeOK ==
    /\ now \in Times
    /\ DOMAIN used \subseteq Codes /\ \A c \in DOMAIN used : used[c] \in [user : Users, at : Times]
    /\ store \subseteq DOMAIN used /\ erased \subseteq DOMAIN used
    /\ cursor \in Marks
    /\ run \in Running \cup {Idle} /\ refresh \in [Refreshes -> Calls \cup {Idle}]
    /\ runs \in 0..MaxRuns

Init ==
    /\ now = 0 /\ used = [c \in {} |-> Idle]
    /\ store = {} /\ erased = {}
    /\ cursor = NoMark
    /\ run = Idle /\ refresh = [r \in Refreshes |-> Idle]
    /\ runs = 0

-----------------------------------------------------------------------------

Used    == DOMAIN used
Mark(c) == [at |-> used[c].at, id |-> c]
Of(u)   == {c \in Used : used[c].user = u}

\* The order of the (used_at, id) watermark, which is that of upstream's list.
Newer(m, n) == m.at > n.at \/ (m.at = n.at /\ m.id > n.id)
Newest(M)   == CHOOSE m \in M : \A n \in M : ~Newer(n, m)

\* shouldIncludeRecharge.
Counts(c) == c \notin Rewards

\* getRechargeSummary: what a rule with a recharge window is judged by.
Recent(u, since) == {c \in store \cap Of(u) : used[c].at >= since}

\* Upstream answers with one page of a list of codes.
Page(S, p) ==
    {c \in S : Cardinality({d \in S : Newer(Mark(d), Mark(c))}) \div PageSize = p - 1}
LastPage(S, p) == p * PageSize >= Cardinality(S)

-----------------------------------------------------------------------------
(* Plausible faults, against which the properties below are tried.          *)

\* The cursor saved whether or not the pages down to the last one were read.
FailRunSaving ==
    /\ run.phase # "idle" /\ run' = Idle /\ cursor' = run.next
    /\ UNCHANGED <<now, used, store, refresh, erased, runs>>

\* The fetch stops at the cutoff, the replacement deletes from it.
BeforeOrAt(c, cutoff) == used[c].at <= cutoff

-----------------------------------------------------------------------------
(* Upstream.                                                               *)

UseCode(c, u) ==
    /\ c \notin Used
    /\ used' = [d \in Used \cup {c} |-> IF d = c THEN [user |-> u, at |-> now] ELSE used[d]]
    /\ UNCHANGED <<now, store, cursor, run, refresh, erased, runs>>

Tick ==
    /\ now < Horizon /\ now' = now + 1
    /\ UNCHANGED <<used, store, cursor, run, refresh, erased, runs>>

-----------------------------------------------------------------------------
(* #syncRedeemCodes; one synchronisation runs at a time.                   *)

StartRun ==
    /\ run.phase = "idle" /\ runs < MaxRuns /\ runs' = runs + 1
    /\ run' = [phase |-> "read", page |-> 1, previous |-> cursor, next |-> cursor]
    /\ UNCHANGED <<now, used, store, cursor, refresh, erased>>

\* A page, down to the previous cursor: rows that count are written, others removed.
ReadPage ==
    LET items == Page(Used, run.page)
        fresh == {c \in items : Newer(Mark(c), run.previous)}
        done  == items # fresh \/ LastPage(Used, run.page)
    IN
    /\ run.phase = "read"
    /\ store' = (store \ fresh) \cup {c \in fresh : Counts(c)}
    /\ run' = [run EXCEPT !.next  = Newest({run.next} \cup {Mark(c) : c \in fresh}),
                          !.phase = IF done THEN "save" ELSE "read",
                          !.page  = IF done THEN @ ELSE @ + 1]
    /\ erased' = erased \ store'
    /\ UNCHANGED <<now, used, cursor, refresh, runs>>

SaveCursor ==
    /\ run.phase = "save" /\ run' = Idle /\ cursor' = run.next
    /\ UNCHANGED <<now, used, store, refresh, erased, runs>>

\* A page cannot be read, or the process dies: what was stored stays, the
\* cursor is the old one.
FailRun ==
    /\ run.phase # "idle" /\ run' = Idle
    /\ UNCHANGED <<now, used, store, cursor, refresh, erased, runs>>

-----------------------------------------------------------------------------
(* refreshUser.                                                            *)

Begin(r, u, span) ==
    /\ refresh[r].phase = "idle"
    /\ refresh' = [refresh EXCEPT ![r] =
                     [phase |-> "fetch", page |-> 1, user |-> u, cutoff |-> now - span, got |-> {},
                      known |-> {c \in Of(u) : Counts(c) /\ used[c].at >= now - span}]]
    /\ UNCHANGED <<now, used, store, cursor, run, erased, runs>>

Before(c, cutoff) == used[c].at < cutoff

\* #fetchRecentRechargeEvents, one page.
Fetch(r) ==
    LET f     == refresh[r]
        items == Page(Of(f.user), f.page)
        old   == {c \in items : Before(c, f.cutoff)}
        done  == old # {} \/ LastPage(Of(f.user), f.page)
    IN
    /\ f.phase = "fetch"
    /\ refresh' = [refresh EXCEPT ![r].got   = @ \cup (items \ old),
                                  ![r].phase = IF done THEN "commit" ELSE "fetch",
                                  ![r].page  = IF done THEN @ ELSE @ + 1]
    /\ UNCHANGED <<now, used, store, cursor, run, erased, runs>>

\* #replaceRecentRechargeEvents, once every answer of the refresh is there.
Commit(r) ==
    LET f == refresh[r] IN
    /\ f.phase = "commit"
    /\ store' = (store \ Recent(f.user, f.cutoff)) \cup {c \in f.got : Counts(c)}
    /\ erased' = (erased \cup store) \ store'
    /\ refresh' = [refresh EXCEPT ![r] = Idle]
    /\ UNCHANGED <<now, used, cursor, run, runs>>

FailRefresh(r) ==
    /\ refresh[r].phase # "idle" /\ refresh' = [refresh EXCEPT ![r] = Idle]
    /\ UNCHANGED <<now, used, store, cursor, run, erased, runs>>

Next ==
    \/ \E u \in Users : \/ \E c \in Codes : UseCode(c, u)
                        \/ \E r \in Refreshes, span \in Spans : Begin(r, u, span)
    \/ Tick
    \/ StartRun \/ ReadPage \/ SaveCursor \/ FailRun
    \/ \E r \in Refreshes : Fetch(r) \/ Commit(r) \/ FailRefresh(r)

Spec == Init /\ [][Next]_vars

-----------------------------------------------------------------------------
(* Properties.                                                             *)

\* Whatever shifts between the pages of a refresh, the rule that is judged next
\* counts every recharge of its window that upstream had when the refresh was
\* made, the one at the very start of the window included, and no reward of the
\* extension itself; other users keep their rows.
RecentIsExact ==
    [][\A r \in Refreshes : Commit(r) =>
          \A u \in Users, since \in -Horizon..Horizon :
              IF u = refresh[r].user
              THEN since = refresh[r].cutoff =>
                      /\ refresh[r].known \subseteq Recent(u, since)'
                      /\ \A c \in Recent(u, since)' : Counts(c)
              ELSE Recent(u, since)' = Recent(u, since)]_vars

\* A recharge at or below the saved cursor, which no later synchronisation reads
\* again, is in the ledger, whatever pages shifted and failed.  The two ways the
\* code does lose one: a refresh answered before it deletes it again, or a code
\* with a higher id was used in the same instant and read first.
LedgerComplete ==
    /\ \A c \in store : Counts(c)
    /\ \A c \in Used : Counts(c) /\ ~Newer(Mark(c), cursor) =>
          \/ c \in store \cup erased
          \/ \E d \in Used : d > c /\ used[d].at = used[c].at
=============================================================================
