------------------------------ MODULE Directory ------------------------------
(***************************************************************************)
(* The local copy of a paged upstream list (server/src/sync.js): the users *)
(* (#syncUsers) or the groups (#syncGroups).  A sweep reads the list page  *)
(* by page, in the order of the ids, writes what it reads with the time of *)
(* writing, and in the end deletes every row written before it began.      *)
(* refreshUser writes single users beside it, with the time of its call.   *)
(*                                                                         *)
(* SyncService.run sweeps once at a time, but refreshGroups and the other  *)
(* processes sweep beside it: each is a sweeper here, whichever the list.  *)
(* Abstracted: what a row holds besides its id and its synced_at.          *)
(***************************************************************************)
EXTENDS Integers, FiniteSets

CONSTANTS
    MaxId,       \* bound on the ids of users or groups, 1..MaxId
    Sweepers,
    Refreshes,   \* concurrent calls of refreshUser
    PageSize,
    Horizon      \* bound on time

VARIABLES
    now,
    members,     \* who is on the upstream list
    issued,      \* the last id upstream has given
    rows,        \* synced_at of every stored row
    sweep,
    refresh,
    left         \* history: the last time someone left the list

vars == <<now, members, issued, rows, sweep, refresh, left>>

Ids     == 1..MaxId
Never   == -1
Times   == 0..Horizon
Rest    == [phase |-> "rest"]
\* A sweep waits for a page, has its answer, or has the rest to delete.
Sweeps  == [phase : {"ask", "store", "drop"}, page : Nat, started : Times,
            answer : SUBSET Ids, last : BOOLEAN]
Calls   == [phase : {"ask", "store"}, id : Ids, called : Times]

TypeOK ==
    /\ now \in Times /\ members \subseteq 1..issued /\ issued \in 0..MaxId /\ left \in Times \cup {Never}
    /\ rows \in [Ids -> [at : Times \cup {Never}, by : {"sweep", "refresh"}]]
    /\ sweep \in [Sweepers -> Sweeps \cup {Rest}]
    /\ refresh \in [Refreshes -> Calls \cup {Rest}]

NoRow == [at |-> Never, by |-> "sweep"]

Init ==
    /\ now = 0 /\ members = {} /\ issued = 0
    /\ rows = [i \in Ids |-> NoRow]
    /\ sweep = [s \in Sweepers |-> Rest] /\ refresh = [r \in Refreshes |-> Rest]
    /\ left = Never

Stored == {i \in Ids : rows[i].at # Never}

Page(p) == {i \in members : Cardinality({j \in members : j < i}) \div PageSize = p - 1}

-----------------------------------------------------------------------------
(* Upstream and the clock.                                                 *)

\* An id is never given again.
Join ==
    /\ issued < MaxId /\ issued' = issued + 1
    /\ members' = members \cup {issued'}
    /\ UNCHANGED <<now, rows, sweep, refresh, left>>

Leave(i) ==
    /\ i \in members /\ members' = members \ {i} /\ left' = now
    /\ UNCHANGED <<now, issued, rows, sweep, refresh>>

Tick ==
    /\ now < Horizon /\ now' = now + 1
    /\ UNCHANGED <<members, issued, rows, sweep, refresh, left>>

-----------------------------------------------------------------------------
(* A plausible fault: the sweep's start taken when its last page is stored. *)

DropStale(s) ==
    /\ sweep[s].phase = "drop"
    /\ rows' = [i \in Ids |-> IF rows[i].at < now THEN NoRow ELSE rows[i]]
    /\ sweep' = [sweep EXCEPT ![s] = Rest]
    /\ UNCHANGED <<now, members, issued, refresh, left>>

-----------------------------------------------------------------------------
(* A sweep.                                                                *)

StartSweep(s) ==
    /\ sweep[s].phase = "rest"
    /\ sweep' = [sweep EXCEPT ![s] = [phase |-> "ask", page |-> 1, started |-> now,
                                      answer |-> {}, last |-> FALSE]]
    /\ UNCHANGED <<now, members, issued, rows, refresh, left>>

\* What the list is when upstream answers.
Answer(s) ==
    /\ sweep[s].phase = "ask"
    /\ sweep' = [sweep EXCEPT ![s].phase  = "store",
                              ![s].answer = Page(sweep[s].page),
                              ![s].last   = sweep[s].page * PageSize >= Cardinality(members)]
    /\ UNCHANGED <<now, members, issued, rows, refresh, left>>

\* One transaction a page.
Store(s) ==
    /\ sweep[s].phase = "store"
    /\ rows' = [i \in Ids |-> IF i \in sweep[s].answer THEN [at |-> now, by |-> "sweep"] ELSE rows[i]]
    /\ sweep' = [sweep EXCEPT ![s].phase  = IF sweep[s].last THEN "drop" ELSE "ask",
                              ![s].page   = IF sweep[s].last THEN @ ELSE @ + 1,
                              ![s].answer = {}, ![s].last = FALSE]
    /\ UNCHANGED <<now, members, issued, refresh, left>>

\* DELETE ... WHERE synced_at < sweepStartedAt.
Drop(s) ==
    /\ sweep[s].phase = "drop"
    /\ rows' = [i \in Ids |-> IF rows[i].at < sweep[s].started THEN NoRow ELSE rows[i]]
    /\ sweep' = [sweep EXCEPT ![s] = Rest]
    /\ UNCHANGED <<now, members, issued, refresh, left>>

\* A page cannot be read, or the process dies.
FailSweep(s) ==
    /\ sweep[s].phase # "rest" /\ sweep' = [sweep EXCEPT ![s] = Rest]
    /\ UNCHANGED <<now, members, issued, rows, refresh, left>>

-----------------------------------------------------------------------------
(* refreshUser.                                                            *)

Call(r, i) ==
    /\ refresh[r].phase = "rest"
    /\ refresh' = [refresh EXCEPT ![r] = [phase |-> "ask", id |-> i, called |-> now]]
    /\ UNCHANGED <<now, members, issued, rows, sweep, left>>

Found(r) ==
    /\ refresh[r].phase = "ask" /\ refresh[r].id \in members
    /\ refresh' = [refresh EXCEPT ![r].phase = "store"]
    /\ UNCHANGED <<now, members, issued, rows, sweep, left>>

\* Upstream does not know the user, or does not answer.
GiveUp(r) ==
    /\ refresh[r].phase = "ask" /\ refresh' = [refresh EXCEPT ![r] = Rest]
    /\ UNCHANGED <<now, members, issued, rows, sweep, left>>

\* upsertSyncedUser: synced_at is the time of the call.
Upsert(r) ==
    /\ refresh[r].phase = "store"
    /\ rows' = [rows EXCEPT ![refresh[r].id] = [at |-> refresh[r].called, by |-> "refresh"]]
    /\ refresh' = [refresh EXCEPT ![r] = Rest]
    /\ UNCHANGED <<now, members, issued, sweep, left>>

Next ==
    \/ Join \/ Tick
    \/ \E i \in Ids : Leave(i) \/ \E r \in Refreshes : Call(r, i)
    \/ \E s \in Sweepers : StartSweep(s) \/ Answer(s) \/ Store(s) \/ Drop(s) \/ FailSweep(s)
    \/ \E r \in Refreshes : Found(r) \/ GiveUp(r) \/ Upsert(r)

Spec == Init /\ [][Next]_vars

-----------------------------------------------------------------------------
(* A property.                                                             *)

\* A sweep throws away no one who is on the list, whatever joins it while its
\* pages are read and whoever sweeps beside it.  The two ways the code does:
\* another left the list meanwhile, so that the pages shifted, or a refresh called
\* before the sweep has overwritten the row, which the delete is meant to preserve
\* ("preserving any user refreshed concurrently", sync.js:326).
ListedIsKept ==
    [][\A s \in Sweepers : Drop(s) =>
          \A i \in (Stored \ Stored') \cap members :
              left >= sweep[s].started \/ rows[i].by = "refresh"]_vars
=============================================================================
