---------------------------- MODULE PostgresBridge ----------------------------
(***************************************************************************)
(* The synchronous PostgreSQL connection: the main thread                  *)
(* (server/src/postgres-database.js) posts a query and sleeps until the    *)
(* worker (server/src/postgres-worker.js) has written an answer into       *)
(* memory both share.  Control words and bytes are written one after the   *)
(* other, nothing in them says which query they answer, and a query that   *)
(* took too long is given up but still answered.  On top of it runs        *)
(* transaction (server/src/db.js): BEGIN, the work, COMMIT or ROLLBACK.    *)
(*                                                                         *)
(* A unit is one piece of work with the database: a single statement or a  *)
(* transaction with one.  Its statement may be refused by the database.    *)
(***************************************************************************)
EXTENDS Integers, Sequences

CONSTANTS
    Units,        \* 1..n, begun in this order
    MaxTimeouts   \* bound on queries that are given up

VARIABLES
    main,         \* the main thread
    state,        \* control[0]
    length,       \* control[1]: the query whose answer has this length, 0 after a reset
    bytes,        \* responseBytes: the query they answer, 0 while they are overwritten
    mailbox,      \* messages to the worker, in order
    worker,
    answers,      \* what each query has come to in the database
    session,      \* the database session: its transaction and what that has written
    committed,    \* units whose statement is durable
    outcome,      \* what the caller of each unit was told
    timeouts

vars == <<main, state, length, bytes, mailbox, worker, answers, session, committed, outcome, timeouts>>

Operations == {"connect", "single", "begin", "work", "commit", "rollback", "close"}
Last == Len(answers)
Quiet == [phase |-> "idle"]

\* The main thread: whose turn it is, the query it waits for, and what it has seen
\* of the answer.  inStep says that every earlier query was answered when it was sent.
Waiting == [phase : {"wait", "decode", "take"}, unit : Units \cup {0}, op : Operations,
            query : Nat, of : Nat, whole : BOOLEAN, inStep : BOOLEAN]
Between == [phase : {"free", "next"}, unit : Units \cup {0}, op : Operations, ok : BOOLEAN]
Closed  == [phase |-> "closed"]
Message == [query : Nat, unit : Units \cup {0}, op : Operations]

TypeOK ==
    /\ main \in Waiting \cup Between \cup {Closed}
    /\ state \in 0..1 /\ length \in 0..Last /\ bytes \in 0..Last
    /\ mailbox \in Seq(Message)
    /\ worker \in [phase : {"respond", "bytes", "length"}, query : 1..Last] \cup {Quiet}
    /\ answers \in Seq({"waiting", "ok", "error"})
    /\ session \in [open : BOOLEAN, aborted : BOOLEAN, wrote : SUBSET Units]
    /\ committed \subseteq Units /\ outcome \in [Units -> {"none", "done", "failed"}]
    /\ timeouts \in 0..MaxTimeouts

Wait(u, op, n, inStep) ==
    [phase |-> "wait", unit |-> u, op |-> op, query |-> n, of |-> 0, whole |-> FALSE,
     inStep |-> inStep]

\* The constructor waits for the worker to connect, as if for a query.
Init ==
    /\ main = Wait(0, "connect", 1, TRUE)
    /\ state = 0 /\ length = 0 /\ bytes = 0
    /\ mailbox = <<[query |-> 1, unit |-> 0, op |-> "connect"]>>
    /\ worker = Quiet
    /\ answers = <<"waiting">>
    /\ session = [open |-> FALSE, aborted |-> FALSE, wrote |-> {}]
    /\ committed = {} /\ outcome = [u \in Units |-> "none"]
    /\ timeouts = 0

-----------------------------------------------------------------------------
(* Plausible faults, against which the properties below are tried.          *)

\* A query that leaves the control words as the last answer has left them.
ResetNothing == state' = state /\ length' = length

\* An answer taken for a result without a look at its error.
TakeAsResult ==
    /\ main.phase = "take"
    /\ main' = [phase |-> "next", unit |-> main.unit, op |-> main.op, ok |-> main.whole]
    /\ UNCHANGED <<state, length, bytes, mailbox, worker, answers, session, committed, outcome, timeouts>>

-----------------------------------------------------------------------------
(* The main thread.                                                        *)

Reset == state' = 0 /\ length' = 0

\* query and close: reset, post, wait.
Send(u, op) ==
    /\ Reset
    /\ answers' = Append(answers, "waiting")
    /\ mailbox' = Append(mailbox, [query |-> Last + 1, unit |-> u, op |-> op])
    /\ main' = Wait(u, op, Last + 1, mailbox = <<>> /\ worker = Quiet)

\* A unit begins, or the database is closed.
Begin(u, op) ==
    /\ main.phase = "free" /\ op \in {"single", "begin"}
    /\ outcome[u] = "none" /\ \A v \in Units : v < u => outcome[v] # "none"
    /\ Send(u, op)
    /\ UNCHANGED <<bytes, worker, session, committed, outcome, timeouts>>

Close ==
    /\ main.phase = "free" /\ Send(0, "close")
    /\ UNCHANGED <<bytes, worker, session, committed, outcome, timeouts>>

\* #waitForResponse, in three steps during which the worker may write: the state
\* ends the wait, the length is read, the bytes are decoded.
Wake ==
    /\ main.phase = "wait" /\ state = 1
    /\ main' = [main EXCEPT !.phase = "decode", !.of = length, !.whole = (bytes = length)]
    /\ UNCHANGED <<state, length, bytes, mailbox, worker, answers, session, committed, outcome, timeouts>>

Decode ==
    /\ main.phase = "decode"
    /\ main' = [main EXCEPT !.phase = "take", !.whole = @ /\ main.of # 0 /\ bytes = main.of]
    /\ UNCHANGED <<state, length, bytes, mailbox, worker, answers, session, committed, outcome, timeouts>>

Resume(ok) == main' = [phase |-> "next", unit |-> main.unit, op |-> main.op, ok |-> ok]

\* Bytes that do not fit together fail to parse.
Take ==
    /\ main.phase = "take"
    /\ Resume(main.whole /\ answers[main.of] = "ok")
    /\ UNCHANGED <<state, length, bytes, mailbox, worker, answers, session, committed, outcome, timeouts>>

TimeOut ==
    /\ main.phase = "wait" /\ state = 0
    /\ timeouts < MaxTimeouts /\ timeouts' = timeouts + 1
    /\ Resume(FALSE)
    /\ UNCHANGED <<state, length, bytes, mailbox, worker, answers, session, committed, outcome>>

\* What transaction does after a statement.  A BEGIN that fails is not rolled back.
Follows(op, ok) ==
    CASE op = "begin" /\ ok              -> "work"
      [] op = "work"                     -> IF ok THEN "commit" ELSE "rollback"
      [] op = "commit" /\ ~ok            -> "rollback"
      [] OTHER                           -> "none"

Told(op, ok) == IF ok /\ op # "rollback" THEN "done" ELSE "failed"

Continue ==
    /\ main.phase = "next" /\ main.unit \in Units
    /\ LET then == Follows(main.op, main.ok) IN
          IF then # "none"
          THEN Send(main.unit, then) /\ UNCHANGED outcome
          ELSE /\ outcome' = [outcome EXCEPT ![main.unit] = Told(main.op, main.ok)]
               /\ main' = [phase |-> "free", unit |-> 0, op |-> main.op, ok |-> TRUE]
               /\ UNCHANGED <<state, length, mailbox, answers>>
    /\ UNCHANGED <<bytes, worker, session, committed, timeouts>>

\* After the connection is made; a database that cannot be reached, or that has
\* been closed, is closed.
Settle ==
    /\ main.phase = "next" /\ main.unit = 0
    /\ main' = IF main.op = "connect" /\ main.ok
               THEN [phase |-> "free", unit |-> 0, op |-> "connect", ok |-> TRUE]
               ELSE Closed
    /\ UNCHANGED <<state, length, bytes, mailbox, worker, answers, session, committed, outcome, timeouts>>

-----------------------------------------------------------------------------
(* The database session.                                                   *)

NoTransaction == [open |-> FALSE, aborted |-> FALSE, wrote |-> {}]

\* A statement that is refused, or that comes after one in the same transaction.
Refused(m) ==
    /\ session' = [session EXCEPT !.aborted = session.open]
    /\ UNCHANGED committed

Wrote(m) ==
    IF session.open
    THEN session' = [session EXCEPT !.wrote = @ \cup {m.unit}] /\ UNCHANGED committed
    ELSE committed' = committed \cup {m.unit} /\ UNCHANGED session

Execute(m, answer) ==
    CASE m.op \in {"single", "work"} ->
            /\ session.aborted => answer = "error"
            /\ IF answer = "ok" THEN Wrote(m) ELSE Refused(m)
      [] m.op = "begin" ->
            /\ answer = IF session.aborted THEN "error" ELSE "ok"
            /\ session' = [session EXCEPT !.open = TRUE] /\ UNCHANGED committed
      [] m.op = "commit" ->
            /\ answer = "ok" /\ session' = NoTransaction
            /\ committed' = IF session.aborted THEN committed ELSE committed \cup session.wrote
      [] m.op \in {"rollback", "close"} ->
            /\ answer = "ok" /\ session' = NoTransaction /\ UNCHANGED committed
      [] m.op = "connect" -> UNCHANGED <<session, committed>>

-----------------------------------------------------------------------------
(* The worker.                                                             *)

\* client.query: queries run in the order of their messages.
Run(answer) ==
    /\ worker = Quiet /\ mailbox # <<>> /\ main # Closed
    /\ LET m == Head(mailbox) IN
          /\ Execute(m, answer)
          /\ answers' = [answers EXCEPT ![m.query] = answer]
          /\ worker' = [phase |-> "respond", query |-> m.query]
    /\ mailbox' = Tail(mailbox)
    /\ UNCHANGED <<main, state, length, bytes, outcome, timeouts>>

\* respond: the bytes, their length, the state.
ClearBytes ==
    /\ worker.phase = "respond" /\ bytes # 0 /\ bytes' = 0
    /\ UNCHANGED <<main, state, length, mailbox, worker, answers, session, committed, outcome, timeouts>>

StoreBytes ==
    /\ worker.phase = "respond" /\ bytes = 0
    /\ bytes' = worker.query /\ worker' = [worker EXCEPT !.phase = "bytes"]
    /\ UNCHANGED <<main, state, length, mailbox, answers, session, committed, outcome, timeouts>>

StoreLength ==
    /\ worker.phase = "bytes"
    /\ length' = worker.query /\ worker' = [worker EXCEPT !.phase = "length"]
    /\ UNCHANGED <<main, state, bytes, mailbox, answers, session, committed, outcome, timeouts>>

StoreState ==
    /\ worker.phase = "length" /\ state' = 1 /\ worker' = Quiet
    /\ UNCHANGED <<main, length, bytes, mailbox, answers, session, committed, outcome, timeouts>>

Next ==
    \/ \E u \in Units, op \in {"single", "begin"} : Begin(u, op)
    \/ Close \/ Wake \/ Decode \/ Take \/ TimeOut \/ Continue \/ Settle
    \/ \E answer \in {"ok", "error"} : Run(answer)
    \/ ClearBytes \/ StoreBytes \/ StoreLength \/ StoreState

Spec == Init /\ [][Next]_vars

-----------------------------------------------------------------------------
(* Properties.                                                             *)

\* Every query is given its own answer, and whole, although nothing in the shared
\* memory names it.  After timeouts a query may be given the answer of one before
\* it, no further back than queries were given up, or bytes of two answers; the next
\* query that finds the worker idle is in step again.
OwnAnswer ==
    main.phase = "take" =>
        /\ main.inStep => main.whole /\ main.of = main.query
        /\ ~main.inStep => timeouts > 0
        /\ main.whole => main.of \in main.query - timeouts..main.query

\* What a caller was told is what the database holds: done is durable, failed has
\* left nothing, and no transaction is open when nobody works in one.  It is not so
\* once a query was given up: a COMMIT that times out may have committed, a BEGIN that
\* times out leaves a transaction open under the statements that follow.
UnitsAtomic ==
    timeouts = 0 =>
        /\ \A u \in Units : /\ outcome[u] = "done" => u \in committed
                            /\ outcome[u] = "failed" => u \notin committed \cup session.wrote
        /\ main.phase = "free" => session = NoTransaction
=============================================================================
