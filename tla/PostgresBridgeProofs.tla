------------------------- MODULE PostgresBridgeProofs -------------------------
(***************************************************************************)
(* Proofs about PostgresBridge for any number of units of work and of      *)
(* queries that are given up: whose answer a query is given, and, while    *)
(* none was given up, that callers and data base agree.                    *)
(***************************************************************************)
EXTENDS PostgresBridge, TLAPS

Parameters == Units \subseteq Nat \ {0} /\ MaxTimeouts \in Nat

Busy    == worker # Quiet
Taken   == Last - Len(mailbox)               \* the newest query the worker has taken
Pending == Len(mailbox) + IF Busy THEN 1 ELSE 0

\* Queries are taken in the order they were sent; what is in the shared memory comes
\* from the query the worker is at, or from the one before it.
Order ==
    /\ Last >= 1 /\ Taken >= 0
    /\ \A k \in 1..Len(mailbox) :
          /\ mailbox[k].query = Taken + k
          /\ mailbox[k].op \in {"single", "work"} => mailbox[k].unit \in Units
    /\ Busy => worker.query = Taken
    /\ Busy /\ worker.phase # "respond" => bytes = Taken
    /\ length # 0 =>
          length = IF Busy /\ worker.phase # "length" THEN Taken - 1 ELSE Taken
    /\ main \in Waiting => main.query = Last

\* Each query given up leaves at most one answer that nobody waits for.
Backlog ==
    /\ Pending <= timeouts + IF main.phase = "wait" /\ state = 0 THEN 1 ELSE 0
    /\ main.phase \in {"decode", "take"} => main.of = 0 \/ main.of >= Last - timeouts
    /\ main.phase \in {"decode", "take"} => main.of <= Last
    /\ main.phase = "take" /\ main.whole => main.of # 0

\* A query sent to an idle worker is the only one there is.
Alone ==
    /\ main \in Waiting /\ ~main.inStep => timeouts > 0
    /\ main.phase = "wait" /\ main.inStep =>
          /\ Pending = 1 - state
          /\ (Busy /\ worker.phase = "length") \/ state = 1 => length = Last
          /\ state = 1 => bytes = Last
    /\ main.phase = "decode" /\ main.inStep => Pending = 0 /\ bytes = Last
    /\ main.phase \in {"decode", "take"} /\ main.inStep => main.whole = TRUE /\ main.of = Last

Pipeline == TypeOK /\ Order /\ Backlog /\ Alone

-----------------------------------------------------------------------------
(* One answer at a time.                                                   *)

LEMMA PipelineInit == Parameters /\ Init => Pipeline
  <1> SUFFICES ASSUME Parameters, Init PROVE Pipeline
    OBVIOUS
  <1>1. mailbox \in Seq(Message) /\ Len(mailbox) = 1 /\ mailbox[1].query = 1 /\ mailbox[1].op = "connect"
    BY DEF Init, Message, Operations
  <1>2. answers \in Seq({"waiting", "ok", "error"}) /\ Last = 1
    BY DEF Init, Last
  <1>3. main \in Waiting
    BY DEF Init, Wait, Waiting, Operations
  <1>4. TypeOK
    <2>1. session \in [open : BOOLEAN, aborted : BOOLEAN, wrote : SUBSET Units]
      BY DEF Init
    <2>2. worker \in [phase : {"respond", "bytes", "length"}, query : 1..Last] \cup {Quiet}
      BY DEF Init
    <2>3. committed \subseteq Units /\ outcome \in [Units -> {"none", "done", "failed"}]
      BY DEF Init
    <2>4. state \in 0..1 /\ length \in 0..Last /\ bytes \in 0..Last /\ timeouts \in 0..MaxTimeouts
      BY <1>2 DEF Init, Parameters
    <2> QED
      BY <1>1, <1>2, <1>3, <2>1, <2>2, <2>3, <2>4 DEF TypeOK
  <1>5. Order
    BY <1>1, <1>2 DEF Init, Order, Taken, Busy, Wait
  <1> QED
    BY <1>1, <1>2, <1>4, <1>5 DEF Init, Pipeline, Backlog, Alone, Pending, Busy, Wait

\* A query is sent: the control words are reset, the message goes behind the others.
LEMMA SendKeeps ==
    ASSUME Parameters, Pipeline, NEW u \in Units \cup {0}, NEW op \in Operations,
           op \in {"single", "work"} => u \in Units, main.phase \in {"free", "next"}, Send(u, op), UNCHANGED <<bytes, worker, timeouts>>,
           session' \in [open : BOOLEAN, aborted : BOOLEAN, wrote : SUBSET Units],
           committed' \subseteq Units, outcome' \in [Units -> {"none", "done", "failed"}]
    PROVE  Pipeline'
  <1> USE DEF Pipeline, TypeOK
  <1> DEFINE m == [query |-> Last + 1, unit |-> u, op |-> op]
  <1>1. answers' \in Seq({"waiting", "ok", "error"}) /\ Last' = Last + 1 /\ Last \in Nat
    BY DEF Send, Last
  <1>2. m \in Message
    BY <1>1 DEF Message
  <1>3. /\ mailbox' = Append(mailbox, m) /\ mailbox' \in Seq(Message) /\ Len(mailbox) \in Nat
        /\ Len(mailbox') = Len(mailbox) + 1
        /\ \A k \in 1..Len(mailbox) : mailbox'[k] = mailbox[k]
        /\ mailbox'[Len(mailbox) + 1] = m
    BY <1>2 DEF Send
  <1>4. /\ main' = Wait(u, op, Last + 1, mailbox = <<>> /\ worker = Quiet)
        /\ state' = 0 /\ length' = 0 /\ bytes' = bytes /\ worker' = worker /\ timeouts' = timeouts
    BY DEF Send, Reset
  <1>5. main' \in Waiting
    BY <1>1, <1>4 DEF Wait, Waiting
  <1>6. TypeOK'
    BY <1>1, <1>3, <1>4, <1>5 DEF Quiet
  <1>7. Taken' = Taken /\ Busy' = Busy /\ Pending \in Nat /\ Pending' = Pending + 1
    BY <1>1, <1>3, <1>4 DEF Taken, Busy, Pending, Quiet
  <1>8. /\ main'.phase = "wait" /\ main'.query = Last'
        /\ main'.inStep <=> mailbox = <<>> /\ worker = Quiet
    BY <1>1, <1>4 DEF Wait
  <1>9. Order'
    <2>1. \A k \in 1..Len(mailbox') :
             /\ mailbox'[k].query = Taken' + k
             /\ mailbox'[k].op \in {"single", "work"} => mailbox'[k].unit \in Units
      BY <1>1, <1>3, <1>7 DEF Order, Taken
    <2> QED
      BY <1>1, <1>4, <1>7, <1>8, <2>1 DEF Order
  <1>10. Pending <= timeouts
    BY DEF Backlog
  <1>11. Backlog'
    <2>1. Pending' <= timeouts' + 1 /\ main'.phase = "wait" /\ state' = 0
      BY <1>4, <1>7, <1>8, <1>10
    <2> QED
      BY <2>1 DEF Backlog
  <1>12. mailbox = <<>> /\ worker = Quiet <=> Pending = 0
    BY <1>3 DEF Pending, Busy
  <1>13. ASSUME ~main'.inStep PROVE timeouts' > 0
    BY <1>4, <1>7, <1>8, <1>10, <1>12, <1>13
  <1>14. ASSUME main'.inStep PROVE Pending' = 1 /\ ~Busy'
    BY <1>3, <1>7, <1>8, <1>12, <1>14 DEF Busy, Pending
  <1>15. Alone'
    BY <1>4, <1>8, <1>13, <1>14 DEF Alone
  <1> QED
    BY <1>6, <1>9, <1>11, <1>15

\* The main thread reads the shared memory, or gives a query up.
LEMMA MainKeeps ==
    ASSUME Parameters, Pipeline, Wake \/ Decode \/ Take \/ TimeOut \/ Settle
    PROVE  Pipeline'
  <1> USE DEF Pipeline, TypeOK
  <1>1. /\ state' = state /\ length' = length /\ bytes' = bytes /\ mailbox' = mailbox
        /\ worker' = worker /\ answers' = answers /\ session' = session
        /\ committed' = committed
    BY DEF Wake, Decode, Take, TimeOut, Settle
  <1>2. /\ Last' = Last /\ Taken' = Taken /\ Busy' = Busy /\ Pending' = Pending
        /\ Last \in Nat /\ Pending \in Nat
    BY <1>1 DEF Last, Taken, Busy, Pending
  <1>3. ASSUME main' \in Waiting \cup Between \cup {Closed}, timeouts' \in 0..MaxTimeouts,
               main' \in Waiting => main'.query = Last, outcome' = outcome
        PROVE  TypeOK' /\ Order'
    <2>1. TypeOK'
      BY <1>1, <1>2, <1>3
    <2>2. Order'
      BY <1>1, <1>2, <1>3 DEF Order
    <2> QED BY <2>1, <2>2
  <1>4. CASE Wake
    <2>1. /\ main \in Waiting /\ state = 1 /\ timeouts' = timeouts /\ outcome' = outcome
          /\ main' = [main EXCEPT !.phase = "decode", !.of = length, !.whole = (bytes = length)]
      BY <1>4 DEF Wake, Waiting, Between, Closed
    <2>0. (bytes = length) \in BOOLEAN /\ length \in Nat
      BY <1>2
    <2>2. /\ main' \in Waiting /\ main'.phase = "decode" /\ main'.of = length
          /\ main'.query = main.query
      <3>1. main' \in Waiting
        BY <2>0, <2>1 DEF Waiting
      <3> QED
        BY <2>1, <3>1 DEF Waiting
    <2>3. (main'.inStep <=> main.inStep) /\ (main'.whole <=> bytes = length)
      BY <2>1 DEF Waiting
    <2>4. TypeOK' /\ Order'
      BY <1>3, <2>1, <2>2 DEF Order
    <2>5. length = 0 \/ length >= Last - Pending
      BY <1>2 DEF Order, Pending, Taken
    <2>6. Pending <= timeouts
      BY <1>4, <2>1 DEF Backlog, Wake
    <2>7. Backlog'
      BY <1>2, <2>1, <2>2, <2>5, <2>6 DEF Backlog
    <2>8. main.phase = "wait"
      BY <1>4 DEF Wake
    <2>9. Alone'
      BY <1>1, <1>2, <2>1, <2>2, <2>3, <2>8 DEF Alone
    <2> QED BY <2>4, <2>7, <2>9
  <1>5. CASE Decode
    <2>1. /\ main \in Waiting /\ main.phase = "decode" /\ timeouts' = timeouts /\ outcome' = outcome
          /\ main' = [main EXCEPT !.phase = "take",
                                  !.whole = main.whole /\ main.of # 0 /\ bytes = main.of]
      BY <1>5 DEF Decode, Waiting, Between, Closed
    <2>2. /\ main' \in Waiting /\ main'.phase = "take" /\ main'.of = main.of
          /\ main'.query = main.query
      BY <2>1 DEF Waiting
    <2>3. (main'.inStep <=> main.inStep) /\ (main'.whole <=> main.whole /\ main.of # 0 /\ bytes = main.of)
      BY <2>1 DEF Waiting
    <2>4. TypeOK' /\ Order'
      BY <1>3, <2>1, <2>2 DEF Order
    <2>5. Backlog'
      BY <1>1, <1>2, <2>1, <2>2, <2>3 DEF Backlog
    <2>6. Alone'
      BY <1>1, <1>2, <2>1, <2>2, <2>3 DEF Alone, Order
    <2> QED BY <2>4, <2>5, <2>6
  <1>6. ASSUME main' \in Between \cup {Closed}, timeouts' \in 0..MaxTimeouts, timeouts' >= timeouts,
               Pending <= timeouts', outcome' = outcome
        PROVE  Pipeline'
    <2>1. main' \notin Waiting /\ main'.phase \notin {"wait", "decode", "take"}
      BY <1>6 DEF Waiting, Between, Closed
    <2>2. TypeOK' /\ Order'
      BY <1>3, <1>6, <2>1
    <2>3. Backlog'
      <3>1. timeouts' \in Nat /\ Pending' <= timeouts'
        BY <1>2, <1>6 DEF Parameters
      <3> QED
        BY <2>1, <3>1 DEF Backlog
    <2>4. Alone'
      BY <2>1 DEF Alone
    <2> QED BY <2>2, <2>3, <2>4
  <1>7. CASE Take
    <2>1. main \in Waiting /\ main.phase = "take" /\ main.op \in Operations /\ main.unit \in Units \cup {0}
      BY <1>7 DEF Take, Waiting, Between, Closed
    <2>2. main' \in Between
      BY <1>7, <2>1 DEF Take, Resume, Between
    <2> QED
      BY <1>6, <1>7, <2>1, <2>2 DEF Take, Backlog
  <1>8. CASE TimeOut
    <2>1. main \in Waiting /\ main.phase = "wait" /\ main.op \in Operations /\ main.unit \in Units \cup {0}
      BY <1>8 DEF TimeOut, Waiting, Between, Closed
    <2>2. main' \in Between
      BY <1>8, <2>1 DEF TimeOut, Resume, Between
    <2> QED
      BY <1>2, <1>6, <1>8, <2>2 DEF TimeOut, Backlog, Parameters
  <1>9. CASE Settle
    <2>1. main' \in Between \cup {Closed}
      BY <1>9 DEF Settle, Between, Operations
    <2> QED
      BY <1>2, <1>6, <1>9, <2>1 DEF Settle, Backlog
  <1> QED
    BY <1>4, <1>5, <1>7, <1>8, <1>9

\* The worker takes a query, or writes a part of its answer.
LEMMA WorkerKeeps ==
    ASSUME Parameters, Pipeline,
           (\E answer \in {"ok", "error"} : Run(answer)) \/ ClearBytes \/ StoreBytes
               \/ StoreLength \/ StoreState
    PROVE  Pipeline'
  <1> USE DEF Pipeline, TypeOK
  <1>1. main' = main /\ outcome' = outcome /\ timeouts' = timeouts /\ Len(answers') = Len(answers)
    BY DEF Run, ClearBytes, StoreBytes, StoreLength, StoreState
  <1>2. Last' = Last /\ Last \in Nat /\ Pending \in Nat /\ Len(mailbox) \in Nat
    BY <1>1 DEF Last, Pending, Busy
  <1>3. ASSUME NEW answer \in {"ok", "error"}, Run(answer) PROVE Pipeline'
    <2> DEFINE m == Head(mailbox)
    <2>1. /\ mailbox # <<>> /\ m \in Message /\ m.query = Taken + 1 /\ m = mailbox[1]
          /\ mailbox' = Tail(mailbox) /\ mailbox' \in Seq(Message)
          /\ Len(mailbox') = Len(mailbox) - 1 /\ Len(mailbox) >= 1
          /\ \A k \in 1..Len(mailbox') : mailbox'[k] = mailbox[k + 1]
      BY <1>3 DEF Run, Order
    <2>2. m.query \in 1..Last
      BY <1>2, <2>1 DEF Taken, Order
    <2>3. /\ worker = Quiet /\ worker' = [phase |-> "respond", query |-> m.query]
          /\ answers' = [answers EXCEPT ![m.query] = answer]
          /\ state' = state /\ length' = length /\ bytes' = bytes
      BY <1>3 DEF Run
    <2>4. /\ session' \in [open : BOOLEAN, aborted : BOOLEAN, wrote : SUBSET Units]
          /\ committed' \subseteq Units
      <3>0. Execute(m, answer)
        BY <1>3 DEF Run
      <3>1. NoTransaction \in [open : BOOLEAN, aborted : BOOLEAN, wrote : SUBSET Units]
        BY DEF NoTransaction
      <3>2. m.op \in {"single", "work"} => m.unit \in Units
        BY <2>1 DEF Order
      <3>3. ASSUME Refused(m) PROVE <2>4!1 /\ <2>4!2
        BY <3>3 DEF Refused
      <3>4. ASSUME Wrote(m), m.unit \in Units PROVE <2>4!1 /\ <2>4!2
        BY <3>4 DEF Wrote
      <3>5. CASE m.op \in {"single", "work"}
        BY <3>0, <3>2, <3>3, <3>4, <3>5 DEF Execute
      <3>6. CASE m.op \in {"begin", "connect"}
        BY <3>0, <3>6 DEF Execute
      <3>7. CASE m.op \in {"commit", "rollback", "close"}
        BY <3>0, <3>1, <3>7 DEF Execute
      <3> QED
        BY <2>1, <3>5, <3>6, <3>7 DEF Message, Operations
    <2>5. TypeOK'
      BY <1>1, <1>2, <2>1, <2>2, <2>3, <2>4 DEF Last
    <2>6. Taken' = Taken + 1 /\ ~Busy /\ Busy' /\ Pending' = Pending
      <3>1. ~Busy /\ Busy'
        BY <2>3 DEF Busy, Quiet
      <3> QED
        BY <1>2, <2>1, <3>1 DEF Taken, Pending
    <2>7. Order'
      <3>1. \A k \in 1..Len(mailbox') :
               /\ mailbox'[k].query = Taken' + k
               /\ mailbox'[k].op \in {"single", "work"} => mailbox'[k].unit \in Units
        BY <1>2, <2>1, <2>6 DEF Order, Taken
      <3>2. worker'.query = Taken' /\ worker'.phase = "respond"
        BY <2>1, <2>3, <2>6
      <3>3. Taken \in Int
        BY <1>2 DEF Taken
      <3> QED
        BY <1>1, <1>2, <2>3, <2>6, <3>1, <3>2, <3>3 DEF Order
    <2>8. Backlog' /\ Alone'
      BY <1>1, <1>2, <2>3, <2>6 DEF Backlog, Alone
    <2> QED
      BY <2>5, <2>7, <2>8
  <1>4. ASSUME mailbox' = mailbox, answers' = answers, session' = session, committed' = committed,
               Busy
        PROVE  /\ Taken' = Taken /\ Taken \in 0..Last /\ worker.query = Taken /\ worker.query \in 1..Last
               /\ worker \in [phase : {"respond", "bytes", "length"}, query : 1..Last]
               /\ Pending = Len(mailbox) + 1
    BY <1>2, <1>4 DEF Taken, Order, Busy, Pending
  <1>5. CASE ClearBytes
    <2>1. Busy /\ Busy' /\ worker' = worker /\ worker.phase = "respond" /\ Pending' = Pending
      BY <1>5 DEF ClearBytes, Busy, Quiet, Pending
    <2>2. TypeOK'
      BY <1>1, <1>2, <1>5 DEF ClearBytes
    <2>3. Order'
      BY <1>1, <1>2, <1>4, <1>5, <2>1 DEF ClearBytes, Order
    <2>4. Backlog'
      BY <1>1, <1>2, <1>5, <2>1 DEF ClearBytes, Backlog
    <2>5. Alone'
      BY <1>1, <1>2, <1>5, <2>1 DEF ClearBytes, Alone, Pending
    <2> QED
      BY <2>2, <2>3, <2>4, <2>5
  <1>6. CASE StoreBytes
    <2>1. /\ Busy /\ Busy' /\ Pending' = Pending /\ worker.phase = "respond"
          /\ worker'.phase = "bytes" /\ worker'.query = worker.query
          /\ worker' \in [phase : {"respond", "bytes", "length"}, query : 1..Last]
      BY <1>6 DEF StoreBytes, Busy, Quiet, Pending
    <2>2. TypeOK'
      BY <1>1, <1>2, <1>4, <1>6, <2>1 DEF StoreBytes
    <2>3. Order'
      BY <1>1, <1>2, <1>4, <1>6, <2>1 DEF StoreBytes, Order
    <2>4. Backlog'
      BY <1>1, <1>2, <1>6, <2>1 DEF StoreBytes, Backlog
    <2>5. Alone'
      BY <1>1, <1>2, <1>6, <2>1 DEF StoreBytes, Alone, Pending
    <2> QED
      BY <2>2, <2>3, <2>4, <2>5
  <1>7. CASE StoreLength
    <2>1. /\ Busy /\ Busy' /\ Pending' = Pending /\ worker.phase = "bytes"
          /\ worker'.phase = "length" /\ worker'.query = worker.query
          /\ worker' \in [phase : {"respond", "bytes", "length"}, query : 1..Last]
      BY <1>7 DEF StoreLength, Busy, Quiet, Pending
    <2>2. TypeOK'
      BY <1>1, <1>2, <1>4, <1>7, <2>1 DEF StoreLength
    <2>3. Order'
      BY <1>1, <1>2, <1>4, <1>7, <2>1 DEF StoreLength, Order
    <2>4. Backlog'
      BY <1>1, <1>2, <1>7, <2>1 DEF StoreLength, Backlog
    <2>5. main.phase = "wait" /\ main.inStep => worker.query = Last
      BY <1>2, <1>4, <1>7, <2>1 DEF StoreLength, Alone, Taken
    <2>6. Alone'
      BY <1>1, <1>2, <1>7, <2>1, <2>5 DEF StoreLength, Alone, Pending
    <2> QED
      BY <2>2, <2>3, <2>4, <2>6
  <1>8. CASE StoreState
    <2>1. /\ Busy /\ ~Busy' /\ Pending' = Pending - 1 /\ worker.phase = "length"
      BY <1>2, <1>8 DEF StoreState, Busy, Quiet, Pending
    <2>2. TypeOK'
      BY <1>1, <1>2, <1>8, <2>1 DEF StoreState
    <2>3. Order'
      BY <1>1, <1>2, <1>4, <1>8, <2>1 DEF StoreState, Order
    <2>4. Backlog'
      BY <1>1, <1>2, <1>8, <2>1 DEF StoreState, Backlog
    <2>5. main.phase = "wait" /\ main.inStep => bytes = Last /\ length = Last
      BY <1>2, <1>4, <1>8, <2>1 DEF StoreState, Alone, Taken, Order
    <2>6. main.phase \in {"wait", "decode"} /\ main.inStep => main.phase = "wait" /\ Pending = 1
      BY <1>2, <2>1, <2>5 DEF Alone, Pending
    <2>7. Alone'
      BY <1>1, <1>2, <1>8, <2>1, <2>5, <2>6 DEF StoreState, Alone
    <2> QED
      BY <2>2, <2>3, <2>4, <2>7
  <1> QED
    BY <1>3, <1>5, <1>6, <1>7, <1>8

LEMMA PipelineNext == Parameters /\ Pipeline /\ [Next]_vars => Pipeline'
  <1> SUFFICES ASSUME Parameters, Pipeline, [Next]_vars PROVE Pipeline'
    OBVIOUS
  <1>0. /\ session \in [open : BOOLEAN, aborted : BOOLEAN, wrote : SUBSET Units]
        /\ committed \subseteq Units /\ outcome \in [Units -> {"none", "done", "failed"}]
    BY DEF Pipeline, TypeOK
  <1>1. ASSUME NEW u \in Units, NEW op \in {"single", "begin"}, Begin(u, op) PROVE Pipeline'
    BY <1>0, <1>1, SendKeeps DEF Begin, Operations
  <1>2. CASE Close
    BY <1>0, <1>2, SendKeeps DEF Close, Operations
  <1>3. CASE Continue
    <2> DEFINE then == Follows(main.op, main.ok)
    <2>1. main.phase = "next" /\ main.unit \in Units /\ UNCHANGED <<bytes, worker, session, committed, timeouts>>
      BY <1>3 DEF Continue
    <2>2. CASE then # "none"
      <3>1. Send(main.unit, then) /\ UNCHANGED outcome
        BY <1>3, <2>2 DEF Continue
      <3>2. then \in Operations
        BY <2>2 DEF Follows, Operations
      <3> QED
        BY <1>0, <2>1, <3>1, <3>2, SendKeeps
    <2>3. CASE then = "none"
      <3>1. /\ outcome' = [outcome EXCEPT ![main.unit] = Told(main.op, main.ok)]
            /\ main' = [phase |-> "free", unit |-> 0, op |-> main.op, ok |-> TRUE]
            /\ UNCHANGED <<state, length, mailbox, answers>>
        BY <1>3, <2>3 DEF Continue
      <3>2. main \in Between
        BY <2>1 DEF Pipeline, TypeOK, Waiting, Closed
      <3>3. main' \in Between /\ main'.phase = "free" /\ main' \notin Waiting
        BY <3>1, <3>2 DEF Between, Waiting
      <3>4. TypeOK'
        <4>1. outcome' \in [Units -> {"none", "done", "failed"}]
          BY <1>0, <3>1 DEF Told
        <4> QED
          BY <2>1, <3>1, <3>3, <4>1 DEF Pipeline, TypeOK, Last
      <3>5. Taken' = Taken /\ Busy' = Busy /\ Pending' = Pending /\ Last' = Last
        BY <2>1, <3>1 DEF Taken, Busy, Pending, Last
      <3>6. Order'
        BY <2>1, <3>1, <3>3, <3>5 DEF Pipeline, Order
      <3>7. Backlog' /\ Alone'
        BY <2>1, <3>1, <3>3, <3>5 DEF Pipeline, Backlog, Alone
      <3> QED
        BY <3>4, <3>6, <3>7 DEF Pipeline
    <2> QED BY <2>2, <2>3
  <1>4. CASE UNCHANGED vars
    <2>1. TypeOK' /\ Order'
      BY <1>4 DEF vars, Pipeline, TypeOK, Order, Taken, Busy, Last
    <2>2. Backlog' /\ Alone'
      BY <1>4 DEF vars, Pipeline, Backlog, Alone, Pending, Busy, Last
    <2> QED BY <2>1, <2>2 DEF Pipeline
  <1> QED
    BY <1>1, <1>2, <1>3, <1>4, MainKeeps, WorkerKeeps DEF Next

\* The bridge as a whole stays in order (#waitForResponse and respond).
THEOREM PipelineCorrect ==
    ASSUME Parameters
    PROVE  Spec => []Pipeline
  <1>1. Init => Pipeline
    BY PipelineInit
  <1>2. Pipeline /\ [Next]_vars => Pipeline'
    BY PipelineNext
  <1> QED
    BY <1>1, <1>2, PTL DEF Spec

\* A query sent to an idle worker is given its own answer, and whole; after timeouts a
\* query is given the answer of one before it, no further back than queries were given up.
THEOREM AnswersMatch ==
    ASSUME Parameters
    PROVE  Spec => []OwnAnswer
  <1>1. ASSUME Pipeline PROVE OwnAnswer
    <2> SUFFICES ASSUME main.phase = "take"
                 PROVE  /\ main.inStep => main.whole /\ main.of = main.query
                        /\ ~main.inStep => timeouts > 0
                        /\ main.whole => main.of \in main.query - timeouts..main.query
      BY DEF OwnAnswer
    <2>1. main \in Waiting /\ timeouts \in Nat /\ Last \in Nat
      BY <1>1 DEF Pipeline, TypeOK, Waiting, Between, Closed, Parameters, Last
    <2>2. main.query = Last /\ main.of \in Nat
      BY <1>1, <2>1 DEF Pipeline, Order, Waiting
    <2>3. main.inStep => main.whole /\ main.of = main.query
      BY <1>1, <2>1, <2>2 DEF Pipeline, Alone
    <2>4. ~main.inStep => timeouts > 0
      BY <1>1, <2>1 DEF Pipeline, Alone
    <2>5. main.whole => main.of \in main.query - timeouts..main.query
      BY <1>1, <2>1, <2>2 DEF Pipeline, Backlog
    <2> QED BY <2>3, <2>4, <2>5
  <1> QED
    BY <1>1, PipelineCorrect, PTL

-----------------------------------------------------------------------------
(* Units are atomic while no query was given up.                           *)

InTransaction(aborted, wrote) == [open |-> TRUE, aborted |-> aborted, wrote |-> wrote]

\* The data base before the query op of unit u, and after it.
Before(op, u) ==
    /\ op \in {"connect", "single", "begin", "close"} => session = NoTransaction
    /\ op = "work" => session = InTransaction(FALSE, {})
    /\ op = "commit" => session = InTransaction(FALSE, {u})
    /\ op = "rollback" => session = InTransaction(TRUE, {})
    /\ u \notin committed

After(op, u, ok) ==
    /\ op \notin {"begin", "work"} => session = NoTransaction
    /\ op = "begin" => ok /\ session = InTransaction(FALSE, {})
    /\ op = "work" /\ ok => session = InTransaction(FALSE, {u})
    /\ op = "work" /\ ~ok => session = InTransaction(TRUE, {})
    /\ op = "commit" => ok
    /\ op \in {"single", "commit"} => (u \in committed <=> ok)
    /\ op \notin {"single", "commit"} => u \notin committed

\* The units but u are over or have not begun.
Others(u) ==
    \A v \in Units \ {u} : v \notin session.wrote /\ (v \in committed <=> outcome[v] = "done")

Working ==
    /\ Others(main.unit)
    /\ main.unit \in Units => outcome[main.unit] = "none"
    /\ main.unit \in Units <=> main.op \notin {"connect", "close"}

Answered == (main.phase = "wait" /\ mailbox = <<>>) \/ main.phase \in {"decode", "take"}

Exact ==
    /\ main.phase \in {"free", "closed"} => session = NoTransaction /\ Others(0)
    /\ main.phase \notin {"free", "closed"} => Working
    /\ main.phase = "wait" /\ mailbox # <<>> =>
          /\ mailbox[1].op = main.op /\ mailbox[1].unit = main.unit
          /\ Before(main.op, main.unit)
    /\ Answered => After(main.op, main.unit, answers[Last] = "ok")
    /\ main.phase = "next" => After(main.op, main.unit, main.ok)

Agreement == timeouts = 0 => Exact

\* Without a query given up nothing is under way unless the main thread waits for it.
LEMMA NothingElse ==
    ASSUME Parameters, Pipeline, timeouts = 0
    PROVE  /\ ~(main.phase = "wait" /\ state = 0) => mailbox = <<>> /\ worker = Quiet
           /\ Len(mailbox) <= 1 /\ (worker # Quiet => mailbox = <<>>)
           /\ main \in Waiting => main.inStep
  BY DEF Pipeline, TypeOK, Backlog, Alone, Pending, Busy

LEMMA AgreementInit == Parameters /\ Init => Agreement
  <1> SUFFICES ASSUME Parameters, Init PROVE Exact
    BY DEF Agreement
  <1>1. /\ main.phase = "wait" /\ main.unit = 0 /\ main.op = "connect"
        /\ mailbox # <<>> /\ mailbox[1].op = "connect" /\ mailbox[1].unit = 0
    BY DEF Init, Wait
  <1>2. session = NoTransaction /\ committed = {} /\ \A u \in Units : outcome[u] = "none"
    BY DEF Init, NoTransaction
  <1>3. Working /\ Before("connect", 0)
    BY <1>1, <1>2 DEF Working, Others, Before, NoTransaction, Parameters
  <1> QED
    BY <1>1, <1>3 DEF Exact, Answered

\* A query is sent when the data base is as it expects.
LEMMA SendAgrees ==
    ASSUME Parameters, Pipeline, timeouts = 0, main.phase \in {"free", "next"},
           NEW u \in Units \cup {0}, NEW op \in Operations, Send(u, op),
           UNCHANGED <<session, committed, outcome>>, Before(op, u), Others(u),
           u \in Units => outcome[u] = "none", u \in Units <=> op \notin {"connect", "close"}
    PROVE  Exact'
  <1>1. mailbox = <<>>
    BY NothingElse
  <1>2. mailbox' # <<>> /\ mailbox'[1].op = op /\ mailbox'[1].unit = u
    BY <1>1 DEF Send
  <1>3. main'.phase = "wait" /\ main'.unit = u /\ main'.op = op
    BY DEF Send, Wait
  <1>4. Working' /\ Before(main.op, main.unit)'
    BY <1>3 DEF Working, Others, Before, NoTransaction, InTransaction
  <1> QED
    BY <1>2, <1>3, <1>4 DEF Exact, Answered

\* What the query the worker runs does to the data base.
LEMMA RunAgrees ==
    ASSUME Parameters, Pipeline, Exact, timeouts = 0, NEW answer \in {"ok", "error"}, Run(answer)
    PROVE  Exact'
  <1> DEFINE m == Head(mailbox)
             op == main.op
             u == main.unit
  <1>1. /\ mailbox # <<>> /\ main.phase = "wait" /\ Len(mailbox) >= 1 /\ Len(mailbox) <= 1 /\ mailbox' = <<>>
        /\ m = mailbox[1] /\ main' = main /\ outcome' = outcome
    <2>1. mailbox # <<>> /\ mailbox \in Seq(Message) /\ mailbox' = Tail(mailbox)
      BY DEF Run, Pipeline, TypeOK
    <2>2. main.phase = "wait" /\ Len(mailbox) <= 1
      BY <2>1, NothingElse
    <2>3. Len(mailbox) >= 1 /\ Len(mailbox) <= 1 /\ Head(mailbox) = mailbox[1] /\ Tail(mailbox) = <<>>
      <3>1. Len(mailbox) >= 1 /\ Len(mailbox) <= 1
        BY <2>1, <2>2
      <3> QED
        BY <2>1, <3>1
    <2>4. main' = main /\ outcome' = outcome
      BY DEF Run
    <2> QED
      BY <2>1, <2>2, <2>3, <2>4
  <1>2. /\ m.op = op /\ m.unit = u /\ Before(op, u) /\ Working
        /\ u \in Units \cup {0} /\ op \in Operations /\ m.query = Last /\ Last \in Nat \ {0}
    <2>1. main \in Waiting
      BY <1>1 DEF Pipeline, TypeOK, Between, Closed
    <2>2. u \in Units \cup {0} /\ op \in Operations
      BY <2>1 DEF Waiting
    <2>3. Last \in Nat \ {0} /\ m.query = Last
      BY <1>1 DEF Pipeline, TypeOK, Order, Taken, Last
    <2> QED
      BY <1>1, <2>2, <2>3 DEF Exact
  <1>3. Last' = Last /\ answers'[Last] = answer
    BY <1>2 DEF Run, Pipeline, TypeOK, Last
  <1>4. Execute(m, answer)
    BY DEF Run
  <1>5. After(op, u, answer = "ok")' /\ Others(u)'
    <2> USE DEF InTransaction, NoTransaction
    <2>1. CASE op \in {"single", "work"}
      <3>1. /\ session.aborted = FALSE /\ session.wrote = {} /\ u \notin committed
            /\ op = "single" => session = NoTransaction
            /\ op = "work" => session = InTransaction(FALSE, {})
            /\ session.open <=> op = "work"
        BY <1>2, <2>1 DEF Before
      <3>0. IF answer = "ok" THEN Wrote(m) ELSE Refused(m)
        BY <1>2, <1>4, <2>1 DEF Execute
      <3>2. CASE answer = "ok" /\ op = "single"
        <4>1. session' = session /\ committed' = committed \cup {u}
          BY <1>2, <3>0, <3>1, <3>2 DEF Wrote
        <4> QED
          BY <1>1, <1>2, <3>1, <3>2, <4>1 DEF After, Others, Working
      <3>3. CASE answer = "ok" /\ op = "work"
        <4>1. session' = InTransaction(FALSE, {u}) /\ committed' = committed
          BY <1>2, <3>0, <3>1, <3>3 DEF Wrote
        <4> QED
          BY <1>1, <1>2, <3>1, <3>3, <4>1 DEF After, Others, Working
      <3>4. CASE answer = "error" /\ op = "single"
        <4>1. session' = NoTransaction /\ committed' = committed
          BY <1>2, <3>0, <3>1, <3>4 DEF Refused
        <4> QED
          BY <1>1, <1>2, <3>1, <3>4, <4>1 DEF After, Others, Working
      <3>5. CASE answer = "error" /\ op = "work"
        <4>1. session' = InTransaction(TRUE, {}) /\ committed' = committed
          BY <1>2, <3>0, <3>1, <3>5 DEF Refused
        <4> QED
          BY <1>1, <1>2, <3>1, <3>5, <4>1 DEF After, Others, Working
      <3> QED BY <2>1, <3>2, <3>3, <3>4, <3>5
    <2>2. CASE op = "begin"
      <3>1. session = NoTransaction /\ u \notin committed
        BY <1>2, <2>2 DEF Before
      <3>2. answer = "ok" /\ session' = InTransaction(FALSE, {}) /\ committed' = committed
        BY <1>2, <1>4, <2>2, <3>1 DEF Execute
      <3> QED
        BY <1>1, <1>2, <2>2, <3>1, <3>2 DEF After, Others, Working
    <2>3. CASE op = "commit"
      <3>1. session = InTransaction(FALSE, {u}) /\ u \notin committed
        BY <1>2, <2>3 DEF Before
      <3>2. answer = "ok" /\ session' = NoTransaction /\ committed' = committed \cup {u}
        BY <1>2, <1>4, <2>3, <3>1 DEF Execute
      <3> QED
        BY <1>1, <1>2, <2>3, <3>1, <3>2 DEF After, Others, Working
    <2>4. CASE op \in {"rollback", "close"}
      <3>1. answer = "ok" /\ session' = NoTransaction /\ committed' = committed
        BY <1>2, <1>4, <2>4 DEF Execute
      <3> QED
        BY <1>1, <1>2, <2>4, <3>1 DEF Before, After, Others, Working
    <2>5. CASE op = "connect"
      <3>1. session' = session /\ committed' = committed
        BY <1>2, <1>4, <2>5 DEF Execute
      <3> QED
        BY <1>1, <1>2, <2>5, <3>1 DEF Before, After, Others, Working
    <2> QED BY <1>2, <2>1, <2>2, <2>3, <2>4, <2>5 DEF Operations
  <1>6. Working'
    BY <1>1, <1>2, <1>5 DEF Working
  <1> QED
    BY <1>1, <1>3, <1>5, <1>6 DEF Exact, Answered

\* The answer is read as it was given.
LEMMA MainAgrees ==
    ASSUME Parameters, Pipeline, Exact, timeouts = 0, Wake \/ Decode \/ Take \/ Settle
    PROVE  Exact'
  <1>1. /\ UNCHANGED <<session, committed, outcome, answers, mailbox>> /\ Last' = Last
        /\ main.phase \in {"wait", "decode", "take", "next"}
    BY DEF Wake, Decode, Take, Settle, Last
  <1>2. mailbox = <<>> \/ (main.phase = "wait" /\ state = 0)
    BY NothingElse
  <1>3. Working
    BY <1>1 DEF Exact
  <1>4. CASE Wake \/ Decode
    <2>1. main \in Waiting /\ mailbox = <<>>
      BY <1>2, <1>4 DEF Wake, Decode, Pipeline, TypeOK, Between, Closed
    <2>2. /\ main'.phase \in {"decode", "take"} /\ main'.unit = main.unit /\ main'.op = main.op
          /\ main.phase \in {"wait", "decode"}
      BY <1>4, <2>1 DEF Wake, Decode, Waiting
    <2>3. After(main.op, main.unit, answers[Last] = "ok")
      BY <2>1, <2>2 DEF Exact, Answered
    <2>4. After(main.op, main.unit, answers[Last] = "ok")'
      BY <1>1, <2>2, <2>3 DEF After, InTransaction, NoTransaction
    <2>5. Working'
      BY <1>1, <1>3, <2>2 DEF Working, Others
    <2> QED
      BY <2>2, <2>4, <2>5 DEF Exact, Answered
  <1>5. CASE Take
    <2>1. main \in Waiting /\ main.phase = "take"
      BY <1>5 DEF Take, Pipeline, TypeOK, Between, Closed
    <2>2. main.whole = TRUE /\ main.of = Last
      BY <2>1, NothingElse DEF Pipeline, Alone
    <2>3. main' = [phase |-> "next", unit |-> main.unit, op |-> main.op, ok |-> answers[Last] = "ok"]
      BY <1>5, <2>2 DEF Take, Resume
    <2>4. /\ main'.phase = "next" /\ main'.unit = main.unit /\ main'.op = main.op
          /\ main'.ok <=> answers[Last] = "ok"
      BY <2>3
    <2>5. After(main.op, main.unit, answers[Last] = "ok")
      BY <2>1 DEF Exact, Answered
    <2>6. After(main.op, main.unit, main.ok)'
      BY <1>1, <2>4, <2>5 DEF After, InTransaction, NoTransaction
    <2>7. Working'
      BY <1>1, <1>3, <2>4 DEF Working, Others
    <2> QED
      BY <2>4, <2>6, <2>7 DEF Exact, Answered
  <1>6. CASE Settle
    <2>1. main'.phase \in {"free", "closed"}
      BY <1>6 DEF Settle, Closed
    <2>2. main.phase = "next" /\ main.unit = 0 /\ After(main.op, main.unit, main.ok)
      BY <1>6 DEF Settle, Exact
    <2>3. main.op \in {"connect", "close"} /\ Others(0)
      BY <1>3, <2>2 DEF Working, Parameters
    <2>4. session = NoTransaction
      BY <2>2, <2>3 DEF After
    <2> QED
      BY <1>1, <2>1, <2>3, <2>4 DEF Exact, Answered, Others, NoTransaction
  <1> QED
    BY <1>4, <1>5, <1>6

\* A transaction goes on as its last statement has ended, or its caller is told.
LEMMA ContinueAgrees ==
    ASSUME Parameters, Pipeline, Exact, timeouts = 0, Continue
    PROVE  Exact'
  <1> DEFINE u == main.unit
             op == main.op
             then == Follows(op, main.ok)
  <1>1. /\ main.phase = "next" /\ u \in Units /\ session' = session /\ committed' = committed
        /\ Working /\ After(op, u, main.ok)
    BY DEF Continue, Exact
  <1>2. op \in {"single", "begin", "work", "commit", "rollback"}
    <2>1. main \in Between
      BY <1>1 DEF Pipeline, TypeOK, Waiting, Closed
    <2> QED
      BY <1>1, <2>1 DEF Working, Between, Operations
  <1>3. Others(u) /\ outcome[u] = "none"
    BY <1>1 DEF Working
  <1>4. CASE then # "none"
    <2>1. Send(u, then) /\ UNCHANGED outcome
      BY <1>4 DEF Continue
    <2>2. then \in {"work", "commit", "rollback"} /\ Before(then, u)
      <3>1. CASE op = "begin"
        BY <1>1, <1>4, <3>1 DEF Follows, After, Before
      <3>2. CASE op = "work"
        BY <1>1, <1>4, <3>2 DEF Follows, After, Before
      <3>3. CASE op = "commit"
        BY <1>1, <1>4, <3>3 DEF Follows, After
      <3> QED BY <1>2, <1>4, <3>1, <3>2, <3>3 DEF Follows
    <2> QED
      BY <1>1, <1>3, <2>1, <2>2, SendAgrees DEF Operations
  <1>5. CASE then = "none"
    <2>1. /\ outcome' = [outcome EXCEPT ![u] = Told(op, main.ok)]
          /\ main'.phase = "free"
      BY <1>5 DEF Continue
    <2>2. session = NoTransaction /\ (u \in committed <=> Told(op, main.ok) = "done")
      BY <1>1, <1>2, <1>5 DEF After, Follows, Told
    <2>3. Others(0)'
      BY <1>1, <1>3, <2>1, <2>2 DEF Others, NoTransaction, Pipeline, TypeOK
    <2> QED
      BY <1>1, <2>1, <2>2, <2>3 DEF Exact, Answered, NoTransaction
  <1> QED BY <1>4, <1>5

LEMMA AgreementNext ==
    Parameters /\ Pipeline /\ Agreement /\ [Next]_vars => Agreement'
  <1> SUFFICES ASSUME Parameters, Pipeline, Agreement, [Next]_vars, timeouts' = 0 PROVE Exact'
    BY DEF Agreement
  <1>1. ASSUME NEW u \in Units, NEW op \in {"single", "begin"}, Begin(u, op) PROVE Exact'
    <2>1. main.phase = "free" /\ timeouts = 0 /\ Exact
      BY <1>1 DEF Begin, Agreement
    <2>2. Others(0) /\ session = NoTransaction /\ outcome[u] = "none" /\ u # 0
      BY <1>1, <2>1 DEF Begin, Exact, Parameters
    <2>3. Others(u) /\ u \notin committed
      BY <2>2 DEF Others, Parameters
    <2>4. Before(op, u)
      BY <2>2, <2>3 DEF Before
    <2> QED
      BY <1>1, <2>1, <2>2, <2>3, <2>4, SendAgrees DEF Begin, Operations
  <1>2. CASE Close
    <2>1. main.phase = "free" /\ timeouts = 0 /\ Exact
      BY <1>2 DEF Close, Agreement
    <2>2. Others(0) /\ session = NoTransaction /\ 0 \notin committed /\ 0 \notin Units
      BY <2>1 DEF Exact, Parameters, Pipeline, TypeOK
    <2>3. Before("close", 0)
      BY <2>2 DEF Before
    <2> QED
      BY <1>2, <2>1, <2>2, <2>3, SendAgrees DEF Close, Operations
  <1>3. CASE TimeOut
    BY <1>3 DEF TimeOut, Pipeline, TypeOK, Parameters
  <1>4. ASSUME timeouts = 0, Exact, UNCHANGED <<main, mailbox, answers, session, committed, outcome>>
        PROVE  Exact'
    BY <1>4 DEF Exact, Answered, Working, Others, Before, After, InTransaction, NoTransaction, Last
  <1>5. CASE ClearBytes \/ StoreBytes \/ StoreLength \/ StoreState \/ UNCHANGED vars
    BY <1>4, <1>5 DEF ClearBytes, StoreBytes, StoreLength, StoreState, vars, Agreement
  <1>6. ASSUME NEW answer \in {"ok", "error"}, Run(answer) PROVE Exact'
    BY <1>6, RunAgrees DEF Run, Agreement
  <1>7. CASE Wake \/ Decode \/ Take \/ Settle
    BY <1>7, MainAgrees DEF Wake, Decode, Take, Settle, Agreement
  <1>8. CASE Continue
    BY <1>8, ContinueAgrees DEF Continue, Agreement
  <1> QED
    BY <1>1, <1>2, <1>3, <1>5, <1>6, <1>7, <1>8 DEF Next

\* Callers and data base agree on every unit of work while no query was given up
\* (transaction in db.js, with #waitForResponse under it).
THEOREM UnitsAreAtomic ==
    ASSUME Parameters
    PROVE  Spec => []UnitsAtomic
  <1>1. Init => Pipeline /\ Agreement
    BY PipelineInit, AgreementInit
  <1>2. (Pipeline /\ Agreement) /\ [Next]_vars => (Pipeline /\ Agreement)'
    BY PipelineNext, AgreementNext
  <1>3. Pipeline /\ Agreement => UnitsAtomic
    <2> SUFFICES ASSUME Pipeline, Exact
                 PROVE  /\ \A v \in Units : /\ outcome[v] = "done" => v \in committed
                                            /\ outcome[v] = "failed" => v \notin committed \cup session.wrote
                        /\ main.phase = "free" => session = NoTransaction
      BY DEF UnitsAtomic, Agreement
    <2>1. CASE main.phase \in {"free", "closed"}
      BY <2>1 DEF Exact, Others, Parameters
    <2>2. CASE main.phase \notin {"free", "closed"}
      BY <2>2 DEF Exact, Working, Others
    <2> QED BY <2>1, <2>2
  <1> QED
    BY <1>1, <1>2, <1>3, PTL DEF Spec
=============================================================================
