----------------------- MODULE GroupEntitlementProofs -----------------------
(***************************************************************************)
(* Proofs about GroupEntitlement for any rules, users and settings: what   *)
(* the extension does to the groups of a user, on either data base; type   *)
(* correctness for any finite set of rules; what a revocation writes off,  *)
(* the limits given back, and the refinement of EntitlementContract.       *)
(***************************************************************************)
EXTENDS EntitlementRefinement, FiniteSetTheorems, WellFoundedInduction, TLAPS

Shape ==
    /\ member \in [Rules -> [Users -> Members]]
    /\ queue \in [Users -> Seq(Jobs)]
    /\ section = [u \in Users |-> section[u]]
    /\ remote = [u \in Users |-> remote[u]]
    /\ sched \in Scheds

\* A managed group has been given by this extension.
ManagedIsGranted ==
    \A r \in Rules, u \in Users : member[r][u] = "managed" => <<r, u>> \in granted

\* Only the holder of the lock awaits something.  A write that gives a group or
\* takes it back differs from what the user has in the group of its rule only, and
\* takes back what was given.
InFlight(u) ==
    LET s == section[u]
        r == Holder(u).rule
    IN  /\ s.pc # "wait" => queue[u] # <<>>
        /\ s.pc = "write" =>
               /\ s.write \in {"grant", "keep", "revoke", "missing", "restore"}
               /\ s.write = "grant" => s.groups = remote[u].groups \cup {r}
               /\ s.write = "revoke" => s.groups = remote[u].groups \ {r}
               /\ s.write \in {"keep", "revoke"} => <<r, u>> \in granted

IInv == Shape /\ ManagedIsGranted /\ \A u \in Users : InFlight(u)

-----------------------------------------------------------------------------
(* The lock: what a release, a call and a new job in the queue leave.      *)

\* The holder of a lock is a job, and so are those behind it (#withUserLock).
LEMMA HolderTyped ==
    ASSUME Shape, NEW u \in Users, queue[u] # <<>>
    PROVE  Holder(u) \in Jobs /\ Tail(queue[u]) \in Seq(Jobs)
  BY DEF Shape, Holder

\* A release of the lock of u keeps the invariant, whatever the job has done to
\* the account of u, when it leaves every managed membership granted.
LEMMA Released ==
    ASSUME IInv, NEW u \in Users, queue[u] # <<>>, NEW ok, Release(u, ok),
           member' \in [Rules -> [Users -> Members]], ManagedIsGranted',
           granted \subseteq granted',
           remote' = [v \in Users |-> remote'[v]],
           \A v \in Users \ {u} : remote'[v] = remote[v]
    PROVE  IInv'
  <1>1. queue' \in [Users -> Seq(Jobs)] /\ sched' \in Scheds
    BY HolderTyped DEF IInv, Shape, Release, Notify, Scheds
  <1>2. section' = [v \in Users |-> section'[v]] /\ section'[u].pc = "wait"
    BY DEF IInv, Shape, Release, Outside
  <1>3. ASSUME NEW v \in Users PROVE InFlight(v)'
    <2>1. CASE v = u
      BY <1>2, <2>1 DEF InFlight
    <2>2. CASE v # u
      <3>1. queue'[v] = queue[v] /\ section'[v] = section[v] /\ remote'[v] = remote[v]
        BY <2>2 DEF IInv, Shape, Release
      <3> QED
        BY <3>1 DEF IInv, InFlight, Holder
    <2> QED BY <2>1, <2>2
  <1> QED
    BY <1>1, <1>2, <1>3 DEF IInv, Shape

\* So does a call that is sent upstream, when it sets what its job may set.
LEMMA Awaited ==
    ASSUME IInv, NEW u \in Users, queue[u] # <<>>, NEW s, Await(u, s), UNCHANGED <<member, remote, granted>>,
           s.pc = "write" =>
               /\ s.write \in {"grant", "keep", "revoke", "missing", "restore"}
               /\ s.write = "grant" => s.groups = remote[u].groups \cup {Holder(u).rule}
               /\ s.write = "revoke" => s.groups = remote[u].groups \ {Holder(u).rule}
               /\ s.write \in {"keep", "revoke"} => <<Holder(u).rule, u>> \in granted
    PROVE  IInv'
  <1>1. Shape'
    BY DEF IInv, Shape, Await, tasks
  <1>2. ASSUME NEW v \in Users PROVE InFlight(v)'
    <2>1. CASE v = u
      <3>1. section'[u] = s /\ queue'[u] = queue[u] /\ remote'[u] = remote[u]
        BY DEF IInv, Shape, Await
      <3> QED
        BY <2>1, <3>1 DEF InFlight, Holder
    <2>2. CASE v # u
      <3>1. queue'[v] = queue[v] /\ section'[v] = section[v] /\ remote'[v] = remote[v]
        BY <2>2 DEF IInv, Shape, Await
      <3> QED
        BY <3>1 DEF IInv, InFlight, Holder
    <2> QED BY <2>1, <2>2
  <1> QED
    BY <1>1, <1>2 DEF IInv, ManagedIsGranted

\* So does a job that asks for a lock: the holder stays the holder.
LEMMA Queued ==
    ASSUME IInv, NEW u, NEW j \in Jobs, Enqueue(u, j), sched' \in Scheds,
           UNCHANGED <<member, remote, granted, section>>
    PROVE  IInv'
  <1>1. Shape'
    <2>1. CASE u \in Users
      BY <2>1 DEF IInv, Shape, Enqueue
    <2>2. CASE u \notin Users
      <3>1. queue' = queue
        BY <2>2 DEF IInv, Shape, Enqueue
      <3> QED
        BY <3>1 DEF IInv, Shape
    <2> QED BY <2>1, <2>2
  <1>2. ASSUME NEW v \in Users PROVE InFlight(v)'
    <2>1. CASE queue[v] = <<>>
      BY <2>1 DEF IInv, InFlight
    <2>2. CASE queue[v] # <<>>
      <3>1. queue'[v] # <<>> /\ Head(queue'[v]) = Head(queue[v])
        BY <2>2 DEF IInv, Shape, Enqueue
      <3> QED
        BY <2>2, <3>1 DEF IInv, InFlight, Holder
    <2> QED BY <2>1, <2>2
  <1> QED
    BY <1>1, <1>2 DEF IInv, ManagedIsGranted

-----------------------------------------------------------------------------
(* The inductive invariant.                                                *)

\* Nothing is queued and nobody is a member at the start.
LEMMA InvInit == Init => IInv
  <1> SUFFICES ASSUME Init PROVE IInv
    OBVIOUS
  <1>1. Shape
    BY DEF Init, Shape, Members, Scheds, NoSched
  <1>2. ManagedIsGranted /\ \A u \in Users : InFlight(u)
    BY DEF Init, ManagedIsGranted, InFlight, Outside
  <1> QED
    BY <1>1, <1>2 DEF IInv

\* A membership is stored and the lock released.
LEMMA BecomeInv ==
    ASSUME IInv, NEW r \in Rules, NEW u \in Users, NEW m \in Members, Become(r, u, m),
           NEW ok, Release(u, ok), queue[u] # <<>>, UNCHANGED remote,
           granted \subseteq granted', m = "managed" => <<r, u>> \in granted'
    PROVE  IInv'
  <1>1. member' \in [Rules -> [Users -> Members]] /\ ManagedIsGranted'
    BY DEF IInv, Shape, Become, ManagedIsGranted
  <1> QED
    BY <1>1, Released DEF IInv, Shape

\* A revocation without a group to take away (#applyDecision).
LEMMA NoRevokeInv ==
    ASSUME IInv, NEW u \in Users, NEW r \in Rules, r = Holder(u).rule, queue[u] # <<>>,
           NEW v, ApplyNoRevoke(u, r, v), UNCHANGED <<remote, granted>>
    PROVE  IInv'
  <1>1. ASSUME NEW m \in {"preexisting", "revoked"}, Become(r, u, m), Release(u, TRUE)
        PROVE  IInv'
    BY <1>1, BecomeInv DEF Members
  <1>2. ASSUME UNCHANGED member, Send(u, "missing", v.groups, RestoreTo(r, u), Own(r, u))
        PROVE  IInv'
    BY <1>2, Awaited DEF Send
  <1>3. ASSUME UNCHANGED member, Release(u, TRUE) PROVE IInv'
    BY <1>3, Released DEF IInv, Shape, ManagedIsGranted
  <1> QED
    BY <1>1, <1>2, <1>3 DEF ApplyNoRevoke, rows

\* A claim whose condition is met (#applyDecision).
LEMMA ClaimInv ==
    ASSUME IInv, NEW u \in Users, NEW r \in Rules, r = Holder(u).rule, queue[u] # <<>>,
           NEW limit, ApplyClaim(u, r, limit, remote[u]), UNCHANGED <<remote, granted>>
    PROVE  IInv'
  <1>1. ASSUME UNCHANGED member, NEW T, Send(u, "grant", remote[u].groups \cup {r}, limit, T)
        PROVE  IInv'
    BY <1>1, Awaited DEF Send
  <1>2. ASSUME UNCHANGED member, KeepsManaged(r, u, remote[u]),
               NEW T, Send(u, "keep", remote[u].groups, limit, T)
        PROVE  IInv'
    BY <1>2, Awaited DEF Send, KeepsManaged, IInv, ManagedIsGranted
  <1>3. ASSUME UNCHANGED member, NEW ok, Release(u, ok) PROVE IInv'
    BY <1>3, Released DEF IInv, Shape, ManagedIsGranted
  <1>4. ASSUME Become(r, u, "preexisting"), Release(u, TRUE) PROVE IInv'
    BY <1>4, BecomeInv DEF Members
  <1> QED
    BY <1>1, <1>2, <1>3, <1>4 DEF ApplyClaim, rows

\* A job gets its lock.
LEMMA EnterInv ==
    ASSUME IInv, NEW u \in Users, Enter(u)
    PROVE  IInv'
  <1>0. queue[u] # <<>> /\ Holder(u).rule \in Rules
    BY HolderTyped DEF IInv, Enter, EnterClaim, EnterRevoke, EnterRestore, AtLock, Jobs
  <1>1. ASSUME NEW limit, Read(u, limit), UNCHANGED <<member, remote, granted>> PROVE IInv'
    BY <1>0, <1>1, Awaited DEF Read, Outside
  <1>2. ASSUME NEW ok, Release(u, ok), UNCHANGED <<member, remote, granted>> PROVE IInv'
    BY <1>0, <1>2, Released DEF IInv, Shape, ManagedIsGranted
  <1>3. CASE EnterClaim(u)
    BY <1>1, <1>2, <1>3 DEF EnterClaim, rows, copies
  <1>4. CASE EnterRestore(u)
    BY <1>1, <1>2, <1>4 DEF EnterRestore, rows, copies
  <1>5. CASE EnterRevoke(u)
    <2>1. CASE Read(u, NoLimit) /\ UNCHANGED rows
      BY <1>1, <1>5, <2>1 DEF EnterRevoke, rows, copies
    <2>2. CASE ApplyNoRevoke(u, Holder(u).rule, local[u])
      BY <1>0, <1>5, <2>2, NoRevokeInv DEF EnterRevoke, copies
    <2> QED BY <1>5, <2>1, <2>2 DEF EnterRevoke
  <1> QED BY <1>3, <1>4, <1>5 DEF Enter

\* The user read for a job has arrived.
LEMMA AnswerInv ==
    ASSUME IInv, NEW u \in Users, Answer(u)
    PROVE  IInv'
  <1> DEFINE r == Holder(u).rule
  <1>0. queue[u] # <<>> /\ r \in Rules /\ UNCHANGED <<remote, granted>>
    BY HolderTyped DEF IInv, Answer, AnswerClaim, AnswerRevoke, AnswerRestore, AtLock, Jobs
  <1>1. ASSUME NEW ok, Release(u, ok), UNCHANGED member PROVE IInv'
    BY <1>0, <1>1, Released DEF IInv, Shape, ManagedIsGranted
  <1>3. CASE AnswerClaim(u)
    <2>1. CASE Release(u, TRUE) /\ UNCHANGED rows
      BY <1>1, <2>1 DEF rows
    <2>2. CASE ApplyClaim(u, r, section[u].limit, remote[u])
      BY <1>0, <2>2, ClaimInv
    <2> QED BY <1>3, <2>1, <2>2 DEF AnswerClaim
  <1>4. CASE AnswerRevoke(u)
    <2>1. CASE ApplyNoRevoke(u, r, remote[u])
      BY <1>0, <2>1, NoRevokeInv
    <2>2. ASSUME KeepsManaged(r, u, remote[u]), UNCHANGED member,
                 Send(u, "revoke", remote[u].groups \ {r}, RestoreTo(r, u), Own(r, u))
          PROVE  IInv'
      BY <1>0, <2>2, Awaited DEF Send, KeepsManaged, IInv, ManagedIsGranted
    <2> QED BY <1>4, <2>1, <2>2 DEF AnswerRevoke, ApplyRevoke
  <1>5. CASE AnswerRestore(u)
    <2>1. ASSUME UNCHANGED member,
                 Send(u, "restore", remote[u].groups, RestoreTo(r, u), Own(r, u))
          PROVE  IInv'
      BY <1>0, <2>1, Awaited DEF Send
    <2> QED BY <1>1, <1>5, <2>1 DEF AnswerRestore, rows
  <1> QED BY <1>3, <1>4, <1>5 DEF Answer

\* What a landed write leaves: a membership may become managed after it.
LEMMA LandLeaves ==
    ASSUME IInv, NEW u \in Users, Land(u)
    PROVE  /\ granted \subseteq granted'
           /\ remote' = [v \in Users |-> remote'[v]]
           /\ \A v \in Users \ {u} : remote'[v] = remote[v]
           /\ Given(u) \subseteq granted'
  BY DEF Land, IInv, Shape

\* A call has ended, one way or the other.
LEMMA SettleInv ==
    ASSUME IInv, NEW u \in Users, Settle(u)
    PROVE  IInv'
  <1> DEFINE r == Holder(u).rule
             w == section[u].write
  <1>0. queue[u] # <<>> /\ r \in Rules
    BY HolderTyped DEF IInv, Settle, ReadFails, WriteSucceeds, WriteFails, AtLock, Jobs
  <1>1. CASE ReadFails(u)
    BY <1>0, <1>1, Released DEF ReadFails, copies, IInv, Shape, ManagedIsGranted
  <1>2. CASE WriteFails(u)
    <2>1. Release(u, FALSE) /\ UNCHANGED member
      BY <1>2 DEF WriteFails
    <2>2. CASE Land(u)
      BY <1>0, <2>1, <2>2, LandLeaves, Released DEF IInv, Shape, ManagedIsGranted
    <2>3. CASE UNCHANGED <<remote, granted>>
      BY <1>0, <2>1, <2>3, Released DEF IInv, Shape, ManagedIsGranted
    <2> QED BY <1>2, <2>2, <2>3 DEF WriteFails
  <1>3. CASE WriteSucceeds(u)
    <2>1. Land(u) /\ Release(u, stage[r] = "live") /\ section[u].pc = "write"
      BY <1>3 DEF WriteSucceeds, AtLock
    <2>2. w \in {"grant", "keep", "revoke", "missing", "restore"} /\ (w = "keep" => <<r, u>> \in granted)
      BY <2>1 DEF IInv, InFlight
    <2>3. CASE UNCHANGED member
      BY <1>0, <2>1, <2>3, LandLeaves, Released DEF IInv, Shape, ManagedIsGranted
    <2>4. CASE w # "restore" /\ Become(r, u, AfterWrite[w])
      <3>1. AfterWrite[w] \in Members
        BY <2>2, <2>4 DEF AfterWrite, Members
      <3>2. AfterWrite[w] = "managed" => <<r, u>> \in granted'
        BY <2>1, <2>2, <2>4, LandLeaves DEF AfterWrite, Given
      <3>3. member' \in [Rules -> [Users -> Members]] /\ ManagedIsGranted'
        BY <1>0, <2>1, <2>4, <3>1, <3>2, LandLeaves DEF Become, IInv, Shape, ManagedIsGranted
      <3> QED
        BY <1>0, <2>1, <3>3, LandLeaves, Released
    <2> QED BY <1>3, <2>3, <2>4 DEF WriteSucceeds
  <1> QED BY <1>1, <1>2, <1>3 DEF Settle

\* Steps of the runs, the timer, the administration and other handlers change
\* neither an account, nor a membership, nor a lock.
LEMMA AsideInv ==
    ASSUME IInv, sched' \in Scheds, UNCHANGED <<member, remote, granted, queue, section>>
    PROVE  IInv'
  BY DEF IInv, Shape, ManagedIsGranted, InFlight, Holder

\* What the timer does.
LEMMA TimerInv ==
    ASSUME IInv, Timer
    PROVE  IInv'
  <1>1. CASE Schedule \/ SchedDue \/ SchedEnd
    <2>1. DueRows \in SUBSET (Rules \X Users) /\ DueRules \in SUBSET Rules
      BY DEF DueRows, DueRules
    <2>2. ASSUME Schedule PROVE sched' \in Scheds
      BY <2>1, <2>2 DEF Schedule, Scheds, NoSched
    <2>3. ASSUME SchedDue PROVE sched' \in Scheds
      BY <2>1, <2>3 DEF SchedDue, IInv, Shape, Scheds
    <2>4. ASSUME SchedEnd PROVE sched' \in Scheds
      BY <2>4 DEF SchedEnd, Scheds, NoSched
    <2>5. sched' \in Scheds
      BY <1>1, <2>2, <2>3, <2>4
    <2> QED
      BY <1>1, <2>5, AsideInv DEF Schedule, SchedDue, SchedEnd, rows, copies, locks
  <1>2. CASE SchedRestore
    <2>1. PICK q \in sched.rows :
             /\ Enqueue(q[2], [kind |-> "restore", rule |-> q[1]])
             /\ sched' = [sched EXCEPT !.rows = @ \ {q}, !.busy = TRUE]
      BY <1>2 DEF SchedRestore
    <2>2. q[1] \in Rules /\ sched' \in Scheds
      BY <2>1 DEF IInv, Shape, Scheds
    <2> QED
      BY <1>2, <2>1, <2>2, Queued DEF SchedRestore, Jobs, rows, copies
  <1>3. ASSUME NEW r \in Rules, SchedRevoke(r) PROVE IInv'
    <2>1. sched \in Scheds /\ sched.due \ {r} \in SUBSET Rules
      BY DEF IInv, Shape, Scheds
    <2>2. \/ sched' = [sched EXCEPT !.due = @ \ {r}, !.busy = TRUE]
          \/ sched' = [sched EXCEPT !.due = @ \ {r}]
      BY <1>3 DEF SchedRevoke
    <2>3. sched' \in Scheds
      BY <2>1, <2>2 DEF Scheds
    <2> QED
      BY <1>3, <2>3, AsideInv DEF SchedRevoke, rows, copies, locks
  <1> QED BY <1>1, <1>2, <1>3 DEF Timer

\* What administrators do and what a run does.
LEMMA RuleInv ==
    ASSUME IInv, NEW r \in Rules,
           \/ RunNext(r) \/ RunEnd(r) \/ RevokeNow(r) \/ DeleteRule(r) \/ Requested(r)
           \/ \E t \in Terms : CreateRule(r, t) \/ \E on \in BOOLEAN : UpdateRule(r, t, on)
    PROVE  IInv'
  <1>1. CASE RunNext(r)
    BY <1>1, Queued DEF RunNext, Jobs, rows, copies, IInv, Shape
  <1>2. CASE RunEnd(r)
    <2>1. sched' \in Scheds
      BY <1>2 DEF RunEnd, IInv, Shape, Scheds
    <2> QED
      BY <1>2, <2>1, AsideInv DEF RunEnd, copies, locks
  <1>3. CASE RevokeNow(r) \/ DeleteRule(r) \/ Requested(r)
    BY <1>3, AsideInv DEF RevokeNow, DeleteRule, Requested, rows, copies, locks, IInv, Shape
  <1>4. ASSUME NEW t \in Terms, CreateRule(r, t) PROVE IInv'
    BY <1>4, AsideInv DEF CreateRule, rows, copies, locks, tasks, IInv, Shape
  <1>5. ASSUME NEW t \in Terms, NEW on \in BOOLEAN, UpdateRule(r, t, on) PROVE IInv'
    BY <1>5, AsideInv DEF UpdateRule, rows, copies, locks, IInv, Shape
  <1> QED BY <1>1, <1>2, <1>3, <1>4, <1>5

\* An edit at Sub2API changes the groups of a user for whom no write is under way.
LEMMA EditInv ==
    ASSUME IInv, NEW u \in Users, NEW r \in Rules, ManualEdit(u, r)
    PROVE  IInv'
  <1>1. Shape' /\ ManagedIsGranted'
    BY DEF ManualEdit, rows, locks, tasks, IInv, Shape, ManagedIsGranted
  <1>2. ASSUME NEW v \in Users PROVE InFlight(v)'
    <2>1. queue'[v] = queue[v] /\ section'[v] = section[v] /\ (v # u => remote'[v] = remote[v])
      BY DEF ManualEdit, locks, IInv, Shape
    <2> QED
      BY <2>1 DEF ManualEdit, IInv, InFlight, Holder
  <1> QED BY <1>1, <1>2 DEF IInv

\* A crash leaves no job and no call, and what was granted stays so.
LEMMA CrashInv ==
    ASSUME IInv, Crash
    PROVE  IInv'
  <1>1. Shape'
    BY DEF Crash, rows, IInv, Shape, Scheds, NoSched
  <1>2. ManagedIsGranted'
    BY DEF Crash, rows, IInv, ManagedIsGranted
  <1>3. \A v \in Users : InFlight(v)'
    BY DEF Crash, InFlight, Outside
  <1> QED BY <1>1, <1>2, <1>3 DEF IInv

\* The invariant is kept by every step.
LEMMA InvNext == IInv /\ [Next]_vars => IInv'
  <1> SUFFICES ASSUME IInv, [Next]_vars PROVE IInv'
    OBVIOUS
  <1>1. ASSUME NEW u \in Users, Enter(u) \/ Answer(u) \/ Settle(u) PROVE IInv'
    BY <1>1, EnterInv, AnswerInv, SettleInv
  <1>2. ASSUME NEW u \in Users, LookupReads(u) \/ LookupStores(u) PROVE IInv'
    BY <1>2, AsideInv DEF LookupReads, LookupStores, rows, copies, locks, tasks, IInv, Shape
  <1>3. ASSUME NEW u \in Users, NEW r \in Rules, Claim(r, u) \/ ManualEdit(u, r) PROVE IInv'
    BY <1>3, EditInv, Queued DEF Claim, Jobs, rows, copies, tasks, IInv, Shape
  <1>4. CASE Tick \/ UNCHANGED vars
    BY <1>4, AsideInv DEF Tick, vars, rows, copies, locks, tasks, IInv, Shape
  <1> QED
    BY <1>1, <1>2, <1>3, <1>4, RuleInv, TimerInv, CrashInv DEF Next

\* Managed memberships are only of groups the extension has given, and every
\* write under way sets what its job may set.
THEOREM InductiveInvariant == Spec => []IInv
  <1> QED BY InvInit, InvNext, PTL DEF Spec

-----------------------------------------------------------------------------
(* Groups of others are left alone.                                        *)

\* A write that lands changes the group of the rule it is for, and takes away only
\* what was given.
LEMMA LandsOwn ==
    ASSUME IInv, NEW u \in Users, section[u].pc = "write"
    PROVE  LET r == Holder(u).rule
               G == remote[u].groups
               H == Written(u).groups
           IN  /\ \A s \in Rules \ {r} : s \in H <=> s \in G
               /\ r \in G \ H => <<r, u>> \in granted
  BY DEF IInv, InFlight, Written

\* Every step leaves the groups of others alone: what a claim, a revocation or a
\* crash in the middle of either does to the groups of a user.
LEMMA StepKeepsOthers ==
    ASSUME IInv, [Next]_vars
    PROVE  \A u \in Users :
              remote'[u].groups # remote[u].groups /\ "edit" \notin used' \ used
                  => OwnGroup(u, Holder(u).rule)
  <1> SUFFICES ASSUME NEW u \in Users, remote'[u].groups # remote[u].groups,
                      "edit" \notin used' \ used
               PROVE  OwnGroup(u, Holder(u).rule)
    OBVIOUS
  <1>1. ASSUME section[u].pc = "write", remote'[u] = Written(u) PROVE OwnGroup(u, Holder(u).rule)
    BY <1>1, LandsOwn DEF OwnGroup
  <1>2. ASSUME NEW v \in Users, Settle(v) PROVE OwnGroup(u, Holder(u).rule)
    <2>1. section[v].pc = "write" /\ Land(v)
      BY <1>2 DEF Settle, ReadFails, WriteSucceeds, WriteFails, AtLock, copies
    <2>2. v = u /\ remote'[u] = Written(u)
      BY <2>1 DEF Land, IInv, Shape
    <2> QED BY <1>1, <2>1, <2>2
  <1>3. CASE Crash
    <2>1. PICK L \in SUBSET {v \in Users : section[v].pc = "write"} :
             remote' = [v \in Users |-> IF v \in L THEN Written(v) ELSE remote[v]]
      BY <1>3 DEF Crash
    <2> QED BY <1>1, <2>1
  <1>4. ASSUME NEW v \in Users, NEW r \in Rules, ManualEdit(v, r) PROVE FALSE
    BY <1>4 DEF ManualEdit, Disturb
  <1>5. ASSUME UNCHANGED remote PROVE FALSE
    BY <1>5
  <1>6. ASSUME NEW v \in Users, Enter(v) \/ Answer(v) PROVE FALSE
    BY <1>5, <1>6 DEF Enter, EnterClaim, EnterRevoke, EnterRestore, Answer, AnswerClaim, AnswerRevoke,
       AnswerRestore, copies
  <1>7. ASSUME NEW v \in Users, LookupReads(v) \/ LookupStores(v) \/ \E r \in Rules : Claim(r, v)
        PROVE FALSE
    BY <1>5, <1>7 DEF LookupReads, LookupStores, Claim, copies
  <1>8. ASSUME NEW r \in Rules,
               RunNext(r) \/ RunEnd(r) \/ RevokeNow(r) \/ DeleteRule(r) \/ Requested(r)
        PROVE FALSE
    BY <1>5, <1>8 DEF RunNext, RunEnd, RevokeNow, DeleteRule, Requested, copies
  <1>9. ASSUME NEW r \in Rules, NEW t \in Terms,
               CreateRule(r, t) \/ \E on \in BOOLEAN : UpdateRule(r, t, on)
        PROVE FALSE
    BY <1>5, <1>9 DEF CreateRule, UpdateRule, copies
  <1>10. CASE Timer \/ Tick \/ UNCHANGED vars
    BY <1>5, <1>10 DEF Timer, Schedule, SchedRestore, SchedDue, SchedEnd, SchedRevoke, Tick, vars, copies
  <1> QED
    BY <1>2, <1>3, <1>4, <1>6, <1>7, <1>8, <1>9, <1>10 DEF Next

\* What a user had of other groups is never overwritten, and a group is taken away
\* only when the extension has given it.
THEOREM OwnGroupsKept == Spec => OnlyOwnGroups
  <1>1. IInv /\ [Next]_vars =>
            [\A u \in Users :
                remote'[u].groups # remote[u].groups /\ "edit" \notin used' \ used
                    => OwnGroup(u, Holder(u).rule)]_vars
    BY StepKeepsOthers
  <1> QED BY <1>1, InductiveInvariant, PTL DEF Spec, OnlyOwnGroups

-----------------------------------------------------------------------------
(* Type correctness.  The rules of a user are a stack in the order of ids: *)
(* that its ends, and the next id, exist takes a finite set.               *)

FiniteRules == IsFiniteSet(Rules)

OverrideTable == [Rules -> [Users -> Overrides]]

RuleTypes ==
    /\ stage \in [Rules -> {"none", "live", "deleted"}]
    /\ enabled \in [Rules -> BOOLEAN] /\ expired \in [Rules -> BOOLEAN]
    /\ terms \in [Rules -> ValidTerms]
RowTypes == member \in [Rules -> [Users -> Members]] /\ override \in OverrideTable
CopyTypes ==
    /\ local \in [Users -> Accounts] /\ remote \in [Users -> Accounts]
    /\ granted \subseteq Rules \X Users
LockTypes ==
    /\ queue \in [Users -> Seq(Jobs)] /\ section \in [Users -> Sections]
    /\ \A u \in Users : section[u].pc # "wait" => queue[u] # <<>>
TaskTypes ==
    /\ run \in [Rules -> Runs]
    /\ request \in [Rules -> {"none", "revoke", "delete"}]
    /\ sched \in Scheds
OtherTypes ==
    /\ lookup \in [Users -> Accounts \cup {NoLookup}]
    /\ now \in 0..Horizon
    /\ used \subseteq Disturbances

Types == RuleTypes /\ RowTypes /\ CopyTypes /\ LockTypes /\ TaskTypes /\ OtherTypes

LEMMA TypesAreTypeOK == Types <=> TypeOK
  BY DEF Types, TypeOK, RuleTypes, RowTypes, CopyTypes, LockTypes, TaskTypes, OtherTypes, OverrideTable

-----------------------------------------------------------------------------
(* The stack of the overrides of a user.                                   *)

\* A smallest set without a largest element would stay so without any of its elements.
LEMMA LargestExists ==
    ASSUME NEW S, IsFiniteSet(S), S # {}, NEW f, \A x \in S : f[x] \in Nat
    PROVE  \E x \in S : \A y \in S : f[y] <= f[x]
  <1> DEFINE Without == {X \in SUBSET S : X # {} /\ ~\E x \in X : \A y \in X : f[y] <= f[x]}
  <1> SUFFICES ASSUME Without # {} PROVE FALSE
    OBVIOUS
  <1>1. PICK X \in Without : \A Y \in Without : <<Y, X>> \notin StrictSubsetOrdering(S)
    <2>1. IsWellFoundedOn(StrictSubsetOrdering(S), FiniteSubsetsOf(S))
      BY FS_StrictSubsetOrderingWellFounded
    <2>2. Without \subseteq FiniteSubsetsOf(S)
      BY FS_Subset DEF FiniteSubsetsOf
    <2> QED
      BY <2>1, <2>2, WFMin
  <1>2. PICK a \in X : TRUE
    OBVIOUS
  <1>3. X \ {a} \notin Without
    BY <1>1, <1>2 DEF StrictSubsetOrdering
  <1>4. X \ {a} # {}
    BY <1>2
  <1>5. PICK m \in X \ {a} : \A y \in X \ {a} : f[y] <= f[m]
    BY <1>3, <1>4
  <1>6. f[a] <= f[m] \/ f[m] <= f[a]
    BY <1>2, <1>5
  <1> QED
    BY <1>2, <1>5, <1>6

LEMMA SmallestExists ==
    ASSUME NEW S, IsFiniteSet(S), S # {}, NEW f, \A x \in S : f[x] \in Nat
    PROVE  \E x \in S : \A y \in S : f[x] <= f[y]
  <1> DEFINE Without == {X \in SUBSET S : X # {} /\ ~\E x \in X : \A y \in X : f[x] <= f[y]}
  <1> SUFFICES ASSUME Without # {} PROVE FALSE
    OBVIOUS
  <1>1. PICK X \in Without : \A Y \in Without : <<Y, X>> \notin StrictSubsetOrdering(S)
    <2>1. IsWellFoundedOn(StrictSubsetOrdering(S), FiniteSubsetsOf(S))
      BY FS_StrictSubsetOrderingWellFounded
    <2>2. Without \subseteq FiniteSubsetsOf(S)
      BY FS_Subset DEF FiniteSubsetsOf
    <2> QED
      BY <2>1, <2>2, WFMin
  <1>2. PICK a \in X : TRUE
    OBVIOUS
  <1>3. X \ {a} \notin Without
    BY <1>1, <1>2 DEF StrictSubsetOrdering
  <1>4. X \ {a} # {}
    BY <1>2
  <1>5. PICK m \in X \ {a} : \A y \in X \ {a} : f[m] <= f[y]
    BY <1>3, <1>4
  <1>6. f[a] <= f[m] \/ f[m] <= f[a]
    BY <1>2, <1>5
  <1> QED
    BY <1>2, <1>5, <1>6

LEMMA StackEnds ==
    ASSUME FiniteRules, RowTypes, NEW r \in Rules, NEW u \in Users, Others(r, u) # {}
    PROVE  Oldest(Others(r, u), u) \in Rules /\ Newest(Others(r, u), u) \in Rules
  <1> DEFINE S == Others(r, u)
             f == [s \in Rules |-> override[s][u].id]
  <1>1. S \subseteq Rules /\ IsFiniteSet(S)
    BY FS_Subset DEF Others, FiniteRules
  <1>2. \A s \in Rules : f[s] \in Nat /\ f[s] = override[s][u].id
    BY DEF RowTypes, OverrideTable, Overrides
  <1>3. (\E s \in S : \A t \in S : f[s] <= f[t]) /\ (\E s \in S : \A t \in S : f[t] <= f[s])
    <2> HIDE DEF S, f
    <2>1. \A s \in S : f[s] \in Nat
      BY <1>1, <1>2
    <2>2. S # {}
      BY DEF S
    <2> QED
      BY <1>1, <2>1, <2>2, SmallestExists, LargestExists
  <1>4. /\ \E s \in S : \A t \in S : override[s][u].id <= override[t][u].id
        /\ \E s \in S : \A t \in S : override[t][u].id <= override[s][u].id
    BY <1>1, <1>2, <1>3
  <1> QED
    BY <1>1, <1>4 DEF Oldest, Newest

LEMMA NextIdIsId ==
    ASSUME FiniteRules, RowTypes, NEW u \in Users
    PROVE  NextId(u) \in Nat /\ \A s \in Rules : override[s][u].id < NextId(u)
  <1> DEFINE ids == {0} \cup {override[s][u].id : s \in Rules}
             f == [n \in Nat |-> n]
  <1>1. ids \subseteq Nat
    BY DEF RowTypes, OverrideTable, Overrides
  <1>2. IsFiniteSet(ids)
    <2>1. IsFiniteSet({override[s][u].id : s \in Rules})
      <3> DEFINE g == [s \in Rules |-> override[s][u].id]
      <3>1. g \in Surjection(Rules, {override[s][u].id : s \in Rules})
        BY DEF Surjection
      <3> QED
        BY <3>1, FS_Surjection DEF FiniteRules
    <2> QED
      BY <2>1, FS_AddElement
  <1>3. \E n \in ids : \A m \in ids : f[m] <= f[n]
    <2> HIDE DEF f
    <2>1. \A n \in ids : f[n] \in Nat
      BY <1>1 DEF f
    <2> QED
      BY <1>2, <2>1, LargestExists
  <1>4. \E n \in ids : \A s \in Rules : override[s][u].id <= n
    BY <1>1, <1>3
  <1> DEFINE last == CHOOSE n \in ids : \A s \in Rules : override[s][u].id <= n
  <1>5. last \in Nat /\ \A s \in Rules : override[s][u].id <= last
    <2> HIDE DEF ids
    <2> QED
      BY <1>1, <1>4
  <1>6. NextId(u) = 1 + last
    BY Zenon DEF NextId
  <1> HIDE DEF last
  <1>7. \A s \in Rules : override[s][u].id \in Nat
    BY DEF RowTypes, OverrideTable, Overrides
  <1> QED
    BY <1>5, <1>6, <1>7

-----------------------------------------------------------------------------
(* What the handlers write is typed.                                       *)

LEMMA StackWrites ==
    ASSUME FiniteRules, RowTypes, NEW r \in Rules, NEW u \in Users
    PROVE  /\ RestoreTo(r, u) \in Limits
           /\ Carried(r, u) \in OverrideTable
           /\ Own(r, u) \in SUBSET (Rules \X Users)
  <1>0. \A s \in Rules, v \in Users : override[s][v] \in Overrides
    BY DEF RowTypes, OverrideTable
  <1>1. Baseline(r, u) \in Nat
    BY <1>0, StackEnds DEF Baseline, Overrides
  <1>2. RestoreTo(r, u) \in Limits
    BY <1>0, <1>1, StackEnds DEF RestoreTo, Limits, Overrides
  <1>3. Carried(r, u) \in OverrideTable
    <2>1. CASE Live(r, u) /\ Others(r, u) # {}
      <3> DEFINE n == Newest(Others(r, u), u)
      <3>1. n \in Rules
        BY <2>1, StackEnds
      <3> HIDE DEF n
      <3>2. [override[n][u] EXCEPT !.original = Baseline(r, u)] \in Overrides
        BY <1>0, <1>1, <3>1 DEF Overrides
      <3>3. [override EXCEPT ![n][u].original = Baseline(r, u)] \in OverrideTable
        BY <3>1, <3>2 DEF RowTypes, OverrideTable
      <3> QED
        BY <2>1, <3>3 DEF Carried, n
    <2>2. CASE ~(Live(r, u) /\ Others(r, u) # {})
      BY <2>2 DEF Carried, RowTypes
    <2> QED BY <2>1, <2>2
  <1>4. Own(r, u) \in SUBSET (Rules \X Users)
    BY DEF Own
  <1> QED BY <1>2, <1>3, <1>4

LEMMA PreparedTyped ==
    ASSUME FiniteRules, RowTypes, NEW r \in Rules, NEW u \in Users, NEW limit \in Limits, NEW current \in Nat
    PROVE  Prepared(r, u, limit, current) \in OverrideTable
  <1>1. CASE limit = NoLimit
    BY <1>1 DEF Prepared, RowTypes
  <1>2. CASE limit # NoLimit
    <2> DEFINE old == override[r][u]
               row == [status |-> "pending",
                       original |-> IF Live(r, u) THEN old.original ELSE current,
                       applied |-> limit,
                       id |-> IF old.id = 0 THEN NextId(u) ELSE old.id]
    <2>1. old \in Overrides /\ limit \in Nat /\ NextId(u) \in Nat
      BY <1>2, NextIdIsId DEF RowTypes, OverrideTable, Limits
    <2>2. row \in Overrides
      BY <2>1 DEF Overrides
    <2>3. [override EXCEPT ![r][u] = row] \in OverrideTable
      BY <2>2 DEF RowTypes, OverrideTable
    <2> QED
      BY <1>2, <2>3 DEF Prepared
  <1> QED BY <1>1, <1>2

LEMMA MarkedTyped ==
    ASSUME NEW rws \in OverrideTable, NEW T, NEW st \in {"none", "pending", "active", "failed", "restored"}
    PROVE  Marked(rws, T, st) \in OverrideTable
  <1>1. \A r \in Rules, u \in Users :
           rws[r][u] \in Overrides /\ [rws[r][u] EXCEPT !.status = st] \in Overrides
    <2>1. \A row \in Overrides : [row EXCEPT !.status = st] \in Overrides
      BY DEF Overrides
    <2> QED
      BY <2>1 DEF OverrideTable
  <1> QED
    BY <1>1 DEF Marked, OverrideTable

LEMMA TargetsTyped ==
    ASSUME NEW r \in Rules, NEW u \in Users, NEW limit, NEW T \in Targets(r, u, limit)
    PROVE  T \in SUBSET (Rules \X Users)
  BY DEF Targets

LEMMA HolderIsJob ==
    ASSUME LockTypes, NEW u \in Users, queue[u] # <<>>
    PROVE  Holder(u) \in Jobs /\ Tail(queue[u]) \in Seq(Jobs) /\ Holder(u).rule \in Rules
  <1>1. queue[u] \in Seq(Jobs)
    BY DEF LockTypes
  <1>2. Head(queue[u]) \in Jobs /\ Tail(queue[u]) \in Seq(Jobs)
    BY <1>1
  <1> QED
    BY <1>2 DEF Holder, Jobs

\* A release, a call and a new job.
LEMMA ReleaseTyped ==
    ASSUME LockTypes, TaskTypes, NEW u \in Users, queue[u] # <<>>, NEW ok \in BOOLEAN, Release(u, ok)
    PROVE  LockTypes' /\ TaskTypes'
  <1>0. Holder(u) \in Jobs /\ Tail(queue[u]) \in Seq(Jobs) /\ Holder(u).rule \in Rules
    BY HolderIsJob
  <1>1. Outside \in Sections /\ Outside.pc = "wait"
    BY DEF Outside, Sections, Limits
  <1>2. LockTypes'
    BY <1>0, <1>1 DEF LockTypes, Release
  <1>3. run' \in [Rules -> Runs]
    <2> DEFINE r == Holder(u).rule
    <2>1. [[run[r] EXCEPT !.busy = FALSE] EXCEPT !.failed = run[r].failed \/ ~ok] \in Runs
      BY <1>0 DEF TaskTypes, Runs
    <2>2. \/ run' = [run EXCEPT ![r].busy = FALSE, ![r].failed = @ \/ ~ok]
          \/ run' = run
      BY DEF Release, Notify
    <2> QED
      BY <1>0, <2>1, <2>2 DEF TaskTypes, Runs
  <1>4. sched' \in Scheds
    BY DEF Release, Notify, TaskTypes, Scheds
  <1> QED
    BY <1>2, <1>3, <1>4 DEF TaskTypes, Release, Notify

LEMMA AwaitTyped ==
    ASSUME LockTypes, TaskTypes, NEW u \in Users, queue[u] # <<>>, NEW s \in Sections, Await(u, s)
    PROVE  LockTypes' /\ TaskTypes'
  BY DEF LockTypes, TaskTypes, Await, tasks

LEMMA SendTyped ==
    ASSUME LockTypes, TaskTypes, NEW u \in Users, queue[u] # <<>>,
           NEW w \in {"grant", "keep", "revoke", "missing", "restore"}, NEW G \in SUBSET Rules,
           NEW to \in Limits, NEW T \in SUBSET (Rules \X Users), Send(u, w, G, to, T)
    PROVE  LockTypes' /\ TaskTypes'
  <1>1. [pc |-> "write", limit |-> section[u].limit, write |-> w, groups |-> G, to |-> to, mark |-> T]
            \in Sections
    BY DEF LockTypes, Sections
  <1> QED
    BY <1>1, AwaitTyped DEF Send

LEMMA ReadTyped ==
    ASSUME LockTypes, TaskTypes, NEW u \in Users, queue[u] # <<>>, NEW limit \in Limits, Read(u, limit)
    PROVE  LockTypes' /\ TaskTypes'
  <1>1. [Outside EXCEPT !.pc = "read", !.limit = limit] \in Sections
    BY DEF Outside, Sections, Limits
  <1> QED
    BY <1>1, AwaitTyped DEF Read

LEMMA EnqueueTyped ==
    ASSUME LockTypes, NEW u \in Users, NEW j \in Jobs, Enqueue(u, j), section' = section
    PROVE  LockTypes'
  <1>1. queue' \in [Users -> Seq(Jobs)]
    BY DEF LockTypes, Enqueue
  <1>2. \A v \in Users : queue[v] # <<>> => queue'[v] # <<>>
    BY DEF LockTypes, Enqueue
  <1> QED
    BY <1>1, <1>2 DEF LockTypes

LEMMA BecomeTyped ==
    ASSUME RowTypes, NEW r \in Rules, NEW u \in Users, NEW m \in Members, Become(r, u, m),
           override' \in OverrideTable
    PROVE  RowTypes'
  BY DEF RowTypes, Become

-----------------------------------------------------------------------------
(* The handlers.                                                           *)

\* The settings a rule is given have limits (normalizeRuleInput).
LEMMA SettingsTyped ==
    ASSUME RuleTypes, NEW r \in Rules
    PROVE  terms[r].limit \in Limits
  BY DEF RuleTypes, ValidTerms

LEMMA NoRevokeTyped ==
    ASSUME FiniteRules, RowTypes, LockTypes, TaskTypes, NEW u \in Users, queue[u] # <<>>,
           NEW r \in Rules, NEW v \in Accounts, ApplyNoRevoke(u, r, v)
    PROVE  RowTypes' /\ LockTypes' /\ TaskTypes'
  <1>1. ASSUME NEW m \in {"preexisting", "revoked"}, Become(r, u, m), override' = override, Release(u, TRUE)
        PROVE  RowTypes' /\ LockTypes' /\ TaskTypes'
    BY <1>1, BecomeTyped, ReleaseTyped DEF RowTypes, Members
  <1>2. ASSUME override' = Carried(r, u), member' = member,
               Send(u, "missing", v.groups, RestoreTo(r, u), Own(r, u))
        PROVE  RowTypes' /\ LockTypes' /\ TaskTypes'
    BY <1>2, StackWrites, SendTyped DEF RowTypes, Accounts
  <1>3. ASSUME UNCHANGED rows, Release(u, TRUE) PROVE RowTypes' /\ LockTypes' /\ TaskTypes'
    BY <1>3, ReleaseTyped DEF RowTypes, rows
  <1> QED
    BY <1>1, <1>2, <1>3 DEF ApplyNoRevoke

LEMMA ClaimTyped ==
    ASSUME FiniteRules, RowTypes, LockTypes, TaskTypes, NEW u \in Users, queue[u] # <<>>,
           NEW r \in Rules, NEW limit \in Limits, NEW v \in Accounts, ApplyClaim(u, r, limit, v)
    PROVE  RowTypes' /\ LockTypes' /\ TaskTypes'
  <1>0. v.groups \in SUBSET Rules /\ v.groups \cup {r} \in SUBSET Rules /\ v.limit \in Nat
    BY DEF Accounts
  <1>1. Prepared(r, u, limit, v.limit) \in OverrideTable
    BY <1>0, PreparedTyped
  <1>2. ASSUME override' = Prepared(r, u, limit, v.limit), member' = member,
               NEW T \in Targets(r, u, limit), NEW w \in {"grant", "keep"},
               NEW G \in SUBSET Rules, Send(u, w, G, limit, T)
        PROVE  RowTypes' /\ LockTypes' /\ TaskTypes'
    BY <1>1, <1>2, TargetsTyped, SendTyped DEF RowTypes
  <1>3. ASSUME NEW T, override' = Marked(Prepared(r, u, limit, v.limit), T, "active"),
               member' = member, Release(u, TRUE)
        PROVE  RowTypes' /\ LockTypes' /\ TaskTypes'
    BY <1>1, <1>3, MarkedTyped, ReleaseTyped DEF RowTypes
  <1>4. ASSUME Become(r, u, "preexisting"), override' = override, Release(u, TRUE)
        PROVE  RowTypes' /\ LockTypes' /\ TaskTypes'
    BY <1>4, BecomeTyped, ReleaseTyped DEF RowTypes, Members
  <1>5. ASSUME UNCHANGED rows, Release(u, FALSE) PROVE RowTypes' /\ LockTypes' /\ TaskTypes'
    BY <1>5, ReleaseTyped DEF RowTypes, rows
  <1> QED
    BY <1>0, <1>2, <1>3, <1>4, <1>5 DEF ApplyClaim

LEMMA EnterTyped ==
    ASSUME FiniteRules, Types, NEW u \in Users, Enter(u)
    PROVE  Types'
  <1> USE DEF Types
  <1>0. queue[u] # <<>> /\ Holder(u).rule \in Rules
    BY HolderIsJob DEF Enter, EnterClaim, EnterRevoke, EnterRestore, AtLock
  <1>1. RuleTypes' /\ CopyTypes' /\ OtherTypes'
    BY DEF Enter, EnterClaim, EnterRevoke, EnterRestore, rules, copies, RuleTypes, CopyTypes, OtherTypes
  <1>2. ASSUME UNCHANGED rows PROVE RowTypes'
    BY <1>2 DEF rows, RowTypes
  <1>3. CASE EnterClaim(u)
    BY <1>0, <1>1, <1>2, <1>3, SettingsTyped, ReadTyped, ReleaseTyped DEF EnterClaim
  <1>4. CASE EnterRestore(u)
    BY <1>0, <1>1, <1>2, <1>4, ReadTyped, ReleaseTyped DEF EnterRestore, Limits
  <1>5. CASE EnterRevoke(u)
    <2>1. local[u] \in Accounts
      BY DEF CopyTypes
    <2> QED
      BY <1>0, <1>1, <1>2, <1>5, <2>1, ReadTyped, NoRevokeTyped DEF EnterRevoke, Limits
  <1> QED BY <1>3, <1>4, <1>5 DEF Enter

LEMMA AnswerTyped ==
    ASSUME FiniteRules, Types, NEW u \in Users, Answer(u)
    PROVE  Types'
  <1> USE DEF Types
  <1> DEFINE r == Holder(u).rule
  <1>0. queue[u] # <<>> /\ r \in Rules
    BY HolderIsJob DEF Answer, AnswerClaim, AnswerRevoke, AnswerRestore, AtLock
  <1>1. RuleTypes' /\ CopyTypes' /\ OtherTypes'
    BY DEF Answer, AnswerClaim, AnswerRevoke, AnswerRestore, rules, RuleTypes, CopyTypes, OtherTypes
  <1>2. remote[u] \in Accounts /\ remote[u].groups \in SUBSET Rules /\ section[u].limit \in Limits
    BY DEF CopyTypes, Accounts, LockTypes, Sections
  <1>3. ASSUME UNCHANGED rows, Release(u, TRUE) PROVE Types'
    BY <1>0, <1>1, <1>3, ReleaseTyped DEF rows, RowTypes
  <1>4. CASE AnswerClaim(u)
    BY <1>0, <1>1, <1>2, <1>3, <1>4, ClaimTyped DEF AnswerClaim
  <1>5. CASE AnswerRevoke(u)
    <2>1. ASSUME override' = Carried(r, u), member' = member,
                 Send(u, "revoke", remote[u].groups \ {r}, RestoreTo(r, u), Own(r, u))
          PROVE  Types'
      <3>1. remote[u].groups \ {r} \in SUBSET Rules
        BY <1>2
      <3> QED
        BY <1>0, <1>1, <2>1, <3>1, StackWrites, SendTyped DEF RowTypes
    <2> QED
      BY <1>0, <1>1, <1>2, <1>5, <2>1, NoRevokeTyped DEF AnswerRevoke, ApplyRevoke
  <1>6. CASE AnswerRestore(u)
    <2>1. ASSUME override' = Carried(r, u), member' = member,
                 Send(u, "restore", remote[u].groups, RestoreTo(r, u), Own(r, u))
          PROVE  Types'
      BY <1>0, <1>1, <1>2, <2>1, StackWrites, SendTyped DEF RowTypes
    <2>2. ASSUME override' = Marked(Carried(r, u), {<<r, u>>}, "restored"), member' = member,
                 Release(u, TRUE)
          PROVE  Types'
      BY <1>0, <1>1, <2>2, StackWrites, MarkedTyped, ReleaseTyped DEF RowTypes
    <2> QED
      BY <1>3, <1>6, <2>1, <2>2 DEF AnswerRestore
  <1> QED BY <1>4, <1>5, <1>6 DEF Answer

\* A write that takes effect leaves an account.
LEMMA LandTyped ==
    ASSUME CopyTypes, LockTypes, NEW u \in Users, section[u].pc # "wait"
    PROVE  Written(u) \in Accounts /\ Given(u) \subseteq Rules \X Users
  <1>1. section[u] \in Sections /\ remote[u] \in Accounts /\ Holder(u).rule \in Rules
    BY HolderIsJob DEF CopyTypes, LockTypes
  <1> QED
    BY <1>1 DEF Written, Given, Accounts, Sections, Limits

LEMMA SettleTyped ==
    ASSUME FiniteRules, IInv, Types, NEW u \in Users, Settle(u)
    PROVE  Types'
  <1> USE DEF Types
  <1> DEFINE r == Holder(u).rule
             w == section[u].write
  <1>0. queue[u] # <<>> /\ r \in Rules /\ section[u].pc # "wait"
    BY HolderIsJob DEF Settle, ReadFails, WriteSucceeds, WriteFails, AtLock
  <1>1. RuleTypes' /\ OtherTypes'
    BY DEF Settle, ReadFails, WriteSucceeds, WriteFails, rules, RuleTypes, OtherTypes
  <1>2. override \in OverrideTable
    BY DEF RowTypes
  <1>3. ASSUME NEW ok \in BOOLEAN, Release(u, ok) PROVE LockTypes' /\ TaskTypes'
    BY <1>0, <1>3, ReleaseTyped
  <1>4. CASE ReadFails(u)
    <2>1. CopyTypes' /\ member' = member /\ Release(u, FALSE)
      BY <1>4 DEF ReadFails, copies, CopyTypes
    <2>2. override' \in OverrideTable
      BY <1>2, <1>4, MarkedTyped DEF ReadFails
    <2> QED
      BY <1>1, <1>3, <2>1, <2>2 DEF RowTypes
  <1>5. ASSUME Land(u) PROVE remote' \in [Users -> Accounts] /\ granted' \subseteq Rules \X Users
    BY <1>0, <1>5, LandTyped DEF Land, CopyTypes
  <1>6. CASE WriteFails(u)
    <2>1. /\ local' = local /\ member' = member /\ Release(u, FALSE)
          /\ override' = Marked(override, section[u].mark, "failed")
          /\ Land(u) \/ UNCHANGED <<remote, granted>>
      BY <1>6 DEF WriteFails
    <2>2. CopyTypes'
      BY <1>5, <2>1 DEF CopyTypes
    <2> QED
      BY <1>1, <1>2, <1>3, <2>1, <2>2, MarkedTyped DEF RowTypes
  <1>7. CASE WriteSucceeds(u)
    <2> DEFINE st == IF w \in {"grant", "keep"} THEN "active" ELSE "restored"
    <2>1. /\ local' = [local EXCEPT ![u] = Written(u)] /\ Land(u)
          /\ override' = Marked(override, section[u].mark, st)
          /\ Release(u, stage[r] = "live") /\ section[u].pc = "write"
      BY <1>7 DEF WriteSucceeds, AtLock
    <2>2. CopyTypes'
      BY <1>0, <1>5, <2>1, LandTyped DEF CopyTypes
    <2>3. override' \in OverrideTable
      BY <1>2, <2>1, MarkedTyped
    <2>4. w \in {"grant", "keep", "revoke", "missing", "restore"}
      BY <2>1 DEF IInv, InFlight
    <2>5. RowTypes'
      <3>1. CASE member' = member
        BY <2>3, <3>1 DEF RowTypes
      <3>2. CASE w # "restore" /\ Become(r, u, AfterWrite[w])
        <4>1. AfterWrite[w] \in Members
          BY <2>4, <3>2 DEF AfterWrite, Members
        <4> QED
          BY <1>0, <2>3, <3>2, <4>1, BecomeTyped
      <3> QED BY <1>7, <3>1, <3>2 DEF WriteSucceeds
    <2> QED
      BY <1>1, <1>3, <2>1, <2>2, <2>5
  <1> QED BY <1>4, <1>6, <1>7 DEF Settle

\* A step that leaves the rows, the accounts and the locks alone.
LEMMA AsideTyped ==
    ASSUME Types, UNCHANGED <<rows, copies, locks>>, RuleTypes', TaskTypes', OtherTypes'
    PROVE  Types'
  BY DEF Types, rows, copies, locks, RowTypes, CopyTypes, LockTypes

LEMMA BeginRunTyped ==
    ASSUME Types, NEW r \in Rules, NEW mode \in {"expire", "revoke", "delete"}, BeginRun(r, mode)
    PROVE  run' \in [Rules -> Runs]
  <1>1. [mode |-> mode, todo |-> {u \in Users : member[r][u] = "managed"}, busy |-> FALSE,
         failed |-> FALSE, fresh |-> terms[r].revokeAt <= now] \in Runs
    BY DEF Runs, Modes
  <1> QED
    BY <1>1 DEF BeginRun, Types, TaskTypes

LEMMA TimerTyped ==
    ASSUME Types, Timer
    PROVE  Types'
  <1> USE DEF Types
  <1>0. RuleTypes' /\ OtherTypes' /\ RowTypes' /\ CopyTypes' /\ request' = request
    BY DEF Timer, Schedule, SchedRestore, SchedDue, SchedEnd, SchedRevoke, rules, rows, copies,
           RuleTypes, OtherTypes, RowTypes, CopyTypes
  <1>1. CASE Schedule \/ SchedDue \/ SchedEnd
    <2>1. DueRows \in SUBSET (Rules \X Users) /\ DueRules \in SUBSET Rules
      BY DEF DueRows, DueRules
    <2>2. ASSUME Schedule PROVE sched' \in Scheds
      BY <2>1, <2>2 DEF Schedule, Scheds, NoSched
    <2>3. ASSUME SchedDue PROVE sched' \in Scheds
      BY <2>1, <2>3 DEF SchedDue, TaskTypes, Scheds
    <2>4. ASSUME SchedEnd PROVE sched' \in Scheds
      BY <2>4 DEF SchedEnd, Scheds, NoSched
    <2>5. run' = run /\ UNCHANGED locks
      BY <1>1 DEF Schedule, SchedDue, SchedEnd
    <2> QED
      BY <1>0, <1>1, <2>2, <2>3, <2>4, <2>5 DEF TaskTypes, LockTypes, locks
  <1>2. CASE SchedRestore
    <2>1. PICK q \in sched.rows :
             /\ Enqueue(q[2], [kind |-> "restore", rule |-> q[1]])
             /\ sched' = [sched EXCEPT !.rows = @ \ {q}, !.busy = TRUE]
      BY <1>2 DEF SchedRestore
    <2>2. q[1] \in Rules /\ q[2] \in Users /\ sched' \in Scheds
      BY <2>1 DEF TaskTypes, Scheds
    <2>3. [kind |-> "restore", rule |-> q[1]] \in Jobs
      BY <2>2 DEF Jobs
    <2>4. section' = section /\ run' = run
      BY <1>2 DEF SchedRestore
    <2> QED
      BY <1>0, <2>1, <2>2, <2>3, <2>4, EnqueueTyped DEF TaskTypes
  <1>3. ASSUME NEW r \in Rules, SchedRevoke(r) PROVE Types'
    <2>1. UNCHANGED locks
      BY <1>3 DEF SchedRevoke
    <2>2. run' \in [Rules -> Runs]
      BY <1>3, BeginRunTyped DEF SchedRevoke, TaskTypes
    <2>3. sched.due \ {r} \in SUBSET Rules
      BY DEF TaskTypes, Scheds
    <2>4. \/ sched' = [sched EXCEPT !.due = @ \ {r}, !.busy = TRUE]
          \/ sched' = [sched EXCEPT !.due = @ \ {r}]
      BY <1>3 DEF SchedRevoke
    <2>5. sched' \in Scheds
      BY <2>3, <2>4 DEF TaskTypes, Scheds
    <2> QED
      BY <1>0, <2>1, <2>2, <2>5 DEF TaskTypes, LockTypes, locks
  <1> QED BY <1>1, <1>2, <1>3 DEF Timer

\* What administrators do and what a run does.
LEMMA RuleTyped ==
    ASSUME Types, NEW r \in Rules,
           \/ RunNext(r) \/ RunEnd(r) \/ RevokeNow(r) \/ DeleteRule(r) \/ Requested(r)
           \/ \E t \in Terms : CreateRule(r, t) \/ \E on \in BOOLEAN : UpdateRule(r, t, on)
    PROVE  Types'
  <1> USE DEF Types
  <1>0. run[r] \in Runs /\ request[r] \in {"none", "revoke", "delete"} /\ NoRun \in Runs
    BY DEF TaskTypes, Runs, NoRun, Modes
  <1>1. CASE RunNext(r)
    <2>1. PICK u \in run[r].todo :
             /\ Enqueue(u, [kind |-> "revoke", rule |-> r])
             /\ run' = [run EXCEPT ![r].todo = @ \ {u}, ![r].busy = TRUE]
      BY <1>1 DEF RunNext
    <2>2. u \in Users /\ [[run[r] EXCEPT !.todo = run[r].todo \ {u}] EXCEPT !.busy = TRUE] \in Runs
      BY <1>0 DEF Runs
    <2>3. run' \in [Rules -> Runs]
      BY <2>1, <2>2 DEF TaskTypes
    <2>4. [kind |-> "revoke", rule |-> r] \in Jobs
      BY DEF Jobs
    <2>5. UNCHANGED <<rules, rows, copies, section, request, sched, lookup, now, used>>
      BY <1>1 DEF RunNext
    <2>6. LockTypes'
      BY <2>1, <2>2, <2>4, <2>5, EnqueueTyped
    <2> QED
      BY <2>3, <2>5, <2>6 DEF rules, rows, copies, RuleTypes, RowTypes, CopyTypes, TaskTypes, OtherTypes
  <1>2. CASE RunEnd(r)
    <2>1. /\ UNCHANGED <<enabled, terms, member, copies, locks, request, lookup, now, used>>
          /\ run' = [run EXCEPT ![r] = NoRun]
          /\ \/ stage' = [stage EXCEPT ![r] = "deleted"]
                /\ override' = [override EXCEPT ![r] = [u \in Users |-> NoRow]]
             \/ UNCHANGED <<stage, override>>
          /\ sched' = [sched EXCEPT !.busy = FALSE] \/ sched' = sched
      BY <1>2 DEF RunEnd
    <2>2. expired' \in [Rules -> BOOLEAN]
      BY <1>2 DEF RunEnd, RuleTypes
    <2>3. NoRow \in Overrides
      BY DEF NoRow, Overrides
    <2>6. RuleTypes'
      BY <2>1, <2>2 DEF RuleTypes
    <2>7. override' \in OverrideTable
      <3>1. [u \in Users |-> NoRow] \in [Users -> Overrides]
        BY <2>3
      <3>2. [override EXCEPT ![r] = [u \in Users |-> NoRow]] \in OverrideTable
        BY <3>1 DEF RowTypes, OverrideTable
      <3> QED
        BY <2>1, <3>2 DEF RowTypes
    <2>4. RuleTypes' /\ RowTypes'
      BY <2>1, <2>6, <2>7 DEF RowTypes
    <2>5. TaskTypes'
      BY <1>0, <2>1 DEF TaskTypes, Scheds
    <2> QED
      BY <2>1, <2>4, <2>5 DEF copies, locks, CopyTypes, LockTypes, OtherTypes
  <1>3. ASSUME run' = [run EXCEPT ![r].fresh = FALSE] PROVE run' \in [Rules -> Runs]
    <2>1. [run[r] EXCEPT !.fresh = FALSE] \in Runs
      BY <1>0 DEF Runs
    <2> QED
      BY <1>3, <2>1 DEF TaskTypes
  <1>4. CASE RevokeNow(r)
    BY <1>3, <1>4, AsideTyped DEF RevokeNow, RuleTypes, TaskTypes, OtherTypes
  <1>5. CASE DeleteRule(r)
    BY <1>5, AsideTyped DEF DeleteRule, Disturb, rules, RuleTypes, TaskTypes, OtherTypes
  <1>6. CASE Requested(r)
    <2>1. run' \in [Rules -> Runs]
      BY <1>0, <1>6, BeginRunTyped DEF Requested, TaskTypes
    <2> QED
      BY <1>6, <2>1, AsideTyped DEF Requested, rules, RuleTypes, TaskTypes, OtherTypes
  <1>7. ASSUME NEW t \in Terms, CreateRule(r, t) PROVE Types'
    <2>1. t \in ValidTerms
      BY GroupAssumption
    <2> QED
      BY <1>7, <2>1, AsideTyped DEF CreateRule, tasks, RuleTypes, TaskTypes, OtherTypes
  <1>8. ASSUME NEW t \in Terms, NEW on \in BOOLEAN, UpdateRule(r, t, on) PROVE Types'
    <2>1. t \in ValidTerms
      BY GroupAssumption
    <2> QED
      BY <1>3, <1>8, <2>1, AsideTyped DEF UpdateRule, Disturb, RuleTypes, TaskTypes, OtherTypes
  <1> QED BY <1>1, <1>2, <1>4, <1>5, <1>6, <1>7, <1>8

LEMMA SurroundingsTyped ==
    ASSUME Types, NEW u \in Users,
           LookupReads(u) \/ LookupStores(u) \/ \E r \in Rules : Claim(r, u) \/ ManualEdit(u, r)
    PROVE  Types'
  <1> USE DEF Types
  <1>1. CASE LookupReads(u)
    <2>1. remote[u] \in Accounts \cup {NoLookup}
      BY DEF CopyTypes
    <2>2. OtherTypes'
      BY <1>1, <2>1 DEF LookupReads, Disturb, OtherTypes
    <2> QED
      BY <1>1, <2>2, AsideTyped DEF LookupReads, rules, tasks, RuleTypes, TaskTypes
  <1>2. CASE LookupStores(u)
    <2>1. lookup[u] \in Accounts
      BY <1>2 DEF LookupStores, OtherTypes
    <2>2. CopyTypes' /\ OtherTypes'
      BY <1>2, <2>1 DEF LookupStores, CopyTypes, OtherTypes
    <2> QED
      BY <1>2, <2>2 DEF LookupStores, rules, rows, locks, tasks, RuleTypes, RowTypes, LockTypes, TaskTypes
  <1>3. ASSUME NEW r \in Rules, Claim(r, u) PROVE Types'
    <2>1. [kind |-> "claim", rule |-> r] \in Jobs
      BY DEF Jobs
    <2>2. LockTypes'
      BY <1>3, <2>1, EnqueueTyped DEF Claim
    <2> QED
      BY <1>3, <2>2 DEF Claim, rules, rows, copies, tasks, RuleTypes, RowTypes, CopyTypes, TaskTypes, OtherTypes
  <1>4. ASSUME NEW r \in Rules, ManualEdit(u, r) PROVE Types'
    <2> DEFINE G == IF r \in remote[u].groups THEN remote[u].groups \ {r} ELSE remote[u].groups \cup {r}
    <2>1. [remote[u] EXCEPT !.groups = G] \in Accounts
      BY DEF CopyTypes, Accounts
    <2>2. remote' = [remote EXCEPT ![u] = [remote[u] EXCEPT !.groups = G]]
      BY <1>4 DEF ManualEdit
    <2>3. remote' \in [Users -> Accounts]
      BY <2>1, <2>2 DEF CopyTypes
    <2>4. CopyTypes' /\ OtherTypes'
      BY <1>4, <2>3 DEF ManualEdit, Disturb, CopyTypes, OtherTypes
    <2> QED
      BY <1>4, <2>4 DEF ManualEdit, rules, rows, locks, tasks, RuleTypes, RowTypes, LockTypes, TaskTypes
  <1> QED BY <1>1, <1>2, <1>3, <1>4

LEMMA CrashTyped ==
    ASSUME Types, Crash
    PROVE  Types'
  <1> USE DEF Types
  <1>1. CopyTypes'
    <2>1. PICK L \in SUBSET {u \in Users : section[u].pc = "write"} :
             /\ remote' = [u \in Users |-> IF u \in L THEN Written(u) ELSE remote[u]]
             /\ granted' = granted \cup UNION {Given(u) : u \in L}
      BY DEF Crash
    <2>2. \A u \in L : Written(u) \in Accounts /\ Given(u) \subseteq Rules \X Users
      BY LandTyped
    <2>3. local' = local
      BY DEF Crash
    <2> QED
      BY <2>1, <2>2, <2>3 DEF CopyTypes
  <1>2. LockTypes'
    BY DEF Crash, LockTypes, Outside, Sections, Limits
  <1>3. TaskTypes'
    BY DEF Crash, TaskTypes, Runs, NoRun, Modes, Scheds, NoSched
  <1>4. RuleTypes' /\ RowTypes'
    BY DEF Crash, rules, rows, RuleTypes, RowTypes
  <1>5. OtherTypes'
    BY DEF Crash, Disturb, OtherTypes
  <1> QED BY <1>1, <1>2, <1>3, <1>4, <1>5

LEMMA TypesInit == Init => Types
  <1> SUFFICES ASSUME Init PROVE Types
    OBVIOUS
  <1>1. [ends |-> Never, revokeAt |-> Never, limit |-> NoLimit] \in ValidTerms
    BY GroupAssumption DEF ValidTerms, Never, Limits
  <1>2. RuleTypes
    BY <1>1 DEF Init, RuleTypes
  <1>3. RowTypes
    BY DEF Init, RowTypes, Members, OverrideTable, Overrides, NoRow
  <1>4. CopyTypes
    BY GroupAssumption DEF Init, CopyTypes, Accounts
  <1>5. LockTypes
    BY DEF Init, LockTypes, Outside, Sections, Limits
  <1>6. TaskTypes
    BY DEF Init, TaskTypes, Runs, NoRun, Modes, Scheds, NoSched
  <1>7. OtherTypes
    BY GroupAssumption DEF Init, OtherTypes
  <1> QED
    BY <1>2, <1>3, <1>4, <1>5, <1>6, <1>7 DEF Types

LEMMA TypesNext == FiniteRules /\ IInv /\ Types /\ [Next]_vars => Types'
  <1> SUFFICES ASSUME FiniteRules, IInv, Types, [Next]_vars PROVE Types'
    OBVIOUS
  <1>1. ASSUME NEW u \in Users, Enter(u) \/ Answer(u) \/ Settle(u) PROVE Types'
    BY <1>1, EnterTyped, AnswerTyped, SettleTyped
  <1>2. CASE Tick
    <2>1. OtherTypes'
      BY <1>2, GroupAssumption DEF Tick, Types, OtherTypes
    <2> QED
      BY <1>2, <2>1, AsideTyped DEF Tick, rules, tasks, Types, RuleTypes, TaskTypes
  <1>3. CASE UNCHANGED vars
    <2>1. UNCHANGED <<rows, copies, locks>> /\ RuleTypes' /\ TaskTypes' /\ OtherTypes'
      BY <1>3 DEF vars, rules, tasks, Types, RuleTypes, TaskTypes, OtherTypes
    <2> QED
      BY <2>1, AsideTyped
  <1> QED
    BY <1>1, <1>2, <1>3, TimerTyped, RuleTyped, SurroundingsTyped, CrashTyped DEF Next

\* Type correctness, with any number of rules of a user on top of each other.
THEOREM TypeCorrect ==
    ASSUME FiniteRules
    PROVE  Spec => []TypeOK
  <1>1. Init => IInv /\ Types
    BY InvInit, TypesInit
  <1>2. (IInv /\ Types) /\ [Next]_vars => (IInv /\ Types)'
    BY InvNext, TypesNext
  <1>3. Types => TypeOK
    BY TypesAreTypeOK
  <1> QED
    BY <1>1, <1>2, <1>3, PTL DEF Spec
-----------------------------------------------------------------------------
(* A membership that is written off.  Only when nobody refreshes the user  *)
(* outside the lock, and no rule is opened again after a revocation that   *)
(* failed (by an update, or by a deletion that leaves the rule), is a group *)
(* that the local copy lacks missing at Sub2API too.                       *)

NoReopening == Disturbances \cap {"update", "delete"} = {}

Calm == NoReopening /\ "lookup" \notin Disturbances

\* No claim of the rule passes the checks any more, now or later.
Closed(r) == stage[r] # "none" /\ ~Claimable(r)

\* A revocation is asked for, due or under way only when the rule is closed, and so
\* is a restoration.
Asked(r) == run[r].mode # "none" \/ request[r] # "none" \/ r \in sched.due

Closing ==
    /\ \A r \in Rules : Asked(r) => Closed(r)
    /\ \A u \in Users : \A k \in 1..Len(queue[u]) :
          queue[u][k].kind # "claim" => Closed(queue[u][k].rule)
    /\ \A q \in sched.rows : Closed(q[1])

NoLookups == \A u \in Users : lookup[u] = NoLookup

\* A managed group missing from the local copy is missing at Sub2API; one that is
\* missing there has been taken back, and its rule is not claimed again.
InStep(r, u) ==
    member[r][u] = "managed" =>
        /\ r \notin local[u].groups => r \notin remote[u].groups
        /\ r \notin remote[u].groups =>
               Closed(r) /\ ~(AtLock(u, "read") /\ Holder(u) = [kind |-> "claim", rule |-> r])

\* What a write under way was decided on still holds.
Sent(u) ==
    LET r == Holder(u).rule
        w == section[u].write
    IN  section[u].pc = "write" =>
            /\ w = "grant" => member[r][u] # "managed"
            /\ w = "keep" => r \in remote[u].groups
            /\ w = "missing" /\ member[r][u] = "managed" => r \notin remote[u].groups
            /\ w = "revoke" => Holder(u).kind = "revoke"

UserInStep(u) == Sent(u) /\ \A r \in Rules : InStep(r, u)

GoneInv == Closing /\ NoLookups /\ (Edited \/ \A u \in Users : UserInStep(u))

-----------------------------------------------------------------------------
(* What a step is, for the lock and for the rules.                         *)

\* A job of u goes on: it awaits a call, or it ends.
LEMMA Turn ==
    ASSUME NEW u \in Users, Enter(u) \/ Answer(u) \/ Settle(u)
    PROVE  /\ queue[u] # <<>>
           /\ UNCHANGED <<rules, lookup, now, used>>
           /\ (\E ok \in BOOLEAN : Release(u, ok)) \/ (\E s : Await(u, s))
  <1>1. CASE Enter(u)
    BY <1>1 DEF Enter, EnterClaim, EnterRevoke, EnterRestore, AtLock, ApplyNoRevoke, Read, Send
  <1>2. CASE Answer(u)
    BY <1>2 DEF Answer, AnswerClaim, AnswerRevoke, AnswerRestore, AtLock, ApplyNoRevoke, ApplyRevoke,
       ApplyClaim, Send
  <1>3. CASE Settle(u)
    BY <1>3 DEF Settle, ReadFails, WriteSucceeds, WriteFails, AtLock
  <1> QED BY <1>1, <1>2, <1>3

\* A rule that is closed stays so.
LEMMA ClosedStays ==
    ASSUME NoReopening, Types, [Next]_vars, NEW r \in Rules, Closed(r)
    PROVE  Closed(r)'
  <1>1. ASSUME UNCHANGED <<rules, now>> PROVE Closed(r)'
    BY <1>1 DEF Closed, Claimable, rules
  <1>2. ASSUME NEW u \in Users, Enter(u) \/ Answer(u) \/ Settle(u) PROVE Closed(r)'
    BY <1>1, <1>2, Turn
  <1>3. ASSUME NEW u \in Users,
               LookupReads(u) \/ LookupStores(u) \/ \E s \in Rules : Claim(s, u) \/ ManualEdit(u, s)
        PROVE Closed(r)'
    BY <1>1, <1>3 DEF LookupReads, LookupStores, Claim, ManualEdit
  <1>4. ASSUME NEW s \in Rules, RunNext(s) \/ DeleteRule(s) \/ Requested(s) PROVE Closed(r)'
    BY <1>1, <1>4 DEF RunNext, DeleteRule, Requested
  <1>5. ASSUME NEW s \in Rules, RunEnd(s) PROVE Closed(r)'
    BY <1>5 DEF RunEnd, Closed, Claimable, Types, RuleTypes
  <1>6. ASSUME NEW s \in Rules, RevokeNow(s) PROVE Closed(r)'
    BY <1>6 DEF RevokeNow, Closed, Claimable, Types, RuleTypes
  <1>7. ASSUME NEW s \in Rules, NEW t \in Terms, CreateRule(s, t) PROVE Closed(r)'
    BY <1>7 DEF CreateRule, Closed, Claimable, Types, RuleTypes
  <1>8. ASSUME NEW s \in Rules, NEW t \in Terms, NEW on \in BOOLEAN, UpdateRule(s, t, on) PROVE Closed(r)'
    BY <1>8 DEF UpdateRule, Disturb, NoReopening
  <1>9. CASE Tick
    <2>1. terms[r].ends \in Int /\ now \in Int
      BY DEF Types, RuleTypes, OtherTypes, ValidTerms
    <2> QED
      BY <1>9, <2>1 DEF Tick, rules, Closed, Claimable
  <1>10. CASE Timer \/ Crash \/ UNCHANGED vars
    BY <1>1, <1>10 DEF Timer, Schedule, SchedRestore, SchedDue, SchedEnd, SchedRevoke, Crash, vars
  <1> QED
    BY <1>2, <1>3, <1>4, <1>5, <1>6, <1>7, <1>8, <1>9, <1>10 DEF Next

\* A revocation found due belongs to a rule whose activity has ended (normalizeRuleInput).
LEMMA DueIsClosed ==
    ASSUME Types, NEW r \in DueRules
    PROVE  r \in Rules /\ Closed(r)
  <1>1. r \in Rules /\ stage[r] = "live" /\ terms[r].revokeAt <= now
    BY DEF DueRules
  <1>2. terms[r] \in ValidTerms /\ now \in 0..Horizon
    BY <1>1 DEF Types, RuleTypes, OtherTypes
  <1>3. terms[r].revokeAt # Never /\ terms[r].ends \in Int /\ terms[r].revokeAt \in Int
    BY <1>1, <1>2, GroupAssumption DEF ValidTerms, Never
  <1>4. terms[r].ends < terms[r].revokeAt
    BY <1>2, <1>3 DEF ValidTerms
  <1> QED
    BY <1>1, <1>2, <1>3, <1>4 DEF Closed, Claimable

-----------------------------------------------------------------------------
(* Revocations are of closed rules.                                        *)

\* The tasks ask for nothing new, and a lock loses a job or gains one.
LEMMA ClosingKept ==
    ASSUME Closing, \A q \in sched'.rows : q[1] \in Rules /\ Closed(q[1]),
           \A r \in Rules : Closed(r) => Closed(r)',
           \A r \in Rules :
              run'[r].mode # "none" \/ request'[r] # "none" \/ r \in sched'.due =>
                 Closed(r) \/ Closed(r)' \/ Asked(r),
           \A u \in Users : \A k \in 1..Len(queue'[u]) :
              \/ queue'[u][k].kind = "claim"
              \/ queue'[u][k].rule \in Rules /\ Closed(queue'[u][k].rule)
              \/ \E i \in 1..Len(queue[u]) : queue'[u][k] = queue[u][i] /\ queue[u][i].rule \in Rules
    PROVE  Closing'
  BY DEF Closing, Asked

LEMMA RowsClosed ==
    ASSUME Types, Closing
    PROVE  \A q \in sched.rows : q[1] \in Rules /\ Closed(q[1])
  BY DEF Types, TaskTypes, Scheds, Closing

LEMMA QueueSame ==
    ASSUME LockTypes, queue' = queue
    PROVE  \A v \in Users : \A k \in 1..Len(queue'[v]) :
              \E i \in 1..Len(queue[v]) : queue'[v][k] = queue[v][i] /\ queue[v][i].rule \in Rules
  <1>1. \A v \in Users : \A k \in 1..Len(queue[v]) : queue[v][k] \in Jobs
    BY DEF LockTypes
  <1> QED
    BY <1>1 DEF Jobs

\* The locks are left alone.
LEMMA TasksClose ==
    ASSUME Types, Closing, \A r \in Rules : Closed(r) => Closed(r)', queue' = queue,
           \A q \in sched'.rows : q[1] \in Rules /\ Closed(q[1]),
           \A r \in Rules :
              run'[r].mode # "none" \/ request'[r] # "none" \/ r \in sched'.due =>
                 Closed(r) \/ Closed(r)' \/ Asked(r)
    PROVE  Closing'
  <1>1. \A v \in Users : \A k \in 1..Len(queue'[v]) :
              \E i \in 1..Len(queue[v]) : queue'[v][k] = queue[v][i] /\ queue[v][i].rule \in Rules
    BY QueueSame DEF Types
  <1> QED
    BY <1>1, ClosingKept

LEMMA QueueAppended ==
    ASSUME LockTypes, NEW u \in Users, NEW j \in Jobs, Enqueue(u, j)
    PROVE  \A v \in Users : \A k \in 1..Len(queue'[v]) :
              \/ v = u /\ queue'[v][k] = j
              \/ \E i \in 1..Len(queue[v]) : queue'[v][k] = queue[v][i] /\ queue[v][i].rule \in Rules
  <1> SUFFICES ASSUME NEW v \in Users, NEW k \in 1..Len(queue'[v])
               PROVE  \/ v = u /\ queue'[v][k] = j
                      \/ \E i \in 1..Len(queue[v]) :
                            queue'[v][k] = queue[v][i] /\ queue[v][i].rule \in Rules
    OBVIOUS
  <1>1. queue[v] \in Seq(Jobs) /\ queue'[v] = IF v = u THEN Append(queue[v], j) ELSE queue[v]
    BY DEF LockTypes, Enqueue
  <1>2. \A i \in 1..Len(queue[v]) : queue[v][i].rule \in Rules
    <2>1. \A i \in 1..Len(queue[v]) : queue[v][i] \in Jobs
      BY <1>1
    <2> QED
      BY <2>1 DEF Jobs
  <1> QED
    BY <1>1, <1>2

LEMMA TailElements ==
    ASSUME NEW S, NEW q \in Seq(S), q # <<>>, NEW k \in 1..Len(Tail(q))
    PROVE  k + 1 \in 1..Len(q) /\ Tail(q)[k] = q[k + 1]
  OBVIOUS

LEMMA QueueShortened ==
    ASSUME LockTypes, NEW u \in Users, queue[u] # <<>>, queue' = [queue EXCEPT ![u] = Tail(@)]
    PROVE  \A v \in Users : \A k \in 1..Len(queue'[v]) :
              \E i \in 1..Len(queue[v]) : queue'[v][k] = queue[v][i] /\ queue[v][i].rule \in Rules
  <1> SUFFICES ASSUME NEW v \in Users, NEW k \in 1..Len(queue'[v])
               PROVE  \E i \in 1..Len(queue[v]) :
                         queue'[v][k] = queue[v][i] /\ queue[v][i].rule \in Rules
    OBVIOUS
  <1>1. queue[v] \in Seq(Jobs)
    BY DEF LockTypes
  <1>2. \A i \in 1..Len(queue[v]) : queue[v][i].rule \in Rules
    <2>1. \A i \in 1..Len(queue[v]) : queue[v][i] \in Jobs
      BY <1>1
    <2> QED
      BY <2>1 DEF Jobs
  <1>3. CASE v = u
    <2>1. queue'[v] = Tail(queue[v])
      BY <1>3 DEF LockTypes
    <2>2. k + 1 \in 1..Len(queue[v]) /\ queue'[v][k] = queue[v][k + 1]
      BY <1>1, <1>3, <2>1, TailElements
    <2> QED
      BY <1>2, <2>2
  <1>4. CASE v # u
    <2>1. queue'[v] = queue[v]
      BY <1>4 DEF LockTypes
    <2> QED
      BY <1>2, <2>1
  <1> QED BY <1>3, <1>4

\* A job of u that goes on leaves the revocations asked for as they were.
LEMMA TurnCloses ==
    ASSUME Types, Closing, \A r \in Rules : Closed(r) => Closed(r)',
           NEW u \in Users, Enter(u) \/ Answer(u) \/ Settle(u)
    PROVE  Closing'
  <1>1. ASSUME NEW ok \in BOOLEAN, Release(u, ok) PROVE Closing'
    <2>1. queue[u] # <<>> /\ LockTypes
      BY Turn DEF Types
    <2>2. Holder(u) \in Jobs /\ Holder(u).rule \in Rules
      BY <2>1, HolderIsJob
    <2>3. request' = request /\ sched'.due = sched.due /\ sched'.rows = sched.rows
      BY <1>1 DEF Release, Notify, Types, TaskTypes, Scheds
    <2>4. \A r \in Rules : run'[r].mode = run[r].mode
      BY <1>1, <2>2 DEF Release, Notify, Types, TaskTypes, Runs
    <2>5. queue' = [queue EXCEPT ![u] = Tail(@)]
      BY <1>1 DEF Release
    <2>6. \A v \in Users : \A k \in 1..Len(queue'[v]) :
              \E i \in 1..Len(queue[v]) : queue'[v][k] = queue[v][i] /\ queue[v][i].rule \in Rules
      BY <2>1, <2>5, QueueShortened
    <2> HIDE <1>1
    <2> QED
      BY <2>3, <2>4, <2>6, RowsClosed, ClosingKept DEF Asked
  <1>2. ASSUME NEW s, Await(u, s) PROVE Closing'
    BY <1>2, RowsClosed, TasksClose DEF Await, tasks, Asked
  <1> QED
    BY <1>1, <1>2, Turn

LEMMA TimerCloses ==
    ASSUME Types, Closing, \A r \in Rules : Closed(r) => Closed(r)', Timer
    PROVE  Closing'
  <1>1. CASE Schedule \/ SchedDue \/ SchedEnd
    <2>1. \A r \in sched'.due : r \in sched.due \/ r \in DueRules
      <3>1. sched \in Scheds
        BY DEF Types, TaskTypes
      <3>2. CASE SchedDue
        BY <3>1, <3>2 DEF SchedDue, Scheds
      <3>3. CASE Schedule \/ SchedEnd
        <4>1. sched'.due = {}
          <5>1. CASE Schedule
            <6>1. sched' = [NoSched EXCEPT !.phase = "restore", !.rows = DueRows]
              BY <5>1 DEF Schedule
            <6> QED BY <6>1 DEF NoSched
          <5>2. CASE SchedEnd
            BY <5>2 DEF SchedEnd, NoSched
          <5> QED BY <3>3, <5>1, <5>2
        <4> QED BY <4>1
      <3> QED BY <1>1, <3>2, <3>3
    <2>2. \A r \in DueRules : Closed(r)
      BY DueIsClosed
    <2>3. UNCHANGED <<run, request, queue>>
      BY <1>1 DEF Schedule, SchedDue, SchedEnd, locks
    <2>4. \A q \in sched'.rows : q[1] \in Rules /\ Closed(q[1])
      <3>1. CASE SchedDue
        BY <3>1, RowsClosed DEF SchedDue, Types, TaskTypes, Scheds
      <3>2. CASE Schedule
        <4>1. sched' = [NoSched EXCEPT !.phase = "restore", !.rows = DueRows]
          BY <3>2 DEF Schedule
        <4>2. sched'.rows = DueRows
          BY <4>1 DEF NoSched
        <4>3. \A q \in DueRows : q[1] \in Rules /\ Closed(q[1])
          BY DEF DueRows, Closed, Claimable, Types, RuleTypes, OtherTypes, ValidTerms
        <4> QED BY <4>2, <4>3
      <3>3. CASE SchedEnd
        BY <3>3 DEF SchedEnd, NoSched
      <3> QED BY <1>1, <3>1, <3>2, <3>3
    <2> QED
      BY <2>1, <2>2, <2>3, <2>4, TasksClose DEF Asked
  <1>2. CASE SchedRestore
    <2>1. PICK q \in sched.rows :
             /\ Enqueue(q[2], [kind |-> "restore", rule |-> q[1]])
             /\ sched' = [sched EXCEPT !.rows = @ \ {q}, !.busy = TRUE]
      BY <1>2 DEF SchedRestore
    <2>2. /\ q[2] \in Users /\ [kind |-> "restore", rule |-> q[1]] \in Jobs
          /\ sched'.due = sched.due /\ sched'.rows \subseteq sched.rows
      BY <2>1 DEF Types, TaskTypes, Scheds, Jobs
    <2>5. q[1] \in Rules /\ Closed(q[1])
      BY <2>1, RowsClosed
    <2>3. UNCHANGED <<run, request>> /\ LockTypes
      BY <1>2 DEF SchedRestore, Types
    <2>4. \A v \in Users : \A k \in 1..Len(queue'[v]) :
              \/ v = q[2] /\ queue'[v][k] = [kind |-> "restore", rule |-> q[1]]
              \/ \E i \in 1..Len(queue[v]) : queue'[v][k] = queue[v][i] /\ queue[v][i].rule \in Rules
      BY <2>1, <2>2, <2>3, QueueAppended
    <2> QED
      BY <2>2, <2>3, <2>4, <2>5, RowsClosed, ClosingKept DEF Asked
  <1>3. ASSUME NEW r \in Rules, SchedRevoke(r) PROVE Closing'
    <2>1. sched \in Scheds
      BY DEF Types, TaskTypes
    <2>2. sched'.due = sched.due \ {r} /\ sched'.rows = sched.rows /\ Closed(r) /\ UNCHANGED <<queue, request>>
      BY <1>3, <2>1 DEF SchedRevoke, Scheds, Closing, Asked, locks
    <2>3. \A s \in Rules : s # r => run'[s] = run[s]
      BY <1>3 DEF SchedRevoke, BeginRun, Types, TaskTypes
    <2> QED
      BY <2>2, <2>3, RowsClosed, TasksClose DEF Asked
  <1> QED BY <1>1, <1>2, <1>3 DEF Timer

LEMMA RuleCloses ==
    ASSUME NoReopening, Types, Closing, \A s \in Rules : Closed(s) => Closed(s)', NEW r \in Rules,
           \/ RunNext(r) \/ RunEnd(r) \/ RevokeNow(r) \/ DeleteRule(r) \/ Requested(r)
           \/ \E t \in Terms : CreateRule(r, t) \/ \E on \in BOOLEAN : UpdateRule(r, t, on)
    PROVE  Closing'
  <1>0. run \in [Rules -> Runs] /\ request \in [Rules -> {"none", "revoke", "delete"}] /\ sched \in Scheds
    BY DEF Types, TaskTypes
  <1>1. CASE RunNext(r)
    <2>1. PICK u \in run[r].todo :
             /\ Enqueue(u, [kind |-> "revoke", rule |-> r])
             /\ run' = [run EXCEPT ![r].todo = @ \ {u}, ![r].busy = TRUE]
      BY <1>1 DEF RunNext
    <2>2. u \in Users /\ [kind |-> "revoke", rule |-> r] \in Jobs /\ LockTypes
      BY <1>0 DEF Runs, Jobs, Types
    <2>3. Closed(r) /\ UNCHANGED <<request, sched>>
      BY <1>1 DEF RunNext, Closing, Asked
    <2>4. \A s \in Rules : run'[s].mode = run[s].mode
      BY <1>0, <2>1 DEF Runs
    <2>5. \A v \in Users : \A k \in 1..Len(queue'[v]) :
              \/ v = u /\ queue'[v][k] = [kind |-> "revoke", rule |-> r]
              \/ \E i \in 1..Len(queue[v]) : queue'[v][k] = queue[v][i] /\ queue[v][i].rule \in Rules
      BY <2>1, <2>2, QueueAppended
    <2> QED
      BY <2>3, <2>4, <2>5, RowsClosed, ClosingKept DEF Asked
  <1>2. CASE RunEnd(r)
    <2>1. /\ sched'.due = sched.due /\ sched'.rows = sched.rows /\ UNCHANGED <<request, queue>>
          /\ \A s \in Rules : run'[s].mode = "none" \/ run'[s] = run[s]
      BY <1>0, <1>2 DEF RunEnd, Scheds, locks, NoRun
    <2> QED
      BY <2>1, RowsClosed, TasksClose DEF Asked
  <1>3. CASE RevokeNow(r)
    <2>1. /\ UNCHANGED <<sched, queue>> /\ Closed(r)'
          /\ \A s \in Rules : run'[s].mode = run[s].mode
          /\ \A s \in Rules \ {r} : request'[s] = request[s]
      BY <1>0, <1>3 DEF RevokeNow, locks, Runs, Closed, Claimable, Types, RuleTypes
    <2> QED
      BY <2>1, RowsClosed, TasksClose DEF Asked
  <1>4. CASE DeleteRule(r)
    BY <1>4 DEF DeleteRule, Disturb, NoReopening
  <1>5. CASE Requested(r)
    <2>1. /\ UNCHANGED <<sched, queue>> /\ Closed(r)
          /\ \A s \in Rules \ {r} : run'[s] = run[s]
          /\ \A s \in Rules \ {r} : request'[s] = request[s]
      BY <1>0, <1>5 DEF Requested, BeginRun, locks, Closing, Asked
    <2> QED
      BY <2>1, RowsClosed, TasksClose DEF Asked
  <1>6. ASSUME NEW t \in Terms, CreateRule(r, t) PROVE Closing'
    BY <1>6, RowsClosed, TasksClose DEF CreateRule, locks, tasks, Asked
  <1>7. ASSUME NEW t \in Terms, NEW on \in BOOLEAN, UpdateRule(r, t, on) PROVE Closing'
    BY <1>7 DEF UpdateRule, Disturb, NoReopening
  <1> QED BY <1>1, <1>2, <1>3, <1>4, <1>5, <1>6, <1>7

\* A revocation is only of a rule nobody can claim any more.
LEMMA ClosingNext ==
    ASSUME NoReopening, Types, Closing, [Next]_vars
    PROVE  Closing'
  <1>0. \A r \in Rules : Closed(r) => Closed(r)'
    BY ClosedStays
  <1>1. ASSUME NEW u \in Users, LookupReads(u) \/ LookupStores(u) \/ \E r \in Rules : ManualEdit(u, r)
        PROVE Closing'
    BY <1>0, <1>1, RowsClosed, TasksClose DEF LookupReads, LookupStores, ManualEdit, Asked, locks, tasks
  <1>2. ASSUME NEW u \in Users, NEW r \in Rules, Claim(r, u) PROVE Closing'
    <2>1. Enqueue(u, [kind |-> "claim", rule |-> r]) /\ UNCHANGED tasks /\ LockTypes
      BY <1>2 DEF Claim, Types
    <2>2. [kind |-> "claim", rule |-> r] \in Jobs
      BY DEF Jobs
    <2>3. \A v \in Users : \A k \in 1..Len(queue'[v]) :
              \/ v = u /\ queue'[v][k] = [kind |-> "claim", rule |-> r]
              \/ \E i \in 1..Len(queue[v]) : queue'[v][k] = queue[v][i] /\ queue[v][i].rule \in Rules
      BY <2>1, <2>2, QueueAppended
    <2> QED
      BY <1>0, <2>1, <2>3, RowsClosed, ClosingKept DEF tasks, Asked
  <1>3. CASE Crash
    BY <1>0, <1>3 DEF Crash, Closing, Asked, NoRun, NoSched
  <1>4. CASE Tick \/ UNCHANGED vars
    BY <1>0, <1>4, RowsClosed, TasksClose DEF Tick, vars, locks, tasks, Asked
  <1> QED
    BY <1>0, <1>1, <1>2, <1>3, <1>4, TurnCloses, TimerCloses, RuleCloses DEF Next

\* Nobody refreshes a user outside the lock.
LEMMA NoLookupsNext ==
    ASSUME Calm, NoLookups, [Next]_vars
    PROVE  NoLookups'
  <1>1. ASSUME NEW u \in Users, LookupReads(u) PROVE FALSE
    BY <1>1 DEF LookupReads, Disturb, Calm
  <1>2. ASSUME NEW u \in Users, LookupStores(u) PROVE FALSE
    BY <1>2 DEF LookupStores, NoLookups
  <1>3. CASE Crash
    BY <1>3 DEF Crash, NoLookups
  <1>4. ASSUME UNCHANGED lookup PROVE NoLookups'
    BY <1>4 DEF NoLookups
  <1>5. ASSUME NEW u \in Users,
               Enter(u) \/ Answer(u) \/ Settle(u) \/ \E r \in Rules : Claim(r, u) \/ ManualEdit(u, r)
        PROVE NoLookups'
    BY <1>4, <1>5, Turn DEF Claim, ManualEdit
  <1>6. ASSUME NEW r \in Rules,
               \/ RunNext(r) \/ RunEnd(r) \/ RevokeNow(r) \/ DeleteRule(r) \/ Requested(r)
               \/ \E t \in Terms : CreateRule(r, t) \/ \E on \in BOOLEAN : UpdateRule(r, t, on)
        PROVE NoLookups'
    BY <1>4, <1>6 DEF RunNext, RunEnd, RevokeNow, DeleteRule, Requested, CreateRule, UpdateRule
  <1>7. CASE Timer \/ Tick \/ UNCHANGED vars
    BY <1>4, <1>7 DEF Timer, Schedule, SchedRestore, SchedDue, SchedEnd, SchedRevoke, Tick, vars
  <1> QED
    BY <1>1, <1>2, <1>3, <1>5, <1>6, <1>7 DEF Next

-----------------------------------------------------------------------------
(* The local copy and the account at Sub2API.                              *)

\* A user whose account, memberships and lock holder are left alone.
LEMMA BystanderInStep ==
    ASSUME Types, \A r \in Rules : Closed(r) => Closed(r)', NEW v \in Users, UserInStep(v),
           \A r \in Rules : member'[r][v] = member[r][v],
           local'[v] = local[v], remote'[v] = remote[v], section'[v] = section[v],
           queue[v] # <<>> => queue'[v] # <<>> /\ Head(queue'[v]) = Head(queue[v])
    PROVE  UserInStep(v)'
  <1>1. CASE queue[v] = <<>>
    <2>1. section[v].pc = "wait" /\ section'[v].pc = "wait"
      BY <1>1 DEF Types, LockTypes, Sections
    <2> QED
      BY <2>1 DEF UserInStep, Sent, InStep, AtLock
  <1>2. CASE queue[v] # <<>>
    <2>1. Holder(v)' = Holder(v) /\ Holder(v).rule \in Rules
      BY <1>2, HolderIsJob DEF Holder, Types
    <2>2. AtLock(v, "read")' <=> AtLock(v, "read")
      BY <1>2 DEF AtLock
    <2>3. Sent(v)'
      BY <2>1 DEF UserInStep, Sent
    <2>4. ASSUME NEW r \in Rules PROVE InStep(r, v)'
      BY <2>1, <2>2 DEF UserInStep, InStep
    <2> QED
      BY <2>3, <2>4 DEF UserInStep
  <1> QED BY <1>1, <1>2

\* The job of u goes on without a change at Sub2API: whatever it has stored, it has
\* made nobody managed, and its copy is the old one or the account it has read.
LEMMA ActorInStep ==
    ASSUME Types, \A r \in Rules : Closed(r) => Closed(r)', NEW u \in Users, UserInStep(u),
           \A r \in Rules : member'[r][u] = "managed" => member[r][u] = "managed",
           remote'[u] = remote[u], local'[u] \in {local[u], remote[u]},
           section'[u].pc = "read" =>
               /\ queue'[u] = queue[u]
               /\ Holder(u).kind = "claim" => Claimable(Holder(u).rule),
           Sent(u)'
    PROVE  UserInStep(u)'
  <1> SUFFICES ASSUME NEW r \in Rules PROVE InStep(r, u)'
    BY DEF UserInStep
  <1>1. InStep(r, u)
    BY DEF UserInStep
  <1>2. ASSUME AtLock(u, "read")', Holder(u)' = [kind |-> "claim", rule |-> r] PROVE ~Closed(r)
    BY <1>2 DEF AtLock, Holder, Closed
  <1> QED
    BY <1>1, <1>2 DEF InStep

\* A write of u lands although its answer is an error, or the process crashes.
LEMMA LandedInStep ==
    ASSUME IInv, Types, Closing, \A r \in Rules : Closed(r) => Closed(r)', NEW u \in Users, UserInStep(u),
           section[u].pc = "write", \A r \in Rules : member'[r][u] = member[r][u],
           remote'[u] = Written(u), local'[u] = local[u], section'[u].pc = "wait"
    PROVE  UserInStep(u)'
  <1> DEFINE j == Holder(u).rule
             G == remote[u].groups
             H == remote'[u].groups
  <1>1. queue[u] # <<>> /\ j \in Rules
    BY HolderIsJob DEF Types, LockTypes
  <1>2. Sent(u)' /\ ~AtLock(u, "read")'
    BY DEF Sent, AtLock
  <1>4. Sent(u) /\ InFlight(u)
    BY DEF UserInStep, IInv
  <1>5. H = IF section[u].write \in {"grant", "revoke"} THEN section[u].groups ELSE G
    BY DEF Written
  <1>3. ASSUME NEW r \in Rules PROVE InStep(r, u)'
    <2>1. InStep(r, u)
      BY DEF UserInStep
    <2>2. CASE section[u].write = "grant"
      <3>1. H = G \cup {j} /\ member[j][u] # "managed"
        BY <2>2, <1>4, <1>5 DEF InFlight, Sent
      <3> QED
        BY <1>2, <2>1, <3>1 DEF InStep
    <2>3. CASE section[u].write = "revoke"
      <3>1. H = G \ {j} /\ Holder(u).kind = "revoke"
        BY <2>3, <1>4, <1>5 DEF InFlight, Sent
      <3>2. Closed(j)
        <4>1. 1 \in 1..Len(queue[u]) /\ queue[u][1] = Holder(u)
          BY <1>1 DEF Types, LockTypes, Holder
        <4> QED
          BY <3>1, <4>1 DEF Closing
      <3> QED
        BY <1>1, <1>2, <2>1, <3>1, <3>2 DEF InStep
    <2>4. CASE section[u].write \notin {"grant", "revoke"}
      <3>1. H = G
        BY <2>4, <1>5
      <3> QED
        BY <1>2, <2>1, <3>1 DEF InStep
    <2> QED BY <2>2, <2>3, <2>4
  <1> QED
    BY <1>2, <1>3 DEF UserInStep

\* The lock of u is left, or a call is awaited; other users are bystanders.
LEMMA TurnOthers ==
    ASSUME Types, NEW u \in Users, (\E ok \in BOOLEAN : Release(u, ok)) \/ (\E s : Await(u, s)),
           NEW v \in Users \ {u}
    PROVE  queue'[v] = queue[v] /\ section'[v] = section[v]
  BY DEF Types, LockTypes, Release, Await

LEMMA ReleasedWaits ==
    ASSUME Types, NEW u \in Users, NEW ok, Release(u, ok)
    PROVE  section'[u].pc = "wait" /\ Sent(u)'
  <1>1. section'[u] = Outside
    BY DEF Types, LockTypes, Release
  <1> QED
    BY <1>1 DEF Outside, Sent

\* What a call that is sent leaves in the section of its job.
LEMMA SentSection ==
    ASSUME Types, NEW u \in Users, NEW w, NEW G, NEW to, NEW T, Send(u, w, G, to, T)
    PROVE  /\ section'[u].pc = "write" /\ section'[u].write = w /\ section'[u].mark = T
           /\ queue' = queue /\ Holder(u)' = Holder(u)
  BY DEF Types, LockTypes, Send, Await, Holder

LEMMA ReadSection ==
    ASSUME Types, NEW u \in Users, NEW limit, Read(u, limit)
    PROVE  section'[u].pc = "read" /\ queue' = queue /\ Holder(u)' = Holder(u)
  BY DEF Types, LockTypes, Read, Await, Holder, Outside

\* A revocation without a group to take away, decided on a copy v that lacks a
\* managed group only when Sub2API does.
LEMMA NoRevokeInStep ==
    ASSUME Types, \A s \in Rules : Closed(s) => Closed(s)', NEW u \in Users, UserInStep(u),
           NEW r \in Rules, r = Holder(u).rule, NEW v, ApplyNoRevoke(u, r, v),
           member[r][u] = "managed" /\ r \notin v.groups => r \notin remote[u].groups,
           remote'[u] = remote[u], local'[u] \in {local[u], remote[u]}
    PROVE  UserInStep(u)'
  <1>1. ASSUME NEW m \in {"preexisting", "revoked"}, Become(r, u, m), Release(u, TRUE)
        PROVE  UserInStep(u)'
    <2>1. \A s \in Rules : member'[s][u] = "managed" => member[s][u] = "managed"
      BY <1>1 DEF Become, Types, RowTypes
    <2> QED
      BY <1>1, <2>1, ReleasedWaits, ActorInStep
  <1>2. ASSUME UNCHANGED member, r \notin v.groups,
               Send(u, "missing", v.groups, RestoreTo(r, u), Own(r, u))
        PROVE  UserInStep(u)'
    <2>1. section'[u].pc = "write" /\ section'[u].write = "missing" /\ Holder(u)' = Holder(u)
      BY <1>2, SentSection
    <2>2. Sent(u)'
      BY <1>2, <2>1 DEF Sent
    <2> QED
      BY <1>2, <2>1, <2>2, ActorInStep
  <1>3. ASSUME UNCHANGED member, Release(u, TRUE) PROVE UserInStep(u)'
    BY <1>3, ReleasedWaits, ActorInStep
  <1> QED
    BY <1>1, <1>2, <1>3 DEF ApplyNoRevoke, rows

\* A claim whose condition is met: it is not of a managed group taken back.
LEMMA ClaimInStep ==
    ASSUME Types, \A s \in Rules : Closed(s) => Closed(s)', NEW u \in Users, UserInStep(u),
           NEW r \in Rules, r = Holder(u).rule, AtLock(u, "read"), Holder(u).kind = "claim",
           NEW limit, ApplyClaim(u, r, limit, remote[u]), remote'[u] = remote[u], local'[u] = remote[u]
    PROVE  UserInStep(u)'
  <1>0. Holder(u) = [kind |-> "claim", rule |-> r]
    <2>1. Holder(u) \in Jobs
      BY HolderIsJob DEF AtLock, Types
    <2> QED
      BY <2>1 DEF Jobs
  <1>1. ASSUME UNCHANGED member, Grants(r, remote[u]), NEW G, NEW T, Send(u, "grant", G, limit, T)
        PROVE  UserInStep(u)'
    <2>1. section'[u].pc = "write" /\ section'[u].write = "grant" /\ Holder(u)' = Holder(u)
      BY <1>1, SentSection
    <2>2. member[r][u] # "managed"
      BY <1>0, <1>1 DEF Grants, UserInStep, InStep
    <2>3. Sent(u)'
      BY <1>1, <2>1, <2>2 DEF Sent
    <2> QED
      BY <1>1, <2>1, <2>3, ActorInStep
  <1>2. ASSUME UNCHANGED member, KeepsManaged(r, u, remote[u]), NEW G, NEW T, Send(u, "keep", G, limit, T)
        PROVE  UserInStep(u)'
    <2>1. section'[u].pc = "write" /\ section'[u].write = "keep" /\ Holder(u)' = Holder(u)
      BY <1>2, SentSection
    <2>2. Sent(u)'
      BY <1>2, <2>1 DEF Sent, KeepsManaged
    <2> QED
      BY <1>2, <2>1, <2>2, ActorInStep
  <1>3. ASSUME UNCHANGED member, NEW ok, Release(u, ok) PROVE UserInStep(u)'
    BY <1>3, ReleasedWaits, ActorInStep
  <1>4. ASSUME Become(r, u, "preexisting"), Release(u, TRUE) PROVE UserInStep(u)'
    <2>1. \A s \in Rules : member'[s][u] = "managed" => member[s][u] = "managed"
      BY <1>4 DEF Become, Types, RowTypes
    <2> QED
      BY <1>4, <2>1, ReleasedWaits, ActorInStep
  <1> QED
    BY <1>1, <1>2, <1>3, <1>4 DEF ApplyClaim, rows

\* A job that goes on keeps its user in step.
LEMMA TurnInStep ==
    ASSUME IInv, Types, Closing, \A s \in Rules : Closed(s) => Closed(s)',
           NEW u \in Users, UserInStep(u), Enter(u) \/ Answer(u) \/ Settle(u)
    PROVE  UserInStep(u)'
  <1> DEFINE r == Holder(u).rule
             w == section[u].write
  <1>0. queue[u] # <<>> /\ r \in Rules /\ Holder(u) \in Jobs
    BY Turn, HolderIsJob DEF Types
  <1>1. ASSUME NEW limit, Read(u, limit), Holder(u).kind = "claim" => Claimable(r),
               UNCHANGED <<member, remote, local>>
        PROVE UserInStep(u)'
    <2>1. section'[u].pc = "read" /\ queue' = queue
      BY <1>1, ReadSection
    <2>2. Sent(u)'
      BY <2>1 DEF Sent
    <2> QED
      BY <1>1, <2>1, <2>2, ActorInStep
  <1>2. ASSUME NEW ok, Release(u, ok), UNCHANGED <<member, remote>>, local'[u] \in {local[u], remote[u]}
        PROVE UserInStep(u)'
    BY <1>2, ReleasedWaits, ActorInStep
  <1>3. ASSUME Answer(u) PROVE local'[u] = remote[u] /\ remote' = remote
    BY <1>3 DEF Answer, AnswerClaim, AnswerRevoke, AnswerRestore, Types, CopyTypes
  <1>4. ASSUME Enter(u) PROVE UNCHANGED <<local, remote>>
    BY <1>4 DEF Enter, EnterClaim, EnterRevoke, EnterRestore, copies
  <1>5. CASE EnterClaim(u)
    <2>1. UNCHANGED <<member, remote, local>>
      BY <1>5 DEF EnterClaim, rows, copies
    <2>2. \/ Claimable(r) /\ \E limit : Read(u, limit)
          \/ Release(u, FALSE)
      BY <1>5 DEF EnterClaim
    <2> QED
      BY <1>1, <1>2, <2>1, <2>2
  <1>6. CASE EnterRestore(u)
    <2>1. UNCHANGED <<member, remote, local>> /\ Holder(u).kind # "claim"
      BY <1>6 DEF EnterRestore, rows, copies
    <2>2. (\E limit : Read(u, limit)) \/ Release(u, TRUE)
      BY <1>6 DEF EnterRestore
    <2> QED
      BY <1>1, <1>2, <2>1, <2>2
  <1>7. CASE EnterRevoke(u)
    <2>1. UNCHANGED <<remote, local>> /\ Holder(u).kind # "claim"
      BY <1>7 DEF EnterRevoke, copies
    <2>2. CASE Read(u, NoLimit) /\ UNCHANGED rows
      BY <1>1, <2>1, <2>2 DEF rows
    <2>3. CASE ApplyNoRevoke(u, r, local[u])
      <3>1. InStep(r, u)
        BY <1>0 DEF UserInStep
      <3>2. member[r][u] = "managed" /\ r \notin local[u].groups => r \notin remote[u].groups
        BY <3>1 DEF InStep
      <3> QED
        BY <1>0, <2>1, <2>3, <3>2, NoRevokeInStep
    <2> QED BY <1>7, <2>2, <2>3 DEF EnterRevoke
  <1>8. CASE AnswerClaim(u)
    <2>1. local'[u] = remote[u] /\ remote' = remote
      BY <1>3, <1>8 DEF Answer
    <2>2. CASE ApplyClaim(u, r, section[u].limit, remote[u])
      BY <1>0, <1>8, <2>1, <2>2, ClaimInStep DEF AnswerClaim
    <2>3. CASE Release(u, TRUE) /\ UNCHANGED rows
      BY <1>2, <2>1, <2>3 DEF rows
    <2> QED BY <1>8, <2>2, <2>3 DEF AnswerClaim
  <1>9. CASE AnswerRevoke(u)
    <2>1. local'[u] = remote[u] /\ remote' = remote /\ Holder(u).kind = "revoke"
      BY <1>3, <1>9 DEF Answer, AnswerRevoke
    <2>2. CASE ApplyNoRevoke(u, r, remote[u])
      BY <1>0, <2>1, <2>2, NoRevokeInStep
    <2>3. ASSUME UNCHANGED member, NEW G, Send(u, "revoke", G, RestoreTo(r, u), Own(r, u))
          PROVE  UserInStep(u)'
      <3>1. section'[u].pc = "write" /\ section'[u].write = "revoke" /\ Holder(u)' = Holder(u)
        BY <2>3, SentSection
      <3>2. Sent(u)'
        BY <2>1, <3>1 DEF Sent
      <3> QED
        BY <2>1, <2>3, <3>1, <3>2, ActorInStep
    <2> QED BY <1>9, <2>2, <2>3 DEF AnswerRevoke, ApplyRevoke
  <1>10. CASE AnswerRestore(u)
    <2>1. local'[u] = remote[u] /\ remote' = remote
      BY <1>3, <1>10 DEF Answer
    <2>2. ASSUME UNCHANGED member, NEW G, NEW to, NEW T, Send(u, "restore", G, to, T)
          PROVE  UserInStep(u)'
      <3>1. section'[u].pc = "write" /\ section'[u].write = "restore"
        BY <2>2, SentSection
      <3>2. Sent(u)'
        BY <3>1 DEF Sent
      <3> QED
        BY <2>1, <2>2, <3>1, <3>2, ActorInStep
    <2>3. ASSUME UNCHANGED member, Release(u, TRUE) PROVE UserInStep(u)'
      BY <1>2, <2>1, <2>3
    <2> QED BY <1>10, <2>2, <2>3 DEF AnswerRestore, rows
  <1>11. CASE ReadFails(u)
    BY <1>2, <1>11 DEF ReadFails, copies
  <1>12. CASE WriteFails(u)
    <2>1. Release(u, FALSE) /\ UNCHANGED <<member, local>> /\ section[u].pc = "write"
      BY <1>12 DEF WriteFails, AtLock
    <2>2. CASE Land(u)
      <3>1. remote'[u] = Written(u)
        BY <2>2 DEF Land, Types, CopyTypes
      <3>2. section'[u].pc = "wait"
        BY <2>1, ReleasedWaits
      <3> QED
        BY <2>1, <3>1, <3>2, LandedInStep
    <2>3. CASE UNCHANGED remote
      BY <1>2, <2>1, <2>3
    <2> QED BY <1>12, <2>2, <2>3 DEF WriteFails
  <1>13. CASE WriteSucceeds(u)
    <2> DEFINE G == remote[u].groups
               H == remote'[u].groups
    <2>1. remote'[u] = Written(u) /\ local'[u] = Written(u) /\ section[u].pc = "write"
      BY <1>13 DEF WriteSucceeds, Land, AtLock, Types, CopyTypes
    <2>2. Sent(u)' /\ section'[u].pc = "wait"
      BY <1>13, ReleasedWaits DEF WriteSucceeds
    <2>3. H = IF w \in {"grant", "revoke"} THEN section[u].groups ELSE G
      BY <2>1 DEF Written
    <2>4. InFlight(u) /\ Sent(u)
      BY DEF IInv, UserInStep
    <2>5. w \in {"grant", "keep", "revoke", "missing", "restore"}
      BY <2>1, <2>4 DEF InFlight
    <2>6. \/ UNCHANGED member
          \/ w # "restore" /\ Become(r, u, AfterWrite[w])
      BY <1>13 DEF WriteSucceeds
    <2>7. ASSUME NEW s \in Rules, member'[s][u] = "managed", s \notin H
          PROVE  Closed(s)
      <3>1. InStep(s, u)
        BY DEF UserInStep
      <3>2. CASE s # r
        <4>1. member[s][u] = "managed"
          BY <1>0, <2>6, <2>7, <3>2 DEF Become, Types, RowTypes
        <4>2. s \notin G
          BY <2>1, <2>3, <2>4, <2>7, <3>2 DEF InFlight
        <4> QED
          BY <3>1, <4>1, <4>2 DEF InStep
      <3>3. CASE s = r /\ w = "revoke"
        <4>1. 1 \in 1..Len(queue[u]) /\ queue[u][1] = Holder(u) /\ Holder(u).kind = "revoke"
          BY <1>0, <2>1, <2>4, <3>3 DEF Types, LockTypes, Holder, Sent
        <4> QED
          BY <3>3, <4>1 DEF Closing
      <3>4. CASE s = r /\ w \in {"missing", "restore"}
        <4>1. member[r][u] = "managed"
          <5>1. CASE UNCHANGED member
            BY <2>7, <3>4, <5>1
          <5>2. CASE w # "restore" /\ Become(r, u, AfterWrite[w])
            <6>1. AfterWrite[w] = "revoked"
              BY <3>4, <5>2 DEF AfterWrite
            <6>2. member'[r][u] = "revoked"
              BY <1>0, <5>2, <6>1 DEF Become, Types, RowTypes
            <6> QED
              BY <2>7, <3>4, <6>2
          <5> QED BY <2>6, <5>1, <5>2
        <4> QED
          BY <2>3, <2>7, <3>1, <3>4, <4>1 DEF InStep
      <3>5. CASE s = r /\ w \in {"grant", "keep"}
        BY <2>1, <2>3, <2>4, <2>7, <3>5 DEF InFlight, Sent
      <3> QED BY <2>5, <3>2, <3>3, <3>4, <3>5
    <2>8. ~AtLock(u, "read")'
      BY <2>2 DEF AtLock
    <2>9. \A s \in Rules : InStep(s, u)'
      BY <2>1, <2>7, <2>8 DEF InStep
    <2> QED
      BY <2>2, <2>9 DEF UserInStep
  <1> QED
    BY <1>5, <1>6, <1>7, <1>8, <1>9, <1>10, <1>11, <1>12, <1>13 DEF Enter, Answer, Settle

\* Nothing else changes what a job of u reads, but an edit at Sub2API.
LEMMA TurnOfOther ==
    ASSUME Types, NEW u \in Users, Enter(u) \/ Answer(u) \/ Settle(u), NEW v \in Users \ {u}
    PROVE  /\ \A r \in Rules : member'[r][v] = member[r][v]
           /\ local'[v] = local[v] /\ remote'[v] = remote[v]
           /\ queue'[v] = queue[v] /\ section'[v] = section[v]
  <1>1. queue'[v] = queue[v] /\ section'[v] = section[v]
    BY Turn, TurnOthers
  <1>2. ASSUME NEW r \in Rules, NEW m, Become(r, u, m) PROVE \A s \in Rules : member'[s][v] = member[s][v]
    BY <1>2 DEF Become, Types, RowTypes
  <1>3. Holder(u).rule \in Rules
    BY Turn, HolderIsJob DEF Types
  <1>4. ASSUME NEW a, ApplyNoRevoke(u, Holder(u).rule, a) PROVE \A s \in Rules : member'[s][v] = member[s][v]
    BY <1>2, <1>3, <1>4 DEF ApplyNoRevoke, rows
  <1>5. CASE Enter(u)
    <2>1. UNCHANGED <<local, remote>>
      BY <1>5 DEF Enter, EnterClaim, EnterRevoke, EnterRestore, copies
    <2>2. \A s \in Rules : member'[s][v] = member[s][v]
      BY <1>4, <1>5 DEF Enter, EnterClaim, EnterRevoke, EnterRestore, rows
    <2> QED BY <1>1, <2>1, <2>2
  <1>6. CASE Answer(u)
    <2>1. remote' = remote /\ local' = [local EXCEPT ![u] = remote[u]]
      BY <1>6 DEF Answer, AnswerClaim, AnswerRevoke, AnswerRestore
    <2>2. ASSUME NEW limit, NEW a, ApplyClaim(u, Holder(u).rule, limit, a)
          PROVE \A s \in Rules : member'[s][v] = member[s][v]
      BY <1>2, <1>3, <2>2 DEF ApplyClaim, rows
    <2>3. \A s \in Rules : member'[s][v] = member[s][v]
      BY <1>4, <1>6, <2>2 DEF Answer, AnswerClaim, AnswerRevoke, AnswerRestore, ApplyRevoke, rows
    <2> QED BY <1>1, <2>1, <2>3 DEF Types, CopyTypes
  <1>7. CASE Settle(u)
    <2>1. remote'[v] = remote[v] /\ local'[v] = local[v]
      BY <1>7 DEF Settle, ReadFails, WriteSucceeds, WriteFails, Land, copies, Types, CopyTypes
    <2>2. \A s \in Rules : member'[s][v] = member[s][v]
      BY <1>2, <1>3, <1>7 DEF Settle, ReadFails, WriteSucceeds, WriteFails
    <2> QED BY <1>1, <2>1, <2>2
  <1> QED BY <1>5, <1>6, <1>7

\* The steps of runs, the timer and administrators, and a new claim.
LEMMA AsideInStep ==
    ASSUME Types, NoLookups, [Next]_vars,
           ~Crash, \A u \in Users : ~(Enter(u) \/ Answer(u) \/ Settle(u)),
           \A u \in Users, r \in Rules : ~ManualEdit(u, r)
    PROVE  /\ UNCHANGED <<member, local, remote, section>>
           /\ \A v \in Users : queue[v] # <<>> => queue'[v] # <<>> /\ Head(queue'[v]) = Head(queue[v])
  <1>0. \A v \in Users : queue[v] \in Seq(Jobs)
    BY DEF Types, LockTypes
  <1>1. ASSUME NEW u, NEW j, Enqueue(u, j)
        PROVE  \A v \in Users : queue[v] # <<>> => queue'[v] # <<>> /\ Head(queue'[v]) = Head(queue[v])
    BY <1>0, <1>1 DEF Enqueue, Types, LockTypes
  <1>2. ASSUME NEW u \in Users, LookupStores(u) PROVE FALSE
    BY <1>2 DEF LookupStores, NoLookups
  <1>3. ASSUME NEW u \in Users, LookupReads(u) \/ \E r \in Rules : Claim(r, u)
        PROVE  /\ UNCHANGED <<member, local, remote, section>>
               /\ \A v \in Users : queue[v] # <<>> => queue'[v] # <<>> /\ Head(queue'[v]) = Head(queue[v])
    BY <1>1, <1>3 DEF LookupReads, Claim, rows, copies, locks
  <1>4. ASSUME NEW r \in Rules,
               \/ RunNext(r) \/ RunEnd(r) \/ RevokeNow(r) \/ DeleteRule(r) \/ Requested(r)
               \/ \E t \in Terms : CreateRule(r, t) \/ \E on \in BOOLEAN : UpdateRule(r, t, on)
        PROVE  /\ UNCHANGED <<member, local, remote, section>>
               /\ \A v \in Users : queue[v] # <<>> => queue'[v] # <<>> /\ Head(queue'[v]) = Head(queue[v])
    BY <1>1, <1>4 DEF RunNext, RunEnd, RevokeNow, DeleteRule, Requested, CreateRule, UpdateRule,
       rows, copies, locks
  <1>5. CASE Timer \/ Tick \/ UNCHANGED vars
    BY <1>1, <1>5 DEF Timer, Schedule, SchedRestore, SchedDue, SchedEnd, SchedRevoke, Tick, vars,
       rows, copies, locks
  <1> QED
    BY <1>2, <1>3, <1>4, <1>5 DEF Next

\* A disturbance is remembered.
LEMMA UsedGrows == [Next]_vars => used \subseteq used'
  <1> SUFFICES ASSUME [Next]_vars PROVE used \subseteq used'
    OBVIOUS
  <1>1. ASSUME NEW u \in Users,
               \/ Enter(u) \/ Answer(u) \/ Settle(u) \/ LookupReads(u) \/ LookupStores(u)
               \/ \E r \in Rules : Claim(r, u) \/ ManualEdit(u, r)
        PROVE used \subseteq used'
    BY <1>1, Turn DEF LookupReads, LookupStores, Claim, ManualEdit, Disturb
  <1>2. ASSUME NEW r \in Rules,
               \/ RunNext(r) \/ RunEnd(r) \/ RevokeNow(r) \/ DeleteRule(r) \/ Requested(r)
               \/ \E t \in Terms : CreateRule(r, t) \/ \E on \in BOOLEAN : UpdateRule(r, t, on)
        PROVE used \subseteq used'
    BY <1>2 DEF RunNext, RunEnd, RevokeNow, DeleteRule, Requested, CreateRule, UpdateRule, Disturb
  <1>3. CASE Timer \/ Crash \/ Tick \/ UNCHANGED vars
    BY <1>3 DEF Timer, Schedule, SchedRestore, SchedDue, SchedEnd, SchedRevoke, Crash, Disturb, Tick, vars
  <1> QED
    BY <1>1, <1>2, <1>3 DEF Next

\* The copies stay in step, or an administrator of Sub2API has edited a user.
LEMMA InStepNext ==
    ASSUME Calm, IInv, Types, GoneInv, [Next]_vars
    PROVE  Edited' \/ \A v \in Users : UserInStep(v)'
  <1> SUFFICES ASSUME ~Edited', NEW v \in Users PROVE UserInStep(v)'
    OBVIOUS
  <1>0. \A r \in Rules : Closed(r) => Closed(r)'
    BY ClosedStays DEF Calm
  <1>1. UserInStep(v) /\ Closing /\ NoLookups
    BY UsedGrows DEF GoneInv, Edited
  <1>2. ASSUME NEW u \in Users, Enter(u) \/ Answer(u) \/ Settle(u) PROVE UserInStep(v)'
    <2>1. CASE v = u
      BY <1>0, <1>1, <1>2, <2>1, TurnInStep
    <2>2. CASE v # u
      <3>1. v \in Users \ {u}
        BY <2>2
      <3>2. /\ \A r \in Rules : member'[r][v] = member[r][v]
            /\ local'[v] = local[v] /\ remote'[v] = remote[v]
            /\ queue'[v] = queue[v] /\ section'[v] = section[v]
        BY <1>2, <3>1, TurnOfOther
      <3> QED
        BY <1>0, <1>1, <3>2, BystanderInStep
    <2> QED BY <2>1, <2>2
  <1>3. ASSUME NEW u \in Users, NEW r \in Rules, ManualEdit(u, r) PROVE FALSE
    BY <1>3 DEF ManualEdit, Disturb, Edited
  <1>4. CASE Crash
    <2>1. PICK L \in SUBSET {u \in Users : section[u].pc = "write"} :
             remote' = [u \in Users |-> IF u \in L THEN Written(u) ELSE remote[u]]
      BY <1>4 DEF Crash
    <2>2. UNCHANGED <<member, local>> /\ section'[v].pc = "wait"
      BY <1>4 DEF Crash, rows, Outside
    <2>3. CASE v \in L
      BY <1>0, <1>1, <2>1, <2>2, <2>3, LandedInStep
    <2>4. CASE v \notin L
      <3>1. Sent(v)'
        BY <2>2 DEF Sent
      <3> QED
        BY <1>0, <1>1, <2>1, <2>2, <2>4, <3>1, ActorInStep
    <2> QED BY <2>3, <2>4
  <1>5. CASE /\ ~Crash
             /\ \A u \in Users : ~(Enter(u) \/ Answer(u) \/ Settle(u))
             /\ \A u \in Users, r \in Rules : ~ManualEdit(u, r)
    <2>1. /\ UNCHANGED <<member, local, remote, section>>
          /\ queue[v] # <<>> => queue'[v] # <<>> /\ Head(queue'[v]) = Head(queue[v])
      BY <1>1, <1>5, AsideInStep
    <2> QED
      BY <1>0, <1>1, <2>1, BystanderInStep
  <1> QED BY <1>2, <1>3, <1>4, <1>5

LEMMA GoneInit == Init => GoneInv
  <1> SUFFICES ASSUME Init PROVE GoneInv
    OBVIOUS
  <1>1. Closing
    BY DEF Init, Closing, Asked, NoRun, NoSched
  <1>2. NoLookups
    BY DEF Init, NoLookups
  <1>3. \A u \in Users : UserInStep(u)
    BY DEF Init, UserInStep, Sent, InStep, AtLock, Outside
  <1> QED
    BY <1>1, <1>2, <1>3 DEF GoneInv

\* Whom a step writes off.
LEMMA WritesOffGone ==
    ASSUME IInv, Types, GoneInv, [Next]_vars, NEW r \in Rules, NEW u \in Users,
           member[r][u] = "managed", member'[r][u] = "revoked", ~Edited
    PROVE  r \notin remote'[u].groups
  <1>0. InStep(r, u) /\ Sent(u) /\ InFlight(u)
    BY DEF GoneInv, UserInStep, IInv
  <1>1. ASSUME UNCHANGED member PROVE FALSE
    BY <1>1
  <1>2. ASSUME NEW v \in Users, Enter(v) \/ Answer(v) \/ Settle(v) PROVE r \notin remote'[u].groups
    <2>1. v = u
      BY <1>2, TurnOfOther
    <2>2. Holder(u).rule \in Rules
      BY <1>2, <2>1, Turn, HolderIsJob DEF Types
    <2>3. ASSUME NEW s \in Rules, NEW m, Become(s, u, m) PROVE s = r /\ m = "revoked"
      BY <2>3 DEF Become, Types, RowTypes
    <2>4. ASSUME NEW a, ApplyNoRevoke(u, Holder(u).rule, a) PROVE r \notin a.groups
      BY <1>1, <2>2, <2>3, <2>4 DEF ApplyNoRevoke, rows
    <2>5. CASE Enter(u)
      <3>1. remote' = remote
        BY <2>5 DEF Enter, EnterClaim, EnterRevoke, EnterRestore, copies
      <3>2. r \notin local[u].groups
        BY <1>1, <2>4, <2>5 DEF Enter, EnterClaim, EnterRevoke, EnterRestore, rows
      <3> QED BY <1>0, <3>1, <3>2 DEF InStep
    <2>6. CASE Answer(u)
      <3>1. remote' = remote
        BY <2>6 DEF Answer, AnswerClaim, AnswerRevoke, AnswerRestore
      <3>2. ASSUME NEW limit, ApplyClaim(u, Holder(u).rule, limit, remote[u]) PROVE FALSE
        <4>1. UNCHANGED member \/ Become(Holder(u).rule, u, "preexisting")
          BY <3>2 DEF ApplyClaim, rows
        <4> QED BY <1>1, <2>2, <2>3, <4>1
      <3>3. r \notin remote[u].groups
        BY <1>1, <2>4, <2>6, <3>2 DEF Answer, AnswerClaim, AnswerRevoke, AnswerRestore, ApplyRevoke, rows
      <3> QED BY <3>1, <3>3
    <2>7. CASE Settle(u)
      <3>1. WriteSucceeds(u)
        BY <1>1, <2>7 DEF Settle, ReadFails, WriteFails
      <3> DEFINE w == section[u].write
      <3>2. section[u].pc = "write" /\ remote'[u] = Written(u) /\ Become(Holder(u).rule, u, AfterWrite[w])
        BY <1>1, <3>1 DEF WriteSucceeds, Land, AtLock, Types, CopyTypes
      <3>3. Holder(u).rule = r /\ AfterWrite[w] = "revoked"
        BY <2>2, <2>3, <3>2
      <3>4. w \in {"grant", "keep", "revoke", "missing"}
        BY <1>0, <1>1, <3>1, <3>2 DEF InFlight, WriteSucceeds
      <3>5. w \in {"revoke", "missing"}
        BY <3>3, <3>4 DEF AfterWrite
      <3>6. remote'[u].groups = IF w \in {"grant", "revoke"} THEN section[u].groups ELSE remote[u].groups
        BY <3>2 DEF Written
      <3> QED
        BY <1>0, <3>2, <3>3, <3>5, <3>6 DEF InFlight, Sent
    <2> QED BY <1>2, <2>1, <2>5, <2>6, <2>7
  <1>3. CASE \A v \in Users : ~(Enter(v) \/ Answer(v) \/ Settle(v))
    <2>1. CASE Crash \/ \E v \in Users, s \in Rules : ManualEdit(v, s)
      BY <1>1, <2>1 DEF Crash, ManualEdit, rows
    <2>2. CASE ~Crash /\ \A v \in Users, s \in Rules : ~ManualEdit(v, s)
      BY <1>1, <1>3, <2>2, AsideInStep DEF GoneInv
    <2> QED BY <2>1, <2>2
  <1> QED BY <1>2, <1>3

\* A membership is written off only when the group has really gone, if nobody edits
\* a user at Sub2API: for any rules and users, whatever calls fail and should the
\* process crash, as long as no handler refreshes a user outside the lock and no rule
\* is updated or deleted.
THEOREM WrittenOffIsGone ==
    ASSUME FiniteRules, Calm
    PROVE  Spec => RevokedMeansGone
  <1>1. Init => IInv /\ Types /\ GoneInv
    BY InvInit, TypesInit, GoneInit
  <1>2. (IInv /\ Types /\ GoneInv) /\ [Next]_vars => (IInv /\ Types /\ GoneInv)'
    <2> SUFFICES ASSUME IInv, Types, GoneInv, [Next]_vars PROVE (IInv /\ Types /\ GoneInv)'
      OBVIOUS
    <2>1. Closing' /\ NoLookups' /\ (Edited' \/ \A v \in Users : UserInStep(v)')
      BY ClosingNext, NoLookupsNext, InStepNext DEF GoneInv, Calm
    <2>2. GoneInv'
      BY <2>1 DEF GoneInv
    <2> QED BY <2>2, InvNext, TypesNext
  <1>3. (IInv /\ Types /\ GoneInv) /\ [Next]_vars =>
            [\A r \in Rules, u \in Users :
                member[r][u] = "managed" /\ member'[r][u] = "revoked" =>
                    r \notin remote'[u].groups \/ "edit" \in used]_vars
    BY WritesOffGone DEF Edited
  <1> QED BY <1>1, <1>2, <1>3, PTL DEF Spec, RevokedMeansGone

-----------------------------------------------------------------------------
(* A restored limit.  An upsert that reports the row it has written lets a *)
(* job mark the override of its own rule and user only, and one that gives *)
(* a limit back has found it open under the lock.                          *)

Marking(u) ==
    LET j == Holder(u)
        s == section[u]
    IN  /\ s.pc = "read" /\ j.kind = "restore" => override[j.rule][u].status # "restored"
        /\ s.pc = "write" =>
              /\ s.mark \subseteq {<<j.rule, u>>}
              /\ s.write \in {"grant", "keep"} => j.kind = "claim"
              /\ j.kind # "claim" /\ s.mark # {} => override[j.rule][u].status # "restored"

MarkInv == \A u \in Users : Marking(u)

\* The status of a row after each of the writes to the table.
LEMMA MarkedStatus ==
    ASSUME NEW rws \in OverrideTable, NEW T, NEW st, NEW r \in Rules, NEW u \in Users
    PROVE  /\ <<r, u>> \notin T => Marked(rws, T, st)[r][u].status = rws[r][u].status
           /\ Marked(rws, T, st)[r][u].status \in {rws[r][u].status, st}
  <1>1. rws[r][u] \in Overrides
    BY DEF OverrideTable
  <1>2. Marked(rws, T, st)[r][u] =
            IF <<r, u>> \in T /\ rws[r][u].id # 0 THEN [rws[r][u] EXCEPT !.status = st] ELSE rws[r][u]
    BY DEF Marked
  <1> QED
    BY <1>1, <1>2 DEF Overrides

LEMMA CarriedStatus ==
    ASSUME override \in OverrideTable, NEW r, NEW u, NEW s \in Rules, NEW v \in Users
    PROVE  Carried(r, u)[s][v].status = override[s][v].status
  <1> DEFINE n == Newest(Others(r, u), u)
             b == Baseline(r, u)
  <1>1. override[s] \in [Users -> Overrides] /\ override[s][v] \in Overrides
    BY DEF OverrideTable
  <1> HIDE DEF n, b
  <1>2. [override EXCEPT ![n][u].original = b][s][v].status = override[s][v].status
    <2>1. [override EXCEPT ![n][u].original = b][s][v] \in
              {override[s][v], [override[s][v] EXCEPT !.original = b]}
      BY <1>1 DEF OverrideTable
    <2> QED
      BY <1>1, <2>1 DEF Overrides
  <1> QED
    BY <1>2 DEF Carried, n, b

LEMMA PreparedOther ==
    ASSUME override \in OverrideTable, NEW r, NEW u, NEW limit, NEW current, NEW s \in Rules, NEW v \in Users,
           <<s, v>> # <<r, u>>
    PROVE  Prepared(r, u, limit, current)[s][v] = override[s][v]
  BY DEF Prepared, OverrideTable

LEMMA OwnTargets ==
    ASSUME ReturnsRowId, NEW r, NEW u, NEW limit, NEW T \in Targets(r, u, limit)
    PROVE  T \subseteq {<<r, u>>}
  BY DEF Targets

\* What a job of u does to the status of a row: to that of its own rule and user,
\* and it opens a row that is restored only when it is a claim.
StatusStep(u, s, v) ==
    \/ override'[s][v].status = override[s][v].status
    \/ /\ v = u /\ s = Holder(u).rule
       /\ \/ Holder(u).kind = "claim"
          \/ override'[s][v].status = "restored"
          \/ override[s][v].status # "restored"

LEMMA StatusTurn ==
    ASSUME ReturnsRowId, FiniteRules, IInv, Types, MarkInv, NEW u \in Users,
           Enter(u) \/ Answer(u) \/ Settle(u), NEW s \in Rules, NEW v \in Users
    PROVE  StatusStep(u, s, v)
  <1> DEFINE r == Holder(u).rule
  <1>0. queue[u] # <<>> /\ r \in Rules /\ override \in OverrideTable /\ remote[u] \in Accounts
    BY Turn, HolderIsJob DEF Types, RowTypes, CopyTypes
  <1>1. ASSUME override' = override PROVE StatusStep(u, s, v)
    BY <1>1 DEF StatusStep
  <1>2. ASSUME override' = Carried(r, u) PROVE StatusStep(u, s, v)
    BY <1>0, <1>2, CarriedStatus DEF StatusStep
  <1>3. ASSUME NEW a, ApplyNoRevoke(u, r, a) PROVE StatusStep(u, s, v)
    BY <1>1, <1>2, <1>3 DEF ApplyNoRevoke, rows
  <1>4. CASE Enter(u)
    BY <1>1, <1>3, <1>4 DEF Enter, EnterClaim, EnterRevoke, EnterRestore, rows
  <1>5. CASE AnswerClaim(u)
    <2>1. Holder(u).kind = "claim" /\ section[u].limit \in Limits
      BY <1>5 DEF AnswerClaim, Types, LockTypes, Sections
    <2> DEFINE limit == section[u].limit
               P == Prepared(r, u, limit, remote[u].limit)
    <2>2. P \in OverrideTable
      BY <1>0, <2>1, PreparedTyped DEF Types, Accounts
    <2>3. \/ override' \in {override, P}
          \/ \E T \in Targets(r, u, limit) : override' = Marked(P, T, "active")
      BY <1>5 DEF AnswerClaim, ApplyClaim, rows
    <2>4. CASE <<s, v>> = <<r, u>>
      BY <2>1, <2>4 DEF StatusStep
    <2>5. CASE <<s, v>> # <<r, u>>
      <3>1. P[s][v] = override[s][v]
        BY <1>0, <2>5, PreparedOther
      <3> HIDE DEF P
      <3>2. ASSUME NEW T \in Targets(r, u, limit) PROVE Marked(P, T, "active")[s][v].status = override[s][v].status
        <4>1. <<s, v>> \notin T
          BY <2>5, <3>2, OwnTargets
        <4>2. Marked(P, T, "active")[s][v].status = P[s][v].status
          BY <2>2, <4>1, MarkedStatus
        <4> QED BY <3>1, <4>2
      <3> QED
        BY <2>3, <3>1, <3>2 DEF StatusStep
    <2> QED BY <2>4, <2>5
  <1>6. CASE AnswerRevoke(u)
    BY <1>2, <1>3, <1>6 DEF AnswerRevoke, ApplyRevoke
  <1>7. CASE AnswerRestore(u)
    <2>1. override' \in {override, Carried(r, u), Marked(Carried(r, u), {<<r, u>>}, "restored")}
      BY <1>7 DEF AnswerRestore, rows
    <2>2. CASE override' = Marked(Carried(r, u), {<<r, u>>}, "restored")
      <3>1. Carried(r, u) \in OverrideTable
        BY <1>0, StackWrites DEF Types
      <3>2. Carried(r, u)[s][v].status = override[s][v].status
        BY <1>0, CarriedStatus
      <3> DEFINE C == Carried(r, u)
                 D == Marked(C, {<<r, u>>}, "restored")
      <3>4. <<s, v>> \notin {<<r, u>>} => D[s][v].status = C[s][v].status
        <4>1. \A T : <<s, v>> \notin T => Marked(C, T, "restored")[s][v].status = C[s][v].status
          <5> HIDE DEF C
          <5>1. C \in OverrideTable
            BY <3>1 DEF C
          <5> QED BY <5>1, MarkedStatus
        <4> QED BY <4>1
      <3>5. D[s][v].status \in {C[s][v].status, "restored"}
        <4> HIDE DEF C
        <4> QED BY <3>1, MarkedStatus DEF C
      <3> HIDE DEF C, D
      <3>6. override' = D /\ C[s][v].status = override[s][v].status
        BY <2>2, <3>2 DEF C, D
      <3>3. \/ <<s, v>> # <<r, u>> /\ override'[s][v].status = override[s][v].status
            \/ override'[s][v].status = override[s][v].status
            \/ <<s, v>> = <<r, u>> /\ override'[s][v].status = "restored"
        BY <3>4, <3>5, <3>6
      <3> QED
        BY <3>3 DEF StatusStep
    <2> QED BY <1>1, <1>2, <2>1, <2>2
  <1>8. Marking(u)
    BY DEF MarkInv
  <1>9. CASE ReadFails(u)
    <2>1. section[u].pc = "read" /\ override' \in {override, Marked(override, {<<r, u>>}, "failed")}
      BY <1>9 DEF ReadFails, AtLock
    <2>2. override' # override => Holder(u).kind = "restore"
      BY <1>9 DEF ReadFails
    <2>3. <<s, v>> # <<r, u>> => override'[s][v].status = override[s][v].status
      <3>1. <<s, v>> \notin {<<r, u>>} =>
               Marked(override, {<<r, u>>}, "failed")[s][v].status = override[s][v].status
        <4>1. \A T : <<s, v>> \notin T =>
                 Marked(override, T, "failed")[s][v].status = override[s][v].status
          BY <1>0, MarkedStatus
        <4> QED BY <4>1
      <3> QED BY <2>1, <3>1
    <2> QED
      BY <1>8, <2>1, <2>2, <2>3 DEF StatusStep, Marking
  <1>10. CASE WriteSucceeds(u) \/ WriteFails(u)
    <2> DEFINE T == section[u].mark
               w == section[u].write
    <2>1. /\ section[u].pc = "write" /\ T \subseteq {<<r, u>>}
          /\ w \in {"grant", "keep"} => Holder(u).kind = "claim"
          /\ Holder(u).kind # "claim" /\ T # {} => override[r][u].status # "restored"
      BY <1>8, <1>10 DEF Marking, WriteSucceeds, WriteFails, AtLock
    <2>2. \/ override' = Marked(override, T, "failed")
          \/ override' = Marked(override, T, "active") /\ w \in {"grant", "keep"}
          \/ override' = Marked(override, T, "restored")
      BY <1>10 DEF WriteSucceeds, WriteFails
    <2>3. <<s, v>> \notin T => override'[s][v].status = override[s][v].status
      BY <1>0, <2>2, MarkedStatus
    <2> HIDE DEF T
    <2>4. CASE <<s, v>> \in T
      <3>1. v = u /\ s = r /\ T # {}
        BY <2>1, <2>4
      <3> QED
        BY <2>1, <3>1 DEF StatusStep
    <2> QED BY <2>3, <2>4 DEF StatusStep
  <1> QED
    BY <1>4, <1>5, <1>6, <1>7, <1>9, <1>10 DEF Answer, Settle

\* What a job of u is to mark when its call ends.
LEMMA TurnMarks ==
    ASSUME ReturnsRowId, FiniteRules, IInv, Types, MarkInv, NEW u \in Users, Enter(u) \/ Answer(u) \/ Settle(u)
    PROVE  Marking(u)'
  <1> DEFINE r == Holder(u).rule
  <1>0. queue[u] # <<>> /\ r \in Rules /\ override \in OverrideTable
    BY Turn, HolderIsJob DEF Types, RowTypes
  <1>1. ASSUME NEW ok, Release(u, ok) PROVE Marking(u)'
    BY <1>1, ReleasedWaits DEF Marking
  <1>2. ASSUME NEW limit, Read(u, limit), override' = override,
               Holder(u).kind = "restore" => override[r][u].status # "restored"
        PROVE  Marking(u)'
    BY <1>2, ReadSection DEF Marking
  <1>3. ASSUME NEW w \in {"revoke", "missing", "restore"}, NEW G, NEW to, Send(u, w, G, to, Own(r, u)),
               override' = Carried(r, u)
        PROVE  Marking(u)'
    <2>1. /\ section'[u].pc = "write" /\ section'[u].write = w /\ section'[u].mark = Own(r, u)
          /\ Holder(u)' = Holder(u)
      BY <1>3, SentSection
    <2>2. override'[r][u].status = override[r][u].status
      BY <1>0, <1>3, CarriedStatus
    <2>3. Own(r, u) \subseteq {<<r, u>>} /\ (Own(r, u) # {} => override[r][u].status # "restored")
      BY DEF Own, Live
    <2> QED
      BY <2>1, <2>2, <2>3 DEF Marking
  <1>4. ASSUME NEW a, ApplyNoRevoke(u, r, a) PROVE Marking(u)'
    BY <1>1, <1>3, <1>4 DEF ApplyNoRevoke
  <1>5. CASE Enter(u)
    BY <1>0, <1>1, <1>2, <1>4, <1>5 DEF Enter, EnterClaim, EnterRevoke, EnterRestore, Live, rows
  <1>6. CASE AnswerClaim(u)
    <2>1. ASSUME NEW w \in {"grant", "keep"}, NEW G, NEW limit, NEW T \in Targets(r, u, limit),
                 Send(u, w, G, limit, T)
          PROVE  Marking(u)'
      <3>1. /\ section'[u].pc = "write" /\ section'[u].write = w /\ section'[u].mark = T
            /\ Holder(u)' = Holder(u)
        BY <2>1, SentSection
      <3>2. T \subseteq {<<r, u>>} /\ Holder(u).kind = "claim"
        BY <1>6, <2>1, OwnTargets DEF AnswerClaim
      <3> QED
        BY <3>1, <3>2 DEF Marking
    <2> QED
      BY <1>1, <1>6, <2>1 DEF AnswerClaim, ApplyClaim
  <1>7. CASE AnswerRevoke(u)
    BY <1>3, <1>4, <1>7 DEF AnswerRevoke, ApplyRevoke
  <1>8. CASE AnswerRestore(u)
    BY <1>1, <1>3, <1>8 DEF AnswerRestore
  <1>9. CASE Settle(u)
    BY <1>1, <1>9 DEF Settle, ReadFails, WriteSucceeds, WriteFails
  <1> QED
    BY <1>5, <1>6, <1>7, <1>8, <1>9 DEF Answer

\* Steps of runs, the timer, administrators and other handlers close rows, if anything.
LEMMA AsideMarks ==
    ASSUME Types, [Next]_vars, ~Crash, \A u \in Users : ~(Enter(u) \/ Answer(u) \/ Settle(u)),
           NEW v \in Users
    PROVE  /\ \A s \in Rules : override'[s][v].status \in {override[s][v].status, "none"}
           /\ section'[v] = section[v]
           /\ queue[v] # <<>> => queue'[v] # <<>> /\ Head(queue'[v]) = Head(queue[v])
  <1>0. \A u \in Users : queue[u] \in Seq(Jobs)
    BY DEF Types, LockTypes
  <1>1. ASSUME NEW u, NEW j, Enqueue(u, j)
        PROVE  queue[v] # <<>> => queue'[v] # <<>> /\ Head(queue'[v]) = Head(queue[v])
    BY <1>0, <1>1 DEF Enqueue, Types, LockTypes
  <1>2. ASSUME NEW r \in Rules, RunEnd(r)
        PROVE  \A s \in Rules : override'[s][v].status \in {override[s][v].status, "none"}
    <2>1. \/ override' = override
          \/ override' = [override EXCEPT ![r] = [u \in Users |-> NoRow]]
      BY <1>2 DEF RunEnd
    <2> QED
      BY <2>1 DEF Types, RowTypes, OverrideTable, NoRow
  <1>3. ASSUME NEW r \in Rules,
               \/ RunNext(r) \/ RunEnd(r) \/ RevokeNow(r) \/ DeleteRule(r) \/ Requested(r)
               \/ \E t \in Terms : CreateRule(r, t) \/ \E on \in BOOLEAN : UpdateRule(r, t, on)
        PROVE  /\ \A s \in Rules : override'[s][v].status \in {override[s][v].status, "none"}
               /\ section' = section
               /\ queue[v] # <<>> => queue'[v] # <<>> /\ Head(queue'[v]) = Head(queue[v])
    <2>1. section' = section
          /\ (queue[v] # <<>> => queue'[v] # <<>> /\ Head(queue'[v]) = Head(queue[v]))
      BY <1>1, <1>3 DEF RunNext, RunEnd, RevokeNow, DeleteRule, Requested, CreateRule, UpdateRule, locks
    <2>2. override' = override \/ RunEnd(r)
      BY <1>3 DEF RunNext, RevokeNow, DeleteRule, Requested, CreateRule, UpdateRule, rows
    <2> QED BY <1>2, <2>1, <2>2
  <1>4. ASSUME NEW u \in Users,
               LookupReads(u) \/ LookupStores(u) \/ \E r \in Rules : Claim(r, u) \/ ManualEdit(u, r)
        PROVE  /\ UNCHANGED <<override, section>>
               /\ queue[v] # <<>> => queue'[v] # <<>> /\ Head(queue'[v]) = Head(queue[v])
    BY <1>1, <1>4 DEF LookupReads, LookupStores, Claim, ManualEdit, rows, locks
  <1>5. CASE Timer \/ Tick \/ UNCHANGED vars
    BY <1>1, <1>5 DEF Timer, Schedule, SchedRestore, SchedDue, SchedEnd, SchedRevoke, Tick, vars, rows, locks
  <1> QED
    BY <1>3, <1>4, <1>5 DEF Next

\* Marking does not change for a user whose rows are closed, if anything.
LEMMA BystanderMarks ==
    ASSUME Types, NEW v \in Users, Marking(v),
           \A s \in Rules : override'[s][v].status \in {override[s][v].status, "none"},
           section'[v] = section[v],
           queue[v] # <<>> => queue'[v] # <<>> /\ Head(queue'[v]) = Head(queue[v])
    PROVE  Marking(v)'
  <1>1. CASE queue[v] = <<>>
    <2>1. section'[v].pc = "wait"
      BY <1>1 DEF Types, LockTypes, Sections
    <2> QED BY <2>1 DEF Marking
  <1>2. CASE queue[v] # <<>>
    <2>1. Holder(v)' = Holder(v) /\ Holder(v).rule \in Rules
      BY <1>2, HolderIsJob DEF Holder, Types
    <2> QED
      BY <2>1 DEF Marking
  <1> QED BY <1>1, <1>2

LEMMA MarkNext ==
    ASSUME ReturnsRowId, FiniteRules, IInv, Types, MarkInv, [Next]_vars
    PROVE  MarkInv'
  <1> SUFFICES ASSUME NEW v \in Users PROVE Marking(v)'
    BY DEF MarkInv
  <1>1. Marking(v)
    BY DEF MarkInv
  <1>2. ASSUME NEW u \in Users, Enter(u) \/ Answer(u) \/ Settle(u) PROVE Marking(v)'
    <2>1. CASE v = u
      BY <1>2, <2>1, TurnMarks
    <2>2. CASE v # u
      <3>1. \A s \in Rules : override'[s][v].status = override[s][v].status
        BY <1>2, <2>2, StatusTurn DEF StatusStep
      <3>2. queue'[v] = queue[v] /\ section'[v] = section[v]
        BY <1>2, <2>2, TurnOfOther
      <3> QED
        BY <1>1, <3>1, <3>2, BystanderMarks
    <2> QED BY <2>1, <2>2
  <1>3. CASE Crash
    BY <1>3 DEF Crash, Marking, Outside
  <1>4. CASE ~Crash /\ \A u \in Users : ~(Enter(u) \/ Answer(u) \/ Settle(u))
    BY <1>1, <1>4, AsideMarks, BystanderMarks
  <1> QED BY <1>2, <1>3, <1>4

\* On a data base whose upsert reports the row it has written (PostgreSQL), a
\* restored limit is taken up again by a claim of the same user and rule only,
\* whatever other handlers, administrators, failures and crashes do.
THEOREM RestoredStays ==
    ASSUME FiniteRules, ReturnsRowId
    PROVE  Spec => RestoredUntilClaimed
  <1>1. Init => IInv /\ Types /\ MarkInv
    <2>1. Init => MarkInv
      BY DEF Init, MarkInv, Marking, Outside
    <2> QED BY <2>1, InvInit, TypesInit
  <1>2. (IInv /\ Types /\ MarkInv) /\ [Next]_vars => (IInv /\ Types /\ MarkInv)'
    BY InvNext, TypesNext, MarkNext
  <1>3. (IInv /\ Types /\ MarkInv) /\ [Next]_vars =>
            [\A r \in Rules, u \in Users :
                override[r][u].status = "restored" /\ override'[r][u].status \notin {"restored", "none"} =>
                    queue[u] # <<>> /\ Holder(u) = [kind |-> "claim", rule |-> r]]_vars
    <2> SUFFICES ASSUME IInv, Types, MarkInv, [Next]_vars, NEW r \in Rules, NEW u \in Users,
                        override[r][u].status = "restored",
                        override'[r][u].status \notin {"restored", "none"}
                 PROVE  queue[u] # <<>> /\ Holder(u) = [kind |-> "claim", rule |-> r]
      OBVIOUS
    <2>1. CASE \E v \in Users : Enter(v) \/ Answer(v) \/ Settle(v)
      <3>1. PICK v \in Users : Enter(v) \/ Answer(v) \/ Settle(v)
        BY <2>1
      <3>2. u = v /\ r = Holder(u).rule /\ Holder(u).kind = "claim"
        BY <3>1, StatusTurn DEF StatusStep
      <3>3. queue[u] # <<>> /\ Holder(u) \in Jobs
        BY <3>1, <3>2, Turn, HolderIsJob DEF Types
      <3> QED
        BY <3>2, <3>3 DEF Jobs
    <2>2. CASE Crash
      BY <2>2 DEF Crash, rows
    <2>3. CASE ~Crash /\ \A v \in Users : ~(Enter(v) \/ Answer(v) \/ Settle(v))
      BY <2>3, AsideMarks
    <2> QED BY <2>1, <2>2, <2>3
  <1> QED BY <1>1, <1>2, <1>3, PTL DEF Spec, RestoredUntilClaimed

-----------------------------------------------------------------------------
(* The limit of a user.  While a user holds at most two limits at a time,  *)
(* the oldest open override owns the value from before the activities:     *)
(* handing it to the newest row hands it to the one that remains.  With a  *)
(* third the one that remains oldest is another (MCGroupEntitlementLimit).  *)

AtMostTwo ==
    \A u \in Users, r, s, t \in Rules :
        Live(r, u) /\ Live(s, u) /\ Live(t, u) => r = s \/ r = t \/ s = t

NoDeletes == \A r \in Rules : request[r] # "delete" /\ run[r].mode # "delete"

\* A row without an id is no row, and ids are distinct.
Ids(u) ==
    \A r \in Rules :
        /\ override[r][u].id = 0 <=> override[r][u].status = "none"
        /\ \A s \in Rules \ {r} : override[r][u].id # 0 => override[r][u].id # override[s][u].id

OldestHasBase(u) ==
    \A r \in Rules :
        Live(r, u) /\ (\A s \in Others(r, u) : override[r][u].id < override[s][u].id)
            => override[r][u].original = Base

NoneIsBase(u) == (\A r \in Rules : ~Live(r, u)) => remote[u].limit = Base

Stack(u) == Ids(u) /\ OldestHasBase(u) /\ NoneIsBase(u)

ActiveIsManaged(u) ==
    \A r \in Rules : override[r][u].status = "active" => member[r][u] = "managed"

\* A limit given back is not taken up again: its rule is not claimed any more.
RestoredIsClosed(u) ==
    \A r \in Rules : override[r][u].status = "restored" =>
        Closed(r) /\ ~(AtLock(u, "read") /\ Holder(u) = [kind |-> "claim", rule |-> r])

\* What a call under way does to the limit: a claim has opened its override, and a
\* restoration sets the base when no other override is open, and has handed it on
\* when one is.
Returning(u) ==
    LET r == Holder(u).rule
        s == section[u]
    IN  /\ s.pc = "read" /\ Holder(u).kind = "restore" => Live(r, u)
        /\ s.pc = "write" /\ s.write \in {"grant", "keep"} =>
              \/ s.mark = {} /\ s.to = NoLimit
              \/ s.mark = {<<r, u>>} /\ Live(r, u) /\ stage[r] = "live"
        /\ s.pc = "write" /\ s.write \in {"revoke", "missing", "restore"} =>
              \/ s.mark = {} /\ s.to = NoLimit /\ ~Live(r, u)
              \/ /\ s.mark = {<<r, u>>} /\ Live(r, u) /\ Closed(r)
                 /\ Others(r, u) = {} => s.to = Base
                 /\ \A t \in Others(r, u) : override[t][u].original = Base

UserLimit(u) == Stack(u) /\ ActiveIsManaged(u) /\ RestoredIsClosed(u) /\ Returning(u)

LimitInv == Closing /\ NoDeletes /\ \A u \in Users : UserLimit(u)

\* The invariant is stronger than the property.
LEMMA LimitInvReturns == LimitInv => LimitReturns
  <1> SUFFICES ASSUME LimitInv, NEW u \in Users, \A r \in Rules : ~Holds(r, u)
               PROVE  remote[u].limit = Base
    BY DEF LimitReturns
  <1>1. \A r \in Rules : ~Live(r, u)
    BY DEF LimitInv, UserLimit, ActiveIsManaged, Holds
  <1> QED
    BY <1>1 DEF LimitInv, UserLimit, Stack, NoneIsBase

-----------------------------------------------------------------------------
(* The stack of a user.                                                    *)

\* The open rows stay open, with their ids; an original value may become the base.
LEMMA StackKept ==
    ASSUME Types, NEW u \in Users, Stack(u),
           \A s \in Rules :
              /\ Live(s, u)' <=> Live(s, u)
              /\ override'[s][u].status = "none" <=> override[s][u].status = "none"
              /\ override'[s][u].id = override[s][u].id
              /\ override'[s][u].original \in {override[s][u].original, Base},
           (\E s \in Rules : Live(s, u)) \/ remote'[u].limit = remote[u].limit
    PROVE  Stack(u)'
  <1>1. Ids(u)'
    BY DEF Stack, Ids
  <1>2. OldestHasBase(u)'
    BY DEF Stack, OldestHasBase, Others
  <1>3. NoneIsBase(u)'
    BY DEF Stack, NoneIsBase
  <1> QED BY <1>1, <1>2, <1>3 DEF Stack

\* The row of r is closed when those that stay open own the base, or the limit is it.
LEMMA StackClosed ==
    ASSUME Types, NEW u \in Users, NEW r \in Rules, Stack(u), Live(r, u),
           override'[r][u].status = "restored", override'[r][u].id = override[r][u].id,
           \A s \in Rules \ {r} :
              /\ Live(s, u)' <=> Live(s, u)
              /\ override'[s][u].status = "none" <=> override[s][u].status = "none"
              /\ override'[s][u].id = override[s][u].id,
           \A t \in Others(r, u) : override'[t][u].original = Base,
           Others(r, u) = {} => remote'[u].limit = Base
    PROVE  Stack(u)'
  <1>0. ~Live(r, u)' /\ override[r][u].status # "none"
    BY DEF Live
  <1>1. Ids(u)'
    BY <1>0 DEF Stack, Ids
  <1>2. OldestHasBase(u)'
    BY <1>0 DEF OldestHasBase, Others
  <1>3. NoneIsBase(u)'
    BY <1>0 DEF NoneIsBase, Others
  <1> QED BY <1>1, <1>2, <1>3 DEF Stack

\* A first claim opens a row on top, over the limit the user has.
LEMMA StackOpened ==
    ASSUME FiniteRules, Types, NEW u \in Users, NEW r \in Rules, Stack(u),
           override[r][u].status = "none", Live(r, u)',
           override'[r][u].id = NextId(u), override'[r][u].original = remote[u].limit,
           \A s \in Rules \ {r} : override'[s][u] = override[s][u]
    PROVE  Stack(u)'
  <1>0. /\ \A s \in Rules : override[s][u].id \in Nat /\ override[s][u].id < NextId(u)
        /\ NextId(u) \in Nat
    BY NextIdIsId DEF Types, RowTypes, OverrideTable, Overrides
  <1>1. ~Live(r, u) /\ \A s \in Rules \ {r} : Live(s, u)' <=> Live(s, u)
    BY DEF Live
  <1>2. Ids(u)'
    <2>1. override'[r][u].id # 0 /\ override'[r][u].status # "none"
      BY <1>0, <1>1 DEF Live
    <2>2. \A s \in Rules \ {r} : override'[r][u].id # override'[s][u].id
      BY <1>0
    <2> QED
      BY <2>1, <2>2 DEF Stack, Ids
  <1>3. OldestHasBase(u)'
    <2> SUFFICES ASSUME NEW s \in Rules, Live(s, u)',
                        (\A t \in Others(s, u) : override[s][u].id < override[t][u].id)'
                 PROVE  override'[s][u].original = Base
      BY DEF OldestHasBase
    <2>1. CASE s = r
      <3>1. ASSUME NEW t \in Rules \ {r}, Live(t, u) PROVE FALSE
        <4>1. t \in Others(r, u)'
          BY <1>1, <3>1 DEF Others
        <4>2. override'[r][u].id < override'[t][u].id
          BY <2>1, <4>1
        <4> QED BY <1>0, <4>2
      <3> QED
        BY <1>1, <2>1, <3>1 DEF Stack, NoneIsBase
    <2>2. CASE s # r
      <3>1. \A t \in Others(s, u) : override[s][u].id < override[t][u].id
        <4> SUFFICES ASSUME NEW t \in Others(s, u) PROVE override[s][u].id < override[t][u].id
          OBVIOUS
        <4>1. t \in Rules \ {r} /\ t # s /\ t \in Others(s, u)'
          BY <1>1 DEF Others
        <4>2. override'[s][u].id < override'[t][u].id
          BY <4>1
        <4> QED BY <2>2, <4>1, <4>2
      <3> QED
        BY <1>1, <2>2, <3>1 DEF Stack, OldestHasBase
    <2> QED BY <2>1, <2>2
  <1>4. NoneIsBase(u)'
    BY DEF NoneIsBase
  <1> QED BY <1>2, <1>3, <1>4 DEF Stack

\* #concurrencyRestore: the base goes to the row that stays open, or is the value to
\* write.
LEMMA BaseHandedOn ==
    ASSUME AtMostTwo, Types, NEW u \in Users, NEW r \in Rules, Stack(u), Live(r, u)
    PROVE  /\ Others(r, u) = {} => RestoreTo(r, u) = Base
           /\ \A t \in Others(r, u) : Carried(r, u)[t][u].original = Base
           /\ \A s \in Rules : Carried(r, u)[s][u].original \in {override[s][u].original, Base}
  <1>0. override \in OverrideTable
    BY DEF Types, RowTypes
  <1>1. CASE Others(r, u) = {}
    <2>1. override[r][u].original = Base
      BY <1>1 DEF Stack, OldestHasBase
    <2> QED
      BY <1>1, <2>1 DEF RestoreTo, Baseline, Carried
  <1>2. CASE Others(r, u) # {}
    <2>1. PICK t \in Others(r, u) : TRUE
      BY <1>2
    <2>2. t \in Rules /\ t # r /\ Live(t, u)
      BY <2>1 DEF Others
    <2>3. Others(r, u) = {t} /\ Others(t, u) = {r}
      BY <2>2 DEF AtMostTwo, Others
    <2>4. /\ override[r][u].id \in Nat /\ override[t][u].id \in Nat
          /\ override[r][u].id # override[t][u].id
      BY <1>0, <2>2 DEF OverrideTable, Overrides, Stack, Ids, Live
    <2>5. Oldest({t}, u) = t /\ Newest({t}, u) = t
      BY <2>4 DEF Oldest, Newest
    <2>6. Baseline(r, u) = Base
      <3>1. CASE override[t][u].id < override[r][u].id
        <4>1. override[t][u].original = Base
          BY <2>2, <2>3, <3>1 DEF Stack, OldestHasBase
        <4> QED
          BY <2>3, <2>5, <3>1, <4>1 DEF Baseline
      <3>2. CASE override[r][u].id < override[t][u].id
        <4>1. override[r][u].original = Base
          BY <2>3, <3>2 DEF Stack, OldestHasBase
        <4> QED
          BY <2>3, <2>4, <2>5, <3>2, <4>1 DEF Baseline
      <3> QED BY <2>4, <3>1, <3>2
    <2>7. Carried(r, u) = [override EXCEPT ![t][u].original = Base]
      BY <2>3, <2>5, <2>6 DEF Carried
    <2>8. override[t] \in [Users -> Overrides] /\ override[t][u] \in Overrides
      BY <1>0, <2>2 DEF OverrideTable
    <2>9. Carried(r, u)[t][u].original = Base
      BY <1>0, <2>2, <2>7, <2>8 DEF OverrideTable, Overrides
    <2>10. \A s \in Rules \ {t} : Carried(r, u)[s][u] = override[s][u]
      BY <1>0, <2>7 DEF OverrideTable
    <2> QED
      BY <1>2, <2>2, <2>3, <2>9, <2>10
  <1> QED BY <1>1, <1>2

-----------------------------------------------------------------------------
(* The rows a job of u writes.                                             *)

LEMMA MarkedFields ==
    ASSUME NEW rws \in OverrideTable, NEW T, NEW st, NEW s \in Rules, NEW v \in Users
    PROVE  /\ <<s, v>> \notin T => Marked(rws, T, st)[s][v] = rws[s][v]
           /\ Marked(rws, T, st)[s][v].id = rws[s][v].id
           /\ Marked(rws, T, st)[s][v].original = rws[s][v].original
           /\ <<s, v>> \in T /\ rws[s][v].id # 0 => Marked(rws, T, st)[s][v].status = st
  <1>1. rws[s][v] \in Overrides
    BY DEF OverrideTable
  <1>2. Marked(rws, T, st)[s][v] =
            IF <<s, v>> \in T /\ rws[s][v].id # 0 THEN [rws[s][v] EXCEPT !.status = st] ELSE rws[s][v]
    BY DEF Marked
  <1> QED
    BY <1>1, <1>2 DEF Overrides

LEMMA CarriedFields ==
    ASSUME override \in OverrideTable, NEW r, NEW u, NEW s \in Rules, NEW v \in Users
    PROVE  /\ v # u => Carried(r, u)[s][v] = override[s][v]
           /\ Carried(r, u)[s][v].id = override[s][v].id
           /\ Carried(r, u)[s][v].status = override[s][v].status
  <1> DEFINE n == Newest(Others(r, u), u)
             b == Baseline(r, u)
             C == [override EXCEPT ![n][u].original = b]
  <1>1. override[s] \in [Users -> Overrides] /\ override[s][v] \in Overrides
    BY DEF OverrideTable
  <1> HIDE DEF n, b
  <1>2. /\ C[s][v] \in {override[s][v], [override[s][v] EXCEPT !.original = b]}
        /\ v # u => C[s][v] = override[s][v]
    BY <1>1 DEF OverrideTable
  <1>3. /\ v # u => C[s][v] = override[s][v]
        /\ C[s][v].id = override[s][v].id /\ C[s][v].status = override[s][v].status
    BY <1>1, <1>2 DEF Overrides
  <1> QED
    BY <1>3 DEF Carried, n, b

\* The row a claim opens or renews.
LEMMA PreparedRow ==
    ASSUME override \in OverrideTable, NEW r \in Rules, NEW u \in Users, NEW limit, NEW current, limit # NoLimit
    PROVE  LET row == Prepared(r, u, limit, current)[r][u]
           IN  /\ row.status = "pending"
               /\ row.original = IF Live(r, u) THEN override[r][u].original ELSE current
               /\ row.id = IF override[r][u].id = 0 THEN NextId(u) ELSE override[r][u].id
  <1> DEFINE row == [status |-> "pending",
                     original |-> IF Live(r, u) THEN override[r][u].original ELSE current,
                     applied |-> limit,
                     id |-> IF override[r][u].id = 0 THEN NextId(u) ELSE override[r][u].id]
  <1>1. Prepared(r, u, limit, current) = [override EXCEPT ![r][u] = row]
    BY DEF Prepared
  <1> HIDE DEF row
  <1>2. Prepared(r, u, limit, current)[r][u] = row
    BY <1>1 DEF OverrideTable
  <1> QED
    BY <1>2 DEF row

\* A job writes rows of its user only.
LEMMA TurnRows ==
    ASSUME ReturnsRowId, FiniteRules, IInv, Types, NEW u \in Users, Returning(u),
           Enter(u) \/ Answer(u) \/ Settle(u), NEW s \in Rules, NEW v \in Users \ {u}
    PROVE  override'[s][v] = override[s][v]
  <1> DEFINE r == Holder(u).rule
  <1>0. queue[u] # <<>> /\ r \in Rules /\ override \in OverrideTable /\ remote[u] \in Accounts
    BY Turn, HolderIsJob DEF Types, RowTypes, CopyTypes
  <1>1. Carried(r, u) \in OverrideTable /\ Carried(r, u)[s][v] = override[s][v]
    BY <1>0, CarriedFields, StackWrites DEF Types
  <1>2. ASSUME NEW rws \in OverrideTable, rws[s][v] = override[s][v], NEW T, T \subseteq {<<r, u>>}, NEW st
        PROVE  Marked(rws, T, st)[s][v] = override[s][v]
    <2>1. <<s, v>> \notin T
      BY <1>2
    <2> QED BY <1>2, <2>1, MarkedFields
  <1>3. ASSUME NEW a, ApplyNoRevoke(u, r, a) PROVE override' \in {override, Carried(r, u)}
    BY <1>3 DEF ApplyNoRevoke, rows
  <1>4. CASE Enter(u)
    BY <1>1, <1>3, <1>4 DEF Enter, EnterClaim, EnterRevoke, EnterRestore, rows
  <1>5. CASE AnswerClaim(u)
    <2>1. section[u].limit \in Limits
      BY DEF Types, LockTypes, Sections
    <2> DEFINE limit == section[u].limit
               P == Prepared(r, u, limit, remote[u].limit)
    <2>2. P \in OverrideTable /\ P[s][v] = override[s][v]
      BY <1>0, <2>1, PreparedTyped, PreparedOther DEF Types, Accounts
    <2>3. \/ override' \in {override, P}
          \/ \E T \in Targets(r, u, limit) : override' = Marked(P, T, "active")
      BY <1>5 DEF AnswerClaim, ApplyClaim, rows
    <2>4. \A T \in Targets(r, u, limit) : T \subseteq {<<r, u>>}
      BY OwnTargets
    <2> HIDE DEF P
    <2> QED BY <1>2, <2>2, <2>3, <2>4
  <1>6. CASE AnswerRevoke(u)
    BY <1>1, <1>3, <1>6 DEF AnswerRevoke, ApplyRevoke
  <1>7. CASE AnswerRestore(u)
    <2>1. override' \in {override, Carried(r, u), Marked(Carried(r, u), {<<r, u>>}, "restored")}
      BY <1>7 DEF AnswerRestore, rows
    <2> QED BY <1>1, <1>2, <2>1
  <1>8. CASE ReadFails(u)
    BY <1>0, <1>2, <1>8 DEF ReadFails
  <1>9. CASE WriteSucceeds(u) \/ WriteFails(u)
    <2> DEFINE T == section[u].mark
    <2>1. section[u].pc = "write" /\ \E st : override' = Marked(override, T, st)
      BY <1>9 DEF WriteSucceeds, WriteFails, AtLock
    <2>2. section[u].write \in {"grant", "keep", "revoke", "missing", "restore"}
      BY <2>1 DEF IInv, InFlight
    <2>3. T \subseteq {<<r, u>>}
      BY <2>1, <2>2 DEF Returning
    <2> HIDE DEF T
    <2> QED BY <1>0, <1>2, <2>1, <2>3
  <1> QED
    BY <1>4, <1>5, <1>6, <1>7, <1>8, <1>9 DEF Answer, Settle

-----------------------------------------------------------------------------
(* The job of u goes on.                                                   *)

\* It stores neither a limit nor a row, and no membership of an active row is lost.
LEMMA RowsKept ==
    ASSUME Types, \A s \in Rules : Closed(s) => Closed(s)', NEW u \in Users, UserLimit(u),
           \A s \in Rules : override'[s][u] = override[s][u],
           remote'[u].limit = remote[u].limit,
           \A s \in Rules : override[s][u].status = "active" => member'[s][u] = member[s][u],
           section'[u].pc = "read" =>
               /\ queue'[u] = queue[u]
               /\ Holder(u).kind = "claim" => Claimable(Holder(u).rule),
           Returning(u)'
    PROVE  UserLimit(u)'
  <1>1. Stack(u)'
    BY StackKept DEF UserLimit, Live
  <1>2. ActiveIsManaged(u)'
    BY DEF UserLimit, ActiveIsManaged
  <1>3. RestoredIsClosed(u)'
    <2>1. ASSUME NEW r \in Rules, AtLock(u, "read")', Holder(u)' = [kind |-> "claim", rule |-> r]
          PROVE ~Closed(r)
      BY <2>1 DEF AtLock, Holder, Closed
    <2> QED
      BY <2>1 DEF UserLimit, RestoredIsClosed
  <1> QED BY <1>1, <1>2, <1>3 DEF UserLimit

\* Nothing is awaited: no call under way, nothing to return.
LEMMA WaitsReturns ==
    ASSUME NEW u \in Users, section'[u].pc = "wait"
    PROVE  Returning(u)' /\ ~AtLock(u, "read")'
  BY DEF Returning, AtLock

\* The base is handed on and a restoration sent, or nothing is open and nothing to set.
LEMMA RestoreSent ==
    ASSUME AtMostTwo, FiniteRules, Types, \A s \in Rules : Closed(s) => Closed(s)', NEW u \in Users,
           UserLimit(u), NEW r \in Rules, r = Holder(u).rule, Closed(r),
           NEW w \in {"revoke", "missing", "restore"}, NEW G, override' = Carried(r, u),
           Send(u, w, G, RestoreTo(r, u), Own(r, u)), UNCHANGED <<member, remote>>
    PROVE  UserLimit(u)'
  <1> DEFINE to == RestoreTo(r, u)
  <1>0. override \in OverrideTable
    BY DEF Types, RowTypes
  <1>1. /\ section'[u].pc = "write" /\ section'[u].write = w /\ section'[u].mark = Own(r, u)
        /\ Holder(u)' = Holder(u)
    BY SentSection
  <1>2. section'[u].to = to
    BY DEF Send, Await, Types, LockTypes
  <1>3. \A s \in Rules : /\ override'[s][u].status = override[s][u].status
                         /\ override'[s][u].id = override[s][u].id
    BY <1>0, CarriedFields
  <1>4. \A s \in Rules : Live(s, u)' <=> Live(s, u)
    BY <1>3 DEF Live
  <1>5. Others(r, u)' = Others(r, u)
    BY <1>4 DEF Others
  <1>6. Stack(u)
    BY DEF UserLimit
  <1>7. \A s \in Rules : override'[s][u].original \in {override[s][u].original, Base}
    <2>1. CASE Live(r, u)
      BY <1>6, <2>1, BaseHandedOn
    <2>2. CASE ~Live(r, u)
      BY <2>2 DEF Carried
    <2> QED BY <2>1, <2>2
  <1>8. Stack(u)'
    BY <1>3, <1>4, <1>6, <1>7, StackKept
  <1>9. Returning(u)'
    <2>1. CASE Live(r, u)
      <3>1. Own(r, u) = {<<r, u>>}
        BY <2>1 DEF Own
      <3>2. Others(r, u) = {} => to = Base
        BY <1>6, <2>1, BaseHandedOn
      <3>3. \A t \in Others(r, u) : override'[t][u].original = Base
        BY <1>6, <2>1, BaseHandedOn
      <3> HIDE DEF to
      <3> QED
        BY <1>1, <1>2, <1>4, <1>5, <2>1, <3>1, <3>2, <3>3 DEF Returning
    <2>2. CASE ~Live(r, u)
      <3>1. Own(r, u) = {} /\ to = NoLimit
        BY <2>2 DEF Own, RestoreTo
      <3> HIDE DEF to
      <3> QED
        BY <1>1, <1>2, <1>4, <2>2, <3>1 DEF Returning
    <2> QED BY <2>1, <2>2
  <1>10. ActiveIsManaged(u)'
    BY <1>3 DEF UserLimit, ActiveIsManaged
  <1>11. RestoredIsClosed(u)'
    BY <1>1, <1>3 DEF UserLimit, RestoredIsClosed, AtLock
  <1> QED BY <1>8, <1>9, <1>10, <1>11 DEF UserLimit

\* The row of the rule of the job, when a call or a read ends: from open to open, or
\* it is closed.
RowMarked(r, u, st) ==
    /\ override'[r][u].status = st
    /\ override'[r][u].id = override[r][u].id /\ override'[r][u].original = override[r][u].original
    /\ \A s \in Rules \ {r} : override'[s][u] = override[s][u]

LEMMA MarkedOne ==
    ASSUME Types, NEW r \in Rules, NEW u \in Users, Ids(u), Live(r, u), NEW st,
           override' = Marked(override, {<<r, u>>}, st)
    PROVE  RowMarked(r, u, st)
  <1>0. override \in OverrideTable /\ override[r][u].id # 0
    BY DEF Types, RowTypes, Ids, Live
  <1>1. \A T : \A s \in Rules :
           /\ <<s, u>> \notin T => Marked(override, T, st)[s][u] = override[s][u]
           /\ Marked(override, T, st)[s][u].id = override[s][u].id
           /\ Marked(override, T, st)[s][u].original = override[s][u].original
           /\ <<s, u>> \in T /\ override[s][u].id # 0 => Marked(override, T, st)[s][u].status = st
    BY <1>0, MarkedFields
  <1> DEFINE T == {<<r, u>>}
  <1>2. <<r, u>> \in T /\ \A s \in Rules \ {r} : <<s, u>> \notin T
    OBVIOUS
  <1>3. override' = Marked(override, T, st)
    OBVIOUS
  <1> HIDE DEF T
  <1>4. \A s \in Rules :
           /\ <<s, u>> \notin T => override'[s][u] = override[s][u]
           /\ override'[s][u].id = override[s][u].id
           /\ override'[s][u].original = override[s][u].original
           /\ <<s, u>> \in T /\ override[s][u].id # 0 => override'[s][u].status = st
    BY <1>1, <1>3
  <1> QED
    BY <1>0, <1>2, <1>4 DEF RowMarked

LEMMA MarkedNone ==
    ASSUME Types, NEW u \in Users, NEW st, override' = Marked(override, {}, st)
    PROVE  \A s \in Rules : override'[s][u] = override[s][u]
  <1>0. override \in OverrideTable
    BY DEF Types, RowTypes
  <1>1. \A T : \A s \in Rules : <<s, u>> \notin T => Marked(override, T, st)[s][u] = override[s][u]
    BY <1>0, MarkedFields
  <1> QED BY <1>1

\* An open row stays open, and the lock is left.
LEMMA OpenStaysOpen ==
    ASSUME Types, \A s \in Rules : Closed(s) => Closed(s)', NEW u \in Users, UserLimit(u),
           NEW r \in Rules, Live(r, u), NEW st \in {"active", "failed"}, RowMarked(r, u, st),
           section'[u].pc = "wait",
           \A s \in Rules \ {r} : member'[s][u] = member[s][u],
           st = "active" => member'[r][u] = "managed"
    PROVE  UserLimit(u)'
  <1>1. \A s \in Rules : Live(s, u)' <=> Live(s, u)
    BY DEF RowMarked, Live
  <1>2. \A s \in Rules : override'[s][u].status = "none" <=> override[s][u].status = "none"
    BY DEF RowMarked, Live
  <1>3. Stack(u)'
    BY <1>1, <1>2, StackKept DEF UserLimit, RowMarked
  <1>4. ActiveIsManaged(u)'
    BY DEF UserLimit, ActiveIsManaged, RowMarked
  <1>5. RestoredIsClosed(u)'
    BY WaitsReturns DEF UserLimit, RestoredIsClosed, RowMarked
  <1> QED BY <1>3, <1>4, <1>5, WaitsReturns DEF UserLimit

\* The limit is given back, and the lock is left.
LEMMA OpenIsClosed ==
    ASSUME Types, \A s \in Rules : Closed(s) => Closed(s)', NEW u \in Users, UserLimit(u),
           NEW r \in Rules, Live(r, u), Closed(r), section'[u].pc = "wait",
           override'[r][u].status = "restored",
           \A s \in Rules :
              /\ override'[s][u].id = override[s][u].id
              /\ s # r => override'[s][u].status = override[s][u].status,
           \A s \in Rules \ {r} : member'[s][u] = member[s][u],
           \A t \in Others(r, u) : override'[t][u].original = Base,
           Others(r, u) = {} => remote'[u].limit = Base
    PROVE  UserLimit(u)'
  <1>1. \A s \in Rules \ {r} : Live(s, u)' <=> Live(s, u)
    BY DEF Live
  <1>2. Stack(u)'
    BY <1>1, StackClosed DEF UserLimit
  <1>3. ActiveIsManaged(u)'
    BY DEF UserLimit, ActiveIsManaged
  <1>4. RestoredIsClosed(u)'
    BY WaitsReturns DEF UserLimit, RestoredIsClosed
  <1> QED BY <1>2, <1>3, <1>4, WaitsReturns DEF UserLimit

\* A claim opens its row or renews it, under the lock and before its rule is closed.
LEMMA ClaimOpens ==
    ASSUME FiniteRules, Types, \A s \in Rules : Closed(s) => Closed(s)', NEW u \in Users, UserLimit(u),
           NEW r \in Rules, AtLock(u, "read"), Holder(u) = [kind |-> "claim", rule |-> r],
           NEW st \in {"pending", "active"}, UNCHANGED <<member, remote>>,
           override'[r][u].status = st,
           override'[r][u].original = IF Live(r, u) THEN override[r][u].original ELSE remote[u].limit,
           override'[r][u].id = IF override[r][u].id = 0 THEN NextId(u) ELSE override[r][u].id,
           \A s \in Rules \ {r} : override'[s][u] = override[s][u],
           st = "active" => member[r][u] = "managed",
           section'[u].pc # "read", Returning(u)'
    PROVE  UserLimit(u)'
  <1>0. override[r][u].status # "restored" /\ override[r][u] \in Overrides
    BY DEF UserLimit, RestoredIsClosed, Types, RowTypes, OverrideTable
  <1>1. Live(r, u)' /\ \A s \in Rules \ {r} : Live(s, u)' <=> Live(s, u)
    BY DEF Live
  <1>2. Stack(u)'
    <2>1. CASE Live(r, u)
      <3>1. override[r][u].id # 0 /\ override[r][u].status # "none" /\ override'[r][u].status # "none"
        BY <2>1 DEF UserLimit, Stack, Ids, Live
      <3> QED
        BY <1>1, <2>1, <3>1, StackKept DEF UserLimit
    <2>2. CASE ~Live(r, u)
      <3>1. override[r][u].status = "none"
        BY <1>0, <2>2 DEF Live, Overrides
      <3>2. override[r][u].id = 0
        BY <3>1 DEF UserLimit, Stack, Ids
      <3> QED
        BY <1>1, <2>2, <3>1, <3>2, StackOpened DEF UserLimit
    <2> QED BY <2>1, <2>2
  <1>3. ActiveIsManaged(u)'
    BY DEF UserLimit, ActiveIsManaged
  <1>4. RestoredIsClosed(u)'
    BY DEF UserLimit, RestoredIsClosed, AtLock
  <1> QED BY <1>2, <1>3, <1>4 DEF UserLimit

\* A claim whose condition is met.
LEMMA ClaimLimits ==
    ASSUME ReturnsRowId, FiniteRules, Types, \A s \in Rules : Closed(s) => Closed(s)', NEW u \in Users,
           UserLimit(u), AnswerClaim(u), \A s \in Rules : stage[s] = "live" => stage'[s] = "live"
    PROVE  UserLimit(u)'
  <1>a. queue[u] # <<>> /\ Holder(u).rule \in Rules
    BY HolderIsJob DEF AnswerClaim, AtLock, Types
  <1> SUFFICES ASSUME NEW r \in Rules, r = Holder(u).rule PROVE UserLimit(u)'
    BY <1>a
  <1> DEFINE limit == section[u].limit
             P == Prepared(r, u, limit, remote[u].limit)
  <1>0. AtLock(u, "read") /\ UNCHANGED remote /\ r \in Rules /\ Holder(u) = [kind |-> "claim", rule |-> r]
    <2>1. AtLock(u, "read") /\ UNCHANGED remote /\ queue[u] # <<>> /\ Holder(u).kind = "claim"
      BY DEF AnswerClaim, AtLock
    <2>2. Holder(u) \in Jobs
      BY <2>1, HolderIsJob DEF Types
    <2> QED BY <2>1, <2>2 DEF Jobs
  <1>1. override \in OverrideTable /\ limit \in Limits /\ remote[u].limit \in Nat
    BY DEF Types, RowTypes, LockTypes, Sections, CopyTypes, Accounts
  <1>2. P \in OverrideTable
    BY <1>0, <1>1, PreparedTyped DEF Types
  <1>3. limit # NoLimit =>
           /\ P[r][u].status = "pending"
           /\ P[r][u].original = IF Live(r, u) THEN override[r][u].original ELSE remote[u].limit
           /\ P[r][u].id = IF override[r][u].id = 0 THEN NextId(u) ELSE override[r][u].id
    BY <1>0, <1>1, PreparedRow
  <1>4. \A s \in Rules \ {r} : P[s][u] = override[s][u]
    BY <1>0, <1>1, PreparedOther
  <1>5. limit = NoLimit => P = override
    BY DEF Prepared
  <1>6. \A T \in Targets(r, u, limit) : T = IF limit = NoLimit THEN {} ELSE {<<r, u>>}
    BY DEF Targets
  <1> HIDE DEF P
  <1>7. ASSUME NEW w \in {"grant", "keep"}, NEW G, NEW T \in Targets(r, u, limit), override' = P,
               Send(u, w, G, limit, T), UNCHANGED member, limit # NoLimit => stage[r] = "live"
        PROVE  UserLimit(u)'
    <2>1. /\ section'[u].pc = "write" /\ section'[u].write = w /\ section'[u].mark = T
          /\ Holder(u)' = Holder(u) /\ section'[u].to = limit
      BY <1>7, SentSection DEF Send, Await, Types, LockTypes
    <2>2. CASE limit = NoLimit
      <3>1. Returning(u)'
        BY <1>6, <1>7, <2>1, <2>2 DEF Returning
      <3> QED
        BY <1>0, <1>5, <1>7, <2>1, <2>2, <3>1, RowsKept
    <2>3. CASE limit # NoLimit
      <3>0. stage'[r] = "live"
        BY <1>0, <1>7, <2>3
      <3>1. Live(r, u)'
        <4>1. override'[r][u].status = "pending"
          BY <1>3, <1>7, <2>3
        <4> QED BY <4>1 DEF Live
      <3>2. T = {<<r, u>>}
        BY <1>6, <1>7, <2>3
      <3>3. Returning(u)'
        BY <1>7, <2>1, <3>0, <3>1, <3>2 DEF Returning
      <3>4. /\ override'[r][u].status = "pending"
            /\ override'[r][u].original = IF Live(r, u) THEN override[r][u].original ELSE remote[u].limit
            /\ override'[r][u].id = IF override[r][u].id = 0 THEN NextId(u) ELSE override[r][u].id
            /\ \A s \in Rules \ {r} : override'[s][u] = override[s][u]
        BY <1>3, <1>4, <1>7, <2>3
      <3>5. UNCHANGED <<member, remote>> /\ section'[u].pc # "read"
        BY <1>0, <1>7, <2>1
      <3> QED
        BY <1>0, <2>1, <3>3, <3>4, <3>5, ClaimOpens
    <2> QED BY <2>2, <2>3
  <1>8. ASSUME NEW T \in Targets(r, u, limit), override' = Marked(P, T, "active"), Release(u, TRUE),
               UNCHANGED member, member[r][u] = "managed"
        PROVE  UserLimit(u)'
    <2>1. section'[u].pc = "wait" /\ Returning(u)'
      BY <1>8, ReleasedWaits, WaitsReturns
    <2>2. \A s \in Rules :
             /\ <<s, u>> \notin T => override'[s][u] = P[s][u]
             /\ override'[s][u].id = P[s][u].id
             /\ override'[s][u].original = P[s][u].original
             /\ <<s, u>> \in T /\ P[s][u].id # 0 => override'[s][u].status = "active"
      BY <1>2, <1>8, MarkedFields
    <2>3. CASE limit = NoLimit
      <3>1. \A s \in Rules : override'[s][u] = override[s][u]
        BY <1>5, <1>6, <2>2, <2>3
      <3> QED
        BY <1>0, <1>8, <2>1, <3>1, RowsKept
    <2>4. CASE limit # NoLimit
      <3>1. T = {<<r, u>>}
        BY <1>6, <2>4
      <3>2. NextId(u) \in Nat /\ \A s \in Rules : override[s][u].id < NextId(u) /\ override[s][u].id \in Nat
        BY NextIdIsId, <1>1 DEF Types, OverrideTable, Overrides
      <3>3. P[r][u].id # 0
        BY <1>0, <1>3, <2>4, <3>2
      <3>4. <<r, u>> \in T /\ \A s \in Rules \ {r} : <<s, u>> \notin T
        BY <3>1
      <3>5. override'[r][u].status = "active" /\ \A s \in Rules \ {r} : override'[s][u] = override[s][u]
        BY <1>0, <1>4, <2>2, <3>3, <3>4
      <3>6. /\ override'[r][u].original = IF Live(r, u) THEN override[r][u].original ELSE remote[u].limit
            /\ override'[r][u].id = IF override[r][u].id = 0 THEN NextId(u) ELSE override[r][u].id
        BY <1>0, <1>3, <2>2, <2>4
      <3>7. UNCHANGED <<member, remote>> /\ section'[u].pc # "read"
        BY <1>0, <1>8, <2>1
      <3> HIDE DEF limit
      <3> QED
        BY <1>0, <1>8, <2>1, <3>5, <3>6, <3>7, ClaimOpens
    <2> QED BY <2>3, <2>4
  <1>9. ASSUME NEW ok, Release(u, ok), override' = override,
               \/ UNCHANGED member
               \/ Become(r, u, "preexisting") /\ member[r][u] # "managed"
        PROVE  UserLimit(u)'
    <2>1. section'[u].pc = "wait" /\ Returning(u)'
      BY <1>9, ReleasedWaits, WaitsReturns
    <2>2. \A s \in Rules : override[s][u].status = "active" => member'[s][u] = member[s][u]
      BY <1>0, <1>9 DEF Become, Types, RowTypes, UserLimit, ActiveIsManaged
    <2> QED
      BY <1>0, <1>9, <2>1, <2>2, RowsKept
  <1>10. CASE Release(u, TRUE) /\ UNCHANGED rows
    BY <1>9, <1>10 DEF rows
  <1>11. CASE ApplyClaim(u, r, limit, remote[u])
    <2>1. CASE \E T \in Targets(r, u, limit) :
                 /\ Grants(r, remote[u]) /\ (stage[r] = "live" \/ limit = NoLimit) /\ override' = P
                 /\ Send(u, "grant", remote[u].groups \cup {r}, limit, T) /\ UNCHANGED member
      BY <1>7, <2>1
    <2>2. CASE \E T \in Targets(r, u, limit) :
                 /\ stage[r] = "live" /\ override' = P
                 /\ Send(u, "keep", remote[u].groups, limit, T) /\ UNCHANGED member
      BY <1>7, <2>2
    <2>3. CASE \E T \in Targets(r, u, limit) :
                 /\ KeepsManaged(r, u, remote[u]) /\ override' = Marked(P, T, "active")
                 /\ Release(u, TRUE) /\ UNCHANGED member
      BY <1>8, <2>3 DEF KeepsManaged
    <2>4. CASE /\ KeepsOther(r, u, remote[u]) /\ Become(r, u, "preexisting") /\ Release(u, TRUE)
               /\ UNCHANGED override
      BY <1>9, <2>4 DEF KeepsOther
    <2>5. CASE Release(u, FALSE) /\ UNCHANGED rows
      BY <1>9, <2>5 DEF rows
    <2> QED
      BY <1>11, <2>1, <2>2, <2>3, <2>4, <2>5 DEF ApplyClaim, P
  <1> QED BY <1>10, <1>11 DEF AnswerClaim

\* A revocation without a group to take away gives a limit back, if there is one.
LEMMA NoRevokeLimits ==
    ASSUME AtMostTwo, FiniteRules, Types, \A s \in Rules : Closed(s) => Closed(s)', NEW u \in Users,
           UserLimit(u), NEW r \in Rules, r = Holder(u).rule, Closed(r),
           NEW v, ApplyNoRevoke(u, r, v), UNCHANGED remote
    PROVE  UserLimit(u)'
  <1>1. ASSUME NEW m, Become(r, u, m), Release(u, TRUE), UNCHANGED override,
               member[r][u] # "managed" \/ ~Live(r, u)
        PROVE  UserLimit(u)'
    <2>1. section'[u].pc = "wait" /\ Returning(u)'
      BY <1>1, ReleasedWaits, WaitsReturns
    <2>2. override[r][u].status # "active"
      BY <1>1 DEF UserLimit, ActiveIsManaged, Live
    <2>3. \A s \in Rules : override[s][u].status = "active" => member'[s][u] = member[s][u]
      BY <1>1, <2>2 DEF Become, Types, RowTypes
    <2> QED
      BY <1>1, <2>1, <2>3, RowsKept
  <1>2. ASSUME Release(u, TRUE), UNCHANGED <<member, override>> PROVE UserLimit(u)'
    <2>1. section'[u].pc = "wait" /\ Returning(u)'
      BY <1>2, ReleasedWaits, WaitsReturns
    <2> QED
      BY <1>2, <2>1, RowsKept
  <1>3. ASSUME override' = Carried(r, u), UNCHANGED member,
               Send(u, "missing", v.groups, RestoreTo(r, u), Own(r, u))
        PROVE  UserLimit(u)'
    BY <1>3, RestoreSent
  <1> QED
    BY <1>1, <1>2, <1>3 DEF ApplyNoRevoke, KeepsOther, rows

\* A restoration that finds the user at the limit to go back to.
LEMMA AlreadyBack ==
    ASSUME AtMostTwo, FiniteRules, Types, \A s \in Rules : Closed(s) => Closed(s)', NEW u \in Users,
           UserLimit(u), NEW r \in Rules, Live(r, u), Closed(r), section'[u].pc = "wait",
           override' = Marked(Carried(r, u), {<<r, u>>}, "restored"),
           UNCHANGED <<member, remote>>, remote[u].limit = RestoreTo(r, u)
    PROVE  UserLimit(u)'
  <1> DEFINE C == Carried(r, u)
             T == {<<r, u>>}
  <1>1. override \in OverrideTable /\ Stack(u)
    BY DEF Types, RowTypes, UserLimit
  <1>2. C \in OverrideTable
    BY StackWrites DEF Types
  <1>3. \A s \in Rules : C[s][u].id = override[s][u].id /\ C[s][u].status = override[s][u].status
    BY <1>1, CarriedFields
  <1>4. /\ Others(r, u) = {} => RestoreTo(r, u) = Base
        /\ \A t \in Others(r, u) : C[t][u].original = Base
    BY <1>1, BaseHandedOn
  <1>5. C[r][u].id # 0 /\ <<r, u>> \in T /\ override' = Marked(C, T, "restored")
    BY <1>1, <1>3 DEF Stack, Ids, Live
  <1>6. \A s \in Rules \ {r} : <<s, u>> \notin T
    OBVIOUS
  <1> HIDE DEF C, T
  <1>7. \A s \in Rules :
           /\ <<s, u>> \notin T => override'[s][u] = C[s][u]
           /\ override'[s][u].id = C[s][u].id
           /\ override'[s][u].original = C[s][u].original
           /\ <<s, u>> \in T /\ C[s][u].id # 0 => override'[s][u].status = "restored"
    BY <1>2, <1>5, MarkedFields
  <1>8. override'[r][u].status = "restored"
    BY <1>5, <1>7
  <1>9. \A s \in Rules : /\ override'[s][u].id = override[s][u].id
                         /\ s # r => override'[s][u].status = override[s][u].status
    BY <1>3, <1>6, <1>7
  <1>10. \A t \in Others(r, u) : override'[t][u].original = Base
    BY <1>4, <1>7 DEF Others
  <1> QED
    BY <1>4, <1>8, <1>9, <1>10, OpenIsClosed

\* The call under way fails: the row it was for stays open, and is tried again.
LEMMA FailureLimits ==
    ASSUME IInv, Types, \A s \in Rules : Closed(s) => Closed(s)', NEW u \in Users, UserLimit(u), WriteFails(u)
    PROVE  UserLimit(u)'
  <1>1. queue[u] # <<>> /\ Holder(u).rule \in Rules /\ InFlight(u) /\ section[u].pc = "write"
    BY HolderIsJob DEF WriteFails, AtLock, Types, IInv
  <1> SUFFICES ASSUME NEW r \in Rules, r = Holder(u).rule PROVE UserLimit(u)'
    BY <1>1
  <1>2. /\ override' = Marked(override, section[u].mark, "failed") /\ UNCHANGED member
        /\ section'[u].pc = "wait" /\ Returning(u)'
    BY ReleasedWaits, WaitsReturns DEF WriteFails
  <1>3. remote'[u].limit \in {remote[u].limit, Written(u).limit}
    BY DEF WriteFails, Land, Types, CopyTypes
  <1>4. \/ section[u].mark = {} /\ section[u].to = NoLimit
        \/ section[u].mark = {<<r, u>>} /\ Live(r, u)
    BY <1>1 DEF InFlight, UserLimit, Returning
  <1>5. CASE section[u].mark = {} /\ section[u].to = NoLimit
    <2>1. remote'[u].limit = remote[u].limit
      BY <1>3, <1>5 DEF Written
    <2>2. \A s \in Rules : override'[s][u] = override[s][u]
      BY <1>2, <1>5, MarkedNone
    <2> QED BY <1>2, <2>1, <2>2, RowsKept
  <1>6. CASE section[u].mark = {<<r, u>>} /\ Live(r, u)
    <2>1. RowMarked(r, u, "failed")
      BY <1>2, <1>6, MarkedOne DEF UserLimit, Stack
    <2> QED BY <1>2, <1>6, <2>1, OpenStaysOpen
  <1> QED BY <1>4, <1>5, <1>6

\* The call under way succeeds: a claim has its limit, or the limit has gone back.
LEMMA SuccessLimits ==
    ASSUME IInv, Types, \A s \in Rules : Closed(s) => Closed(s)', NEW u \in Users, UserLimit(u), WriteSucceeds(u)
    PROVE  UserLimit(u)'
  <1>1. queue[u] # <<>> /\ Holder(u).rule \in Rules /\ InFlight(u) /\ section[u].pc = "write"
    BY HolderIsJob DEF WriteSucceeds, AtLock, Types, IInv
  <1> SUFFICES ASSUME NEW r \in Rules, r = Holder(u).rule PROVE UserLimit(u)'
    BY <1>1
  <1> DEFINE w == section[u].write
             T == section[u].mark
             to == section[u].to
  <1>2. /\ override' = Marked(override, T, IF w \in {"grant", "keep"} THEN "active" ELSE "restored")
        /\ IF w = "restore" \/ stage[r] # "live" THEN UNCHANGED member ELSE Become(r, u, AfterWrite[w])
        /\ section'[u].pc = "wait" /\ Returning(u)'
    BY ReleasedWaits, WaitsReturns DEF WriteSucceeds
  <1>3. remote'[u].limit = IF to = NoLimit THEN remote[u].limit ELSE to
    BY DEF WriteSucceeds, Land, Types, CopyTypes, Written
  <1>4. \A s \in Rules \ {r} : member'[s][u] = member[s][u]
    BY <1>2 DEF Become, Types, RowTypes
  <1>5. w \in {"grant", "keep"} /\ stage[r] = "live" => member'[r][u] = "managed"
    <2>1. w \in {"grant", "keep"} => AfterWrite[w] = "managed" /\ w # "restore"
      BY DEF AfterWrite
    <2> QED
      BY <1>2, <2>1 DEF Become, Types, RowTypes
  <1>6. w \in {"grant", "keep"} \/ w \in {"revoke", "missing", "restore"}
    BY <1>1 DEF InFlight
  <1>7. CASE T = {} /\ to = NoLimit
    <2>1. \A s \in Rules : override'[s][u] = override[s][u]
      BY <1>2, <1>7, MarkedNone
    <2>2. \A s \in Rules : override[s][u].status = "active" => member'[s][u] = member[s][u]
      <3>1. CASE override[r][u].status # "active"
        BY <1>4, <3>1
      <3>2. CASE override[r][u].status = "active" /\ w \in {"grant", "keep"}
        <4>1. member[r][u] = "managed"
          BY <3>2 DEF UserLimit, ActiveIsManaged
        <4> QED
          BY <1>2, <1>4, <1>5, <3>2, <4>1
      <3>3. CASE override[r][u].status = "active" /\ w \in {"revoke", "missing", "restore"}
        BY <1>1, <1>7, <3>3 DEF UserLimit, Returning, Live
      <3> QED BY <1>6, <3>1, <3>2, <3>3
    <2> QED BY <1>2, <1>3, <1>7, <2>1, <2>2, RowsKept
  <1>8. CASE w \in {"grant", "keep"} /\ T = {<<r, u>>} /\ Live(r, u) /\ stage[r] = "live"
    <2>1. RowMarked(r, u, "active")
      BY <1>2, <1>8, MarkedOne DEF UserLimit, Stack
    <2> QED BY <1>2, <1>4, <1>5, <1>8, <2>1, OpenStaysOpen
  <1>9. CASE /\ w \in {"revoke", "missing", "restore"} /\ T = {<<r, u>>} /\ Live(r, u) /\ Closed(r)
             /\ Others(r, u) = {} => to = Base
             /\ \A t \in Others(r, u) : override[t][u].original = Base
    <2>1. RowMarked(r, u, "restored")
      BY <1>2, <1>9, MarkedOne DEF UserLimit, Stack
    <2>2. Others(r, u) = {} => remote'[u].limit = Base
      BY <1>3, <1>9, GroupAssumption
    <2>3. /\ override'[r][u].status = "restored"
          /\ \A s \in Rules : /\ override'[s][u].id = override[s][u].id
                              /\ s # r => override'[s][u].status = override[s][u].status
          /\ \A t \in Others(r, u) : override'[t][u].original = Base
      BY <1>9, <2>1 DEF RowMarked, Others
    <2> HIDE DEF w, T, to
    <2> QED BY <1>2, <1>4, <1>9, <2>2, <2>3, OpenIsClosed
  <1> QED
    BY <1>1, <1>6, <1>7, <1>8, <1>9 DEF UserLimit, Returning

\* A job that goes on.
LEMMA TurnLimits ==
    ASSUME ReturnsRowId, AtMostTwo, FiniteRules, IInv, Types, Closing, \A s \in Rules : Closed(s) => Closed(s)',
           NEW u \in Users, UserLimit(u), Enter(u) \/ Answer(u) \/ Settle(u)
    PROVE  UserLimit(u)'
  <1>1. queue[u] # <<>> /\ Holder(u).rule \in Rules /\ stage' = stage
    BY Turn, HolderIsJob DEF Types, rules
  <1> SUFFICES ASSUME NEW r \in Rules, r = Holder(u).rule PROVE UserLimit(u)'
    BY <1>1
  <1>2. Holder(u).kind # "claim" => Closed(r)
    <2>1. 1 \in 1..Len(queue[u]) /\ queue[u][1] = Holder(u)
      BY <1>1 DEF Types, LockTypes, Holder
    <2> QED BY <2>1 DEF Closing
  <1>3. ASSUME NEW ok, Release(u, ok), UNCHANGED rows, UNCHANGED remote PROVE UserLimit(u)'
    <2>1. section'[u].pc = "wait" /\ Returning(u)'
      BY <1>3, ReleasedWaits, WaitsReturns
    <2> QED BY <1>3, <2>1, RowsKept DEF rows
  <1>4. ASSUME NEW limit, Read(u, limit), UNCHANGED rows, UNCHANGED remote,
               Holder(u).kind = "claim" => Claimable(r), Holder(u).kind = "restore" => Live(r, u)
        PROVE  UserLimit(u)'
    <2>1. section'[u].pc = "read" /\ queue' = queue /\ Holder(u)' = Holder(u)
      BY <1>4, ReadSection
    <2>2. Live(r, u)' <=> Live(r, u)
      BY <1>4 DEF Live, rows
    <2>3. Returning(u)'
      BY <1>4, <2>1, <2>2 DEF Returning
    <2> QED BY <1>4, <2>1, <2>3, RowsKept DEF rows
  <1>5. CASE EnterClaim(u)
    BY <1>3, <1>4, <1>5 DEF EnterClaim, copies
  <1>6. CASE EnterRevoke(u)
    <2>1. Holder(u).kind = "revoke" /\ UNCHANGED remote
      BY <1>6 DEF EnterRevoke, copies
    <2>2. CASE Read(u, NoLimit) /\ UNCHANGED rows
      BY <1>4, <2>1, <2>2
    <2>3. CASE ApplyNoRevoke(u, r, local[u])
      BY <1>2, <2>1, <2>3, NoRevokeLimits
    <2> QED BY <1>6, <2>2, <2>3 DEF EnterRevoke
  <1>7. CASE EnterRestore(u)
    <2>1. Holder(u).kind = "restore" /\ UNCHANGED <<rows, remote>>
      BY <1>7 DEF EnterRestore, copies
    <2>2. CASE Live(r, u) /\ Read(u, NoLimit)
      BY <1>4, <2>1, <2>2
    <2>3. CASE Release(u, TRUE)
      BY <1>3, <2>1, <2>3
    <2> QED BY <1>7, <2>2, <2>3 DEF EnterRestore
  <1>8. CASE AnswerClaim(u)
    BY <1>1, <1>8, ClaimLimits
  <1>9. CASE AnswerRevoke(u)
    <2>1. Holder(u).kind = "revoke" /\ UNCHANGED remote
      BY <1>9 DEF AnswerRevoke
    <2>2. CASE ApplyNoRevoke(u, r, remote[u])
      BY <1>2, <2>1, <2>2, NoRevokeLimits
    <2>3. ASSUME override' = Carried(r, u), UNCHANGED member, NEW G,
                 Send(u, "revoke", G, RestoreTo(r, u), Own(r, u))
          PROVE  UserLimit(u)'
      BY <1>2, <2>1, <2>3, RestoreSent
    <2> QED BY <1>9, <2>2, <2>3 DEF AnswerRevoke, ApplyRevoke
  <1>10. CASE AnswerRestore(u)
    <2>1. Holder(u).kind = "restore" /\ UNCHANGED remote /\ section[u].pc = "read"
      BY <1>10 DEF AnswerRestore, AtLock
    <2>2. Closed(r) /\ Live(r, u)
      BY <1>2, <2>1 DEF UserLimit, Returning
    <2>3. ASSUME override' = Carried(r, u), UNCHANGED member, NEW G,
                 Send(u, "restore", G, RestoreTo(r, u), Own(r, u))
          PROVE  UserLimit(u)'
      BY <2>1, <2>2, <2>3, RestoreSent
    <2>4. ASSUME override' = Marked(Carried(r, u), {<<r, u>>}, "restored"), Release(u, TRUE),
                 UNCHANGED member, remote[u].limit = RestoreTo(r, u)
          PROVE  UserLimit(u)'
      BY <2>1, <2>2, <2>4, ReleasedWaits, AlreadyBack
    <2> QED BY <1>10, <2>2, <2>3, <2>4 DEF AnswerRestore
  <1>11. CASE ReadFails(u)
    <2>1. section[u].pc = "read" /\ Release(u, FALSE) /\ UNCHANGED <<member, remote>>
      BY <1>11 DEF ReadFails, AtLock, copies
    <2>2. CASE Holder(u).kind = "restore"
      <3>1. Live(r, u) /\ override' = Marked(override, {<<r, u>>}, "failed")
        BY <1>11, <2>1, <2>2 DEF ReadFails, UserLimit, Returning
      <3>2. RowMarked(r, u, "failed")
        BY <3>1, MarkedOne DEF UserLimit, Stack
      <3> QED BY <2>1, <3>1, <3>2, ReleasedWaits, OpenStaysOpen
    <2>3. CASE Holder(u).kind # "restore"
      BY <1>3, <1>11, <2>1, <2>3 DEF ReadFails, rows
    <2> QED BY <2>2, <2>3
  <1> QED
    BY <1>5, <1>6, <1>7, <1>8, <1>9, <1>10, <1>11, FailureLimits, SuccessLimits DEF Enter, Answer, Settle

-----------------------------------------------------------------------------
(* All other steps.                                                        *)

\* No rule is deleted, so none stops being live and no row is dropped with its rule.
LEMMA NoDeletesNext ==
    ASSUME NoReopening, Types, NoDeletes, [Next]_vars
    PROVE  /\ NoDeletes'
           /\ \A r \in Rules : stage[r] = "live" => stage'[r] = "live"
           /\ \A r \in Rules : RunEnd(r) => override' = override
  <1>0. /\ run \in [Rules -> Runs] /\ request \in [Rules -> {"none", "revoke", "delete"}]
        /\ stage \in [Rules -> {"none", "live", "deleted"}]
    BY DEF Types, TaskTypes, RuleTypes
  <1>1. ASSUME NEW u \in Users, Enter(u) \/ Answer(u) \/ Settle(u)
        PROVE  stage' = stage /\ NoDeletes'
    <2>1. stage' = stage /\ ((\E ok \in BOOLEAN : Release(u, ok)) \/ \E s : Await(u, s))
      BY <1>1, Turn DEF rules
    <2>2. Holder(u).rule \in Rules
      BY <1>1, Turn, HolderIsJob DEF Types
    <2>3. request' = request /\ \A r \in Rules : run'[r].mode = run[r].mode
      <3>1. CASE \E ok \in BOOLEAN : Release(u, ok)
        BY <1>0, <2>2, <3>1 DEF Release, Notify, Runs
      <3>2. CASE \E s : Await(u, s)
        BY <3>2 DEF Await, tasks
      <3> QED BY <2>1, <3>1, <3>2
    <2> QED BY <2>1, <2>3 DEF NoDeletes
  <1>2. ASSUME NEW u \in Users,
               LookupReads(u) \/ LookupStores(u) \/ \E r \in Rules : Claim(r, u) \/ ManualEdit(u, r)
        PROVE  stage' = stage /\ NoDeletes'
    BY <1>2 DEF LookupReads, LookupStores, Claim, ManualEdit, rules, tasks, NoDeletes
  <1>3. ASSUME NEW r \in Rules, RunNext(r) PROVE stage' = stage /\ NoDeletes'
    <2>1. PICK u : run' = [run EXCEPT ![r].todo = @ \ {u}, ![r].busy = TRUE]
      BY <1>3 DEF RunNext
    <2>2. \A s \in Rules : run'[s].mode = run[s].mode
      BY <1>0, <2>1 DEF Runs
    <2> QED BY <1>3, <2>2 DEF RunNext, NoDeletes, rules
  <1>4. ASSUME NEW r \in Rules, RunEnd(r) PROVE stage' = stage /\ override' = override /\ NoDeletes'
    BY <1>0, <1>4 DEF RunEnd, NoDeletes, NoRun
  <1>5. ASSUME NEW r \in Rules, RevokeNow(r) PROVE stage' = stage /\ NoDeletes'
    <2>1. run' = [run EXCEPT ![r].fresh = FALSE] /\ request' = [request EXCEPT ![r] = "revoke"]
      BY <1>5 DEF RevokeNow
    <2>2. \A s \in Rules : run'[s].mode = run[s].mode /\ request'[s] \in {request[s], "revoke"}
      BY <1>0, <2>1 DEF Runs
    <2> QED BY <1>5, <2>2 DEF RevokeNow, NoDeletes
  <1>6. ASSUME NEW r \in Rules, DeleteRule(r) PROVE FALSE
    BY <1>6 DEF DeleteRule, Disturb, NoReopening
  <1>7. ASSUME NEW r \in Rules, NEW mode, mode # "delete", BeginRun(r, mode)
        PROVE  \A s \in Rules : run'[s].mode = "delete" => run[s].mode = "delete"
    BY <1>0, <1>7 DEF BeginRun
  <1>8. ASSUME NEW r \in Rules, Requested(r) PROVE stage' = stage /\ NoDeletes'
    <2>1. request[r] # "delete" /\ \A s \in Rules : request'[s] \in {request[s], "none"}
      BY <1>0, <1>8 DEF Requested, NoDeletes
    <2>2. \A s \in Rules : run'[s].mode = "delete" => run[s].mode = "delete"
      BY <1>7, <1>8, <2>1 DEF Requested
    <2> QED BY <1>8, <2>1, <2>2 DEF Requested, NoDeletes, rules
  <1>9. ASSUME NEW r \in Rules, NEW t \in Terms, CreateRule(r, t)
        PROVE  NoDeletes' /\ \A s \in Rules : stage[s] = "live" => stage'[s] = "live"
    BY <1>0, <1>9 DEF CreateRule, NoDeletes, tasks
  <1>10. ASSUME NEW r \in Rules, NEW t \in Terms, NEW on \in BOOLEAN, UpdateRule(r, t, on) PROVE FALSE
    BY <1>10 DEF UpdateRule, Disturb, NoReopening
  <1>11. ASSUME NEW r \in Rules, SchedRevoke(r) PROVE stage' = stage /\ NoDeletes'
    <2>1. \A s \in Rules : run'[s].mode = "delete" => run[s].mode = "delete"
      BY <1>7, <1>11 DEF SchedRevoke
    <2> QED BY <1>11, <2>1 DEF SchedRevoke, NoDeletes, rules
  <1>12. ASSUME Schedule \/ SchedRestore \/ SchedDue \/ SchedEnd \/ Tick \/ UNCHANGED vars
         PROVE  stage' = stage /\ NoDeletes'
    BY <1>12 DEF Schedule, SchedRestore, SchedDue, SchedEnd, Tick, vars, rules, tasks, NoDeletes
  <1>13. ASSUME Crash PROVE stage' = stage /\ NoDeletes'
    BY <1>13 DEF Crash, rules, NoDeletes, NoRun
  <1> QED
    BY <1>1, <1>2, <1>3, <1>4, <1>5, <1>6, <1>8, <1>9, <1>10, <1>11, <1>12, <1>13 DEF Next, Timer

\* A user whose rows, limit and lock holder are left alone.
LEMMA BystanderLimits ==
    ASSUME Types, \A s \in Rules : Closed(s) => Closed(s)',
           \A s \in Rules : stage[s] = "live" => stage'[s] = "live",
           NEW v \in Users, UserLimit(v),
           \A s \in Rules : override'[s][v] = override[s][v] /\ member'[s][v] = member[s][v],
           remote'[v].limit = remote[v].limit, section'[v] = section[v],
           queue[v] # <<>> => queue'[v] # <<>> /\ Head(queue'[v]) = Head(queue[v])
    PROVE  UserLimit(v)'
  <1>1. Stack(v)' /\ ActiveIsManaged(v)'
    BY StackKept DEF UserLimit, Live, ActiveIsManaged
  <1>2. \A s \in Rules : Live(s, v)' <=> Live(s, v)
    BY DEF Live
  <1>3. \A s \in Rules : Others(s, v)' = Others(s, v)
    BY <1>2 DEF Others
  <1>4. CASE queue[v] = <<>>
    <2>1. section'[v].pc = "wait"
      BY <1>4 DEF Types, LockTypes, Sections
    <2>2. RestoredIsClosed(v)'
      BY <2>1, WaitsReturns DEF UserLimit, RestoredIsClosed
    <2> QED BY <1>1, <2>1, <2>2, WaitsReturns DEF UserLimit
  <1>5. CASE queue[v] # <<>>
    <2>1. Holder(v)' = Holder(v) /\ Holder(v).rule \in Rules
      BY <1>5, HolderIsJob DEF Holder, Types
    <2>2. AtLock(v, "read")' <=> AtLock(v, "read")
      BY <1>5 DEF AtLock
    <2>3. RestoredIsClosed(v)'
      BY <2>1, <2>2 DEF UserLimit, RestoredIsClosed
    <2>4. Returning(v)'
      <3>1. \A s \in Rules : \A t \in Others(s, v) : t \in Rules
        BY DEF Others
      <3> QED
        BY <1>2, <1>3, <2>1, <3>1 DEF UserLimit, Returning
    <2> QED BY <1>1, <2>3, <2>4 DEF UserLimit
  <1> QED BY <1>4, <1>5

\* The process crashes: a call under way sets a limit only while an override is open.
LEMMA CrashLimits ==
    ASSUME IInv, Types, \A s \in Rules : Closed(s) => Closed(s)', Crash, NEW v \in Users, UserLimit(v)
    PROVE  UserLimit(v)'
  <1>1. PICK L \in SUBSET {u \in Users : section[u].pc = "write"} :
           remote' = [u \in Users |-> IF u \in L THEN Written(u) ELSE remote[u]]
    BY DEF Crash
  <1>2. UNCHANGED <<member, override>> /\ section'[v].pc = "wait"
    BY DEF Crash, rows, Outside
  <1>3. (\E s \in Rules : Live(s, v)) \/ remote'[v].limit = remote[v].limit
    <2>1. CASE v \in L
      <3>1. section[v].pc = "write" /\ InFlight(v) /\ Holder(v).rule \in Rules
        BY <2>1, HolderIsJob DEF IInv, Types, LockTypes
      <3>2. section[v].to = NoLimit \/ Live(Holder(v).rule, v)
        BY <3>1 DEF InFlight, UserLimit, Returning
      <3> QED BY <1>1, <2>1, <3>1, <3>2 DEF Written
    <2>2. CASE v \notin L
      BY <1>1, <2>2
    <2> QED BY <2>1, <2>2
  <1>4. Stack(v)'
    BY <1>2, <1>3, StackKept DEF UserLimit, Live
  <1>5. ActiveIsManaged(v)' /\ RestoredIsClosed(v)'
    BY <1>2, WaitsReturns DEF UserLimit, ActiveIsManaged, RestoredIsClosed
  <1> QED BY <1>2, <1>4, <1>5, WaitsReturns DEF UserLimit

\* Steps of runs, the timer, administrators and other handlers.
LEMMA AsideLimits ==
    ASSUME NoReopening, Types, NoDeletes, [Next]_vars, ~Crash,
           \A u \in Users : ~(Enter(u) \/ Answer(u) \/ Settle(u)), NEW v \in Users
    PROVE  UNCHANGED <<member, override>> /\ remote'[v].limit = remote[v].limit
  <1>1. ASSUME NEW u \in Users, LookupReads(u) \/ LookupStores(u) \/ \E r \in Rules : Claim(r, u)
        PROVE  UNCHANGED <<member, override, remote>>
    BY <1>1 DEF LookupReads, LookupStores, Claim, rows, copies
  <1>2. ASSUME NEW u \in Users, NEW r \in Rules, ManualEdit(u, r)
        PROVE  UNCHANGED <<member, override>> /\ remote'[v].limit = remote[v].limit
    <2>1. remote[v] \in Accounts
      BY DEF Types, CopyTypes
    <2>2. /\ UNCHANGED <<member, override>>
          /\ remote' = [remote EXCEPT ![u].groups = IF r \in @ THEN @ \ {r} ELSE @ \cup {r}]
      BY <1>2 DEF ManualEdit, rows
    <2>3. remote'[v].limit = remote[v].limit
      BY <2>1, <2>2 DEF Types, CopyTypes, Accounts
    <2> QED BY <2>2, <2>3
  <1>3. ASSUME NEW r \in Rules,
               \/ RunNext(r) \/ RunEnd(r) \/ RevokeNow(r) \/ DeleteRule(r) \/ Requested(r)
               \/ \E t \in Terms : CreateRule(r, t) \/ \E on \in BOOLEAN : UpdateRule(r, t, on)
        PROVE  UNCHANGED <<member, override, remote>>
    <2>1. UNCHANGED <<member, remote>>
      BY <1>3 DEF RunNext, RunEnd, RevokeNow, DeleteRule, Requested, CreateRule, UpdateRule, rows, copies
    <2>2. override' = override \/ RunEnd(r)
      BY <1>3 DEF RunNext, RevokeNow, DeleteRule, Requested, CreateRule, UpdateRule, rows
    <2> QED BY <2>1, <2>2, NoDeletesNext
  <1>4. CASE Timer \/ Tick \/ UNCHANGED vars
    BY <1>4 DEF Timer, Schedule, SchedRestore, SchedDue, SchedEnd, SchedRevoke, Tick, vars, rows, copies
  <1> QED BY <1>1, <1>2, <1>3, <1>4 DEF Next

LEMMA LimitNext ==
    ASSUME ReturnsRowId, NoReopening, FiniteRules, AtMostTwo, IInv, Types, LimitInv, [Next]_vars
    PROVE  LimitInv'
  <1>0. /\ \A r \in Rules : Closed(r) => Closed(r)'
        /\ \A r \in Rules : stage[r] = "live" => stage'[r] = "live"
    BY ClosedStays, NoDeletesNext DEF LimitInv
  <1>1. Closing' /\ NoDeletes'
    BY ClosingNext, NoDeletesNext DEF LimitInv
  <1>2. ASSUME NEW v \in Users PROVE UserLimit(v)'
    <2>0. UserLimit(v) /\ Closing /\ NoDeletes
      BY DEF LimitInv
    <2>1. ASSUME NEW u \in Users, Enter(u) \/ Answer(u) \/ Settle(u) PROVE UserLimit(v)'
      <3>1. CASE v = u
        BY <1>0, <2>0, <2>1, <3>1, TurnLimits
      <3>2. CASE v # u
        <4>1. Returning(u) /\ v \in Users \ {u}
          BY <3>2 DEF LimitInv, UserLimit
        <4>2. \A s \in Rules : override'[s][v] = override[s][v]
          BY <2>1, <4>1, TurnRows
        <4>3. /\ \A s \in Rules : member'[s][v] = member[s][v]
              /\ remote'[v] = remote[v] /\ queue'[v] = queue[v] /\ section'[v] = section[v]
          BY <2>1, <4>1, TurnOfOther
        <4> QED BY <1>0, <2>0, <4>2, <4>3, BystanderLimits
      <3> QED BY <3>1, <3>2
    <2>2. CASE Crash
      BY <1>0, <2>0, <2>2, CrashLimits
    <2>3. CASE ~Crash /\ \A u \in Users : ~(Enter(u) \/ Answer(u) \/ Settle(u))
      <3>1. UNCHANGED <<member, override>> /\ remote'[v].limit = remote[v].limit
        BY <2>0, <2>3, AsideLimits
      <3>2. /\ section'[v] = section[v]
            /\ queue[v] # <<>> => queue'[v] # <<>> /\ Head(queue'[v]) = Head(queue[v])
        BY <2>3, AsideMarks
      <3> QED BY <1>0, <2>0, <3>1, <3>2, BystanderLimits
    <2> QED BY <2>1, <2>2, <2>3
  <1> QED BY <1>1, <1>2 DEF LimitInv

LEMMA LimitInit == Init => LimitInv
  <1> SUFFICES ASSUME Init PROVE LimitInv
    OBVIOUS
  <1>1. Closing /\ NoDeletes
    BY GoneInit DEF GoneInv, Init, NoDeletes, NoRun
  <1>2. ASSUME NEW u \in Users PROVE UserLimit(u)
    <2>1. \A r \in Rules : override[r][u] = NoRow
      BY DEF Init
    <2>2. \A r \in Rules : override[r][u].status = "none" /\ override[r][u].id = 0
      BY <2>1 DEF NoRow
    <2>3. remote[u].limit = Base
      BY DEF Init
    <2>4. Ids(u) /\ OldestHasBase(u) /\ NoneIsBase(u)
      BY <2>2, <2>3 DEF Ids, OldestHasBase, NoneIsBase, Live
    <2>5. ActiveIsManaged(u) /\ RestoredIsClosed(u)
      BY <2>2 DEF ActiveIsManaged, RestoredIsClosed
    <2>6. Returning(u)
      BY DEF Init, Outside, Returning
    <2> QED BY <2>4, <2>5, <2>6 DEF UserLimit, Stack
  <1> QED BY <1>1, <1>2 DEF LimitInv

\* Who holds no activity any more has the limit from before, for any number of rules
\* and users, in whatever order activities end, whatever calls fail, when users are
\* edited or refreshed meanwhile and should the process crash: as long as a user holds
\* at most two limits at a time, rules are neither updated nor deleted, and the upsert
\* reports the row it has written (PostgreSQL).
THEOREM LimitComesBack ==
    ASSUME FiniteRules, NoReopening, ReturnsRowId
    PROVE  Spec /\ []AtMostTwo => []LimitReturns
  <1>1. Init => IInv /\ Types /\ LimitInv
    BY InvInit, TypesInit, LimitInit
  <1>2. AtMostTwo /\ (IInv /\ Types /\ LimitInv) /\ [Next]_vars => (IInv /\ Types /\ LimitInv)'
    BY InvNext, TypesNext, LimitNext
  <1>3. LimitInv => LimitReturns
    BY LimitInvReturns
  <1> QED BY <1>1, <1>2, <1>3, PTL DEF Spec

\* With two rules nobody can hold three limits.
COROLLARY LimitOfTwoComesBack ==
    ASSUME NEW a, NEW b, Rules = {a, b}, NoReopening, ReturnsRowId
    PROVE  Spec => []LimitReturns
  <1>1. FiniteRules
    <2>1. IsFiniteSet(({} \cup {a}) \cup {b})
      BY FS_EmptySet, FS_AddElement
    <2>2. Rules = ({} \cup {a}) \cup {b}
      OBVIOUS
    <2> QED BY <2>1, <2>2 DEF FiniteRules
  <1>2. AtMostTwo
    BY DEF AtMostTwo
  <1>3. Spec /\ []AtMostTwo => []LimitReturns
    BY <1>1, LimitComesBack
  <1> QED BY <1>2, <1>3, PTL

-----------------------------------------------------------------------------
(* The refinement of EntitlementContract.  It also holds for users that are *)
(* edited at Sub2API, so it rests on more than the copies being in step.    *)

\* A write under way was decided on the groups and the membership as they still are.
Sending(u) ==
    LET r == Holder(u).rule
        w == section[u].write
    IN  section[u].pc = "write" =>
            /\ w = "grant" => Holder(u).kind = "claim" /\ r \notin remote[u].groups
            /\ w = "keep" => Holder(u).kind = "claim" /\ member[r][u] = "managed"
            /\ w = "revoke" => /\ Holder(u).kind = "revoke"
                               /\ member[r][u] = "managed" /\ r \in remote[u].groups
            /\ w = "missing" => Holder(u).kind = "revoke"

ContractInv == IInv /\ Types /\ GoneInv /\ \A u \in Users : Sending(u)

\* What a job of u sends is decided in the same step.
LEMMA TurnSends ==
    ASSUME Types, NEW u \in Users, Enter(u) \/ Answer(u) \/ Settle(u)
    PROVE  Sending(u)'
  <1> DEFINE r == Holder(u).rule
  <1>1. ASSUME NEW ok, Release(u, ok) PROVE Sending(u)'
    BY <1>1, ReleasedWaits DEF Sending
  <1>2. ASSUME NEW limit, Read(u, limit) PROVE Sending(u)'
    BY <1>2, ReadSection DEF Sending
  <1>3. ASSUME UNCHANGED <<member, remote>>, NEW w, NEW G, NEW to, NEW T, Send(u, w, G, to, T),
               w = "grant" => Holder(u).kind = "claim" /\ r \notin remote[u].groups,
               w = "keep" => Holder(u).kind = "claim" /\ member[r][u] = "managed",
               w = "revoke" => /\ Holder(u).kind = "revoke"
                               /\ member[r][u] = "managed" /\ r \in remote[u].groups,
               w = "missing" => Holder(u).kind = "revoke"
        PROVE  Sending(u)'
    BY <1>3, SentSection DEF Sending
  <1>4. ASSUME NEW v, ApplyNoRevoke(u, r, v), Holder(u).kind = "revoke", UNCHANGED remote
        PROVE  Sending(u)'
    <2>1. \/ \E ok : Release(u, ok)
          \/ UNCHANGED member /\ \E G, to, T : Send(u, "missing", G, to, T)
      BY <1>4 DEF ApplyNoRevoke
    <2> QED
      BY <1>1, <1>3, <1>4, <2>1
  <1>5. CASE EnterClaim(u) \/ EnterRestore(u)
    <2>1. (\E ok : Release(u, ok)) \/ (\E limit : Read(u, limit))
      BY <1>5 DEF EnterClaim, EnterRestore
    <2> QED
      BY <1>1, <1>2, <2>1
  <1>6. CASE EnterRevoke(u)
    <2>1. Holder(u).kind = "revoke" /\ UNCHANGED remote
      BY <1>6 DEF EnterRevoke, copies
    <2>2. Read(u, NoLimit) \/ ApplyNoRevoke(u, r, local[u])
      BY <1>6 DEF EnterRevoke
    <2> QED
      BY <1>2, <1>4, <2>1, <2>2
  <1>7. CASE AnswerClaim(u)
    <2>1. Holder(u).kind = "claim" /\ UNCHANGED remote
      BY <1>7 DEF AnswerClaim
    <2>2. CASE \E ok : Release(u, ok)
      BY <1>1, <2>2
    <2>3. CASE Grants(r, remote[u]) /\ UNCHANGED member /\ \E G, to, T : Send(u, "grant", G, to, T)
      BY <1>3, <2>1, <2>3 DEF Grants
    <2>4. CASE KeepsManaged(r, u, remote[u]) /\ UNCHANGED member /\ \E G, to, T : Send(u, "keep", G, to, T)
      BY <1>3, <2>1, <2>4 DEF KeepsManaged
    <2> QED
      BY <1>7, <2>2, <2>3, <2>4 DEF AnswerClaim, ApplyClaim
  <1>8. CASE AnswerRevoke(u)
    <2>1. Holder(u).kind = "revoke" /\ UNCHANGED remote
      BY <1>8 DEF AnswerRevoke
    <2>2. CASE ApplyNoRevoke(u, r, remote[u])
      BY <1>4, <2>1, <2>2
    <2>3. CASE KeepsManaged(r, u, remote[u]) /\ UNCHANGED member /\ \E G, to, T : Send(u, "revoke", G, to, T)
      BY <1>3, <2>1, <2>3 DEF KeepsManaged
    <2> QED
      BY <1>8, <2>2, <2>3 DEF AnswerRevoke, ApplyRevoke
  <1>9. CASE AnswerRestore(u)
    <2>1. \/ \E ok : Release(u, ok)
          \/ UNCHANGED <<member, remote>> /\ \E G, to, T : Send(u, "restore", G, to, T)
      BY <1>9 DEF AnswerRestore
    <2> QED
      BY <1>1, <1>3, <2>1
  <1>10. CASE Settle(u)
    <2>1. \E ok : Release(u, ok)
      BY <1>10 DEF Settle, ReadFails, WriteSucceeds, WriteFails
    <2> QED
      BY <1>1, <2>1
  <1> QED
    BY <1>5, <1>6, <1>7, <1>8, <1>9, <1>10 DEF Enter, Answer

\* A write of v waits while others go on.
LEMMA BystanderSends ==
    ASSUME Types, NEW v \in Users, Sending(v), \A r \in Rules : member'[r][v] = member[r][v],
           section[v].pc = "write" => remote'[v] = remote[v],
           section'[v] = section[v],
           queue[v] # <<>> => queue'[v] # <<>> /\ Head(queue'[v]) = Head(queue[v])
    PROVE  Sending(v)'
  <1>1. CASE section[v].pc # "write"
    BY <1>1 DEF Sending
  <1>2. CASE section[v].pc = "write"
    <2>1. queue[v] # <<>>
      BY <1>2 DEF Types, LockTypes
    <2>2. Holder(v)' = Holder(v) /\ Holder(v).rule \in Rules
      BY <2>1, HolderIsJob DEF Holder, Types
    <2> QED
      BY <1>2, <2>2 DEF Sending
  <1> QED BY <1>1, <1>2

LEMMA SendingNext ==
    ASSUME Types, NoLookups, [Next]_vars, NEW v \in Users, Sending(v)
    PROVE  Sending(v)'
  <1>1. ASSUME NEW u \in Users, Enter(u) \/ Answer(u) \/ Settle(u) PROVE Sending(v)'
    <2>1. CASE v = u
      BY <1>1, <2>1, TurnSends
    <2>2. CASE v # u
      <3>1. v \in Users \ {u}
        BY <2>2
      <3>2. /\ \A r \in Rules : member'[r][v] = member[r][v]
            /\ remote'[v] = remote[v]
            /\ queue'[v] = queue[v] /\ section'[v] = section[v]
        BY <1>1, <3>1, TurnOfOther
      <3> QED
        BY <3>2, BystanderSends
    <2> QED BY <2>1, <2>2
  <1>2. ASSUME NEW u \in Users, NEW r \in Rules, ManualEdit(u, r) PROVE Sending(v)'
    <2>1. /\ UNCHANGED <<member, section, queue>>
          /\ section[v].pc = "write" => remote'[v] = remote[v]
      BY <1>2 DEF ManualEdit, rows, locks, Types, CopyTypes
    <2> QED
      BY <2>1, BystanderSends
  <1>3. CASE Crash
    BY <1>3 DEF Crash, Sending, Outside
  <1>4. CASE /\ ~Crash
             /\ \A u \in Users : ~(Enter(u) \/ Answer(u) \/ Settle(u))
             /\ \A u \in Users, r \in Rules : ~ManualEdit(u, r)
    <2>1. /\ UNCHANGED <<member, remote, section>>
          /\ queue[v] # <<>> => queue'[v] # <<>> /\ Head(queue'[v]) = Head(queue[v])
      BY <1>4, AsideInStep
    <2> QED
      BY <2>1, BystanderSends
  <1> QED BY <1>1, <1>2, <1>3, <1>4

-----------------------------------------------------------------------------
(* What the contract sees.                                                 *)

LEMMA AccountOf ==
    ASSUME NEW u \in Users
    PROVE  /\ Account[u] = [asking |-> Asking(u), has |-> remote[u].groups,
                            given |-> GivenTo(u), kept |-> Managed(u)]
           /\ Account'[u] = [asking |-> Asking(u)', has |-> remote'[u].groups,
                             given |-> GivenTo(u)', kept |-> Managed(u)']
  BY DEF Account

LEMMA OfferOf ==
    ASSUME NEW r \in Rules
    PROVE  /\ Claimable(r) => Offer[r] = "open"
           /\ Closed(r) => Offer[r] = "closed"
  BY DEF Offer, Claimable, Closed

\* A rule that is closed stays so (ClosedStays), and no rule is created twice.
LEMMA OfferMoves ==
    ASSUME NoReopening, Types, [Next]_vars, NEW r \in Rules, Offer'[r] # Offer[r]
    PROVE  Offer[r] = "new" \/ (Offer[r] = "open" /\ Offer'[r] = "closed")
  <1>1. stage[r] # "none" => stage'[r] # "none"
    <2>1. ASSUME UNCHANGED stage PROVE stage[r] # "none" => stage'[r] # "none"
      BY <2>1
    <2>2. ASSUME NEW u \in Users,
                 \/ Enter(u) \/ Answer(u) \/ Settle(u) \/ LookupReads(u) \/ LookupStores(u)
                 \/ \E s \in Rules : Claim(s, u) \/ ManualEdit(u, s)
          PROVE stage[r] # "none" => stage'[r] # "none"
      BY <2>1, <2>2, Turn DEF LookupReads, LookupStores, Claim, ManualEdit, rules
    <2>3. ASSUME NEW s \in Rules,
                 \/ RunNext(s) \/ RunEnd(s) \/ RevokeNow(s) \/ DeleteRule(s) \/ Requested(s)
                 \/ \E t \in Terms : CreateRule(s, t) \/ \E on \in BOOLEAN : UpdateRule(s, t, on)
          PROVE stage[r] # "none" => stage'[r] # "none"
      BY <2>3 DEF RunNext, RunEnd, RevokeNow, DeleteRule, Requested, CreateRule, UpdateRule, rules,
         Types, RuleTypes
    <2>4. CASE Timer \/ Crash \/ Tick \/ UNCHANGED vars
      BY <2>1, <2>4 DEF Timer, Schedule, SchedRestore, SchedDue, SchedEnd, SchedRevoke, Crash, Tick,
         vars, rules
    <2> QED
      BY <2>2, <2>3, <2>4 DEF Next
  <1>2. Closed(r) => Closed(r)'
    BY ClosedStays
  <1>3. /\ Offer[r] = IF stage[r] = "none" THEN "new" ELSE IF Claimable(r) THEN "open" ELSE "closed"
        /\ Offer'[r] = IF stage'[r] = "none" THEN "new" ELSE IF Claimable(r)' THEN "open" ELSE "closed"
    BY DEF Offer
  <1> QED
    BY <1>1, <1>2, <1>3 DEF Closed

-----------------------------------------------------------------------------
(* The step of the contract that a user takes.                             *)

Served(u) == Contract!Step(u) \/ Account'[u] = Account[u]

\* The books and the groups stay, and a claim may be over.
LEMMA Stays ==
    ASSUME NEW u \in Users, Asking(u)' \in {Asking(u), {}}, remote'[u].groups = remote[u].groups,
           GivenTo(u)' = GivenTo(u), Managed(u)' = Managed(u)
    PROVE  Served(u)
  <1> DEFINE a == [asking |-> Asking(u), has |-> remote[u].groups,
                   given |-> GivenTo(u), kept |-> Managed(u)]
             b == [asking |-> Asking(u)', has |-> remote[u].groups,
                   given |-> GivenTo(u), kept |-> Managed(u)]
  <1>1. Account[u] = a /\ Account'[u] = b
    BY AccountOf
  <1>2. b = a \/ Contract!LeaveOff(a, b)
    BY DEF Contract!LeaveOff
  <1> QED
    BY <1>1, <1>2 DEF Served, Contract!Step

LEMMA AskingOver == ASSUME NEW u, section'[u].pc = "wait" PROVE Asking(u)' = {}
  BY DEF Asking

\* A call that lands in the groups of u: of a claim that was admitted, or of a
\* revocation of what is managed, whether or not the membership is stored.
LEMMA LandingServes ==
    ASSUME IInv, Types, Closing, NEW u \in Users, Sending(u), section[u].pc = "write",
           section'[u].pc = "wait", remote'[u] = Written(u),
           GivenTo(u)' = GivenTo(u) \cup
               (IF section[u].write = "grant" THEN {Holder(u).rule} ELSE {}),
           \/ Managed(u)' = Managed(u)
           \/ section[u].write = "grant" /\ Managed(u)' = Managed(u) \cup {Holder(u).rule}
           \/ section[u].write = "revoke" /\ Managed(u)' = Managed(u) \ {Holder(u).rule}
    PROVE  Served(u)
  <1> DEFINE r == Holder(u).rule
             w == section[u].write
             a == [asking |-> Asking(u), has |-> remote[u].groups,
                   given |-> GivenTo(u), kept |-> Managed(u)]
             b == [asking |-> {}, has |-> remote'[u].groups,
                   given |-> GivenTo(u)', kept |-> Managed(u)']
  <1>1. queue[u] # <<>> /\ r \in Rules
    BY HolderIsJob DEF Types, LockTypes
  <1>2. Account[u] = a /\ Account'[u] = b
    BY AccountOf, AskingOver
  <1>3. remote'[u].groups = IF w \in {"grant", "revoke"} THEN section[u].groups ELSE remote[u].groups
    BY DEF Written
  <1>4. CASE w = "grant"
    <2>1. Asking(u) = {r} /\ r \notin remote[u].groups
      BY <1>4 DEF Sending, Asking
    <2>2. remote'[u].groups = remote[u].groups \cup {r} /\ GivenTo(u)' = GivenTo(u) \cup {r}
      BY <1>3, <1>4 DEF IInv, InFlight
    <2>3. Managed(u)' \in {Managed(u), Managed(u) \cup {r}}
      BY <1>4
    <2>4. Contract!Give(a, b, r)
      BY <2>1, <2>2, <2>3 DEF Contract!Give
    <2> QED
      BY <1>1, <1>2, <2>4 DEF Served, Contract!Step
  <1>5. CASE w = "revoke"
    <2>1. Asking(u) = {} /\ r \in Managed(u) \cap remote[u].groups
      BY <1>1, <1>5 DEF Sending, Asking, Managed
    <2>2. Offer[r] = "closed"
      <3>1. 1 \in 1..Len(queue[u]) /\ queue[u][1] = Holder(u) /\ Holder(u).kind = "revoke"
        BY <1>1, <1>5 DEF Types, LockTypes, Holder, Sending
      <3> QED
        BY <1>1, <3>1, OfferOf DEF Closing
    <2>3. remote'[u].groups = remote[u].groups \ {r} /\ GivenTo(u)' = GivenTo(u)
      BY <1>3, <1>5 DEF IInv, InFlight
    <2>4. Managed(u)' \in {Managed(u), Managed(u) \ {r}}
      BY <1>5
    <2>5. Contract!Take(a, b, r)
      BY <2>1, <2>2, <2>3, <2>4 DEF Contract!Take
    <2> QED
      BY <1>1, <1>2, <2>5 DEF Served, Contract!Step
  <1>6. CASE w \notin {"grant", "revoke"}
    <2>1. remote'[u].groups = remote[u].groups /\ GivenTo(u)' = GivenTo(u) /\ Managed(u)' = Managed(u)
      BY <1>3, <1>6
    <2> QED
      BY <2>1, AskingOver, Stays
  <1> QED BY <1>4, <1>5, <1>6

\* A revocation stores that a group has gone, or was never its own.
LEMMA StoredServes ==
    ASSUME Types, Closing, NEW u \in Users, queue[u] # <<>>, NEW r, r = Holder(u).rule,
           Asking(u) = {}, section'[u].pc = "wait",
           remote'[u].groups = remote[u].groups, GivenTo(u)' = GivenTo(u),
           NEW m \in {"preexisting", "revoked"}, Become(r, u, m),
           member[r][u] = "managed" =>
               Holder(u).kind = "revoke" /\ (r \notin remote[u].groups \/ Edited)
    PROVE  Served(u)
  <1> DEFINE a == [asking |-> {}, has |-> remote[u].groups,
                   given |-> GivenTo(u), kept |-> Managed(u)]
             b == [asking |-> {}, has |-> remote[u].groups,
                   given |-> GivenTo(u), kept |-> Managed(u) \ {r}]
  <1>1. r \in Rules
    BY HolderIsJob DEF Types
  <1>2. Managed(u)' = Managed(u) \ {r}
    BY <1>1 DEF Managed, Become, Types, RowTypes
  <1>3. CASE member[r][u] # "managed"
    <2>1. Managed(u)' = Managed(u)
      BY <1>2, <1>3 DEF Managed
    <2> QED
      BY <2>1, AskingOver, Stays
  <1>4. CASE member[r][u] = "managed"
    <2>1. Offer[r] = "closed"
      <3>1. 1 \in 1..Len(queue[u]) /\ queue[u][1] = Holder(u)
        BY DEF Types, LockTypes, Holder
      <3> QED
        BY <1>1, <1>4, <3>1, OfferOf DEF Closing
    <2>2. r \in Managed(u)
      BY <1>1, <1>4 DEF Managed
    <2>3. Account[u] = a /\ Account'[u] = b
      BY <1>2, AccountOf, AskingOver
    <2>4. Contract!WriteOff(a, b, r)
      BY <1>4, <2>1, <2>2 DEF Contract!WriteOff
    <2> QED
      BY <1>1, <2>3, <2>4 DEF Served, Contract!Step
  <1> QED BY <1>3, <1>4

\* A membership that a write, or its absence, leaves.
LEMMA BooksOf ==
    ASSUME Types, NEW u \in Users, NEW r \in Rules, NEW m \in Members, Become(r, u, m)
    PROVE  Managed(u)' = IF m = "managed" THEN Managed(u) \cup {r} ELSE Managed(u) \ {r}
  BY DEF Managed, Become, Types, RowTypes

LEMMA GivenAfter ==
    ASSUME NEW u \in Users, Holder(u).rule \in Rules, granted' = granted \cup Given(u)
    PROVE  GivenTo(u)' = GivenTo(u) \cup
               (IF section[u].write = "grant" THEN {Holder(u).rule} ELSE {})
  <1>1. CASE section[u].write = "grant"
    BY <1>1 DEF GivenTo, Given
  <1>2. CASE section[u].write # "grant"
    BY <1>2 DEF GivenTo, Given
  <1> QED BY <1>1, <1>2

\* A write that has succeeded: a claim is stored, or a revocation.
LEMMA SuccessServes ==
    ASSUME IInv, Types, GoneInv, NEW u \in Users, Sending(u), WriteSucceeds(u)
    PROVE  Served(u)
  <1> DEFINE r == Holder(u).rule
             w == section[u].write
  <1>1. queue[u] # <<>> /\ r \in Rules /\ section[u].pc = "write" /\ InFlight(u) /\ Closing
    BY HolderIsJob DEF WriteSucceeds, AtLock, Types, IInv, GoneInv
  <1>2. section'[u].pc = "wait"
    BY ReleasedWaits DEF WriteSucceeds
  <1>3. remote'[u] = Written(u) /\ granted' = granted \cup Given(u)
    BY DEF WriteSucceeds, Land, Types, CopyTypes
  <1>4. GivenTo(u)' = GivenTo(u) \cup (IF w = "grant" THEN {r} ELSE {})
    BY <1>1, <1>3, GivenAfter
  <1>5. \/ UNCHANGED member
        \/ w # "restore" /\ Become(r, u, AfterWrite[w])
    BY DEF WriteSucceeds
  <1>6. CASE UNCHANGED member
    <2>1. Managed(u)' = Managed(u)
      BY <1>6 DEF Managed
    <2> QED
      BY <1>1, <1>2, <1>3, <1>4, <2>1, LandingServes
  <1>7. CASE w = "grant" /\ Become(r, u, "managed")
    <2>1. Managed(u)' = Managed(u) \cup {r}
      BY <1>1, <1>7, BooksOf DEF Members
    <2> QED
      BY <1>1, <1>2, <1>3, <1>4, <1>7, <2>1, LandingServes
  <1>8. CASE w = "keep" /\ Become(r, u, "managed")
    <2>1. Managed(u)' = Managed(u) \cup {r} /\ r \in Managed(u)
      BY <1>1, <1>8, BooksOf DEF Members, Sending, Managed
    <2>2. Managed(u)' = Managed(u)
      BY <2>1
    <2> QED
      BY <1>1, <1>2, <1>3, <1>4, <2>2, LandingServes
  <1>9. CASE w = "revoke" /\ Become(r, u, "revoked")
    <2>1. Managed(u)' = Managed(u) \ {r}
      BY <1>1, <1>9, BooksOf DEF Members
    <2> QED
      BY <1>1, <1>2, <1>3, <1>4, <1>9, <2>1, LandingServes
  <1>10. CASE w = "missing" /\ Become(r, u, "revoked")
    <2>1. Holder(u).kind = "revoke" /\ Asking(u) = {}
      BY <1>1, <1>10 DEF Sending, Asking
    <2>2. remote'[u].groups = remote[u].groups /\ GivenTo(u)' = GivenTo(u)
      BY <1>3, <1>4, <1>10 DEF Written
    <2>3. member[r][u] = "managed" => r \notin remote[u].groups \/ Edited
      BY <1>1, <1>10 DEF GoneInv, UserInStep, Sent
    <2> QED
      BY <1>1, <1>2, <1>10, <2>1, <2>2, <2>3, StoredServes
  <1> QED
    BY <1>1, <1>5, <1>6, <1>7, <1>8, <1>9, <1>10 DEF InFlight, AfterWrite

\* A job that goes on: what its user sees of it.
LEMMA TurnServes ==
    ASSUME IInv, Types, GoneInv, NEW u \in Users, Sending(u), Enter(u) \/ Answer(u) \/ Settle(u)
    PROVE  Served(u)
  <1> DEFINE r == Holder(u).rule
  <1>0. queue[u] # <<>> /\ r \in Rules /\ Closing
    BY Turn, HolderIsJob DEF Types, GoneInv
  <1>1. ASSUME UNCHANGED <<member, remote, granted>>, Asking(u)' \in {Asking(u), {}} PROVE Served(u)
    <2>1. GivenTo(u)' = GivenTo(u) /\ Managed(u)' = Managed(u)
      BY <1>1 DEF GivenTo, Managed
    <2> QED
      BY <1>1, <2>1, Stays
  <1>2. ASSUME NEW ok, Release(u, ok) PROVE section'[u].pc = "wait" /\ Asking(u)' = {}
    BY <1>2, ReleasedWaits, AskingOver
  <1>3. ASSUME NEW w, NEW G, NEW to, NEW T, Send(u, w, G, to, T),
               section[u].pc = "read" \/ Holder(u).kind # "claim"
        PROVE  Asking(u)' = Asking(u)
    BY <1>3, SentSection DEF Asking
  <1>4. ASSUME NEW limit, Read(u, limit)
        PROVE  Asking(u)' = IF Holder(u).kind = "claim" THEN {r} ELSE {}
    BY <1>4, ReadSection DEF Asking
  <1>5. ASSUME NEW v, ApplyNoRevoke(u, r, v), Holder(u).kind = "revoke", UNCHANGED <<remote, granted>>,
               member[r][u] = "managed" /\ r \notin v.groups => r \notin remote[u].groups \/ Edited
        PROVE  Served(u)
    <2>1. Asking(u) = {} /\ GivenTo(u)' = GivenTo(u)
      BY <1>5 DEF Asking, GivenTo
    <2>2. ASSUME NEW m \in {"preexisting", "revoked"}, Become(r, u, m), Release(u, TRUE),
                 member[r][u] = "managed" => r \notin v.groups
          PROVE  Served(u)
      BY <1>0, <1>2, <1>5, <2>1, <2>2, StoredServes
    <2>3. CASE UNCHANGED member /\ (Release(u, TRUE) \/ \E G, to, T : Send(u, "missing", G, to, T))
      BY <1>1, <1>2, <1>3, <1>5, <2>3
    <2> QED
      BY <1>5, <2>2, <2>3 DEF ApplyNoRevoke, KeepsOther, rows
  <1>6. CASE EnterClaim(u)
    <2>1. UNCHANGED <<member, remote, granted>> /\ section[u].pc = "wait" /\ Holder(u).kind = "claim"
      BY <1>6 DEF EnterClaim, rows, copies, AtLock
    <2>2. CASE Release(u, FALSE)
      BY <1>1, <1>2, <2>1, <2>2
    <2>3. CASE Claimable(r) /\ \E limit : Read(u, limit)
      <3> DEFINE a == [asking |-> {}, has |-> remote[u].groups,
                       given |-> GivenTo(u), kept |-> Managed(u)]
                 b == [asking |-> {r}, has |-> remote[u].groups,
                       given |-> GivenTo(u), kept |-> Managed(u)]
      <3>1. Asking(u) = {} /\ Asking(u)' = {r}
        BY <1>4, <2>1, <2>3 DEF Asking
      <3>2. GivenTo(u)' = GivenTo(u) /\ Managed(u)' = Managed(u)
        BY <2>1 DEF GivenTo, Managed
      <3>3. Account[u] = a /\ Account'[u] = b
        BY <2>1, <3>1, <3>2, AccountOf
      <3>4. Contract!Ask(a, b, r)
        BY <1>0, <2>3, OfferOf DEF Contract!Ask
      <3> QED
        BY <1>0, <3>3, <3>4 DEF Served, Contract!Step
    <2> QED
      BY <1>6, <2>2, <2>3 DEF EnterClaim
  <1>7. CASE EnterRevoke(u)
    <2>1. UNCHANGED <<remote, granted>> /\ Holder(u).kind = "revoke"
      BY <1>7 DEF EnterRevoke, copies
    <2>2. CASE Read(u, NoLimit) /\ UNCHANGED rows
      BY <1>1, <1>4, <2>1, <2>2 DEF rows
    <2>3. CASE ApplyNoRevoke(u, r, local[u])
      <3>1. member[r][u] = "managed" /\ r \notin local[u].groups => r \notin remote[u].groups \/ Edited
        BY <1>0 DEF GoneInv, UserInStep, InStep
      <3> QED
        BY <1>5, <2>1, <2>3, <3>1
    <2> QED
      BY <1>7, <2>2, <2>3 DEF EnterRevoke
  <1>8. CASE EnterRestore(u)
    <2>1. UNCHANGED <<member, remote, granted>> /\ Holder(u).kind = "restore"
      BY <1>8 DEF EnterRestore, rows, copies
    <2>2. (\E limit : Read(u, limit)) \/ Release(u, TRUE)
      BY <1>8 DEF EnterRestore
    <2> QED
      BY <1>1, <1>2, <1>4, <2>1, <2>2
  <1>9. CASE AnswerClaim(u)
    <2>1. UNCHANGED <<remote, granted>> /\ section[u].pc = "read"
      BY <1>9 DEF AnswerClaim, AtLock
    <2>2. CASE UNCHANGED member /\ ((\E ok : Release(u, ok)) \/ \E w, G, to, T : Send(u, w, G, to, T))
      BY <1>1, <1>2, <1>3, <2>1, <2>2
    <2>3. CASE KeepsOther(r, u, remote[u]) /\ Become(r, u, "preexisting") /\ Release(u, TRUE)
      <3>1. Managed(u)' = Managed(u) \ {r} /\ r \notin Managed(u)
        BY <1>0, <2>3, BooksOf DEF Members, KeepsOther, Managed
      <3>2. Managed(u)' = Managed(u) /\ GivenTo(u)' = GivenTo(u) /\ Asking(u)' = {}
        BY <1>2, <2>1, <2>3, <3>1 DEF GivenTo
      <3> QED
        BY <2>1, <3>2, Stays
    <2> QED
      BY <1>9, <2>2, <2>3 DEF AnswerClaim, ApplyClaim, rows
  <1>10. CASE AnswerRevoke(u)
    <2>1. UNCHANGED <<remote, granted>> /\ Holder(u).kind = "revoke"
      BY <1>10 DEF AnswerRevoke
    <2>2. CASE ApplyNoRevoke(u, r, remote[u])
      BY <1>5, <2>1, <2>2
    <2>3. CASE UNCHANGED member /\ \E w, G, to, T : Send(u, w, G, to, T)
      BY <1>1, <1>3, <2>1, <2>3
    <2> QED
      BY <1>10, <2>2, <2>3 DEF AnswerRevoke, ApplyRevoke
  <1>11. CASE AnswerRestore(u)
    <2>1. UNCHANGED <<member, remote, granted>> /\ Holder(u).kind = "restore"
      BY <1>11 DEF AnswerRestore, rows
    <2>2. Release(u, TRUE) \/ \E G, to, T : Send(u, "restore", G, to, T)
      BY <1>11 DEF AnswerRestore
    <2> QED
      BY <1>1, <1>2, <1>3, <2>1, <2>2
  <1>12. CASE ReadFails(u)
    <2>1. UNCHANGED <<member, remote, granted>> /\ Release(u, FALSE)
      BY <1>12 DEF ReadFails, copies
    <2> QED
      BY <1>1, <1>2, <2>1
  <1>13. CASE WriteFails(u)
    <2>1. UNCHANGED member /\ Release(u, FALSE) /\ section[u].pc = "write"
      BY <1>13 DEF WriteFails, AtLock
    <2>2. CASE UNCHANGED <<remote, granted>>
      BY <1>1, <1>2, <2>1, <2>2
    <2>3. CASE Land(u)
      <3>1. remote'[u] = Written(u) /\ granted' = granted \cup Given(u)
        BY <2>3 DEF Land, Types, CopyTypes
      <3>2. GivenTo(u)' = GivenTo(u) \cup (IF section[u].write = "grant" THEN {r} ELSE {})
        BY <1>0, <3>1, GivenAfter
      <3>3. Managed(u)' = Managed(u) /\ section'[u].pc = "wait"
        BY <1>2, <2>1 DEF Managed
      <3> QED
        BY <1>0, <2>1, <3>1, <3>2, <3>3, LandingServes
    <2> QED
      BY <1>13, <2>2, <2>3 DEF WriteFails
  <1>14. CASE WriteSucceeds(u)
    BY <1>14, SuccessServes
  <1> QED
    BY <1>6, <1>7, <1>8, <1>9, <1>10, <1>11, <1>12, <1>13, <1>14 DEF Enter, Answer, Settle

\* The steps that are no job's give nothing, and with no update, deletion or look-up
\* they disturb nothing.
LEMMA AsideGives ==
    ASSUME Calm, [Next]_vars,
           ~Crash, \A u \in Users : ~(Enter(u) \/ Answer(u) \/ Settle(u)),
           \A u \in Users, r \in Rules : ~ManualEdit(u, r)
    PROVE  granted' = granted /\ used' = used
  <1>1. ASSUME NEW u \in Users, LookupReads(u) PROVE FALSE
    BY <1>1 DEF LookupReads, Disturb, Calm
  <1>2. ASSUME NEW u \in Users, LookupStores(u) \/ \E r \in Rules : Claim(r, u)
        PROVE  granted' = granted /\ used' = used
    BY <1>2 DEF LookupStores, Claim, copies
  <1>3. ASSUME NEW r \in Rules, DeleteRule(r) \/ \E t \in Terms, on \in BOOLEAN : UpdateRule(r, t, on)
        PROVE  FALSE
    BY <1>3 DEF DeleteRule, UpdateRule, Disturb, Calm, NoReopening
  <1>4. ASSUME NEW r \in Rules,
               \/ RunNext(r) \/ RunEnd(r) \/ RevokeNow(r) \/ Requested(r)
               \/ \E t \in Terms : CreateRule(r, t)
        PROVE  granted' = granted /\ used' = used
    BY <1>4 DEF RunNext, RunEnd, RevokeNow, Requested, CreateRule, copies
  <1>5. CASE Timer \/ Tick \/ UNCHANGED vars
    BY <1>5 DEF Timer, Schedule, SchedRestore, SchedDue, SchedEnd, SchedRevoke, Tick, vars, copies
  <1> QED
    BY <1>1, <1>2, <1>3, <1>4, <1>5 DEF Next

\* The job of one user serves nobody else.
LEMMA OthersStay ==
    ASSUME Types, NEW u \in Users, Enter(u) \/ Answer(u) \/ Settle(u), NEW v \in Users \ {u}
    PROVE  Served(v)
  <1>1. /\ \A r \in Rules : member'[r][v] = member[r][v]
        /\ remote'[v] = remote[v] /\ queue'[v] = queue[v] /\ section'[v] = section[v]
    BY TurnOfOther
  <1>2. granted' = granted \/ granted' = granted \cup Given(u)
    BY DEF Enter, EnterClaim, EnterRevoke, EnterRestore, Answer, AnswerClaim, AnswerRevoke,
       AnswerRestore, Settle, ReadFails, WriteSucceeds, WriteFails, Land, copies
  <1>3. GivenTo(v)' = GivenTo(v)
    BY <1>2 DEF GivenTo, Given
  <1>4. Managed(v)' = Managed(v) /\ Asking(v)' = Asking(v)
    BY <1>1 DEF Managed, Asking, Holder
  <1> QED
    BY <1>1, <1>3, <1>4, Stays

\* A crash lets some of the calls under way land, and loses every job.
LEMMA CrashServes ==
    ASSUME IInv, Types, GoneInv, Crash, NEW v \in Users, Sending(v)
    PROVE  Served(v)
  <1>1. PICK L \in SUBSET {u \in Users : section[u].pc = "write"} :
           /\ remote' = [u \in Users |-> IF u \in L THEN Written(u) ELSE remote[u]]
           /\ granted' = granted \cup UNION {Given(u) : u \in L}
    BY DEF Crash
  <1>2. section'[v].pc = "wait" /\ Asking(v)' = {}
    BY AskingOver DEF Crash, Outside
  <1>3. Managed(v)' = Managed(v)
    BY DEF Crash, rows, Managed
  <1>4. \A q \in UNION {Given(u) : u \in L} : q[2] = v => v \in L /\ q \in Given(v)
    BY DEF Given
  <1>5. CASE v \in L
    <2>1. Holder(v).rule \in Rules
      BY <1>5, HolderIsJob DEF Types, LockTypes
    <2>2. \A r \in Rules : <<r, v>> \in granted' <=> <<r, v>> \in granted \cup Given(v)
      BY <1>1, <1>4, <1>5
    <2>3. GivenTo(v)' = {r \in Rules : <<r, v>> \in granted \cup Given(v)}
      BY <2>2 DEF GivenTo
    <2>4. GivenTo(v)' = GivenTo(v) \cup (IF section[v].write = "grant" THEN {Holder(v).rule} ELSE {})
      <3>1. CASE section[v].write = "grant"
        BY <2>1, <2>3, <3>1 DEF GivenTo, Given
      <3>2. CASE section[v].write # "grant"
        BY <2>3, <3>2 DEF GivenTo, Given
      <3> QED BY <3>1, <3>2
    <2> QED
      BY <1>1, <1>2, <1>3, <1>5, <2>4, LandingServes DEF GoneInv
  <1>6. CASE v \notin L
    <2>1. \A r \in Rules : <<r, v>> \in granted' <=> <<r, v>> \in granted
      BY <1>1, <1>4, <1>6
    <2>2. GivenTo(v)' = GivenTo(v)
      BY <2>1 DEF GivenTo
    <2> QED
      BY <1>1, <1>2, <1>3, <1>6, <2>2, Stays
  <1> QED BY <1>5, <1>6

\* Each step of the code, and the step of the contract it takes.
LEMMA ContractStep ==
    ASSUME Calm, ContractInv, [Next]_vars
    PROVE  [Contract!Next]_(Contract!vars)
  <1> DEFINE Goal == Contract!Next \/ UNCHANGED Contract!vars
  <1> SUFFICES Goal
    OBVIOUS
  <1>0. IInv /\ Types /\ GoneInv /\ NoLookups /\ \A u \in Users : Sending(u)
    BY DEF ContractInv, GoneInv
  <1>1. ASSUME \A u \in Users : Served(u), UNCHANGED <<rules, now>>, Edited' = Edited PROVE Goal
    <2>1. Offer' = Offer
      BY <1>1 DEF Offer, Claimable, rules
    <2>2. Account' = [u \in Users |-> Account'[u]]
      BY DEF Account
    <2>3. Contract!Serve
      BY <1>1, <2>1, <2>2 DEF Contract!Serve, Served
    <2> QED
      BY <2>3 DEF Contract!Next
  <1>2. ASSUME NEW u \in Users, Enter(u) \/ Answer(u) \/ Settle(u) PROVE Goal
    <2>1. Served(u)
      BY <1>0, <1>2, TurnServes
    <2>2. \A v \in Users \ {u} : Served(v)
      BY <1>0, <1>2, OthersStay
    <2>3. UNCHANGED <<rules, now>> /\ Edited' = Edited
      BY <1>2, Turn DEF Edited
    <2> QED
      BY <1>1, <2>1, <2>2, <2>3
  <1>3. CASE Crash
    <2>1. \A v \in Users : Served(v)
      BY <1>0, <1>3, CrashServes
    <2>2. UNCHANGED <<rules, now>> /\ Edited' = Edited
      BY <1>3 DEF Crash, Disturb, Edited
    <2> QED
      BY <1>1, <2>1, <2>2
  <1>4. ASSUME NEW u \in Users, NEW r \in Rules, ManualEdit(u, r) PROVE Goal
    <2> DEFINE G == remote[u].groups
               H == IF r \in G THEN G \ {r} ELSE G \cup {r}
    <2>1. remote' = [remote EXCEPT ![u].groups = H]
      BY <1>4 DEF ManualEdit
    <2>2. UNCHANGED <<rules, member, granted, queue, section, now>> /\ Edited'
      BY <1>4 DEF ManualEdit, Disturb, Edited, rows, locks
    <2>3. remote'[u].groups = H /\ \A v \in Users \ {u} : remote'[v] = remote[v]
      BY <1>0, <2>1 DEF Types, CopyTypes, Accounts
    <2>4. Offer' = Offer
      BY <2>2 DEF Offer, Claimable, rules
    <2>5. \A v \in Users : /\ Asking(v)' = Asking(v)
                           /\ GivenTo(v)' = GivenTo(v) /\ Managed(v)' = Managed(v)
      BY <2>2 DEF Asking, Holder, GivenTo, Managed
    <2> DEFINE a == Account[u]
    <2>6. a.asking = Asking(u) /\ a.has = G /\ a.given = GivenTo(u) /\ a.kept = Managed(u)
      <3>1. a = [asking |-> Asking(u), has |-> G, given |-> GivenTo(u), kept |-> Managed(u)]
        BY AccountOf
      <3> QED
        BY <3>1
    <2>7. Account'[u] = [asking |-> a.asking, has |-> IF r \in a.has THEN a.has \ {r} ELSE a.has \cup {r},
                         given |-> a.given, kept |-> a.kept]
      <3>1. Account'[u] = [asking |-> Asking(u), has |-> H, given |-> GivenTo(u), kept |-> Managed(u)]
        BY <2>3, <2>5, AccountOf
      <3> HIDE DEF a, H
      <3>2. Account'[u] = [asking |-> a.asking, has |-> H, given |-> a.given, kept |-> a.kept]
        BY <2>6, <3>1
      <3> USE DEF H
      <3> QED
        BY <2>6, <3>2
    <2>8. \A v \in Users \ {u} : Account'[v] = Account[v]
      BY <2>3, <2>5, AccountOf
    <2>9. Account' = [Account EXCEPT ![u] = Account'[u]]
      BY <2>8 DEF Account
    <2>10. Contract!Edit(u, r)
      BY <2>2, <2>4, <2>7, <2>9 DEF Contract!Edit
    <2> QED
      BY <2>10 DEF Contract!Next
  <1>5. CASE /\ ~Crash
             /\ \A u \in Users : ~(Enter(u) \/ Answer(u) \/ Settle(u))
             /\ \A u \in Users, r \in Rules : ~ManualEdit(u, r)
    <2>1. /\ UNCHANGED <<member, remote, section, granted>> /\ Edited' = Edited
          /\ \A v \in Users : queue[v] # <<>> => Holder(v)' = Holder(v)
      BY <1>0, <1>5, AsideInStep, AsideGives DEF Edited, Holder
    <2>2. \A v \in Users : section[v].pc # "wait" => queue[v] # <<>>
      BY <1>0 DEF Types, LockTypes
    <2>3. \A v \in Users : /\ Asking(v)' = Asking(v)
                           /\ GivenTo(v)' = GivenTo(v) /\ Managed(v)' = Managed(v)
      BY <2>1, <2>2 DEF Asking, GivenTo, Managed
    <2>4. \A v \in Users : Account'[v] = Account[v]
      BY <2>1, <2>3, AccountOf
    <2>5. Account' = Account
      BY <2>4 DEF Account
    <2>6. \A r \in Rules : Offer'[r] # Offer[r] =>
             Offer[r] = "new" \/ (Offer[r] = "open" /\ Offer'[r] = "closed")
      BY <1>0, OfferMoves DEF Calm
    <2>7. Offer' \in [Rules -> {"new", "open", "closed"}]
      BY DEF Offer
    <2>8. Contract!Reoffer
      BY <2>1, <2>5, <2>6, <2>7 DEF Contract!Reoffer
    <2> QED
      BY <2>8 DEF Contract!Next
  <1> QED BY <1>2, <1>3, <1>4, <1>5

LEMMA ContractInit == Init => Contract!Init
  <1> SUFFICES ASSUME Init PROVE Contract!Init
    OBVIOUS
  <1> DEFINE had == [u \in Users |-> remote[u].groups]
  <1>1. \A u \in Users : Asking(u) = {} /\ GivenTo(u) = {} /\ Managed(u) = {}
    BY DEF Init, Asking, Outside, GivenTo, Managed
  <1>2. had \in [Users -> SUBSET Rules]
    BY DEF Init
  <1>3. Account = [u \in Users |-> [asking |-> {}, has |-> had[u], given |-> {}, kept |-> {}]]
    BY <1>1 DEF Account
  <1>4. Offer = [r \in Rules |-> "new"] /\ Edited = FALSE
    BY DEF Init, Offer, Edited
  <1> QED
    BY <1>2, <1>3, <1>4 DEF Contract!Init

\* For any rules and users, whatever calls fail, should the process crash and should
\* somebody edit users at Sub2API: the groups that are given and taken back are those
\* of the contract, as long as no handler refreshes a user outside the lock and no rule
\* is updated or deleted.
THEOREM Implements ==
    ASSUME FiniteRules, Calm
    PROVE  Spec => KeepsContract
  <1>1. Init => ContractInv
    <2>1. Init => \A u \in Users : Sending(u)
      BY DEF Init, Sending, Outside
    <2> QED
      BY <2>1, InvInit, TypesInit, GoneInit DEF ContractInv
  <1>2. ContractInv /\ [Next]_vars => ContractInv'
    <2> SUFFICES ASSUME ContractInv, [Next]_vars PROVE ContractInv'
      OBVIOUS
    <2>1. IInv /\ Types /\ GoneInv /\ NoLookups /\ \A u \in Users : Sending(u)
      BY DEF ContractInv, GoneInv
    <2>2. Closing' /\ NoLookups' /\ (Edited' \/ \A v \in Users : UserInStep(v)')
      BY <2>1, ClosingNext, NoLookupsNext, InStepNext DEF GoneInv, Calm
    <2>3. \A u \in Users : Sending(u)'
      BY <2>1, SendingNext
    <2>4. GoneInv'
      BY <2>2 DEF GoneInv
    <2> QED
      BY <2>1, <2>3, <2>4, InvNext, TypesNext DEF ContractInv
  <1>3. ContractInv /\ [Next]_vars => [Contract!Next]_(Contract!vars)
    BY ContractStep
  <1> QED
    BY <1>1, <1>2, <1>3, ContractInit, PTL DEF Spec, KeepsContract, Contract!Spec
=============================================================================
