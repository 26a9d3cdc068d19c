------------------------- MODULE RechargeLedgerProofs -------------------------
(***************************************************************************)
(* Proofs about RechargeLedger for any codes, users, refreshes, windows    *)
(* and page size: what is below the saved cursor is in the ledger, and     *)
(* what a refresh stores is complete, although the list that both read     *)
(* page by page grows at its head, or in the middle of its first instant,  *)
(* meanwhile.                                                              *)
(***************************************************************************)
EXTENDS RechargeLedger, FiniteSetTheorems, WellFoundedInduction, TLAPS

Parameters ==
    /\ Codes \subseteq Nat /\ Spans \subseteq Nat
    /\ PageSize \in Nat \ {0} /\ Horizon \in Nat /\ MaxRuns \in Nat

\* The place of a code in a list: how many are newer.
Ahead(S, c) == {d \in S : Newer(Mark(d), Mark(c))}
Rank(S, c)  == Cardinality(Ahead(S, c))
Unread(S, c, page) == Rank(S, c) >= (page - 1) * PageSize

\* A mark is that of a used code, or the first.
Known(m) == m = NoMark \/ \E d \in Used : m = Mark(d)

\* What is done with a code: it is in the ledger or a refresh has deleted it, or a
\* code with a higher id was used in the same instant.
Kept(c) ==
    \/ c \in store \cup erased
    \/ \E d \in Used : d > c /\ used[d].at = used[c].at

UsedInv ==
    /\ IsFiniteSet(Used) /\ \A c \in Used : used[c].at <= now
    /\ \A c \in store : Counts(c)

CursorInv ==
    /\ Known(cursor)
    /\ \A c \in Used : Counts(c) /\ ~Newer(Mark(c), cursor) => Kept(c)

\* A synchronisation owes what lies between the old cursor and the new one, and has
\* it still before it.
RunInv ==
    run.phase # "idle" =>
        /\ run.previous = cursor /\ Known(run.next) /\ ~Newer(cursor, run.next) /\ run.page >= 1
        /\ \A c \in Used : Counts(c) /\ ~Newer(Mark(c), run.next) =>
              \/ Kept(c)
              \/ run.phase = "read" /\ Newer(Mark(c), cursor) /\ Unread(Used, c, run.page)

\* A refresh has, or has still before it, what upstream knew when it was called.
CallInv(f) ==
    f.phase # "idle" =>
        /\ f.page >= 1
        /\ f.got \subseteq Of(f.user) /\ \A c \in f.got : used[c].at >= f.cutoff
        /\ f.known \subseteq Of(f.user) /\ \A c \in f.known : Counts(c) /\ used[c].at >= f.cutoff
        /\ \A c \in f.known : c \in f.got \/ (f.phase = "fetch" /\ Unread(Of(f.user), c, f.page))

IInv == TypeOK /\ UsedInv /\ CursorInv /\ RunInv /\ \A r \in Refreshes : CallInv(refresh[r])

-----------------------------------------------------------------------------
(* Pages of a list.                                                        *)

LEMMA DivPage ==
    ASSUME NEW n \in Nat, NEW k \in Nat \ {0}, NEW p \in Nat \ {0}
    PROVE  n \div k = p - 1 <=> n >= (p - 1) * k /\ n < p * k
  <1>1. n = k * (n \div k) + (n % k) /\ n % k \in 0..(k - 1) /\ n \div k \in Int
    BY SMT
  <1>2. CASE n \div k = p - 1
    BY <1>1, <1>2, SMT
  <1>3. CASE n \div k > p - 1
    BY <1>1, <1>3, SMT
  <1>4. CASE n \div k < p - 1
    BY <1>1, <1>4, SMT
  <1> QED
    BY <1>1, <1>2, <1>3, <1>4

\* The list is in one order.
LEMMA CodeOrder ==
    ASSUME Parameters, TypeOK, NEW c \in Used, NEW d \in Used
    PROVE  /\ used[c].at \in Times /\ c \in Nat /\ Mark(c).at = used[c].at /\ Mark(c).id = c
           /\ ~Newer(Mark(c), Mark(c))
           /\ c = d \/ Newer(Mark(c), Mark(d)) \/ Newer(Mark(d), Mark(c))
           /\ \A e \in Used : Newer(Mark(c), Mark(d)) /\ Newer(Mark(d), Mark(e)) => Newer(Mark(c), Mark(e))
  <1>1. \A e \in Used : used[e].at \in Times /\ e \in Nat /\ Mark(e).at = used[e].at /\ Mark(e).id = e
    BY DEF Parameters, TypeOK, Used, Mark
  <1>2. \A e \in Used : used[e].at \in Int /\ e \in Int
    BY <1>1 DEF Times
  <1> QED
    BY <1>1, <1>2 DEF Newer

LEMMA RankType ==
    ASSUME UsedInv, NEW S \in SUBSET Used, NEW c
    PROVE  IsFiniteSet(S) /\ IsFiniteSet(Ahead(S, c)) /\ Rank(S, c) \in Nat /\ Cardinality(S) \in Nat
  <1>1. IsFiniteSet(S)
    BY FS_Subset DEF UsedInv
  <1>2. IsFiniteSet(Ahead(S, c))
    BY <1>1, FS_Subset DEF Ahead
  <1> QED
    BY <1>1, <1>2, FS_CardinalityType DEF Rank

LEMMA RankBound ==
    ASSUME Parameters, TypeOK, UsedInv, NEW S \in SUBSET Used, NEW c \in S
    PROVE  Rank(S, c) < Cardinality(S)
  <1>1. Ahead(S, c) \subseteq S /\ c \notin Ahead(S, c)
    BY CodeOrder DEF Ahead
  <1>2. IsFiniteSet(S)
    BY RankType
  <1> QED
    BY <1>1, <1>2, FS_Subset, RankType DEF Rank

LEMMA RankOrder ==
    ASSUME Parameters, TypeOK, UsedInv, NEW S \in SUBSET Used, NEW c \in S, NEW d \in S,
           Newer(Mark(d), Mark(c))
    PROVE  Rank(S, d) < Rank(S, c)
  <1>1. Ahead(S, d) \subseteq Ahead(S, c)
    BY CodeOrder DEF Ahead
  <1>2. d \in Ahead(S, c) /\ d \notin Ahead(S, d)
    BY CodeOrder DEF Ahead
  <1> QED
    BY <1>1, <1>2, RankType, FS_Subset DEF Rank

\* What is not read yet is on the page or after it ...
LEMMA PageRead ==
    ASSUME Parameters, UsedInv, NEW S \in SUBSET Used, NEW p \in Nat \ {0}, NEW c \in S,
           Unread(S, c, p)
    PROVE  c \in Page(S, p) \/ Unread(S, c, p + 1)
  <1>1. Rank(S, c) \in Nat /\ PageSize \in Nat \ {0}
    BY RankType DEF Parameters
  <1>2. c \in Page(S, p) <=> Rank(S, c) \div PageSize = p - 1
    BY DEF Page, Rank, Ahead
  <1>3. Rank(S, c) \div PageSize = p - 1 <=> Rank(S, c) >= (p - 1) * PageSize /\ Rank(S, c) < p * PageSize
    BY <1>1, DivPage
  <1>4. (p + 1) - 1 = p /\ p * PageSize \in Int
    BY <1>1
  <1> QED
    BY <1>1, <1>2, <1>3, <1>4 DEF Unread

\* ... and what is after it is older than all of it, and nothing on the last page.
LEMMA PageOrder ==
    ASSUME Parameters, TypeOK, UsedInv, NEW S \in SUBSET Used, NEW p \in Nat \ {0}, NEW c \in S,
           Unread(S, c, p + 1)
    PROVE  ~LastPage(S, p) /\ \A d \in Page(S, p) : Newer(Mark(d), Mark(c))
  <1>1. Rank(S, c) \in Nat /\ PageSize \in Nat \ {0} /\ Cardinality(S) \in Nat
    BY RankType DEF Parameters
  <1>2. (p + 1) - 1 = p /\ p * PageSize \in Int
    BY <1>1
  <1>3. Rank(S, c) >= p * PageSize
    BY <1>2 DEF Unread
  <1>4. ~LastPage(S, p)
    BY <1>1, <1>2, <1>3, RankBound DEF LastPage
  <1>5. ASSUME NEW d \in Page(S, p) PROVE Newer(Mark(d), Mark(c))
    <2>1. d \in S /\ Rank(S, d) \div PageSize = p - 1 /\ Rank(S, d) \in Nat
      BY <1>5, RankType DEF Page, Rank, Ahead
    <2>2. Rank(S, d) < p * PageSize
      BY <1>1, <2>1, DivPage
    <2>3. d # c /\ ~(Rank(S, c) < Rank(S, d))
      BY <1>1, <1>2, <1>3, <2>1, <2>2
    <2> QED
      BY <2>1, <2>3, CodeOrder, RankOrder
  <1> QED
    BY <1>4, <1>5

-----------------------------------------------------------------------------
(* A code is used.                                                         *)

\* The list grows, at most within its newest instant; what is known stays.
LEMMA Grown ==
    ASSUME Parameters, IInv, NEW c \in Codes, NEW u \in Users, UseCode(c, u)
    PROVE  /\ c \notin Used /\ Used' = Used \cup {c} /\ IsFiniteSet(Used')
           /\ used'[c] = [user |-> u, at |-> now]
           /\ \A d \in Used : used'[d] = used[d] /\ Mark(d)' = Mark(d)
           /\ \A v \in Users : Of(v) \subseteq Of(v)' /\ Of(v)' \subseteq Used'
           /\ \A d \in Used : Kept(d) => Kept(d)'
           /\ \A m \in Marks : Known(m) => Known(m)'
  <1>1. c \notin Used /\ Used' = Used \cup {c} /\ used'[c] = [user |-> u, at |-> now]
    BY DEF UseCode, Used
  <1>2. \A d \in Used : used'[d] = used[d]
    BY DEF UseCode, Used
  <1>3. IsFiniteSet(Used')
    BY <1>1, FS_AddElement DEF IInv, UsedInv
  <1>4. \A d \in Used : Mark(d)' = Mark(d)
    BY <1>2 DEF Mark
  <1>5. \A d \in Used : Kept(d) => Kept(d)'
    BY <1>1, <1>2 DEF Kept, UseCode
  <1>6. \A v \in Users : Of(v) \subseteq Of(v)' /\ Of(v)' \subseteq Used'
    BY <1>1, <1>2 DEF Of
  <1>7. \A m \in Marks : Known(m) => Known(m)'
    BY <1>1, <1>4 DEF Known
  <1> QED
    BY <1>1, <1>2, <1>3, <1>4, <1>5, <1>6, <1>7

\* What is further back stays so.
LEMMA UnreadStays ==
    ASSUME Parameters, IInv, NEW c \in Codes, NEW u \in Users, UseCode(c, u),
           NEW d \in Used, NEW p \in Nat
    PROVE  /\ Unread(Used, d, p) => Unread(Used, d, p)'
           /\ \A v \in Users : Unread(Of(v), d, p) => Unread(Of(v), d, p)'
  <1>1. (p - 1) * PageSize \in Int
    BY DEF Parameters
  <1>2. Unread(Used, d, p) => Unread(Used, d, p)'
    <2>1. Ahead(Used, d) \subseteq Ahead(Used, d)' /\ Ahead(Used, d)' \subseteq Used'
      BY Grown DEF Ahead
    <2>2. IsFiniteSet(Ahead(Used, d)')
      BY <2>1, Grown, FS_Subset
    <2>3. Rank(Used, d) <= Rank(Used, d)' /\ Rank(Used, d) \in Nat /\ Rank(Used, d)' \in Nat
      BY <2>1, <2>2, FS_Subset, FS_CardinalityType DEF Rank
    <2> QED
      BY <1>1, <2>3 DEF Unread
  <1>3. ASSUME NEW v \in Users PROVE Unread(Of(v), d, p) => Unread(Of(v), d, p)'
    <2>1. Ahead(Of(v), d) \subseteq Ahead(Of(v), d)' /\ Ahead(Of(v), d)' \subseteq Used'
      BY Grown DEF Ahead, Of
    <2>2. IsFiniteSet(Ahead(Of(v), d)')
      BY <2>1, Grown, FS_Subset
    <2>3. /\ Rank(Of(v), d) <= Rank(Of(v), d)'
          /\ Rank(Of(v), d) \in Nat /\ Rank(Of(v), d)' \in Nat
      BY <2>1, <2>2, FS_Subset, FS_CardinalityType DEF Rank
    <2> QED
      BY <1>1, <2>3 DEF Unread
  <1> QED
    BY <1>2, <1>3

\* What is used now is newer than any mark there is, or of the same instant.
LEMMA NewIsNewer ==
    ASSUME Parameters, IInv, NEW c \in Codes, NEW u \in Users, UseCode(c, u),
           NEW m \in Marks, Known(m), ~Newer(Mark(c)', m)
    PROVE  Kept(c)'
  <1>0. /\ used'[c].at = now /\ c \in Used' /\ now \in Nat /\ c \in Nat
        /\ \A d \in Used : d \in Used' /\ used'[d] = used[d]
    <2>1. /\ used'[c] = [user |-> u, at |-> now] /\ Used' = Used \cup {c}
          /\ \A d \in Used : used'[d] = used[d]
      BY Grown
    <2>2. now \in Nat /\ c \in Nat
      BY DEF IInv, TypeOK, Times, Parameters
    <2> QED
      BY <2>1, <2>2
  <1>1. Mark(c)'.at = now /\ Mark(c)'.id = c
    BY <1>0 DEF Mark
  <1>2. m # NoMark
    BY <1>0, <1>1 DEF NoMark, Newer
  <1>3. PICK d \in Used : m = Mark(d)
    BY <1>2 DEF Known
  <1>4. used[d].at \in Nat /\ d \in Nat /\ used[d].at <= now /\ m.at = used[d].at /\ m.id = d
    BY <1>3, CodeOrder DEF IInv, UsedInv, Times
  <1>5. used[d].at = now /\ d >= c
    BY <1>0, <1>1, <1>4 DEF Newer
  <1>6. d # c
    BY Grown
  <1> QED
    BY <1>0, <1>4, <1>5, <1>6 DEF Kept

LEMMA UseCodeKeeps ==
    ASSUME Parameters, IInv, NEW c \in Codes, NEW u \in Users, UseCode(c, u)
    PROVE  IInv'
  <1>0. UNCHANGED <<now, store, cursor, run, refresh, erased, runs>>
    BY DEF UseCode
  <1>1. TypeOK'
    <2>1. now \in Times /\ [user |-> u, at |-> now] \in [user : Users, at : Times]
      BY DEF IInv, TypeOK
    <2>2. DOMAIN used' \subseteq Codes /\ \A d \in DOMAIN used' : used'[d] \in [user : Users, at : Times]
      BY <2>1, Grown DEF IInv, TypeOK, Used
    <2>3. store \subseteq DOMAIN used' /\ erased \subseteq DOMAIN used'
      BY Grown DEF IInv, TypeOK, Used
    <2> QED
      BY <1>0, <2>2, <2>3 DEF IInv, TypeOK
  <1>2. UsedInv'
    <2>1. /\ used'[c] = [user |-> u, at |-> now] /\ Used' = Used \cup {c}
          /\ \A d \in Used : used'[d] = used[d]
      BY Grown
    <2>2. now \in Nat /\ \A d \in Used : used[d].at <= now
      BY DEF IInv, TypeOK, Times, UsedInv
    <2>3. \A d \in Used' : used'[d].at <= now
      BY <2>1, <2>2
    <2> QED
      BY <1>0, <2>3, Grown DEF IInv, UsedInv, Counts
  <1>3. CursorInv'
    <2>1. cursor \in Marks /\ Known(cursor)
      BY DEF IInv, TypeOK, CursorInv
    <2>2. ASSUME NEW d \in Used', Counts(d), ~Newer(Mark(d)', cursor) PROVE Kept(d)'
      BY <2>1, <2>2, Grown, NewIsNewer DEF IInv, CursorInv
    <2> QED
      BY <1>0, <2>1, <2>2, Grown DEF CursorInv, Counts
  <1>4. RunInv'
    <2> SUFFICES ASSUME run.phase # "idle" PROVE RunInv'
      BY <1>0 DEF RunInv
    <2>1. run \in Running /\ run.next \in Marks /\ Known(run.next)
      BY DEF IInv, TypeOK, RunInv, Idle, Running
    <2>2. ASSUME NEW d \in Used', Counts(d), ~Newer(Mark(d)', run.next)
          PROVE  \/ Kept(d)'
                 \/ run.phase = "read" /\ Newer(Mark(d)', cursor) /\ Unread(Used, d, run.page)'
      <3>1. CASE d = c
        BY <2>1, <2>2, <3>1, NewIsNewer
      <3>2. CASE d \in Used
        <4>1. run.page \in Nat /\ Mark(d)' = Mark(d) /\ ~Newer(Mark(d), run.next)
          BY <2>1, <2>2, <3>2, Grown DEF Running
        <4>2. Kept(d) \/ (run.phase = "read" /\ Newer(Mark(d), cursor) /\ Unread(Used, d, run.page))
          BY <2>2, <3>2, <4>1 DEF IInv, RunInv
        <4>3. ASSUME NEW p \in Nat, p = run.page, Unread(Used, d, p) PROVE Unread(Used, d, run.page)'
          <5>1. Unread(Used, d, p)' /\ run'.page = p
            BY <1>0, <3>2, <4>3, UnreadStays
          <5> QED BY <5>1
        <4> QED
          BY <1>0, <3>2, <4>1, <4>2, <4>3, Grown
      <3> QED
        BY <2>2, <3>1, <3>2, Grown
    <2> QED
      BY <1>0, <2>1, <2>2, Grown DEF IInv, RunInv, Counts
  <1>5. ASSUME NEW r \in Refreshes PROVE CallInv(refresh[r])'
    <2> DEFINE f == refresh[r]
    <2> SUFFICES ASSUME f.phase # "idle" PROVE CallInv(f)'
      BY <1>0 DEF CallInv
    <2>1. f' = f /\ f \in Calls /\ f.page \in Nat /\ f.user \in Users /\ CallInv(f)
      BY <1>0 DEF IInv, TypeOK, Idle, Calls
    <2>2. \A d \in f.known : d \in f.got \/ (f.phase = "fetch" /\ Unread(Of(f.user), d, f.page)')
      <3>1. ASSUME NEW d \in f.known, NEW v \in Users, v = f.user, Unread(Of(v), d, f.page)
            PROVE  Unread(Of(f.user), d, f.page)'
        BY <2>1, <3>1, UnreadStays DEF CallInv, Of
      <3> QED
        BY <2>1, <3>1 DEF CallInv
    <2>3. f.got \subseteq Used /\ f.known \subseteq Used /\ Of(f.user) \subseteq Of(f.user)'
      BY <2>1, Grown DEF CallInv, Of
    <2> QED
      BY <2>1, <2>2, <2>3, Grown DEF CallInv, Counts
  <1> QED
    BY <1>1, <1>2, <1>3, <1>4, <1>5 DEF IInv

-----------------------------------------------------------------------------
(* The synchronisation.                                                    *)

LEMMA MarkOrder ==
    ASSUME Parameters, NEW m \in Marks, NEW n \in Marks, NEW o \in Marks
    PROVE  /\ ~Newer(m, m)
           /\ ~Newer(m, n) /\ ~Newer(n, o) => ~Newer(m, o)
           /\ Newer(m, n) /\ ~Newer(o, n) => Newer(m, o)
           /\ Newer(m, n) => ~Newer(n, m)
  <1>1. \A x \in Marks : x.at \in Times \cup {-1} /\ x.id \in Codes \cup {0}
    BY DEF Marks
  <1>3. Times \cup {-1} \subseteq Int /\ Codes \cup {0} \subseteq Int
    BY DEF Times, Parameters
  <1>2. \A x \in Marks : x.at \in Int /\ x.id \in Int
    BY <1>1, <1>3
  <1> QED
    BY <1>2 DEF Newer

LEMMA MarkType ==
    ASSUME TypeOK, NEW c \in Used
    PROVE  Mark(c) \in Marks
  BY DEF TypeOK, Used, Mark, Marks

\* The newest of what was read so far is there: of a page the one of least rank.
LEMMA NewestIsThere ==
    ASSUME Parameters, TypeOK, UsedInv, NEW S \in SUBSET Used, NEW m \in Marks
    PROVE  LET M == {m} \cup {Mark(c) : c \in S}
           IN  Newest(M) \in M /\ \A n \in M : ~Newer(n, Newest(M))
  <1> DEFINE M == {m} \cup {Mark(c) : c \in S}
  <1>1. \A n \in M : n \in Marks
    BY MarkType
  <1>2. \E n \in M : \A o \in M : ~Newer(o, n)
    <2>1. CASE S = {}
      BY <1>1, <2>1, MarkOrder
    <2>2. CASE S # {}
      <3> DEFINE places == {Rank(Used, c) : c \in S}
      <3>1. places \subseteq Nat /\ places # {}
        BY <2>2, RankType
      <3>2. PICK least \in places : \A k \in places : ~(<<k, least>> \in OpToRel(<, Nat))
        BY <3>1, NatLessThanWellFounded, WFMin
      <3>3. PICK c \in S : least = Rank(Used, c)
        BY <3>2
      <3>4. \A d \in S : ~(Rank(Used, d) < Rank(Used, c))
        BY <3>1, <3>2, <3>3 DEF OpToRel
      <3>5. \A d \in S : ~Newer(Mark(d), Mark(c))
        BY <3>3, <3>4, RankOrder
      <3>6. CASE Newer(m, Mark(c))
        BY <1>1, <3>3, <3>5, <3>6, MarkOrder
      <3>7. CASE ~Newer(m, Mark(c))
        BY <3>3, <3>5, <3>7
      <3> QED BY <3>6, <3>7
    <2> QED BY <2>1, <2>2
  <1> HIDE DEF M
  <1>3. Newest(M) \in M /\ \A n \in M : ~Newer(n, Newest(M))
    BY <1>2 DEF Newest
  <1> QED
    BY <1>3 DEF M

\* What a page leaves out lies after it, and is not the last to be read.
LEMMA ReadPageOwes ==
    ASSUME Parameters, IInv, ReadPage, NEW d \in Used, Counts(d), ~Newer(Mark(d), run.next)'
    PROVE  \/ Kept(d)'
           \/ run'.phase = "read" /\ Newer(Mark(d), cursor) /\ Unread(Used, d, run'.page)
  <1> DEFINE items == Page(Used, run.page)
             fresh == {c \in items : Newer(Mark(c), run.previous)}
             done  == items # fresh \/ LastPage(Used, run.page)
             M     == {run.next} \cup {Mark(c) : c \in fresh}
  <1>0. /\ TypeOK /\ UsedInv /\ run \in Running /\ run.page \in Nat \ {0} /\ run.next \in Marks
        /\ cursor \in Marks /\ run.previous = cursor /\ ~Newer(cursor, run.next) /\ run.phase = "read"
    BY DEF IInv, ReadPage, RunInv, TypeOK, Idle, Running
  <1>1. /\ store' = (store \ fresh) \cup {c \in fresh : Counts(c)} /\ erased' = erased \ store'
        /\ run' = [run EXCEPT !.next  = Newest(M),
                              !.phase = IF done THEN "save" ELSE "read",
                              !.page  = IF done THEN @ ELSE @ + 1]
        /\ used' = used
    BY DEF ReadPage
  <1>2. /\ run'.next = Newest(M) /\ run'.phase = IF done THEN "save" ELSE "read"
        /\ run'.page = IF done THEN run.page ELSE run.page + 1
    BY <1>0, <1>1 DEF Running
  <1>3. fresh \subseteq Used /\ items \subseteq Used
    BY DEF Page
  <1>4. Newest(M) \in M /\ \A n \in M : ~Newer(n, Newest(M))
    BY <1>0, <1>3, NewestIsThere
  <1>5. Mark(d)' = Mark(d) /\ ~Newer(Mark(d), Newest(M)) /\ Mark(d) \in Marks
    BY <1>0, <1>1, <1>2, MarkType DEF Mark
  <1>6. Kept(d) => Kept(d)'
    BY <1>1 DEF Kept, Used
  <1> HIDE DEF M, done
  <1>7. Kept(d) \/ (Newer(Mark(d), cursor) /\ Unread(Used, d, run.page))
    <2>1. CASE ~Newer(Mark(d), run.next)
      BY <1>0, <2>1 DEF IInv, RunInv
    <2>2. CASE Newer(Mark(d), run.next)
      <3>1. Newer(Mark(d), cursor)
        BY <1>0, <1>5, <2>2, MarkOrder
      <3>2. PICK e \in fresh : Newest(M) = Mark(e)
        BY <1>4, <1>5, <2>2 DEF M
      <3>3. Unread(Used, e, run.page)
        <4>1. Rank(Used, e) \div PageSize = run.page - 1
          BY <3>2 DEF Page, Rank, Ahead
        <4> QED
          BY <1>0, <4>1, DivPage, RankType DEF Unread, Parameters
      <3>4. Unread(Used, d, run.page)
        <4>1. d = e \/ Newer(Mark(e), Mark(d))
          BY <1>0, <1>3, <1>5, <3>2, CodeOrder
        <4>2. Rank(Used, d) \in Nat /\ Rank(Used, e) \in Nat /\ Rank(Used, d) >= Rank(Used, e)
          BY <1>0, <1>3, <3>2, <4>1, RankOrder, RankType
        <4>3. (run.page - 1) * PageSize \in Int
          BY <1>0 DEF Parameters
        <4> QED
          BY <3>3, <4>2, <4>3 DEF Unread
      <3> QED BY <3>1, <3>4
    <2> QED BY <2>1, <2>2
  <1>8. CASE Newer(Mark(d), cursor) /\ Unread(Used, d, run.page)
    <2>1. CASE d \in items
      BY <1>0, <1>1, <1>8, <2>1 DEF Kept
    <2>2. CASE d \notin items
      <3>1. Unread(Used, d, run.page + 1)
        BY <1>0, <1>8, <2>2, PageRead
      <3>2. ~LastPage(Used, run.page) /\ \A e \in items : Newer(Mark(e), Mark(d))
        BY <1>0, <3>1, PageOrder
      <3>3. items = fresh
        <4>1. ASSUME NEW e \in items PROVE Newer(Mark(e), cursor)
          <5>1. Mark(e) \in Marks /\ Newer(Mark(e), Mark(d)) /\ ~Newer(cursor, Mark(d))
            BY <1>0, <1>3, <1>5, <1>8, <3>2, MarkType, MarkOrder
          <5> QED
            BY <1>0, <1>5, <5>1, MarkOrder
        <4> QED
          BY <1>0, <4>1
      <3>4. ~done
        BY <3>2, <3>3 DEF done
      <3> QED
        BY <1>2, <1>8, <3>1, <3>4
    <2> QED BY <2>1, <2>2
  <1> QED
    BY <1>6, <1>7, <1>8

LEMMA ReadPageKeeps ==
    ASSUME Parameters, IInv, ReadPage
    PROVE  IInv'
  <1> DEFINE items == Page(Used, run.page)
             fresh == {c \in items : Newer(Mark(c), run.previous)}
             done  == items # fresh \/ LastPage(Used, run.page)
             M     == {run.next} \cup {Mark(c) : c \in fresh}
  <1>0. /\ TypeOK /\ UsedInv /\ run \in Running /\ run.page \in Nat \ {0} /\ run.next \in Marks
        /\ cursor \in Marks /\ run.previous = cursor /\ ~Newer(cursor, run.next) /\ Known(run.next)
    BY DEF IInv, ReadPage, RunInv, TypeOK, Idle, Running
  <1>1. /\ store' = (store \ fresh) \cup {c \in fresh : Counts(c)} /\ erased' = erased \ store'
        /\ run' = [run EXCEPT !.next  = Newest(M),
                              !.phase = IF done THEN "save" ELSE "read",
                              !.page  = IF done THEN @ ELSE @ + 1]
        /\ UNCHANGED <<now, used, cursor, refresh, runs>>
    BY DEF ReadPage
  <1>2. fresh \subseteq Used
    BY DEF Page
  <1>3. Newest(M) \in M /\ \A n \in M : ~Newer(n, Newest(M))
    BY <1>0, <1>2, NewestIsThere
  <1>4. Newest(M) \in Marks /\ Known(Newest(M)) /\ ~Newer(cursor, Newest(M))
    <2>1. \A n \in M : n \in Marks /\ Known(n)
      BY <1>0, <1>2, MarkType DEF Known
    <2> QED
      BY <1>0, <1>3, <2>1, MarkOrder
  <1> HIDE DEF M, done
  <1>5. run' \in Running /\ run'.previous = cursor /\ run'.next = Newest(M) /\ run'.page \in Nat \ {0}
    <2>1. run.page + 1 \in Nat \ {0} /\ run.phase = "read"
      BY <1>0 DEF ReadPage
    <2> QED
      BY <1>0, <1>1, <1>4, <2>1 DEF Running
  <1>6. TypeOK'
    BY <1>0, <1>1, <1>2, <1>5 DEF TypeOK, Used
  <1>7. UsedInv'
    BY <1>0, <1>1 DEF UsedInv, Used, Counts
  <1>8. \A c \in Used : Counts(c) /\ Kept(c) => Kept(c)'
    BY <1>1 DEF Kept, Used
  <1>9. CursorInv'
    BY <1>1, <1>8 DEF IInv, CursorInv, Known, Mark, Used, Counts
  <1>10. RunInv'
    <2>1. \A d \in Used : Counts(d) /\ ~Newer(Mark(d), run.next)' =>
             Kept(d)' \/ (run'.phase = "read" /\ Newer(Mark(d), cursor) /\ Unread(Used, d, run'.page))
      BY ReadPageOwes
    <2>2. /\ ~Newer(cursor, run'.next) /\ Used' = Used /\ cursor' = cursor
          /\ run'.page >= 1 /\ run'.previous = cursor
      BY <1>1, <1>4, <1>5 DEF Used
    <2>4. Known(run.next)'
      BY <1>1, <1>4, <1>5 DEF Known, Used, Mark
    <2>3. \A d \in Used : /\ Mark(d)' = Mark(d)
                          /\ Unread(Used, d, run'.page) <=> Unread(Used, d, run.page)'
      BY <1>1 DEF Mark, Unread, Rank, Ahead, Used
    <2>5. \A d \in Used' : Counts(d)' /\ ~Newer(Mark(d), run.next)' =>
             Kept(d)' \/ (run'.phase = "read" /\ Newer(Mark(d), cursor)' /\ Unread(Used, d, run.page)')
      BY <2>1, <2>2, <2>3 DEF Counts
    <2> QED
      BY <2>2, <2>4, <2>5 DEF RunInv
  <1>11. \A r \in Refreshes : CallInv(refresh[r])'
    BY <1>1 DEF IInv, CallInv, Of, Used, Counts, Unread, Rank, Ahead, Mark
  <1> QED
    BY <1>6, <1>7, <1>9, <1>10, <1>11 DEF IInv

\* Starting, saving and failing.
LEMMA RunKeeps ==
    ASSUME Parameters, IInv, StartRun \/ SaveCursor \/ FailRun
    PROVE  IInv'
  <1>0. UNCHANGED <<now, used, store, refresh, erased>>
    BY DEF StartRun, SaveCursor, FailRun
  <1>1. UsedInv' /\ \A r \in Refreshes : CallInv(refresh[r])'
    BY <1>0 DEF IInv, UsedInv, Used, CallInv, Of, Counts, Unread, Rank, Ahead, Mark
  <1>2. CASE StartRun
    <2>1. run' = [phase |-> "read", page |-> 1, previous |-> cursor, next |-> cursor] /\ cursor' = cursor
      BY <1>2 DEF StartRun
    <2>2. cursor \in Marks
      BY DEF IInv, TypeOK
    <2>3. TypeOK'
      <3>1. run' \in Running
        BY <2>1, <2>2 DEF Running
      <3>2. runs' \in 0..MaxRuns
        BY <1>2 DEF StartRun, IInv, TypeOK, Parameters
      <3> QED
        BY <1>0, <2>1, <3>1, <3>2 DEF IInv, TypeOK
    <2>4. CursorInv' /\ RunInv'
      BY <1>0, <2>1, <2>2, MarkOrder DEF IInv, CursorInv, RunInv, Known, Kept, Used, Mark, Counts
    <2> QED BY <1>1, <2>3, <2>4 DEF IInv
  <1>3. CASE SaveCursor
    <2>1. run' = Idle /\ cursor' = run.next /\ run.phase = "save" /\ run \in Running
      BY <1>3 DEF SaveCursor, IInv, TypeOK, Idle
    <2>2. TypeOK'
      BY <1>0, <1>3, <2>1 DEF SaveCursor, IInv, TypeOK, Running
    <2>3. CursorInv' /\ RunInv'
      BY <1>0, <2>1 DEF IInv, CursorInv, RunInv, Known, Kept, Used, Mark, Counts, Idle
    <2> QED BY <1>1, <2>2, <2>3 DEF IInv
  <1>4. CASE FailRun
    <2>1. run' = Idle /\ cursor' = cursor /\ runs' = runs
      BY <1>4 DEF FailRun
    <2>2. TypeOK' /\ CursorInv' /\ RunInv'
      BY <1>0, <2>1 DEF IInv, TypeOK, CursorInv, RunInv, Known, Kept, Used, Mark, Counts, Idle
    <2> QED BY <1>1, <2>2 DEF IInv
  <1> QED BY <1>2, <1>3, <1>4

-----------------------------------------------------------------------------
(* A refresh.                                                              *)

\* The rest is as before when only one call moves.
LEMMA CallMoves ==
    ASSUME Parameters, IInv, NEW r \in Refreshes, NEW f \in Calls \cup {Idle},
           refresh' = [refresh EXCEPT ![r] = f], CallInv(f),
           UNCHANGED <<now, used, store, cursor, run, erased, runs>>
    PROVE  IInv'
  <1>1. TypeOK'
    BY DEF IInv, TypeOK
  <1>2. UsedInv' /\ CursorInv' /\ RunInv'
    BY DEF IInv, UsedInv, CursorInv, RunInv, Known, Kept, Used, Mark, Counts, Unread, Rank, Ahead
  <1>3. ASSUME NEW q \in Refreshes PROVE CallInv(refresh[q])'
    <2>1. refresh'[q] = IF q = r THEN f ELSE refresh[q]
      BY DEF IInv, TypeOK
    <2>2. CallInv(refresh'[q])
      BY <2>1 DEF IInv
    <2> QED
      BY <2>2 DEF CallInv, Of, Used, Counts, Unread, Rank, Ahead, Mark
  <1> QED BY <1>1, <1>2, <1>3 DEF IInv

LEMMA BeginKeeps ==
    ASSUME Parameters, IInv, NEW r \in Refreshes, NEW u \in Users, NEW span \in Spans,
           Begin(r, u, span)
    PROVE  IInv'
  <1> DEFINE known == {c \in Of(u) : Counts(c) /\ used[c].at >= now - span}
             f == [phase |-> "fetch", page |-> 1, user |-> u, cutoff |-> now - span, got |-> {},
                   known |-> known]
  <1>1. refresh' = [refresh EXCEPT ![r] = f] /\ UNCHANGED <<now, used, store, cursor, run, erased, runs>>
    BY DEF Begin
  <1>2. now - span \in Int
    BY DEF IInv, TypeOK, Times, Parameters
  <1>3. Of(u) \in SUBSET Used /\ Used \subseteq Codes
    BY DEF Of, IInv, TypeOK, Used
  <1>4. f \in Calls
    BY <1>2, <1>3 DEF Calls
  <1>5. CallInv(f)
    <2>1. ASSUME NEW c \in known PROVE Unread(Of(u), c, 1)
      <3>1. Rank(Of(u), c) \in Nat
        BY <1>3, RankType DEF IInv
      <3>2. (1 - 1) * PageSize = 0
        BY DEF Parameters
      <3> QED BY <3>1, <3>2 DEF Unread
    <2> QED BY <2>1 DEF CallInv
  <1> QED
    BY <1>1, <1>4, <1>5, CallMoves

LEMMA FetchKeeps ==
    ASSUME Parameters, IInv, NEW r \in Refreshes, Fetch(r)
    PROVE  IInv'
  <1> DEFINE f     == refresh[r]
             items == Page(Of(f.user), f.page)
             old   == {c \in items : Before(c, f.cutoff)}
             done  == old # {} \/ LastPage(Of(f.user), f.page)
             g     == [f EXCEPT !.got   = @ \cup (items \ old),
                                !.phase = IF done THEN "commit" ELSE "fetch",
                                !.page  = IF done THEN @ ELSE @ + 1]
  <1>0. /\ TypeOK /\ UsedInv /\ f.phase = "fetch" /\ f \in Calls /\ CallInv(f)
        /\ f.page \in Nat \ {0} /\ f.user \in Users /\ f.cutoff \in Int
        /\ Of(f.user) \in SUBSET Used /\ Used \subseteq Codes
    <2>1. TypeOK /\ UsedInv /\ CallInv(f) /\ f \in Calls \cup {Idle} /\ f.phase = "fetch"
      BY DEF Fetch, IInv, TypeOK
    <2>2. f \in Calls
      BY <2>1 DEF Idle
    <2>3. f.page \in Nat /\ f.user \in Users /\ f.cutoff \in Int
      BY <2>2 DEF Calls
    <2>4. f.page >= 1
      BY <2>1 DEF CallInv
    <2>5. Of(f.user) \in SUBSET Used /\ Used \subseteq Codes
      BY <2>1 DEF TypeOK, Of, Used
    <2> QED
      BY <2>1, <2>2, <2>3, <2>4, <2>5
  <1>1. refresh' = [refresh EXCEPT ![r] = g] /\ UNCHANGED <<now, used, store, cursor, run, erased, runs>>
    BY DEF Fetch, IInv, TypeOK
  <1>2. items \subseteq Of(f.user) /\ \A c \in items \ old : used[c].at >= f.cutoff
    <2>1. \A c \in Used : used[c].at \in Int
      BY <1>0, CodeOrder DEF Times
    <2> QED
      BY <1>0, <2>1 DEF Page, Before
  <1> HIDE DEF done
  <1>3. /\ g.phase = (IF done THEN "commit" ELSE "fetch") /\ g.got = f.got \cup (items \ old)
        /\ g.page = (IF done THEN f.page ELSE f.page + 1)
        /\ g.user = f.user /\ g.cutoff = f.cutoff /\ g.known = f.known
    BY <1>0 DEF Calls
  <1>4. g \in Calls
    <2>1. f.page + 1 \in Nat /\ items \subseteq Codes
      BY <1>0, <1>2
    <2> QED
      BY <1>0, <2>1 DEF Calls
  <1>5. ASSUME NEW c \in f.known PROVE c \in g.got \/ (g.phase = "fetch" /\ Unread(Of(f.user), c, g.page))
    <2>1. c \in Of(f.user) /\ used[c].at >= f.cutoff /\ used[c].at \in Int
      BY <1>0, CodeOrder DEF CallInv, Times
    <2>2. CASE c \in f.got
      BY <1>3, <2>2
    <2>3. CASE c \in items
      BY <1>0, <1>3, <2>1, <2>3 DEF Before
    <2>4. CASE Unread(Of(f.user), c, f.page) /\ c \notin items
      <3>1. Unread(Of(f.user), c, f.page + 1)
        BY <1>0, <2>1, <2>4, PageRead
      <3>2. ~LastPage(Of(f.user), f.page) /\ \A e \in items : Newer(Mark(e), Mark(c))
        BY <1>0, <2>1, <3>1, PageOrder
      <3>3. old = {}
        <4>1. ASSUME NEW e \in items PROVE used[e].at >= f.cutoff /\ used[e].at \in Int
          <5>1. used[e].at \in Int /\ Mark(e).at = used[e].at /\ Mark(c).at = used[c].at
            BY <1>0, <1>2, <2>1, CodeOrder DEF Times
          <5>2. used[e].at >= used[c].at
            BY <2>1, <3>2, <5>1 DEF Newer
          <5> QED BY <1>0, <2>1, <5>1, <5>2
        <4> QED BY <1>0, <4>1 DEF Before
      <3>4. ~done
        BY <3>2, <3>3 DEF done
      <3> QED BY <1>3, <3>1, <3>4
    <2> QED
      BY <1>0, <2>2, <2>3, <2>4 DEF CallInv
  <1>6. CallInv(g)
    <2>1. g.page >= 1 /\ g.got \subseteq Of(g.user) /\ \A c \in g.got : used[c].at >= g.cutoff
      BY <1>0, <1>2, <1>3 DEF CallInv
    <2>2. g.known \subseteq Of(g.user) /\ \A c \in g.known : Counts(c) /\ used[c].at >= g.cutoff
      BY <1>0, <1>3 DEF CallInv
    <2> QED
      BY <1>3, <1>5, <2>1, <2>2 DEF CallInv
  <1> QED
    BY <1>1, <1>4, <1>6, CallMoves

LEMMA CommitKeeps ==
    ASSUME Parameters, IInv, NEW r \in Refreshes, Commit(r)
    PROVE  IInv'
  <1> DEFINE f == refresh[r]
  <1>0. /\ f.phase = "commit" /\ f \in Calls /\ CallInv(f) /\ f.got \subseteq Used
        /\ UNCHANGED <<now, used, cursor, run, runs>> /\ refresh' = [refresh EXCEPT ![r] = Idle]
        /\ store' = (store \ Recent(f.user, f.cutoff)) \cup {c \in f.got : Counts(c)}
        /\ erased' = (erased \cup store) \ store'
    <2>1. CallInv(f) /\ f \in Calls \cup {Idle} /\ f.phase = "commit"
      BY DEF Commit, IInv, TypeOK
    <2>2. f \in Calls
      BY <2>1 DEF Idle
    <2>3. f.got \subseteq Used
      BY <2>1 DEF CallInv, Of
    <2> QED
      BY <2>1, <2>2, <2>3 DEF Commit
  <1>1. TypeOK'
    BY <1>0 DEF IInv, TypeOK, Used
  <1>2. UsedInv'
    BY <1>0 DEF IInv, UsedInv, Used, Counts
  <1>3. \A c \in Used : Kept(c) => Kept(c)'
    BY <1>0 DEF Kept, Used
  <1>4. CursorInv'
    BY <1>0, <1>3 DEF IInv, CursorInv, Known, Mark, Used, Counts
  <1>5. RunInv'
    BY <1>0, <1>3 DEF IInv, RunInv, Known, Mark, Used, Counts, Unread, Rank, Ahead
  <1>6. ASSUME NEW q \in Refreshes PROVE CallInv(refresh[q])'
    <2>1. refresh'[q] = Idle \/ refresh'[q] = refresh[q]
      BY <1>0 DEF IInv, TypeOK
    <2>2. CallInv(refresh'[q])
      BY <2>1 DEF IInv, CallInv, Idle
    <2> QED
      BY <1>0, <2>2 DEF CallInv, Of, Used, Counts, Unread, Rank, Ahead, Mark
  <1> QED
    BY <1>1, <1>2, <1>4, <1>5, <1>6 DEF IInv

-----------------------------------------------------------------------------

LEMMA InvInit == ASSUME Parameters, Init PROVE IInv
  <1>1. Used = {} /\ IsFiniteSet(Used)
    BY FS_EmptySet DEF Init, Used
  <1>2. TypeOK
    BY <1>1 DEF Init, TypeOK, Used, Times, Marks, NoMark, Parameters
  <1> QED
    BY <1>1, <1>2 DEF Init, IInv, UsedInv, CursorInv, RunInv, CallInv, Known, Idle

LEMMA InvNext == ASSUME Parameters, IInv, [Next]_vars PROVE IInv'
  <1>1. ASSUME NEW r \in Refreshes, FailRefresh(r) PROVE IInv'
    <2>1. CallInv(Idle) /\ UNCHANGED <<now, used, store, cursor, run, erased, runs>>
      BY <1>1 DEF CallInv, Idle, FailRefresh
    <2> QED
      BY <1>1, <2>1, CallMoves DEF FailRefresh
  <1>2. CASE Tick
    <2>0. UNCHANGED <<used, store, cursor, run, refresh, erased, runs>> /\ now < Horizon /\ now' = now + 1
      BY <1>2 DEF Tick
    <2>1. now \in Nat /\ now' \in Times
      BY <2>0 DEF IInv, TypeOK, Times, Parameters
    <2>2. TypeOK'
      BY <2>0, <2>1 DEF IInv, TypeOK
    <2>3. UsedInv'
      <3>1. \A c \in Used : used[c].at \in Nat /\ used[c].at <= now
        BY DEF IInv, UsedInv, TypeOK, Used, Times
      <3> QED
        BY <2>0, <2>1, <3>1 DEF IInv, UsedInv, Used, Counts
    <2>4. CursorInv' /\ RunInv' /\ \A r \in Refreshes : CallInv(refresh[r])'
      BY <2>0 DEF IInv, CursorInv, RunInv, CallInv, Known, Kept, Of, Used, Mark, Counts, Unread, Rank, Ahead
    <2> QED BY <2>2, <2>3, <2>4 DEF IInv
  <1>3. CASE UNCHANGED vars
    BY <1>3 DEF vars, IInv, TypeOK, UsedInv, CursorInv, RunInv, CallInv, Known, Kept, Of, Used, Mark,
                Counts, Unread, Rank, Ahead
  <1> QED
    BY <1>1, <1>2, <1>3, UseCodeKeeps, ReadPageKeeps, RunKeeps, BeginKeeps, FetchKeeps, CommitKeeps DEF Next

\* Everything a synchronisation or a refresh may still rely on between two pages.
THEOREM InductiveInvariant ==
    ASSUME Parameters
    PROVE  Spec => []IInv
  <1>1. IInv /\ [Next]_vars => IInv'
    BY InvNext
  <1>2. Init => IInv
    BY InvInit
  <1> QED
    BY <1>1, <1>2, PTL DEF Spec

\* No recharge is missed below the saved cursor, with any number of pages and any
\* failures (#syncRedeemCodes).
LEMMA InvComplete == ASSUME Parameters, IInv PROVE LedgerComplete
  BY DEF IInv, UsedInv, CursorInv, Kept, LedgerComplete

THEOREM LedgerCorrect ==
    ASSUME Parameters
    PROVE  Spec => []LedgerComplete
  <1>1. IInv => LedgerComplete
    BY InvComplete
  <1> QED
    BY <1>1, InductiveInvariant, PTL

\* What a refresh stores is complete for its window and its user, and touches no other.
LEMMA CommitIsExact ==
    ASSUME Parameters, IInv, NEW r \in Refreshes, Commit(r), NEW u \in Users, NEW since \in Int
    PROVE  IF u = refresh[r].user
           THEN since = refresh[r].cutoff =>
                   /\ refresh[r].known \subseteq Recent(u, since)'
                   /\ \A c \in Recent(u, since)' : Counts(c)
           ELSE Recent(u, since)' = Recent(u, since)
  <1> DEFINE f == refresh[r]
  <1>0. /\ f.phase = "commit" /\ f \in Calls /\ CallInv(f) /\ used' = used
        /\ store' = (store \ Recent(f.user, f.cutoff)) \cup {c \in f.got : Counts(c)}
    BY DEF Commit, IInv, TypeOK, Idle
  <1>1. f.known \subseteq f.got /\ f.got \subseteq Of(f.user) /\ \A c \in f.known : Counts(c) /\ used[c].at >= f.cutoff
    BY <1>0 DEF CallInv
  <1>2. CASE u = f.user
    BY <1>0, <1>1, <1>2 DEF Recent, Of, Used, IInv, UsedInv, Counts
  <1>3. CASE u # f.user
    BY <1>0, <1>1, <1>3 DEF Recent, Of, Used
  <1> QED BY <1>2, <1>3

LEMMA InvExact ==
    ASSUME Parameters, IInv
    PROVE  \A r \in Refreshes : Commit(r) =>
              \A u \in Users, since \in -Horizon..Horizon :
                  IF u = refresh[r].user
                  THEN since = refresh[r].cutoff =>
                          /\ refresh[r].known \subseteq Recent(u, since)'
                          /\ \A c \in Recent(u, since)' : Counts(c)
                  ELSE Recent(u, since)' = Recent(u, since)
  <1>1. -Horizon..Horizon \subseteq Int
    BY DEF Parameters
  <1> QED BY <1>1, CommitIsExact

THEOREM RefreshCorrect ==
    ASSUME Parameters
    PROVE  Spec => RecentIsExact
  <1>1. IInv => [\A r \in Refreshes : Commit(r) =>
              \A u \in Users, since \in -Horizon..Horizon :
                  IF u = refresh[r].user
                  THEN since = refresh[r].cutoff =>
                          /\ refresh[r].known \subseteq Recent(u, since)'
                          /\ \A c \in Recent(u, since)' : Counts(c)
                  ELSE Recent(u, since)' = Recent(u, since)]_vars
    BY InvExact
  <1> QED
    BY <1>1, InductiveInvariant, PTL DEF RecentIsExact
=============================================================================
