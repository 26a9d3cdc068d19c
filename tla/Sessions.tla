------------------------------- MODULE Sessions -------------------------------
(***************************************************************************)
(* The sessions of one user in one browser (server/src/sessions.js, the    *)
(* request handler and the entry, session and logout routes of             *)
(* server/src/http.js; web/src/api/client.ts and web/src/stores/session.ts *)
(* in every tab).  A session keeps the role of its first moment; a request *)
(* to the administration asks upstream for the current one.  GET           *)
(* /api/session gives out a new CSRF token and keeps only its hash, so     *)
(* that the token of before is worth nothing: the tabs of a browser share  *)
(* the session, in its cookie, and each keeps the token it was given last. *)
(*                                                                         *)
(* Abstracted: hashes (a token is a number), what the requests do, the     *)
(* renewal of last_seen_at, which nothing reads.                           *)
(***************************************************************************)
EXTENDS Integers, FiniteSets

CONSTANTS
    Tabs,
    Requests,
    Lifetime,      \* sessionTtlMs, in units of time
    Horizon,       \* bound on time
    MaxSessions,   \* bound on sessions
    MaxTokens      \* bound on CSRF tokens

VARIABLES
    now,
    standing,      \* role and status upstream: "admin" is an active administrator
    sessions,      \* the table
    made, tokens,  \* sessions and tokens so far
    cookie,        \* the browser's session, 0 for none
    held,          \* the token of each tab, 0 for none
    answers,       \* answers to GET /api/session under way
    req,           \* requests between their awaits
    last,          \* history: whose GET /api/session the session has answered last
    crossed        \* history: tabs that asked again before they were answered

vars == <<now, standing, sessions, made, tokens, cookie, held, answers, req, last, crossed>>

Standings == {"admin", "user", "disabled"}
Ids       == 1..MaxSessions
Gone      == [row |-> FALSE]
Rows      == [row : {TRUE}, role : {"admin", "user"}, csrf : 0..MaxTokens, expires : Nat]
Rest      == [phase |-> "rest"]
\* admin is history: upstream has had an active administrator since the request came.
Enters    == [phase : {"entering"}, role : {"admin", "user"}]
Calls     == [phase : {"asking", "answered"}, session : Ids, admin : BOOLEAN, current : Standings]

TypeOK ==
    /\ now \in 0..Horizon /\ standing \in Standings
    /\ sessions \in [Ids -> Rows \cup {Gone}]
    /\ made \in 0..MaxSessions /\ tokens \in 0..MaxTokens
    /\ cookie \in 0..MaxSessions /\ held \in [Tabs -> 0..MaxTokens]
    /\ answers \subseteq [tab : Tabs, token : 1..MaxTokens]
    /\ req \in [Requests -> Enters \cup Calls \cup {Rest}]
    /\ last \in Tabs \cup {"none"} /\ crossed \subseteq Tabs

Init ==
    /\ now = 0 /\ standing \in Standings
    /\ sessions = [s \in Ids |-> Gone] /\ made = 0 /\ tokens = 0
    /\ cookie = 0 /\ held = [t \in Tabs |-> 0] /\ answers = {}
    /\ req = [q \in Requests |-> Rest]
    /\ last = "none" /\ crossed = {}

-----------------------------------------------------------------------------

Role(st) == IF st = "admin" THEN "admin" ELSE "user"

\* getFromRequest: the row of the browser's cookie, while it is valid.
Valid(s) == s # 0 /\ sessions[s].row /\ sessions[s].expires > now

Delete(s) == sessions' = [sessions EXCEPT ![s] = Gone]
Finish(q) == req' = [req EXCEPT ![q] = Rest]

-----------------------------------------------------------------------------
(* Plausible faults, against which the properties below are tried.          *)

\* The role of the session instead of the one upstream has answered.
AdminOfSession(q) == sessions[req[q].session].row /\ sessions[req[q].session].role = "admin"

\* A token that is given out without its hash being stored.
KeepToken(s, token) == UNCHANGED sessions

-----------------------------------------------------------------------------
(* Entering from Sub2API: authMe, then SessionStore.create.                *)

Enter(q) ==
    /\ req[q].phase = "rest" /\ made < MaxSessions /\ standing # "disabled"
    /\ req' = [req EXCEPT ![q] = [phase |-> "entering", role |-> Role(standing)]]
    /\ UNCHANGED <<now, standing, sessions, made, tokens, cookie, held, answers, last, crossed>>

\* SessionStore.create.  A CSRF token is made as well, but nobody is told it.
NewSession(role) == [row |-> TRUE, role |-> role, csrf |-> 0, expires |-> now + Lifetime]

Create(q) ==
    /\ req[q].phase = "entering" /\ made < MaxSessions /\ made' = made + 1
    /\ sessions' = [sessions EXCEPT ![made'] = NewSession(req[q].role)]
    /\ cookie' = made' /\ last' = "none" /\ Finish(q)
    /\ UNCHANGED <<now, standing, tokens, held, answers, crossed>>

-----------------------------------------------------------------------------
(* GET /api/session.                                                       *)

\* csrfTokenForSession.
StoreToken(s, token) == sessions' = [sessions EXCEPT ![s].csrf = token]

\* The store of a tab loads the session, at its start and again after errors; two
\* navigations may ask before the first answer is there.
Load(t) ==
    /\ Valid(cookie) /\ tokens < MaxTokens /\ tokens' = tokens + 1
    /\ StoreToken(cookie, tokens')
    /\ answers' = answers \cup {[tab |-> t, token |-> tokens']}
    /\ last' = t
    /\ crossed' = IF \E a \in answers : a.tab = t THEN crossed \cup {t} ELSE crossed \ {t}
    /\ UNCHANGED <<now, standing, made, cookie, held, req>>

\* apiRequest keeps the token of the answer that arrives, in whatever order.
Arrive(a) ==
    /\ a \in answers /\ answers' = answers \ {a}
    /\ held' = [held EXCEPT ![a.tab] = a.token]
    /\ UNCHANGED <<now, standing, sessions, made, tokens, cookie, req, last, crossed>>

-----------------------------------------------------------------------------
(* Requests that change something.                                         *)

Passes(t) == Valid(cookie) /\ held[t] # 0 /\ held[t] = sessions[cookie].csrf

\* requireAdmin, then the await of #verifyCurrentAdmin.
Ask(q, t) ==
    /\ req[q].phase = "rest" /\ Passes(t) /\ sessions[cookie].role = "admin"
    /\ req' = [req EXCEPT ![q] = [phase |-> "asking", session |-> cookie,
                                  admin |-> standing = "admin", current |-> standing]]
    /\ UNCHANGED <<now, standing, sessions, made, tokens, cookie, held, answers, last, crossed>>

UpstreamAnswers(q) ==
    /\ req[q].phase = "asking"
    /\ req' = [req EXCEPT ![q].phase = "answered", ![q].current = standing]
    /\ UNCHANGED <<now, standing, sessions, made, tokens, cookie, held, answers, last, crossed>>

\* refreshUser fails: so does the request.
NoAnswer(q) ==
    /\ req[q].phase = "asking" /\ Finish(q)
    /\ UNCHANGED <<now, standing, sessions, made, tokens, cookie, held, answers, last, crossed>>

AdminNow(q) == req[q].current = "admin"

Handle(q) ==
    /\ req[q].phase = "answered" /\ AdminNow(q) /\ Finish(q)
    /\ UNCHANGED <<now, standing, sessions, made, tokens, cookie, held, answers, last, crossed>>

Refuse(q) ==
    /\ req[q].phase = "answered" /\ ~AdminNow(q)
    /\ Delete(req[q].session) /\ Finish(q)
    /\ UNCHANGED <<now, standing, made, tokens, cookie, held, answers, last, crossed>>

Logout(t) ==
    /\ Passes(t) /\ Delete(cookie) /\ cookie' = 0
    /\ UNCHANGED <<now, standing, made, tokens, held, answers, req, last, crossed>>

-----------------------------------------------------------------------------
(* The surroundings.                                                       *)

Change(st) ==
    /\ standing # st /\ standing' = st
    /\ req' = [q \in Requests |-> IF req[q].phase = "asking" /\ st = "admin"
                                  THEN [req[q] EXCEPT !.admin = TRUE] ELSE req[q]]
    /\ UNCHANGED <<now, sessions, made, tokens, cookie, held, answers, last, crossed>>

Tick ==
    /\ now < Horizon /\ now' = now + 1
    /\ UNCHANGED <<standing, sessions, made, tokens, cookie, held, answers, req, last, crossed>>

\* SessionStore.cleanup.
Cleanup ==
    /\ sessions' = [s \in Ids |-> IF sessions[s].row /\ sessions[s].expires <= now
                                  THEN Gone ELSE sessions[s]]
    /\ UNCHANGED <<now, standing, made, tokens, cookie, held, answers, req, last, crossed>>

Next ==
    \/ \E q \in Requests :
          \/ Enter(q) \/ Create(q)
          \/ UpstreamAnswers(q) \/ NoAnswer(q) \/ Handle(q) \/ Refuse(q)
          \/ \E t \in Tabs : Ask(q, t)
    \/ \E t \in Tabs : Load(t) \/ Logout(t)
    \/ \E a \in answers : Arrive(a)
    \/ \E st \in Standings : Change(st)
    \/ Tick \/ Cleanup

Spec == Init /\ [][Next]_vars

-----------------------------------------------------------------------------
(* Properties.                                                             *)

\* A handler of the administration runs only for someone who was an active
\* administrator at some moment after the request had come, whatever the session
\* says; and who is found not to be one leaves no session that could ask again.
AdminIsCurrent ==
    [][\A q \in Requests :
          /\ Handle(q) => req[q].admin
          /\ Refuse(q) => ~sessions'[req[q].session].row]_vars

\* The token a tab holds is the one the session expects, so that what it does is
\* accepted, as long as no answer to it is under way, it was the last one to load
\* the session, and it did not ask twice at once.  Otherwise it may be refused until
\* it is loaded again: a second tab takes the token of the first, and of two answers
\* the earlier one may arrive last.
TokenInStep ==
    Valid(cookie) =>
        \A t \in Tabs :
            last = t /\ t \notin crossed /\ (\A a \in answers : a.tab # t) => Passes(t)
=============================================================================
