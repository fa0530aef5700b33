------------------------------ MODULE Sessions ------------------------------
(***************************************************************************)
(* Accounts, tokens and the tabs of one browser.  IdentityService creates   *)
(* accounts and issues tokens; the gateway lets a request pass while its    *)
(* token is valid; a tab keeps its session in memory and in localStorage,   *)
(* which the tabs share.  An answer finds the tab where the user has gone   *)
(* meanwhile: the callbacks of a component outlive it.                      *)
(***************************************************************************)
EXTENDS Integers, Sequences, FiniteSets

CONSTANTS
  Tabs,
  Logins,
  NewLogins,  \* those that accounts are created for
  Passwords,
  Seeds,      \* the accounts of db-scripts/seed.sql
  Replicas,   \* instances of IdentityService
  Skew,       \* replica -> its clock minus the gateway's
  Lifetime,   \* of a token: 30 minutes in ticks
  Lists,      \* the children of /dashboard, each with a list
  Uploaders,  \* those of them with an upload form
  Home,       \* "analyzes-list", where /dashboard leads
  Failures,   \* which of FailureKinds may happen
  MaxUsers,   \* bound: accounts
  MaxTime,    \* bound: ticks
  MaxTokens,  \* bound: tokens issued
  MaxCalls    \* bound: requests and timers in flight

FailureKinds ==
  {"unreachable",  \* a call ends without an answer of a service
   "error"}        \* QueryService answers 500

NoToken == 0
Nobody == 0
NoTab == "no tab"
Pages == {"login", "register"} \cup Lists

VARIABLES
  users,      \* the table of accounts
  issued,     \* the tokens, each known by its place here
  now,        \* the gateway's clock
  session,    \* tab -> the token of its currentUserSubject
  stored,     \* localStorage: a token
  page,       \* tab -> its page
  shown,      \* tab -> the account whose list it shows
  calls,      \* requests and timers in flight; equal ones count as one
  past,       \* tab -> the tokens of its sessions so far
  contested,  \* logins of which two creations overlapped
  overlapped  \* tabs that had two logins in flight at once

accounts == <<users, contested>>
clock == <<issued, now>>
screen == <<page, shown>>
vars == <<accounts, clock, session, stored, screen, calls, past, overlapped>>

\* Ids are fresh: they are numbered.
Guids == 1 .. MaxUsers
Accounts == [id : Guids, login : Logins, password : Passwords]
Tokens == 1 .. Len(issued)

ASSUME HomeAssumption == Home \in Lists /\ Lists \cap {"login", "register"} = {}
ASSUME UploadersAssumption == Uploaders \subseteq Lists
ASSUME SkewAssumption == Skew \in [Replicas -> Int]
ASSUME FailuresAssumption == Failures \subseteq FailureKinds
ASSUME BoundsAssumption == {Lifetime, MaxUsers, MaxTime, MaxTokens, MaxCalls} \subseteq Nat
ASSUME NewLoginsAssumption == NewLogins \subseteq Logins
ASSUME SeedsAssumption ==
  /\ IsFiniteSet(Seeds) /\ Seeds \subseteq Accounts
  /\ \A u \in Seeds : u.id \in 1 .. Cardinality(Seeds)
  /\ \A u, v \in Seeds : u.login = v.login \/ u.id = v.id => u = v

\* live: the component that made the call is still on the page.
ListCall(t, k) == [kind |-> "list", tab |-> t, live |-> TRUE, token |-> k]
LoginCall(t, l, p) == [kind |-> "login", tab |-> t, live |-> TRUE, login |-> l, password |-> p]
CreateCall(t, l, p) == [kind |-> "create", tab |-> t, login |-> l, password |-> p]
TimerOf(c) == [kind |-> "timer", tab |-> c.tab]

ListCalls == [kind : {"list"}, tab : Tabs, live : BOOLEAN, token : Tokens]
LoginCalls ==
  [kind : {"login"}, tab : Tabs, live : BOOLEAN, login : Logins, password : Passwords]
CreateCalls ==
  [kind : {"create", "checked"}, tab : Tabs \cup {NoTab}, login : Logins, password : Passwords]
Timers == [kind : {"timer"}, tab : Tabs]

TypeOK ==
  /\ users \subseteq Accounts
  /\ issued \in Seq([user : Guids, nbf : Int, exp : Int])
  /\ now \in 0 .. MaxTime
  /\ session \in [Tabs -> Tokens \cup {NoToken}]
  /\ stored \in Tokens \cup {NoToken}
  /\ page \in [Tabs -> Pages]
  /\ shown \in [Tabs -> Guids \cup {Nobody}]
  /\ calls \subseteq ListCalls \cup LoginCalls \cup CreateCalls \cup Timers
  /\ past \in [Tabs -> SUBSET Tokens]
  /\ contested \subseteq Logins
  /\ overlapped \subseteq Tabs

Init ==
  /\ users = Seeds
  /\ issued = << >>
  /\ now = 0
  /\ session = [t \in Tabs |-> NoToken]
  /\ stored = NoToken
  /\ page = [t \in Tabs |-> "login"]
  /\ shown = [t \in Tabs |-> Nobody]
  /\ calls = {}
  /\ past = [t \in Tabs |-> {}]
  /\ contested = {}
  /\ overlapped = {}

Tick ==
  /\ now < MaxTime
  /\ now' = now + 1
  /\ UNCHANGED <<accounts, issued, session, stored, screen, calls, past, overlapped>>

---------------------------------------------------------------------------
\* The router.  session' is set before a page is entered.

\* A mutant: the interceptor takes the token from localStorage.
BearerStored(t) == IF stored' = NoToken THEN session'[t] ELSE stored'

\* The token the interceptor puts into tab t's requests.
Bearer(t) == session'[t]

\* A mutant: what a component called for is shown by the next one.
LeftToNext(t, cs) == cs

\* The callbacks of a component that is left go on without it.
LeftBehind(t, cs) ==
  {IF c.tab = t /\ c.kind \in {"list", "login"} THEN [c EXCEPT !.live = FALSE] ELSE c : c \in cs}

\* A new component; a list component loads its list at once.
Enter(t, p, cs) ==
  /\ page' = [page EXCEPT ![t] = p]
  /\ shown' = [shown EXCEPT ![t] = Nobody]
  /\ calls' = LeftBehind(t, cs) \cup (IF p \in Lists THEN {ListCall(t, Bearer(t))} ELSE {})

\* A mutant: a route without its guard.
AdmittedAll(t, p) == p

\* The guard admits to the dashboard those who have a session, whatever its age.
Admitted(t, p) == IF p \in Lists /\ session'[t] = NoToken THEN "login" ELSE p

\* The login component sends those who have a session to the dashboard.
Forwarded(t, p) == IF p = "login" /\ session'[t] # NoToken THEN Home ELSE p

\* Nothing happens on the way to the page one is on.
NavigateTo(t, p, cs) ==
  LET to == Admitted(t, p) IN
  IF to = page[t] THEN calls' = cs /\ UNCHANGED screen
  ELSE Enter(t, Forwarded(t, to), cs)

\* A link, or the browser's back and forward buttons.
GoTo(t, p) ==
  /\ UNCHANGED <<accounts, clock, session, stored, past, overlapped>>
  /\ NavigateTo(t, p, calls)
  /\ Cardinality(calls') <= MaxCalls

\* The program starts again from localStorage.  The browser drops the callbacks;
\* an account being created is created all the same.
Reload(t) ==
  /\ UNCHANGED <<accounts, clock, stored, overlapped>>
  /\ session' = [session EXCEPT ![t] = stored]
  /\ past' = [past EXCEPT ![t] = @ \cup ({stored} \ {NoToken})]
  /\ Enter(t, Forwarded(t, Admitted(t, page[t])),
           {c \in calls : c.tab # t}
           \cup {[c EXCEPT !.tab = NoTab] : c \in {d \in calls : d.tab = t /\ d.kind \in {"create", "checked"}}})
  /\ Cardinality(calls') <= MaxCalls

---------------------------------------------------------------------------
\* Logging in and out

Awaits(t, kinds) == \E c \in calls : c.tab = t /\ c.kind \in kinds

\* The form is hidden while the component waits for an answer.
SubmitLogin(t, l, p) ==
  /\ page[t] = "login"
  /\ ~\E c \in calls : c.tab = t /\ c.kind = "login" /\ c.live
  /\ Cardinality(calls) < MaxCalls
  /\ calls' = calls \cup {LoginCall(t, l, p)}
  /\ overlapped' = IF Awaits(t, {"login"}) THEN overlapped \cup {t} ELSE overlapped
  /\ UNCHANGED <<accounts, clock, session, stored, screen, past>>

Matches(u, c) == u.login = c.login /\ u.password = c.password

GenerateTokenFor(u, time) == [user |-> u.id, nbf |-> time, exp |-> time + Lifetime]

\* Any account that matches, dated by the clock of replica i; the tab goes to the
\* dashboard although the user may have left the login page.
LoginAnswered(c, u, i) ==
  /\ c.kind = "login"
  /\ u \in users /\ Matches(u, c)
  /\ Len(issued) < MaxTokens
  /\ issued' = Append(issued, GenerateTokenFor(u, now + Skew[i]))
  /\ LET k == Len(issued) + 1
     IN /\ session' = [session EXCEPT ![c.tab] = k]
        /\ stored' = k
        /\ past' = [past EXCEPT ![c.tab] = @ \cup {k}]
  /\ NavigateTo(c.tab, Home, calls \ {c})
  /\ UNCHANGED <<accounts, now, overlapped>>

LoginFails(c) ==
  /\ c.kind = "login"
  /\ \/ "unreachable" \in Failures
     \/ \A u \in users : ~Matches(u, c)
  /\ calls' = calls \ {c}
  /\ UNCHANGED <<accounts, clock, session, stored, screen, past, overlapped>>

SignOut(t, cs) ==
  /\ session' = [session EXCEPT ![t] = NoToken]
  /\ stored' = NoToken
  /\ NavigateTo(t, "login", cs)
  /\ UNCHANGED <<accounts, clock, past, overlapped>>

Logout(t) == page[t] \in Lists /\ SignOut(t, calls)

---------------------------------------------------------------------------
\* Lists

\* Whose requests carry token k, to the services behind the gateway.
UserOf(k) == issued[k].user

\* The gateway's check.
Valid(k) == issued[k].nbf <= now /\ now <= issued[k].exp

ListAnswered(c) ==
  /\ c.kind = "list" /\ Valid(c.token)
  /\ shown' = IF c.live THEN [shown EXCEPT ![c.tab] = UserOf(c.token)] ELSE shown
  /\ calls' = calls \ {c}
  /\ UNCHANGED <<accounts, clock, session, stored, page, past, overlapped>>

\* An upload from the page has succeeded: the page loads its list again.
LoadAgain(t) ==
  /\ page[t] \in Uploaders
  /\ Cardinality(calls) < MaxCalls
  /\ calls' = calls \cup {ListCall(t, session[t])}
  /\ UNCHANGED <<accounts, clock, session, stored, screen, past, overlapped>>

\* Status 500: the page stays as it is.
ListThrows(c) ==
  /\ "error" \in Failures
  /\ c.kind = "list" /\ Valid(c.token)
  /\ calls' = calls \ {c}
  /\ UNCHANGED <<accounts, clock, session, stored, screen, past, overlapped>>

\* Any other status logs out the session the tab has by now.
ListRejected(c) == c.kind = "list" /\ ~Valid(c.token) /\ SignOut(c.tab, calls \ {c})

ListUnreachable(c) ==
  /\ "unreachable" \in Failures
  /\ c.kind = "list"
  /\ SignOut(c.tab, calls \ {c})

---------------------------------------------------------------------------
\* Creating an account

\* Bound: a tab creates one account at a time.
SubmitCreate(t, l, p) ==
  /\ page[t] = "register"
  /\ ~Awaits(t, {"create", "checked", "timer"})
  /\ Cardinality(calls) < MaxCalls
  /\ calls' = calls \cup {CreateCall(t, l, p)}
  /\ UNCHANGED <<accounts, clock, session, stored, screen, past, overlapped>>

\* A mutant: the login is not looked up.
LookUpNothing(c) ==
  /\ c.kind = "create"
  /\ calls' = (calls \ {c}) \cup {[c EXCEPT !.kind = "checked"]}
  /\ UNCHANGED <<accounts, clock, session, stored, screen, past, overlapped>>

\* IdentityService finds no account of that login.
LookUp(c) ==
  /\ c.kind = "create"
  /\ \A u \in users : u.login # c.login
  /\ calls' = (calls \ {c}) \cup {[c EXCEPT !.kind = "checked"]}
  /\ contested' = IF \E d \in calls : d.kind = "checked" /\ d.login = c.login
                  THEN contested \cup {c.login} ELSE contested
  /\ UNCHANGED <<users, clock, session, stored, screen, past, overlapped>>

\* The account is stored.  On the answer the component starts a timer; the
\* answer may be lost, or the tab be gone.
SaveChanges(c) ==
  /\ c.kind = "checked"
  /\ Cardinality(users) < MaxUsers
  /\ users' = users \cup {[id |-> Cardinality(users) + 1, login |-> c.login, password |-> c.password]}
  /\ \/ c.tab # NoTab /\ calls' = (calls \ {c}) \cup {TimerOf(c)}
     \/ (c.tab = NoTab \/ "unreachable" \in Failures) /\ calls' = calls \ {c}
  /\ UNCHANGED <<contested, clock, session, stored, screen, past, overlapped>>

CreateFails(c) ==
  /\ \/ c.kind = "create" /\ \E u \in users : u.login = c.login
     \/ c.kind \in {"create", "checked"} /\ "unreachable" \in Failures
  /\ calls' = calls \ {c}
  /\ UNCHANGED <<accounts, clock, session, stored, screen, past, overlapped>>

\* Three seconds later the tab goes to the login page, wherever it is.
TimerFires(c) ==
  /\ c.kind = "timer"
  /\ UNCHANGED <<accounts, clock, session, stored, past, overlapped>>
  /\ NavigateTo(c.tab, "login", calls \ {c})

---------------------------------------------------------------------------
User(t) ==
  \/ \E p \in Pages : GoTo(t, p)
  \/ Reload(t)
  \/ Logout(t)
  \/ LoadAgain(t)
  \/ \E l \in Logins, p \in Passwords : SubmitLogin(t, l, p)
  \/ \E l \in NewLogins, p \in Passwords : SubmitCreate(t, l, p)

Answer(c) ==
  \/ \E u \in users, i \in Replicas : LoginAnswered(c, u, i)
  \/ LoginFails(c)
  \/ ListAnswered(c)
  \/ ListThrows(c)
  \/ ListRejected(c)
  \/ ListUnreachable(c)
  \/ LookUp(c)
  \/ SaveChanges(c)
  \/ CreateFails(c)
  \/ TimerFires(c)

Next ==
  \/ Tick
  \/ \E t \in Tabs : User(t)
  \/ \E c \in calls : Answer(c)

Spec == Init /\ [][Next]_vars

---------------------------------------------------------------------------
\* Correctness

\* Accounts share a login only when their creations overlapped: both were
\* looked up before either was stored.  (The table has no unique constraint.)
AccountsAreUnique ==
  \A u, v \in users : u # v => u.id # v.id /\ (u.login = v.login => u.login \in contested)

\* A list on the screen is that of the tab's session, whatever the other tabs
\* do and whatever was in flight when the user logged out and in, unless two
\* logins of this tab were in flight at once: then the later answer replaces
\* the session under an open page.
ListsBelongToSession ==
  \A t \in Tabs \ overlapped : shown[t] # Nobody =>
    session[t] # NoToken /\ shown[t] = UserOf(session[t])

\* What the user of tab t asks for.
Asked(t) ==
  \/ Logout(t)
  \/ Reload(t)
  \/ \E c \in calls : c.tab = t /\ \E u \in users, i \in Replicas : LoginAnswered(c, u, i)

\* A session ends unasked only because of a list request
\* made in that session or in an earlier one of the same tab; never because of
\* what other tabs do, although they share localStorage.
SessionsLast ==
  [][\A t \in Tabs :
       (session[t] # NoToken /\ session'[t] # session[t]) =>
         Asked(t) \/ \E c \in calls : c.kind = "list" /\ c.tab = t /\ c.token \in past[t]]_vars

---------------------------------------------------------------------------
\* The inductive invariant

Numbered ==
  /\ IsFiniteSet(users)
  /\ \A u \in users : u.id \in 1 .. Cardinality(users)

\* A login that was looked up may be stored twice only when it is contested.
CreationsContested ==
  \A c \in calls : c.kind = "checked" /\ c.login \notin contested =>
    /\ \A u \in users : u.login # c.login
    /\ \A d \in calls : d.kind = "checked" /\ d.login = c.login => d = c

\* Lists are pages of those who have a session, the login page is not.
PagesFitSession ==
  \A t \in Tabs :
    /\ page[t] = "login" => session[t] = NoToken
    /\ page[t] \in Lists => session[t] # NoToken
    /\ page[t] \notin Lists =>
         /\ shown[t] = Nobody
         /\ \A c \in calls : c.kind = "list" /\ c.tab = t => ~c.live

\* Who logs in has no session yet, unless two logins of the tab overlap.
LoginsAlone ==
  \A t \in Tabs \ overlapped : \A c \in calls : c.kind = "login" /\ c.tab = t =>
    /\ session[t] = NoToken
    /\ \A d \in calls : d.kind = "login" /\ d.tab = t => d = c

\* A page waits for an answer to the session the tab has.
ListsAskForSession ==
  \A t \in Tabs \ overlapped : \A c \in calls :
    c.kind = "list" /\ c.tab = t /\ c.live => c.token = session[t]

Remembered ==
  /\ \A t \in Tabs : session[t] # NoToken => session[t] \in past[t]
  /\ \A c \in calls : c.kind = "list" => c.token \in past[c.tab]

IndInv ==
  /\ TypeOK
  /\ Numbered
  /\ AccountsAreUnique
  /\ CreationsContested
  /\ PagesFitSession
  /\ LoginsAlone
  /\ ListsAskForSession
  /\ ListsBelongToSession
  /\ Remembered
=============================================================================
