--------------------------- MODULE SessionsProofs ---------------------------
(***************************************************************************)
(* Proofs about accounts, tokens and tabs, for any tabs, logins, passwords, *)
(* replicas with their clocks, lists, failures and bounds.                  *)
(***************************************************************************)
EXTENDS Sessions, FiniteSetTheorems, TLAPS

\* The calls there can be when the tokens are those of set K.
CallsOver(K) ==
  [kind : {"list"}, tab : Tabs, live : BOOLEAN, token : K]
  \cup LoginCalls \cup CreateCalls \cup Timers

AllCalls == CallsOver(Tokens)

\* What the invariant says about the screens, and about the accounts.
ScreenOK ==
  /\ page \in [Tabs -> Pages]
  /\ shown \in [Tabs -> Guids \cup {Nobody}]
  /\ calls \subseteq AllCalls

ScreenInv ==
  /\ PagesFitSession
  /\ LoginsAlone
  /\ ListsAskForSession
  /\ ListsBelongToSession
  /\ Remembered

AccountInv ==
  /\ Numbered
  /\ AccountsAreUnique
  /\ CreationsContested

---------------------------------------------------------------------------
\* Calls

\* The kind of a call tells which fields it has.
LEMMA CallKinds ==
  ASSUME NEW K, NEW c \in CallsOver(K)
  PROVE  /\ c.kind = "list" => c \in [kind : {"list"}, tab : Tabs, live : BOOLEAN, token : K]
         /\ c.kind = "login" => c \in LoginCalls
         /\ c.kind \in {"create", "checked"} => c \in CreateCalls
         /\ c.kind = "timer" => c \in Timers
         /\ c.tab \in Tabs \cup {NoTab}
BY DEF CallsOver, LoginCalls, CreateCalls, Timers

\* What becomes of call c when tab t leaves its component.
Left(t, c) == IF c.tab = t /\ c.kind \in {"list", "login"} THEN [c EXCEPT !.live = FALSE] ELSE c

\* It is the same call, and nothing of the component waits for it.
LEMMA LeftFacts ==
  ASSUME NEW K, NEW t, NEW c \in CallsOver(K)
  PROVE  /\ Left(t, c) \in CallsOver(K)
         /\ Left(t, c).kind = c.kind /\ Left(t, c).tab = c.tab
         /\ c.tab # t \/ c.kind \notin {"list", "login"} => Left(t, c) = c
         /\ c.kind = "list" => Left(t, c).token = c.token
         /\ c.kind = "list" /\ c.tab = t => ~Left(t, c).live
<1>1. CASE c.tab = t /\ c.kind = "list"
  <2>1. PICK S : S = [kind : {"list"}, tab : Tabs, live : BOOLEAN, token : K]
    OBVIOUS
  <2>2. c \in S /\ Left(t, c) = [c EXCEPT !.live = FALSE]
    BY <1>1, <2>1, CallKinds DEF Left
  <2>3. [c EXCEPT !.live = FALSE] \in S
    BY <2>1, <2>2
  <2> QED
    BY <1>1, <2>1, <2>2, <2>3 DEF CallsOver
<1>2. CASE c.tab = t /\ c.kind = "login"
  <2>1. c \in LoginCalls
    BY <1>2, CallKinds
  <2>2. Left(t, c) = [c EXCEPT !.live = FALSE]
    BY <1>2 DEF Left
  <2>3. [c EXCEPT !.live = FALSE] \in LoginCalls
    BY <2>1 DEF LoginCalls
  <2> QED
    BY <1>2, <2>1, <2>2, <2>3 DEF LoginCalls, CallsOver
<1>3. CASE ~(c.tab = t /\ c.kind \in {"list", "login"})
  BY <1>3 DEF Left
<1> QED
  BY <1>1, <1>2, <1>3

---------------------------------------------------------------------------
\* Pages

\* What a step may do to tab t before it enters a page or stays on it, with cs
\* left of the calls in flight.
Moves(t, cs) ==
  /\ t \in Tabs
  /\ \A d \in cs : d \in calls \/ d \in CreateCalls \cup Timers
  /\ session' \in [Tabs -> Tokens' \cup {NoToken}]
  /\ \A s \in Tabs \ {t} : session'[s] = session[s]
  /\ past' \in [Tabs -> SUBSET Tokens']
  /\ \A s \in Tabs : past[s] \subseteq past'[s]
  /\ session'[t] # NoToken => session'[t] \in past'[t]
  /\ Tokens \subseteq Tokens'
  /\ \A k \in Tokens : issued'[k].user = issued[k].user
  /\ overlapped' = overlapped
  /\ \/ t \in overlapped
     \/ session'[t] \in {session[t], NoToken}
     \/ \A d \in cs : ~(d.kind = "login" /\ d.tab = t)

\* The calls that are left are calls, and lists and logins were there before.
LEMMA MovesCalls ==
  ASSUME IndInv, NEW t, NEW cs, Moves(t, cs)
  PROVE  \A d \in cs : d \in AllCalls' /\ (d.kind \in {"list", "login"} => d \in calls /\ d \in AllCalls)
<1> SUFFICES ASSUME NEW d \in cs
             PROVE  d \in AllCalls' /\ (d.kind \in {"list", "login"} => d \in calls /\ d \in AllCalls)
  OBVIOUS
<1>1. Tokens \subseteq Tokens'
  BY DEF Moves
<1>2. CASE d \in calls
  <2>1. d \in AllCalls
    BY <1>2 DEF IndInv, TypeOK, AllCalls, CallsOver, ListCalls
  <2>2. d \in AllCalls'
    BY <1>1, <2>1 DEF AllCalls, CallsOver, LoginCalls, CreateCalls, Timers
  <2> QED
    BY <1>2, <2>1, <2>2
<1>3. CASE d \in CreateCalls \cup Timers
  <2>1. d.kind \notin {"list", "login"}
    BY <1>3 DEF CreateCalls, Timers
  <2>2. d \in AllCalls'
    BY <1>3 DEF AllCalls, CallsOver, CreateCalls, Timers
  <2> QED
    BY <2>1, <2>2
<1> QED
  BY <1>2, <1>3 DEF Moves

\* The tab stays on its page.
LEMMA StayInv ==
  ASSUME IndInv, NEW t, NEW cs, Moves(t, cs),
         calls' = cs, page' = page, shown' = shown,
         page[t] \in Lists => session'[t] # NoToken,
         page[t] = "login" => session'[t] = NoToken,
         t \notin overlapped => session'[t] = session[t]
  PROVE  ScreenOK' /\ ScreenInv'
<1>0. /\ \A d \in calls' : d \in AllCalls' /\ (d.kind \in {"list", "login"} => d \in calls /\ d \in AllCalls)
      /\ TypeOK
  BY MovesCalls DEF IndInv
<1>1. ScreenOK'
  BY <1>0 DEF ScreenOK, TypeOK
<1>2. PagesFitSession'
  BY <1>0 DEF PagesFitSession, IndInv, Moves
<1>3. LoginsAlone'
  BY <1>0 DEF LoginsAlone, IndInv, Moves
<1>4. ListsAskForSession'
  BY <1>0 DEF ListsAskForSession, IndInv, Moves
<1>5. ListsBelongToSession'
  <2> SUFFICES ASSUME NEW s \in Tabs \ overlapped, shown[s] # Nobody
               PROVE  session'[s] # NoToken /\ shown[s] = issued'[session'[s]].user
    BY DEF ListsBelongToSession, Moves, UserOf
  <2>1. session'[s] = session[s]
    BY DEF Moves
  <2>2. session[s] # NoToken /\ shown[s] = UserOf(session[s])
    BY DEF IndInv, ListsBelongToSession
  <2>3. session[s] \in Tokens
    BY <1>0, <2>2 DEF TypeOK
  <2> QED
    BY <2>1, <2>2, <2>3 DEF Moves, UserOf
<1>6. Remembered'
  <2>1. \A c \in calls' : c.kind = "list" => c.token \in past'[c.tab]
    <3> SUFFICES ASSUME NEW c \in calls', c.kind = "list"
                 PROVE  c.token \in past'[c.tab]
      OBVIOUS
    <3>1. c \in calls /\ c.tab \in Tabs
      BY <1>0, CallKinds DEF AllCalls
    <3> QED
      BY <3>1 DEF Moves, IndInv, Remembered
  <2>2. \A s \in Tabs : session'[s] # NoToken => session'[s] \in past'[s]
    BY DEF Moves, IndInv, Remembered
  <2> QED
    BY <2>1, <2>2 DEF Remembered
<1> QED
  BY <1>1, <1>2, <1>3, <1>4, <1>5, <1>6 DEF ScreenInv

\* The tab enters a page.
LEMMA EnterInv ==
  ASSUME IndInv, NEW t, NEW cs, Moves(t, cs), NEW to \in Pages, Enter(t, to, cs),
         to \in Lists => session'[t] # NoToken,
         to = "login" => session'[t] = NoToken
  PROVE  ScreenOK' /\ ScreenInv'
<1> DEFINE new == ListCall(t, session'[t])
<1>0. /\ TypeOK /\ t \in Tabs
      /\ page' = [page EXCEPT ![t] = to]
      /\ shown' = [shown EXCEPT ![t] = Nobody]
      /\ calls' = {Left(t, c) : c \in cs} \cup (IF to \in Lists THEN {new} ELSE {})
  BY DEF Enter, IndInv, Moves, Left, LeftBehind, Bearer
<1>a. \A d \in cs : d \in AllCalls' /\ (d.kind \in {"list", "login"} => d \in calls /\ d \in AllCalls)
  BY MovesCalls
<1>b. to \in Lists => new \in AllCalls'
  BY <1>0 DEF Moves, ListCall, AllCalls, CallsOver
<1>c. /\ new.kind = "list" /\ new.tab = t /\ new.token = session'[t]
  BY DEF ListCall
\* Where the calls come from.
<1>d. ASSUME NEW d \in calls'
      PROVE  \/ to \in Lists /\ d = new
             \/ \E c \in cs : /\ d = Left(t, c) /\ d \in AllCalls' /\ d.kind = c.kind /\ d.tab = c.tab
                              /\ c.tab # t \/ c.kind \notin {"list", "login"} => d = c
                              /\ c.kind = "list" => d.token = c.token
                              /\ c.kind = "list" /\ c.tab = t => ~d.live
  <2>1. CASE to \in Lists /\ d = new
    BY <2>1
  <2>2. CASE \E c \in cs : d = Left(t, c)
    <3>1. PICK c \in cs : d = Left(t, c)
      BY <2>2
    <3>2. c \in CallsOver(Tokens')
      BY <1>a DEF AllCalls
    <3> QED
      BY <3>1, <3>2, LeftFacts DEF AllCalls
  <2> QED
    BY <1>0, <2>1, <2>2
<1> HIDE DEF new
<1>1. ScreenOK'
  <2>1. page' \in [Tabs -> Pages] /\ shown' \in [Tabs -> Guids \cup {Nobody}]
    BY <1>0 DEF TypeOK
  <2>2. calls' \subseteq AllCalls'
    BY <1>b, <1>d
  <2> QED
    BY <2>1, <2>2 DEF ScreenOK
<1>2. PagesFitSession'
  <2> SUFFICES ASSUME NEW s \in Tabs
               PROVE  /\ page'[s] = "login" => session'[s] = NoToken
                      /\ page'[s] \in Lists => session'[s] # NoToken
                      /\ page'[s] \notin Lists =>
                           /\ shown'[s] = Nobody
                           /\ \A c \in calls' : c.kind = "list" /\ c.tab = s => ~c.live
    BY DEF PagesFitSession
  <2>1. CASE s = t
    <3>1. page'[s] = to /\ shown'[s] = Nobody
      BY <1>0, <2>1 DEF TypeOK
    <3>2. to \notin Lists => \A c \in calls' : c.kind = "list" /\ c.tab = s => ~c.live
      BY <1>d, <2>1
    <3> QED
      BY <2>1, <3>1, <3>2
  <2>2. CASE s # t
    <3>1. page'[s] = page[s] /\ shown'[s] = shown[s] /\ session'[s] = session[s]
      BY <1>0, <2>2 DEF TypeOK, Moves
    <3>2. \A c \in calls' : c.kind = "list" /\ c.tab = s => c \in calls
      BY <1>a, <1>c, <1>d, <2>2
    <3> QED
      BY <3>1, <3>2 DEF IndInv, PagesFitSession
  <2> QED
    BY <2>1, <2>2
<1>3. LoginsAlone'
  <2> SUFFICES ASSUME NEW s \in Tabs \ overlapped, NEW c \in calls', c.kind = "login", c.tab = s,
                      NEW d \in calls', d.kind = "login", d.tab = s
               PROVE  session'[s] = NoToken /\ d = c
    BY DEF LoginsAlone, Moves
  <2>1. PICK e \in cs : c = Left(t, e) /\ c.kind = e.kind /\ c.tab = e.tab
    BY <1>c, <1>d
  <2>2. PICK f \in cs : d = Left(t, f) /\ d.kind = f.kind /\ d.tab = f.tab
    BY <1>c, <1>d
  <2>3. e \in calls /\ f \in calls
    BY <1>a, <2>1, <2>2
  <2>4. session[s] = NoToken /\ f = e
    BY <2>1, <2>2, <2>3 DEF IndInv, LoginsAlone
  <2>5. session'[s] = NoToken
    BY <2>1, <2>4 DEF Moves
  <2> QED
    BY <2>1, <2>2, <2>4, <2>5
<1>4. ListsAskForSession'
  <2> SUFFICES ASSUME NEW s \in Tabs \ overlapped, NEW c \in calls',
                      c.kind = "list", c.tab = s, c.live
               PROVE  c.token = session'[s]
    BY DEF ListsAskForSession, Moves
  <2>1. CASE s = t
    BY <1>c, <1>d, <2>1
  <2>2. CASE s # t
    <3>1. c \in calls
      BY <1>a, <1>c, <1>d, <2>2
    <3> QED
      BY <2>2, <3>1 DEF IndInv, ListsAskForSession, Moves
  <2> QED
    BY <2>1, <2>2
<1>5. ListsBelongToSession'
  <2> SUFFICES ASSUME NEW s \in Tabs \ overlapped, shown'[s] # Nobody
               PROVE  session'[s] # NoToken /\ shown'[s] = issued'[session'[s]].user
    BY DEF ListsBelongToSession, Moves, UserOf
  <2>1. s # t
    BY <1>0 DEF TypeOK
  <2>2. session'[s] = session[s] /\ shown'[s] = shown[s]
    BY <1>0, <2>1 DEF Moves, TypeOK
  <2>3. session[s] # NoToken /\ shown[s] = UserOf(session[s])
    BY <2>2 DEF IndInv, ListsBelongToSession
  <2>4. session[s] \in Tokens
    BY <1>0, <2>3 DEF TypeOK
  <2> QED
    BY <2>2, <2>3, <2>4 DEF Moves, UserOf
<1>6. Remembered'
  <2>1. \A c \in calls' : c.kind = "list" => c.token \in past'[c.tab]
    <3> SUFFICES ASSUME NEW c \in calls', c.kind = "list"
                 PROVE  c.token \in past'[c.tab]
      OBVIOUS
    <3>1. CASE to \in Lists /\ c = new
      BY <1>c, <3>1 DEF Moves
    <3>2. CASE ~(to \in Lists /\ c = new)
      <4>1. PICK e \in cs : c.kind = e.kind /\ c.tab = e.tab /\ c.token = e.token
        BY <1>d, <3>2
      <4>2. e \in calls /\ e.tab \in Tabs /\ e.kind = "list"
        <5>1. e \in calls /\ e \in AllCalls /\ e.kind = "list"
          BY <1>a, <4>1
        <5>2. e \in [kind : {"list"}, tab : Tabs, live : BOOLEAN, token : Tokens]
          BY <5>1, CallKinds DEF AllCalls
        <5> QED
          BY <5>1, <5>2
      <4>3. e.token \in past[e.tab]
        BY <4>2 DEF IndInv, Remembered
      <4> QED
        BY <4>1, <4>2, <4>3 DEF Moves
    <3> QED
      BY <3>1, <3>2
  <2>2. \A s \in Tabs : session'[s] # NoToken => session'[s] \in past'[s]
    BY DEF Moves, IndInv, Remembered
  <2> QED
    BY <2>1, <2>2 DEF Remembered
<1> QED
  BY <1>1, <1>2, <1>3, <1>4, <1>5, <1>6 DEF ScreenInv

\* The tab follows a link, or is sent somewhere: when it logs in, out, or
\* neither.
LEMMA NavigateInv ==
  ASSUME IndInv, NEW t, NEW cs, Moves(t, cs), NEW p \in Pages, NavigateTo(t, p, cs),
         \/ session'[t] = session[t]
         \/ p = "login" /\ session'[t] = NoToken
         \/ p = Home /\ session'[t] # NoToken /\ (t \notin overlapped => session[t] = NoToken)
  PROVE  ScreenOK' /\ ScreenInv'
<1> DEFINE to == Admitted(t, p)
<1>0. /\ t \in Tabs /\ to \in Pages /\ "login" \notin Lists /\ Home \in Lists /\ Home # "login"
      /\ to \in Lists => session'[t] # NoToken
      /\ to = "login" => p = "login" \/ session'[t] = NoToken
      /\ to # p => to = "login" /\ session'[t] = NoToken
      /\ Home \in Pages
  BY HomeAssumption DEF Admitted, Moves, Pages
<1>1. CASE to = page[t]
  <2>1. calls' = cs /\ page' = page /\ shown' = shown
    BY <1>1 DEF NavigateTo, screen
  <2>2. page[t] \in Lists => session'[t] # NoToken
    BY <1>0, <1>1
  <2>3. page[t] = "login" => session'[t] = NoToken
    BY <1>0, <1>1 DEF IndInv, PagesFitSession
  <2>4. t \notin overlapped => session'[t] = session[t]
    BY <1>0, <1>1 DEF IndInv, PagesFitSession
  <2> HIDE DEF to
  <2> QED
    BY <2>1, <2>2, <2>3, <2>4, StayInv
<1>2. CASE to # page[t]
  <2>1. Enter(t, Forwarded(t, to), cs)
    BY <1>2 DEF NavigateTo
  <2>2. /\ Forwarded(t, to) \in Pages
        /\ Forwarded(t, to) \in Lists => session'[t] # NoToken
        /\ Forwarded(t, to) = "login" => session'[t] = NoToken
    BY <1>0 DEF Forwarded
  <2> HIDE DEF to
  <2> QED
    BY <2>1, <2>2, EnterInv
<1> QED
  BY <1>1, <1>2

\* Creations go on whatever the tab does.
LEMMA NavigateChecked ==
  ASSUME IndInv, NEW t, NEW cs, Moves(t, cs), NEW p,
         NavigateTo(t, p, cs) \/ Enter(t, p, cs)
  PROVE  \A d \in calls' : d.kind = "checked" => d \in cs
<1>1. CASE calls' = cs
  BY <1>1
<1>2. ASSUME NEW to, Enter(t, to, cs)
      PROVE  \A d \in calls' : d.kind = "checked" => d \in cs
  <2> SUFFICES ASSUME NEW d \in calls', d.kind = "checked"
               PROVE  d \in cs
    OBVIOUS
  <2>1. d \in {Left(t, c) : c \in cs}
    <3>1. \/ d \in {Left(t, c) : c \in cs}
          \/ d = ListCall(t, Bearer(t))
      BY <1>2 DEF Enter, LeftBehind, Left
    <3> QED
      BY <3>1 DEF ListCall
  <2>2. PICK c \in cs : d = Left(t, c)
    BY <2>1
  <2>3. c \in CallsOver(Tokens')
    BY MovesCalls DEF AllCalls
  <2> QED
    BY <2>2, <2>3, LeftFacts
<1> QED
  BY <1>1, <1>2 DEF NavigateTo

---------------------------------------------------------------------------
\* Steps that leave the sessions alone

\* A step that leaves sessions and tokens alone moves every tab.
LEMMA MovesQuiet ==
  ASSUME IndInv, NEW t \in Tabs, UNCHANGED <<session, past, issued, overlapped>>, NEW cs,
         \A d \in cs : d \in calls \/ d \in CreateCalls \cup Timers
  PROVE  Moves(t, cs)
BY DEF Moves, IndInv, TypeOK, Remembered, Tokens

\* A step that leaves the pages alone too, and takes calls away or deals with
\* new accounts.
LEMMA QuietInv ==
  ASSUME IndInv, UNCHANGED <<session, past, issued, overlapped, screen>>,
         \A d \in calls' : d \in calls \/ d \in CreateCalls \cup Timers
  PROVE  ScreenOK' /\ ScreenInv'
<1>0. /\ TypeOK /\ session' = session /\ past' = past /\ issued' = issued
      /\ overlapped' = overlapped /\ page' = page /\ shown' = shown
  BY DEF IndInv, screen
<1>1. \A d \in calls' : d.kind \in {"list", "login"} => d \in calls
  BY DEF CreateCalls, Timers
<1>2. ScreenOK'
  <2>1. AllCalls' = AllCalls
    BY <1>0 DEF AllCalls, Tokens
  <2>2. calls' \subseteq AllCalls
    BY <1>0 DEF TypeOK, AllCalls, CallsOver, ListCalls
  <2> QED
    BY <1>0, <2>1, <2>2 DEF ScreenOK, TypeOK
<1>3. PagesFitSession' /\ ListsAskForSession'
  BY <1>0, <1>1 DEF IndInv, PagesFitSession, ListsAskForSession
<1>4. LoginsAlone'
  BY <1>0, <1>1 DEF IndInv, LoginsAlone
<1>5. ListsBelongToSession' /\ Remembered'
  BY <1>0, <1>1 DEF IndInv, ListsBelongToSession, Remembered, UserOf
<1> QED
  BY <1>2, <1>3, <1>4, <1>5 DEF ScreenInv

\* The types of the whole follow from those of the parts.
LEMMA TypesFit ==
  ASSUME ScreenOK', users' \subseteq Accounts,
         issued' \in Seq([user : Guids, nbf : Int, exp : Int]), now' \in 0 .. MaxTime,
         session' \in [Tabs -> Tokens' \cup {NoToken}], stored' \in Tokens' \cup {NoToken},
         past' \in [Tabs -> SUBSET Tokens'], contested' \subseteq Logins, overlapped' \subseteq Tabs
  PROVE  TypeOK'
BY DEF TypeOK, ScreenOK, AllCalls, CallsOver, ListCalls

\* Accounts and creations that stay as they are.
LEMMA AccountsKept ==
  ASSUME IndInv, UNCHANGED accounts, \A d \in calls' : d.kind = "checked" => d \in calls
  PROVE  AccountInv'
<1>1. users' = users /\ contested' = contested
  BY DEF accounts
<1>2. Numbered' /\ AccountsAreUnique'
  BY <1>1 DEF IndInv, Numbered, AccountsAreUnique
<1>3. CreationsContested'
  BY <1>1 DEF IndInv, CreationsContested
<1> QED
  BY <1>2, <1>3 DEF AccountInv

\* The parts make the invariant.
LEMMA Parts ==
  ASSUME TypeOK', AccountInv', ScreenInv'
  PROVE  IndInv'
BY DEF AccountInv, ScreenInv, IndInv

\* A tick of the clock.
LEMMA TickInv ==
  ASSUME IndInv, Tick
  PROVE  IndInv'
<1>0. /\ UNCHANGED <<accounts, issued, session, stored, screen, calls, past, overlapped>>
      /\ now' \in 0 .. MaxTime
  BY BoundsAssumption DEF Tick, IndInv, TypeOK
<1>1. ScreenOK' /\ ScreenInv'
  BY <1>0, QuietInv
<1>2. AccountInv'
  BY <1>0, AccountsKept
<1>3. TypeOK'
  BY <1>0, <1>1, TypesFit DEF IndInv, TypeOK, accounts, Tokens
<1> QED
  BY <1>1, <1>2, <1>3, Parts

\* A call that ends without a trace.
LEMMA CallEndsInv ==
  ASSUME IndInv, NEW c \in calls, LoginFails(c) \/ ListThrows(c) \/ CreateFails(c)
  PROVE  IndInv'
<1>0. /\ calls' = calls \ {c}
      /\ UNCHANGED <<accounts, clock, session, stored, screen, past, overlapped>>
  BY DEF LoginFails, ListThrows, CreateFails
<1>1. ScreenOK' /\ ScreenInv'
  BY <1>0, QuietInv DEF clock
<1>2. AccountInv'
  BY <1>0, AccountsKept
<1>3. TypeOK'
  BY <1>0, <1>1, TypesFit DEF IndInv, TypeOK, accounts, clock, Tokens
<1> QED
  BY <1>1, <1>2, <1>3, Parts

\* A link, and the timer of the register page.
LEMMA GoToInv ==
  ASSUME IndInv, NEW t \in Tabs, NEW cs \in SUBSET calls, NEW p \in Pages,
         UNCHANGED <<accounts, clock, session, stored, past, overlapped>>, NavigateTo(t, p, cs)
  PROVE  IndInv'
<1>1. Moves(t, cs)
  BY MovesQuiet DEF clock
<1>2. ScreenOK' /\ ScreenInv'
  BY <1>1, NavigateInv
<1>3. AccountInv'
  BY <1>1, NavigateChecked, AccountsKept
<1>4. TypeOK'
  BY <1>2, TypesFit DEF IndInv, TypeOK, accounts, clock, Tokens
<1> QED
  BY <1>2, <1>3, <1>4, Parts

\* The session ends.
LEMMA SignOutInv ==
  ASSUME IndInv, NEW t \in Tabs, NEW cs \in SUBSET calls, SignOut(t, cs)
  PROVE  IndInv'
<1>0. /\ session' = [session EXCEPT ![t] = NoToken] /\ stored' = NoToken
      /\ NavigateTo(t, "login", cs) /\ TypeOK
      /\ UNCHANGED <<accounts, clock, past, overlapped>>
  BY DEF SignOut, IndInv
<1>1. Moves(t, cs)
  BY <1>0 DEF Moves, TypeOK, Tokens, clock
<1>2. ScreenOK' /\ ScreenInv'
  BY <1>0, <1>1, NavigateInv DEF Pages, TypeOK
<1>3. AccountInv'
  BY <1>0, <1>1, NavigateChecked, AccountsKept
<1>4. TypeOK'
  BY <1>0, <1>2, TypesFit DEF TypeOK, accounts, clock, Tokens
<1> QED
  BY <1>2, <1>3, <1>4, Parts

---------------------------------------------------------------------------
\* Steps that begin or continue a session

\* The tab's program starts again; its creations lose their tab.
LEMMA ReloadInv ==
  ASSUME IndInv, NEW t \in Tabs, Reload(t)
  PROVE  IndInv'
<1> DEFINE gone == {d \in calls : d.tab = t /\ d.kind \in {"create", "checked"}}
           cs == {c \in calls : c.tab # t} \cup {[c EXCEPT !.tab = NoTab] : c \in gone}
           to == Forwarded(t, Admitted(t, page[t]))
<1>0. /\ session' = [session EXCEPT ![t] = stored]
      /\ past' = [past EXCEPT ![t] = @ \cup ({stored} \ {NoToken})]
      /\ UNCHANGED <<accounts, clock, stored, overlapped>> /\ TypeOK
      /\ Enter(t, to, cs)
  BY DEF Reload, IndInv
<1>a. /\ \A c \in gone : c \in CreateCalls
      /\ \A c \in gone : /\ [c EXCEPT !.tab = NoTab] \in CreateCalls
                         /\ [c EXCEPT !.tab = NoTab].kind = c.kind
                         /\ [c EXCEPT !.tab = NoTab].login = c.login
  <2> SUFFICES ASSUME NEW c \in gone
               PROVE  /\ c \in CreateCalls
                      /\ [c EXCEPT !.tab = NoTab] \in CreateCalls
                      /\ [c EXCEPT !.tab = NoTab].kind = c.kind
                      /\ [c EXCEPT !.tab = NoTab].login = c.login
    OBVIOUS
  <2>1. c \in CallsOver(Tokens) /\ c.kind \in {"create", "checked"}
    BY <1>0 DEF TypeOK, CallsOver, ListCalls
  <2>2. c \in CreateCalls
    BY <2>1, CallKinds
  <2> QED
    BY <2>2 DEF CreateCalls
<1>b. \A d \in cs : d \in CreateCalls \/ (d \in calls /\ d.tab # t)
  BY <1>a
<1>1. Moves(t, cs)
  <2>1. \A d \in cs : ~(d.kind = "login" /\ d.tab = t)
    BY <1>b DEF CreateCalls
  <2>2. /\ session' \in [Tabs -> Tokens \cup {NoToken}] /\ past' \in [Tabs -> SUBSET Tokens]
        /\ \A s \in Tabs \ {t} : session'[s] = session[s]
        /\ \A s \in Tabs : past[s] \subseteq past'[s]
        /\ session'[t] # NoToken => session'[t] \in past'[t]
    BY <1>0 DEF TypeOK
  <2>3. Tokens' = Tokens /\ issued' = issued
    BY <1>0 DEF clock, Tokens
  <2> HIDE DEF cs, gone
  <2> QED
    BY <1>0, <1>b, <2>1, <2>2, <2>3 DEF Moves
<1>2. /\ to \in Pages
      /\ to \in Lists => session'[t] # NoToken
      /\ to = "login" => session'[t] = NoToken
  BY <1>0, HomeAssumption DEF Forwarded, Admitted, Pages, TypeOK
<1>3. ScreenOK' /\ ScreenInv'
  <2> HIDE DEF cs, to, gone
  <2> QED
    BY <1>0, <1>1, <1>2, EnterInv
<1>4. AccountInv'
  <2>0. users' = users /\ contested' = contested
    BY <1>0 DEF accounts
  <2>1. \A d \in calls' : d.kind = "checked" => d \in cs
    <3> HIDE DEF cs, to, gone
    <3> QED
      BY <1>0, <1>1, NavigateChecked
  <2>2. Numbered' /\ AccountsAreUnique'
    BY <2>0 DEF IndInv, Numbered, AccountsAreUnique
  <2>3. \A d \in calls' : d.kind = "checked" =>
          \E c \in calls : /\ c.kind = "checked" /\ c.login = d.login
                           /\ d = IF c.tab = t THEN [c EXCEPT !.tab = NoTab] ELSE c
    <3> SUFFICES ASSUME NEW d \in calls', d.kind = "checked"
                 PROVE  \E c \in calls : /\ c.kind = "checked" /\ c.login = d.login
                           /\ d = IF c.tab = t THEN [c EXCEPT !.tab = NoTab] ELSE c
      OBVIOUS
    <3>1. CASE d \in calls /\ d.tab # t
      BY <3>1
    <3>2. CASE \E c \in gone : d = [c EXCEPT !.tab = NoTab]
      BY <1>a, <3>2
    <3> QED
      BY <2>1, <3>1, <3>2
  <2>4. CreationsContested'
    <3> SUFFICES ASSUME NEW c \in calls', c.kind = "checked", c.login \notin contested
                 PROVE  /\ \A u \in users : u.login # c.login
                        /\ \A d \in calls' : d.kind = "checked" /\ d.login = c.login => d = c
      BY <2>0 DEF CreationsContested
    <3>1. PICK e \in calls : /\ e.kind = "checked" /\ e.login = c.login
                             /\ c = IF e.tab = t THEN [e EXCEPT !.tab = NoTab] ELSE e
      BY <2>3
    <3>2. /\ \A u \in users : u.login # e.login
          /\ \A f \in calls : f.kind = "checked" /\ f.login = e.login => f = e
      BY <3>1 DEF IndInv, CreationsContested
    <3>3. ASSUME NEW d \in calls', d.kind = "checked", d.login = c.login
          PROVE  d = c
      <4>1. PICK f \in calls : /\ f.kind = "checked" /\ f.login = d.login
                               /\ d = IF f.tab = t THEN [f EXCEPT !.tab = NoTab] ELSE f
        BY <2>3, <3>3
      <4>2. f = e
        BY <3>1, <3>2, <3>3, <4>1
      <4> QED
        BY <3>1, <4>1, <4>2
    <3> QED
      BY <3>1, <3>2, <3>3
  <2> QED
    BY <2>2, <2>4 DEF AccountInv
<1>5. TypeOK'
  <2>1. /\ session' \in [Tabs -> Tokens \cup {NoToken}] /\ past' \in [Tabs -> SUBSET Tokens]
    BY <1>0 DEF TypeOK
  <2> HIDE DEF cs, to, gone
  <2> QED
    BY <1>0, <1>3, <2>1, TypesFit DEF TypeOK, accounts, clock, Tokens
<1> QED
  BY <1>3, <1>4, <1>5, Parts

\* A token for the account, and the tab on its way to the dashboard.
LEMMA LoginAnsweredInv ==
  ASSUME IndInv, NEW c \in calls, NEW u \in users, NEW i \in Replicas, LoginAnswered(c, u, i)
  PROVE  IndInv'
<1> DEFINE t == c.tab
           k == Len(issued) + 1
           cs == calls \ {c}
<1>0. /\ c.kind = "login" /\ TypeOK
      /\ issued' = Append(issued, GenerateTokenFor(u, now + Skew[i]))
      /\ session' = [session EXCEPT ![t] = k] /\ stored' = k
      /\ past' = [past EXCEPT ![t] = @ \cup {k}]
      /\ NavigateTo(t, Home, cs)
      /\ UNCHANGED <<accounts, now, overlapped>>
  BY DEF LoginAnswered, IndInv
<1>a. c \in LoginCalls /\ t \in Tabs
  <2>1. c \in CallsOver(Tokens)
    BY <1>0 DEF TypeOK, CallsOver, ListCalls
  <2> QED
    BY <1>0, <2>1, CallKinds DEF LoginCalls
<1>b. GenerateTokenFor(u, now + Skew[i]) \in [user : Guids, nbf : Int, exp : Int]
  <2>1. u.id \in Guids /\ now \in Int /\ Skew[i] \in Int /\ Lifetime \in Int
    BY <1>0, SkewAssumption, BoundsAssumption DEF TypeOK, Accounts
  <2> QED
    BY <2>1 DEF GenerateTokenFor
<1>c. /\ issued' \in Seq([user : Guids, nbf : Int, exp : Int])
      /\ Len(issued') = k /\ Len(issued) \in Nat
      /\ \A j \in 1 .. Len(issued) : issued'[j] = issued[j]
  <2>1. PICK S, e : S = [user : Guids, nbf : Int, exp : Int] /\ e = GenerateTokenFor(u, now + Skew[i])
    OBVIOUS
  <2>2. issued \in Seq(S) /\ e \in S /\ issued' = Append(issued, e)
    BY <1>0, <1>b, <2>1 DEF TypeOK
  <2> QED
    BY <2>1, <2>2
<1>d. /\ Tokens \subseteq Tokens' /\ k \in Tokens' /\ k # NoToken
      /\ session' \in [Tabs -> Tokens' \cup {NoToken}]
      /\ past' \in [Tabs -> SUBSET Tokens']
      /\ session'[t] = k /\ k \in past'[t]
      /\ \A s \in Tabs \ {t} : session'[s] = session[s]
      /\ \A s \in Tabs : past[s] \subseteq past'[s]
  <2>1. Tokens \subseteq Tokens' /\ k \in Tokens' /\ k # NoToken
    BY <1>c DEF Tokens, NoToken
  <2>2. session \in [Tabs -> Tokens' \cup {NoToken}] /\ past \in [Tabs -> SUBSET Tokens']
    BY <1>0, <2>1 DEF TypeOK
  <2> HIDE DEF k, t
  <2> QED
    BY <1>0, <1>a, <2>1, <2>2
<1>1. t \in overlapped \/ (session[t] = NoToken /\ \A d \in cs : ~(d.kind = "login" /\ d.tab = t))
  BY <1>0, <1>a DEF IndInv, LoginsAlone
<1>2. Moves(t, cs)
  <2>1. \A j \in Tokens : issued'[j].user = issued[j].user
    BY <1>c DEF Tokens
  <2>2. \A d \in cs : d \in calls
    OBVIOUS
  <2> HIDE DEF k, t, cs
  <2> QED
    BY <1>0, <1>a, <1>d, <1>1, <2>1, <2>2 DEF Moves
<1> HIDE DEF k, t, cs
<1>3. ScreenOK' /\ ScreenInv'
  <2>1. Home \in Pages
    BY HomeAssumption DEF Pages
  <2> QED
    BY <1>0, <1>d, <1>1, <1>2, <2>1, NavigateInv
<1>4. AccountInv'
  BY <1>0, <1>2, NavigateChecked, AccountsKept DEF cs
<1>5. TypeOK'
  BY <1>0, <1>c, <1>d, <1>3, TypesFit DEF TypeOK, accounts
<1> QED
  BY <1>3, <1>4, <1>5, Parts

---------------------------------------------------------------------------
\* Steps that make calls

\* The form is sent: the tab has no other login in flight, or is marked.
LEMMA SubmitLoginInv ==
  ASSUME IndInv, NEW t \in Tabs, NEW l \in Logins, NEW p \in Passwords, SubmitLogin(t, l, p)
  PROVE  IndInv'
<1> DEFINE new == LoginCall(t, l, p)
<1>0. /\ TypeOK /\ page[t] = "login" /\ calls' = calls \cup {new}
      /\ overlapped' = IF Awaits(t, {"login"}) THEN overlapped \cup {t} ELSE overlapped
      /\ UNCHANGED <<accounts, clock, session, stored, screen, past>>
  BY DEF SubmitLogin, IndInv
<1>a. /\ new \in LoginCalls /\ new.kind = "login" /\ new.tab = t
  BY DEF LoginCall, LoginCalls
<1>b. /\ overlapped \subseteq overlapped' /\ overlapped' \subseteq Tabs
      /\ t \notin overlapped' => \A d \in calls : ~(d.kind = "login" /\ d.tab = t)
  BY <1>0 DEF Awaits, TypeOK
<1>c. session[t] = NoToken
  BY <1>0 DEF IndInv, PagesFitSession
<1>d. /\ session' = session /\ past' = past /\ issued' = issued /\ now' = now
      /\ page' = page /\ shown' = shown
  BY <1>0 DEF clock, screen
<1> HIDE DEF new
<1>1. ScreenOK'
  <2>1. AllCalls' = AllCalls
    BY <1>d DEF AllCalls, Tokens
  <2>2. calls' \subseteq AllCalls
    BY <1>0, <1>a DEF TypeOK, AllCalls, CallsOver, ListCalls
  <2> QED
    BY <1>0, <1>d, <2>1, <2>2 DEF ScreenOK, TypeOK
<1>2. \A d \in calls' : d \in calls \/ d = new
  BY <1>0
<1>3. ScreenInv'
  <2>1. PagesFitSession' /\ Remembered'
    BY <1>a, <1>d, <1>2 DEF IndInv, PagesFitSession, Remembered
  <2>2. ListsAskForSession' /\ ListsBelongToSession'
    BY <1>a, <1>b, <1>d, <1>2 DEF IndInv, ListsAskForSession, ListsBelongToSession, UserOf
  <2>3. LoginsAlone'
    BY <1>a, <1>b, <1>c, <1>d, <1>2 DEF IndInv, LoginsAlone
  <2> QED
    BY <2>1, <2>2, <2>3 DEF ScreenInv
<1>4. AccountInv'
  BY <1>0, <1>a, <1>2, AccountsKept
<1>5. TypeOK'
  BY <1>0, <1>b, <1>d, <1>1, TypesFit DEF TypeOK, accounts, Tokens
<1> QED
  BY <1>3, <1>4, <1>5, Parts

\* The page loads its list again.
LEMMA LoadAgainInv ==
  ASSUME IndInv, NEW t \in Tabs, LoadAgain(t)
  PROVE  IndInv'
<1> DEFINE new == ListCall(t, session[t])
<1>0. /\ TypeOK /\ page[t] \in Lists /\ calls' = calls \cup {new}
      /\ UNCHANGED <<accounts, clock, session, stored, screen, past, overlapped>>
  BY UploadersAssumption DEF LoadAgain, IndInv
<1>a. /\ new.kind = "list" /\ new.tab = t /\ new.token = session[t]
  BY DEF ListCall
<1>b. session[t] # NoToken /\ session[t] \in Tokens /\ session[t] \in past[t]
  BY <1>0 DEF IndInv, PagesFitSession, Remembered, TypeOK
<1>c. new \in ListCalls
  BY <1>b DEF ListCall, ListCalls
<1>d. /\ session' = session /\ past' = past /\ issued' = issued /\ now' = now
      /\ page' = page /\ shown' = shown /\ overlapped' = overlapped
  BY <1>0 DEF clock, screen
<1> HIDE DEF new
<1>1. ScreenOK'
  <2>1. AllCalls' = AllCalls
    BY <1>d DEF AllCalls, Tokens
  <2>2. calls' \subseteq AllCalls
    BY <1>0, <1>c DEF TypeOK, AllCalls, CallsOver, ListCalls
  <2> QED
    BY <1>0, <1>d, <2>1, <2>2 DEF ScreenOK, TypeOK
<1>2. \A d \in calls' : d \in calls \/ d = new
  BY <1>0
<1>3. ScreenInv'
  <2>1. PagesFitSession' /\ Remembered'
    BY <1>0, <1>a, <1>b, <1>d, <1>2 DEF IndInv, PagesFitSession, Remembered
  <2>2. ListsAskForSession' /\ ListsBelongToSession'
    BY <1>a, <1>d, <1>2 DEF IndInv, ListsAskForSession, ListsBelongToSession, UserOf
  <2>3. LoginsAlone'
    BY <1>a, <1>d, <1>2 DEF IndInv, LoginsAlone
  <2> QED
    BY <2>1, <2>2, <2>3 DEF ScreenInv
<1>4. AccountInv'
  BY <1>0, <1>a, <1>2, AccountsKept
<1>5. TypeOK'
  BY <1>0, <1>d, <1>1, TypesFit DEF TypeOK, accounts, Tokens
<1> QED
  BY <1>3, <1>4, <1>5, Parts

\* A list arrives, and is shown if its page is still there.
LEMMA ListAnsweredInv ==
  ASSUME IndInv, NEW c \in calls, ListAnswered(c)
  PROVE  IndInv'
<1> DEFINE t == c.tab
<1>0. /\ TypeOK /\ c.kind = "list" /\ calls' = calls \ {c}
      /\ shown' = IF c.live THEN [shown EXCEPT ![t] = UserOf(c.token)] ELSE shown
      /\ UNCHANGED <<accounts, clock, session, stored, page, past, overlapped>>
  BY DEF ListAnswered, IndInv
<1>a. t \in Tabs /\ c.token \in Tokens /\ c.live \in BOOLEAN
  <2>1. c \in CallsOver(Tokens)
    BY <1>0 DEF TypeOK, CallsOver, ListCalls
  <2> QED
    BY <1>0, <2>1, CallKinds
<1>b. UserOf(c.token) \in Guids
  <2>1. PICK S : S = [user : Guids, nbf : Int, exp : Int]
    OBVIOUS
  <2>2. issued \in Seq(S) /\ c.token \in 1 .. Len(issued)
    BY <1>0, <1>a, <2>1 DEF TypeOK, Tokens
  <2>3. issued[c.token] \in S
    BY <2>2
  <2> QED
    BY <2>1, <2>3 DEF UserOf
<1>c. /\ shown' \in [Tabs -> Guids \cup {Nobody}]
      /\ ~c.live => shown' = shown
      /\ \A s \in Tabs \ {t} : shown'[s] = shown[s]
      /\ c.live => shown'[t] = UserOf(c.token)
  <2> HIDE DEF t
  <2>1. shown \in [Tabs -> Guids \cup {Nobody}]
    BY <1>0 DEF TypeOK
  <2>2. CASE c.live
    BY <1>0, <1>a, <1>b, <2>1, <2>2
  <2>3. CASE ~c.live
    BY <1>0, <2>1, <2>3
  <2> QED
    BY <2>2, <2>3
<1>d. /\ session' = session /\ past' = past /\ issued' = issued /\ now' = now
      /\ page' = page /\ overlapped' = overlapped
  BY <1>0 DEF clock
<1>1. ScreenOK'
  <2>1. AllCalls' = AllCalls
    BY <1>d DEF AllCalls, Tokens
  <2>2. calls' \subseteq AllCalls
    BY <1>0 DEF TypeOK, AllCalls, CallsOver, ListCalls
  <2> QED
    BY <1>0, <1>c, <1>d, <2>1, <2>2 DEF ScreenOK, TypeOK
<1>2. ScreenInv'
  <2>0. c.live => page[t] \in Lists
    BY <1>0, <1>a DEF IndInv, PagesFitSession
  <2>1. PagesFitSession'
    <3> SUFFICES ASSUME NEW s \in Tabs, page[s] \notin Lists
                 PROVE  shown'[s] = Nobody /\ \A d \in calls' : d.kind = "list" /\ d.tab = s => ~d.live
      BY <1>d DEF IndInv, PagesFitSession
    <3>1. shown[s] = Nobody /\ \A d \in calls : d.kind = "list" /\ d.tab = s => ~d.live
      BY DEF IndInv, PagesFitSession
    <3>2. shown'[s] = shown[s]
      BY <1>a, <1>c, <2>0
    <3> QED
      BY <1>0, <3>1, <3>2
  <2>2. ListsAskForSession' /\ LoginsAlone' /\ Remembered'
    BY <1>0, <1>d DEF IndInv, ListsAskForSession, LoginsAlone, Remembered
  <2>3. ListsBelongToSession'
    <3> SUFFICES ASSUME NEW s \in Tabs \ overlapped, shown'[s] # Nobody
                 PROVE  session[s] # NoToken /\ shown'[s] = UserOf(session[s])
      BY <1>d DEF ListsBelongToSession, UserOf
    <3>1. CASE s = t /\ c.live
      <4>1. c.token = session[s] /\ shown'[s] = UserOf(c.token)
        BY <1>0, <1>c, <3>1 DEF IndInv, ListsAskForSession
      <4>2. session[s] # NoToken
        BY <2>0, <3>1 DEF IndInv, PagesFitSession
      <4> QED
        BY <4>1, <4>2
    <3>2. CASE ~(s = t /\ c.live)
      <4>1. shown'[s] = shown[s]
        BY <1>a, <1>c, <3>2
      <4> QED
        BY <4>1 DEF IndInv, ListsBelongToSession
    <3> QED
      BY <3>1, <3>2
  <2> QED
    BY <2>1, <2>2, <2>3 DEF ScreenInv
<1>3. AccountInv'
  BY <1>0, AccountsKept
<1>4. TypeOK'
  BY <1>0, <1>d, <1>1, TypesFit DEF TypeOK, accounts, Tokens
<1> QED
  BY <1>2, <1>3, <1>4, Parts

---------------------------------------------------------------------------
\* Accounts

\* The form of the register page is sent.
LEMMA SubmitCreateInv ==
  ASSUME IndInv, NEW t \in Tabs, NEW l \in NewLogins, NEW p \in Passwords, SubmitCreate(t, l, p)
  PROVE  IndInv'
<1> DEFINE new == CreateCall(t, l, p)
<1>0. /\ TypeOK /\ calls' = calls \cup {new}
      /\ UNCHANGED <<accounts, clock, session, stored, screen, past, overlapped>>
  BY DEF SubmitCreate, IndInv
<1>a. new \in CreateCalls /\ new.kind = "create"
  BY NewLoginsAssumption DEF CreateCall, CreateCalls
<1> HIDE DEF new
<1>1. ScreenOK' /\ ScreenInv'
  BY <1>0, <1>a, QuietInv DEF clock
<1>2. AccountInv'
  BY <1>0, <1>a, AccountsKept
<1>3. TypeOK'
  BY <1>0, <1>1, TypesFit DEF TypeOK, accounts, clock, Tokens
<1> QED
  BY <1>1, <1>2, <1>3, Parts

\* Nobody has the login: it is marked when another creation found that too.
LEMMA LookUpInv ==
  ASSUME IndInv, NEW c \in calls, LookUp(c)
  PROVE  IndInv'
<1> DEFINE new == [c EXCEPT !.kind = "checked"]
<1>0. /\ TypeOK /\ c.kind = "create" /\ calls' = (calls \ {c}) \cup {new}
      /\ \A u \in users : u.login # c.login
      /\ contested' = IF \E d \in calls : d.kind = "checked" /\ d.login = c.login
                      THEN contested \cup {c.login} ELSE contested
      /\ UNCHANGED <<users, clock, session, stored, screen, past, overlapped>>
  BY DEF LookUp, IndInv
<1>a. c \in CreateCalls
  <2>1. c \in CallsOver(Tokens)
    BY <1>0 DEF TypeOK, CallsOver, ListCalls
  <2> QED
    BY <1>0, <2>1, CallKinds
<1>b. new \in CreateCalls /\ new.kind = "checked" /\ new.login = c.login /\ c.login \in Logins
  BY <1>a DEF CreateCalls
<1> HIDE DEF new
<1>1. ScreenOK' /\ ScreenInv'
  BY <1>0, <1>b, QuietInv DEF clock
<1>2. contested \subseteq contested' /\ contested' \subseteq Logins
  BY <1>0, <1>b DEF TypeOK
<1>3. AccountInv'
  <2>1. Numbered' /\ AccountsAreUnique'
    BY <1>0, <1>2 DEF IndInv, Numbered, AccountsAreUnique
  <2>2. CreationsContested'
    <3> SUFFICES ASSUME NEW d \in calls', d.kind = "checked", d.login \notin contested'
                 PROVE  /\ \A u \in users : u.login # d.login
                        /\ \A e \in calls' : e.kind = "checked" /\ e.login = d.login => e = d
      BY <1>0 DEF CreationsContested
    <3>1. CASE d.login = c.login
      <4>1. \A e \in calls : ~(e.kind = "checked" /\ e.login = c.login)
        BY <1>0, <3>1
      <4> QED
        BY <1>0, <3>1, <4>1
    <3>2. CASE d.login # c.login
      <4>1. d \in calls /\ d.login \notin contested
        BY <1>0, <1>b, <1>2, <3>2
      <4>2. \A e \in calls' : e.login = d.login => e \in calls
        BY <1>0, <1>b, <3>2
      <4> QED
        BY <4>1, <4>2 DEF IndInv, CreationsContested
    <3> QED
      BY <3>1, <3>2
  <2> QED
    BY <2>1, <2>2 DEF AccountInv
<1>4. TypeOK'
  BY <1>0, <1>1, <1>2, TypesFit DEF TypeOK, clock, Tokens
<1> QED
  BY <1>1, <1>3, <1>4, Parts

\* The account is stored with the next id; nobody else has its login, unless
\* the login is contested.
LEMMA SaveChangesInv ==
  ASSUME IndInv, NEW c \in calls, SaveChanges(c)
  PROVE  IndInv'
<1> DEFINE n == Cardinality(users)
           new == [id |-> n + 1, login |-> c.login, password |-> c.password]
<1>0. /\ TypeOK /\ c.kind = "checked" /\ n < MaxUsers /\ users' = users \cup {new}
      /\ \/ c.tab # NoTab /\ calls' = (calls \ {c}) \cup {TimerOf(c)}
         \/ calls' = calls \ {c}
      /\ UNCHANGED <<contested, clock, session, stored, screen, past, overlapped>>
  BY DEF SaveChanges, IndInv
<1>a. c \in CreateCalls
  <2>1. c \in CallsOver(Tokens)
    BY <1>0 DEF TypeOK, CallsOver, ListCalls
  <2> QED
    BY <1>0, <2>1, CallKinds
<1>b. n \in Nat /\ IsFiniteSet(users) /\ \A u \in users : u.id \in 1 .. n
  BY FS_CardinalityType DEF IndInv, Numbered
<1>c. new \in Accounts /\ new.id = n + 1 /\ new.login = c.login
  BY <1>0, <1>a, <1>b, BoundsAssumption DEF Accounts, Guids, CreateCalls
<1>d. c.tab # NoTab => TimerOf(c) \in Timers
  BY <1>a DEF CreateCalls, Timers, TimerOf
<1> HIDE DEF n, new
<1>e. new \notin users /\ IsFiniteSet(users') /\ Cardinality(users') = n + 1
  <2>1. new \notin users
    BY <1>b, <1>c
  <2> QED
    BY <1>0, <1>b, <2>1, FS_AddElement DEF n
<1>f. \A d \in calls' : (d \in calls /\ d # c) \/ d \in Timers
  BY <1>0, <1>d DEF Timers, TimerOf
<1>1. ScreenOK' /\ ScreenInv'
  BY <1>0, <1>f, QuietInv DEF clock
<1>2. Numbered'
  <2>1. \A u \in users' : u.id \in 1 .. (n + 1)
    BY <1>0, <1>b, <1>c
  <2> QED
    BY <1>e, <2>1 DEF Numbered
<1>3. AccountsAreUnique'
  <2> SUFFICES ASSUME NEW u \in users', NEW v \in users', u # v
               PROVE  u.id # v.id /\ (u.login = v.login => u.login \in contested)
    BY <1>0 DEF AccountsAreUnique
  <2>1. CASE u \in users /\ v \in users
    BY <2>1 DEF IndInv, AccountsAreUnique
  <2>2. CASE u = new \/ v = new
    <3>1. \A w \in users : w.id # new.id
      BY <1>b, <1>c
    <3>2. \A w \in users : w.login = new.login => new.login \in contested
      BY <1>0, <1>c DEF IndInv, CreationsContested
    <3> QED
      BY <1>0, <2>2, <3>1, <3>2
  <2> QED
    BY <1>0, <2>1, <2>2
<1>4. CreationsContested'
  <2> SUFFICES ASSUME NEW d \in calls', d.kind = "checked", d.login \notin contested
               PROVE  /\ \A u \in users' : u.login # d.login
                      /\ \A e \in calls' : e.kind = "checked" /\ e.login = d.login => e = d
    BY <1>0 DEF CreationsContested
  <2>1. d \in calls /\ d # c /\ \A e \in calls' : e.kind = "checked" => e \in calls
    BY <1>f DEF Timers
  <2>2. /\ \A u \in users : u.login # d.login
        /\ \A e \in calls : e.kind = "checked" /\ e.login = d.login => e = d
    BY <2>1 DEF IndInv, CreationsContested
  <2>3. new.login # d.login
    BY <1>0, <1>c, <2>1, <2>2
  <2> QED
    BY <1>0, <2>1, <2>2, <2>3
<1>5. TypeOK'
  BY <1>0, <1>c, <1>1, TypesFit DEF TypeOK, clock, Tokens
<1> QED
  BY <1>1, <1>2, <1>3, <1>4, <1>5, Parts DEF AccountInv

---------------------------------------------------------------------------
\* The invariant

\* The seeds are accounts, and no tab has a session.
LEMMA InitInv == Init => IndInv
<1> SUFFICES ASSUME Init PROVE IndInv
  OBVIOUS
<1>1. Len(issued) = 0 /\ issued \in Seq([user : Guids, nbf : Int, exp : Int]) /\ 0 \in 0 .. MaxTime
  BY BoundsAssumption DEF Init
<1>2. TypeOK
  BY <1>1, SeedsAssumption DEF Init, TypeOK, Pages
<1>3. Numbered /\ AccountsAreUnique
  BY SeedsAssumption DEF Init, Numbered, AccountsAreUnique
<1>4. CreationsContested /\ LoginsAlone /\ ListsAskForSession /\ ListsBelongToSession /\ Remembered
  BY DEF Init, CreationsContested, LoginsAlone, ListsAskForSession, ListsBelongToSession, Remembered
<1>5. PagesFitSession
  BY HomeAssumption DEF Init, PagesFitSession
<1> QED
  BY <1>2, <1>3, <1>4, <1>5 DEF IndInv

\* The tab of a list request or of a timer.
LEMMA TabOfCall ==
  ASSUME IndInv, NEW c \in calls, c.kind \in {"list", "login", "timer"}
  PROVE  c.tab \in Tabs
<1>1. c \in CallsOver(Tokens)
  BY DEF IndInv, TypeOK, CallsOver, ListCalls
<1> QED
  BY <1>1, CallKinds DEF LoginCalls, Timers

\* What the user of a tab does.
LEMMA UserInv ==
  ASSUME IndInv, NEW t \in Tabs, User(t)
  PROVE  IndInv'
<1>1. ASSUME NEW p \in Pages, GoTo(t, p) PROVE IndInv'
  BY <1>1, GoToInv DEF GoTo
<1>2. CASE Logout(t)
  BY <1>2, SignOutInv DEF Logout
<1> QED
  BY <1>1, <1>2, ReloadInv, LoadAgainInv, SubmitLoginInv, SubmitCreateInv DEF User

\* What becomes of a call.
LEMMA AnswerInv ==
  ASSUME IndInv, NEW c \in calls, Answer(c)
  PROVE  IndInv'
<1>1. CASE ListRejected(c) \/ ListUnreachable(c)
  <2>1. c.tab \in Tabs /\ SignOut(c.tab, calls \ {c})
    BY <1>1, TabOfCall DEF ListRejected, ListUnreachable
  <2> QED
    BY <2>1, SignOutInv
<1>2. CASE TimerFires(c)
  <2>1. c.tab \in Tabs /\ "login" \in Pages
    BY <1>2, TabOfCall DEF TimerFires, Pages
  <2> QED
    BY <1>2, <2>1, GoToInv DEF TimerFires
<1> QED
  BY <1>1, <1>2, LoginAnsweredInv, CallEndsInv, ListAnsweredInv, LookUpInv, SaveChangesInv DEF Answer

\* Every step keeps the invariant.
LEMMA NextInv == IndInv /\ [Next]_vars => IndInv'
<1> SUFFICES ASSUME IndInv, [Next]_vars PROVE IndInv'
  OBVIOUS
<1>1. CASE UNCHANGED vars
  <2>0. UNCHANGED <<accounts, clock, session, stored, screen, calls, past, overlapped>>
    BY <1>1 DEF vars
  <2>1. ScreenOK' /\ ScreenInv'
    BY <2>0, QuietInv DEF clock
  <2>2. AccountInv'
    BY <2>0, AccountsKept
  <2>3. TypeOK'
    BY <2>0, <2>1, TypesFit DEF IndInv, TypeOK, accounts, clock, Tokens
  <2> QED
    BY <2>1, <2>2, <2>3, Parts
<1> QED
  BY <1>1, TickInv, UserInv, AnswerInv DEF Next

\* The inductive invariant is an invariant.
THEOREM Invariance == Spec => []IndInv
BY InitInv, NextInv, PTL DEF Spec

\* Accounts, tokens, sessions, pages and calls keep their types: a session is
\* a token that was issued.
THEOREM TypeCorrect == Spec => []TypeOK
<1>1. IndInv => TypeOK
  BY DEF IndInv
<1> QED
  BY <1>1, Invariance, PTL

\* Two accounts share a login only when their creations overlapped.
THEOREM LoginsAreUnique == Spec => []AccountsAreUnique
<1>1. IndInv => AccountsAreUnique
  BY DEF IndInv
<1> QED
  BY <1>1, Invariance, PTL

\* A tab without overlapping logins shows the lists of its session only.
THEOREM ListsAreOfSession == Spec => []ListsBelongToSession
<1>1. IndInv => ListsBelongToSession
  BY DEF IndInv
<1> QED
  BY <1>1, Invariance, PTL

\* A session ends unasked only because of a list request the same tab made in
\* it or in an earlier session.
THEOREM SessionsEndOwnWay == Spec => SessionsLast
<1> DEFINE Ends(t) ==
      (session[t] # NoToken /\ session'[t] # session[t]) =>
        Asked(t) \/ \E c \in calls : c.kind = "list" /\ c.tab = t /\ c.token \in past[t]
<1>1. ASSUME IndInv, [Next]_vars, NEW t \in Tabs
      PROVE  Ends(t)
  <2> SUFFICES ASSUME session'[t] # session[t]
               PROVE  Asked(t) \/ \E c \in calls : c.kind = "list" /\ c.tab = t /\ c.token \in past[t]
    OBVIOUS
  <2>0. session \in [Tabs -> Tokens \cup {NoToken}]
    BY <1>1 DEF IndInv, TypeOK
  <2>1. CASE \E s \in Tabs : User(s)
    <3>1. PICK s \in Tabs : User(s)
      BY <2>1
    <3>2. Reload(s) \/ Logout(s)
      BY <3>1 DEF User, GoTo, LoadAgain, SubmitLogin, SubmitCreate
    <3>3. s = t
      BY <2>0, <3>2 DEF Reload, Logout, SignOut
    <3> QED
      BY <3>2, <3>3 DEF Asked
  <2>2. CASE \E c \in calls : Answer(c)
    <3>1. PICK c \in calls : Answer(c)
      BY <2>2
    <3>2. \/ \E u \in users, i \in Replicas : LoginAnswered(c, u, i)
          \/ c.kind = "list" /\ SignOut(c.tab, calls \ {c})
      BY <3>1 DEF Answer, LoginFails, ListAnswered, ListThrows, ListRejected, ListUnreachable,
                  LookUp, SaveChanges, CreateFails, TimerFires
    <3>3. c.tab = t
      BY <2>0, <3>2 DEF LoginAnswered, SignOut
    <3>4. CASE \E u \in users, i \in Replicas : LoginAnswered(c, u, i)
      BY <3>3, <3>4 DEF Asked
    <3>5. CASE c.kind = "list"
      BY <1>1, <3>3, <3>5 DEF IndInv, Remembered
    <3> QED
      BY <3>2, <3>4, <3>5
  <2>3. session' = session \/ (\E s \in Tabs : User(s)) \/ \E c \in calls : Answer(c)
    BY <1>1 DEF Next, Tick, vars
  <2> QED
    BY <2>1, <2>2, <2>3
<1>2. IndInv /\ [Next]_vars => [\A t \in Tabs : Ends(t)]_vars
  BY <1>1
<1> QED
  BY <1>2, Invariance, PTL DEF Spec, SessionsLast
=============================================================================
