------------------------- MODULE AnalysisReadModel -------------------------
(***************************************************************************)
(* The cache of analysis events one QueryService process keeps              *)
(* (EventsFacade's DocumentAnalysisService).  The first requests subscribe  *)
(* to EventStore; the subscriptions fill a static dictionary of lists, in   *)
(* the background; later requests are answered from the live list.          *)
(*                                                                          *)
(* An event is its position in the log; the log gives the user it is for.   *)
(***************************************************************************)
EXTENDS Integers, Sequences, FiniteSets

CONSTANTS
  Users,      \* whose analyses the events are about, and who asks
  Requests,   \* bound: calls of GetAnalysesForUser, each made once
  Failures,   \* which of FailureKinds may happen
  MaxEvents,  \* bound: events in the log
  NoUser

FailureKinds ==
  {"drop",         \* EventStore ends a subscription
   "unreachable",  \* SubscribeToAllAsync throws
   "crash"}        \* the process ends, and docker restarts it

ASSUME RequestsAssumption == IsFiniteSet(Requests)
ASSUME FailuresAssumption == Failures \subseteq FailureKinds
ASSUME MaxEventsAssumption == MaxEvents \in Nat
ASSUME NoUserAssumption == NoUser \notin Users

VARIABLES
  log,          \* the analysis streams as $all orders them: position -> user
  cache,        \* Events: user -> list of positions; << >> when it has no key
  initialized,  \* WasInitializedTimes > 0
  phase,        \* request -> what the subscription it opened is doing
  at,           \* request -> the position that subscription has handled
  pc,           \* request -> where its call is
  asker,        \* request -> the user it is for
  version,      \* request -> the list's version when its enumeration began
  found,        \* request -> the list as its rows were made from it
  names,        \* request -> the list as its last name was looked up in it
  told,         \* user -> events answered to them since the process started
  floor         \* request -> told, when it was made

vars == <<log, cache, initialized, phase, at, pc, asker, version, found, names, told, floor>>
store == <<log, cache>>
subs == <<phase, at>>
locals == <<asker, version, found, names, floor>>
calls == <<pc, locals, told>>

Finished == {"answered", "keyNotFound", "modified", "nullReference", "unreachable", "killed"}
Events(s) == {s[k] : k \in DOMAIN s}

TypeOK ==
  /\ log \in Seq(Users)
  /\ cache \in [Users -> Seq(DOMAIN log)]
  /\ initialized \in BOOLEAN
  /\ phase \in [Requests -> {"none", "idle", "adding", "storing", "inserting", "dropped"}]
  /\ at \in [Requests -> 0 .. Len(log)]
  /\ pc \in [Requests -> Finished \cup
       {"idle", "cached", "subscribing", "subscribed", "initialized",
        "listed", "grouping", "grouped", "naming"}]
  /\ asker \in [Requests -> Users \cup {NoUser}]
  /\ version \in [Requests -> Nat]
  /\ found \in [Requests -> Seq(DOMAIN log)]
  /\ names \in [Requests -> Seq(DOMAIN log)]
  /\ told \in [Users -> SUBSET DOMAIN log]
  /\ floor \in [Requests -> SUBSET DOMAIN log]

Init ==
  /\ log = << >>
  /\ cache = [u \in Users |-> << >>]
  /\ initialized = FALSE
  /\ phase = [q \in Requests |-> "none"]
  /\ at = [q \in Requests |-> 0]
  /\ pc = [q \in Requests |-> "idle"]
  /\ asker = [q \in Requests |-> NoUser]
  /\ version = [q \in Requests |-> 0]
  /\ found = [q \in Requests |-> << >>]
  /\ names = [q \in Requests |-> << >>]
  /\ told = [u \in Users |-> {}]
  /\ floor = [q \in Requests |-> {}]

---------------------------------------------------------------------------
\* EventStore

AppendEvent(u) ==
  /\ Len(log) < MaxEvents
  /\ log' = Append(log, u)
  /\ UNCHANGED <<cache, initialized, subs, calls>>

---------------------------------------------------------------------------
\* A request

Goto(q, from, to) == pc[q] = from /\ pc' = [pc EXCEPT ![q] = to]

\* The call ends, and its locals are gone.
Return(q, outcome) ==
  /\ pc' = [pc EXCEPT ![q] = outcome]
  /\ asker' = [asker EXCEPT ![q] = NoUser]
  /\ version' = [version EXCEPT ![q] = 0]
  /\ found' = [found EXCEPT ![q] = << >>]
  /\ names' = [names EXCEPT ![q] = << >>]
  /\ floor' = [floor EXCEPT ![q] = {}]

\* A mutant: the flag is set before the subscription, not after it.
AskFirst(q, u) ==
  /\ Goto(q, "idle", IF initialized THEN "cached" ELSE "subscribing")
  /\ asker' = [asker EXCEPT ![q] = u]
  /\ floor' = [floor EXCEPT ![q] = told[u]]
  /\ initialized' = TRUE
  /\ UNCHANGED <<store, subs, version, found, names, told>>

Ask(q, u) ==
  /\ Goto(q, "idle", IF initialized THEN "cached" ELSE "subscribing")
  /\ asker' = [asker EXCEPT ![q] = u]
  /\ floor' = [floor EXCEPT ![q] = told[u]]
  /\ UNCHANGED <<store, initialized, subs, version, found, names, told>>

Subscribe(q) ==
  /\ Goto(q, "subscribing", "subscribed")
  /\ phase' = [phase EXCEPT ![q] = "idle"]
  /\ at' = [at EXCEPT ![q] = 0]
  /\ UNCHANGED <<store, initialized, locals, told>>

SubscribeThrows(q) ==
  /\ "unreachable" \in Failures
  /\ pc[q] = "subscribing"
  /\ Return(q, "unreachable")
  /\ UNCHANGED <<store, initialized, subs, told>>

Initialize(q) ==
  /\ Goto(q, "subscribed", "initialized")
  /\ initialized' = TRUE
  /\ UNCHANGED <<store, subs, locals, told>>

\* TryGetValue, on the path of a request that subscribed, yields a new list
\* when the key is missing: one that stays empty.
TryGet(q) ==
  /\ Goto(q, "initialized", IF cache[asker[q]] = << >> THEN "grouped" ELSE "listed")
  /\ UNCHANGED <<store, initialized, subs, locals, told>>

\* Events[userId], on the path of the others, throws when it is.
Lookup(q) ==
  /\ pc[q] = "cached"
  /\ IF cache[asker[q]] = << >>
     THEN Return(q, "keyNotFound")
     ELSE Goto(q, "cached", "listed") /\ UNCHANGED locals
  /\ UNCHANGED <<store, initialized, subs, told>>

---------------------------------------------------------------------------
\* The services' enumerations of the live list, which take no lock

Position(q) == at[q] + 1
Owner(q) == log[Position(q)]

\* List.Add counts a version, then its element, and stores the element last.
Storing(u) == \E s \in Requests : phase[s] = "storing" /\ Owner(s) = u
Version(u) == Len(cache[u]) + IF Storing(u) THEN 1 ELSE 0

EnumerationBegins(q, from, to) ==
  /\ Goto(q, from, to)
  /\ version' = [version EXCEPT ![q] = Version(asker[q])]
  /\ UNCHANGED <<store, initialized, subs, asker, found, names, floor, told>>

\* The first enumeration filters and groups the events into rows ...
GroupBy(q) == EnumerationBegins(q, "listed", "grouping")

\* ... and the name of each row takes one of its own.
GetInitialEvent(q) == found[q] # << >> /\ EnumerationBegins(q, "grouped", "naming")

Enumerating(q) == pc[q] \in {"grouping", "naming"}

\* The enumerator compares versions at each element and at the end.
Enumerated(q) ==
  /\ Enumerating(q)
  /\ version[q] = Version(asker[q])
  /\ pc' = [pc EXCEPT ![q] = "grouped"]
  /\ version' = [version EXCEPT ![q] = 0]
  /\ found' = IF pc[q] = "grouping" THEN [found EXCEPT ![q] = cache[asker[q]]] ELSE found
  /\ names' = [names EXCEPT ![q] = cache[asker[q]]]
  /\ UNCHANGED <<store, initialized, subs, asker, floor, told>>

\* InvalidOperationException: the list has changed since the enumeration began.
Modified(q) ==
  /\ Enumerating(q)
  /\ version[q] # Version(asker[q])
  /\ Return(q, "modified")
  /\ UNCHANGED <<store, initialized, subs, told>>

\* NullReferenceException: the last element is counted and not stored yet.
ReadsNull(q) ==
  /\ Enumerating(q)
  /\ Storing(asker[q])
  /\ Return(q, "nullReference")
  /\ UNCHANGED <<store, initialized, subs, told>>

Answer(q) ==
  /\ pc[q] = "grouped"
  /\ told' = [told EXCEPT ![asker[q]] = @ \cup Events(found[q]) \cup Events(names[q])]
  /\ Return(q, "answered")
  /\ UNCHANGED <<store, initialized, subs>>

---------------------------------------------------------------------------
\* A subscription, named by the request that opened it

\* HandleNewEvent up to its TryGetValue.
HandleNewEvent(q) ==
  /\ phase[q] = "idle"
  /\ at[q] < Len(log)
  /\ phase' = [phase EXCEPT ![q] = IF cache[Owner(q)] = << >> THEN "inserting" ELSE "adding"]
  /\ UNCHANGED <<store, initialized, at, calls>>

Handled(q) ==
  /\ phase' = [phase EXCEPT ![q] = "idle"]
  /\ at' = [at EXCEPT ![q] = Position(q)]
  /\ UNCHANGED <<log, initialized, calls>>

\* Inside lock(events).
BeginAdd(q) ==
  /\ phase[q] = "adding"
  /\ ~Storing(Owner(q))
  /\ phase' = [phase EXCEPT ![q] = "storing"]
  /\ UNCHANGED <<store, initialized, at, calls>>

\* A mutant: the event replaces the list it should be added to.
AddAlone(q) ==
  /\ phase[q] = "storing"
  /\ cache' = [cache EXCEPT ![Owner(q)] = <<Position(q)>>]
  /\ Handled(q)

Add(q) ==
  /\ phase[q] = "storing"
  /\ cache' = [cache EXCEPT ![Owner(q)] = Append(@, Position(q))]
  /\ Handled(q)

\* A mutant: the list is replaced whether or not the key has appeared.
Insert(q) ==
  /\ phase[q] = "inserting"
  /\ cache' = [cache EXCEPT ![Owner(q)] = <<Position(q)>>]
  /\ Handled(q)

\* TryAdd does nothing when another subscription inserted the key meanwhile.
TryAdd(q) ==
  /\ phase[q] = "inserting"
  /\ cache' = [cache EXCEPT ![Owner(q)] = IF @ = << >> THEN <<Position(q)>> ELSE @]
  /\ Handled(q)

\* A mutant: the event being awaited when the subscription ends counts as handled.
DropCounts(q) ==
  /\ "drop" \in Failures
  /\ phase[q] = "idle"
  /\ phase' = [phase EXCEPT ![q] = "dropped"]
  /\ at' = [at EXCEPT ![q] = @ + 1]
  /\ UNCHANGED <<store, initialized, calls>>

\* The client runs one handler at a time, so a subscription ends between two.
Drop(q) ==
  /\ "drop" \in Failures
  /\ phase[q] = "idle"
  /\ phase' = [phase EXCEPT ![q] = "dropped"]
  /\ UNCHANGED <<store, initialized, at, calls>>

\* Mutants of Resubscribe: it starts after the newest event of the log, or
\* from the beginning, as SourceDocumentsService does.
ResubscribeAtEnd(q) ==
  /\ phase[q] = "dropped"
  /\ phase' = [phase EXCEPT ![q] = "idle"]
  /\ at' = [at EXCEPT ![q] = Len(log)]
  /\ UNCHANGED <<store, initialized, calls>>

ResubscribeAtStart(q) ==
  /\ phase[q] = "dropped"
  /\ phase' = [phase EXCEPT ![q] = "idle"]
  /\ at' = [at EXCEPT ![q] = 0]
  /\ UNCHANGED <<store, initialized, calls>>

\* The new subscription starts after the checkpoint.
Resubscribe(q) ==
  /\ phase[q] = "dropped"
  /\ phase' = [phase EXCEPT ![q] = "idle"]
  /\ UNCHANGED <<store, initialized, at, calls>>

---------------------------------------------------------------------------
\* The process

Restart ==
  /\ cache' = [u \in Users |-> << >>]
  /\ initialized' = FALSE
  /\ phase' = [q \in Requests |-> "none"]
  /\ at' = [q \in Requests |-> 0]
  /\ pc' = [q \in Requests |-> IF pc[q] \in Finished \cup {"idle"} THEN pc[q] ELSE "killed"]
  /\ asker' = [q \in Requests |-> NoUser]
  /\ version' = [q \in Requests |-> 0]
  /\ found' = [q \in Requests |-> << >>]
  /\ names' = [q \in Requests |-> << >>]
  /\ floor' = [q \in Requests |-> {}]
  /\ told' = [u \in Users |-> {}]
  /\ UNCHANGED log

Crash == "crash" \in Failures /\ Restart

\* subscriptionDropped is an async void callback: what ResubscribeAsync throws
\* there nobody catches, and it ends the process.
ResubscribeThrows(q) ==
  /\ "unreachable" \in Failures
  /\ phase[q] = "dropped"
  /\ Restart

---------------------------------------------------------------------------
Call(q) ==
  \/ \E u \in Users : Ask(q, u)
  \/ Subscribe(q)
  \/ SubscribeThrows(q)
  \/ Initialize(q)
  \/ TryGet(q)
  \/ Lookup(q)
  \/ GroupBy(q)
  \/ GetInitialEvent(q)
  \/ Enumerated(q)
  \/ Modified(q)
  \/ ReadsNull(q)
  \/ Answer(q)

Subscription(q) ==
  \/ HandleNewEvent(q)
  \/ BeginAdd(q)
  \/ Add(q)
  \/ TryAdd(q)
  \/ Drop(q)
  \/ Resubscribe(q)
  \/ ResubscribeThrows(q)

Next ==
  \/ \E u \in Users : AppendEvent(u)
  \/ \E q \in Requests : Call(q) \/ Subscription(q)
  \/ Crash

Spec == Init /\ [][Next]_vars

\* Subscriptions that are up deliver, though they may be dropped in between,
\* and are opened again when they are.
Fairness ==
  \A q \in Requests :
    /\ SF_vars(HandleNewEvent(q))
    /\ WF_vars(BeginAdd(q))
    /\ WF_vars(Add(q))
    /\ WF_vars(TryAdd(q))
    /\ WF_vars(Resubscribe(q))

FairSpec == Spec /\ Fairness
---------------------------------------------------------------------------
\* Correctness

Cached(u) == Events(cache[u])
Subscribed == \E q \in Requests : phase[q] # "none"

\* A user's list holds events of theirs only, and no event of theirs before
\* every earlier one is in the list: however the handlers of several
\* subscriptions interleave, readers never see a status without the statuses
\* that led to it.
CachedInOrder ==
  \A u \in Users : \A k \in DOMAIN cache[u] :
    /\ log[cache[u][k]] = u
    /\ \A i \in 1 .. (cache[u][k] - 1) :
         log[i] = u => \E l \in 1 .. (k - 1) : cache[u][l] = i

\* Every event a subscription has gone past is in its user's list, although
\* TryAdd may discard one, subscriptions are dropped, and each starts again
\* from its own checkpoint.
NothingSkipped ==
  \A q \in Requests : phase[q] # "none" =>
    \A i \in 1 .. at[q] : i \in Cached(log[i])

\* A list holds an event at most once for each subscription that handled it:
\* resubscribing from the checkpoint replays nothing.
CopiesBounded ==
  \A u \in Users : \A i \in Cached(u) :
    Cardinality({k \in DOMAIN cache[u] : cache[u][k] = i})
      <= Cardinality({q \in Requests : at[q] >= i})

\* Once requests are answered from the cache alone, some subscription feeds
\* it, and will until the process ends: no process serves a frozen cache.
CacheIsFed == initialized => Subscribed

\* As long as the process lives, a request made after another was answered
\* answers with rows made from every event the other saw, in its rows or in the
\* names it looked up later.
AnswersNeverShrink ==
  \A q \in Requests : pc[q] = "grouped" => floor[q] \subseteq Events(found[q])

\* These are events of user u, and with each all the earlier ones.
Whole(u, events) ==
  \A i \in events : log[i] = u /\ \A j \in 1 .. (i - 1) : log[j] = u => j \in events

\* Although the list grows during and between the enumerations of an answer, the
\* answer is never torn: its rows are made from all the events of its user up to
\* some place of the log, and each name from all up to a place no earlier.
AnswersAreWhole ==
  \A q \in Requests : pc[q] = "grouped" =>
    /\ Whole(asker[q], Events(found[q])) /\ Whole(asker[q], Events(names[q]))
    /\ Events(found[q]) \subseteq Events(names[q])

\* The documented answer of a user without analyses is an empty list.
\* (Violated: once another user's request has initialized the cache, theirs
\* ends in KeyNotFoundException.)
EmptyListForNewUser == \A q \in Requests : pc[q] # "keyNotFound"

\* Every event appears in its user's list in the end, once there is a
\* subscription and unless the process restarts.
EventsAppear ==
  \A i \in 1 .. MaxEvents :
    (Subscribed /\ i \in DOMAIN log) ~> (~Subscribed \/ \E u \in Users : i \in Cached(u))

\* The cache is an in-memory view of the log.
View == INSTANCE EventView WITH Topics <- Users, shown <- [u \in Users |-> Cached(u)]

ViewSpec == View!Spec

---------------------------------------------------------------------------
\* The inductive invariant of the safety properties

\* What a handler found before it acts still tells whether the event is the
\* first of its user: a key never disappears, and the only event that can be
\* discarded is one another subscription has just inserted.
HandlersKnow ==
  \A q \in Requests :
    /\ phase[q] \in {"adding", "storing", "inserting"} => at[q] < Len(log)
    /\ phase[q] \in {"adding", "storing"} => cache[Owner(q)] # << >>
    /\ phase[q] = "inserting" => \A i \in 1 .. at[q] : log[i] # Owner(q)

\* What was told is in the cache, and so in what a request enumerates.
Remembered ==
  /\ \A u \in Users : told[u] \subseteq Cached(u)
  /\ \A q \in Requests :
       /\ pc[q] \notin Finished \cup {"idle"} => asker[q] \in Users
       /\ pc[q] \in {"cached", "subscribing", "subscribed", "initialized", "listed", "grouping"} =>
            floor[q] \subseteq Cached(asker[q])
       /\ pc[q] \in {"grouped", "naming"} => floor[q] \subseteq Events(found[q])

\* A request has read nothing or lists that are in the cache, the later after
\* the earlier.
Read ==
  \A q \in Requests :
    IF pc[q] \in {"grouped", "naming"}
    THEN /\ Whole(asker[q], Events(found[q])) /\ Whole(asker[q], Events(names[q]))
         /\ Events(found[q]) \subseteq Events(names[q])
         /\ Events(names[q]) \subseteq Cached(asker[q])
    ELSE found[q] = << >> /\ names[q] = << >>

Opened ==
  \A q \in Requests : pc[q] \in {"subscribed", "initialized"} => phase[q] # "none"

IndInv ==
  /\ TypeOK
  /\ CachedInOrder
  /\ NothingSkipped
  /\ HandlersKnow
  /\ Remembered
  /\ Read
  /\ Opened
  /\ CacheIsFed

\* A request that has not subscribed has handled nothing.
NotBegun ==
  \A q \in Requests : pc[q] \in {"idle", "subscribing"} => phase[q] = "none" /\ at[q] = 0
===========================================================================
