-------------------------- MODULE SourceReadModel --------------------------
(***************************************************************************)
(* The list of source documents one QueryService process keeps              *)
(* (EventsFacade's SourceDocumentsService).  Every request made before the  *)
(* first event is handled opens a subscription; each of them adds every     *)
(* event to one static List, without a lock, and starts again from the      *)
(* beginning of the stream after a drop.                                    *)
(*                                                                          *)
(* An event is its position in the stream.                                  *)
(***************************************************************************)
EXTENDS Integers, Sequences, FiniteSets

CONSTANTS
  Files,      \* ids of source documents
  Dates,      \* values of OccurenceDate
  Requests,   \* bound: calls of GetAllSourceFilesAsync, each made once
  Failures,   \* which of FailureKinds may happen
  MaxEvents,  \* bound: events in the stream
  MaxAdds     \* bound: elements of the list

FailureKinds ==
  {"drop",         \* EventStore ends a subscription
   "unreachable",  \* SubscribeToStreamAsync throws
   "crash"}        \* the process ends, and docker restarts it

ASSUME RequestsAssumption == IsFiniteSet(Requests)
ASSUME DatesAssumption == Dates \subseteq Int
ASSUME FailuresAssumption == Failures \subseteq FailureKinds
ASSUME MaxEventsAssumption == MaxEvents \in Nat
ASSUME MaxAddsAssumption == MaxAdds \in Nat

Null == 0

VARIABLES
  log,          \* the stream: position -> [file, date]
  items,        \* the array of CachedEvents: slot -> position, or Null
  count,        \* its Count
  settled,      \* history: the count when no Add was last under way
  initialized,  \* _wasInitialized
  phase,        \* request -> what the subscription it opened is doing
  at,           \* request -> the position that subscription has handled
  size,         \* request -> the list's size when its Add began, else 0
  raced,        \* whether two Adds have overlapped in this process
  pc,           \* request -> where its call is
  found,        \* history: request -> its answer, file -> position (while ~raced)
  told,         \* history: the newest event the answers given so far are based on
  floor         \* history: request -> told, when it was made

vars == <<log, items, count, settled, initialized, phase, at, size, raced, pc, found, told, floor>>
subs == <<phase, at, size, raced>>
calls == <<pc, found, told, floor>>
cachedEvents == <<items, count, settled>>

Finished == {"answered", "faulted", "unreachable", "over"}
Slots == 1 .. MaxAdds
CachedEvents == SubSeq(items, 1, count)
Cached == {CachedEvents[k] : k \in 1 .. count} \ {Null}

TypeOK ==
  /\ log \in Seq([file : Files, date : Dates])
  /\ items \in [Slots -> DOMAIN log \cup {Null}]
  /\ count \in 0 .. MaxAdds
  /\ settled \in 0 .. MaxAdds
  /\ initialized \in BOOLEAN
  /\ phase \in [Requests -> {"none", "idle", "adding", "racing", "dropped"}]
  /\ at \in [Requests -> 0 .. Len(log)]
  /\ size \in [Requests -> 0 .. MaxAdds]
  /\ raced \in BOOLEAN
  /\ pc \in [Requests -> Finished \cup {"idle", "subscribing", "reading"}]
  /\ found \in [Requests -> [Files -> DOMAIN log \cup {Null}]]
  /\ told \in 0 .. Len(log)
  /\ floor \in [Requests -> 0 .. Len(log)]

NoFiles == [f \in Files |-> Null]

Init ==
  /\ log = << >>
  /\ items = [k \in Slots |-> Null]
  /\ count = 0
  /\ settled = 0
  /\ initialized = FALSE
  /\ phase = [q \in Requests |-> "none"]
  /\ at = [q \in Requests |-> 0]
  /\ size = [q \in Requests |-> 0]
  /\ raced = FALSE
  /\ pc = [q \in Requests |-> "idle"]
  /\ found = [q \in Requests |-> NoFiles]
  /\ told = 0
  /\ floor = [q \in Requests |-> 0]

---------------------------------------------------------------------------
\* EventStore

AppendEvent(f, d) ==
  /\ Len(log) < MaxEvents
  /\ log' = Append(log, [file |-> f, date |-> d])
  /\ UNCHANGED <<cachedEvents, initialized, subs, calls>>

---------------------------------------------------------------------------
\* A subscription, named by the request that opened it

Adding == {q \in Requests : phase[q] \in {"adding", "racing"}}

\* List.Add reads the size first; every Add in progress now overlaps another.
HandleNewEvent(q) ==
  /\ phase[q] = "idle"
  /\ at[q] < Len(log)
  /\ count + Cardinality(Adding) < MaxAdds
  /\ phase' = IF Adding = {} THEN [phase EXCEPT ![q] = "adding"]
              ELSE [p \in Requests |-> IF p \in Adding \cup {q} THEN "racing" ELSE phase[p]]
  /\ size' = [size EXCEPT ![q] = count]
  /\ raced' = (raced \/ Adding # {})
  /\ UNCHANGED <<log, cachedEvents, initialized, at, calls>>

\* The list's array has 4 slots, then 8, 16: the Add after the one that fills
\* the last slot replaces the array by a larger one.
FillsArray(n) == \E k \in 0 .. n : n + 1 = 4 * 2 ^ k

\* The size that was read plus one is stored, and the event in that slot:
\* another Add may have used it in between, and what an Add stores in an array
\* that is being replaced is lost.  (position is assigned too, and never used.)
Add(q) ==
  /\ q \in Adding
  /\ \/ items' = [items EXCEPT ![size[q] + 1] = at[q] + 1]
     \/ phase[q] = "racing" /\ FillsArray(size[q]) /\ UNCHANGED items
  /\ count' = size[q] + 1
  /\ settled' = IF Adding = {q} THEN count' ELSE settled
  /\ initialized' = TRUE
  /\ size' = [size EXCEPT ![q] = 0]
  /\ at' = [at EXCEPT ![q] = @ + 1]
  /\ phase' = [phase EXCEPT ![q] = "idle"]
  /\ UNCHANGED <<log, raced, calls>>

Drop(q) ==
  /\ "drop" \in Failures
  /\ phase[q] = "idle"
  /\ phase' = [phase EXCEPT ![q] = "dropped"]
  /\ UNCHANGED <<log, cachedEvents, initialized, at, size, raced, calls>>

\* Mutants of Resubscribe: the list is emptied before the stream is added to it
\* again; the new subscription gets new events only.
ResubscribeClears(q) ==
  /\ phase[q] = "dropped"
  /\ phase' = [phase EXCEPT ![q] = "idle"]
  /\ at' = [at EXCEPT ![q] = 0]
  /\ count' = 0
  /\ UNCHANGED <<log, items, settled, initialized, size, raced, calls>>

ResubscribeAtEnd(q) ==
  /\ phase[q] = "dropped"
  /\ phase' = [phase EXCEPT ![q] = "idle"]
  /\ at' = [at EXCEPT ![q] = Len(log)]
  /\ UNCHANGED <<log, cachedEvents, initialized, size, raced, calls>>

\* The whole stream again: ResubscribeAsync does not pass its position on.
Resubscribe(q) ==
  /\ phase[q] = "dropped"
  /\ phase' = [phase EXCEPT ![q] = "idle"]
  /\ at' = [at EXCEPT ![q] = 0]
  /\ UNCHANGED <<log, cachedEvents, initialized, size, raced, calls>>

---------------------------------------------------------------------------
\* A request

Goto(q, from, to) == pc[q] = from /\ pc' = [pc EXCEPT ![q] = to]

\* A mutant: the flag is set by the first request.
GetCachedOrFetchFirst(q) ==
  /\ Goto(q, "idle", IF initialized THEN "reading" ELSE "subscribing")
  /\ floor' = [floor EXCEPT ![q] = told]
  /\ initialized' = TRUE
  /\ UNCHANGED <<log, cachedEvents, subs, found, told>>

GetCachedOrFetch(q) ==
  /\ Goto(q, "idle", IF initialized THEN "reading" ELSE "subscribing")
  /\ floor' = [floor EXCEPT ![q] = told]
  /\ UNCHANGED <<log, cachedEvents, initialized, subs, found, told>>

Subscribe(q) ==
  /\ Goto(q, "subscribing", "reading")
  /\ phase' = [phase EXCEPT ![q] = "idle"]
  /\ UNCHANGED <<log, cachedEvents, initialized, at, size, raced, found, told, floor>>

SubscribeThrows(q) ==
  /\ "unreachable" \in Failures
  /\ Goto(q, "subscribing", "unreachable")
  /\ UNCHANGED <<log, cachedEvents, initialized, subs, found, told, floor>>

\* A mutant: the last element of the file's group, not the newest.
LatestOfLast(list, f) ==
  LET group == {k \in DOMAIN list : log[list[k]].file = f} IN
  IF group = {} THEN Null
  ELSE list[CHOOSE k \in group : \A l \in group : l <= k]

\* A mutant: the element's place in the list.
LatestOfIndex(list, f) ==
  LET group == {k \in DOMAIN list : log[list[k]].file = f} IN
  IF group = {} THEN Null
  ELSE CHOOSE k \in group : \A l \in group : log[list[l]].date <= log[list[k]].date

\* The first of the file's newest elements, in the order of the list.
LatestOf(list, f) ==
  LET group == {k \in DOMAIN list : log[list[k]].file = f} IN
  IF group = {} THEN Null
  ELSE list[CHOOSE k \in group : \A l \in group :
         \/ log[list[l]].date < log[list[k]].date
         \/ log[list[l]].date = log[list[k]].date /\ k <= l]

\* What answers given from now on must not fall behind (a history value).
Newest == IF Cached = {} THEN 0 ELSE CHOOSE i \in Cached : \A j \in Cached : j <= i

\* The list is grouped by file; a null element cannot be.  What is answered when
\* two Adds have overlapped is not recorded: nothing is said of it.
GetAllSourceFiles(q) ==
  /\ Null \notin {items[k] : k \in 1 .. count}
  /\ Goto(q, "reading", "answered")
  /\ IF raced THEN UNCHANGED <<found, told>>
     ELSE /\ found' = [found EXCEPT ![q] = [f \in Files |-> LatestOf(CachedEvents, f)]]
          /\ told' = IF Newest > told THEN Newest ELSE told
  /\ UNCHANGED <<log, cachedEvents, initialized, subs, floor>>

\* NullReferenceException, or InvalidOperationException when an Add runs
\* during the enumeration.  The controller catches neither.
GetAllSourceFilesThrows(q) ==
  /\ Adding # {} \/ Null \in {items[k] : k \in 1 .. count}
  /\ Goto(q, "reading", "faulted")
  /\ UNCHANGED <<log, cachedEvents, initialized, subs, found, told, floor>>

---------------------------------------------------------------------------
\* The process

\* The calls made so far are over, and what they were told with them.
Restart ==
  /\ items' = [k \in Slots |-> Null]
  /\ count' = 0
  /\ settled' = 0
  /\ initialized' = FALSE
  /\ phase' = [q \in Requests |-> "none"]
  /\ at' = [q \in Requests |-> 0]
  /\ size' = [q \in Requests |-> 0]
  /\ pc' = [q \in Requests |-> IF pc[q] = "idle" THEN "idle" ELSE "over"]
  /\ found' = [q \in Requests |-> NoFiles]
  /\ told' = 0
  /\ floor' = [q \in Requests |-> 0]
  /\ raced' = FALSE
  /\ UNCHANGED log

Crash == "crash" \in Failures /\ Restart

\* subscriptionDropped is an async void callback: what it throws ends the process.
ResubscribeThrows(q) ==
  /\ "unreachable" \in Failures
  /\ phase[q] = "dropped"
  /\ Restart

---------------------------------------------------------------------------
Subscription(q) ==
  \/ HandleNewEvent(q)
  \/ Add(q)
  \/ Drop(q)
  \/ Resubscribe(q)
  \/ ResubscribeThrows(q)

Call(q) ==
  \/ GetCachedOrFetch(q)
  \/ Subscribe(q)
  \/ SubscribeThrows(q)
  \/ GetAllSourceFiles(q)
  \/ GetAllSourceFilesThrows(q)

Next ==
  \/ \E f \in Files, d \in Dates : AppendEvent(f, d)
  \/ \E q \in Requests : Call(q) \/ Subscription(q)
  \/ Crash

Spec == Init /\ [][Next]_vars

---------------------------------------------------------------------------
\* Correctness

\* What the list holds when no Add is under way it holds as long as the process
\* lives, whatever overlaps later: Adds that overlap use one slot twice, lose
\* what they store in an array that is being replaced and set the count back,
\* but each lost event is one of theirs.  (They do lose it, and may leave a null
\* that fails every later request.)
SettledListStays ==
  [][(\E q \in Requests : phase'[q] # "none") =>
       settled <= count' /\ \A k \in 1 .. settled : items'[k] = items[k]]_vars

\* What the answer is when the first n events are known: for each file its
\* newest event by date, the earlier one when two have the same date.
Answer(n) == [f \in Files |-> LatestOf([i \in 1 .. n |-> i], f)]

\* Every answer is that of a beginning of the stream, and of one that contains
\* what answers given before the request were based on, although the whole
\* stream is added again after a drop and several subscriptions add it: as long
\* as no two Adds overlap.
AnswersNeverGoBack ==
  ~raced => \A q \in Requests : pc[q] = "answered" =>
    \E n \in floor[q] .. Len(log) : found[q] = Answer(n)

\* Requests are answered from the list alone only when something feeds it.
ListIsFed == initialized => \E q \in Requests : phase[q] # "none"
---------------------------------------------------------------------------
\* The list implements EventView, as long as no two Adds overlap

\* All events are of one topic.  A list that two Adds may have spoiled shows
\* nothing, until the process restarts.
View == INSTANCE EventView WITH
  Topics <- {"documents"},
  log <- [i \in DOMAIN log |-> "documents"],
  shown <- [t \in {"documents"} |-> IF raced THEN {} ELSE Cached]

\* The list shows a growing prefix of the stream, one event after another and
\* none skipped, although every subscription adds every event to it again and
\* replays the stream after each drop.
ViewSpec == View!Spec

---------------------------------------------------------------------------
\* The inductive invariant

Unsubscribed ==
  \A q \in Requests :
    /\ pc[q] \in {"idle", "subscribing"} => phase[q] = "none"
    /\ phase[q] = "none" => at[q] = 0

AddsFit == \A q \in Adding : size[q] < MaxAdds /\ at[q] < Len(log)

\* Until two overlap, there is one Add at most, and it has the right size.
AddsAlone ==
  ~raced =>
    /\ \A p, q \in Adding : p = q
    /\ \A q \in Adding : phase[q] = "adding" /\ size[q] = count

\* Every element has all earlier events of the stream before it.
ListedInOrder ==
  ~raced =>
    \A k \in 1 .. count :
      /\ items[k] # Null
      /\ \A i \in 1 .. (items[k] - 1) : \E l \in 1 .. (k - 1) : items[l] = i

\* Every event a subscription has handled is in the list, until two overlap.
NothingSkipped ==
  ~raced => \A q \in Requests : phase[q] # "none" => 1 .. at[q] \subseteq Cached

\* Adds in progress use slots above those that were settled when they began.
SettledBelow ==
  /\ settled <= count
  /\ Adding = {} => settled = count
  /\ \A q \in Adding : size[q] >= settled

ToldIsListed ==
  /\ ~raced => told = 0 \/ told \in Cached
  /\ \A q \in Requests : floor[q] <= told

IndInv ==
  /\ TypeOK
  /\ Unsubscribed
  /\ AddsFit
  /\ AddsAlone
  /\ NothingSkipped
  /\ ListedInOrder
  /\ ToldIsListed
  /\ ListIsFed
  /\ AnswersNeverGoBack
===========================================================================
