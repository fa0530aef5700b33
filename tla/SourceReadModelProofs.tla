----------------------- MODULE SourceReadModelProofs -----------------------
(***************************************************************************)
(* Proofs about the list of source documents, for any files, dates,         *)
(* requests, failures, and lengths of the stream and of the list.           *)
(***************************************************************************)
EXTENDS SourceReadModel, Sorting, FiniteSetTheorems

---------------------------------------------------------------------------
\* The list

\* The list is what the slots hold up to its count.
LEMMA ListFacts ==
  ASSUME TypeOK
  PROVE  /\ count \in Nat /\ count <= MaxAdds
         /\ DOMAIN CachedEvents = 1 .. count
         /\ \A k \in 1 .. count : CachedEvents[k] = items[k] /\ k \in Slots
         /\ Cached = {items[k] : k \in 1 .. count} \ {Null}
         /\ Cached \subseteq DOMAIN log
         /\ Len(log) \in Nat /\ DOMAIN log = 1 .. Len(log)
<1>1. /\ count \in Nat /\ count <= MaxAdds /\ MaxAdds \in Nat
      /\ Len(log) \in Nat /\ DOMAIN log = 1 .. Len(log)
  BY MaxAddsAssumption DEF TypeOK
<1>2. items \in Seq(DOMAIN log \cup {Null}) /\ Len(items) = MaxAdds
  BY <1>1 DEF TypeOK, Slots
<1>3. DOMAIN CachedEvents = 1 .. count /\ \A k \in 1 .. count : CachedEvents[k] = items[k]
  BY <1>1, <1>2 DEF CachedEvents
<1>4. \A k \in 1 .. count : k \in Slots
  BY <1>1 DEF Slots
<1>5. Cached = {items[k] : k \in 1 .. count} \ {Null}
  BY <1>3 DEF Cached
<1> QED
  BY <1>1, <1>3, <1>4, <1>5 DEF TypeOK

\* The number of Adds in progress is a number.
LEMMA AddingCount == Cardinality(Adding) \in Nat
<1>1. IsFiniteSet(Adding)
  BY RequestsAssumption, FS_Subset DEF Adding
<1> QED
  BY <1>1, FS_CardinalityType

\* The newest event of the list is one of its.
LEMMA NewestFacts ==
  ASSUME TypeOK
  PROVE  /\ Cached = {} => Newest = 0
         /\ Cached # {} => Newest \in Cached /\ \A j \in Cached : j <= Newest
         /\ Newest \in 0 .. Len(log)
<1>1. CASE Cached = {}
  BY <1>1, ListFacts DEF Newest
<1>2. CASE Cached # {}
  <2> DEFINE events == [i \in Cached |-> [date |-> i]]
  <2>1. Cached \subseteq 1 .. Len(log) /\ Len(log) \in Nat
    BY ListFacts
  <2>2. \A i \in Cached : events[i].date = i /\ events[i].date \in Int
    BY <2>1
  <2>3. \E i \in Cached : GoesFirst(events, i, Cached)
    <3> HIDE DEF events
    <3> QED
      BY <1>2, <2>1, <2>2, FirstExists
  <2>4. PICK i \in Cached : GoesFirst(events, i, Cached)
    BY <2>3
  <2>5. \A j \in Cached : j <= i
    <3> HIDE DEF events
    <3> QED
      BY <2>1, <2>2, <2>4 DEF GoesFirst
  <2>6. Newest \in Cached /\ \A j \in Cached : j <= Newest
    BY <1>2, <2>5, Zenon DEF Newest
  <2> QED
    BY <1>2, <2>1, <2>6
<1> QED
  BY <1>1, <1>2

\* The events of the stream have files and dates.
LEMMA LogTypes ==
  ASSUME TypeOK, NEW i \in DOMAIN log
  PROVE  log[i].date \in Int
<1>1. PICK S : S = [file : Files, date : Dates]
  OBVIOUS
<1>2. log \in Seq(S)
  BY <1>1 DEF TypeOK
<1>3. log[i] \in S
  BY <1>2
<1> QED
  BY <1>1, <1>3, DatesAssumption

\* Element k of a list of n events is what the list says of file f: the first
\* of the file's newest events.
IsLatest(list, n, f, k) ==
  /\ k \in 1 .. n
  /\ log[list[k]].file = f
  /\ LatestOf(list, f) = list[k]
  /\ \A l \in 1 .. n : log[list[l]].file = f =>
       \/ log[list[l]].date < log[list[k]].date
       \/ log[list[l]].date = log[list[k]].date /\ k <= l

\* A list with an event of the file has such an element.
LEMMA LatestIsFirst ==
  ASSUME TypeOK, NEW n \in Nat, NEW list, DOMAIN list = 1 .. n,
         \A k \in 1 .. n : list[k] \in DOMAIN log,
         NEW f, \E k \in 1 .. n : log[list[k]].file = f
  PROVE  \E k : IsLatest(list, n, f, k)
<1> DEFINE events == [k \in 1 .. n |-> [date |-> log[list[k]].date]]
           group == {k \in DOMAIN list : log[list[k]].file = f}
           IsFirst(k) == \A l \in group :
             \/ log[list[l]].date < log[list[k]].date
             \/ log[list[l]].date = log[list[k]].date /\ k <= l
<1>1. group \subseteq 1 .. n /\ group # {}
  OBVIOUS
<1>2. \A k \in group : events[k].date = log[list[k]].date /\ events[k].date \in Int
  BY <1>1, LogTypes
<1>3. \E k \in group : GoesFirst(events, k, group)
  <2> HIDE DEF events, group
  <2> QED
    BY <1>1, <1>2, FirstExists
<1>4. \E k \in group : IsFirst(k)
  <2>1. PICK k \in group : GoesFirst(events, k, group)
    BY <1>3
  <2>2. ASSUME NEW l \in group
        PROVE  \/ log[list[l]].date < log[list[k]].date
               \/ log[list[l]].date = log[list[k]].date /\ k <= l
    <3>1. events[l].date < events[k].date \/ (events[l].date = events[k].date /\ k <= l)
      BY <2>1, <2>2 DEF GoesFirst
    <3> HIDE DEF events, group
    <3> QED
      BY <1>2, <2>1, <2>2, <3>1
  <2>3. IsFirst(k)
    BY <2>2
  <2> QED
    BY <2>1, <2>3
<1>5. LatestOf(list, f) = list[CHOOSE k \in group : IsFirst(k)]
  BY <1>1 DEF LatestOf
<1>6. PICK c : c = CHOOSE k \in group : IsFirst(k)
  OBVIOUS
<1>7. c \in group /\ IsFirst(c)
  BY <1>4, <1>6, Zenon
<1> QED
  BY <1>1, <1>5, <1>6, <1>7 DEF IsLatest

\* In a list without a race, replays change no answer: the answer is that of
\* the beginning of the stream the list has reached.
LEMMA ListAnswers ==
  ASSUME TypeOK, ~raced, ListedInOrder, NEW f
  PROVE  LatestOf(CachedEvents, f) = LatestOf([i \in 1 .. Newest |-> i], f)
<1> DEFINE prefix == [i \in 1 .. Newest |-> i]
           inList == {k \in DOMAIN CachedEvents : log[CachedEvents[k]].file = f}
           inPrefix == {i \in DOMAIN prefix : log[prefix[i]].file = f}
           Dated(i) == log[i].date
<1>0. /\ Newest \in Nat /\ Newest <= Len(log) /\ Len(log) \in Nat /\ DOMAIN log = 1 .. Len(log)
      /\ count \in Nat /\ DOMAIN CachedEvents = 1 .. count
      /\ \A k \in 1 .. count : CachedEvents[k] = items[k]
      /\ DOMAIN prefix = 1 .. Newest /\ \A i \in 1 .. Newest : prefix[i] = i
  BY ListFacts, NewestFacts
<1>1. \A k \in 1 .. count : items[k] \in Cached
  BY ListFacts DEF ListedInOrder
<1>2. Cached \subseteq 1 .. Newest
  BY <1>0, NewestFacts, ListFacts
<1>3. \A i \in 1 .. Newest : \E l \in 1 .. count : items[l] = i
  <2> SUFFICES ASSUME NEW i \in 1 .. Newest
               PROVE  \E l \in 1 .. count : items[l] = i
    OBVIOUS
  <2>1. Newest \in Cached
    BY NewestFacts
  <2>2. PICK k \in 1 .. count : items[k] = Newest
    BY <2>1, ListFacts
  <2>3. CASE i = Newest
    BY <2>2, <2>3
  <2>4. CASE i # Newest
    <3>1. i \in 1 .. (items[k] - 1)
      BY <1>0, <2>2, <2>4
    <3>2. PICK l \in 1 .. (k - 1) : items[l] = i
      BY <2>2, <3>1 DEF ListedInOrder
    <3>3. l \in 1 .. count
      BY <1>0, <3>2
    <3> QED
      BY <3>2, <3>3
  <2> QED
    BY <2>3, <2>4
<1>4. /\ \A k : k \in inList <=> k \in 1 .. count /\ log[items[k]].file = f
      /\ \A i : i \in inPrefix <=> i \in 1 .. Newest /\ log[i].file = f
  BY <1>0
<1>5. /\ \A k \in inList : items[k] \in inPrefix
      /\ \A i \in inPrefix : \E l \in inList : items[l] = i
  BY <1>1, <1>2, <1>3, <1>4
<1>6. CASE inList = {}
  <2>1. inPrefix = {}
    BY <1>5, <1>6
  <2> QED
    BY <1>6, <2>1 DEF LatestOf
<1>7. CASE inList # {}
  <2>1. inPrefix # {}
    BY <1>5, <1>7
  <2>2. PICK k : IsLatest(CachedEvents, count, f, k)
    <3>1. \A j \in 1 .. count : CachedEvents[j] \in DOMAIN log
      BY <1>0, <1>1, ListFacts
    <3>2. \E j \in 1 .. count : log[CachedEvents[j]].file = f
      BY <1>0, <1>7
    <3> QED
      BY <1>0, <3>1, <3>2, LatestIsFirst
  <2>3. PICK i : IsLatest(prefix, Newest, f, i)
    <3>1. \A j \in 1 .. Newest : prefix[j] \in DOMAIN log
      BY <1>0
    <3>2. \E j \in 1 .. Newest : log[prefix[j]].file = f
      BY <1>0, <2>1
    <3> HIDE DEF prefix
    <3> QED
      BY <1>0, <3>1, <3>2, LatestIsFirst
  <2> HIDE DEF prefix, inList, inPrefix
  <2>4. /\ LatestOf(CachedEvents, f) = items[k] /\ items[k] \in inPrefix /\ k \in inList
        /\ \A l \in inList : Dated(items[l]) < Dated(items[k])
                             \/ (Dated(items[l]) = Dated(items[k]) /\ k <= l)
    BY <1>0, <1>4, <1>5, <2>2 DEF IsLatest
  <2>5. /\ LatestOf(prefix, f) = i /\ i \in inPrefix
        /\ \A j \in inPrefix : Dated(j) < Dated(i) \/ (Dated(j) = Dated(i) /\ i <= j)
    BY <1>0, <1>4, <2>3 DEF IsLatest
  <2>6. PICK l \in inList : items[l] = i
    BY <1>5, <2>5
  <2>7. \A j \in inPrefix : Dated(j) \in Int /\ j \in Int
    <3>1. \A j \in inPrefix : j \in DOMAIN log /\ j \in Int
      BY <1>0, <1>4
    <3> QED
      BY <3>1, LogTypes
  <2>8. Dated(items[k]) = Dated(i) /\ i <= items[k]
    <3>1. Dated(i) < Dated(items[k]) \/ Dated(i) = Dated(items[k])
      BY <2>4, <2>6
    <3>2. Dated(items[k]) < Dated(i) \/ (Dated(items[k]) = Dated(i) /\ i <= items[k])
      BY <2>4, <2>5
    <3>3. Dated(i) \in Int /\ Dated(items[k]) \in Int
      BY <2>4, <2>5, <2>7
    <3> HIDE DEF Dated
    <3> QED
      BY <3>1, <3>2, <3>3
  <2>9. ~(i < items[k])
    <3> SUFFICES ASSUME i < items[k] PROVE FALSE
      OBVIOUS
    <3>1. i \in 1 .. (items[k] - 1) /\ k \in 1 .. count
      BY <1>0, <1>4, <2>4, <2>5, <2>7
    <3>2. PICK m \in 1 .. (k - 1) : items[m] = i
      BY <3>1 DEF ListedInOrder
    <3>3. m \in inList /\ ~(k <= m)
      <4>1. m \in 1 .. count
        BY <1>0, <3>1, <3>2
      <4>2. log[items[m]].file = f
        BY <1>4, <2>5, <3>2
      <4> QED
        BY <1>4, <3>1, <3>2, <4>1, <4>2
    <3>4. Dated(items[m]) = Dated(items[k]) /\ Dated(items[k]) \in Int
      BY <2>4, <2>7, <2>8, <3>2
    <3> QED
      BY <2>4, <3>3, <3>4
  <2>10. items[k] = i
    <3>1. i \in Int /\ items[k] \in Int
      BY <2>4, <2>5, <2>7
    <3> QED
      BY <2>8, <2>9, <3>1
  <2>11. LatestOf(CachedEvents, f) = LatestOf(prefix, f)
    BY <2>4, <2>5, <2>10
  <2> QED
    BY <2>11 DEF prefix
<1> QED
  BY <1>6, <1>7

\* What a list of known events says does not change when the stream grows.
LEMMA LatestKept ==
  ASSUME NEW list, NEW f, \A k \in DOMAIN list : log'[list[k]] = log[list[k]]
  PROVE  LatestOf(list, f)' = LatestOf(list, f)
<1> DEFINE group == {k \in DOMAIN list : log[list[k]].file = f}
           groupNext == {k \in DOMAIN list : log'[list[k]].file = f}
           first == CHOOSE k \in group : \A l \in group :
             \/ log[list[l]].date < log[list[k]].date
             \/ log[list[l]].date = log[list[k]].date /\ k <= l
           firstNext == CHOOSE k \in groupNext : \A l \in groupNext :
             \/ log'[list[l]].date < log'[list[k]].date
             \/ log'[list[l]].date = log'[list[k]].date /\ k <= l
<1>1. groupNext = group
  OBVIOUS
<1>2. \A k \in group : log'[list[k]] = log[list[k]]
  OBVIOUS
<1>3. firstNext = first
  <2> HIDE DEF group, groupNext
  <2> QED
    BY <1>1, <1>2
<1>4. LatestOf(list, f) = IF group = {} THEN Null ELSE list[first]
  BY DEF LatestOf
<1>5. LatestOf(list, f)' = IF groupNext = {} THEN Null ELSE list[firstNext]
  BY DEF LatestOf
<1> HIDE DEF group, groupNext, first, firstNext
<1> QED
  BY <1>1, <1>3, <1>4, <1>5

\* What an answer is worth does not change when the stream grows.
LEMMA AnswerKept ==
  ASSUME TypeOK, NEW n \in 0 .. Len(log), \A i \in 1 .. Len(log) : log'[i] = log[i]
  PROVE  Answer(n)' = Answer(n)
<1>1. PICK prefix : prefix = [i \in 1 .. n |-> i]
  OBVIOUS
<1>2. \A k \in DOMAIN prefix : log'[prefix[k]] = log[prefix[k]]
  BY <1>1, ListFacts
<1>3. \A f \in Files : LatestOf(prefix, f)' = LatestOf(prefix, f)
  BY <1>2, LatestKept
<1>4. /\ Answer(n) = [f \in Files |-> LatestOf(prefix, f)]
      /\ Answer(n)' = [f \in Files |-> LatestOf(prefix, f)']
  BY <1>1 DEF Answer
<1> QED
  BY <1>3, <1>4
---------------------------------------------------------------------------
\* The steps of requests

\* What a request leaves alone stays true.
LEMMA Unmoved ==
  ASSUME IndInv, UNCHANGED <<log, cachedEvents, initialized, subs>>
  PROVE  /\ AddsFit' /\ AddsAlone' /\ NothingSkipped' /\ ListedInOrder' /\ ListIsFed'
         /\ Cached' = Cached
<1> USE DEF cachedEvents, subs
<1>1. AddsFit' /\ AddsAlone'
  BY DEF IndInv, AddsFit, AddsAlone, Adding
<1>2. Cached' = Cached
  BY DEF Cached, CachedEvents
<1>3. NothingSkipped'
  BY <1>2 DEF IndInv, NothingSkipped
<1>4. ListedInOrder' /\ ListIsFed'
  BY DEF IndInv, ListedInOrder, ListIsFed
<1> QED
  BY <1>1, <1>2, <1>3, <1>4

\* Answers given stay as good as they were while the stream does not shrink,
\* nothing is answered, and the process lives.
LEMMA AnswersKept ==
  ASSUME TypeOK, AnswersNeverGoBack, raced => raced', Len(log') \in Nat, Len(log') >= Len(log),
         \A i \in 1 .. Len(log) : log'[i] = log[i],
         \A q \in Requests : pc'[q] = "answered" =>
           pc[q] = "answered" /\ found'[q] = found[q] /\ floor'[q] = floor[q]
  PROVE  AnswersNeverGoBack'
<1> SUFFICES ASSUME ~raced', NEW q \in Requests, pc'[q] = "answered"
             PROVE  \E n \in floor'[q] .. Len(log') : found'[q] = Answer(n)'
  BY DEF AnswersNeverGoBack
<1>1. PICK n \in floor[q] .. Len(log) : found[q] = Answer(n)
  BY DEF AnswersNeverGoBack
<1>2. floor[q] \in Nat /\ Len(log) \in Nat
  BY ListFacts DEF TypeOK
<1>3. n \in 0 .. Len(log) /\ n \in floor[q] .. Len(log')
  BY <1>1, <1>2
<1>4. Answer(n)' = Answer(n)
  BY <1>3, AnswerKept
<1> QED
  BY <1>1, <1>3, <1>4

\* A request's first step: it looks at the flag.
LEMMA GetCachedOrFetchInv ==
  ASSUME IndInv, NEW q \in Requests, GetCachedOrFetch(q)
  PROVE  IndInv'
<1>0. UNCHANGED <<log, cachedEvents, initialized, subs>> /\ TypeOK
  BY DEF GetCachedOrFetch, IndInv
<1>1. TypeOK'
  BY <1>0 DEF GetCachedOrFetch, Goto, TypeOK, Finished, cachedEvents, subs
<1>2. Unsubscribed'
  BY <1>0 DEF IndInv, Unsubscribed, GetCachedOrFetch, Goto, TypeOK, subs
<1>3. ToldIsListed'
  BY <1>0, Unmoved DEF IndInv, ToldIsListed, GetCachedOrFetch, TypeOK, subs
<1>4. AnswersNeverGoBack'
  <2>1. \A p \in Requests : pc'[p] = "answered" =>
          pc[p] = "answered" /\ found'[p] = found[p] /\ floor'[p] = floor[p]
    BY <1>0 DEF GetCachedOrFetch, Goto, TypeOK
  <2> QED
    BY <1>0, <2>1, AnswersKept, ListFacts DEF IndInv, subs
<1> QED
  BY <1>0, <1>1, <1>2, <1>3, <1>4, Unmoved DEF IndInv

\* A request's subscription starts from the beginning of the stream.
LEMMA SubscribeInv ==
  ASSUME IndInv, NEW q \in Requests, Subscribe(q)
  PROVE  IndInv'
<1>0. TypeOK /\ log' = log /\ UNCHANGED cachedEvents /\ raced' = raced /\ at' = at /\ size' = size
  BY DEF Subscribe, IndInv
<1>1. TypeOK'
  BY <1>0 DEF Subscribe, Goto, TypeOK, Finished, cachedEvents
<1>2. Unsubscribed'
  BY <1>0 DEF IndInv, Unsubscribed, Subscribe, Goto, TypeOK
<1>3. Adding' = Adding /\ at[q] = 0 /\ Cached' = Cached
  <2>1. phase[q] = "none" /\ at[q] = 0
    BY DEF IndInv, Unsubscribed, Subscribe, Goto
  <2> QED
    BY <1>0, <2>1 DEF Subscribe, TypeOK, Adding, Cached, CachedEvents, cachedEvents
<1>4. AddsFit' /\ AddsAlone'
  BY <1>0, <1>3 DEF IndInv, AddsFit, AddsAlone, Subscribe, TypeOK, Adding, cachedEvents
<1>5. NothingSkipped'
  <2>1. \A p \in Requests : phase'[p] # "none" => p = q \/ phase[p] # "none"
    BY <1>0 DEF Subscribe, TypeOK
  <2>2. 1 .. at[q] = {}
    BY <1>3
  <2> QED
    BY <1>0, <1>3, <2>1, <2>2 DEF IndInv, NothingSkipped
<1>6. ListedInOrder' /\ ToldIsListed'
  BY <1>0, <1>3 DEF IndInv, ListedInOrder, ToldIsListed, Subscribe, cachedEvents
<1>7. ListIsFed'
  BY <1>0 DEF IndInv, ListIsFed, Subscribe, TypeOK
<1>8. AnswersNeverGoBack'
  <2>1. \A p \in Requests : pc'[p] = "answered" =>
          pc[p] = "answered" /\ found'[p] = found[p] /\ floor'[p] = floor[p]
    BY <1>0 DEF Subscribe, Goto, TypeOK
  <2> QED
    BY <1>0, <2>1, AnswersKept, ListFacts DEF IndInv
<1> QED
  BY <1>1, <1>2, <1>4, <1>5, <1>6, <1>7, <1>8 DEF IndInv

\* A request that fails, at its subscription or at the list.
LEMMA RequestFailsInv ==
  ASSUME IndInv, NEW q \in Requests, SubscribeThrows(q) \/ GetAllSourceFilesThrows(q)
  PROVE  IndInv'
<1>0. UNCHANGED <<log, cachedEvents, initialized, subs>> /\ TypeOK
  BY DEF SubscribeThrows, GetAllSourceFilesThrows, IndInv
<1>1. TypeOK'
  BY <1>0 DEF SubscribeThrows, GetAllSourceFilesThrows, Goto, TypeOK, Finished, cachedEvents, subs
<1>2. Unsubscribed'
  BY <1>0 DEF IndInv, Unsubscribed, SubscribeThrows, GetAllSourceFilesThrows, Goto, TypeOK, subs
<1>3. ToldIsListed'
  BY <1>0, Unmoved DEF IndInv, ToldIsListed, SubscribeThrows, GetAllSourceFilesThrows, subs
<1>4. AnswersNeverGoBack'
  <2>1. \A p \in Requests : pc'[p] = "answered" =>
          pc[p] = "answered" /\ found'[p] = found[p] /\ floor'[p] = floor[p]
    BY <1>0 DEF SubscribeThrows, GetAllSourceFilesThrows, Goto, TypeOK
  <2> QED
    BY <1>0, <2>1, AnswersKept, ListFacts DEF IndInv, subs
<1> QED
  BY <1>0, <1>1, <1>2, <1>3, <1>4, Unmoved DEF IndInv

\* A request that is answered: the list has all the answers before it were
\* based on.
LEMMA GetAllSourceFilesInv ==
  ASSUME IndInv, NEW q \in Requests, GetAllSourceFiles(q)
  PROVE  IndInv'
<1>0. /\ UNCHANGED <<log, cachedEvents, initialized, subs>> /\ TypeOK /\ floor' = floor
      /\ pc' = [pc EXCEPT ![q] = "answered"] /\ pc[q] = "reading"
      /\ raced => found' = found /\ told' = told
      /\ ~raced => /\ found' = [found EXCEPT ![q] = [f \in Files |-> LatestOf(CachedEvents, f)]]
                   /\ told' = IF Newest > told THEN Newest ELSE told
  BY DEF GetAllSourceFiles, Goto, IndInv
<1>a. /\ Newest \in Nat /\ Newest <= Len(log) /\ Len(log) \in Nat /\ told \in Nat /\ told <= Len(log)
      /\ DOMAIN log = 1 .. Len(log)
  BY <1>0, NewestFacts, ListFacts DEF TypeOK
<1>b. [f \in Files |-> LatestOf(CachedEvents, f)] \in [Files -> DOMAIN log \cup {Null}]
  <2> SUFFICES ASSUME NEW f \in Files
               PROVE  LatestOf(CachedEvents, f) \in DOMAIN log \cup {Null}
    OBVIOUS
  <2>1. /\ DOMAIN CachedEvents = 1 .. count /\ count \in Nat
        /\ \A k \in 1 .. count : CachedEvents[k] = items[k] /\ k \in Slots
    BY <1>0, ListFacts
  <2>2. \A k \in 1 .. count : items[k] \in DOMAIN log
    <3>1. Null \notin {items[k] : k \in 1 .. count}
      BY DEF GetAllSourceFiles
    <3> QED
      BY <1>0, <2>1, <3>1 DEF TypeOK
  <2>3. CASE \E k \in 1 .. count : log[CachedEvents[k]].file = f
    <3>1. \E k : IsLatest(CachedEvents, count, f, k)
      BY <1>0, <2>1, <2>2, <2>3, LatestIsFirst
    <3> QED
      BY <2>1, <2>2, <3>1 DEF IsLatest
  <2>4. CASE ~\E k \in 1 .. count : log[CachedEvents[k]].file = f
    <3>1. {k \in DOMAIN CachedEvents : log[CachedEvents[k]].file = f} = {}
      BY <2>1, <2>4
    <3> QED
      BY <3>1 DEF LatestOf
  <2> QED
    BY <2>3, <2>4
<1>1. TypeOK'
  <2>1. told' \in 0 .. Len(log)
    BY <1>0, <1>a
  <2>2. found' \in [Requests -> [Files -> DOMAIN log \cup {Null}]]
    BY <1>0, <1>b DEF TypeOK
  <2> QED
    BY <1>0, <2>1, <2>2 DEF TypeOK, Finished, cachedEvents, subs
<1>2. Unsubscribed'
  BY <1>0 DEF IndInv, Unsubscribed, TypeOK, subs
<1>3. ToldIsListed'
  <2>1. ~raced => told' = 0 \/ told' \in Cached
    BY <1>0, <1>a, NewestFacts DEF IndInv, ToldIsListed
  <2>2. \A p \in Requests : floor'[p] <= told'
    <3>1. \A p \in Requests : floor[p] \in Nat /\ floor[p] <= told
      BY <1>0 DEF IndInv, ToldIsListed, TypeOK
    <3> QED
      BY <1>0, <1>a, <3>1
  <2> QED
    BY <1>0, <2>1, <2>2, Unmoved DEF ToldIsListed, subs
<1>4. AnswersNeverGoBack'
  <2> SUFFICES ASSUME ~raced, NEW p \in Requests, pc'[p] = "answered"
               PROVE  \E n \in floor'[p] .. Len(log') : found'[p] = Answer(n)'
    BY <1>0 DEF AnswersNeverGoBack, subs
  <2>0. \A n \in 0 .. Len(log) : Answer(n)' = Answer(n)
    BY <1>0, AnswerKept
  <2>1. CASE p = q
    <3>1. found'[p] = [f \in Files |-> LatestOf(CachedEvents, f)]
      BY <1>0, <2>1 DEF TypeOK
    <3>2. found'[p] = Answer(Newest)
      <4>1. \A f \in Files : LatestOf(CachedEvents, f) = LatestOf([i \in 1 .. Newest |-> i], f)
        BY <1>0, ListAnswers DEF IndInv
      <4> QED
        BY <3>1, <4>1 DEF Answer
    <3>3. told <= Newest
      BY <1>a, NewestFacts DEF IndInv, ToldIsListed
    <3>4. floor[p] \in Nat /\ floor[p] <= told
      BY <1>0 DEF IndInv, ToldIsListed, TypeOK
    <3>5. Newest \in floor'[p] .. Len(log') /\ Newest \in 0 .. Len(log)
      BY <1>0, <1>a, <3>3, <3>4
    <3> QED
      BY <2>0, <3>2, <3>5
  <2>2. CASE p # q
    <3>1. pc[p] = "answered" /\ found'[p] = found[p]
      BY <1>0, <2>2 DEF TypeOK
    <3>2. PICK n \in floor[p] .. Len(log) : found[p] = Answer(n)
      BY <3>1 DEF IndInv, AnswersNeverGoBack
    <3>3. n \in 0 .. Len(log)
      BY <1>0, <1>a, <3>2 DEF TypeOK
    <3> QED
      BY <1>0, <2>0, <3>1, <3>2, <3>3
  <2> QED
    BY <2>1, <2>2
<1> QED
  BY <1>0, <1>1, <1>2, <1>3, <1>4, Unmoved DEF IndInv

---------------------------------------------------------------------------
\* The steps of the stream and of the subscriptions

\* The stream grows at its end only.
LEMMA LogGrows ==
  ASSUME TypeOK, NEW f \in Files, NEW d \in Dates, AppendEvent(f, d)
  PROVE  /\ log' \in Seq([file : Files, date : Dates])
         /\ Len(log') = Len(log) + 1 /\ Len(log) \in Nat
         /\ DOMAIN log = 1 .. Len(log) /\ DOMAIN log' = 1 .. Len(log')
         /\ \A i \in 1 .. Len(log) : log'[i] = log[i]
<1>1. PICK S : S = [file : Files, date : Dates]
  OBVIOUS
<1>2. log \in Seq(S) /\ [file |-> f, date |-> d] \in S
  BY <1>1 DEF TypeOK
<1>3. PICK e : e \in S /\ log' = Append(log, e)
  BY <1>2 DEF AppendEvent
<1> QED
  BY <1>1, <1>2, <1>3

\* EventStore appends an event: what is known of the stream stays as it was.
LEMMA AppendEventInv ==
  ASSUME IndInv, NEW f \in Files, NEW d \in Dates, AppendEvent(f, d)
  PROVE  IndInv'
<1>0. TypeOK /\ UNCHANGED <<cachedEvents, initialized, subs, calls>>
  BY DEF AppendEvent, IndInv
<1>a. /\ log' \in Seq([file : Files, date : Dates])
      /\ Len(log') = Len(log) + 1 /\ Len(log) \in Nat
      /\ DOMAIN log = 1 .. Len(log) /\ DOMAIN log' = 1 .. Len(log')
      /\ \A i \in 1 .. Len(log) : log'[i] = log[i]
  BY <1>0, LogGrows
<1>b. DOMAIN log \subseteq DOMAIN log' /\ 0 .. Len(log) \subseteq 0 .. Len(log')
  BY <1>a
<1>1. TypeOK'
  BY <1>0, <1>a, <1>b DEF TypeOK, cachedEvents, subs, calls
<1>2. Unsubscribed' /\ AddsAlone' /\ ListIsFed'
  BY <1>0 DEF IndInv, Unsubscribed, AddsAlone, ListIsFed, Adding, cachedEvents, subs, calls
<1>3. AddsFit'
  <2>1. \A q \in Adding : size[q] < MaxAdds /\ at[q] < Len(log) /\ at[q] \in Nat
    BY <1>0 DEF IndInv, AddsFit, Adding, TypeOK
  <2> QED
    BY <1>0, <1>a, <2>1 DEF AddsFit, Adding, subs
<1>4. Cached' = Cached
  BY <1>0 DEF Cached, CachedEvents, cachedEvents
<1>5. NothingSkipped' /\ ListedInOrder' /\ ToldIsListed'
  BY <1>0, <1>4 DEF IndInv, NothingSkipped, ListedInOrder, ToldIsListed, cachedEvents, subs, calls
<1>6. AnswersNeverGoBack'
  <2>1. raced => raced'
    BY <1>0 DEF subs
  <2>2. \A q \in Requests : pc'[q] = "answered" =>
          pc[q] = "answered" /\ found'[q] = found[q] /\ floor'[q] = floor[q]
    BY <1>0 DEF calls
  <2>3. Len(log') \in Nat /\ Len(log') >= Len(log)
    BY <1>a
  <2> QED
    BY <1>0, <1>a, <2>1, <2>2, <2>3, AnswersKept DEF IndInv
<1> QED
  BY <1>1, <1>2, <1>3, <1>5, <1>6 DEF IndInv

\* A subscription begins to Add an event.
LEMMA HandleNewEventInv ==
  ASSUME IndInv, NEW q \in Requests, HandleNewEvent(q)
  PROVE  IndInv'
<1>0. /\ TypeOK /\ log' = log /\ UNCHANGED <<cachedEvents, initialized, at, calls>>
      /\ phase[q] = "idle" /\ at[q] < Len(log)
      /\ phase' = IF Adding = {} THEN [phase EXCEPT ![q] = "adding"]
                  ELSE [p \in Requests |-> IF p \in Adding \cup {q} THEN "racing" ELSE phase[p]]
      /\ size' = [size EXCEPT ![q] = count]
      /\ raced' = (raced \/ Adding # {})
  BY DEF HandleNewEvent, IndInv
<1>a. count \in Nat /\ count < MaxAdds /\ MaxAdds \in Nat
  <2>1. Cardinality(Adding) \in Nat /\ count \in Nat /\ MaxAdds \in Nat
    BY <1>0, AddingCount, ListFacts, MaxAddsAssumption
  <2>2. count + Cardinality(Adding) < MaxAdds
    BY DEF HandleNewEvent
  <2> QED
    BY <2>1, <2>2
<1>b. /\ phase' \in [Requests -> {"none", "idle", "adding", "racing", "dropped"}]
      /\ \A p \in Requests : phase'[p] = "none" <=> phase[p] = "none"
      /\ Adding' = Adding \cup {q}
  <2>1. phase \in [Requests -> {"none", "idle", "adding", "racing", "dropped"}]
    BY <1>0 DEF TypeOK
  <2>2. CASE Adding = {}
    BY <1>0, <2>1, <2>2 DEF Adding
  <2>3. CASE Adding # {}
    BY <1>0, <2>1, <2>3 DEF Adding
  <2> QED
    BY <2>2, <2>3
<1>1. TypeOK'
  <2>1. size' \in [Requests -> 0 .. MaxAdds] /\ raced' \in BOOLEAN
    BY <1>0, <1>a DEF TypeOK
  <2> QED
    BY <1>0, <1>b, <2>1 DEF TypeOK, cachedEvents, calls
<1>2. Unsubscribed' /\ ListIsFed'
  BY <1>0, <1>b DEF IndInv, Unsubscribed, ListIsFed, calls
<1>3. AddsFit'
  BY <1>0, <1>a, <1>b DEF IndInv, AddsFit, TypeOK
<1>4. AddsAlone'
  <2> SUFFICES ASSUME ~raced'
               PROVE  /\ Adding' = {q} /\ phase'[q] = "adding" /\ size'[q] = count'
    BY DEF AddsAlone
  <2>1. ~raced /\ Adding = {}
    BY <1>0 DEF TypeOK
  <2> QED
    BY <1>0, <1>b, <2>1 DEF TypeOK, cachedEvents
<1>5. Cached' = Cached /\ (raced => raced')
  BY <1>0 DEF Cached, CachedEvents, cachedEvents
<1>6. NothingSkipped' /\ ListedInOrder' /\ ToldIsListed'
  BY <1>0, <1>b, <1>5 DEF IndInv, NothingSkipped, ListedInOrder, ToldIsListed, cachedEvents, calls
<1>7. AnswersNeverGoBack'
  BY <1>0, <1>5, AnswersKept, ListFacts DEF IndInv, calls
<1> QED
  BY <1>1, <1>2, <1>3, <1>4, <1>6, <1>7 DEF IndInv

\* A subscription ends, or starts the stream from its beginning again.
LEMMA ReconnectInv ==
  ASSUME IndInv, NEW q \in Requests, Drop(q) \/ Resubscribe(q)
  PROVE  IndInv'
<1>0. /\ TypeOK /\ log' = log /\ UNCHANGED <<cachedEvents, initialized, size, raced, calls>>
      /\ phase[q] \in {"idle", "dropped"} /\ \E s \in {"idle", "dropped"} : phase' = [phase EXCEPT ![q] = s]
      /\ at' = at \/ at' = [at EXCEPT ![q] = 0]
  BY DEF Drop, Resubscribe, IndInv
<1>a. Len(log) \in Nat /\ Cached' = Cached
  BY <1>0, ListFacts DEF Cached, CachedEvents, cachedEvents
<1>b. /\ phase' \in [Requests -> {"none", "idle", "adding", "racing", "dropped"}]
      /\ \A p \in Requests : phase'[p] = "none" <=> phase[p] = "none"
      /\ Adding' = Adding /\ q \notin Adding
      /\ \A p \in Adding : p # q /\ phase'[p] = phase[p] /\ at'[p] = at[p]
  BY <1>0 DEF TypeOK, Adding
<1>c. /\ at' \in [Requests -> 0 .. Len(log)]
      /\ \A p \in Requests : at'[p] = at[p] \/ at'[p] = 0
  BY <1>0, <1>a DEF TypeOK
<1>1. TypeOK'
  BY <1>0, <1>b, <1>c DEF TypeOK, cachedEvents, calls
<1>2. Unsubscribed' /\ ListIsFed'
  BY <1>0, <1>b, <1>c DEF IndInv, Unsubscribed, ListIsFed, calls
<1>3. AddsFit' /\ AddsAlone'
  BY <1>0, <1>b DEF IndInv, AddsFit, AddsAlone, cachedEvents
<1>4. NothingSkipped'
  <2>1. 1 .. 0 = {}
    OBVIOUS
  <2> QED
    BY <1>0, <1>a, <1>b, <1>c, <2>1 DEF IndInv, NothingSkipped
<1>5. ListedInOrder' /\ ToldIsListed'
  BY <1>0, <1>a DEF IndInv, ListedInOrder, ToldIsListed, cachedEvents, calls
<1>6. AnswersNeverGoBack'
  BY <1>0, <1>a, AnswersKept DEF IndInv, calls
<1> QED
  BY <1>1, <1>2, <1>3, <1>4, <1>5, <1>6 DEF IndInv

\* The process starts again with an empty list and no subscription.
LEMMA RestartInv ==
  ASSUME IndInv, Restart
  PROVE  IndInv'
<1>0. TypeOK /\ Len(log) \in Nat /\ MaxAdds \in Nat
  BY ListFacts, MaxAddsAssumption DEF IndInv
<1>1. TypeOK'
  <2>1. NoFiles \in [Files -> DOMAIN log \cup {Null}]
    BY DEF NoFiles
  <2>2. found' \in [Requests -> [Files -> DOMAIN log \cup {Null}]]
    BY <2>1 DEF Restart
  <2>3. /\ items' \in [Slots -> DOMAIN log \cup {Null}] /\ count' \in 0 .. MaxAdds
        /\ settled' \in 0 .. MaxAdds
        /\ at' \in [Requests -> 0 .. Len(log)] /\ size' \in [Requests -> 0 .. MaxAdds]
        /\ told' \in 0 .. Len(log) /\ floor' \in [Requests -> 0 .. Len(log)]
    BY <1>0 DEF Restart
  <2>4. /\ phase' \in [Requests -> {"none", "idle", "adding", "racing", "dropped"}]
        /\ pc' \in [Requests -> Finished \cup {"idle", "subscribing", "reading"}]
        /\ initialized' \in BOOLEAN /\ raced' \in BOOLEAN /\ log' = log
    BY DEF Restart, Finished
  <2> QED
    BY <1>0, <2>2, <2>3, <2>4 DEF TypeOK
<1>2. Adding' = {}
  BY DEF Restart, Adding
<1>3. Unsubscribed' /\ AddsFit' /\ AddsAlone' /\ ListIsFed' /\ NothingSkipped'
  BY <1>2 DEF Restart, Unsubscribed, AddsFit, AddsAlone, ListIsFed, NothingSkipped
<1>4. ListedInOrder' /\ ToldIsListed'
  BY DEF Restart, ListedInOrder, ToldIsListed
<1>5. AnswersNeverGoBack'
  BY DEF Restart, AnswersNeverGoBack
<1> QED
  BY <1>1, <1>3, <1>4, <1>5 DEF IndInv

\* Without a race, Add puts the next event of its subscription behind the
\* elements of the list.
LEMMA AddAppends ==
  ASSUME IndInv, NEW q \in Requests, Add(q), ~raced
  PROVE  /\ count' = count + 1 /\ count \in Nat /\ at[q] \in Nat
         /\ items'[count + 1] = at[q] + 1
         /\ \A k \in 1 .. count : items'[k] = items[k]
         /\ Cached' = Cached \cup {at[q] + 1}
<1>0. TypeOK /\ q \in Adding
  BY DEF Add, IndInv
<1>1. phase[q] = "adding" /\ size[q] = count /\ size[q] < MaxAdds /\ at[q] < Len(log)
  BY <1>0 DEF IndInv, AddsAlone, AddsFit
<1>2. items' = [items EXCEPT ![count + 1] = at[q] + 1] /\ count' = count + 1
  BY <1>1 DEF Add
<1>3. count \in Nat /\ at[q] \in Nat /\ MaxAdds \in Nat
  BY <1>0, MaxAddsAssumption, ListFacts DEF TypeOK
<1>4. count + 1 \in Slots /\ DOMAIN items = Slots /\ 1 .. count \subseteq Slots
  BY <1>0, <1>1, <1>3 DEF TypeOK, Slots
<1>5. items'[count + 1] = at[q] + 1 /\ \A k \in 1 .. count : items'[k] = items[k]
  BY <1>2, <1>3, <1>4
<1>6. Cached' = Cached \cup {at[q] + 1}
  <2>1. Cached = {items[k] : k \in 1 .. count} \ {Null}
    BY <1>0, ListFacts
  <2>2. items' \in [Slots -> Nat] /\ Len(items') = MaxAdds
    <3>a. PICK S : S = DOMAIN log \cup {Null}
      OBVIOUS
    <3>b. items \in [Slots -> S] /\ \A i \in S : i \in Nat
      BY <1>0, <3>a, ListFacts DEF TypeOK, Null
    <3>c. \A k \in Slots : items[k] \in Nat
      BY <3>b
    <3>1. items \in [Slots -> Nat]
      BY <3>b, <3>c
    <3>2. items' \in [Slots -> Nat]
      <4>1. at[q] + 1 \in Nat
        BY <1>3
      <4> QED
        BY <1>2, <3>1, <4>1
    <3> QED
      BY <1>3, <3>2 DEF Slots
  <2>3. items' \in Seq(Nat)
    BY <1>3, <2>2 DEF Slots
  <2>4. \A k \in 1 .. count' : CachedEvents'[k] = items'[k]
    BY <1>1, <1>2, <1>3, <2>2, <2>3 DEF CachedEvents
  <2>5. Cached' = {items'[k] : k \in 1 .. (count + 1)} \ {Null}
    BY <1>2, <2>4 DEF Cached
  <2>6. {items'[k] : k \in 1 .. (count + 1)} = {items[k] : k \in 1 .. count} \cup {at[q] + 1}
    <3>1. 1 .. (count + 1) = 1 .. count \cup {count + 1}
      BY <1>3
    <3> QED
      BY <1>5, <3>1
  <2>7. at[q] + 1 # Null
    BY <1>3 DEF Null
  <2>8. PICK A, B : A = {items'[k] : k \in 1 .. (count + 1)} /\ B = {items[k] : k \in 1 .. count}
    OBVIOUS
  <2>9. Cached = B \ {Null} /\ Cached' = A \ {Null} /\ A = B \cup {at[q] + 1}
    BY <2>1, <2>5, <2>6, <2>8
  <2> QED
    BY <2>7, <2>9, Zenon
<1> QED
  BY <1>2, <1>3, <1>5, <1>6

\* An Add ends.
LEMMA AddInv ==
  ASSUME IndInv, NEW q \in Requests, Add(q)
  PROVE  IndInv'
<1>0. /\ TypeOK /\ log' = log /\ raced' = raced /\ UNCHANGED calls /\ q \in Adding
      /\ count' = size[q] + 1 /\ initialized' = TRUE
      /\ settled' = IF Adding = {q} THEN count' ELSE settled
      /\ size' = [size EXCEPT ![q] = 0] /\ at' = [at EXCEPT ![q] = at[q] + 1]
      /\ phase' = [phase EXCEPT ![q] = "idle"]
      /\ items' = [items EXCEPT ![size[q] + 1] = at[q] + 1] \/ items' = items
  BY DEF Add, IndInv
<1>a. /\ size[q] \in Nat /\ size[q] < MaxAdds /\ at[q] \in Nat /\ at[q] < Len(log)
      /\ MaxAdds \in Nat /\ Len(log) \in Nat /\ DOMAIN log = 1 .. Len(log)
  BY <1>0, ListFacts, MaxAddsAssumption DEF IndInv, AddsFit, TypeOK
<1>b. /\ phase' \in [Requests -> {"none", "idle", "adding", "racing", "dropped"}]
      /\ phase[q] # "none"
      /\ \A p \in Requests : phase'[p] = "none" <=> phase[p] = "none"
      /\ Adding' = Adding \ {q}
  BY <1>0 DEF TypeOK, Adding
<1>1. TypeOK'
  <2>1. items' \in [Slots -> DOMAIN log \cup {Null}]
    <3>1. PICK S : S = DOMAIN log \cup {Null}
      OBVIOUS
    <3>2. items \in [Slots -> S] /\ at[q] + 1 \in S
      BY <1>0, <1>a, <3>1 DEF TypeOK
    <3>3. items' \in [Slots -> S]
      BY <1>0, <3>2
    <3> QED
      BY <3>1, <3>3
  <2>2. /\ count' \in 0 .. MaxAdds /\ size' \in [Requests -> 0 .. MaxAdds]
        /\ settled' \in 0 .. MaxAdds /\ at' \in [Requests -> 0 .. Len(log)]
    BY <1>0, <1>a DEF TypeOK
  <2> QED
    BY <1>0, <1>b, <2>1, <2>2 DEF TypeOK, calls
<1>2. Unsubscribed' /\ ListIsFed'
  BY <1>0, <1>b DEF IndInv, Unsubscribed, ListIsFed, TypeOK, calls
<1>3. AddsFit'
  BY <1>0, <1>b DEF IndInv, AddsFit, TypeOK
<1>4. AddsAlone'
  BY <1>0, <1>b DEF IndInv, AddsAlone
<1>5. NothingSkipped'
  <2> SUFFICES ASSUME ~raced, NEW p \in Requests, phase'[p] # "none"
               PROVE  1 .. at'[p] \subseteq Cached'
    BY <1>0 DEF NothingSkipped
  <2>1. 1 .. at[p] \subseteq Cached /\ Cached' = Cached \cup {at[q] + 1}
    BY <1>b, AddAppends DEF IndInv, NothingSkipped
  <2>2. CASE p = q
    <3>1. at'[p] = at[q] + 1
      BY <1>0, <2>2 DEF TypeOK
    <3>2. 1 .. (at[q] + 1) = 1 .. at[q] \cup {at[q] + 1}
      BY <1>a
    <3> QED
      BY <2>1, <2>2, <3>1, <3>2
  <2>3. CASE p # q
    BY <1>0, <2>1, <2>3 DEF TypeOK
  <2> QED
    BY <2>2, <2>3
<1>6. ListedInOrder'
  <2> SUFFICES ASSUME ~raced, NEW k \in 1 .. count'
               PROVE  /\ items'[k] # Null
                      /\ \A i \in 1 .. (items'[k] - 1) : \E l \in 1 .. (k - 1) : items'[l] = i
    BY <1>0 DEF ListedInOrder
  <2>1. /\ count' = count + 1 /\ count \in Nat /\ items'[count + 1] = at[q] + 1
        /\ \A l \in 1 .. count : items'[l] = items[l]
    BY AddAppends
  <2>2. CASE k \in 1 .. count
    <3>1. /\ items[k] # Null
          /\ \A i \in 1 .. (items[k] - 1) : \E l \in 1 .. (k - 1) : items[l] = i
      BY <2>2 DEF IndInv, ListedInOrder
    <3>2. 1 .. (k - 1) \subseteq 1 .. count
      BY <2>1, <2>2
    <3> QED
      BY <2>1, <2>2, <3>1, <3>2
  <2>3. CASE k = count + 1
    <3>1. items'[k] = at[q] + 1 /\ items'[k] # Null
      BY <1>a, <2>1, <2>3 DEF Null
    <3>2. (at[q] + 1) - 1 = at[q] /\ (count + 1) - 1 = count
      BY <1>a, <2>1
    <3>3. \A i \in 1 .. at[q] : \E l \in 1 .. count : items[l] = i
      <4>1. 1 .. at[q] \subseteq Cached
        BY <1>b DEF IndInv, NothingSkipped
      <4> QED
        BY <1>0, <4>1, ListFacts
    <3> QED
      BY <2>1, <2>3, <3>1, <3>2, <3>3
  <2> QED
    BY <2>1, <2>2, <2>3
<1>7. ToldIsListed'
  <2>1. ~raced => Cached \subseteq Cached'
    BY AddAppends
  <2> QED
    BY <1>0, <2>1 DEF IndInv, ToldIsListed, calls
<1>8. AnswersNeverGoBack'
  BY <1>0, <1>a, AnswersKept DEF IndInv, calls
<1> QED
  BY <1>1, <1>2, <1>3, <1>4, <1>5, <1>6, <1>7, <1>8 DEF IndInv

---------------------------------------------------------------------------
\* The invariant

\* The invariant holds when the process starts with an empty stream.
LEMMA InitInv == Init => IndInv
<1> SUFFICES ASSUME Init PROVE IndInv
  OBVIOUS
<1>0. Len(log) = 0 /\ MaxAdds \in Nat /\ log \in Seq([file : Files, date : Dates])
  BY MaxAddsAssumption DEF Init
<1>1. TypeOK
  <2>1. NoFiles \in [Files -> DOMAIN log \cup {Null}]
    BY DEF NoFiles
  <2>2. found \in [Requests -> [Files -> DOMAIN log \cup {Null}]]
    BY <2>1 DEF Init
  <2>3. /\ items \in [Slots -> DOMAIN log \cup {Null}] /\ count \in 0 .. MaxAdds
        /\ settled \in 0 .. MaxAdds
        /\ at \in [Requests -> 0 .. Len(log)] /\ size \in [Requests -> 0 .. MaxAdds]
        /\ told \in 0 .. Len(log) /\ floor \in [Requests -> 0 .. Len(log)]
    BY <1>0 DEF Init
  <2>4. /\ phase \in [Requests -> {"none", "idle", "adding", "racing", "dropped"}]
        /\ pc \in [Requests -> Finished \cup {"idle", "subscribing", "reading"}]
        /\ initialized \in BOOLEAN /\ raced \in BOOLEAN
    BY DEF Init
  <2> QED
    BY <1>0, <2>2, <2>3, <2>4 DEF TypeOK
<1>2. Adding = {}
  BY DEF Init, Adding
<1>3. Unsubscribed /\ AddsFit /\ AddsAlone /\ ListIsFed /\ NothingSkipped
  BY <1>2 DEF Init, Unsubscribed, AddsFit, AddsAlone, ListIsFed, NothingSkipped
<1>4. ListedInOrder /\ ToldIsListed
  BY DEF Init, ListedInOrder, ToldIsListed
<1>5. AnswersNeverGoBack
  BY DEF Init, AnswersNeverGoBack
<1> QED
  BY <1>1, <1>3, <1>4, <1>5 DEF IndInv

\* Every step, and every step of the rest of the world, keeps it.
LEMMA NextInv == IndInv /\ [Next]_vars => IndInv'
<1> SUFFICES ASSUME IndInv, [Next]_vars PROVE IndInv'
  OBVIOUS
<1>1. CASE \E f \in Files, d \in Dates : AppendEvent(f, d)
  BY <1>1, AppendEventInv
<1>2. ASSUME NEW q \in Requests, Call(q) PROVE IndInv'
  BY <1>2, GetCachedOrFetchInv, SubscribeInv, RequestFailsInv, GetAllSourceFilesInv DEF Call
<1>3. ASSUME NEW q \in Requests, Subscription(q) PROVE IndInv'
  BY <1>3, HandleNewEventInv, AddInv, ReconnectInv, RestartInv DEF Subscription, ResubscribeThrows
<1>4. CASE Crash
  BY <1>4, RestartInv DEF Crash
<1>5. CASE UNCHANGED vars
  <2>0. UNCHANGED <<log, cachedEvents, initialized, subs>> /\ UNCHANGED calls /\ TypeOK
    BY <1>5 DEF vars, cachedEvents, subs, calls, IndInv
  <2>1. TypeOK' /\ Unsubscribed' /\ ToldIsListed'
    BY <2>0, Unmoved
       DEF IndInv, TypeOK, Unsubscribed, ToldIsListed, cachedEvents, subs, calls
  <2>2. AnswersNeverGoBack'
    BY <2>0, AnswersKept, ListFacts DEF IndInv, subs, calls
  <2> QED
    BY <2>0, <2>1, <2>2, Unmoved DEF IndInv
<1> QED
  BY <1>1, <1>2, <1>3, <1>4, <1>5 DEF Next

\* The inductive invariant is an invariant.
THEOREM Invariance == Spec => []IndInv
BY InitInv, NextInv, PTL DEF Spec

\* The list, the subscriptions and the answers stay within their types: no Add
\* takes a slot the list does not have, and no answer names an unknown event.
THEOREM TypeCorrect == Spec => []TypeOK
<1>1. IndInv => TypeOK
  BY DEF IndInv
<1> QED
  BY <1>1, Invariance, PTL

\* As long as no two Adds overlap, every answer is that of a beginning of the
\* stream at least as long as what answers before the request were based on.
THEOREM AnswersAdvance == Spec => []AnswersNeverGoBack
<1>1. IndInv => AnswersNeverGoBack
  BY DEF IndInv
<1> QED
  BY <1>1, Invariance, PTL

\* As long as no two Adds overlap, every event a subscription handled is listed.
THEOREM HandledIsListed == Spec => []NothingSkipped
<1>1. IndInv => NothingSkipped
  BY DEF IndInv
<1> QED
  BY <1>1, Invariance, PTL

\* The flag that says the list is fed is never set without a subscription.
THEOREM FlagIsHonest == Spec => []ListIsFed
<1>1. IndInv => ListIsFed
  BY DEF IndInv
<1> QED
  BY <1>1, Invariance, PTL
---------------------------------------------------------------------------
\* Adds that overlap

\* An Add touches no slot that was settled before it began.
LEMMA AddSettles ==
  ASSUME IndInv, SettledBelow, NEW q \in Requests, Add(q)
  PROVE  /\ SettledBelow'
         /\ settled <= count' /\ \A k \in 1 .. settled : items'[k] = items[k]
<1>0. /\ TypeOK /\ q \in Adding /\ count' = size[q] + 1
      /\ settled' = IF Adding = {q} THEN count' ELSE settled
      /\ size' = [size EXCEPT ![q] = 0] /\ phase' = [phase EXCEPT ![q] = "idle"]
      /\ items' = [items EXCEPT ![size[q] + 1] = at[q] + 1] \/ items' = items
  BY DEF Add, IndInv
<1>1. /\ size[q] \in Nat /\ size[q] < MaxAdds /\ settled \in Nat /\ settled <= size[q]
      /\ count \in Nat /\ settled <= count /\ count <= MaxAdds /\ MaxAdds \in Nat
  BY <1>0, ListFacts, MaxAddsAssumption DEF IndInv, AddsFit, TypeOK, SettledBelow
<1>2. Adding' = Adding \ {q} /\ \A p \in Adding \ {q} : size'[p] = size[p]
  BY <1>0 DEF Adding, TypeOK
<1>3. settled <= count' /\ \A k \in 1 .. settled : items'[k] = items[k]
  <2> SUFFICES ASSUME NEW k \in 1 .. settled
               PROVE  items'[k] = items[k]
    BY <1>0, <1>1
  <2>1. k \in Slots /\ k # size[q] + 1
    BY <1>1 DEF Slots
  <2> QED
    BY <1>0, <2>1 DEF TypeOK
<1>4. CASE Adding = {q}
  <2>1. Adding' = {} /\ settled' = count'
    BY <1>0, <1>2, <1>4
  <2>2. count' \in Nat
    BY <1>0, <1>1
  <2> QED
    BY <1>3, <2>1, <2>2 DEF SettledBelow
<1>5. CASE Adding # {q}
  <2>1. Adding' # {} /\ settled' = settled
    BY <1>0, <1>2, <1>5
  <2> QED
    BY <1>2, <1>3, <2>1 DEF SettledBelow
<1> QED
  BY <1>3, <1>4, <1>5

\* No step does, as long as the process lives.
LEMMA StepSettles ==
  ASSUME IndInv, SettledBelow, [Next]_vars
  PROVE  /\ SettledBelow'
         /\ \/ settled <= count' /\ \A k \in 1 .. settled : items'[k] = items[k]
            \/ \A q \in Requests : phase'[q] = "none"
<1> DEFINE Stays == settled <= count' /\ \A k \in 1 .. settled : items'[k] = items[k]
<1>0. /\ TypeOK /\ settled <= count /\ count \in Nat /\ settled \in Nat
  BY ListFacts DEF IndInv, SettledBelow, TypeOK
<1>1. ASSUME UNCHANGED <<cachedEvents, size>>, Adding' = Adding
      PROVE  SettledBelow' /\ Stays
  BY <1>0, <1>1 DEF SettledBelow, cachedEvents
<1>2. CASE Restart
  BY <1>2 DEF Restart, SettledBelow, Adding
<1>3. CASE \E q \in Requests : Add(q)
  BY <1>3, AddSettles
<1>4. ASSUME NEW q \in Requests, HandleNewEvent(q)
      PROVE  SettledBelow' /\ Stays
  <2>1. /\ UNCHANGED cachedEvents /\ size' = [size EXCEPT ![q] = count]
        /\ phase' = IF Adding = {} THEN [phase EXCEPT ![q] = "adding"]
                    ELSE [p \in Requests |-> IF p \in Adding \cup {q} THEN "racing" ELSE phase[p]]
    BY <1>4 DEF HandleNewEvent
  <2>2. Adding' = Adding \cup {q}
    <3>1. CASE Adding = {}
      BY <1>0, <2>1, <3>1 DEF Adding, TypeOK
    <3>2. CASE Adding # {}
      BY <1>0, <2>1, <3>2 DEF Adding, TypeOK
    <3> QED
      BY <3>1, <3>2
  <2>3. \A p \in Adding' : size'[p] >= settled
    BY <1>0, <2>1, <2>2 DEF SettledBelow, TypeOK
  <2> QED
    BY <1>0, <2>1, <2>2, <2>3 DEF SettledBelow, cachedEvents
<1>5. ASSUME NEW q \in Requests, Call(q)
      PROVE  SettledBelow' /\ Stays
  <2>1. CASE Subscribe(q)
    <3>1. pc[q] = "subscribing" /\ UNCHANGED <<cachedEvents, size>> /\ phase' = [phase EXCEPT ![q] = "idle"]
      BY <2>1 DEF Subscribe, Goto
    <3>2. phase[q] = "none"
      BY <3>1 DEF IndInv, Unsubscribed
    <3>3. Adding' = Adding
      BY <1>0, <3>1, <3>2 DEF Adding, TypeOK
    <3> QED
      BY <1>1, <3>1, <3>3
  <2>2. CASE ~Subscribe(q)
    <3>1. UNCHANGED <<cachedEvents, size, phase>>
      BY <1>5, <2>2 DEF Call, GetCachedOrFetch, SubscribeThrows, GetAllSourceFiles,
                        GetAllSourceFilesThrows, subs
    <3> QED
      BY <1>1, <3>1 DEF Adding
  <2> QED
    BY <2>1, <2>2
<1>6. ASSUME NEW q \in Requests, Drop(q) \/ Resubscribe(q)
      PROVE  SettledBelow' /\ Stays
  <2>1. /\ UNCHANGED <<cachedEvents, size>> /\ phase[q] \in {"idle", "dropped"}
        /\ \E s \in {"idle", "dropped"} : phase' = [phase EXCEPT ![q] = s]
    BY <1>6 DEF Drop, Resubscribe
  <2>2. Adding' = Adding
    BY <1>0, <2>1 DEF Adding, TypeOK
  <2> QED
    BY <1>1, <2>1, <2>2
<1>7. CASE \E f \in Files, d \in Dates : AppendEvent(f, d)
  BY <1>1, <1>7 DEF AppendEvent, subs, Adding
<1>8. CASE UNCHANGED vars
  BY <1>1, <1>8 DEF vars, cachedEvents, Adding
<1> QED
  BY <1>2, <1>3, <1>4, <1>5, <1>6, <1>7, <1>8 DEF Next, Subscription, Crash, ResubscribeThrows

\* What the list holds when no Add is under way it holds until the process
\* ends, however Adds overlap later, and for lists of any length.
THEOREM SettledStays == Spec => SettledListStays
<1>1. Init => SettledBelow
  BY DEF Init, SettledBelow, Adding
<1>2. IndInv /\ SettledBelow /\ [Next]_vars => SettledBelow'
  BY StepSettles
<1>3. IndInv /\ SettledBelow /\ [Next]_vars =>
        [(\E q \in Requests : phase'[q] # "none") =>
           settled <= count' /\ \A k \in 1 .. settled : items'[k] = items[k]]_vars
  BY StepSettles
<1> QED
  BY <1>1, <1>2, <1>3, Invariance, PTL DEF Spec, SettledListStays
---------------------------------------------------------------------------
\* The list implements EventView

Topic == "documents"
Shown == [t \in {Topic} |-> IF raced THEN {} ELSE Cached]
Stream == [i \in DOMAIN log |-> Topic]

\* The list begins as an empty view.
LEMMA InitView == Init => View!Init
<1> SUFFICES ASSUME Init PROVE View!Init
  OBVIOUS
<1>1. Cached = {} /\ log = << >>
  BY DEF Init, Cached
<1> QED
  BY <1>1 DEF Init, View!Init

\* An event that is appended to the stream is one of the view's topic.
LEMMA AppendRecords ==
  ASSUME IndInv, NEW f \in Files, NEW d \in Dates, AppendEvent(f, d)
  PROVE  View!Record(Topic)
<1>1. /\ log' = Append(log, [file |-> f, date |-> d])
      /\ UNCHANGED <<items, count, raced>>
  BY DEF AppendEvent, cachedEvents, subs
<1>2. log \in Seq([file : Files, date : Dates])
  BY DEF IndInv, TypeOK
<1>3. Len(log') = Len(log) + 1 /\ DOMAIN log' = 1 .. (Len(log) + 1) /\ Len(log) \in Nat
  BY <1>1, <1>2
<1>4. Stream \in Seq({Topic}) /\ Len(Stream) = Len(log)
  BY <1>2, <1>3 DEF Stream
<1>5. Stream' = Append(Stream, Topic)
  BY <1>3, <1>4 DEF Stream
<1>6. Shown' = Shown
  BY <1>1 DEF Shown, Cached, CachedEvents
<1> QED
  BY <1>5, <1>6 DEF View!Record, Stream, Shown, Topic

\* Without a race, an Add shows the next event, unless the list has it already.
LEMMA AddShows ==
  ASSUME IndInv, NEW q \in Requests, Add(q)
  PROVE  View!Show(Topic) \/ UNCHANGED <<Stream, Shown>>
<1> DEFINE i == at[q] + 1
<1>1. log' = log /\ raced' = raced /\ q \in Adding
  BY DEF Add
<1>2. CASE raced
  BY <1>1, <1>2 DEF Stream, Shown
<1>3. CASE ~raced
  <2>1. Cached' = Cached \cup {i} /\ at[q] \in Nat
    BY <1>3, AddAppends
  <2>2. i \in DOMAIN log
    BY <1>1, <2>1, ListFacts DEF IndInv, AddsFit, TypeOK
  <2>3. \A j \in 1 .. (i - 1) : j \in Cached
    BY <1>1, <1>3, <2>1 DEF IndInv, NothingSkipped, Adding
  <2>4. Shown' = [Shown EXCEPT ![Topic] = @ \cup {i}] /\ Stream' = Stream
    BY <1>1, <1>3, <2>1 DEF Shown, Stream
  <2>5. CASE i \in Cached
    BY <1>1, <1>3, <2>1, <2>5 DEF Shown, Stream
  <2>6. CASE i \notin Cached
    <3>1. View!Oldest(Topic, i)
      BY <1>3, <2>2, <2>3, <2>6 DEF View!Oldest, Topic
    <3>2. i \in DOMAIN Stream
      BY <2>2 DEF Stream
    <3> QED
      BY <2>4, <3>1, <3>2 DEF View!Show, Shown, Stream, Topic
  <2> QED
    BY <2>5, <2>6
<1> QED
  BY <1>2, <1>3

\* Every step of the list is one of the view or leaves it alone.
LEMMA StepView ==
  ASSUME IndInv, [Next]_vars
  PROVE  [View!Next]_(View!vars)
<1> USE DEF Topic
<1>0. ASSUME UNCHANGED <<log, cachedEvents, raced>>
      PROVE  UNCHANGED <<Stream, Shown>>
  BY <1>0 DEF cachedEvents, Stream, Shown, Cached, CachedEvents
<1>1. ASSUME UNCHANGED <<Stream, Shown>>
      PROVE  UNCHANGED View!vars
  BY <1>1 DEF View!vars, Stream, Shown
<1>2. CASE \E f \in Files, d \in Dates : AppendEvent(f, d)
  BY <1>2, AppendRecords DEF View!Next
<1>3. CASE \E q \in Requests : Add(q)
  BY <1>1, <1>3, AddShows DEF View!Next
<1>4. CASE Restart
  <2>1. Cached' = {} /\ log' = log
    BY <1>4 DEF Restart, Cached
  <2> QED
    BY <2>1 DEF View!Next, View!Forget
<1>5. CASE \E q \in Requests : HandleNewEvent(q)
  <2>1. UNCHANGED <<log, cachedEvents>> /\ (raced' = raced \/ raced' = TRUE)
    BY <1>5 DEF HandleNewEvent, IndInv, TypeOK
  <2>2. CASE raced' = raced
    BY <1>0, <1>1, <2>1, <2>2
  <2>3. CASE raced' = TRUE
    BY <2>1, <2>3 DEF View!Next, View!Forget
  <2> QED
    BY <2>1, <2>2, <2>3
<1>6. CASE UNCHANGED <<log, cachedEvents, raced>>
  BY <1>0, <1>1, <1>6
<1>7. CASE \E q \in Requests : Call(q)
  BY <1>6, <1>7 DEF Call, GetCachedOrFetch, Subscribe, SubscribeThrows, GetAllSourceFiles,
                    GetAllSourceFilesThrows, subs
<1>8. CASE \E q \in Requests : Drop(q) \/ Resubscribe(q)
  <2>1. UNCHANGED <<log, cachedEvents, raced>>
    BY <1>8 DEF Drop, Resubscribe
  <2> QED
    BY <1>6, <2>1
<1>9. CASE Crash \/ \E q \in Requests : ResubscribeThrows(q)
  <2>1. Restart
    BY <1>9 DEF Crash, ResubscribeThrows
  <2> QED
    BY <1>4, <2>1
<1>10. CASE UNCHANGED vars
  BY <1>6, <1>10 DEF vars, cachedEvents
<1>11. CASE \E q \in Requests : Call(q) \/ Subscription(q)
  BY <1>3, <1>5, <1>7, <1>8, <1>9, <1>11 DEF Subscription
<1> QED
  BY <1>2, <1>9, <1>10, <1>11 DEF Next

\* As long as no two Adds overlap, the list is an in-memory view of the stream:
\* it shows a prefix that grows event by event, however often subscriptions
\* replay the stream, and falls back to nothing with the process only.
THEOREM ListImplementsView == Spec => ViewSpec
<1>1. Init => View!Init
  BY InitView
<1>2. IndInv /\ [Next]_vars => [View!Next]_(View!vars)
  BY StepView
<1> QED
  BY <1>1, <1>2, Invariance, PTL DEF Spec, ViewSpec, View!Spec
===========================================================================
