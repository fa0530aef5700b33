---------------------- MODULE AnalysisReadModelProofs ----------------------
(***************************************************************************)
(* Proofs about the cache of analysis events, for any users, requests,      *)
(* failures and length of the log.                                          *)
(***************************************************************************)
EXTENDS AnalysisReadModel, FiniteSetTheorems, TLAPS

---------------------------------------------------------------------------
\* Sequences

\* A sequence over a set is one over any larger set.
LEMMA SeqWiden ==
  ASSUME NEW S, NEW T, S \subseteq T, NEW s \in Seq(S)
  PROVE  s \in Seq(T)
OBVIOUS

\* What appending to a list does to its events and its positions.
LEMMA EventsAppend ==
  ASSUME NEW S, NEW s \in Seq(S), NEW e \in S
  PROVE  /\ Append(s, e) \in Seq(S)
         /\ Append(s, e) # << >>
         /\ DOMAIN Append(s, e) = DOMAIN s \cup {Len(s) + 1}
         /\ Append(s, e)[Len(s) + 1] = e
         /\ \A k \in DOMAIN s : Append(s, e)[k] = s[k]
         /\ Events(Append(s, e)) = Events(s) \cup {e}
<1> DEFINE a == Append(s, e)
<1>1. DOMAIN s = 1 .. Len(s) /\ DOMAIN a = 1 .. (Len(s) + 1) /\ Len(s) \in Nat
  OBVIOUS
<1>2. a \in Seq(S) /\ a # << >> /\ a[Len(s) + 1] = e /\ \A k \in DOMAIN s : a[k] = s[k]
  OBVIOUS
<1>3. DOMAIN a = DOMAIN s \cup {Len(s) + 1}
  BY <1>1
<1>4. Events(a) = Events(s) \cup {e}
  BY <1>1, <1>2, <1>3 DEF Events
<1> QED BY <1>2, <1>3, <1>4

\* The events of a list over a set are in the set.
LEMMA EventsIn ==
  ASSUME NEW S, NEW s \in Seq(S)
  PROVE  Events(s) \subseteq S
BY DEF Events

\* The empty list and the list of one event.
LEMMA EventsNone == Events(<< >>) = {}
BY DEF Events

\* Events of a list and of the list with one element more.
LEMMA EventsOne ==
  ASSUME NEW e
  PROVE  Events(<<e>>) = {e} /\ DOMAIN <<e>> = {1} /\ <<e>>[1] = e
<1>1. DOMAIN <<e>> = {1} /\ <<e>>[1] = e
  OBVIOUS
<1> QED BY <1>1 DEF Events

---------------------------------------------------------------------------
\* The inductive invariant

\* An empty cache with no request satisfies the invariant.
LEMMA InitInv == Init => IndInv
<1> SUFFICES ASSUME Init PROVE IndInv
  OBVIOUS
<1>1. TypeOK
  <2>1. log \in Seq(Users) /\ Len(log) = 0 /\ << >> \in Seq(DOMAIN log)
    BY DEF Init
  <2>2. log \in Seq(Users) /\ cache \in [Users -> Seq(DOMAIN log)]
        /\ found \in [Requests -> Seq(DOMAIN log)] /\ names \in [Requests -> Seq(DOMAIN log)]
        /\ at \in [Requests -> 0 .. Len(log)]
    BY <2>1 DEF Init
  <2> QED BY <2>2 DEF Init, TypeOK, Finished
<1>2. CachedInOrder /\ NothingSkipped /\ HandlersKnow /\ Opened /\ CacheIsFed
  BY DEF Init, CachedInOrder, NothingSkipped, HandlersKnow, Opened, CacheIsFed
<1>3. Remembered /\ Read
  BY DEF Init, Remembered, Read
<1> QED BY <1>1, <1>2, <1>3 DEF IndInv

\* What concerns the log, the cache and the subscriptions stays true when
\* they do not change.
LEMMA Unmoved ==
  ASSUME IndInv, UNCHANGED <<store, subs>>
  PROVE  CachedInOrder' /\ NothingSkipped' /\ HandlersKnow'
BY DEF IndInv, store, subs, CachedInOrder, NothingSkipped, HandlersKnow, Owner, Position, Cached, Events

\* What concerns one request stays true of those that do not change.
LEMMA OneMoved ==
  ASSUME IndInv, NEW q \in Requests, log' = log,
         \A u \in Users : Cached(u) \subseteq Events(cache'[u]) /\ told'[u] \subseteq Events(cache'[u]),
         \A r \in Requests : r # q =>
           /\ pc'[r] = pc[r] /\ asker'[r] = asker[r] /\ found'[r] = found[r]
           /\ names'[r] = names[r] /\ floor'[r] = floor[r],
         pc'[q] \notin Finished \cup {"idle"} => asker'[q] \in Users,
         pc'[q] \in {"cached", "subscribing", "subscribed", "initialized", "listed", "grouping"} =>
            floor'[q] \subseteq Events(cache'[asker'[q]]),
         pc'[q] \in {"grouped", "naming"} =>
            /\ floor'[q] \subseteq Events(found'[q])
            /\ Whole(asker'[q], Events(found'[q])) /\ Whole(asker'[q], Events(names'[q]))
            /\ Events(found'[q]) \subseteq Events(names'[q])
            /\ Events(names'[q]) \subseteq Events(cache'[asker'[q]]),
         pc'[q] \notin {"grouped", "naming"} => found'[q] = << >> /\ names'[q] = << >>
  PROVE  Remembered' /\ Read'
<1>1. ASSUME NEW r \in Requests, r # q
      PROVE  /\ pc'[r] \notin Finished \cup {"idle"} => asker'[r] \in Users
             /\ pc'[r] \in {"cached", "subscribing", "subscribed", "initialized", "listed", "grouping"} =>
                  floor'[r] \subseteq Events(cache'[asker'[r]])
             /\ pc'[r] \in {"grouped", "naming"} =>
                  /\ floor'[r] \subseteq Events(found'[r])
                  /\ Whole(asker'[r], Events(found'[r])) /\ Whole(asker'[r], Events(names'[r]))
                  /\ Events(found'[r]) \subseteq Events(names'[r])
                  /\ Events(names'[r]) \subseteq Events(cache'[asker'[r]])
             /\ pc'[r] \notin {"grouped", "naming"} => found'[r] = << >> /\ names'[r] = << >>
  BY <1>1 DEF IndInv, Remembered, Read, Finished
<1>2. \A r \in Requests :
        /\ pc'[r] \notin Finished \cup {"idle"} => asker'[r] \in Users
        /\ pc'[r] \in {"cached", "subscribing", "subscribed", "initialized", "listed", "grouping"} =>
             floor'[r] \subseteq Events(cache'[asker'[r]])
        /\ pc'[r] \in {"grouped", "naming"} =>
             /\ floor'[r] \subseteq Events(found'[r])
             /\ Whole(asker'[r], Events(found'[r])) /\ Whole(asker'[r], Events(names'[r]))
             /\ Events(found'[r]) \subseteq Events(names'[r])
             /\ Events(names'[r]) \subseteq Events(cache'[asker'[r]])
        /\ pc'[r] \notin {"grouped", "naming"} => found'[r] = << >> /\ names'[r] = << >>
  BY <1>1
<1> QED BY <1>2 DEF Remembered, Read, Cached, Whole

\* What a call that returns leaves behind.
LEMMA ReturnInv ==
  ASSUME IndInv, NEW q \in Requests, NEW outcome \in Finished, Return(q, outcome),
         UNCHANGED <<store, initialized, subs>>,
         told' \in [Users -> SUBSET DOMAIN log], \A u \in Users : told'[u] \subseteq Cached(u)
  PROVE  IndInv'
<1>1. CachedInOrder' /\ NothingSkipped' /\ HandlersKnow'
  BY Unmoved
<1>2. TypeOK'
  <2>1. << >> \in Seq(DOMAIN log) /\ {} \in SUBSET DOMAIN log
    OBVIOUS
  <2> QED BY <2>1 DEF IndInv, TypeOK, Return, store, subs
<1>3. Remembered' /\ Read'
  <2>1. \A u \in Users : Events(cache'[u]) = Cached(u)
    BY DEF Cached, store
  <2>2. /\ pc' = [pc EXCEPT ![q] = outcome] /\ pc \in [Requests -> Finished \cup
              {"idle", "cached", "subscribing", "subscribed", "initialized",
               "listed", "grouping", "grouped", "naming"}]
        /\ pc'[q] \notin {"cached", "subscribing", "subscribed", "initialized", "listed", "grouping"}
        /\ pc'[q] \notin {"grouped", "naming"}
    BY DEF Return, IndInv, TypeOK, Finished
  <2>3. found'[q] = << >> /\ names'[q] = << >>
    BY DEF Return, IndInv, TypeOK
  <2>4. \A r \in Requests : r # q =>
           /\ pc'[r] = pc[r] /\ asker'[r] = asker[r] /\ found'[r] = found[r]
           /\ names'[r] = names[r] /\ floor'[r] = floor[r]
    BY DEF Return, IndInv, TypeOK
  <2>5. log' = log
    BY DEF store
  <2> QED BY <2>1, <2>2, <2>3, <2>4, <2>5, OneMoved
<1>4. Opened' /\ CacheIsFed'
  BY DEF IndInv, TypeOK, Opened, CacheIsFed, Subscribed, Return, store, subs, Finished
<1> QED BY <1>1, <1>2, <1>3, <1>4 DEF IndInv

\* What a step of a request that goes on has to keep.
LEMMA GoesOn ==
  ASSUME IndInv, NEW q \in Requests, NEW to, UNCHANGED <<store, initialized, subs, told>>,
         to \in {"cached", "subscribing", "listed", "grouping", "grouped", "naming"},
         pc' = [pc EXCEPT ![q] = to], Remembered', Read',
         asker' \in [Requests -> Users \cup {NoUser}], version' \in [Requests -> Nat],
         found' \in [Requests -> Seq(DOMAIN log)], names' \in [Requests -> Seq(DOMAIN log)],
         floor' \in [Requests -> SUBSET DOMAIN log]
  PROVE  IndInv'
<1>1. CachedInOrder' /\ NothingSkipped' /\ HandlersKnow'
  BY Unmoved
<1>2. TypeOK'
  BY DEF IndInv, TypeOK, store, subs
<1>3. Opened' /\ CacheIsFed'
  BY DEF IndInv, TypeOK, Opened, CacheIsFed, Subscribed, store, subs
<1> QED BY <1>1, <1>2, <1>3 DEF IndInv

\* A request's first step: it looks at the flag.
LEMMA AskInv ==
  ASSUME IndInv, NEW q \in Requests, NEW u \in Users, Ask(q, u)
  PROVE  IndInv'
<1>1. PICK to \in {"cached", "subscribing"} : pc' = [pc EXCEPT ![q] = to] /\ pc[q] = "idle"
  BY DEF Ask, Goto
<1>2. /\ asker' = [asker EXCEPT ![q] = u] /\ floor' = [floor EXCEPT ![q] = told[u]]
      /\ UNCHANGED <<store, initialized, subs, version, found, names, told>>
  BY DEF Ask
<1>3. Remembered' /\ Read'
  <2>1. \A v \in Users : Events(cache'[v]) = Cached(v)
    BY <1>2 DEF Cached, store
  <2>2. told[u] \subseteq Cached(u) /\ \A v \in Users : told'[v] \subseteq Cached(v)
    BY <1>2 DEF IndInv, Remembered
  <2>3. found[q] = << >> /\ names[q] = << >>
    BY <1>1 DEF IndInv, Read
  <2>4. /\ pc'[q] = to /\ asker'[q] = u /\ floor'[q] = told[u] /\ found' = found /\ names' = names
        /\ log' = log
        /\ \A r \in Requests : r # q => pc'[r] = pc[r] /\ asker'[r] = asker[r] /\ floor'[r] = floor[r]
    BY <1>1, <1>2 DEF IndInv, TypeOK, store
  <2> QED BY <2>1, <2>2, <2>3, <2>4, OneMoved
<1> QED BY <1>1, <1>2, <1>3, GoesOn DEF IndInv, TypeOK

\* A request's subscription to the stream.
LEMMA SubscribeInv ==
  ASSUME IndInv, NEW q \in Requests, Subscribe(q)
  PROVE  IndInv'
<1> USE DEF IndInv, TypeOK, Subscribe, Goto, store, locals
<1>1. TypeOK'
  BY DEF Finished
<1>2. CachedInOrder'
  BY DEF CachedInOrder
<1>3. NothingSkipped'
  BY DEF NothingSkipped, Cached
<1>4. HandlersKnow'
  BY DEF HandlersKnow, Owner, Position
<1>5. Remembered'
  BY DEF Remembered, Cached, Finished
<1>6. Read'
  BY DEF Read, Whole, Cached
<1>7. Opened' /\ CacheIsFed'
  BY DEF Opened, CacheIsFed, Subscribed
<1> QED BY <1>1, <1>2, <1>3, <1>4, <1>5, <1>6, <1>7 DEF IndInv

\* A request that ends in an exception.
LEMMA ThrowsInv ==
  ASSUME IndInv, NEW q \in Requests, SubscribeThrows(q) \/ Modified(q) \/ ReadsNull(q)
  PROVE  IndInv'
<1>1. PICK outcome \in Finished : Return(q, outcome)
  BY DEF SubscribeThrows, Modified, ReadsNull, Finished
<1> QED BY <1>1, ReturnInv DEF SubscribeThrows, Modified, ReadsNull, IndInv, TypeOK, Remembered

\* The step that counts the cache as initialized.
LEMMA InitializeInv ==
  ASSUME IndInv, NEW q \in Requests, Initialize(q)
  PROVE  IndInv'
<1>1. CachedInOrder' /\ NothingSkipped' /\ HandlersKnow'
  BY Unmoved DEF Initialize
<1>2. TypeOK' /\ Opened'
  BY DEF IndInv, TypeOK, Finished, Opened, Initialize, Goto, store, subs, locals
<1>3. Remembered'
  BY DEF IndInv, TypeOK, Finished, Remembered, Initialize, Goto, store, locals, Cached
<1>4. Read'
  BY DEF IndInv, TypeOK, Read, Whole, Initialize, Goto, store, locals, Cached
<1>5. CacheIsFed'
  BY DEF IndInv, Opened, CacheIsFed, Subscribed, Initialize, Goto, store, subs
<1> QED BY <1>1, <1>2, <1>3, <1>4, <1>5 DEF IndInv

\* What a step keeps that changes neither the cache nor what requests read.
LEMMA OnlyMoves ==
  ASSUME IndInv, NEW q \in Requests, NEW to, UNCHANGED <<store, initialized, subs, told>>,
         \/ pc[q] \in {"cached", "initialized", "listed"} /\ to \in {"listed", "grouping"}
         \/ pc[q] = "initialized" /\ cache[asker[q]] = << >> /\ to = "grouped"
         \/ pc[q] = "grouped" /\ to = "naming",
         pc' = [pc EXCEPT ![q] = to], UNCHANGED <<asker, found, names, floor>>,
         version' \in [Requests -> Nat]
  PROVE  IndInv'
<1>1. \A v \in Users : Events(cache'[v]) = Cached(v)
  BY DEF Cached, store
<1>2. /\ \A r \in Requests : r # q => pc'[r] = pc[r]
      /\ pc'[q] = to /\ log' = log /\ asker[q] \in Users
  BY DEF IndInv, TypeOK, store, Remembered, Finished
<1>3. CASE to \in {"listed", "grouping"}
  <2>1. floor[q] \subseteq Cached(asker[q]) /\ found[q] = << >> /\ names[q] = << >>
    BY <1>3 DEF IndInv, Remembered, Read
  <2>2. Remembered' /\ Read'
    BY <1>1, <1>2, <1>3, <2>1, OneMoved DEF IndInv, Remembered
  <2> QED BY <1>3, <2>2, GoesOn DEF IndInv, TypeOK
<1>4. CASE pc[q] = "initialized" /\ cache[asker[q]] = << >> /\ to = "grouped"
  <2>1. floor[q] \subseteq Cached(asker[q]) /\ found[q] = << >> /\ names[q] = << >>
    BY <1>4 DEF IndInv, Remembered, Read
  <2>2. Cached(asker[q]) = {} /\ Events(found[q]) = {} /\ Events(names[q]) = {}
    BY <1>4, <2>1, EventsNone DEF Cached
  <2>3. Whole(asker[q], {})
    BY DEF Whole
  <2>4. Events(cache'[asker[q]]) = {} /\ floor[q] = {}
    BY <1>1, <1>2, <2>1, <2>2
  <2>5. /\ floor'[q] \subseteq Events(found'[q])
        /\ Whole(asker'[q], Events(found'[q])) /\ Whole(asker'[q], Events(names'[q]))
        /\ Events(found'[q]) \subseteq Events(names'[q])
        /\ Events(names'[q]) \subseteq Events(cache'[asker'[q]])
    BY <2>2, <2>3, <2>4
  <2>6. Remembered' /\ Read'
    BY <1>1, <1>2, <1>4, <2>5, OneMoved DEF IndInv, Remembered
  <2> QED BY <1>4, <2>6, GoesOn DEF IndInv, TypeOK
<1>5. CASE pc[q] = "grouped" /\ to = "naming"
  <2>1. /\ floor[q] \subseteq Events(found[q])
        /\ Whole(asker[q], Events(found[q])) /\ Whole(asker[q], Events(names[q]))
        /\ Events(found[q]) \subseteq Events(names[q])
        /\ Events(names[q]) \subseteq Cached(asker[q])
    BY <1>5 DEF IndInv, Remembered, Read
  <2>2. Remembered' /\ Read'
    BY <1>1, <1>2, <1>5, <2>1, OneMoved DEF IndInv, Remembered
  <2> QED BY <1>5, <2>2, GoesOn DEF IndInv, TypeOK
<1> QED BY <1>3, <1>4, <1>5

\* A request that fetches its user's list, or finds none.
LEMMA FetchInv ==
  ASSUME IndInv, NEW q \in Requests, TryGet(q) \/ Lookup(q)
  PROVE  IndInv'
<1>1. CASE TryGet(q)
  <2>1. PICK to : /\ pc[q] = "initialized" /\ pc' = [pc EXCEPT ![q] = to]
                  /\ to = IF cache[asker[q]] = << >> THEN "grouped" ELSE "listed"
    BY <1>1 DEF TryGet, Goto
  <2> QED BY <1>1, <2>1, OnlyMoves DEF TryGet, locals, IndInv, TypeOK
<1>2. CASE Lookup(q) /\ cache[asker[q]] = << >>
  BY <1>2, ReturnInv DEF Lookup, Finished, IndInv, TypeOK, Remembered
<1>3. CASE Lookup(q) /\ cache[asker[q]] # << >>
  BY <1>3, OnlyMoves DEF Lookup, Goto, locals, IndInv, TypeOK
<1> QED BY <1>1, <1>2, <1>3

\* An enumeration that begins.
LEMMA BeginsInv ==
  ASSUME IndInv, NEW q \in Requests, GroupBy(q) \/ GetInitialEvent(q)
  PROVE  IndInv'
<1>1. asker[q] \in Users
  BY DEF IndInv, Remembered, Finished, GroupBy, GetInitialEvent, EnumerationBegins, Goto
<1>2. Version(asker[q]) \in Nat
  <2>1. cache[asker[q]] \in Seq(DOMAIN log)
    BY <1>1 DEF IndInv, TypeOK
  <2>2. CASE Storing(asker[q])
    BY <2>1, <2>2 DEF Version
  <2>3. CASE ~Storing(asker[q])
    BY <2>1, <2>3 DEF Version
  <2> QED BY <2>2, <2>3
<1>3. version' \in [Requests -> Nat]
  BY <1>2 DEF IndInv, TypeOK, GroupBy, GetInitialEvent, EnumerationBegins
<1> QED BY <1>3, OnlyMoves DEF GroupBy, GetInitialEvent, EnumerationBegins, Goto

\* An enumeration that ends has read the list as it is, which holds what the
\* request has read before.
LEMMA EnumeratedInv ==
  ASSUME IndInv, NEW q \in Requests, Enumerated(q)
  PROVE  IndInv'
<1> DEFINE u == asker[q]
           c == cache[u]
<1>1. /\ pc[q] \in {"grouping", "naming"} /\ u \in Users /\ c \in Seq(DOMAIN log)
      /\ pc' = [pc EXCEPT ![q] = "grouped"] /\ version' = [version EXCEPT ![q] = 0]
      /\ names' = [names EXCEPT ![q] = c]
      /\ found' = IF pc[q] = "grouping" THEN [found EXCEPT ![q] = c] ELSE found
      /\ UNCHANGED <<store, initialized, subs, asker, floor, told>>
  BY DEF Enumerated, Enumerating, IndInv, TypeOK, Remembered, Finished
<1>2. /\ found \in [Requests -> Seq(DOMAIN log)] /\ names \in [Requests -> Seq(DOMAIN log)]
      /\ version \in [Requests -> Nat] /\ pc \in [Requests -> Finished \cup
           {"idle", "cached", "subscribing", "subscribed", "initialized",
            "listed", "grouping", "grouped", "naming"}]
      /\ asker \in [Requests -> Users \cup {NoUser}] /\ floor \in [Requests -> SUBSET DOMAIN log]
      /\ \A v \in Users : told[v] \subseteq Cached(v)
  BY DEF IndInv, TypeOK, Remembered
<1>3. Whole(u, Events(c)) /\ Events(c) = Cached(u)
  <2>1. \A k \in DOMAIN c : /\ log[c[k]] = u
                           /\ \A i \in 1 .. (c[k] - 1) :
                                log[i] = u => \E l \in 1 .. (k - 1) : c[l] = i
    BY <1>1 DEF IndInv, CachedInOrder
  <2>2. \A k \in DOMAIN c : \A l \in 1 .. (k - 1) : l \in DOMAIN c
    BY <1>1
  <2> QED BY <2>1, <2>2 DEF Whole, Events, Cached
<1>4. /\ floor[q] \subseteq Events(found'[q]) /\ Whole(u, Events(found'[q]))
      /\ Events(found'[q]) \subseteq Events(c)
  <2>1. CASE pc[q] = "grouping"
    <3>1. floor[q] \subseteq Cached(u)
      BY <2>1 DEF IndInv, Remembered
    <3> QED BY <1>1, <1>2, <1>3, <2>1, <3>1
  <2>2. CASE pc[q] = "naming"
    BY <1>1, <1>3, <2>2 DEF IndInv, Remembered, Read
  <2> QED BY <1>1, <2>1, <2>2
<1>5. \A v \in Users : Events(cache'[v]) = Cached(v) /\ log' = log
  BY <1>1 DEF Cached, store
<1>6. /\ names'[q] = c /\ pc'[q] = "grouped"
      /\ \A r \in Requests : r # q => pc'[r] = pc[r] /\ found'[r] = found[r] /\ names'[r] = names[r]
      /\ found' \in [Requests -> Seq(DOMAIN log)] /\ names' \in [Requests -> Seq(DOMAIN log)]
  BY <1>1, <1>2
<1>7. Remembered' /\ Read'
  <2>1. /\ floor'[q] \subseteq Events(found'[q])
        /\ Whole(asker'[q], Events(found'[q])) /\ Whole(asker'[q], Events(names'[q]))
        /\ Events(found'[q]) \subseteq Events(names'[q])
        /\ Events(names'[q]) \subseteq Events(cache'[asker'[q]])
    BY <1>1, <1>3, <1>4, <1>5, <1>6
  <2>2. \A v \in Users : Cached(v) \subseteq Events(cache'[v]) /\ told'[v] \subseteq Events(cache'[v])
    BY <1>1, <1>2, <1>5
  <2>3. \A r \in Requests : r # q =>
           /\ pc'[r] = pc[r] /\ asker'[r] = asker[r] /\ found'[r] = found[r]
           /\ names'[r] = names[r] /\ floor'[r] = floor[r]
    BY <1>1, <1>6
  <2>4. pc'[q] = "grouped" /\ asker'[q] \in Users /\ log' = log
    BY <1>1, <1>5, <1>6
  <2> HIDE DEF u, c
  <2> QED BY <2>1, <2>2, <2>3, <2>4, OneMoved
<1> QED BY <1>1, <1>2, <1>6, <1>7, GoesOn

\* An answer tells its user of what its rows and names were made from.
LEMMA AnswerInv ==
  ASSUME IndInv, NEW q \in Requests, Answer(q)
  PROVE  IndInv'
<1> DEFINE u == asker[q]
           e == Events(found[q]) \cup Events(names[q])
<1>1. u \in Users /\ e \subseteq Cached(u)
  BY DEF IndInv, Remembered, Read, Answer, Finished
<1>2. e \subseteq DOMAIN log
  BY EventsIn DEF IndInv, TypeOK
<1>3. told' = [told EXCEPT ![u] = told[u] \cup e]
  BY DEF Answer
<1>4. told \in [Users -> SUBSET DOMAIN log] /\ \A v \in Users : told[v] \subseteq Cached(v)
  BY DEF IndInv, TypeOK, Remembered
<1>5. told' \in [Users -> SUBSET DOMAIN log] /\ \A v \in Users : told'[v] \subseteq Cached(v)
  BY ONLY <1>1, <1>2, <1>3, <1>4
<1> QED BY <1>5, ReturnInv DEF Answer, Finished

\* The positions of the log before it grows keep their events.
LEMMA LogGrows ==
  ASSUME IndInv, NEW u \in Users, AppendEvent(u)
  PROVE  /\ log' \in Seq(Users) /\ Len(log) \in Nat /\ Len(log') = Len(log) + 1
         /\ DOMAIN log \subseteq DOMAIN log'
         /\ DOMAIN log = 1 .. Len(log) /\ DOMAIN log' = 1 .. Len(log')
         /\ \A i \in DOMAIN log : log'[i] = log[i]
BY DEF IndInv, TypeOK, AppendEvent

\* An event stored by another process.
LEMMA AppendEventInv ==
  ASSUME IndInv, NEW u \in Users, AppendEvent(u)
  PROVE  IndInv'
<1> USE LogGrows DEF AppendEvent, subs, calls, locals
<1>1. TypeOK'
  <2>1. /\ cache' \in [Users -> Seq(DOMAIN log')]
        /\ found' \in [Requests -> Seq(DOMAIN log')] /\ names' \in [Requests -> Seq(DOMAIN log')]
    <3>1. \A s \in Seq(DOMAIN log) : s \in Seq(DOMAIN log')
      BY SeqWiden
    <3> QED BY <3>1 DEF IndInv, TypeOK
  <2>2. at' \in [Requests -> 0 .. Len(log')] /\ told' \in [Users -> SUBSET DOMAIN log']
        /\ floor' \in [Requests -> SUBSET DOMAIN log']
    BY DEF IndInv, TypeOK
  <2> QED BY <2>1, <2>2 DEF IndInv, TypeOK
<1>2. CachedInOrder'
  <2>1. \A v \in Users : \A k \in DOMAIN cache[v] : cache[v][k] \in DOMAIN log
    BY DEF IndInv, TypeOK
  <2> QED BY <2>1 DEF IndInv, CachedInOrder
<1>3. NothingSkipped'
  BY DEF IndInv, TypeOK, NothingSkipped, Cached
<1>4. HandlersKnow'
  <2> SUFFICES ASSUME NEW q \in Requests
               PROVE  (/\ phase[q] \in {"adding", "storing", "inserting"} => at[q] < Len(log)
                       /\ phase[q] \in {"adding", "storing"} => cache[Owner(q)] # << >>
                       /\ phase[q] = "inserting" => \A i \in 1 .. at[q] : log[i] # Owner(q))'
    BY DEF HandlersKnow
  <2>1. /\ phase[q] \in {"adding", "storing", "inserting"} => at[q] < Len(log)
        /\ phase[q] \in {"adding", "storing"} => cache[Owner(q)] # << >>
        /\ phase[q] = "inserting" => \A i \in 1 .. at[q] : log[i] # Owner(q)
    BY DEF IndInv, HandlersKnow
  <2>2. at[q] \in 0 .. Len(log) /\ phase' = phase /\ at' = at /\ cache' = cache
    BY DEF IndInv, TypeOK
  <2>3. at[q] < Len(log) => at[q] + 1 \in DOMAIN log /\ \A i \in 1 .. at[q] : i \in DOMAIN log
    BY <2>2
  <2>4. at[q] < Len(log) => log'[at[q] + 1] = log[at[q] + 1] /\ \A i \in 1 .. at[q] : log'[i] = log[i]
    BY <2>3
  <2>5. at[q] < Len(log) => at[q] < Len(log')
    BY <2>2
  <2> QED BY <2>1, <2>2, <2>4, <2>5 DEF Owner, Position
<1>5. Remembered'
  BY DEF IndInv, Remembered, Cached, locals
<1>6. Read'
  <2>1. \A q \in Requests : Events(found[q]) \subseteq DOMAIN log /\ Events(names[q]) \subseteq DOMAIN log
    BY EventsIn DEF IndInv, TypeOK
  <2>2. \A v, e : e \subseteq DOMAIN log /\ Whole(v, e) => Whole(v, e)'
    BY DEF Whole
  <2>3. found' = found /\ names' = names /\ pc' = pc /\ asker' = asker /\ cache' = cache
    BY DEF locals
  <2> QED BY <2>1, <2>2, <2>3 DEF IndInv, Read, Cached
<1>7. Opened' /\ CacheIsFed'
  BY DEF IndInv, Opened, CacheIsFed, Subscribed
<1> QED BY <1>1, <1>2, <1>3, <1>4, <1>5, <1>6, <1>7 DEF IndInv

\* A handler that finds no key is at its user's first event: it has handled
\* every earlier one, and they would be in the list.
LEMMA HandleNewEventInv ==
  ASSUME IndInv, NEW q \in Requests, HandleNewEvent(q)
  PROVE  IndInv'
<1> USE DEF IndInv, TypeOK, HandleNewEvent, store, calls, locals
<1>1. TypeOK'
  OBVIOUS
<1>2. CachedInOrder'
  BY DEF CachedInOrder
<1>3. NothingSkipped'
  BY DEF NothingSkipped, Cached
<1>4. HandlersKnow'
  <2>1. Owner(q) \in Users
    BY DEF Owner, Position
  <2>2. cache[Owner(q)] = << >> => \A i \in 1 .. at[q] : log[i] # Owner(q)
    BY <2>1, EventsNone DEF NothingSkipped, Cached
  <2>3. \A r \in Requests : Owner(r)' = Owner(r) /\ Position(r)' = Position(r)
    BY DEF Owner, Position
  <2>4. /\ phase'[q] \in {"inserting", "adding"} /\ at[q] < Len(log)
        /\ phase'[q] = "inserting" => cache[Owner(q)] = << >>
        /\ phase'[q] = "adding" => cache[Owner(q)] # << >>
        /\ \A r \in Requests : r # q => phase'[r] = phase[r]
        /\ log' = log /\ cache' = cache /\ at' = at
    OBVIOUS
  <2>5. HandlersKnow
    OBVIOUS
  <2> QED BY ONLY <2>2, <2>3, <2>4, <2>5 DEF HandlersKnow
<1>5. Remembered' /\ Read'
  BY DEF Remembered, Read, Whole, Cached
<1>6. Opened' /\ CacheIsFed'
  BY DEF Opened, CacheIsFed, Subscribed
<1> QED BY <1>1, <1>2, <1>3, <1>4, <1>5, <1>6 DEF IndInv

\* A subscription that is dropped or opened again, and a handler that locks the
\* list.
LEMMA DropInv ==
  ASSUME IndInv, NEW q \in Requests, Drop(q) \/ Resubscribe(q) \/ BeginAdd(q)
  PROVE  IndInv'
<1> USE DEF IndInv, TypeOK, Drop, Resubscribe, BeginAdd, store, calls, locals
<1>1. TypeOK'
  OBVIOUS
<1>2. CachedInOrder' /\ NothingSkipped' /\ HandlersKnow'
  <2>1. log' = log /\ cache' = cache /\ at' = at
    OBVIOUS
  <2>2. CachedInOrder'
    <3>1. CachedInOrder
      OBVIOUS
    <3> QED BY ONLY <2>1, <3>1 DEF CachedInOrder
  <2>3. NothingSkipped'
    BY DEF NothingSkipped, Cached
  <2>4. HandlersKnow'
    BY DEF HandlersKnow, Owner, Position
  <2> QED BY <2>2, <2>3, <2>4
<1>3. Remembered' /\ Read' /\ Opened' /\ CacheIsFed'
  BY DEF Remembered, Read, Whole, Cached, Opened, CacheIsFed, Subscribed
<1> QED BY <1>1, <1>2, <1>3 DEF IndInv

\* A process that starts again with an empty cache.
LEMMA RestartInv ==
  ASSUME IndInv, Restart
  PROVE  IndInv'
<1> USE DEF IndInv, TypeOK, Restart
<1>1. TypeOK'
  <2>1. << >> \in Seq(DOMAIN log) /\ 0 \in 0 .. Len(log)
    OBVIOUS
  <2> QED BY <2>1 DEF Finished
<1>2. CachedInOrder' /\ NothingSkipped' /\ HandlersKnow'
  BY DEF CachedInOrder, NothingSkipped, HandlersKnow
<1>3. Remembered' /\ Read' /\ Opened' /\ CacheIsFed'
  BY DEF Remembered, Read, Finished, Opened, CacheIsFed
<1> QED BY <1>1, <1>2, <1>3 DEF IndInv

\* The event a handler has in hand: it is the next of its subscription, and
\* every earlier event of its user is in the list.
LEMMA InHand ==
  ASSUME IndInv, NEW q \in Requests, phase[q] \in {"adding", "storing", "inserting"}
  PROVE  /\ Position(q) \in DOMAIN log
         /\ Owner(q) \in Users
         /\ Owner(q) = log[Position(q)]
         /\ cache[Owner(q)] \in Seq(DOMAIN log)
         /\ \A i \in 1 .. (Position(q) - 1) : i <= at[q] /\ (log[i] = Owner(q) => i \in Cached(Owner(q)))
<1>1. at[q] \in Nat /\ at[q] < Len(log) /\ phase[q] # "none"
  BY DEF IndInv, TypeOK, HandlersKnow
<1>2. Position(q) \in DOMAIN log /\ Owner(q) \in Users /\ Owner(q) = log[Position(q)]
  BY <1>1 DEF IndInv, TypeOK, Owner, Position
<1>3. cache[Owner(q)] \in Seq(DOMAIN log)
  BY <1>2 DEF IndInv, TypeOK
<1>4. \A i \in 1 .. (Position(q) - 1) : i \in 1 .. at[q]
  BY <1>1 DEF Position
<1>5. \A i \in 1 .. at[q] : i <= at[q] /\ i \in Cached(log[i])
  BY <1>1 DEF IndInv, NothingSkipped
<1> QED BY <1>2, <1>3, <1>4, <1>5

\* A handler done with its event leaves it in the list, at its end if it was
\* not there.
LEMMA HandledInv ==
  ASSUME IndInv, NEW q \in Requests, phase[q] \in {"adding", "storing", "inserting"}, Handled(q),
         \/ cache' = [cache EXCEPT ![Owner(q)] = Append(@, Position(q))]
         \/ cache' = cache /\ Position(q) \in Cached(Owner(q))
  PROVE  IndInv' /\ \A u \in Users : Cached(u)' =
                      IF u = Owner(q) THEN Cached(u) \cup {Position(q)} ELSE Cached(u)
<1> DEFINE w == Owner(q)
           i == Position(q)
<1>1. /\ i \in DOMAIN log /\ w \in Users /\ log[i] = w /\ cache[w] \in Seq(DOMAIN log)
      /\ \A j \in 1 .. (i - 1) : j <= at[q] /\ (log[j] = w => j \in Cached(w))
  BY InHand
<1>2. /\ log' = log /\ initialized' = initialized /\ pc' = pc /\ asker' = asker /\ found' = found
      /\ names' = names /\ version' = version /\ told' = told /\ floor' = floor
      /\ phase' = [phase EXCEPT ![q] = "idle"] /\ at' = [at EXCEPT ![q] = i]
  BY DEF Handled, calls, locals
<1>3. /\ cache \in [Users -> Seq(DOMAIN log)] /\ at \in [Requests -> 0 .. Len(log)]
      /\ log \in Seq(Users)
  BY DEF IndInv, TypeOK
<1>4. cache' \in [Users -> Seq(DOMAIN log)]
  <2>1. Append(cache[w], i) \in Seq(DOMAIN log)
    BY <1>1, EventsAppend
  <2> QED BY <1>1, <1>3, <2>1
<1>5. \A u \in Users : Cached(u)' = IF u = w THEN Cached(u) \cup {i} ELSE Cached(u)
  <2>1. CASE cache' = [cache EXCEPT ![w] = Append(@, i)]
    <3>1. Events(Append(cache[w], i)) = Events(cache[w]) \cup {i}
      BY <1>1, EventsAppend
    <3> QED BY <1>1, <1>3, <2>1, <3>1 DEF Cached
  <2>2. CASE cache' = cache /\ i \in Cached(w)
    BY <2>2 DEF Cached
  <2> QED BY <2>1, <2>2
<1>6. TypeOK'
  BY <1>1, <1>2, <1>3, <1>4 DEF IndInv, TypeOK, Position
<1>7. CachedInOrder'
  <2>1. CASE cache' = cache
    BY <1>2, <2>1 DEF IndInv, CachedInOrder
  <2>2. CASE cache' = [cache EXCEPT ![w] = Append(@, i)]
    <3> SUFFICES ASSUME NEW u \in Users, NEW k \in DOMAIN cache'[u]
                 PROVE  /\ log[cache'[u][k]] = u
                        /\ \A j \in 1 .. (cache'[u][k] - 1) :
                             log[j] = u => \E l \in 1 .. (k - 1) : cache'[u][l] = j
      BY <1>2 DEF CachedInOrder
    <3>1. CASE u # w
      BY <1>3, <2>2, <3>1 DEF IndInv, CachedInOrder
    <3>2. CASE u = w
      <4> DEFINE c == cache[w]
                 n == Len(c)
      <4>1. /\ cache'[w] = Append(c, i) /\ n \in Nat /\ DOMAIN c = 1 .. n
            /\ DOMAIN Append(c, i) = DOMAIN c \cup {n + 1}
            /\ Append(c, i)[n + 1] = i
            /\ \A l \in DOMAIN c : Append(c, i)[l] = c[l]
        BY <1>1, <1>3, <2>2, EventsAppend
      <4>2. CASE k \in DOMAIN c
        <5>1. /\ log[c[k]] = w
              /\ \A j \in 1 .. (c[k] - 1) : log[j] = w => \E l \in 1 .. (k - 1) : c[l] = j
          BY <1>1, <4>2 DEF IndInv, CachedInOrder
        <5>2. \A l \in 1 .. (k - 1) : l \in DOMAIN c
          BY <4>1, <4>2
        <5> QED BY <3>2, <4>1, <4>2, <5>1, <5>2
      <4>3. CASE k = n + 1
        <5>1. \A j \in 1 .. (i - 1) : log[j] = w => \E l \in DOMAIN c : c[l] = j
          BY <1>1 DEF Cached, Events
        <5> QED BY <1>1, <3>2, <4>1, <4>3, <5>1
      <4> QED BY <3>2, <4>1, <4>2, <4>3
    <3> QED BY <3>1, <3>2
  <2> QED BY <2>1, <2>2
<1>8. NothingSkipped'
  <2> SUFFICES ASSUME NEW r \in Requests, phase'[r] # "none", NEW j \in 1 .. at'[r]
               PROVE  j \in Cached(log[j])'
    BY <1>2 DEF NothingSkipped
  <2>1. j \in DOMAIN log /\ log[j] \in Users
    BY <1>1, <1>2, <1>3
  <2>2. CASE r = q /\ j = i
    BY <1>1, <1>2, <1>5, <2>2 DEF Cached
  <2>3. CASE ~(r = q /\ j = i)
    <3>1. phase[r] # "none" /\ j \in 1 .. at[r]
      BY <1>1, <1>2, <1>3, <2>3 DEF Position
    <3>2. j \in Cached(log[j])
      BY <3>1 DEF IndInv, NothingSkipped
    <3> QED BY <1>2, <1>5, <2>1, <3>2 DEF Cached
  <2> QED BY <2>2, <2>3
<1>9. HandlersKnow'
  <2> SUFFICES ASSUME NEW r \in Requests
               PROVE  (/\ phase[r] \in {"adding", "storing", "inserting"} => at[r] < Len(log)
                       /\ phase[r] \in {"adding", "storing"} => cache[Owner(r)] # << >>
                       /\ phase[r] = "inserting" => \A j \in 1 .. at[r] : log[j] # Owner(r))'
    BY DEF HandlersKnow
  <2>1. CASE r = q
    BY <1>2, <2>1 DEF IndInv, TypeOK
  <2>2. CASE r # q
    <3>1. phase'[r] = phase[r] /\ at'[r] = at[r] /\ Owner(r)' = Owner(r)
      BY <1>2, <2>2 DEF Owner, Position
    <3>2. phase[r] \in {"adding", "storing"} => Owner(r) \in Users /\ cache[Owner(r)] # << >>
      BY InHand DEF IndInv, HandlersKnow
    <3>3. \A u \in Users : cache[u] # << >> => cache'[u] # << >>
      BY <1>1, <1>3, EventsAppend
    <3> QED BY <1>2, <3>1, <3>2, <3>3 DEF IndInv, HandlersKnow
  <2> QED BY <2>1, <2>2
<1>10. Remembered' /\ Read'
  BY <1>2, <1>5 DEF IndInv, Remembered, Read, Whole, Finished
<1>11. Opened' /\ CacheIsFed'
  BY <1>2 DEF IndInv, TypeOK, Opened, CacheIsFed, Subscribed
<1> QED BY <1>5, <1>6, <1>7, <1>8, <1>9, <1>10, <1>11 DEF IndInv

\* The event TryAdd discards is in the list: it is the first of its user, and
\* a list that is not empty has that one.
LEMMA Discarded ==
  ASSUME IndInv, NEW q \in Requests, phase[q] = "inserting", cache[Owner(q)] # << >>
  PROVE  Position(q) \in Cached(Owner(q))
<1> DEFINE w == Owner(q)
           i == Position(q)
           c == cache[w]
<1>1. /\ i \in DOMAIN log /\ w \in Users /\ log[i] = w /\ c \in Seq(DOMAIN log)
      /\ \A j \in 1 .. (i - 1) : j <= at[q]
  BY InHand
<1>2. 1 \in DOMAIN c /\ c[1] \in DOMAIN log
  BY <1>1
<1>3. log[c[1]] = w /\ \A j \in 1 .. (c[1] - 1) : log[j] # w
  BY <1>1, <1>2 DEF IndInv, CachedInOrder
<1>4. \A j \in 1 .. (i - 1) : log[j] # w
  BY <1>1 DEF IndInv, TypeOK, HandlersKnow
<1>5. c[1] = i
  <2>1. DOMAIN log = 1 .. Len(log) /\ Len(log) \in Nat
    BY DEF IndInv, TypeOK
  <2> QED BY <1>1, <1>2, <1>3, <1>4, <2>1
<1> QED BY <1>2, <1>5 DEF Cached, Events

\* A handler that adds its event to an existing list.
LEMMA AddInv ==
  ASSUME IndInv, NEW q \in Requests, Add(q)
  PROVE  IndInv'
BY HandledInv DEF Add

\* A handler that inserts a list, or finds that another did.
LEMMA TryAddInv ==
  ASSUME IndInv, NEW q \in Requests, TryAdd(q)
  PROVE  IndInv'
<1>1. cache[Owner(q)] \in Seq(DOMAIN log)
  BY InHand DEF TryAdd
<1>2. CASE cache[Owner(q)] = << >>
  <2>1. <<Position(q)>> = Append(<< >>, Position(q))
    OBVIOUS
  <2>2. cache' = [cache EXCEPT ![Owner(q)] = Append(@, Position(q))]
    BY <1>2, <2>1 DEF TryAdd
  <2> QED BY <2>2, HandledInv DEF TryAdd
<1>3. CASE cache[Owner(q)] # << >>
  <2>1. cache' = cache
    BY <1>3 DEF TryAdd, IndInv, TypeOK
  <2> QED BY <1>3, <2>1, Discarded, HandledInv DEF TryAdd
<1> QED BY <1>2, <1>3

\* Any step of a request.
LEMMA CallInv ==
  ASSUME IndInv, NEW q \in Requests, Call(q)
  PROVE  IndInv'
<1>1. CASE \E u \in Users : Ask(q, u)
  BY <1>1, AskInv
<1>2. CASE Subscribe(q) \/ Initialize(q)
  BY <1>2, SubscribeInv, InitializeInv
<1>3. CASE SubscribeThrows(q) \/ Modified(q) \/ ReadsNull(q)
  BY <1>3, ThrowsInv
<1>4. CASE TryGet(q) \/ Lookup(q)
  BY <1>4, FetchInv
<1>5. CASE GroupBy(q) \/ GetInitialEvent(q)
  BY <1>5, BeginsInv
<1>6. CASE Enumerated(q) \/ Answer(q)
  BY <1>6, EnumeratedInv, AnswerInv
<1> QED BY <1>1, <1>2, <1>3, <1>4, <1>5, <1>6 DEF Call

\* Any step of a subscription.
LEMMA SubscriptionInv ==
  ASSUME IndInv, NEW q \in Requests, Subscription(q)
  PROVE  IndInv'
BY HandleNewEventInv, AddInv, TryAddInv, DropInv, RestartInv DEF Subscription, ResubscribeThrows

\* The inductive invariant holds in every reachable state.
THEOREM ReadModelInvariance == Spec => []IndInv
<1>1. Init => IndInv
  BY InitInv
<1>2. IndInv /\ [Next]_vars => IndInv'
  <2> SUFFICES ASSUME IndInv, [Next]_vars PROVE IndInv'
    OBVIOUS
  <2>1. CASE \E u \in Users : AppendEvent(u)
    BY <2>1, AppendEventInv
  <2>2. CASE \E q \in Requests : Call(q) \/ Subscription(q)
    BY <2>2, CallInv, SubscriptionInv
  <2>3. CASE Crash
    BY <2>3, RestartInv DEF Crash
  <2>4. CASE UNCHANGED vars
    <3>1. UNCHANGED <<log, cache, initialized, phase, at, pc, asker, version, found, names, told, floor>>
      BY <2>4 DEF vars
    <3>2. CachedInOrder' /\ NothingSkipped' /\ HandlersKnow'
      BY <3>1, Unmoved DEF store, subs
    <3>3. TypeOK' /\ Opened' /\ CacheIsFed'
      BY <3>1 DEF IndInv, TypeOK, Opened, CacheIsFed, Subscribed
    <3>4. Remembered' /\ Read'
      BY <3>1 DEF IndInv, Remembered, Read, Whole, Cached
    <3> QED BY <3>2, <3>3, <3>4 DEF IndInv
  <2> QED BY <2>1, <2>2, <2>3, <2>4 DEF Next
<1> QED BY <1>1, <1>2, PTL DEF Spec

---------------------------------------------------------------------------
\* The safety properties

\* The variables keep their types.
THEOREM ReadModelTypeCorrect == Spec => []TypeOK
<1>1. IndInv => TypeOK
  BY DEF IndInv
<1> QED BY <1>1, ReadModelInvariance, PTL

\* Readers never see an event without the earlier events of its user.
THEOREM CacheKeepsOrder == Spec => []CachedInOrder
<1>1. IndInv => CachedInOrder
  BY DEF IndInv
<1> QED BY <1>1, ReadModelInvariance, PTL

\* No event a subscription has gone past is missing from the cache.
THEOREM NoEventIsSkipped == Spec => []NothingSkipped
<1>1. IndInv => NothingSkipped
  BY DEF IndInv
<1> QED BY <1>1, ReadModelInvariance, PTL

\* A cache that answers requests has a subscription.
THEOREM CacheStaysFed == Spec => []CacheIsFed
<1>1. IndInv => CacheIsFed
  BY DEF IndInv
<1> QED BY <1>1, ReadModelInvariance, PTL

\* A request made after another was answered makes its rows from every event
\* the other saw, although both read the live list without its lock.
THEOREM AnswersAreMonotonic == Spec => []AnswersNeverShrink
<1>1. IndInv => AnswersNeverShrink
  BY DEF IndInv, Remembered, AnswersNeverShrink
<1> QED BY <1>1, ReadModelInvariance, PTL

\* No answer is torn, however the list grows during and between its
\* enumerations: its rows are those of one moment and each name that of a later.
THEOREM NoAnswerIsTorn == Spec => []AnswersAreWhole
<1>1. IndInv => AnswersAreWhole
  BY DEF IndInv, Read, AnswersAreWhole
<1> QED BY <1>1, ReadModelInvariance, PTL

---------------------------------------------------------------------------
\* The number of copies

Copies(list, i) == {k \in DOMAIN list : list[k] = i}
Past(i) == {q \in Requests : at[q] >= i}

\* An event that is not in a list has no copy in it.
LEMMA NoCopies ==
  ASSUME NEW list, NEW i, i \notin Events(list)
  PROVE  Copies(list, i) = {}
BY DEF Copies, Events

\* The copies of an event are finitely many.
LEMMA CopiesFinite ==
  ASSUME NEW S, NEW s \in Seq(S), NEW i
  PROVE  IsFiniteSet(Copies(s, i)) /\ Cardinality(Copies(s, i)) \in Nat
<1>1. DOMAIN s = 1 .. Len(s) /\ Len(s) \in Int /\ 1 \in Int
  OBVIOUS
<1>2. IsFiniteSet(1 .. Len(s))
  BY <1>1, FS_Interval
<1>3. Copies(s, i) \in SUBSET (1 .. Len(s))
  BY <1>1 DEF Copies
<1>4. IsFiniteSet(Copies(s, i))
  BY <1>2, <1>3, FS_Subset
<1> QED
  BY <1>4, FS_CardinalityType

\* Appending an event adds one copy of it and none of another event.
LEMMA CopiesAppend ==
  ASSUME NEW S, NEW s \in Seq(S), NEW e \in S, NEW i
  PROVE  /\ i # e => Copies(Append(s, e), i) = Copies(s, i)
         /\ Copies(Append(s, e), e) = Copies(s, e) \cup {Len(s) + 1}
         /\ Len(s) + 1 \notin Copies(s, e)
<1>1. /\ DOMAIN Append(s, e) = DOMAIN s \cup {Len(s) + 1}
      /\ Append(s, e)[Len(s) + 1] = e
      /\ \A k \in DOMAIN s : Append(s, e)[k] = s[k]
  BY EventsAppend
<1>2. DOMAIN s = 1 .. Len(s) /\ Len(s) \in Nat /\ Len(s) + 1 \notin DOMAIN s
  OBVIOUS
<1>5. PICK a, n : a = Append(s, e) /\ n = Len(s) + 1
  OBVIOUS
<1>6. DOMAIN a = DOMAIN s \cup {n} /\ a[n] = e /\ n \notin DOMAIN s /\ \A k \in DOMAIN s : a[k] = s[k]
  BY <1>1, <1>2, <1>5
<1>7. /\ i # e => Copies(a, i) = Copies(s, i)
      /\ Copies(a, e) = Copies(s, e) \cup {n}
      /\ n \notin Copies(s, e)
  BY <1>6 DEF Copies
<1> QED
  BY <1>5, <1>7

\* The subscriptions past an event are finitely many.
LEMMA PastFinite ==
  \A i : /\ IsFiniteSet(Past(i)) /\ Cardinality(Past(i)) \in Nat
         /\ IsFiniteSet(Past(i)') /\ Cardinality(Past(i)') \in Nat
<1>1. \A i : Past(i) \in SUBSET Requests /\ Past(i)' \in SUBSET Requests
  BY DEF Past
<1> QED
  BY <1>1, RequestsAssumption, FS_Subset, FS_CardinalityType

\* While the lists stay and no subscription goes back, copies stay bounded.
LEMMA CopiesKept ==
  ASSUME IndInv, CopiesBounded, cache' = cache,
         \A q \in Requests : at'[q] \in Nat /\ at'[q] >= at[q]
  PROVE  CopiesBounded'
<1> SUFFICES ASSUME NEW u \in Users, NEW i \in Cached(u)
             PROVE  Cardinality(Copies(cache[u], i)) <= Cardinality(Past(i)')
  BY DEF CopiesBounded, Cached, Copies, Past
<1>1. Cardinality(Copies(cache[u], i)) <= Cardinality(Past(i))
  BY DEF CopiesBounded, Copies, Past
<1>2. i \in Nat /\ cache[u] \in Seq(DOMAIN log) /\ \A q \in Requests : at[q] \in Nat
  <2>1. DOMAIN log = 1 .. Len(log) /\ Len(log) \in Nat
    BY DEF IndInv, TypeOK
  <2>2. cache[u] \in Seq(DOMAIN log)
    BY DEF IndInv, TypeOK
  <2>3. i \in DOMAIN log
    BY <2>2, EventsIn DEF Cached
  <2> QED
    BY <2>1, <2>2, <2>3 DEF IndInv, TypeOK
<1>3. Past(i) \subseteq Past(i)'
  BY <1>2 DEF Past
<1>4. IsFiniteSet(Past(i)') /\ Cardinality(Past(i)') \in Nat
  BY PastFinite
<1>5. Cardinality(Past(i)) <= Cardinality(Past(i)')
  BY <1>3, <1>4, FS_Subset
<1>6. Cardinality(Copies(cache[u], i)) \in Nat
  BY <1>2, CopiesFinite
<1> QED
  BY <1>1, <1>4, <1>5, <1>6, PastFinite

\* A subscription that adds an event it has not handled before goes past it.
LEMMA CopiesAdded ==
  ASSUME IndInv, CopiesBounded, NEW q \in Requests, phase[q] \in {"adding", "storing", "inserting"},
         cache' = [cache EXCEPT ![Owner(q)] = Append(@, Position(q))], Handled(q)
  PROVE  CopiesBounded'
<1> DEFINE w == Owner(q)
           e == Position(q)
<1>0. /\ e \in DOMAIN log /\ w \in Users /\ cache[w] \in Seq(DOMAIN log)
      /\ at[q] \in Nat /\ e = at[q] + 1 /\ at' = [at EXCEPT ![q] = e]
      /\ DOMAIN log = 1 .. Len(log) /\ Len(log) \in Nat
      /\ \A u \in Users : cache[u] \in Seq(DOMAIN log)
      /\ \A p \in Requests : at[p] \in Nat
  BY InHand DEF IndInv, TypeOK, Handled, Position
<1> SUFFICES ASSUME NEW u \in Users, NEW i \in Cached(u)'
             PROVE  Cardinality(Copies(cache'[u], i)) <= Cardinality(Past(i)')
  BY DEF CopiesBounded, Copies, Past
<1>a. i \in DOMAIN log /\ i \in Nat
  <2>1. cache'[u] \in Seq(DOMAIN log)
    BY <1>0, EventsAppend DEF IndInv, TypeOK
  <2> QED
    BY <1>0, <2>1, EventsIn DEF Cached
<1>b. /\ i = e => Past(i)' = Past(i) \cup {q} /\ q \notin Past(i)
      /\ i # e => Past(i)' = Past(i)
  BY <1>0, <1>a DEF Past, IndInv, TypeOK
<1>c. \A j : Cardinality(Copies(cache[u], j)) <= Cardinality(Past(j)) /\ IsFiniteSet(Copies(cache[u], j))
  <2> TAKE j
  <2>1. IsFiniteSet(Copies(cache[u], j))
    BY <1>0, CopiesFinite
  <2>2. CASE j \in Cached(u)
    BY <2>1, <2>2 DEF CopiesBounded, Copies, Past
  <2>3. CASE j \notin Cached(u)
    <3>1. Cardinality(Copies(cache[u], j)) = 0
      BY <2>3, NoCopies, FS_EmptySet DEF Cached
    <3> QED
      BY <2>1, <3>1, PastFinite
  <2> QED
    BY <2>2, <2>3
<1>d. PICK c \in Seq(DOMAIN log) : c = cache[u]
  BY <1>0
<1>e. /\ u = w => cache'[u] = Append(c, e)
      /\ u # w => cache'[u] = c
  BY <1>0, <1>d DEF IndInv, TypeOK
<1>f. /\ i # e => Copies(Append(c, e), i) = Copies(c, i)
      /\ Copies(Append(c, e), e) = Copies(c, e) \cup {Len(c) + 1}
      /\ Len(c) + 1 \notin Copies(c, e)
  <2>1. PICK S, x : S = DOMAIN log /\ x = e
    OBVIOUS
  <2>2. c \in Seq(S) /\ x \in S
    BY <1>0, <1>d, <2>1
  <2> HIDE DEF e
  <2>3. /\ i # x => Copies(Append(c, x), i) = Copies(c, i)
        /\ Copies(Append(c, x), x) = Copies(c, x) \cup {Len(c) + 1}
        /\ Len(c) + 1 \notin Copies(c, x)
    BY <2>2, CopiesAppend
  <2> QED
    BY <2>1, <2>3
<1> HIDE DEF w, e
<1>1. CASE u = w /\ i = e
  <2>1. /\ Copies(cache'[u], i) = Copies(c, i) \cup {Len(c) + 1}
        /\ Len(c) + 1 \notin Copies(c, i)
    BY <1>1, <1>e, <1>f
  <2>2. Cardinality(Copies(cache'[u], i)) = Cardinality(Copies(c, i)) + 1
    BY <1>c, <1>d, <2>1, FS_AddElement
  <2>3. Cardinality(Past(i)') = Cardinality(Past(i)) + 1
    BY <1>1, <1>b, PastFinite, FS_AddElement
  <2>4. Cardinality(Copies(c, i)) \in Nat /\ Cardinality(Past(i)) \in Nat
    BY <1>c, <1>d, PastFinite, FS_CardinalityType
  <2> QED
    BY <1>c, <1>d, <2>2, <2>3, <2>4
<1>2. CASE ~(u = w /\ i = e)
  <2>1. Copies(cache'[u], i) = Copies(c, i)
    BY <1>2, <1>e, <1>f
  <2>2. Cardinality(Past(i)) <= Cardinality(Past(i)')
    <3>1. Cardinality(Past(i)) \in Nat /\ IsFiniteSet(Past(i))
      BY PastFinite
    <3>2. CASE i = e
      <4>1. Cardinality(Past(i)') = Cardinality(Past(i)) + 1
        BY <1>b, <3>1, <3>2, FS_AddElement
      <4> QED
        BY <3>1, <4>1
    <3>3. CASE i # e
      BY <1>b, <3>1, <3>3
    <3> QED
      BY <3>2, <3>3
  <2>3. /\ Cardinality(Copies(c, i)) \in Nat /\ Cardinality(Past(i)) \in Nat
        /\ Cardinality(Past(i)') \in Nat
    <3>1. Cardinality(Past(i)') \in Nat
      BY PastFinite
    <3> QED
      BY <1>c, <1>d, <3>1, PastFinite, FS_CardinalityType
  <2> QED
    BY <1>c, <1>d, <2>1, <2>2, <2>3
<1> QED
  BY <1>1, <1>2

\* Every step keeps the number of copies within the number of subscriptions.
LEMMA CopiesStep ==
  ASSUME IndInv, CopiesBounded, NotBegun, [Next]_vars
  PROVE  CopiesBounded' /\ NotBegun'
<1>0. \A q \in Requests : at[q] \in Nat
  BY DEF IndInv, TypeOK
<1>1. CASE Restart
  <2>1. CopiesBounded'
    BY <1>1, EventsNone DEF Restart, CopiesBounded, Cached
  <2>2. NotBegun'
    BY <1>1 DEF Restart, NotBegun
  <2> QED
    BY <2>1, <2>2
<1>2. ASSUME NEW q \in Requests, Subscribe(q) PROVE CopiesBounded' /\ NotBegun'
  <2>1. \A p \in Requests : at'[p] = at[p]
    BY <1>2 DEF Subscribe, Goto, NotBegun, IndInv, TypeOK
  <2>2. CopiesBounded'
    BY <1>0, <1>2, <2>1, CopiesKept DEF Subscribe, store
  <2>3. NotBegun'
    BY <1>2, <2>1 DEF NotBegun, Subscribe, Goto, IndInv, TypeOK
  <2> QED
    BY <2>2, <2>3
<1>3. ASSUME NEW q \in Requests, Add(q) \/ TryAdd(q) PROVE CopiesBounded' /\ NotBegun'
  <2>1. phase[q] \in {"adding", "storing", "inserting"} /\ Handled(q)
    BY <1>3 DEF Add, TryAdd
  <2>2. at' = [at EXCEPT ![q] = at[q] + 1]
    BY <2>1 DEF Handled, Position
  <2>3. NotBegun'
    BY <2>1, <2>2 DEF NotBegun, Handled, calls, IndInv, TypeOK
  <2>4. CASE cache' = [cache EXCEPT ![Owner(q)] = Append(@, Position(q))]
    BY <2>1, <2>3, <2>4, CopiesAdded
  <2>5. CASE cache' = cache
    <3>1. \A p \in Requests : at'[p] \in Nat /\ at'[p] >= at[p]
      BY <1>0, <2>2 DEF IndInv, TypeOK
    <3> QED
      BY <2>3, <2>5, <3>1, CopiesKept
  <2>6. CASE TryAdd(q)
    <3>1. CASE cache[Owner(q)] = << >>
      <4>1. <<Position(q)>> = Append(<< >>, Position(q))
        OBVIOUS
      <4> QED
        BY <2>4, <2>6, <3>1, <4>1 DEF TryAdd
    <3>2. CASE cache[Owner(q)] # << >>
      BY <2>5, <2>6, <3>2 DEF TryAdd, IndInv, TypeOK
    <3> QED
      BY <3>1, <3>2
  <2> QED
    BY <1>3, <2>4, <2>6 DEF Add
<1>4. CASE UNCHANGED <<cache, at>> /\ (\A q \in Requests : pc'[q] \in {"idle", "subscribing"} =>
             pc[q] \in {"idle", "subscribing"} /\ phase'[q] = phase[q])
  <2>1. CopiesBounded'
    BY <1>0, <1>4, CopiesKept
  <2>2. NotBegun'
    BY <1>4 DEF NotBegun
  <2> QED
    BY <2>1, <2>2
<1>5. ASSUME NEW q \in Requests, Call(q) PROVE CopiesBounded' /\ NotBegun'
  <2>1. CASE ~Subscribe(q)
    <3>1. UNCHANGED <<cache, subs>>
      BY <1>5, <2>1 DEF Call, Ask, SubscribeThrows, Initialize, TryGet, Lookup, GroupBy,
             GetInitialEvent, EnumerationBegins, Enumerated, Modified, ReadsNull, Answer, store
    <3>2. \A p \in Requests : pc'[p] \in {"idle", "subscribing"} => pc[p] \in {"idle", "subscribing"}
      BY <1>5, <2>1
         DEF Call, Ask, SubscribeThrows, Initialize, TryGet, Lookup, GroupBy, GetInitialEvent,
             EnumerationBegins, Enumerated, Modified, ReadsNull, Answer, Return, Goto, IndInv, TypeOK
    <3> QED
      BY <1>4, <3>1, <3>2 DEF subs
  <2> QED
    BY <1>2, <2>1
<1>6. ASSUME NEW q \in Requests, Subscription(q) PROVE CopiesBounded' /\ NotBegun'
  <2>1. CASE HandleNewEvent(q) \/ Drop(q) \/ Resubscribe(q) \/ BeginAdd(q)
    <3>1. UNCHANGED <<cache, at, pc>> /\ phase[q] # "none"
      BY <2>1 DEF HandleNewEvent, Drop, Resubscribe, BeginAdd, store, calls
    <3>2. \A p \in Requests : p # q => phase'[p] = phase[p]
      BY <2>1 DEF HandleNewEvent, Drop, Resubscribe, BeginAdd, IndInv, TypeOK
    <3>3. pc[q] \notin {"idle", "subscribing"}
      BY <3>1 DEF NotBegun
    <3> QED
      BY <1>4, <3>1, <3>2, <3>3
  <2> QED
    BY <1>1, <1>3, <1>6, <2>1 DEF Subscription, ResubscribeThrows
<1>7. CASE \E u \in Users : AppendEvent(u)
  BY <1>4, <1>7 DEF AppendEvent, subs, calls
<1>8. CASE UNCHANGED vars
  BY <1>4, <1>8 DEF vars
<1> QED
  BY <1>1, <1>5, <1>6, <1>7, <1>8 DEF Next, Crash

\* A list holds an event at most once for each subscription that handled it,
\* for any number of subscriptions and drops.
THEOREM CopiesStayBounded == Spec => []CopiesBounded
<1>1. Init => CopiesBounded /\ NotBegun
  BY EventsNone DEF Init, CopiesBounded, NotBegun, Cached
<1>2. IndInv /\ CopiesBounded /\ NotBegun /\ [Next]_vars => CopiesBounded' /\ NotBegun'
  BY CopiesStep
<1> QED
  BY <1>1, <1>2, ReadModelInvariance, PTL DEF Spec

---------------------------------------------------------------------------
\* The cache implements EventView

Shown == [u \in Users |-> Cached(u)]

\* The cache begins as an empty view.
LEMMA InitView == Init => View!Init
BY EventsNone DEF Init, View!Init, Cached

\* A handler done with its event shows it, unless it was shown already.
LEMMA HandledShows ==
  ASSUME IndInv, NEW q \in Requests, Add(q) \/ TryAdd(q)
  PROVE  View!Show(Owner(q)) \/ UNCHANGED <<log, Shown>>
<1> DEFINE w == Owner(q)
           i == Position(q)
<1>1. phase[q] \in {"adding", "storing", "inserting"} /\ log' = log
  BY DEF Add, TryAdd, Handled
<1>2. /\ i \in DOMAIN log /\ w \in Users /\ log[i] = w
      /\ \A j \in 1 .. (i - 1) : log[j] = w => j \in Cached(w)
  BY <1>1, InHand
<1>3. \A u \in Users : Cached(u)' = IF u = w THEN Cached(u) \cup {i} ELSE Cached(u)
  <2>1. CASE Add(q)
    BY <2>1, HandledInv DEF Add
  <2>2. CASE TryAdd(q) /\ cache[w] = << >>
    <3>1. <<i>> = Append(<< >>, i)
      OBVIOUS
    <3>2. cache' = [cache EXCEPT ![w] = Append(@, i)]
      BY <2>2, <3>1 DEF TryAdd
    <3> QED BY <2>2, <3>2, HandledInv DEF TryAdd
  <2>3. CASE TryAdd(q) /\ cache[w] # << >>
    <3>1. cache' = cache
      BY <2>3 DEF TryAdd, IndInv, TypeOK
    <3> QED BY <2>3, <3>1, Discarded, HandledInv DEF TryAdd
  <2> QED BY <2>1, <2>2, <2>3
<1>4. Shown' = [Shown EXCEPT ![w] = @ \cup {i}]
  BY <1>2, <1>3 DEF Shown
<1>5. CASE i \in Cached(w)
  BY <1>1, <1>3, <1>5 DEF Shown
<1>6. CASE i \notin Cached(w)
  <2>1. View!Oldest(w, i)
    BY <1>2, <1>6 DEF View!Oldest
  <2> QED BY <1>1, <1>2, <1>4, <2>1 DEF View!Show, Shown
<1> QED BY <1>5, <1>6

\* A restart shows nothing.
LEMMA RestartForgets ==
  ASSUME Restart
  PROVE  View!Forget
BY EventsNone DEF Restart, View!Forget, Cached

\* Every step of the cache is a step of the view or leaves it alone.
LEMMA StepView ==
  ASSUME IndInv, [Next]_vars
  PROVE  [View!Next]_(View!vars)
<1>1. CASE \E u \in Users : AppendEvent(u)
  BY <1>1 DEF AppendEvent, View!Next, View!Record, Cached
<1>2. CASE UNCHANGED store
  BY <1>2 DEF store, View!vars, Cached
<1>3. CASE \E q \in Requests : Add(q) \/ TryAdd(q)
  <2> PICK q \in Requests : Add(q) \/ TryAdd(q)
    BY <1>3
  <2>1. Owner(q) \in Users
    BY InHand DEF Add, TryAdd
  <2> QED BY <2>1, HandledShows DEF Shown, View!Next, View!vars
<1>4. CASE Restart
  BY <1>4, RestartForgets DEF View!Next
<1>5. \/ \E u \in Users : AppendEvent(u)
      \/ UNCHANGED store
      \/ \E q \in Requests : Add(q) \/ TryAdd(q)
      \/ Restart
  BY DEF Next, vars, store, Call, Ask, Subscribe, SubscribeThrows, Initialize, TryGet, Lookup, GroupBy,
         GetInitialEvent, EnumerationBegins, Enumerated, Modified, ReadsNull, Answer,
         Subscription, HandleNewEvent, BeginAdd, Drop, Resubscribe, ResubscribeThrows, Crash
<1> QED BY <1>1, <1>2, <1>3, <1>4, <1>5

\* The cache of a process is an in-memory view of the log: each user's list
\* shows a growing prefix of their events, and a restart empties it.
THEOREM CacheImplementsView == Spec => ViewSpec
<1>1. Init => View!Init
  BY InitView
<1>2. IndInv /\ [Next]_vars => [View!Next]_(View!vars)
  BY StepView
<1> QED BY <1>1, <1>2, ReadModelInvariance, PTL DEF Spec, ViewSpec, View!Spec
===========================================================================
