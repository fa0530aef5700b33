------------------------------ MODULE Sorting ------------------------------
(***************************************************************************)
(* Lemmas about sorting by date: the queries of QueryService take the first *)
(* of a group in the descending, stable order of the dates.                 *)
(***************************************************************************)
EXTENDS Integers, WellFoundedInduction, TLAPS

LessNat == {ss \in Nat \X Nat : ss[1] < ss[2]}

\* A nonempty set of numbers has a least one.
LEMMA LeastNat ==
  ASSUME NEW T \in SUBSET Nat, T # {}
  PROVE  \E x \in T : \A y \in T : x <= y
<1>1. IsWellFoundedOn(LessNat, Nat)
  BY NatLessThanWellFounded, Zenon DEF OpToRel, LessNat
<1>2. \E x \in T : \A y \in T : <<y, x>> \notin LessNat
  BY <1>1, WFMin, Zenon
<1>3. PICK x \in T : \A y \in T : <<y, x>> \notin LessNat
  BY <1>2
<1>4. ASSUME NEW y \in T, y < x
      PROVE  FALSE
  <2>1. <<y, x>> \in Nat \X Nat /\ <<y, x>>[1] < <<y, x>>[2]
    BY <1>4
  <2> QED
    BY <2>1, <1>3 DEF LessNat
<1> QED
  BY <1>3, <1>4

\* No event of the group goes before event i in the descending order by date.
GoesFirst(events, i, group) == \A j \in group :
  events[j].date < events[i].date \/ (events[j].date = events[i].date /\ i <= j)

\* Adding one more place to a group that has a first leaves a group with one.
LEMMA FirstOfMore ==
  ASSUME NEW events, NEW m \in Nat, NEW group, \A j \in group : j \in 1 .. m,
         \A j \in group : events[j].date \in Int,
         NEW i \in group \ {m}, GoesFirst(events, i, group \ {m})
  PROVE  \E k \in group : GoesFirst(events, k, group)
<1>1. \A j \in group : j # m =>
        events[j].date < events[i].date \/ (events[j].date = events[i].date /\ i <= j)
  BY DEF GoesFirst
<1>2. i \in 1 .. m /\ events[i].date \in Int
  OBVIOUS
<1>3. CASE m \in group /\ events[i].date < events[m].date
  <2>1. \A j \in group : j # m => events[j].date < events[m].date
    BY <1>1, <1>2, <1>3
  <2> QED
    BY <1>3, <2>1 DEF GoesFirst
<1>4. CASE m \in group /\ ~(events[i].date < events[m].date)
  <2>1. events[m].date < events[i].date \/ (events[m].date = events[i].date /\ i <= m)
    BY <1>2, <1>4
  <2> QED
    BY <1>1, <2>1 DEF GoesFirst
<1>5. CASE m \notin group
  BY <1>1, <1>5 DEF GoesFirst
<1> QED
  BY <1>3, <1>4, <1>5

\* A nonempty group of a list has an event that goes first.
LEMMA FirstExists ==
  ASSUME NEW events, NEW n \in Nat, NEW group, group \subseteq 1 .. n, group # {},
         \A i \in group : events[i].date \in Int
  PROVE  \E i \in group : GoesFirst(events, i, group)
<1> DEFINE T == {m \in Nat : \E G \in SUBSET group :
                  /\ G # {} /\ \A i \in G : i \in 1 .. m
                  /\ \A i \in G : ~GoesFirst(events, i, G)}
<1>1. T = {}
  <2> SUFFICES ASSUME T # {} PROVE FALSE
    OBVIOUS
  <2>1. PICK m \in T : \A y \in T : m <= y
    BY LeastNat
  <2>2. PICK G \in SUBSET group : /\ G # {} /\ \A i \in G : i \in 1 .. m
                                  /\ \A i \in G : ~GoesFirst(events, i, G)
    OBVIOUS
  <2>3. m \in Nat /\ \A j \in G : j \in 1 .. m /\ events[j].date \in Int
    BY <2>2
  <2>4. PICK x \in G : x \in 1 .. m
    BY <2>2
  <2>5. m - 1 \in Nat /\ m - 1 \notin T
    <3>1. m - 1 \in Nat /\ ~(m <= m - 1)
      BY <2>3, <2>4
    <3> QED
      BY <2>1, <3>1
  <2>6. CASE G \ {m} = {}
    <3>1. \A j \in G : j = m
      BY <2>6
    <3>2. \A j \in G : events[j].date = events[m].date /\ m <= j
      BY <2>3, <3>1
    <3>3. GoesFirst(events, m, G)
      BY <3>2 DEF GoesFirst
    <3> QED
      BY <2>2, <2>4, <3>1, <3>3
  <2>7. CASE G \ {m} # {}
    <3>1. \A j \in G \ {m} : j \in 1 .. (m - 1)
      BY <2>3, <2>4
    <3>2. \E i \in G \ {m} : GoesFirst(events, i, G \ {m})
      BY <2>5, <2>7, <3>1
    <3>3. PICK i \in G \ {m} : GoesFirst(events, i, G \ {m})
      BY <3>2
    <3>4. \E k \in G : GoesFirst(events, k, G)
      BY <2>3, <3>3, FirstOfMore
    <3> QED
      BY <2>2, <3>4
  <2> QED
    BY <2>6, <2>7
<1> QED
  BY <1>1
===========================================================================
