----------------------------- MODULE EventView -----------------------------
(***************************************************************************)
(* What an in-memory read model of an event log promises its readers: each  *)
(* topic shows a prefix of its own events, which grows one event at a time  *)
(* and in the log's order, and falls back to nothing only when the process  *)
(* that keeps it restarts.                                                  *)
(***************************************************************************)
EXTENDS Naturals, Sequences

CONSTANT Topics

VARIABLES
  log,    \* the topics of the events, in the order of the log
  shown   \* topic -> the events readers can see

vars == <<log, shown>>

Init ==
  /\ log = << >>
  /\ shown = [t \in Topics |-> {}]

Record(t) ==
  /\ log' = Append(log, t)
  /\ UNCHANGED shown

\* The oldest event of its topic that is not shown yet.
Oldest(t, i) ==
  /\ log[i] = t
  /\ i \notin shown[t]
  /\ \A j \in 1 .. (i - 1) : log[j] = t => j \in shown[t]

Show(t) ==
  /\ \E i \in DOMAIN log :
       /\ Oldest(t, i)
       /\ shown' = [shown EXCEPT ![t] = @ \cup {i}]
  /\ UNCHANGED log

Forget ==
  /\ shown' = [t \in Topics |-> {}]
  /\ UNCHANGED log

Next == Forget \/ \E t \in Topics : Record(t) \/ Show(t)

Spec == Init /\ [][Next]_vars
===========================================================================
