---------------------------- MODULE Operations ----------------------------
(***************************************************************************)
(* What the write side promises of each operation, at least once: it is     *)
(* accepted, its command is delivered, each delivery may begin and then end *)
(* once, and the command is closed, after which it is not delivered again.  *)
(* A delivery made before may still begin or end after that, so an          *)
(* operation is never final; but when all that began have ended, a reader   *)
(* who sorts its events by date sees it settled.                            *)
(***************************************************************************)
CONSTANTS
  Guids,       \* the operations
  Deliveries,  \* the numbers of the deliveries of a command
  Redelivery,  \* whether a command may be delivered again, a Boolean
  Throws       \* whether a handler may throw, a Boolean

VARIABLES
  stage,   \* operation -> what its events say, sorted by date
  given,   \* operation -> its deliveries
  begun,   \* operation -> the deliveries that recorded a start
  ended,   \* operation -> the deliveries that recorded an end
  closed   \* operation -> whether its command is delivered no more

vars == <<stage, given, begun, ended, closed>>

Init ==
  /\ stage = [g \in Guids |-> "none"]
  /\ given = [g \in Guids |-> {}]
  /\ begun = [g \in Guids |-> {}]
  /\ ended = [g \in Guids |-> {}]
  /\ closed = [g \in Guids |-> FALSE]

Accept(g) ==
  /\ stage[g] = "none"
  /\ stage' = [stage EXCEPT ![g] = "accepted"]
  /\ UNCHANGED <<given, begun, ended, closed>>

Deliver(g, n) ==
  /\ stage[g] # "none" /\ ~closed[g]
  /\ n \notin given[g]
  /\ given[g] = {} \/ Redelivery
  /\ given' = [given EXCEPT ![g] = @ \cup {n}]
  /\ UNCHANGED <<stage, begun, ended, closed>>

\* The first start opens the operation; a later one may open it again.
Begin(g, n) ==
  /\ n \in given[g] \ begun[g]
  /\ begun' = [begun EXCEPT ![g] = @ \cup {n}]
  /\ \E s \in {"started"} \cup ({stage[g]} \ {"accepted"}) : stage' = [stage EXCEPT ![g] = s]
  /\ UNCHANGED <<given, ended, closed>>

\* An end settles the operation unless a delivery that began has not ended.
End(g, n) ==
  /\ n \in begun[g] \ ended[g]
  /\ ended' = [ended EXCEPT ![g] = @ \cup {n}]
  /\ \E s \in {"settled"} \cup (IF ended[g] \cup {n} = begun[g] THEN {} ELSE {stage[g]}) :
       stage' = [stage EXCEPT ![g] = s]
  /\ UNCHANGED <<given, begun, closed>>

Close(g) ==
  /\ ~closed[g]
  /\ ended[g] # {} \/ Throws
  /\ closed' = [closed EXCEPT ![g] = TRUE]
  /\ UNCHANGED <<stage, given, begun, ended>>

Next == \E g \in Guids :
  \/ Accept(g) \/ Close(g)
  \/ \E n \in Deliveries : Deliver(g, n) \/ Begin(g, n) \/ End(g, n)

Spec == Init /\ [][Next]_vars
===========================================================================
