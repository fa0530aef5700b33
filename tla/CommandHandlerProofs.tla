----------------------- MODULE CommandHandlerProofs -----------------------
(***************************************************************************)
(* What the write side guarantees for any users, ids, replicas, faults,     *)
(* clocks and bounds.                                                       *)
(***************************************************************************)
EXTENDS CommandHandlerInv, Sorting

---------------------------------------------------------------------------
\* Types

\* The statuses and results of events are among the declared ones.
LEMMA ContractTypes ==
  /\ \A k \in Kinds : OpeningStatus(k) \in OperationStatus /\ ~Settling(OpeningStatus(k))
  /\ \A k \in Kinds, l \in Lines :
       /\ ClosingStatus(k, l) \in OperationStatus
       /\ Settling(ClosingStatus(k, l))
       /\ ClosingResult(k, l) \in Results
  /\ \A k \in Kinds : Printed(k) \subseteq Lines
BY DEF Kinds, OpeningStatus, OperationStatus, Settling, Lines, ClosingStatus,
       ClosingResult, Results, Printed, IsDouble

\* An event a handler builds is an event.
LEMMA BuiltType ==
  ASSUME TypeOK, NEW r \in Runs, NEW p \in Replicas, NEW phase \in {"opening", "closing"},
         NEW status \in OperationStatus, NEW result \in Results, command[r[1]] # None
  PROVE  /\ Built(r, phase, p, status, result) \in Event
         /\ Built(r, phase, p, status, result) # None
         /\ OfCommand(Built(r, phase, p, status, result), r[1])
<1>1. r[1] \in Guids /\ command[r[1]] \in Command
  BY DEF TypeOK, Runs
<1>2. now + Skew[p] \in Int
  BY SkewAssumption DEF TypeOK
<1> QED
  BY <1>1, <1>2, NoneIsNoEvent DEF Built, Event, Command, OfCommand

\* The initial state has its types.
LEMMA InitTypeOK == Init => TypeOK
BY ReplicasAssumption DEF Init, TypeOK

\* Every step keeps the types.
LEMMA TypeOKStep ==
  ASSUME TypeOK, RunsInOrder, Next
  PROVE  TypeOK'
<1> USE DEF TypeOK
<1>1. CASE Client
  <2> PICK u \in Users, g \in Guids :
        \E f \in Guids, k \in Kinds : Publish(g, [kind |-> k, user |-> u, file |-> f])
    BY <1>1 DEF Client, SendFileToAnalysis, CreateSource, AnalyzeFile, Kinds
  <2> PICK f \in Guids, k \in Kinds : Publish(g, [kind |-> k, user |-> u, file |-> f])
    OBVIOUS
  <2> [kind |-> k, user |-> u, file |-> f] \in Command
    BY DEF Command
  <2> QED
    BY DEF Publish
<1>2. CASE \E r \in Runs : Step(r)
  <2> PICK r \in Runs : Step(r)
    BY <1>2
  <2>1. ASSUME NEW p \in Replicas, Deliver(r, p)
        PROVE  TypeOK'
    BY <2>1 DEF Deliver, Live
  <2>a. CASE HandleAsync(r)
    <3>1. command[r[1]] # None /\ KindOf(r) \in Kinds /\ on[r] \in Replicas
      BY <2>a DEF HandleAsync, RunsInOrder, KindOf, Runs, Command
    <3>2. Built(r, "opening", on[r], OpeningStatus(KindOf(r)), "zero") \in Event
      BY <3>1, BuiltType, ContractTypes DEF Results
    <3> QED
      BY <2>a, <3>2 DEF HandleAsync, Live
  <2>2. CASE AppendToStream(r)
    BY <2>2 DEF AppendToStream, RunsInOrder, Live
  <2>3. CASE AppendFails(r)
    BY <2>3 DEF AppendFails, RunsInOrder, Live
  <2>4. CASE ScriptEnds(r)
    <3>1. command[r[1]] # None /\ KindOf(r) \in Kinds /\ on[r] \in Replicas
      BY <2>4 DEF ScriptEnds, RunsInOrder, KindOf, Runs, Command
    <3>2. PICK line \in Printed(KindOf(r)) :
            pending' = [pending EXCEPT ![r] = Built(r, "closing", on[r],
              ClosingStatus(KindOf(r), line), ClosingResult(KindOf(r), line))]
      BY <2>4 DEF ScriptEnds
    <3>3. Built(r, "closing", on[r], ClosingStatus(KindOf(r), line),
                ClosingResult(KindOf(r), line)) \in Event
      BY <3>1, BuiltType, ContractTypes
    <3> QED
      BY <2>4, <3>2, <3>3 DEF ScriptEnds, Live
  <2>5. CASE RunnerThrows(r)
    BY <2>5 DEF RunnerThrows, Live
  <2>6. CASE Ack(r)
    BY <2>6 DEF Ack, Over
  <2> QED
    BY <2>1, <2>a, <2>2, <2>3, <2>4, <2>5, <2>6 DEF Step
<1>3. CASE Environment
  <2> PICK p \in Replicas : Crash(p) \/ Disconnect(p) \/ Connect(p)
    BY <1>3 DEF Environment
  <2>1. ASSUME Requeue(p)
        PROVE  ready' \subseteq Guids /\ held' \subseteq Runs
    BY <2>1 DEF Requeue, Runs
  <2>2. CASE Crash(p)
    BY <2>1, <2>2 DEF Crash, Over
  <2>3. CASE Disconnect(p)
    BY <2>1, <2>3 DEF Disconnect
  <2>4. CASE Connect(p)
    BY <2>4 DEF Connect
  <2> QED
    BY <2>2, <2>3, <2>4
<1>4. CASE Quiescent
  BY <1>4 DEF Quiescent, vars
<1> QED
  BY <1>1, <1>2, <1>3, <1>4 DEF Next

---------------------------------------------------------------------------
\* What a step leaves alone

\* The other deliveries of a run's command are runs too.
LEMMA EarlierRuns ==
  ASSUME NEW s \in Runs
  PROVE  /\ s = <<s[1], s[2]>> /\ s[1] \in Guids /\ s[2] \in 1 .. MaxDeliveries
         /\ \A m \in 1 .. MaxDeliveries : <<s[1], m>> \in Runs
         /\ \A m \in 1 .. (s[2] - 1) : <<s[1], m>> \in Runs
         /\ \A m \in (s[2] + 1) .. MaxDeliveries : <<s[1], m>> \in Runs
<1>1. s = <<s[1], s[2]>> /\ s[1] \in Guids /\ s[2] \in 1 .. MaxDeliveries
  BY DEF Runs
<1>2. \A m \in 1 .. MaxDeliveries : <<s[1], m>> \in Runs
  BY <1>1 DEF Runs
<1> QED
  BY <1>1, <1>2, BoundsAssumption

\* Published commands and the replica of a started run never change, a started
\* run stays started, and time does not go back.
LEMMA Frame ==
  ASSUME TypeOK, RunsInOrder, Next
  PROVE  /\ now' \in {now, now + 1}
         /\ \A g \in Guids : command[g] # None => command'[g] = command[g]
         /\ \A s \in Runs : pc[s] # "idle" => pc'[s] # "idle" /\ on'[s] = on[s]
         /\ \A s \in Runs : pc[s] \notin {"idle", "delivered"} => pc'[s] # "delivered"
<1> USE DEF TypeOK
<1>1. CASE Client
  BY <1>1 DEF Client, SendFileToAnalysis, CreateSource, AnalyzeFile, Publish, Fresh, Published
<1>2. CASE \E r \in Runs : Step(r)
  BY <1>2 DEF Step, Deliver, HandleAsync, AppendToStream, AppendFails, ScriptEnds, RunnerThrows, Ack
<1>3. CASE Environment
  BY <1>3 DEF Environment, Crash, Disconnect, Connect
<1>4. CASE Quiescent
  BY <1>4 DEF Quiescent, vars
<1> QED
  BY <1>1, <1>2, <1>3, <1>4 DEF Next

\* The deliveries of a command are numbered in order.
LEMMA RunsInOrderStep ==
  ASSUME TypeOK, RunsInOrder, LastRun, Next
  PROVE  RunsInOrder'
<1> USE DEF TypeOK
<1>1. CASE Client
  <2> PICK u \in Users, g \in Guids :
        \E f \in Guids, k \in Kinds : Publish(g, [kind |-> k, user |-> u, file |-> f])
    BY <1>1 DEF Client, SendFileToAnalysis, CreateSource, AnalyzeFile, Kinds
  <2> PICK f \in Guids, k \in Kinds : Publish(g, [kind |-> k, user |-> u, file |-> f])
    OBVIOUS
  <2>1. [kind |-> k, user |-> u, file |-> f] # None
    BY NoneAssumption DEF Command
  <2> QED
    BY <2>1 DEF Publish, RunsInOrder, Runs
<1>2. CASE \E r \in Runs : Step(r)
  <2> PICK r \in Runs : Step(r)
    BY <1>2
  <2>1. ASSUME NEW p \in Replicas, Deliver(r, p)
        PROVE  RunsInOrder'
    <3>1. command[r[1]] # None
      BY <2>1 DEF Deliver, RunsInOrder
    <3>2. on'[r] \in Replicas /\ pending' = pending
      BY <2>1 DEF Deliver
    <3>4. \A s \in Runs : s # r => on'[s] = on[s] /\ pc'[s] = pc[s]
      BY <2>1 DEF Deliver
    <3>5. pc'[r] = "delivered" /\ command' = command /\ ready' \subseteq ready
      BY <2>1 DEF Deliver
    <3>6. \A s \in Runs : \A m \in 1 .. (s[2] - 1) : <<s[1], m>> \in Runs
      BY EarlierRuns
    <3>7. \A m \in 1 .. (r[2] - 1) : pc'[<<r[1], m>>] # "idle"
      BY <2>1, <3>4, <3>5, <3>6 DEF Deliver
    <3>8. \A s \in Runs : pc[s] # "idle" => \A m \in 1 .. (s[2] - 1) : pc'[<<s[1], m>>] # "idle"
      BY <3>4, <3>5, <3>6 DEF RunsInOrder
    <3> QED
      BY <3>1, <3>2, <3>4, <3>5, <3>7, <3>8 DEF RunsInOrder
  <2>a. CASE HandleAsync(r)
    <3>1. command[r[1]] # None /\ KindOf(r) \in Kinds /\ on[r] \in Replicas
      BY <2>a DEF HandleAsync, RunsInOrder, KindOf, Runs, Command
    <3>2. pending'[r] # None
      BY <2>a, <3>1, BuiltType, ContractTypes DEF HandleAsync, Results
    <3> QED
      BY <2>a, <3>2 DEF HandleAsync, RunsInOrder, Runs
  <2>2. CASE AppendToStream(r)
    BY <2>2 DEF AppendToStream, RunsInOrder, Runs
  <2>3. CASE AppendFails(r)
    BY <2>3 DEF AppendFails, RunsInOrder, Runs
  <2>4. CASE ScriptEnds(r)
    <3>1. command[r[1]] # None /\ KindOf(r) \in Kinds /\ on[r] \in Replicas
      BY <2>4 DEF ScriptEnds, RunsInOrder, KindOf, Runs, Command
    <3>2. pending'[r] # None
      BY <2>4, <3>1, BuiltType, ContractTypes DEF ScriptEnds
    <3> QED
      BY <2>4, <3>2 DEF ScriptEnds, RunsInOrder, Runs
  <2>5. CASE RunnerThrows(r)
    BY <2>5 DEF RunnerThrows, RunsInOrder, Runs
  <2>6. CASE Ack(r)
    BY <2>6 DEF Ack, RunsInOrder, Runs
  <2> QED
    BY <2>1, <2>a, <2>2, <2>3, <2>4, <2>5, <2>6 DEF Step
<1>3. CASE Environment
  <2> PICK p \in Replicas : Crash(p) \/ Disconnect(p) \/ Connect(p)
    BY <1>3 DEF Environment
  <2> DEFINE Pub == \A g \in ready' : command[g] # None
  <2>a. ASSUME Requeue(p)
        PROVE  Pub
    <3>1. \A r \in held : command[r[1]] # None
      BY DEF LastRun, Live, RunsInOrder
    <3>2. \A g \in ready' : g \in ready \/ \E r \in held : g = r[1]
      BY <2>a DEF Requeue
    <3> QED
      BY <3>1, <3>2 DEF RunsInOrder
  <2> HIDE DEF Pub
  <2>1. CASE Crash(p)
    <3>1. Pub /\ UNCHANGED <<command, on, pending>>
      BY <2>1, <2>a DEF Crash
    <3>2. \A s \in Runs : /\ (pc[s] = "idle") <=> (pc'[s] = "idle")
                          /\ pc'[s] = pc[s] \/ pc'[s] = "dead"
      BY <2>1 DEF Crash, Live
    <3> QED
      BY <3>1, <3>2, EarlierRuns DEF RunsInOrder, Pub
  <2>2. CASE Disconnect(p)
    <3>1. Pub /\ UNCHANGED <<command, on, pending, pc>>
      BY <2>2, <2>a DEF Disconnect
    <3> QED
      BY <3>1 DEF RunsInOrder, Pub
  <2>3. CASE Connect(p)
    BY <2>3 DEF Connect, RunsInOrder, Runs
  <2> QED
    BY <2>1, <2>2, <2>3
<1>4. CASE Quiescent
  BY <1>4 DEF Quiescent, vars, RunsInOrder
<1> QED
  BY <1>1, <1>2, <1>3, <1>4 DEF Next

---------------------------------------------------------------------------
\* Events, and their dates

\* Which events are known of an operation: those stored and the one pending.
LEMMA KnownIff ==
  \A r, e :
    e \in Known(r) <=>
      \/ \E i \in DOMAIN log : log[i].uuid[1] = r /\ e = log[i]
      \/ e = pending[r] /\ e # None
BY DEF Known, WrittenBy

\* What is true of an event run s builds in a step.
NewEvent(s, e) ==
  /\ e.uuid[1] = s
  /\ pc'[s] \notin {"idle", "delivered"}
  /\ command[s[1]] # None
  /\ OfCommand(e, s[1])
  /\ Settling(e.status) <=> e.uuid[2] = "closing"
  /\ on'[s] \in Replicas /\ e.date = now + Skew[on'[s]] /\ now' = now + 1
  /\ Recorded(KindOf(s), e)
  /\ e = pending'[s]
  /\ \/ pc[s] = "delivered" /\ pc'[s] = "opening" /\ e.uuid[2] = "opening"
     \/ pc[s] = "script" /\ pc'[s] = "closing" /\ e.uuid[2] = "closing"

\* A step gives a run at most one new event.
LEMMA KnownStep ==
  ASSUME TypeOK, RunsInOrder, KnownEvents, Next, NEW s \in Runs, NEW e \in Known(s)'
  PROVE  e \in Known(s) \/ NewEvent(s, e)
<1> USE DEF TypeOK
<1>0. \/ \E i \in DOMAIN log' : log'[i].uuid[1] = s /\ e = log'[i]
      \/ e = pending'[s] /\ e # None
  BY DEF Known, WrittenBy
<1>1. ASSUME log' = log, pending'[s] = pending[s]
      PROVE  e \in Known(s)
  BY <1>0, <1>1, KnownIff
<1>2. ASSUME NEW r \in Runs, pc[r] \in {"opening", "closing"},
             log' = Append(log, pending[r]), pending' = pending
      PROVE  e \in Known(s)
  <2>1. pending[r] \in Event /\ pending[r] # None /\ pending[r].uuid[1] = r
    BY <1>2, KnownIff DEF RunsInOrder, KnownEvents
  <2>2. Len(log') = Len(log) + 1 /\ \A i \in 1 .. Len(log) : log'[i] = log[i]
    BY <1>2, <2>1
  <2>3. log'[Len(log) + 1] = pending[r]
    BY <1>2, <2>1
  <2>4. CASE e = pending'[s] /\ e # None
    BY <1>2, <2>4, KnownIff
  <2>5. ASSUME NEW i \in DOMAIN log', log'[i].uuid[1] = s, e = log'[i]
        PROVE  e \in Known(s)
    <3>1. CASE i \in DOMAIN log
      BY <3>1, <2>2, <2>5, KnownIff
    <3>2. CASE i = Len(log) + 1
      BY <3>2, <2>1, <2>3, <2>5, KnownIff
    <3> QED
      BY <3>1, <3>2, <2>2
  <2> QED
    BY <1>0, <2>4, <2>5
<1>3. ASSUME NEW p \in Replicas, NEW phase \in {"opening", "closing"},
             NEW status \in OperationStatus, NEW result \in Results,
             phase = "closing" => Settling(status), phase = "opening" => ~Settling(status),
             command[s[1]] # None, log' = log, now' = now + 1, on'[s] = p,
             pending'[s] = Built(s, phase, p, status, result),
             \/ /\ pc[s] = "delivered" /\ pc'[s] = "opening" /\ phase = "opening"
                /\ status = OpeningStatus(KindOf(s))
             \/ /\ pc[s] = "script" /\ pc'[s] = "closing" /\ phase = "closing"
                /\ \E line \in Printed(KindOf(s)) :
                     status = ClosingStatus(KindOf(s), line) /\ result = ClosingResult(KindOf(s), line)
      PROVE  e \in Known(s) \/ NewEvent(s, e)
  <2>1. CASE e = pending'[s]
    <3>1. OfCommand(e, s[1])
      BY <1>3, <2>1, BuiltType
    <3>2. /\ e.uuid = <<s, phase>> /\ e.status = status /\ e.result = result
          /\ e.date = now + Skew[p]
      BY <1>3, <2>1 DEF Built
    <3>3. Recorded(KindOf(s), e)
      BY <1>3, <3>2 DEF Recorded
    <3> QED
      BY <1>3, <2>1, <3>1, <3>2, <3>3 DEF NewEvent
  <2>2. CASE \E i \in DOMAIN log' : log'[i].uuid[1] = s /\ e = log'[i]
    BY <1>3, <2>2, KnownIff
  <2> QED
    BY <1>0, <2>1, <2>2
<1>4. CASE Client
  BY <1>1, <1>4 DEF Client, SendFileToAnalysis, CreateSource, AnalyzeFile, Publish
<1>5. CASE \E r \in Runs : Step(r)
  <2> PICK r \in Runs : Step(r)
    BY <1>5
  <2>0. (pc[r] # "idle" \/ r[1] \in ready) => command[r[1]] # None /\ KindOf(r) \in Kinds
    BY DEF RunsInOrder, KindOf, Runs, Command
  <2>1. CASE \E p \in Replicas : Deliver(r, p)
    BY <1>1, <2>1 DEF Deliver
  <2>a. CASE HandleAsync(r)
    <3>1. CASE s # r
      BY <1>1, <2>a, <3>1 DEF HandleAsync
    <3>2. CASE s = r
      <4>1. OpeningStatus(KindOf(r)) \in OperationStatus /\ ~Settling(OpeningStatus(KindOf(r)))
        BY <2>0, <2>a, ContractTypes DEF HandleAsync
      <4>2. "zero" \in Results
        BY DEF Results
      <4>3. /\ command[s[1]] # None /\ log' = log /\ now' = now + 1
            /\ on[s] \in Replicas /\ on'[s] = on[s]
            /\ pending'[s] = Built(s, "opening", on[s], OpeningStatus(KindOf(s)), "zero")
            /\ pc[s] = "delivered" /\ pc'[s] = "opening"
        BY <2>0, <2>a, <3>2 DEF HandleAsync, RunsInOrder
      <4> QED
        BY <1>3, <3>2, <4>1, <4>2, <4>3
    <3> QED
      BY <3>1, <3>2
  <2>2. CASE AppendToStream(r)
    BY <1>2, <2>2 DEF AppendToStream
  <2>3. CASE AppendFails(r)
    <3>1. log' = log \/ log' = Append(log, pending[r])
      BY <2>3 DEF AppendFails
    <3>2. pending' = pending /\ pc[r] \in {"opening", "closing"}
      BY <2>3 DEF AppendFails
    <3> QED
      BY <1>1, <1>2, <3>1, <3>2
  <2>4. CASE ScriptEnds(r)
    <3>1. CASE s # r
      BY <1>1, <2>4, <3>1 DEF ScriptEnds
    <3>2. CASE s = r
      <4>1. PICK line \in Printed(KindOf(r)) :
              pending' = [pending EXCEPT ![r] = Built(r, "closing", on[r],
                ClosingStatus(KindOf(r), line), ClosingResult(KindOf(r), line))]
        BY <2>4 DEF ScriptEnds
      <4>2. /\ ClosingStatus(KindOf(r), line) \in OperationStatus
            /\ Settling(ClosingStatus(KindOf(r), line))
            /\ ClosingResult(KindOf(r), line) \in Results
        BY <2>0, <2>4, <4>1, ContractTypes DEF ScriptEnds
      <4>3. /\ command[r[1]] # None /\ log' = log /\ now' = now + 1 /\ pc[r] = "script"
            /\ pc'[r] = "closing" /\ on[r] \in Replicas /\ on'[r] = on[r]
        BY <2>0, <2>4 DEF ScriptEnds, RunsInOrder
      <4>4. pending'[r] = Built(r, "closing", on[r],
              ClosingStatus(KindOf(r), line), ClosingResult(KindOf(r), line))
        BY <4>1
      <4> QED
        BY <1>3, <3>2, <4>2, <4>3, <4>4
    <3> QED
      BY <3>1, <3>2
  <2>5. CASE RunnerThrows(r)
    BY <1>1, <2>5 DEF RunnerThrows
  <2>6. CASE Ack(r)
    BY <1>1, <2>6 DEF Ack
  <2> QED
    BY <2>1, <2>a, <2>2, <2>3, <2>4, <2>5, <2>6 DEF Step
<1>6. CASE Environment
  BY <1>1, <1>6 DEF Environment, Crash, Disconnect, Connect
<1>7. CASE Quiescent
  BY <1>1, <1>7 DEF Quiescent, vars
<1> QED
  BY <1>4, <1>5, <1>6, <1>7 DEF Next

\* Every known event is one its run built.
LEMMA KnownEventsStep ==
  ASSUME TypeOK, RunsInOrder, KnownEvents, Next
  PROVE  KnownEvents'
<1> SUFFICES ASSUME NEW s \in Runs, NEW e \in Known(s)'
             PROVE  /\ pc'[s] \notin {"idle", "delivered"}
                    /\ e.uuid[1] = s
                    /\ OfCommand(e, s[1])'
                    /\ Settling(e.status) <=> e.uuid[2] = "closing"
                    /\ e.date < now' + Skew[on'[s]]
  BY DEF KnownEvents
<1>0. s[1] \in Guids
  BY EarlierRuns
<1>1. CASE e \in Known(s)
  <2>1. /\ pc[s] \notin {"idle", "delivered"} /\ e.uuid[1] = s /\ OfCommand(e, s[1])
        /\ Settling(e.status) <=> e.uuid[2] = "closing"
        /\ e.date < now + Skew[on[s]]
    BY <1>1 DEF KnownEvents
  <2>2. command[s[1]] # None /\ on[s] \in Replicas /\ e \in Event
    BY <1>1, <2>1, KnownIff DEF RunsInOrder, TypeOK
  <2>3. now' + Skew[on[s]] >= now + Skew[on[s]] /\ e.date \in Int /\ now + Skew[on[s]] \in Int
    BY <2>2, Frame, SkewAssumption DEF TypeOK, Event
  <2>4. command'[s[1]] = command[s[1]] /\ on'[s] = on[s] /\ now' \in Int
        /\ pc'[s] \notin {"idle", "delivered"}
    BY <1>0, <2>1, <2>2, Frame DEF TypeOK
  <2>5. OfCommand(e, s[1])'
    BY <2>1, <2>4 DEF OfCommand
  <2>6. now' + Skew[on[s]] \in Int
    BY <2>2, <2>4, SkewAssumption
  <2>7. e.date < now' + Skew[on'[s]]
    BY <2>1, <2>3, <2>4, <2>6
  <2> QED
    BY <2>1, <2>4, <2>5, <2>7
<1>2. CASE NewEvent(s, e)
  <2>1. command'[s[1]] = command[s[1]]
    BY <1>0, <1>2, Frame DEF NewEvent
  <2>2. OfCommand(e, s[1])'
    BY <1>2, <2>1 DEF NewEvent, OfCommand
  <2>3. e.date < now' + Skew[on'[s]]
    BY <1>2, SkewAssumption DEF NewEvent, TypeOK
  <2> QED
    BY <1>2, <2>2, <2>3 DEF NewEvent
<1> QED
  BY <1>1, <1>2, KnownStep

\* A run dates its end after its start.
LEMMA DatesWithinRunStep ==
  ASSUME TypeOK, RunsInOrder, KnownEvents, DatesWithinRun, Next
  PROVE  DatesWithinRun'
<1> SUFFICES ASSUME NEW s \in Runs, NEW e \in Known(s)', NEW f \in Known(s)',
                    e.uuid[2] = "opening", f.uuid[2] = "closing"
             PROVE  e.date < f.date
  BY DEF DatesWithinRun
<1>1. CASE e \in Known(s) /\ f \in Known(s)
  BY <1>1 DEF DatesWithinRun
<1>2. CASE e \in Known(s) /\ NewEvent(s, f)
  <2>1. pc[s] # "idle" /\ e.date < now + Skew[on[s]]
    BY <1>2 DEF KnownEvents
  <2>2. on'[s] = on[s]
    BY <2>1, Frame
  <2> QED
    BY <1>2, <2>1, <2>2 DEF NewEvent
<1>3. CASE NewEvent(s, e)
  <2>1. pc[s] = "delivered"
    BY <1>3 DEF NewEvent
  <2>2. f \notin Known(s)
    BY <2>1 DEF KnownEvents
  <2>3. NewEvent(s, f)
    BY <2>2, KnownStep
  <2> QED
    BY <2>1, <2>3 DEF NewEvent
<1> QED
  BY <1>1, <1>2, <1>3, KnownStep

---------------------------------------------------------------------------
\* What is stored, and who has each message

\* The event a run appends is that of its phase.
LEMMA PendingPhaseStep ==
  ASSUME TypeOK, RunsInOrder, PendingPhase, Next
  PROVE  PendingPhase'
<1> USE DEF TypeOK, PendingPhase
<1>1. CASE Client
  BY <1>1 DEF Client, SendFileToAnalysis, CreateSource, AnalyzeFile, Publish
<1>2. CASE \E r \in Runs : Step(r)
  BY <1>2 DEF Step, Deliver, HandleAsync, AppendToStream, AppendFails, ScriptEnds, RunnerThrows, Ack, Built
<1>3. CASE Environment
  BY <1>3 DEF Environment, Crash, Disconnect, Connect
<1>4. CASE Quiescent
  BY <1>4 DEF Quiescent, vars
<1> QED
  BY <1>1, <1>2, <1>3, <1>4 DEF Next

\* The log only grows at its end, by the pending event of a run.
LEMMA LogStep ==
  ASSUME TypeOK, RunsInOrder, Next
  PROVE  \/ log' = log
         \/ \E r \in Runs : /\ pc[r] \in {"opening", "closing"}
                            /\ pending[r] \in Event
                            /\ Len(log') = Len(log) + 1
                            /\ \A i \in 1 .. Len(log) : log'[i] = log[i]
                            /\ log'[Len(log) + 1] = pending[r]
                            /\ pc'[r] \in {IF pc[r] = "opening" THEN "script" ELSE "handled", "faulted"}
<1> USE DEF TypeOK
<1>1. CASE Client
  BY <1>1 DEF Client, SendFileToAnalysis, CreateSource, AnalyzeFile, Publish
<1>2. CASE \E r \in Runs : Step(r)
  <2> PICK r \in Runs : Step(r)
    BY <1>2
  <2>1. CASE AppendToStream(r) \/ AppendFails(r)
    <3>1. pending[r] \in Event /\ pc[r] \in {"opening", "closing"}
      BY <2>1 DEF AppendToStream, AppendFails, RunsInOrder
    <3>2. log' = log \/ log' = Append(log, pending[r])
      BY <2>1 DEF AppendToStream, AppendFails
    <3>3. pc'[r] \in {IF pc[r] = "opening" THEN "script" ELSE "handled", "faulted"}
      BY <2>1 DEF AppendToStream, AppendFails
    <3> QED
      BY <3>1, <3>2, <3>3
  <2>2. CASE ~(AppendToStream(r) \/ AppendFails(r))
    BY <2>2 DEF Step, Deliver, HandleAsync, ScriptEnds, RunnerThrows, Ack
  <2> QED
    BY <2>1, <2>2
<1>3. CASE Environment
  BY <1>3 DEF Environment, Crash, Disconnect, Connect
<1>4. CASE Quiescent
  BY <1>4 DEF Quiescent, vars
<1> QED
  BY <1>1, <1>2, <1>3, <1>4 DEF Next

\* Run s ends its append of this phase's event.
Appends(s, phase) ==
  /\ pc[s] = phase /\ phase \in {"opening", "closing"}
  /\ pc'[s] \in {IF phase = "opening" THEN "script" ELSE "handled", "faulted"}

\* What a step stores of a run is what the run was about to append.
LEMMA StoredStep ==
  ASSUME TypeOK, RunsInOrder, KnownEvents, PendingPhase, Next, NEW s \in Runs, NEW phase
  PROVE  /\ Stored(s, phase) => Stored(s, phase)'
         /\ Stored(s, phase)' => Stored(s, phase) \/ Appends(s, phase)
<1> USE DEF TypeOK
<1>1. CASE log' = log
  BY <1>1 DEF Stored
<1>2. ASSUME NEW r \in Runs, pc[r] \in {"opening", "closing"}, pending[r] \in Event,
             Len(log') = Len(log) + 1, \A i \in 1 .. Len(log) : log'[i] = log[i],
             log'[Len(log) + 1] = pending[r],
             pc'[r] \in {IF pc[r] = "opening" THEN "script" ELSE "handled", "faulted"}
      PROVE  /\ Stored(s, phase) => Stored(s, phase)'
             /\ Stored(s, phase)' => Stored(s, phase) \/ Appends(s, phase)
  <2>0. log' \in Seq(Event)
    BY TypeOKStep
  <2>1. pending[r].uuid[1] = r
    BY <1>2, KnownIff DEF RunsInOrder, KnownEvents
  <2>2. pending[r].uuid[2] = pc[r]
    BY <1>2 DEF PendingPhase
  <2>3. pending[r].uuid = <<s, phase>> => r = s /\ pc[r] = phase
    BY <2>1, <2>2
  <2>4. \A i \in DOMAIN log' : i \in DOMAIN log \/ i = Len(log) + 1
    BY <1>2, <2>0
  <2>5. Stored(s, phase) => Stored(s, phase)'
    BY <1>2, <2>0 DEF Stored
  <2>6. Stored(s, phase)' => Stored(s, phase) \/ Appends(s, phase)
    BY <1>2, <2>3, <2>4 DEF Stored, Appends
  <2> QED
    BY <2>5, <2>6
<1> QED
  BY <1>1, <1>2, LogStep

\* A run that is past its first append has stored its start.
LEMMA StoredPhasesStep ==
  ASSUME TypeOK, RunsInOrder, KnownEvents, PendingPhase, StoredPhases, Next
  PROVE  StoredPhases'
<1>1. ASSUME NEW s \in Runs, NEW phase, Stored(s, phase)
      PROVE  Stored(s, phase)'
  BY <1>1, StoredStep
<1>2. ASSUME NEW s \in Runs
      PROVE  /\ pc'[s] \in {"script", "closing", "handled", "acked"} => Stored(s, "opening")'
             /\ pc'[s] \in {"handled", "acked"} => Stored(s, "closing")'
  <2>1. CASE AppendToStream(s)
    <3>1. /\ pc[s] \in {"opening", "closing"} /\ pending[s] \in Event /\ pending[s] # None
          /\ log' = Append(log, pending[s])
          /\ pc'[s] = IF pc[s] = "opening" THEN "script" ELSE "handled"
      BY <2>1 DEF AppendToStream, RunsInOrder, TypeOK
    <3>2. pending[s].uuid = <<s, pc[s]>>
      <4>1. pending[s].uuid[1] = s
        BY <3>1, KnownIff DEF KnownEvents
      <4>2. pending[s].uuid[2] = pc[s]
        BY <3>1 DEF PendingPhase
      <4> QED
        BY <3>1, <4>1, <4>2 DEF Event
    <3>3. Len(log) + 1 \in DOMAIN log' /\ log'[Len(log) + 1] = pending[s]
      BY <3>1 DEF TypeOK
    <3>4. CASE pc[s] = "opening"
      BY <3>1, <3>2, <3>3, <3>4 DEF Stored
    <3>5. CASE pc[s] = "closing"
      <4>1. Stored(s, "closing")'
        BY <3>2, <3>3, <3>5 DEF Stored
      <4>2. Stored(s, "opening")'
        BY <3>5, <1>1 DEF StoredPhases
      <4> QED
        BY <4>1, <4>2
    <3> QED
      BY <3>1, <3>4, <3>5
  <2>2. CASE ~AppendToStream(s)
    <3>1. /\ pc'[s] \in {"script", "closing", "handled", "acked"} =>
               pc[s] \in {"script", "closing", "handled", "acked"}
          /\ pc'[s] \in {"handled", "acked"} => pc[s] \in {"handled", "acked"}
      <4> USE DEF TypeOK
      <4>1. CASE Client
        BY <4>1 DEF Client, SendFileToAnalysis, CreateSource, AnalyzeFile, Publish
      <4>2. CASE \E r \in Runs : Step(r)
        BY <2>2, <4>2 DEF Step, Deliver, HandleAsync, AppendToStream, AppendFails, ScriptEnds, RunnerThrows, Ack
      <4>3. CASE Environment
        BY <4>3 DEF Environment, Crash, Disconnect, Connect
      <4>4. CASE Quiescent
        BY <4>4 DEF Quiescent, vars
      <4> QED
        BY <4>1, <4>2, <4>3, <4>4 DEF Next
    <3> QED
      BY <3>1, <1>1 DEF StoredPhases
  <2> QED
    BY <2>1, <2>2
<1> QED
  BY <1>2 DEF StoredPhases

\* No end is stored or dated before its start.
LEMMA StartBeforeEndStep ==
  ASSUME TypeOK, RunsInOrder, KnownEvents, PendingPhase, StoredPhases, DatesWithinRun,
         StartBeforeEnd, Next
  PROVE  StartBeforeEnd'
<1>1. CASE log' = log
  BY <1>1 DEF StartBeforeEnd
<1>2. ASSUME NEW r \in Runs, pc[r] \in {"opening", "closing"}, pending[r] \in Event,
             Len(log') = Len(log) + 1, \A i \in 1 .. Len(log) : log'[i] = log[i],
             log'[Len(log) + 1] = pending[r]
      PROVE  StartBeforeEnd'
  <2> SUFFICES ASSUME NEW i \in DOMAIN log', Settling(log'[i].status)
               PROVE  \E j \in 1 .. (i - 1) :
                 /\ ~Settling(log'[j].status)
                 /\ log'[j].stream = log'[i].stream /\ log'[j].user = log'[i].user
                 /\ log'[j].document = log'[i].document /\ log'[j].task = log'[i].task
                 /\ log'[j].date < log'[i].date
    BY DEF StartBeforeEnd
  <2>0. log \in Seq(Event) /\ log' \in Seq(Event)
    BY TypeOKStep DEF TypeOK
  <2>1. CASE i \in 1 .. Len(log)
    BY <1>2, <2>0, <2>1 DEF StartBeforeEnd
  <2>2. CASE i = Len(log) + 1
    <3>1. pending[r] \in Known(r) /\ log'[i] = pending[r]
      BY <1>2, <2>2, KnownIff DEF RunsInOrder
    <3>2. pending[r].uuid[2] = "closing"
      BY <3>1 DEF KnownEvents
    <3>3. pc[r] = "closing"
      BY <1>2, <3>2 DEF PendingPhase
    <3>4. PICK j \in DOMAIN log : log[j].uuid = <<r, "opening">>
      BY <3>3 DEF StoredPhases, Stored
    <3>5. log[j] \in Known(r)
      BY <3>4, KnownIff
    <3>6. ~Settling(log[j].status)
      BY <3>4, <3>5 DEF KnownEvents
    <3>7. OfCommand(log[j], r[1]) /\ OfCommand(pending[r], r[1])
      BY <3>1, <3>5 DEF KnownEvents
    <3>8. log[j].date < pending[r].date
      BY <3>1, <3>2, <3>4, <3>5 DEF DatesWithinRun
    <3>9. j \in 1 .. (i - 1) /\ log'[j] = log[j]
      BY <1>2, <2>0, <2>2
    <3> QED
      BY <3>1, <3>6, <3>7, <3>8, <3>9 DEF OfCommand
  <2> QED
    BY <1>2, <2>0, <2>1, <2>2
<1> QED
  BY <1>1, <1>2, LogStep

\* One replica stays connected where the faults promise it.
LEMMA SomeConsumerStep ==
  ASSUME TypeOK, SomeConsumer, Next
  PROVE  SomeConsumer'
<1> USE DEF TypeOK, SomeConsumer, Consumers
<1>1. CASE Client
  BY <1>1 DEF Client, SendFileToAnalysis, CreateSource, AnalyzeFile, Publish
<1>2. CASE \E r \in Runs : Step(r)
  BY <1>2 DEF Step, Deliver, HandleAsync, AppendToStream, AppendFails, ScriptEnds, RunnerThrows, Ack
<1>3. CASE Environment
  BY <1>3 DEF Environment, Crash, Disconnect, Connect, Requeue
<1>4. CASE Quiescent
  BY <1>4 DEF Quiescent, vars
<1> QED
  BY <1>1, <1>2, <1>3, <1>4 DEF Next

\* What the broker takes back from p when it goes.
LEMMA RequeueEffect ==
  ASSUME TypeOK, NEW p \in Replicas, Requeue(p)
  PROVE  /\ held' \subseteq held /\ \A r \in held : on[r] # p => r \in held'
         /\ \A g \in ready' : g \in ready \/ \E r \in held \ held' : r[1] = g
         /\ Consumers \ {p} # {} =>
              ready \subseteq ready' /\ \A r \in held \ held' : r[1] \in ready'
BY DEF Requeue

\* A command is in one place.
LEMMA OneCustodianStep ==
  ASSUME TypeOK, RunsInOrder, OneCustodian, LastRun, Next
  PROVE  OneCustodian'
<1> USE DEF TypeOK
<1>1. CASE Client
  <2> PICK u \in Users, g \in Guids :
        \E f \in Guids, k \in Kinds : Publish(g, [kind |-> k, user |-> u, file |-> f])
    BY <1>1 DEF Client, SendFileToAnalysis, CreateSource, AnalyzeFile, Kinds
  <2>1. command[g] = None /\ ready' \subseteq ready \cup {g} /\ held' = held /\ pc' = pc
    BY DEF Publish, Fresh, Published
  <2>2. \A r \in Runs : pc[r] # "idle" => r[1] # g
    BY <2>1 DEF RunsInOrder
  <2>3. \A r \in held : r[1] # g
    BY <2>2 DEF LastRun, Live
  <2> QED
    BY <2>1, <2>2, <2>3 DEF OneCustodian
<1>2. CASE \E r \in Runs : Step(r)
  <2> PICK r \in Runs : Step(r)
    BY <1>2
  <2>1. ASSUME NEW p \in Replicas, Deliver(r, p)
        PROVE  OneCustodian'
    <3>1. /\ r[1] \in ready /\ ready' = ready \ {r[1]} /\ held' = held \cup {r}
          /\ pc' = [pc EXCEPT ![r] = "delivered"]
      BY <2>1 DEF Deliver
    <3>2. \A s \in held : s[1] # r[1]
      BY <3>1 DEF OneCustodian
    <3>3. \A s \in Runs : pc'[s] \in {"acked", "dropped"} => s[1] # r[1] /\ pc[s] = pc'[s]
      BY <3>1 DEF OneCustodian
    <3> QED
      BY <3>1, <3>2, <3>3 DEF OneCustodian
  <2>a. CASE HandleAsync(r)
    BY <2>a DEF HandleAsync, OneCustodian
  <2>2. CASE AppendToStream(r)
    BY <2>2 DEF AppendToStream, OneCustodian
  <2>3. CASE AppendFails(r)
    BY <2>3 DEF AppendFails, OneCustodian
  <2>4. CASE ScriptEnds(r)
    BY <2>4 DEF ScriptEnds, OneCustodian
  <2>5. CASE RunnerThrows(r)
    BY <2>5 DEF RunnerThrows, OneCustodian
  <2>6. CASE Ack(r)
    <3>1. ready' = ready /\ held' = held \ {r} /\ \A s \in Runs : s # r => pc'[s] = pc[s]
      BY <2>6 DEF Ack
    <3>2. pc'[r] \in {"acked", "dropped"} => r \in held
      BY <2>6 DEF Ack
    <3> QED
      BY <3>1, <3>2 DEF OneCustodian
  <2> QED
    BY <2>1, <2>a, <2>2, <2>3, <2>4, <2>5, <2>6 DEF Step
<1>3. CASE Environment
  <2> PICK p \in Replicas : Crash(p) \/ Disconnect(p) \/ Connect(p)
    BY <1>3 DEF Environment
  <2>1. ASSUME Requeue(p),
               \A s \in Runs : pc'[s] \in {"acked", "dropped"} => pc[s] = pc'[s]
        PROVE  OneCustodian'
    BY <2>1, RequeueEffect DEF OneCustodian
  <2>2. CASE Crash(p)
    BY <2>1, <2>2 DEF Crash
  <2>3. CASE Disconnect(p)
    BY <2>1, <2>3 DEF Disconnect
  <2>4. CASE Connect(p)
    BY <2>4 DEF Connect, OneCustodian
  <2> QED
    BY <2>2, <2>3, <2>4
<1>4. CASE Quiescent
  BY <1>4 DEF Quiescent, vars, OneCustodian
<1> QED
  BY <1>1, <1>2, <1>3, <1>4 DEF Next

\* A run that acknowledged is the last of its command.
LEMMA LastRunStep ==
  ASSUME TypeOK, RunsInOrder, OneCustodian, LastRun, Next
  PROVE  LastRun'
<1> USE DEF TypeOK
<1>1. CASE Client
  BY <1>1 DEF Client, SendFileToAnalysis, CreateSource, AnalyzeFile, Publish, LastRun
<1>2. CASE \E r \in Runs : Step(r)
  <2> PICK r \in Runs : Step(r)
    BY <1>2
  <2>1. ASSUME NEW p \in Replicas, Deliver(r, p)
        PROVE  LastRun'
    <3>1. /\ r[1] \in ready /\ held' = held \cup {r} /\ pc[r] = "idle"
          /\ pc' = [pc EXCEPT ![r] = "delivered"]
      BY <2>1 DEF Deliver
    <3>2. \A m \in (r[2] + 1) .. MaxDeliveries : pc[<<r[1], m>>] = "idle"
      <4> SUFFICES ASSUME NEW m \in (r[2] + 1) .. MaxDeliveries, pc[<<r[1], m>>] # "idle"
                   PROVE  FALSE
        OBVIOUS
      <4>1. <<r[1], m>> \in Runs /\ r[2] \in 1 .. (m - 1) /\ r = <<r[1], r[2]>>
        BY EarlierRuns
      <4> QED
        BY <3>1, <4>1 DEF RunsInOrder
    <3>3. \A m \in (r[2] + 1) .. MaxDeliveries : pc'[<<r[1], m>>] = "idle"
      <4> TAKE m \in (r[2] + 1) .. MaxDeliveries
      <4>1. <<r[1], m>> # r
        BY EarlierRuns
      <4> QED
        BY <3>1, <3>2, <4>1, EarlierRuns
    <3>4. \A s \in Runs : (s \in held \/ pc[s] \in {"acked", "dropped"}) => s[1] # r[1]
      BY <3>1 DEF OneCustodian
    <3>5. \A s \in Runs : s[1] # r[1] => \A m : <<s[1], m>> # r
      OBVIOUS
    <3>6. ASSUME NEW s \in Runs, s \in held \/ pc[s] \in {"acked", "dropped"}
          PROVE  \A m \in (s[2] + 1) .. MaxDeliveries : pc'[<<s[1], m>>] = "idle"
      BY <3>1, <3>4, <3>5, <3>6, EarlierRuns DEF LastRun
    <3>7. \A s \in held' : pc'[s] \in Live
      BY <3>1 DEF LastRun, Live
    <3>8. \A s \in Runs : s # r => pc'[s] = pc[s]
      BY <3>1
    <3> QED
      BY <3>1, <3>3, <3>6, <3>7, <3>8 DEF LastRun
  <2>2. ASSUME held' \subseteq held, pc[r] \in Live, pc'[r] # "idle",
               pc'[r] \in Live \/ r \notin held',
               pc'[r] \in {"acked", "dropped"} => r \in held,
               \A s \in Runs : s # r => pc'[s] = pc[s]
        PROVE  LastRun'
    <3>1. \A s \in Runs : pc[s] = "idle" => pc'[s] = "idle"
      BY <2>2 DEF Live
    <3>2. \A s \in Runs : (s \in held' \/ pc'[s] \in {"acked", "dropped"}) =>
            s \in held \/ pc[s] \in {"acked", "dropped"}
      BY <2>2
    <3>3. \A s \in held' : pc'[s] \in Live
      BY <2>2 DEF LastRun
    <3> QED
      BY <3>1, <3>2, <3>3, EarlierRuns DEF LastRun
  <2>a. CASE HandleAsync(r)
    BY <2>2, <2>a DEF HandleAsync, Live
  <2>3. CASE AppendToStream(r)
    BY <2>2, <2>3 DEF AppendToStream, Live
  <2>4. CASE AppendFails(r)
    BY <2>2, <2>4 DEF AppendFails, Live
  <2>5. CASE ScriptEnds(r)
    BY <2>2, <2>5 DEF ScriptEnds, Live
  <2>6. CASE RunnerThrows(r)
    BY <2>2, <2>6 DEF RunnerThrows, Live
  <2>7. CASE Ack(r)
    BY <2>2, <2>7 DEF Ack, Live
  <2> QED
    BY <2>1, <2>a, <2>3, <2>4, <2>5, <2>6, <2>7 DEF Step
<1>3. CASE Environment
  <2> PICK p \in Replicas : Crash(p) \/ Disconnect(p) \/ Connect(p)
    BY <1>3 DEF Environment
  <2>1. CASE Crash(p)
    <3>1. held' \subseteq held /\ \A r \in held' : on[r] # p
      BY <2>1 DEF Crash, Requeue
    <3>2. \A r \in Runs : /\ on[r] # p => pc'[r] = pc[r]
                          /\ pc[r] = "idle" => pc'[r] = "idle"
                          /\ pc'[r] \in {"acked", "dropped"} => pc[r] = pc'[r]
      BY <2>1 DEF Crash, Live
    <3>3. \A r \in held' : pc'[r] \in Live
      BY <3>1, <3>2 DEF LastRun
    <3> QED
      BY <3>1, <3>2, <3>3, EarlierRuns DEF LastRun
  <2>2. CASE Disconnect(p)
    BY <2>2, RequeueEffect DEF Disconnect, LastRun
  <2>3. CASE Connect(p)
    BY <2>3 DEF Connect, LastRun
  <2> QED
    BY <2>1, <2>2, <2>3
<1>4. CASE Quiescent
  BY <1>4 DEF Quiescent, vars, LastRun
<1> QED
  BY <1>1, <1>2, <1>3, <1>4 DEF Next

\* A published command is waiting, held or acknowledged.
LEMMA NothingLostStep ==
  ASSUME TypeOK, RunsInOrder, OneCustodian, LastRun, SomeConsumer, NothingLost, Next
  PROVE  NothingLost'
<1> USE DEF TypeOK
<1> DEFINE Settled(g) == \E n \in 1 .. MaxDeliveries : pc[<<g, n>>] \in {"acked", "dropped"}
           Kept(g) == g \in ready \/ (\E r \in held : r[1] = g) \/ Settled(g)
<1> SUFFICES ASSUME "outage" \notin Faults, NEW g \in Published'
             PROVE  Kept(g)'
  BY DEF NothingLost
<1>0. g \in Guids /\ (g \in Published => Kept(g))
  BY DEF NothingLost, Published
<1>a. ASSUME \A r \in Runs : pc[r] \in {"acked", "dropped"} => pc'[r] = pc[r], Settled(g)
      PROVE  Settled(g)'
  BY <1>0, <1>a DEF Runs
<1>1. CASE Client
  <2> PICK u \in Users, h \in Guids :
        \E f \in Guids, k \in Kinds : Publish(h, [kind |-> k, user |-> u, file |-> f])
    BY <1>1 DEF Client, SendFileToAnalysis, CreateSource, AnalyzeFile, Kinds
  <2>1. /\ ready' = ready \cup {h} /\ held' = held /\ pc' = pc
        /\ \A x \in Guids : x # h => command'[x] = command[x]
    BY DEF Publish, SomeConsumer
  <2> QED
    BY <1>0, <2>1 DEF Published
<1>2. CASE \E r \in Runs : Step(r)
  <2> PICK r \in Runs : Step(r)
    BY <1>2
  <2>0. Published' = Published
    BY DEF Step, Deliver, HandleAsync, AppendToStream, AppendFails, ScriptEnds, RunnerThrows, Ack, Published
  <2>1. \A s \in Runs : pc[s] \in {"acked", "dropped"} => pc'[s] = pc[s]
    BY DEF Step, Deliver, HandleAsync, AppendToStream, AppendFails, ScriptEnds, RunnerThrows, Ack
  <2>2. CASE \E p \in Replicas : Deliver(r, p)
    <3>1. ready' = ready \ {r[1]} /\ held' = held \cup {r}
      BY <2>2 DEF Deliver
    <3> QED
      BY <1>0, <1>a, <2>0, <2>1, <3>1
  <2>3. CASE Ack(r)
    <3>1. ready' = ready /\ held' = held \ {r} /\ (r \in held => pc'[r] \in {"acked", "dropped"})
      BY <2>3 DEF Ack
    <3>2. r[1] = g /\ r \in held => Settled(g)'
      BY <3>1, EarlierRuns
    <3> QED
      BY <1>0, <1>a, <2>0, <2>1, <3>1, <3>2
  <2>4. CASE ready' = ready /\ held' = held
    BY <1>0, <1>a, <2>0, <2>1, <2>4
  <2> QED
    BY <2>2, <2>3, <2>4 DEF Step, HandleAsync, AppendToStream, AppendFails, ScriptEnds, RunnerThrows
<1>3. CASE Environment
  <2> PICK p \in Replicas : Crash(p) \/ Disconnect(p) \/ Connect(p)
    BY <1>3 DEF Environment
  <2>0. Published' = Published
    BY DEF Crash, Disconnect, Connect, Published
  <2>1. \A s \in Runs : pc[s] \in {"acked", "dropped"} => pc'[s] = pc[s]
    BY DEF Crash, Disconnect, Connect, Live
  <2>2. CASE Requeue(p)
    <3>1. Consumers \ {p} # {}
      BY <2>2 DEF Requeue
    <3> QED
      BY <1>0, <1>a, <2>0, <2>1, <2>2, <3>1, RequeueEffect
  <2>3. CASE ready' = ready /\ held' = held
    BY <1>0, <1>a, <2>0, <2>1, <2>3
  <2> QED
    BY <2>2, <2>3 DEF Crash, Disconnect, Connect
<1>4. CASE Quiescent
  BY <1>0, <1>4 DEF Quiescent, vars, Published
<1> QED
  BY <1>1, <1>2, <1>3, <1>4 DEF Next

\* A run that is about to append its start has written nothing.
LEMMA NothingBeforeOpeningStep ==
  ASSUME TypeOK, RunsInOrder, KnownEvents, NothingBeforeOpening, Next
  PROVE  NothingBeforeOpening'
<1> USE DEF TypeOK
<1> SUFFICES ASSUME NEW s \in Runs, pc'[s] = "opening"
             PROVE  WrittenBy(s)' = {}
  BY DEF NothingBeforeOpening
<1>0. pc[s] \in {"delivered", "opening"} => WrittenBy(s) = {}
  BY KnownIff DEF NothingBeforeOpening, KnownEvents, WrittenBy
<1>1. ASSUME log' = log, pc[s] \in {"delivered", "opening"}
      PROVE  WrittenBy(s)' = {}
  BY <1>0, <1>1 DEF WrittenBy
<1>2. CASE Client
  BY <1>1, <1>2 DEF Client, SendFileToAnalysis, CreateSource, AnalyzeFile, Publish
<1>3. CASE \E r \in Runs : Step(r)
  <2> PICK r \in Runs : Step(r)
    BY <1>3
  <2>1. CASE AppendToStream(r) \/ AppendFails(r)
    <3>1. pc[s] = "opening" /\ s # r
      BY <2>1 DEF AppendToStream, AppendFails
    <3>2. /\ pc[r] \in {"opening", "closing"} /\ pending[r] \in Event
          /\ log' = log \/ log' = Append(log, pending[r])
      BY <2>1 DEF AppendToStream, AppendFails, RunsInOrder
    <3>3. pending[r].uuid[1] = r
      BY <3>2, KnownIff DEF RunsInOrder, KnownEvents
    <3> QED
      BY <1>0, <3>1, <3>2, <3>3 DEF WrittenBy
  <2>2. CASE ~(AppendToStream(r) \/ AppendFails(r))
    BY <1>1, <2>2 DEF Step, Deliver, HandleAsync, ScriptEnds, RunnerThrows, Ack
  <2> QED
    BY <2>1, <2>2
<1>4. CASE Environment
  BY <1>1, <1>4 DEF Environment, Crash, Disconnect, Connect
<1>5. CASE Quiescent
  BY <1>1, <1>5 DEF Quiescent, vars
<1> QED
  BY <1>2, <1>3, <1>4, <1>5 DEF Next

\* An end is stored after its start, by the last append of its run.
LEMMA EndsLastStep ==
  ASSUME TypeOK, RunsInOrder, KnownEvents, PendingPhase, StoredPhases, EndsLast, Next
  PROVE  EndsLast'
<1> SUFFICES ASSUME NEW s \in Runs, Stored(s, "closing")'
             PROVE  Stored(s, "opening")' /\ pc'[s] \notin {"opening", "script", "closing"}
  BY DEF EndsLast
<1>1. CASE Stored(s, "closing")
  <2>1. Stored(s, "opening") /\ pc[s] \notin {"opening", "script", "closing"}
    BY <1>1 DEF EndsLast
  <2>2. pc[s] \notin {"idle", "delivered"}
    BY <1>1, KnownIff DEF Stored, KnownEvents
  <2>3. pc'[s] \notin {"opening", "script", "closing"}
    <3> USE DEF TypeOK
    <3>1. CASE Client
      BY <2>1, <3>1 DEF Client, SendFileToAnalysis, CreateSource, AnalyzeFile, Publish
    <3>2. CASE \E r \in Runs : Step(r)
      BY <2>1, <2>2, <3>2 DEF Step, Deliver, HandleAsync, AppendToStream, AppendFails, ScriptEnds, RunnerThrows, Ack
    <3>3. CASE Environment
      BY <2>1, <3>3 DEF Environment, Crash, Disconnect, Connect
    <3>4. CASE Quiescent
      BY <2>1, <3>4 DEF Quiescent, vars
    <3> QED
      BY <3>1, <3>2, <3>3, <3>4 DEF Next
  <2> QED
    BY <2>1, <2>3, StoredStep
<1>2. CASE ~Stored(s, "closing")
  <2>1. pc[s] = "closing" /\ pc'[s] \in {"handled", "faulted"}
    BY <1>2, StoredStep DEF Appends
  <2>2. Stored(s, "opening")'
    BY <2>1, StoredStep DEF StoredPhases
  <2> QED
    BY <2>1, <2>2
<1> QED
  BY <1>1, <1>2

\* A handler throws only where the faults say so.
LEMMA FaultsThrowStep ==
  ASSUME TypeOK, FaultsThrow, Next
  PROVE  FaultsThrow'
<1> USE DEF TypeOK, FaultsThrow
<1>1. CASE Client
  BY <1>1 DEF Client, SendFileToAnalysis, CreateSource, AnalyzeFile, Publish
<1>2. CASE \E r \in Runs : Step(r)
  BY <1>2 DEF Step, Deliver, HandleAsync, AppendToStream, AppendFails, ScriptEnds, RunnerThrows, Ack, Throws
<1>3. CASE Environment
  BY <1>3 DEF Environment, Crash, Disconnect, Connect
<1>4. CASE Quiescent
  BY <1>4 DEF Quiescent, vars
<1> QED
  BY <1>1, <1>2, <1>3, <1>4 DEF Next

\* What a published command adds to the queues had no run yet.
LEMMA PublishedIsNew ==
  ASSUME TypeOK, RunsInOrder, Client
  PROVE  /\ pc' = pc
         /\ \A g \in ready' : g \in ready \/ \A r \in Runs : r[1] = g => pc[r] = "idle"
<1> PICK u \in Users, h \in Guids :
      \E f \in Guids, k \in Kinds : Publish(h, [kind |-> k, user |-> u, file |-> f])
  BY DEF Client, SendFileToAnalysis, CreateSource, AnalyzeFile, Kinds
<1>1. command[h] = None /\ pc' = pc /\ ready' \subseteq ready \cup {h}
  BY DEF Publish, Fresh, Published
<1> QED
  BY <1>1 DEF RunsInOrder

\* The last delivery of a command that waits is still to come.
LEMMA ReadyIsDeliverableStep ==
  ASSUME TypeOK, RunsInOrder, LastRun, ReadyIsDeliverable, Next
  PROVE  ReadyIsDeliverable'
<1> USE DEF TypeOK
<1> SUFFICES ASSUME NEW g \in ready'
             PROVE  pc'[<<g, MaxDeliveries>>] = "idle"
  BY DEF ReadyIsDeliverable
<1>0. g \in ready => <<g, MaxDeliveries>> \in Runs /\ pc[<<g, MaxDeliveries>>] = "idle"
  BY BoundsAssumption DEF ReadyIsDeliverable, Runs
<1>1. CASE Client
  <2>1. g \in Guids /\ <<g, MaxDeliveries>> \in Runs
    BY <1>1, TypeOKStep, BoundsAssumption DEF Next, Runs
  <2> QED
    BY <1>0, <1>1, <2>1, PublishedIsNew
<1>2. CASE \E r \in Runs : Step(r)
  BY <1>0, <1>2 DEF Step, Deliver, HandleAsync, AppendToStream, AppendFails, ScriptEnds, RunnerThrows, Ack
<1>3. CASE Environment
  <2> PICK p \in Replicas : Crash(p) \/ Disconnect(p) \/ Connect(p)
    BY <1>3 DEF Environment
  <2>0. \A r \in Runs : pc[r] = "idle" => pc'[r] = "idle"
    BY DEF Crash, Disconnect, Connect, Live
  <2>1. CASE g \in ready
    BY <1>0, <2>0, <2>1
  <2>2. CASE g \notin ready
    <3>1. Requeue(p)
      BY <2>2 DEF Crash, Disconnect, Connect
    <3>2. PICK r \in held : r[1] = g /\ r[2] < MaxDeliveries
      BY <2>2, <3>1 DEF Requeue
    <3>3. r \in Runs /\ MaxDeliveries \in (r[2] + 1) .. MaxDeliveries
      BY <3>2, EarlierRuns, BoundsAssumption
    <3>4. <<g, MaxDeliveries>> \in Runs /\ pc[<<g, MaxDeliveries>>] = "idle"
      BY <3>2, <3>3, EarlierRuns DEF LastRun
    <3> QED
      BY <2>0, <3>4
  <2> QED
    BY <2>1, <2>2
<1>4. CASE Quiescent
  BY <1>0, <1>4 DEF Quiescent, vars
<1> QED
  BY <1>1, <1>2, <1>3, <1>4 DEF Next

\* Without crashes and lost connections, a command is delivered once.
LEMMA RunsOnceStep ==
  ASSUME TypeOK, RunsInOrder, RunsOnce, Next
  PROVE  RunsOnce'
<1> USE DEF TypeOK
<1> SUFFICES ASSUME ~Redelivery, NEW s \in Runs, s[1] \in ready' \/ s[2] > 1
             PROVE  pc'[s] = "idle"
  BY DEF RunsOnce
<1>0. s[1] \in ready \/ s[2] > 1 => pc[s] = "idle"
  BY DEF RunsOnce
<1>1. CASE Client
  BY <1>0, <1>1, PublishedIsNew
<1>2. CASE \E r \in Runs : Step(r)
  <2> PICK r \in Runs : Step(r)
    BY <1>2
  <2>1. CASE \E p \in Replicas : Deliver(r, p)
    <3>1. /\ r[1] \in ready /\ ready' = ready \ {r[1]} /\ pc' = [pc EXCEPT ![r] = "delivered"]
          /\ \A m \in 1 .. (r[2] - 1) : pc[<<r[1], m>>] # "idle"
      BY <2>1 DEF Deliver
    <3>2. ~(r[2] > 1)
      <4> SUFFICES ASSUME r[2] > 1 PROVE FALSE
        OBVIOUS
      <4>1. 1 \in 1 .. (r[2] - 1) /\ <<r[1], 1>> \in Runs /\ <<r[1], 1>>[1] = r[1]
        BY EarlierRuns, BoundsAssumption
      <4>2. pc[<<r[1], 1>>] = "idle"
        BY <3>1, <4>1 DEF RunsOnce
      <4> QED
        BY <3>1, <4>1, <4>2
    <3> QED
      BY <1>0, <3>1, <3>2
  <2>2. CASE ~\E p \in Replicas : Deliver(r, p)
    BY <1>0, <2>2 DEF Step, HandleAsync, AppendToStream, AppendFails, ScriptEnds, RunnerThrows, Ack
  <2> QED
    BY <2>1, <2>2
<1>3. CASE Environment
  BY <1>0, <1>3 DEF Environment, Crash, Disconnect, Connect, Redelivery
<1>4. CASE Quiescent
  BY <1>0, <1>4 DEF Quiescent, vars
<1> QED
  BY <1>1, <1>2, <1>3, <1>4 DEF Next

---------------------------------------------------------------------------
\* The invariant, and what follows from it

\* The initial state satisfies the invariant.
LEMMA InitIndInv == Init => IndInv
<1> SUFFICES ASSUME Init PROVE IndInv
  OBVIOUS
<1>1. TypeOK
  BY InitTypeOK
<1>2. \A r \in Runs : Known(r) = {}
  BY DEF Init, Known, WrittenBy
<1>3. RunsInOrder /\ OneCustodian /\ LastRun /\ PendingPhase /\ StoredPhases
  BY DEF Init, RunsInOrder, OneCustodian, LastRun, PendingPhase, StoredPhases
<1>a. NothingBeforeOpening /\ EndsLast /\ FaultsThrow /\ ReadyIsDeliverable /\ RunsOnce
  BY DEF Init, NothingBeforeOpening, EndsLast, Stored, FaultsThrow, ReadyIsDeliverable, RunsOnce
<1>4. KnownEvents /\ DatesWithinRun
  BY <1>2 DEF KnownEvents, DatesWithinRun
<1>5. SomeConsumer
  BY ReplicasAssumption DEF Init, SomeConsumer, Consumers
<1>6. NothingLost /\ StartBeforeEnd
  BY DEF Init, NothingLost, Published, StartBeforeEnd
<1> QED
  BY <1>1, <1>3, <1>a, <1>4, <1>5, <1>6 DEF IndInv

\* Every step preserves the invariant.
LEMMA IndInvStep == IndInv /\ [Next]_vars => IndInv'
<1> SUFFICES ASSUME IndInv, [Next]_vars PROVE IndInv'
  OBVIOUS
<1>1. CASE Next
  BY <1>1, TypeOKStep, RunsInOrderStep, KnownEventsStep, PendingPhaseStep, StoredPhasesStep,
     DatesWithinRunStep, OneCustodianStep, LastRunStep,
     NothingBeforeOpeningStep, EndsLastStep, FaultsThrowStep, ReadyIsDeliverableStep, RunsOnceStep,
     SomeConsumerStep, NothingLostStep, StartBeforeEndStep DEF IndInv
<1>2. CASE UNCHANGED vars
  <2> USE <1>2 DEF vars, IndInv
  <2>1. TypeOK' /\ RunsInOrder' /\ LastRun' /\ OneCustodian' /\ SomeConsumer' /\ NothingLost'
    BY DEF TypeOK, RunsInOrder, LastRun, OneCustodian, SomeConsumer, Consumers, NothingLost,
       Published
  <2>2. PendingPhase' /\ StoredPhases' /\ StartBeforeEnd'
    BY DEF PendingPhase, StoredPhases, Stored, StartBeforeEnd
  <2>a. NothingBeforeOpening' /\ EndsLast' /\ FaultsThrow' /\ ReadyIsDeliverable' /\ RunsOnce'
    BY DEF NothingBeforeOpening, WrittenBy, EndsLast, Stored, FaultsThrow, ReadyIsDeliverable, RunsOnce
  <2>3. \A r : Known(r)' = Known(r)
    BY DEF Known, WrittenBy
  <2>4. KnownEvents' /\ DatesWithinRun'
    BY <2>3 DEF KnownEvents, OfCommand, DatesWithinRun
  <2> QED
    BY <2>1, <2>2, <2>a, <2>4
<1> QED
  BY <1>1, <1>2

\* The invariant holds in every reachable state.
THEOREM Invariance == Spec => []IndInv
BY InitIndInv, IndInvStep, PTL DEF Spec

\* The state of the bus, of the handlers and of the log keeps its shape.
THEOREM TypeCorrect == Spec => []TypeOK
<1>1. IndInv => TypeOK
  BY DEF IndInv
<1> QED
  BY <1>1, Invariance, PTL

\* No operation is recorded as ended before it is recorded as started, in the
\* order of the log and in the order of the dates, whatever faults happen and
\* however the clocks differ.
THEOREM StartsBeforeItEnds == Spec => []StartBeforeEnd
<1>1. IndInv => StartBeforeEnd
  BY DEF IndInv
<1> QED
  BY <1>1, Invariance, PTL

\* Replicas and redelivery never give a command to two holders at once.
THEOREM CustodyIsExclusive == Spec => []OneCustodian
<1>1. IndInv => OneCustodian
  BY DEF IndInv
<1> QED
  BY <1>1, Invariance, PTL

\* Without an outage of all replicas, the broker loses no command.
THEOREM NoCommandIsLost == Spec => []NothingLost
<1>1. IndInv => NothingLost
  BY DEF IndInv
<1> QED
  BY <1>1, Invariance, PTL

\* An event of the log is known to the run that wrote it.
LEMMA LoggedIsKnown ==
  ASSUME IndInv, NEW i \in DOMAIN log
  PROVE  /\ log[i].uuid[1] \in Runs /\ log[i].uuid[2] \in {"opening", "closing"}
         /\ log[i].date \in Int
         /\ log[i] \in Known(log[i].uuid[1])
         /\ ~Settling(log[i].status) => log[i].uuid[2] = "opening"
<1>1. log[i] \in Event
  BY DEF IndInv, TypeOK
<1>2. log[i].uuid[1] \in Runs /\ log[i].uuid[2] \in {"opening", "closing"} /\ log[i].date \in Int
  BY <1>1 DEF Event
<1>3. log[i] \in Known(log[i].uuid[1])
  BY KnownIff
<1> QED
  BY <1>2, <1>3 DEF IndInv, KnownEvents

\* The invariant implies that an operation without runs left is settled.
LEMMA DrainedFollows == IndInv => DrainedIsSettled
<1> SUFFICES ASSUME IndInv, NEW g \in Guids,
                    \A i \in EventsOf(g) : \E j \in EventsOf(g) :
                      log[j].uuid = <<log[i].uuid[1], "closing">>,
                    NEW i \in DOMAIN log, Newest(g, i), ~Settling(log[i].status)
             PROVE  FALSE
  BY DEF DrainedIsSettled
<1> DEFINE s == log[i].uuid[1]
<1>1. PICK j \in EventsOf(g) : log[j].uuid = <<s, "closing">>
  BY DEF Newest
<1>2. j \in DOMAIN log
  BY DEF EventsOf
<1>3. log[j] \in Known(s) /\ log[i] \in Known(s) /\ s \in Runs /\ log[i].uuid[2] = "opening"
  BY <1>1, <1>2, LoggedIsKnown
<1>4. log[i].date < log[j].date
  BY <1>1, <1>3 DEF IndInv, DatesWithinRun
<1>5. log[j].date <= log[i].date
  BY <1>1 DEF Newest
<1> QED
  BY <1>2, <1>4, <1>5, LoggedIsKnown

\* When every run that recorded a start recorded its end, the operation is
\* reported as settled, however far the replicas' clocks are apart.
THEOREM DrainedOperationIsSettled == Spec => []DrainedIsSettled
BY Invariance, DrainedFollows, PTL
---------------------------------------------------------------------------
\* No command is stuck

\* A run's stored end is a settling event of its operation.
LEMMA StoredEndSettles ==
  ASSUME IndInv, NEW r \in Runs, Stored(r, "closing")
  PROVE  \E i \in EventsOf(r[1]) : Settling(log[i].status)
<1>1. PICK i \in DOMAIN log : log[i].uuid = <<r, "closing">>
  BY DEF Stored
<1>2. log[i] \in Known(r)
  BY <1>1, LoggedIsKnown
<1> QED
  BY <1>1, <1>2 DEF IndInv, KnownEvents, EventsOf

\* A run that has stored an event gives its operation one.
LEMMA StoredIsOf ==
  ASSUME NEW r, NEW phase, Stored(r, phase)
  PROVE  EventsOf(r[1]) # {}
<1>1. PICK i \in DOMAIN log : log[i].uuid = <<r, phase>>
  BY DEF Stored
<1>2. log[i].uuid[1][1] = r[1]
  BY <1>1
<1> QED
  BY <1>2 DEF EventsOf

\* A command that waits has a first delivery that has not been made.
LEMMA NextDelivery ==
  ASSUME IndInv, NEW g \in ready
  PROVE  \E n \in 1 .. MaxDeliveries :
           pc[<<g, n>>] = "idle" /\ \A m \in 1 .. (n - 1) : pc[<<g, m>>] # "idle"
<1> DEFINE Unmade == {n \in 1 .. MaxDeliveries : pc[<<g, n>>] = "idle"}
<1>1. MaxDeliveries \in Unmade /\ Unmade \in SUBSET Nat
  BY BoundsAssumption DEF IndInv, ReadyIsDeliverable
<1>2. PICK n \in Unmade : \A m \in Unmade : n <= m
  BY <1>1, LeastNat
<1>3. \A m \in 1 .. (n - 1) : m \in 1 .. MaxDeliveries /\ ~(n <= m)
  BY <1>2, BoundsAssumption
<1> QED
  BY <1>2, <1>3

\* The invariant implies that every command can go on.
LEMMA StuckFollows == IndInv => NoneStuck
<1> SUFFICES ASSUME IndInv, "outage" \notin Faults, NEW g \in Published
             PROVE  \/ g \in ready /\ Consumers # {} /\ \E n \in 1 .. MaxDeliveries :
                         pc[<<g, n>>] = "idle" /\ \A m \in 1 .. (n - 1) : pc[<<g, m>>] # "idle"
                    \/ \E r \in held : r[1] = g /\ pc[r] \in Live
                    \/ \E i \in EventsOf(g) : Settling(log[i].status)
                    \/ \E n \in 1 .. MaxDeliveries : pc[<<g, n>>] = "dropped"
  BY DEF NoneStuck
<1>1. CASE g \in ready
  BY <1>1, NextDelivery DEF IndInv, SomeConsumer
<1>2. CASE \E r \in held : r[1] = g
  BY <1>2 DEF IndInv, LastRun
<1>3. ASSUME NEW n \in 1 .. MaxDeliveries, pc[<<g, n>>] = "acked"
      PROVE  \E i \in EventsOf(g) : Settling(log[i].status)
  <2>1. <<g, n>> \in Runs /\ <<g, n>>[1] = g
    BY DEF Published, Runs
  <2>2. Stored(<<g, n>>, "closing")
    BY <1>3, <2>1 DEF IndInv, StoredPhases
  <2> QED
    BY <2>1, <2>2, StoredEndSettles
<1> QED
  BY <1>1, <1>2, <1>3 DEF IndInv, NothingLost

\* While one replica stays connected, every command that was published and has
\* no recorded end can be delivered, or is held by a run that goes on, unless a
\* handler threw: no order of redeliveries, crashes and lost connections leaves
\* one with nobody to finish it.
THEOREM NoCommandIsStuck == Spec => []NoneStuck
BY Invariance, StuckFollows, PTL

---------------------------------------------------------------------------
\* No operation is open without a cause

\* The invariant implies that an operation in progress has a cause.
LEMMA OpenFollows == IndInv => OpenIsExplained
<1> SUFFICES ASSUME IndInv, NEW g \in Published, InProgress(g), g \notin ready,
                    \A r \in Runs : r[1] = g => pc[r] \notin Live \cup {"dropped"}
             PROVE  \/ "outage" \in Faults /\ \A r \in Runs : r[1] = g => pc[r] \in {"idle", "dead"}
                    \/ \E r, s \in Runs :
                         /\ r[1] = g /\ s[1] = g /\ s[2] < r[2]
                         /\ pc[r] = "acked" /\ pc[s] = "dead"
                         /\ \E i \in EventsOf(g) : log[i].uuid = <<s, "opening">> /\ Newest(g, i)
  BY DEF OpenIsExplained
<1>0. \A r \in Runs : r[1] = g => pc[r] \in {"idle", "acked", "dead"}
  BY DEF IndInv, TypeOK, Over
<1>1. PICK i \in EventsOf(g) : Newest(g, i) /\ ~Settling(log[i].status)
  BY DEF InProgress
<1> DEFINE s == log[i].uuid[1]
<1>2. i \in DOMAIN log /\ s[1] = g
  BY DEF EventsOf
<1>3. s \in Runs /\ log[i].uuid[2] = "opening" /\ log[i] \in Known(s)
  BY <1>1, <1>2, LoggedIsKnown
<1>4. log[i].uuid = <<s, "opening">>
  <2>1. log[i] \in Event
    BY <1>2 DEF IndInv, TypeOK
  <2>2. log[i].uuid \in Runs \X {"opening", "closing"}
    BY <2>1 DEF Event
  <2> QED
    BY <1>3, <2>2
<1>5. pc[s] # "acked"
  <2> SUFFICES ASSUME pc[s] = "acked" PROVE FALSE
    OBVIOUS
  <2>1. PICK j \in DOMAIN log : log[j].uuid = <<s, "closing">>
    BY <1>3 DEF IndInv, StoredPhases, Stored
  <2>2. log[j] \in Known(s) /\ log[j].date \in Int /\ log[i].date \in Int
    BY <1>2, <2>1, LoggedIsKnown
  <2>3. log[i].date < log[j].date
    BY <1>3, <2>1, <2>2 DEF IndInv, DatesWithinRun
  <2>4. j \in EventsOf(g)
    BY <1>2, <2>1 DEF EventsOf
  <2> QED
    BY <1>1, <2>2, <2>3, <2>4 DEF Newest
<1>6. pc[s] = "dead"
  BY <1>0, <1>2, <1>3, <1>5 DEF IndInv, KnownEvents
<1>7. ASSUME NEW r \in Runs, r[1] = g, pc[r] = "acked"
      PROVE  s[2] < r[2]
  <2>1. /\ s = <<g, s[2]>> /\ r = <<g, r[2]>>
        /\ s[2] \in 1 .. MaxDeliveries /\ r[2] \in 1 .. MaxDeliveries
    BY <1>2, <1>3, <1>7, EarlierRuns
  <2>2. s[2] # r[2]
    BY <1>6, <1>7, <2>1
  <2>3. s[2] \notin (r[2] + 1) .. MaxDeliveries
    BY <1>6, <1>7, <2>1 DEF IndInv, LastRun
  <2> QED
    BY <2>1, <2>2, <2>3, BoundsAssumption
<1>8. CASE \E r \in Runs : r[1] = g /\ pc[r] = "acked"
  BY <1>1, <1>2, <1>3, <1>4, <1>6, <1>7, <1>8
<1>9. CASE \A r \in Runs : r[1] = g => pc[r] # "acked"
  <2>1. \A n \in 1 .. MaxDeliveries : <<g, n>> \in Runs
    BY DEF Published, Runs
  <2>2. \A n \in 1 .. MaxDeliveries : pc[<<g, n>>] \notin {"acked", "dropped"}
    BY <1>0, <1>9, <2>1
  <2>3. \A r \in held : r[1] # g
    BY <1>0 DEF IndInv, TypeOK, LastRun, Live
  <2>4. "outage" \in Faults
    BY <2>2, <2>3 DEF IndInv, NothingLost
  <2> QED
    BY <1>0, <1>9, <2>4
<1> QED
  BY <1>8, <1>9

\* An operation is reported as in progress only while a run is on it or its
\* message waits, or after a handler threw, or after an outage lost its message,
\* or when a run that lost its message began late and died: under every fault
\* and with any clocks there is no other way for it to stay open.
THEOREM OpenOnlyWithCause == Spec => []OpenIsExplained
BY Invariance, OpenFollows, PTL

---------------------------------------------------------------------------
\* The write side implements Operations

\* The abstract state of operation g stays as it is.
Same(g) ==
  /\ Stage(g)' = Stage(g)
  /\ Given(g)' = Given(g)
  /\ Recording(g, "opening")' = Recording(g, "opening")
  /\ Recording(g, "closing")' = Recording(g, "closing")
  /\ Closed(g)' = Closed(g)

\* The moves that Operations allows operation g.
Accepted(g) ==
  /\ Stage(g) = "none" /\ Stage(g)' = "accepted"
  /\ UNCHANGED <<Given(g), Recording(g, "opening"), Recording(g, "closing"), Closed(g)>>
Delivered(g, n) ==
  /\ Stage(g) # "none" /\ ~Closed(g) /\ n \notin Given(g) /\ (Given(g) = {} \/ Redelivery)
  /\ Given(g)' = Given(g) \cup {n}
  /\ UNCHANGED <<Stage(g), Recording(g, "opening"), Recording(g, "closing"), Closed(g)>>
Began(g, n) ==
  /\ n \in Given(g) \ Recording(g, "opening")
  /\ Recording(g, "opening")' = Recording(g, "opening") \cup {n}
  /\ Stage(g)' \in {"started"} \cup ({Stage(g)} \ {"accepted"})
  /\ UNCHANGED <<Given(g), Recording(g, "closing"), Closed(g)>>
Ended(g, n) ==
  /\ n \in Recording(g, "opening") \ Recording(g, "closing")
  /\ Recording(g, "closing")' = Recording(g, "closing") \cup {n}
  /\ \/ Stage(g)' = "settled"
     \/ Recording(g, "closing") \cup {n} # Recording(g, "opening") /\ Stage(g)' = Stage(g)
  /\ UNCHANGED <<Given(g), Recording(g, "opening"), Closed(g)>>
ClosedNow(g) ==
  /\ Closed(g) = FALSE /\ Closed(g)' = TRUE /\ (Recording(g, "closing") # {} \/ Throws)
  /\ UNCHANGED <<Stage(g), Given(g), Recording(g, "opening"), Recording(g, "closing")>>

Moves(g) ==
  \/ Same(g) \/ Accepted(g) \/ ClosedNow(g)
  \/ \E n \in Deliveries : Delivered(g, n) \/ Began(g, n) \/ Ended(g, n)

\* A step in which one operation makes such a move is one of Operations.
LEMMA OneMoves ==
  ASSUME NEW g \in Guids, \A h \in Guids : h # g => Same(h), Moves(g)
  PROVE  [Abstract!Next]_(Abstract!vars)
<1> DEFINE stage == [h \in Guids |-> Stage(h)]
           given == [h \in Guids |-> Given(h)]
           begun == [h \in Guids |-> Recording(h, "opening")]
           ended == [h \in Guids |-> Recording(h, "closing")]
           closed == [h \in Guids |-> Closed(h)]
<1>1. /\ [h \in Guids |-> Stage(h)'] = [stage EXCEPT ![g] = Stage(g)']
      /\ [h \in Guids |-> Given(h)'] = [given EXCEPT ![g] = Given(g)']
      /\ [h \in Guids |-> Recording(h, "opening")'] = [begun EXCEPT ![g] = Recording(g, "opening")']
      /\ [h \in Guids |-> Recording(h, "closing")'] = [ended EXCEPT ![g] = Recording(g, "closing")']
      /\ [h \in Guids |-> Closed(h)'] = [closed EXCEPT ![g] = Closed(g)']
  BY DEF Same
<1>2. /\ stage[g] = Stage(g) /\ given[g] = Given(g) /\ begun[g] = Recording(g, "opening")
      /\ ended[g] = Recording(g, "closing") /\ closed[g] = Closed(g)
  OBVIOUS
<1>3. /\ stage = [stage EXCEPT ![g] = Stage(g)] /\ given = [given EXCEPT ![g] = Given(g)]
      /\ begun = [begun EXCEPT ![g] = Recording(g, "opening")]
      /\ ended = [ended EXCEPT ![g] = Recording(g, "closing")]
      /\ closed = [closed EXCEPT ![g] = Closed(g)]
  OBVIOUS
<1>4. CASE Same(g)
  <2>1. UNCHANGED Abstract!vars
    BY <1>1, <1>3, <1>4 DEF Same, Abstract!vars
  <2> QED
    BY <2>1
<1>5. CASE Accepted(g)
  <2>1. Abstract!Accept(g)
    BY <1>1, <1>2, <1>3, <1>5 DEF Accepted, Abstract!Accept
  <2> QED
    BY <2>1 DEF Abstract!Next
<1>6. CASE ClosedNow(g)
  <2>1. Abstract!Close(g)
    BY <1>1, <1>2, <1>3, <1>6 DEF ClosedNow, Abstract!Close
  <2> QED
    BY <2>1 DEF Abstract!Next
<1>7. ASSUME NEW n \in Deliveries, Delivered(g, n)
      PROVE  Abstract!Next
  <2>1. Abstract!Deliver(g, n)
    BY <1>1, <1>2, <1>3, <1>7 DEF Delivered, Abstract!Deliver
  <2> QED
    BY <2>1 DEF Abstract!Next
<1>8. ASSUME NEW n \in Deliveries, Began(g, n)
      PROVE  Abstract!Next
  <2>1. Abstract!Begin(g, n)
    BY <1>1, <1>2, <1>3, <1>8 DEF Began, Abstract!Begin
  <2> QED
    BY <2>1 DEF Abstract!Next
<1>9. ASSUME NEW n \in Deliveries, Ended(g, n)
      PROVE  Abstract!Next
  <2>1. Abstract!End(g, n)
    BY <1>1, <1>2, <1>3, <1>9 DEF Ended, Abstract!End
  <2> QED
    BY <2>1 DEF Abstract!Next
<1> QED
  BY <1>4, <1>5, <1>6, <1>7, <1>8, <1>9 DEF Moves

\* An operation without new events stays in its stage.
LEMMA StageKept ==
  ASSUME NEW g, command'[g] = command[g], EventsOf(g)' = EventsOf(g),
         \A i \in EventsOf(g) : log'[i] = log[i]
  PROVE  Stage(g)' = Stage(g)
<1>1. \A i : Newest(g, i)' <=> Newest(g, i)
  BY DEF Newest
<1>2. InProgress(g)' <=> InProgress(g)
  BY <1>1 DEF InProgress
<1> QED
  BY <1>2 DEF Stage

\* What of the abstract state depends on the log only.
LEMMA SameLog ==
  ASSUME log' = log
  PROVE  \A h : /\ EventsOf(h)' = EventsOf(h)
                /\ \A phase : Recording(h, phase)' = Recording(h, phase)
                /\ command'[h] = command[h] => Stage(h)' = Stage(h)
<1>1. \A h : EventsOf(h)' = EventsOf(h)
  BY DEF EventsOf
<1>2. \A h, phase : Recording(h, phase)' = Recording(h, phase)
  BY DEF Recording, Stored
<1> QED
  BY <1>1, <1>2, StageKept

\* What of the abstract state depends on where the runs are.
LEMMA RunsKept ==
  ASSUME NEW h \in Guids,
         \A s \in Runs : s[1] = h =>
           /\ (pc'[s] = "idle") <=> (pc[s] = "idle")
           /\ (pc'[s] \in {"acked", "dropped"}) <=> (pc[s] \in {"acked", "dropped"})
  PROVE  Given(h)' = Given(h) /\ Closed(h)' = Closed(h)
<1>1. \A n \in Deliveries : <<h, n>> \in Runs
  BY DEF Deliveries, Runs
<1>2. Given(h)' = Given(h)
  BY <1>1 DEF Given, Deliveries
<1>3. Closed(h)' <=> Closed(h)
  BY <1>1 DEF Closed, Deliveries
<1>4. Closed(h) \in BOOLEAN /\ Closed(h)' \in BOOLEAN
  BY DEF Closed
<1> QED
  BY <1>2, <1>3, <1>4

\* A command that is published has no events and no runs yet.
LEMMA PublishMoves ==
  ASSUME IndInv, NEW g \in Guids, NEW c \in Command, Publish(g, c)
  PROVE  [Abstract!Next]_(Abstract!vars)
<1>1. /\ command[g] = None /\ command'[g] = c /\ c # None
      /\ \A h \in Guids : h # g => command'[h] = command[h]
      /\ log' = log /\ pc' = pc
  BY NoneAssumption DEF Publish, Fresh, Published, IndInv, TypeOK
<1>2. \A h \in Guids : Given(h)' = Given(h) /\ Closed(h)' = Closed(h)
  BY <1>1, RunsKept
<1>3. EventsOf(g) = {}
  <2> SUFFICES ASSUME NEW i \in EventsOf(g) PROVE FALSE
    OBVIOUS
  <2>1. i \in DOMAIN log /\ log[i].uuid[1][1] = g
    BY DEF EventsOf
  <2> QED
    BY <1>1, <2>1, LoggedIsKnown DEF IndInv, KnownEvents, RunsInOrder
<1>4. Stage(g) = "none" /\ Stage(g)' = "accepted"
  BY <1>1, <1>3, SameLog DEF Stage
<1>5. Accepted(g)
  BY <1>1, <1>2, <1>4, SameLog DEF Accepted
<1>6. \A h \in Guids : h # g => Same(h)
  BY <1>1, <1>2, SameLog DEF Same
<1> QED
  BY <1>5, <1>6, OneMoves DEF Moves

\* A delivery is a first one or a redelivery, of a command that is not closed.
LEMMA DeliverMoves ==
  ASSUME IndInv, NEW r \in Runs, NEW p \in Replicas, Deliver(r, p)
  PROVE  [Abstract!Next]_(Abstract!vars)
<1> DEFINE g == r[1]
           n == r[2]
<1>1. /\ g \in Guids /\ n \in Deliveries /\ r = <<g, n>>
      /\ \A m \in Deliveries : <<g, m>> \in Runs
  BY EarlierRuns DEF Deliveries
<1>2. /\ g \in ready /\ pc[r] = "idle" /\ pc'[r] = "delivered"
      /\ \A s \in Runs : s # r => pc'[s] = pc[s]
      /\ log' = log /\ command' = command
  BY DEF Deliver, IndInv, TypeOK
<1>3. \A h \in Guids : h # g => Same(h)
  BY <1>2, SameLog, RunsKept DEF Same
<1>4. Stage(g) # "none"
  BY <1>2 DEF Stage, IndInv, RunsInOrder
<1>5. ~Closed(g)
  BY <1>1, <1>2 DEF Closed, IndInv, OneCustodian
<1>6. n \notin Given(g) /\ Given(g)' = Given(g) \cup {n}
  BY <1>1, <1>2 DEF Given
<1>7. Given(g) = {} \/ Redelivery
  BY <1>1, <1>2 DEF Given, IndInv, RunsOnce
<1>8. Closed(g)' = Closed(g)
  BY <1>1, <1>2, <1>5 DEF Closed
<1>9. Delivered(g, n)
  BY <1>2, <1>4, <1>5, <1>6, <1>7, <1>8, SameLog DEF Delivered
<1> QED
  BY <1>1, <1>3, <1>9, OneMoves DEF Moves

\* What an append does to the events of the operations.
LEMMA AppendEffect ==
  ASSUME IndInv, NEW r \in Runs, pc[r] \in {"opening", "closing"},
         log' = Append(log, pending[r])
  PROVE  LET j == Len(log) + 1 IN
         /\ pending[r] \in Event /\ pending[r].uuid = <<r, pc[r]>>
         /\ Settling(pending[r].status) <=> pc[r] = "closing"
         /\ log'[j] = pending[r] /\ j \in DOMAIN log' /\ j \notin DOMAIN log
         /\ DOMAIN log' = DOMAIN log \cup {j}
         /\ EventsOf(r[1])' = EventsOf(r[1]) \cup {j}
         /\ \A h : h # r[1] => EventsOf(h)' = EventsOf(h)
         /\ \A h : EventsOf(h) \subseteq DOMAIN log
         /\ \A i \in DOMAIN log : log'[i] = log[i]
<1>1. pending[r] \in Event /\ pending[r] # None /\ log \in Seq(Event)
  BY DEF IndInv, TypeOK, RunsInOrder
<1>2. pending[r].uuid[1] = r /\ (Settling(pending[r].status) <=> pending[r].uuid[2] = "closing")
  BY <1>1, KnownIff DEF IndInv, KnownEvents
<1>3. pending[r].uuid[2] = pc[r]
  BY DEF IndInv, PendingPhase
<1>4. /\ DOMAIN log' = DOMAIN log \cup {Len(log) + 1} /\ Len(log) + 1 \notin DOMAIN log
      /\ log'[Len(log) + 1] = pending[r] /\ \A i \in DOMAIN log : log'[i] = log[i]
  BY <1>1
<1>5. pending[r].uuid = <<r, pc[r]>>
  BY <1>1, <1>2, <1>3 DEF Event
<1> QED
  BY <1>1, <1>2, <1>3, <1>4, <1>5 DEF EventsOf

\* An append records one more start or end, of its own run.
LEMMA AppendRecords ==
  ASSUME IndInv, NEW r \in Runs, pc[r] \in {"opening", "closing"},
         log' = Append(log, pending[r])
  PROVE  \A h \in Guids : \A phase :
           Recording(h, phase)' = IF h = r[1] /\ phase = pc[r]
                                  THEN Recording(h, phase) \cup {r[2]}
                                  ELSE Recording(h, phase)
<1>1. \A s, phase : Stored(s, phase)' <=> Stored(s, phase) \/ (s = r /\ phase = pc[r])
  <2> TAKE s, phase
  <2>1. CASE s = r /\ phase = pc[r]
    BY <2>1, AppendEffect DEF Stored
  <2>2. CASE ~(s = r /\ phase = pc[r])
    BY <2>2, AppendEffect DEF Stored
  <2> QED
    BY <2>1, <2>2
<1>2. r = <<r[1], r[2]>> /\ r[2] \in Deliveries
  BY EarlierRuns DEF Deliveries
<1>3. \A h, n : <<h, n>> = r <=> h = r[1] /\ n = r[2]
  BY <1>2
<1>4. ASSUME NEW h \in Guids, NEW phase, NEW n \in Deliveries
      PROVE  n \in Recording(h, phase)' <=>
               n \in Recording(h, phase) \/ (h = r[1] /\ phase = pc[r] /\ n = r[2])
  BY <1>1, <1>3 DEF Recording
<1> QED
  BY <1>2, <1>4 DEF Recording

\* A stored start is one of a delivery that had recorded none; it opens its
\* operation, unless events that are dated later say something already.
LEMMA OpeningMoves ==
  ASSUME IndInv, NEW r \in Runs, pc[r] = "opening",
         log' = Append(log, pending[r]), command' = command,
         \A h \in Guids : Given(h)' = Given(h) /\ Closed(h)' = Closed(h)
  PROVE  [Abstract!Next]_(Abstract!vars)
<1> DEFINE g == r[1]
           j == Len(log) + 1
           e == pending[r]
<1>0. g \in Guids /\ command[g] # None /\ r[2] \in Deliveries /\ r = <<g, r[2]>>
  BY EarlierRuns DEF IndInv, RunsInOrder, Deliveries
<1>1. /\ e \in Event /\ ~Settling(e.status) /\ log'[j] = e
      /\ EventsOf(g)' = EventsOf(g) \cup {j} /\ \A h : h # g => EventsOf(h)' = EventsOf(h)
      /\ \A h : EventsOf(h) \subseteq DOMAIN log
      /\ \A i \in DOMAIN log : log'[i] = log[i]
  BY AppendEffect
<1>2. \A h \in Guids : h # g => Same(h)
  BY <1>1, AppendRecords, StageKept DEF Same
<1>3. \A i \in EventsOf(g) : log[i].date \in Int
  BY <1>1, LoggedIsKnown
<1>4. e.date \in Int
  BY <1>1 DEF Event
<1>5. InProgress(g)' \/ EventsOf(g) # {}
  BY <1>1, <1>4 DEF InProgress, Newest
<1>6. InProgress(g) => InProgress(g)'
  <2> SUFFICES ASSUME NEW i \in EventsOf(g), Newest(g, i), ~Settling(log[i].status)
               PROVE  InProgress(g)'
    BY DEF InProgress
  <2>1. CASE e.date <= log[i].date
    BY <1>1, <2>1 DEF InProgress, Newest
  <2>2. CASE log[i].date <= e.date
    <3>1. \A k \in EventsOf(g) : log[k].date <= e.date
      BY <1>3, <1>4, <2>2 DEF Newest
    <3>2. \A k \in EventsOf(g)' : log'[k].date <= log'[j].date
      BY <1>1, <1>4, <3>1
    <3> QED
      BY <1>1, <3>2 DEF InProgress, Newest
  <2> QED
    BY <1>3, <1>4, <2>1, <2>2
<1>7. Stage(g)' = IF InProgress(g)' THEN "started" ELSE "settled"
  BY <1>0, <1>1 DEF Stage
<1>8. Stage(g)' \in {"started"} \cup ({Stage(g)} \ {"accepted"})
  BY <1>0, <1>5, <1>6, <1>7 DEF Stage
<1>9. r[2] \in Given(g) \ Recording(g, "opening")
  <2>1. ~Stored(r, "opening")
    BY DEF IndInv, NothingBeforeOpening, WrittenBy, Stored
  <2> QED
    BY <1>0, <2>1 DEF Given, Recording
<1>10. Began(g, r[2])
  BY <1>0, <1>8, <1>9, AppendRecords DEF Began
<1> QED
  BY <1>0, <1>2, <1>10, OneMoves DEF Moves

\* A stored end is one of a delivery that had recorded its start only; it
\* settles the operation unless another delivery that began has not ended.
LEMMA ClosingMoves ==
  ASSUME IndInv, IndInv', NEW r \in Runs, pc[r] = "closing",
         log' = Append(log, pending[r]), command' = command,
         \A h \in Guids : Given(h)' = Given(h) /\ Closed(h)' = Closed(h)
  PROVE  [Abstract!Next]_(Abstract!vars)
<1> DEFINE g == r[1]
           n == r[2]
           j == Len(log) + 1
<1>0. g \in Guids /\ command[g] # None /\ n \in Deliveries /\ r = <<g, n>>
  BY EarlierRuns DEF IndInv, RunsInOrder, Deliveries
<1>1. /\ Settling(log'[j].status)
      /\ EventsOf(g)' = EventsOf(g) \cup {j} /\ \A h : h # g => EventsOf(h)' = EventsOf(h)
      /\ \A h : EventsOf(h) \subseteq DOMAIN log
      /\ \A i \in DOMAIN log : log'[i] = log[i]
  BY AppendEffect
<1>2. \A h \in Guids : h # g => Same(h)
  BY <1>1, AppendRecords, StageKept DEF Same
<1>3. Stored(r, "opening") /\ ~Stored(r, "closing")
  BY DEF IndInv, StoredPhases, EndsLast
<1>4. n \in Recording(g, "opening") \ Recording(g, "closing")
  BY <1>0, <1>3 DEF Recording
<1>5. EventsOf(g) # {}
  BY <1>3, StoredIsOf
<1>6. InProgress(g)' => InProgress(g)
  BY <1>1 DEF InProgress, Newest
<1>7. Stage(g)' = "settled" \/ Stage(g)' = Stage(g)
  BY <1>0, <1>1, <1>5, <1>6 DEF Stage
<1>8. /\ Recording(g, "closing")' = Recording(g, "closing") \cup {n}
      /\ Recording(g, "opening")' = Recording(g, "opening")
  BY <1>0, AppendRecords
<1>9. ASSUME Recording(g, "closing") \cup {n} = Recording(g, "opening")
      PROVE  Stage(g)' = "settled"
  <2>1. ASSUME NEW i \in EventsOf(g)'
        PROVE  \E k \in EventsOf(g)' : log'[k].uuid = <<log'[i].uuid[1], "closing">>
    <3> PICK s : s = log'[i].uuid[1]
      OBVIOUS
    <3>1. i \in DOMAIN log' /\ s[1] = g
      BY DEF EventsOf
    <3>2. log'[i].uuid \in Runs \X {"opening", "closing"}
      <4>1. log' \in Seq(Event)
        BY DEF IndInv, TypeOK
      <4>2. log'[i] \in Event
        BY <3>1, <4>1
      <4> QED
        BY <4>2 DEF Event
    <3>3. s \in Runs /\ (log'[i].uuid = <<s, "opening">> \/ log'[i].uuid = <<s, "closing">>)
      BY <3>1, <3>2
    <3>4. Stored(s, "opening")'
      BY <3>1, <3>3 DEF IndInv, EndsLast, Stored
    <3>5. s = <<g, s[2]>> /\ s[2] \in Deliveries
      BY <3>1, <3>3, EarlierRuns DEF Deliveries
    <3>6. s[2] \in Recording(g, "opening")'
      BY <3>4, <3>5 DEF Recording, Deliveries
    <3>7. Stored(s, "closing")'
      BY <1>8, <1>9, <3>5, <3>6 DEF Recording
    <3> QED
      BY <3>1, <3>7 DEF Stored, EventsOf
  <2>2. DrainedIsSettled'
    BY DrainedFollows, PTL
  <2>3. ~InProgress(g)'
    BY <1>0, <2>1, <2>2 DEF DrainedIsSettled, InProgress, EventsOf
  <2> QED
    BY <1>0, <1>1, <2>3 DEF Stage
<1>10. Ended(g, n)
  BY <1>0, <1>4, <1>7, <1>8, <1>9 DEF Ended
<1> QED
  BY <1>0, <1>2, <1>10, OneMoves DEF Moves

\* An acknowledgement closes a command that is open, after an end or a throw;
\* that of a delivery taken back does nothing.
LEMMA AckMoves ==
  ASSUME IndInv, NEW r \in Runs, Ack(r)
  PROVE  [Abstract!Next]_(Abstract!vars)
<1> DEFINE g == r[1]
<1>0. g \in Guids /\ r[2] \in Deliveries /\ r = <<g, r[2]>>
  BY EarlierRuns DEF Deliveries
<1>1. /\ log' = log /\ command' = command /\ pc[r] \in {"handled", "faulted"}
      /\ \A s \in Runs : s # r => pc'[s] = pc[s]
      /\ pc'[r] = IF r \notin held THEN "dead" ELSE IF pc[r] = "handled" THEN "acked" ELSE "dropped"
  BY DEF Ack, IndInv, TypeOK
<1>2. \A h \in Guids : h # g => Same(h)
  BY <1>1, SameLog, RunsKept DEF Same
<1>3. CASE r \notin held
  <2>1. Given(g)' = Given(g) /\ Closed(g)' = Closed(g)
    BY <1>0, <1>1, <1>3, RunsKept
  <2>2. Same(g)
    BY <1>1, <2>1, SameLog DEF Same
  <2> QED
    BY <1>0, <1>2, <2>2, OneMoves DEF Moves
<1>4. CASE r \in held
  <2>1. Closed(g) = FALSE
    <3>1. \A n \in Deliveries : <<g, n>> \in Runs
      BY <1>0 DEF Runs, Deliveries
    <3> QED
      BY <1>4, <3>1 DEF Closed, IndInv, OneCustodian
  <2>2. Closed(g)' = TRUE
    BY <1>0, <1>1, <1>4 DEF Closed
  <2>3. Given(g)' = Given(g)
    <3>1. \A n \in Deliveries : <<g, n>> \in Runs
      BY <1>0 DEF Runs, Deliveries
    <3>2. \A s \in Runs : (pc'[s] = "idle") <=> (pc[s] = "idle")
      BY <1>1
    <3> QED
      BY <3>1, <3>2 DEF Given, Deliveries
  <2>4. Recording(g, "closing") # {} \/ Throws
    BY <1>0, <1>1 DEF IndInv, StoredPhases, FaultsThrow, Recording
  <2>5. ClosedNow(g)
    BY <1>1, <2>1, <2>2, <2>3, <2>4, SameLog DEF ClosedNow
  <2> QED
    BY <1>0, <1>2, <2>5, OneMoves DEF Moves
<1> QED
  BY <1>3, <1>4

\* Every step of the write side moves one operation as Operations allows, or
\* none.
LEMMA StepMoves ==
  ASSUME IndInv, IndInv', [Next]_vars
  PROVE  [Abstract!Next]_(Abstract!vars)
<1>0. ASSUME log' = log, command' = command,
             \A h \in Guids : Given(h)' = Given(h) /\ Closed(h)' = Closed(h)
      PROVE  [Abstract!Next]_(Abstract!vars)
  <2>1. \A h \in Guids : Same(h)
    BY <1>0, SameLog DEF Same
  <2>2. CASE \E g \in Guids : TRUE
    BY <2>1, <2>2, OneMoves DEF Moves
  <2>3. CASE \A g \in Guids : FALSE
    <3>1. UNCHANGED Abstract!vars
      BY <2>3 DEF Abstract!vars
    <3> QED
      BY <3>1
  <2> QED
    BY <2>2, <2>3
<1>1. CASE Client
  <2> PICK u \in Users, g \in Guids :
        \E f \in Guids, k \in Kinds : Publish(g, [kind |-> k, user |-> u, file |-> f])
    BY <1>1 DEF Client, SendFileToAnalysis, CreateSource, AnalyzeFile, Kinds
  <2> PICK f \in Guids, k \in Kinds : Publish(g, [kind |-> k, user |-> u, file |-> f])
    OBVIOUS
  <2> [kind |-> k, user |-> u, file |-> f] \in Command
    BY DEF Command
  <2> QED
    BY PublishMoves
<1>2. ASSUME NEW r \in Runs, Step(r)
      PROVE  [Abstract!Next]_(Abstract!vars)
  <2>1. CASE Ack(r)
    BY <2>1, AckMoves
  <2>2. CASE \E p \in Replicas : Deliver(r, p)
    BY <2>2, DeliverMoves
  <2>3. CASE HandleAsync(r) \/ AppendToStream(r) \/ AppendFails(r) \/ ScriptEnds(r) \/ RunnerThrows(r)
    <3>0. /\ command' = command
          /\ \A s \in Runs : /\ (pc'[s] = "idle") <=> (pc[s] = "idle")
                             /\ (pc'[s] \in {"acked", "dropped"}) <=> (pc[s] \in {"acked", "dropped"})
      BY <2>3 DEF HandleAsync, AppendToStream, AppendFails, ScriptEnds, RunnerThrows, IndInv, TypeOK
    <3>1. \A h \in Guids : Given(h)' = Given(h) /\ Closed(h)' = Closed(h)
      BY <3>0, RunsKept
    <3>2. \/ log' = log
          \/ pc[r] \in {"opening", "closing"} /\ log' = Append(log, pending[r])
      BY <2>3 DEF HandleAsync, AppendToStream, AppendFails, ScriptEnds, RunnerThrows
    <3> QED
      BY <1>0, <3>0, <3>1, <3>2, OpeningMoves, ClosingMoves
  <2> QED
    BY <1>2, <2>1, <2>2, <2>3 DEF Step
<1>3. CASE Environment
  <2>1. /\ log' = log /\ command' = command
        /\ \A s \in Runs : /\ (pc'[s] = "idle") <=> (pc[s] = "idle")
                           /\ (pc'[s] \in {"acked", "dropped"}) <=> (pc[s] \in {"acked", "dropped"})
    BY <1>3 DEF Environment, Crash, Disconnect, Connect, Live
  <2> QED
    BY <1>0, <2>1, RunsKept
<1>4. CASE UNCHANGED vars
  BY <1>0, <1>4, RunsKept DEF vars
<1> QED
  BY <1>1, <1>2, <1>3, <1>4 DEF Next, Quiescent

\* The write side executes every command at least once as Operations says,
\* whatever crashes, is redelivered or throws and however the clocks differ: no
\* start without a delivery of its own, no end without its start, no delivery
\* after the command is closed, and once every delivery that began has ended the
\* events sorted by date say that the operation is settled.
THEOREM WriteSideImplementsOperations == Spec => OperationsSpec
<1>1. Init => Abstract!Init
  <2> SUFFICES ASSUME Init PROVE Abstract!Init
    OBVIOUS
  <2>1. ASSUME NEW g \in Guids
        PROVE  /\ Stage(g) = "none" /\ Given(g) = {} /\ Closed(g) = FALSE
               /\ \A phase : Recording(g, phase) = {}
    <3>1. \A n \in Deliveries : <<g, n>> \in Runs
      BY <2>1 DEF Runs, Deliveries
    <3>2. Stage(g) = "none"
      BY <2>1 DEF Init, Stage
    <3>3. Given(g) = {} /\ Closed(g) = FALSE
      BY <3>1 DEF Init, Given, Closed
    <3>4. \A phase : Recording(g, phase) = {}
      BY DEF Init, Recording, Stored
    <3> QED
      BY <3>2, <3>3, <3>4
  <2> QED
    BY <2>1 DEF Abstract!Init
<1>2. IndInv /\ IndInv' /\ [Next]_vars => [Abstract!Next]_(Abstract!vars)
  BY StepMoves
<1> QED
  BY <1>1, <1>2, Invariance, PTL DEF Spec, OperationsSpec, Abstract!Spec
===========================================================================
