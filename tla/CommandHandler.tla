-------------------------- MODULE CommandHandler --------------------------
(***************************************************************************)
(* The write side: CommandService publishes commands, RabbitMQ hands them   *)
(* to the replicas of CommandHandler, and each handler appends a first      *)
(* status to EventStore, runs a Spark script and appends a second one.      *)
(*                                                                          *)
(* A run is one delivery of one command: <<id, n>> is the nth time the      *)
(* broker delivers command id.  A delivered message waits for a thread of   *)
(* its replica before the handler runs, and the handler awaits between its  *)
(* steps, so runs interleave, within a replica and between replicas.        *)
(***************************************************************************)
EXTENDS Contracts

CONSTANTS
  Replicas,       \* instances of CommandHandler
  Skew,           \* offset of each replica's clock from true time
  Faults,         \* which of FaultKinds may happen
  MaxCommands,    \* bound: commands published
  MaxDeliveries,  \* bound: times the broker delivers one command
  None

FaultKinds ==
  {"crash",       \* a replica's process ends, and docker restarts it
   "disconnect",  \* a replica loses its RabbitMQ connection, and recovers it
   "outage",      \* the last connected replica may be the one to go
   "append",      \* EventStore's client throws
   "runner"}      \* Process.Start throws

ASSUME ReplicasAssumption == Replicas # {} /\ None \notin Replicas
ASSUME SkewAssumption == Skew \in [Replicas -> Int]
ASSUME FaultsAssumption == Faults \subseteq FaultKinds
ASSUME BoundsAssumption == MaxCommands \in Nat /\ MaxDeliveries \in Nat \ {0}
ASSUME NoneAssumption == None \notin Command

Runs == Guids \X (1 .. MaxDeliveries)

\* An event of EventStore: the fresh Uuid of its append (one per run and
\* phase), the stream, and the fields the services read.
Event ==
  [uuid : Runs \X {"opening", "closing"}, stream : {"Analysis", "SourceDocuments"},
   user : Users, document : Guids, task : Guids \cup {EmptyGuid},
   status : OperationStatus, result : Results, date : Int]

ASSUME NoneIsNoEvent == None \notin Event

VARIABLES
  command,  \* id -> the command published under it, or None
  ready,    \* ids of the messages waiting in the queues
  held,     \* runs whose message is delivered and not acknowledged
  link,     \* replica -> "up" (consuming), "cut" (running, no connection) or "down"
  pc,       \* run -> where its handler is
  on,       \* run -> the replica it runs on
  pending,  \* run -> the last event it built, or None
  log,      \* EventStore's $all stream, these events only
  now       \* true time, one tick for each event built

vars == <<command, ready, held, link, pc, on, pending, log, now>>

Live == {"delivered", "opening", "script", "closing", "handled", "faulted"}
Over == {"acked", "dropped", "dead"}

TypeOK ==
  /\ command \in [Guids -> Command \cup {None}]
  /\ ready \subseteq Guids
  /\ held \subseteq Runs
  /\ link \in [Replicas -> {"up", "cut", "down"}]
  /\ pc \in [Runs -> Live \cup Over \cup {"idle"}]
  /\ on \in [Runs -> Replicas \cup {None}]
  /\ pending \in [Runs -> Event \cup {None}]
  /\ log \in Seq(Event)
  /\ now \in Nat

Consumers == {p \in Replicas : link[p] = "up"}
KindOf(r) == command[r[1]].kind
Published == {g \in Guids : command[g] # None}

Init ==
  /\ command = [g \in Guids |-> None]
  /\ ready = {}
  /\ held = {}
  /\ link = [p \in Replicas |-> "up"]
  /\ pc = [r \in Runs |-> "idle"]
  /\ on = [r \in Runs |-> None]
  /\ pending = [r \in Runs |-> None]
  /\ log = << >>
  /\ now = 0

---------------------------------------------------------------------------
\* CommandService

Fresh(g) == \A h \in Published : g # h /\ g # command[h].file

\* The queues live as long as they have a consumer (AutoDelete): without one
\* the exchange has no route and the message is gone.
Publish(g, c) ==
  /\ Cardinality(Published) < MaxCommands
  /\ Fresh(g)
  /\ command' = [command EXCEPT ![g] = c]
  /\ ready' = IF Consumers = {} THEN ready ELSE ready \cup {g}
  /\ UNCHANGED <<held, link, pc, on, pending, log, now>>

SendFileToAnalysis(u, g) ==
  Publish(g, [kind |-> "AddDocumentToAnalysis", user |-> u, file |-> g])

CreateSource(u, g) ==
  Publish(g, [kind |-> "AddDocumentToSourceStore", user |-> u, file |-> g])

\* Nothing relates the document to an upload: any id is accepted.
AnalyzeFile(u, f, g) ==
  /\ f # g
  /\ Publish(g, [kind |-> "AnalyzeDocument", user |-> u, file |-> f])

---------------------------------------------------------------------------
\* CommandHandler

\* A mutant: the event is dated when the command was issued.
BuiltWhenIssued(r, phase, p, status, result) ==
  LET c == command[r[1]] IN
  [uuid     |-> <<r, phase>>,
   stream   |-> IF c.kind = "AddDocumentToSourceStore" THEN "SourceDocuments" ELSE "Analysis",
   user     |-> c.user,
   document |-> c.file,
   task     |-> IF c.kind = "AnalyzeDocument" THEN r[1] ELSE EmptyGuid,
   status   |-> status,
   result   |-> result,
   date     |-> 0]

\* The event a run builds.  OccurenceDate is the replica's clock when the
\* event is built, before the append is awaited.
Built(r, phase, p, status, result) ==
  LET c == command[r[1]] IN
  [uuid     |-> <<r, phase>>,
   stream   |-> IF c.kind = "AddDocumentToSourceStore" THEN "SourceDocuments" ELSE "Analysis",
   user     |-> c.user,
   document |-> c.file,
   task     |-> IF c.kind = "AnalyzeDocument" THEN r[1] ELSE EmptyGuid,
   status   |-> status,
   result   |-> result,
   date     |-> now + Skew[p]]

\* The broker hands the message to a replica, where it waits for a thread.
Deliver(r, p) ==
  /\ r[1] \in ready
  /\ pc[r] = "idle"
  /\ \A m \in 1 .. (r[2] - 1) : pc[<<r[1], m>>] # "idle"
  /\ p \in Consumers
  /\ ready' = ready \ {r[1]}
  /\ held' = held \cup {r}
  /\ pc' = [pc EXCEPT ![r] = "delivered"]
  /\ on' = [on EXCEPT ![r] = p]
  /\ UNCHANGED <<command, link, pending, log, now>>

\* A thread is free and the handler begins: it builds its first event, whether
\* or not the broker has taken the message back since.
HandleAsync(r) ==
  /\ pc[r] = "delivered"
  /\ pc' = [pc EXCEPT ![r] = "opening"]
  /\ pending' = [pending EXCEPT ![r] =
       Built(r, "opening", on[r], OpeningStatus(KindOf(r)), "zero")]
  /\ now' = now + 1
  /\ UNCHANGED <<command, ready, held, link, on, log>>

\* A mutant: the first status is sent but its append is not awaited, and is lost.
AppendUnawaited(r) ==
  /\ pc[r] \in {"opening", "closing"}
  /\ log' = IF pc[r] = "opening" THEN log ELSE Append(log, pending[r])
  /\ pc' = [pc EXCEPT ![r] = IF @ = "opening" THEN "script" ELSE "handled"]
  /\ UNCHANGED <<command, ready, held, link, on, pending, now>>

AppendToStream(r) ==
  /\ pc[r] \in {"opening", "closing"}
  /\ log' = Append(log, pending[r])
  /\ pc' = [pc EXCEPT ![r] = IF @ = "opening" THEN "script" ELSE "handled"]
  /\ UNCHANGED <<command, ready, held, link, on, pending, now>>

\* A mutant: the handler catches what the client throws at its end, and returns.
AppendFailureSwallowed(r) ==
  /\ "append" \in Faults
  /\ pc[r] \in {"opening", "closing"}
  /\ \E stored \in BOOLEAN : log' = IF stored THEN Append(log, pending[r]) ELSE log
  /\ pc' = [pc EXCEPT ![r] = IF @ = "opening" THEN "faulted" ELSE "handled"]
  /\ UNCHANGED <<command, ready, held, link, on, pending, now>>

\* The client throws, with the event stored or not; nothing in the handlers
\* catches it.
AppendFails(r) ==
  /\ "append" \in Faults
  /\ pc[r] \in {"opening", "closing"}
  /\ \E stored \in BOOLEAN : log' = IF stored THEN Append(log, pending[r]) ELSE log
  /\ pc' = [pc EXCEPT ![r] = "faulted"]
  /\ UNCHANGED <<command, ready, held, link, on, pending, now>>

ScriptEnds(r) ==
  /\ pc[r] = "script"
  /\ \E line \in Printed(KindOf(r)) :
       pending' = [pending EXCEPT ![r] =
         Built(r, "closing", on[r], ClosingStatus(KindOf(r), line), ClosingResult(KindOf(r), line))]
  /\ pc' = [pc EXCEPT ![r] = "closing"]
  /\ now' = now + 1
  /\ UNCHANGED <<command, ready, held, link, on, log>>

RunnerThrows(r) ==
  /\ "runner" \in Faults
  /\ pc[r] = "script"
  /\ pc' = [pc EXCEPT ![r] = "faulted"]
  /\ UNCHANGED <<command, ready, held, link, on, pending, log, now>>

\* RawRabbit acknowledges when the handler returns, and after an exception
\* too, once it has copied the message to its error exchange.  The
\* acknowledgement of a delivery the broker took back does nothing.
Ack(r) ==
  /\ pc[r] \in {"handled", "faulted"}
  /\ pc' = [pc EXCEPT ![r] =
       IF r \notin held THEN "dead" ELSE IF @ = "handled" THEN "acked" ELSE "dropped"]
  /\ held' = held \ {r}
  /\ UNCHANGED <<command, ready, link, on, pending, log, now>>

---------------------------------------------------------------------------
\* Replicas come and go

\* Mutants of Requeue: the broker queues deliveries for commands, keeps the
\* delivery it takes back, or forgets it (as with automatic acknowledgement).
RequeueDeliveries(p) ==
  LET back == {r \in held : on[r] = p} IN
  /\ \A r \in back : r[2] < MaxDeliveries
  /\ "outage" \in Faults \/ Consumers \ {p} # {}
  /\ held' = held \ back
  /\ ready' = IF Consumers \ {p} = {} THEN {} ELSE ready \cup back

RequeueKeeps(p) ==
  LET back == {r \in held : on[r] = p} IN
  /\ \A r \in back : r[2] < MaxDeliveries
  /\ "outage" \in Faults \/ Consumers \ {p} # {}
  /\ held' = held
  /\ ready' = IF Consumers \ {p} = {} THEN {} ELSE ready \cup {r[1] : r \in back}

RequeueForgets(p) ==
  /\ "outage" \in Faults \/ Consumers \ {p} # {}
  /\ held' = held \ {r \in held : on[r] = p}
  /\ ready' = IF Consumers \ {p} = {} THEN {} ELSE ready

\* The broker takes back what p held, for another consumer; with the last
\* consumer it deletes the queues and all they hold.
Requeue(p) ==
  LET back == {r \in held : on[r] = p} IN
  /\ \A r \in back : r[2] < MaxDeliveries
  /\ "outage" \in Faults \/ Consumers \ {p} # {}
  /\ held' = held \ back
  /\ ready' = IF Consumers \ {p} = {} THEN {} ELSE ready \cup {r[1] : r \in back}

Crash(p) ==
  /\ "crash" \in Faults
  /\ link[p] # "down"
  /\ Requeue(p)
  /\ link' = [link EXCEPT ![p] = "down"]
  /\ pc' = [r \in Runs |-> IF on[r] = p /\ pc[r] \in Live THEN "dead" ELSE pc[r]]
  /\ UNCHANGED <<command, on, pending, log, now>>

Disconnect(p) ==
  /\ "disconnect" \in Faults
  /\ link[p] = "up"
  /\ Requeue(p)
  /\ link' = [link EXCEPT ![p] = "cut"]
  /\ UNCHANGED <<command, pc, on, pending, log, now>>

\* The container restarts, or the client library recovers the connection; in
\* both cases the three subscriptions are declared again.
Connect(p) ==
  /\ link[p] # "up"
  /\ link' = [link EXCEPT ![p] = "up"]
  /\ UNCHANGED <<command, ready, held, pc, on, pending, log, now>>

\* Bound: the model's commands are used up and nothing is in progress.
Quiescent ==
  /\ Cardinality(Published) >= MaxCommands \/ \A g \in Guids : ~Fresh(g)
  /\ ready = {}
  /\ \A r \in Runs : pc[r] \notin Live
  /\ UNCHANGED vars

---------------------------------------------------------------------------
Client == \E u \in Users, g \in Guids :
  \/ SendFileToAnalysis(u, g)
  \/ CreateSource(u, g)
  \/ \E f \in Guids : AnalyzeFile(u, f, g)

Step(r) ==
  \/ \E p \in Replicas : Deliver(r, p)
  \/ HandleAsync(r)
  \/ AppendToStream(r)
  \/ AppendFails(r)
  \/ ScriptEnds(r)
  \/ RunnerThrows(r)
  \/ Ack(r)

Environment == \E p \in Replicas : Crash(p) \/ Disconnect(p) \/ Connect(p)

Next == Client \/ (\E r \in Runs : Step(r)) \/ Environment \/ Quiescent

Spec == Init /\ [][Next]_vars

\* Connected replicas are given the messages, delivered messages get a thread,
\* awaited appends and scripts end, handlers that return are acknowledged, and
\* lost replicas come back.
Fairness ==
  /\ \A r \in Runs :
       /\ WF_vars(\E p \in Replicas : Deliver(r, p))
       /\ WF_vars(HandleAsync(r))
       /\ WF_vars(AppendToStream(r))
       /\ WF_vars(ScriptEnds(r))
       /\ WF_vars(Ack(r))
  /\ \A p \in Replicas : WF_vars(Connect(p))

FairSpec == Spec /\ Fairness

---------------------------------------------------------------------------
\* Correctness

\* The events of the log that run r wrote, and those of command g's operation.
WrittenBy(r) == {i \in DOMAIN log : log[i].uuid[1] = r}
EventsOf(g) == {i \in DOMAIN log : log[i].uuid[1][1] = g}

\* What the queries report of an operation: its event with the latest date.
Newest(g, i) == i \in EventsOf(g) /\ \A j \in EventsOf(g) : log[j].date <= log[i].date

\* Every settling status in the log was preceded by the starting status of the
\* same operation, stored before it and dated before it, whatever was
\* redelivered, crashed or failed and however the replicas' clocks differ: no
\* reader of a prefix of the log, and no sort by date, sees an operation end
\* that had not begun.
StartBeforeEnd ==
  \A i \in DOMAIN log : Settling(log[i].status) =>
    \E j \in 1 .. (i - 1) :
      /\ ~Settling(log[j].status)
      /\ log[j].stream = log[i].stream /\ log[j].user = log[i].user
      /\ log[j].document = log[i].document /\ log[j].task = log[i].task
      /\ log[j].date < log[i].date

\* A command is in one place: waiting in a queue or held by one run, and never
\* again with the broker once a run has acknowledged it.  Two replicas never
\* both hold a message, so the only way an operation runs twice is redelivery.
OneCustodian ==
  /\ \A r \in held : r[1] \notin ready
  /\ \A r, s \in held : r[1] = s[1] => r = s
  /\ \A r \in Runs : pc[r] \in {"acked", "dropped"} =>
       r[1] \notin ready /\ \A s \in held : s[1] # r[1]

\* While some replica stays connected no command is stuck: each published one
\* can be delivered to some replica, or a run that goes on holds it, unless its
\* end is on record or a handler threw.  (What is left of EveryCommandSettles
\* without fairness.)
NoneStuck ==
  "outage" \notin Faults =>
    \A g \in Published :
      \/ g \in ready /\ Consumers # {} /\ \E n \in 1 .. MaxDeliveries :
           pc[<<g, n>>] = "idle" /\ \A m \in 1 .. (n - 1) : pc[<<g, m>>] # "idle"
      \/ \E r \in held : r[1] = g /\ pc[r] \in Live
      \/ \E i \in EventsOf(g) : Settling(log[i].status)
      \/ \E n \in 1 .. MaxDeliveries : pc[<<g, n>>] = "dropped"

\* Some newest event of the operation says that it is in progress.
InProgress(g) == \E i \in EventsOf(g) : Newest(g, i) /\ ~Settling(log[i].status)

\* No operation is reported as in progress without a cause.  A run is on it, or
\* its message waits for one; or a handler of it threw, and the message is gone;
\* or an outage deleted the message before any run acknowledged it; or a run
\* that lost its message recorded its start, late or by another clock, and died
\* before its end, after another run had settled and acknowledged the command.
\* (Once no run is left on it and no message waits, nothing ever settles it.)
OpenIsExplained ==
  \A g \in Published : InProgress(g) =>
    \/ g \in ready
    \/ \E r \in Runs : r[1] = g /\ pc[r] \in Live
    \/ \E r \in Runs : r[1] = g /\ pc[r] = "dropped"
    \/ "outage" \in Faults /\ \A r \in Runs : r[1] = g => pc[r] \in {"idle", "dead"}
    \/ \E r, s \in Runs :
         /\ r[1] = g /\ s[1] = g /\ s[2] < r[2]
         /\ pc[r] = "acked" /\ pc[s] = "dead"
         /\ \E i \in EventsOf(g) : log[i].uuid = <<s, "opening">> /\ Newest(g, i)

\* Whatever the clocks, when every run that recorded a start also recorded an
\* end, the newest event of the operation is a settling one.
DrainedIsSettled ==
  \A g \in Guids :
    (\A i \in EventsOf(g) : \E j \in EventsOf(g) :
        log[j].uuid = <<log[i].uuid[1], "closing">>)
    => \A i \in DOMAIN log : Newest(g, i) => Settling(log[i].status)

\* A completed analysis carries a score.  (Violated: the detection script
\* prints -1 when it fails, and -1 is a double.)
CompleteHasScore ==
  \A i \in DOMAIN log :
    (log[i].stream = "Analysis" /\ log[i].status = "Complete") => log[i].result = "score"

\* An analysis the API accepted starts.  (Violated: published while no
\* CommandHandler is connected, or deleted with the queues, it never does.)
AcceptedAnalysisStarts ==
  \A g \in Guids :
    (command[g] # None /\ command[g].kind = "AnalyzeDocument") ~> (EventsOf(g) # {})

\* Every command published is settled in the end, crashes and lost connections
\* notwithstanding, as long as one replica stays connected and nothing throws.
EveryCommandSettles ==
  \A g \in Guids :
    command[g] # None ~> \E i \in EventsOf(g) : Settling(log[i].status)

---------------------------------------------------------------------------
\* The write side implements Operations

Stored(r, phase) == \E i \in DOMAIN log : log[i].uuid = <<r, phase>>

Stage(g) ==
  IF command[g] = None THEN "none"
  ELSE IF EventsOf(g) = {} THEN "accepted"
  ELSE IF InProgress(g) THEN "started" ELSE "settled"

\* The broker takes a delivery back only from a replica that goes, and drops a
\* command only when a handler threw.
Redelivery == Faults \cap {"crash", "disconnect"} # {}
Throws == Faults \cap {"append", "runner"} # {}

Deliveries == 1 .. MaxDeliveries
Given(g) == {n \in Deliveries : pc[<<g, n>>] # "idle"}
Recording(g, phase) == {n \in Deliveries : Stored(<<g, n>>, phase)}
Closed(g) == \E n \in Deliveries : pc[<<g, n>>] \in {"acked", "dropped"}

Abstract == INSTANCE Operations WITH
  stage  <- [g \in Guids |-> Stage(g)],
  given  <- [g \in Guids |-> Given(g)],
  begun  <- [g \in Guids |-> Recording(g, "opening")],
  ended  <- [g \in Guids |-> Recording(g, "closing")],
  closed <- [g \in Guids |-> Closed(g)]

\* The write side executes each command at least once, as Operations says it,
\* whatever is redelivered or throws and however the clocks differ: a start
\* needs a delivery of its own, an end its own start, nothing is delivered once
\* the command is closed, and when the runs that began have all ended the
\* operation is reported as settled, in whatever order they stored and dated
\* their events.
OperationsSpec == Abstract!Spec
===========================================================================
