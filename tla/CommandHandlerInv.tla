------------------------- MODULE CommandHandlerInv -------------------------
(***************************************************************************)
(* The inductive invariant of CommandHandler.                               *)
(***************************************************************************)
EXTENDS CommandHandler

\* The events run r has built that still exist: those it stored, and the last.
Known(r) ==
  {log[i] : i \in WrittenBy(r)} \cup ({pending[r]} \ {None})

OfCommand(e, g) ==
  /\ e.stream = IF command[g].kind = "AddDocumentToSourceStore" THEN "SourceDocuments" ELSE "Analysis"
  /\ e.user = command[g].user
  /\ e.document = command[g].file
  /\ e.task = IF command[g].kind = "AnalyzeDocument" THEN g ELSE EmptyGuid

\* The runs of a command start one after the other, once it is published.
RunsInOrder ==
  /\ \A g \in ready : command[g] # None
  /\ \A r \in Runs : pc[r] # "idle" =>
       /\ command[r[1]] # None
       /\ on[r] \in Replicas
       /\ pc[r] \notin {"delivered", "dead"} => pending[r] # None
       /\ \A m \in 1 .. (r[2] - 1) : pc[<<r[1], m>>] # "idle"

\* A run has events once it began; they are its command's, their status matches
\* their phase, and its replica's clock is past them.
KnownEvents ==
  \A r \in Runs : \A e \in Known(r) :
    /\ pc[r] \notin {"idle", "delivered"}
    /\ e.uuid[1] = r
    /\ OfCommand(e, r[1])
    /\ Settling(e.status) <=> e.uuid[2] = "closing"
    /\ e.date < now + Skew[on[r]]

\* What the handler of a command of kind k records at its start and its end.
Recorded(k, e) ==
  \/ e.uuid[2] = "opening" /\ e.status = OpeningStatus(k)
  \/ e.uuid[2] = "closing" /\ \E line \in Printed(k) :
       e.status = ClosingStatus(k, line) /\ e.result = ClosingResult(k, line)

PendingPhase ==
  \A r \in Runs : pc[r] \in {"opening", "closing"} => pending[r].uuid[2] = pc[r]

StoredPhases ==
  \A r \in Runs :
    /\ pc[r] \in {"script", "closing", "handled", "acked"} => Stored(r, "opening")
    /\ pc[r] \in {"handled", "acked"} => Stored(r, "closing")

\* A run dates its start before its end.
DatesWithinRun ==
  \A r \in Runs : \A e, f \in Known(r) :
    (e.uuid[2] = "opening" /\ f.uuid[2] = "closing") => e.date < f.date

\* The run that holds or has acknowledged a message is its last.
LastRun ==
  /\ \A r \in held : pc[r] \in Live
  /\ \A r \in Runs : (r \in held \/ pc[r] \in {"acked", "dropped"}) =>
       \A m \in (r[2] + 1) .. MaxDeliveries : pc[<<r[1], m>>] = "idle"

\* A run that has not appended has written nothing, and one that has not closed
\* has written no end; what it wrote began with a start.
NothingBeforeOpening == \A r \in Runs : pc[r] = "opening" => WrittenBy(r) = {}
EndsLast ==
  \A r \in Runs : Stored(r, "closing") =>
    Stored(r, "opening") /\ pc[r] \notin {"opening", "script", "closing"}

\* Handlers throw only where the faults say so.
FaultsThrow == \A r \in Runs : pc[r] \in {"faulted", "dropped"} => Throws

\* A command that waits can be delivered once more ...
ReadyIsDeliverable == \A g \in ready : pc[<<g, MaxDeliveries>>] = "idle"

\* ... and runs once when no replica goes.
RunsOnce ==
  ~Redelivery =>
    \A r \in Runs : r[1] \in ready \/ r[2] > 1 => pc[r] = "idle"

SomeConsumer == "outage" \notin Faults => Consumers # {}

\* While some replica stays connected the broker loses no command: each
\* published one is waiting, held, or was acknowledged by a run.
NothingLost ==
  "outage" \notin Faults =>
    \A g \in Published :
      \/ g \in ready
      \/ \E r \in held : r[1] = g
      \/ \E n \in 1 .. MaxDeliveries : pc[<<g, n>>] \in {"acked", "dropped"}

IndInv ==
  /\ TypeOK
  /\ RunsInOrder
  /\ KnownEvents
  /\ PendingPhase
  /\ StoredPhases
  /\ DatesWithinRun
  /\ OneCustodian
  /\ LastRun
  /\ NothingBeforeOpening
  /\ EndsLast
  /\ FaultsThrow
  /\ ReadyIsDeliverable
  /\ RunsOnce
  /\ SomeConsumer
  /\ NothingLost
  /\ StartBeforeEnd
===========================================================================
