--------------------------- MODULE JourneyProofs ---------------------------
(***************************************************************************)
(* What the page offers and what QueryService answers, for any number of    *)
(* users, documents, replicas and commands, and every fault of the write    *)
(* side.                                                                    *)
(***************************************************************************)
EXTENDS Journey, CommandHandlerProofs, Sorting

---------------------------------------------------------------------------
\* The newest event of a group

\* First takes the newest event of a group.
LEMMA LatestIsNewest ==
  ASSUME NEW events, NEW n \in Nat, NEW group, group \subseteq 1 .. n, group # {},
         \A i \in group : events[i].date \in Int
  PROVE  /\ LatestOf(events, group) \in group
         /\ \A j \in group : events[j].date <= events[LatestOf(events, group)].date
<1>1. \E i \in group : GoesFirst(events, i, group)
  BY FirstExists
<1>2. LatestOf(events, group) \in group /\ GoesFirst(events, LatestOf(events, group), group)
  BY <1>1, Zenon DEF LatestOf, GoesFirst
<1>3. \A j \in group : events[j].date < events[LatestOf(events, group)].date
                       \/ events[j].date = events[LatestOf(events, group)].date
  BY <1>2 DEF GoesFirst
<1>4. events[LatestOf(events, group)].date \in Int
  BY <1>2
<1> QED
  BY <1>2, <1>3, <1>4

---------------------------------------------------------------------------
\* What the write side adds to its invariant

\* Every step of the whole is a step of the write side or leaves it alone.
LEMMA WriteSideStep == JourneyNext => [Next]_vars
<1> SUFFICES ASSUME JourneyNext PROVE [Next]_vars
  OBVIOUS
<1>1. CASE Elsewhere
  BY <1>1 DEF Elsewhere, StartAnalysisOf, Next, Client
<1>2. CASE Handling
  BY <1>2 DEF Handling, Next
<1>3. CASE Showing
  BY <1>3 DEF Showing, Show, Forget
<1>4. CASE Page
  BY <1>4, MeAssumption DEF Page, Open, LoadAnswered, LoadFails, ToggleRow, StartAnalysis,
    StartAccepted, StartFails, OnUpload, UploadAccepted, UploadFails, Others, StartAnalysisOf,
    Next, Client
<1> QED
  BY <1>1, <1>2, <1>3, <1>4 DEF JourneyNext

\* Every event fits the kind of its command.
LEMMA RecordsFitStep ==
  ASSUME IndInv, RecordsFit, Next
  PROVE  RecordsFit'
<1> SUFFICES ASSUME NEW s \in Runs, NEW e \in Known(s)'
             PROVE  Recorded(KindOf(s), e)'
  BY DEF RecordsFit
<1>0. s[1] \in Guids
  BY EarlierRuns
<1>1. e \in Known(s) \/ NewEvent(s, e)
  BY KnownStep DEF IndInv
<1>2. Recorded(KindOf(s), e) /\ command[s[1]] # None
  BY <1>1 DEF RecordsFit, NewEvent, IndInv, KnownEvents, RunsInOrder
<1>3. command'[s[1]] = command[s[1]]
  BY <1>0, <1>2, Frame DEF IndInv
<1> QED
  BY <1>2, <1>3 DEF Recorded, KindOf

\* A run records one end.
LEMMA EndsOnceStep ==
  ASSUME IndInv, EndsOnce, Next
  PROVE  EndsOnce'
<1>0. \A s \in Runs : \A e \in Known(s)' : e \in Known(s) \/ NewEvent(s, e)
  BY KnownStep DEF IndInv
<1>1. \A s \in Runs : pc'[s] \in {"opening", "script"} =>
        pc[s] \in {"idle", "delivered", "opening", "script"}
  <2> USE DEF IndInv, TypeOK
  <2>1. CASE Client
    BY <2>1 DEF Client, SendFileToAnalysis, CreateSource, AnalyzeFile, Publish
  <2>2. CASE \E r \in Runs : Step(r)
    BY <2>2 DEF Step, Deliver, HandleAsync, AppendToStream, AppendFails, ScriptEnds, RunnerThrows, Ack
  <2>3. CASE Environment
    BY <2>3 DEF Environment, Crash, Disconnect, Connect
  <2>4. CASE Quiescent
    BY <2>4 DEF Quiescent, vars
  <2> QED
    BY <2>1, <2>2, <2>3, <2>4 DEF Next
<1>2. ASSUME NEW s \in Runs, NEW e \in Known(s)', pc'[s] \in {"opening", "script"}
      PROVE  e.uuid[2] = "opening"
  <2>1. CASE e \in Known(s)
    <3>1. pc[s] \notin {"idle", "delivered"}
      BY <2>1 DEF IndInv, KnownEvents
    <3> QED
      BY <1>1, <1>2, <2>1, <3>1 DEF EndsOnce
  <2>2. CASE NewEvent(s, e)
    BY <1>2, <2>2 DEF NewEvent
  <2> QED
    BY <1>0, <2>1, <2>2
<1>3. ASSUME NEW s \in Runs, NEW e \in Known(s)', NEW f \in Known(s)',
             e.uuid[2] = "closing", f.uuid[2] = "closing"
      PROVE  e = f
  <2>1. ASSUME NEW g \in Known(s), g.uuid[2] = "closing", NEW h, NewEvent(s, h)
        PROVE  h.uuid[2] # "closing"
    BY <2>1 DEF NewEvent, EndsOnce, IndInv, KnownEvents
  <2>2. CASE e \in Known(s) /\ f \in Known(s)
    BY <1>3, <2>2 DEF EndsOnce
  <2>3. CASE NewEvent(s, e) /\ NewEvent(s, f)
    BY <2>3 DEF NewEvent
  <2> QED
    BY <1>0, <1>3, <2>1, <2>2, <2>3
<1> QED
  BY <1>2, <1>3 DEF EndsOnce

---------------------------------------------------------------------------
\* What an event of the log says of its command

\* An event was written by a run of a published command, fits its kind, and
\* carries its user, document and task.
LEMMA EventFacts ==
  ASSUME IndInv, RecordsFit, NEW i \in DOMAIN log
  PROVE  LET r == log[i].uuid[1] IN
         /\ i \in Nat /\ i <= Len(log)
         /\ log[i].date \in Int /\ log[i].user \in Users /\ log[i].document \in Guids
         /\ r \in Runs /\ r[1] \in Guids /\ r[1] \in Published /\ command[r[1]] \in Command
         /\ log[i] \in Known(r)
         /\ OfCommand(log[i], r[1])
         /\ Recorded(KindOf(r), log[i])
         /\ Settling(log[i].status) <=> log[i].uuid[2] = "closing"
<1> DEFINE r == log[i].uuid[1]
<1>1. log[i] \in Event /\ i \in Nat /\ i <= Len(log)
  BY DEF IndInv, TypeOK
<1>2. r \in Runs /\ log[i] \in Known(r)
  BY LoggedIsKnown
<1>3. /\ OfCommand(log[i], r[1]) /\ pc[r] # "idle"
      /\ Settling(log[i].status) <=> log[i].uuid[2] = "closing"
  BY <1>2 DEF IndInv, KnownEvents
<1>4. r[1] \in Guids /\ command[r[1]] # None
  BY <1>2, <1>3, EarlierRuns DEF IndInv, RunsInOrder
<1>5. command[r[1]] \in Command
  BY <1>4 DEF IndInv, TypeOK
<1> QED
  BY <1>1, <1>2, <1>3, <1>4, <1>5 DEF Event, Published, RecordsFit

\* The events of a task are those of the runs of an analysis of that id.
LEMMA TaskFacts ==
  ASSUME IndInv, RecordsFit, NEW i \in DOMAIN log, NEW g \in Guids, log[i].task = g
  PROVE  /\ g \in Published /\ g = log[i].uuid[1][1]
         /\ command[g].kind = "AnalyzeDocument"
         /\ log[i].user = command[g].user /\ log[i].document = command[g].file
         /\ log[i].stream = "Analysis"
         /\ log[i].status # "NotStarted"
<1> DEFINE r == log[i].uuid[1]
<1>1. OfCommand(log[i], r[1]) /\ Recorded(KindOf(r), log[i]) /\ r[1] \in Published
  BY EventFacts
<1>2. command[r[1]].kind = "AnalyzeDocument" /\ g = r[1]
  BY <1>1, EmptyGuidAssumption DEF OfCommand
<1>3. log[i].status # "NotStarted"
  BY <1>1, <1>2 DEF Recorded, KindOf, OpeningStatus, ClosingStatus
<1> QED
  BY <1>1, <1>2, <1>3 DEF OfCommand

\* A user's events up to a place of the log.
LEMMA PrefixFacts ==
  ASSUME IndInv, NEW u \in Users, NEW n \in 0 .. Len(log)
  PROVE  /\ n \in Nat /\ DOMAIN Prefix(u, n) = Mine(u, n)
         /\ Mine(u, n) \subseteq 1 .. n /\ Mine(u, n) \subseteq DOMAIN log
         /\ \A m \in n .. Len(log) : Mine(u, n) \subseteq Mine(u, m)
         /\ \A i \in Mine(u, n) :
              /\ Prefix(u, n)[i] = log[i]
              /\ log[i].user = u /\ log[i].stream = "Analysis"
<1>1. Len(log) \in Nat /\ DOMAIN log = 1 .. Len(log)
  BY DEF IndInv, TypeOK
<1> QED
  BY <1>1 DEF Prefix, Mine

\* The rows of an answer come from the events up to a place its replica passed.
LEMMA EarlierFacts ==
  ASSUME IndInv, JourneyTypeOK, NEW q \in Queriers, NEW u \in Users, NEW events \in Earlier(q, u)
  PROVE  \E n \in 0 .. Len(log) :
           /\ events = Prefix(u, n)
           /\ Mine(u, n) \subseteq Mine(u, seen[q][u])
<1>1. PICK n \in 0 .. seen[q][u] : events = Prefix(u, n)
  BY DEF Earlier
<1>2. seen[q][u] \in 0 .. Len(log) /\ Len(log) \in Nat
  BY DEF JourneyTypeOK, IndInv, TypeOK
<1>3. n \in 0 .. Len(log) /\ seen[q][u] \in n .. Len(log)
  BY <1>1, <1>2
<1> QED
  BY <1>1, <1>3, PrefixFacts

\* What the cache of a replica holds for a user is in the log.
LEMMA MineFacts ==
  ASSUME IndInv, JourneyTypeOK, NEW q \in Queriers, NEW u \in Users
  PROVE  /\ seen[q][u] \in Nat /\ seen[q][u] <= Len(log)
         /\ DOMAIN Visible(q, u) = Mine(u, seen[q][u])
         /\ Mine(u, seen[q][u]) \subseteq 1 .. seen[q][u]
         /\ Mine(u, seen[q][u]) \subseteq Mine(u, Len(log))
         /\ Mine(u, Len(log)) \subseteq DOMAIN log
         /\ \A i \in Mine(u, seen[q][u]) :
              /\ i \in DOMAIN log /\ i \in Nat /\ Visible(q, u)[i] = log[i]
              /\ log[i].user = u /\ log[i].stream = "Analysis"
         /\ \A i \in Mine(u, seen[q][u]), k \in Mine(u, Len(log)) :
              k < i => k \in Mine(u, seen[q][u])
<1>1. seen[q][u] \in 0 .. Len(log) /\ Len(log) \in Nat /\ DOMAIN log = 1 .. Len(log)
  BY DEF JourneyTypeOK, IndInv, TypeOK
<1> QED
  BY <1>1 DEF Visible, Prefix, Mine
---------------------------------------------------------------------------
\* The invariant of the whole

\* The log keeps what it has; a new event is behind it.
LEMMA LogKept ==
  ASSUME IndInv, [Next]_vars
  PROVE  /\ Len(log) \in Nat /\ Len(log') \in Nat /\ Len(log') >= Len(log)
         /\ DOMAIN log = 1 .. Len(log) /\ DOMAIN log' = 1 .. Len(log')
         /\ \A i \in DOMAIN log : i \in DOMAIN log' /\ log'[i] = log[i]
         /\ Published \subseteq Published'
         /\ \A g \in Published : command'[g] = command[g]
         /\ \A u : Mine(u, Len(log)) \subseteq Mine(u, Len(log))'
<1>1. IndInv'
  BY IndInvStep
<1>2. /\ Len(log) \in Nat /\ Len(log') \in Nat
      /\ DOMAIN log = 1 .. Len(log) /\ DOMAIN log' = 1 .. Len(log')
  BY <1>1 DEF IndInv, TypeOK
<1>3. Len(log') >= Len(log) /\ \A i \in DOMAIN log : i \in DOMAIN log' /\ log'[i] = log[i]
  <2>1. CASE Next
    <3>1. TypeOK /\ RunsInOrder
      BY DEF IndInv
    <3>2. log' = log \/ \E r \in Runs :
            Len(log') = Len(log) + 1 /\ \A i \in 1 .. Len(log) : log'[i] = log[i]
      BY <2>1, <3>1, LogStep
    <3>3. CASE log' = log
      BY <1>2, <3>3
    <3>4. CASE Len(log') = Len(log) + 1 /\ \A i \in 1 .. Len(log) : log'[i] = log[i]
      <4>1. \A i \in DOMAIN log : i \in 1 .. Len(log) /\ i \in 1 .. (Len(log) + 1)
        BY <1>2
      <4> QED
        BY <1>2, <3>4, <4>1
    <3> QED
      BY <3>2, <3>3, <3>4
  <2>2. CASE UNCHANGED vars
    BY <1>2, <2>2 DEF vars
  <2> QED
    BY <2>1, <2>2
<1>4. \A g \in Guids : command[g] # None => command'[g] = command[g]
  BY Frame DEF IndInv, vars
<1>5. \A u : Mine(u, Len(log)) \subseteq Mine(u, Len(log))'
  BY <1>2, <1>3 DEF Mine
<1> QED
  BY <1>2, <1>3, <1>4, <1>5 DEF Published

\* What names an analysis stays before its events.
LEMMA NamedBeforeKept ==
  ASSUME IndInv, [Next]_vars, NEW g \in Published, NEW status, NamedBefore(g, status)
  PROVE  NamedBefore(g, status)'
<1>1. PICK i \in Mine(command[g].user, Len(log)) :
        /\ log[i].document = command[g].file /\ log[i].status = status
        /\ \A k \in DOMAIN log : log[k].task = g => i < k
  BY DEF NamedBefore
<1>2. i \in DOMAIN log /\ i \in Nat /\ i <= Len(log)
  BY <1>1, LogKept DEF Mine
<1>3. \A k \in DOMAIN log' : log'[k].task = g => i < k
  <2> SUFFICES ASSUME NEW k \in DOMAIN log', log'[k].task = g
               PROVE  i < k
    OBVIOUS
  <2>1. CASE k \in DOMAIN log
    BY <1>1, <2>1, LogKept
  <2>2. CASE k \notin DOMAIN log
    BY <1>2, <2>2, LogKept
  <2> QED
    BY <2>1, <2>2
<1>4. command'[g] = command[g] /\ log'[i] = log[i]
  BY <1>2, LogKept
<1>5. i \in Mine(command[g].user, Len(log))'
  BY <1>1, <1>4, LogKept
<1> QED
  BY <1>1, <1>3, <1>4, <1>5 DEF NamedBefore

\* An event of the document before the analysis is published is before its events.
LEMMA NamedBeforeNew ==
  ASSUME IndInv, RecordsFit, NEW u \in Users, NEW f \in Guids, NEW g \in Guids,
         AnalyzeFile(u, f, g), NEW status,
         \E i \in Mine(u, Len(log)) : log[i].document = f /\ log[i].status = status
  PROVE  NamedBefore(g, status)'
<1>1. command[g] = None /\ log' = log /\ command'[g] = [kind |-> "AnalyzeDocument", user |-> u, file |-> f]
  BY DEF AnalyzeFile, Publish, Fresh, Published, IndInv, TypeOK
<1>2. \A k \in DOMAIN log : log[k].task # g
  BY <1>1, TaskFacts DEF Published
<1> QED
  BY <1>1, <1>2 DEF NamedBefore, Mine

\* What a step of the page and of the other clients publishes.
LEMMA PublishedStep ==
  ASSUME IndInv, JourneyTypeOK, JourneyNext
  PROVE  \/ Published' = Published /\ direct' = direct /\ prepared' = prepared
         \/ \E u \in Users, g \in Guids :
              /\ command[g] = None /\ Published' = Published \cup {g}
              /\ \/ /\ command'[g].kind # "AnalyzeDocument" /\ command'[g].file = g
                    /\ direct' = direct /\ prepared' = prepared
                 \/ \E f \in Guids :
                      /\ command'[g].kind = "AnalyzeDocument"
                      /\ StartAnalysisOf(u, f, g)
                      /\ \/ direct' = direct \cup {g}
                         \/ u = Me /\ f = starting /\ direct' = direct
<1> USE DEF IndInv, TypeOK, Published
<1>1. ASSUME NEW u \in Users, NEW g \in Guids, NEW k \in Kinds, NEW f \in Guids,
             Publish(g, [kind |-> k, user |-> u, file |-> f])
      PROVE  /\ command[g] = None /\ Published' = Published \cup {g}
             /\ command'[g].kind = k /\ command'[g].file = f
  <2>1. [kind |-> k, user |-> u, file |-> f] # None
    BY NoneAssumption DEF Command
  <2> QED
    BY <1>1, <2>1 DEF Publish, Fresh
<1>2. CASE Elsewhere
  <2>1. ASSUME NEW u \in Users, NEW g \in Guids, SendFileToAnalysis(u, g) \/ CreateSource(u, g)
        PROVE  /\ command[g] = None /\ Published' = Published \cup {g}
               /\ command'[g].kind # "AnalyzeDocument" /\ command'[g].file = g
    <3>1. PICK k \in Kinds \ {"AnalyzeDocument"} : Publish(g, [kind |-> k, user |-> u, file |-> g])
      BY <2>1 DEF SendFileToAnalysis, CreateSource, Kinds
    <3> QED
      BY <1>1, <3>1
  <2>2. ASSUME NEW u \in Users, NEW g \in Guids, NEW f \in Guids, StartAnalysisOf(u, f, g)
        PROVE  /\ command[g] = None /\ Published' = Published \cup {g}
               /\ command'[g].kind = "AnalyzeDocument"
    <3>1. Publish(g, [kind |-> "AnalyzeDocument", user |-> u, file |-> f]) /\ "AnalyzeDocument" \in Kinds
      BY <2>2 DEF StartAnalysisOf, AnalyzeFile, Kinds
    <3> QED
      BY <1>1, <3>1
  <2> QED
    BY <1>2, <2>1, <2>2 DEF Elsewhere
<1>3. CASE Handling
  <2>1. command' = command
    BY <1>3 DEF Handling, Step, Deliver, HandleAsync, AppendToStream, AppendFails, ScriptEnds, RunnerThrows, Ack,
      Environment, Crash, Disconnect, Connect
  <2> QED
    BY <1>3, <2>1 DEF Handling
<1>4. CASE Showing
  BY <1>4 DEF Showing, Show, Forget, vars
<1>5. CASE Page
  <2>1. CASE \E g \in Guids : StartAccepted(g)
    <3> PICK g \in Guids : StartAccepted(g)
      BY <2>1
    <3>1. starting \in Guids /\ StartAnalysisOf(Me, starting, g) /\ direct' = direct
      BY DEF StartAccepted
    <3>2. Publish(g, [kind |-> "AnalyzeDocument", user |-> Me, file |-> starting])
      BY <3>1 DEF StartAnalysisOf, AnalyzeFile
    <3>3. /\ command[g] = None /\ Published' = Published \cup {g}
          /\ command'[g].kind = "AnalyzeDocument"
      BY <1>1, <3>1, <3>2, MeAssumption DEF Kinds
    <3> QED
      BY <3>1, <3>3, MeAssumption
  <2>2. CASE \E g \in Guids : UploadAccepted(g)
    <3> PICK g \in Guids : UploadAccepted(g)
      BY <2>2
    <3>1. Publish(g, [kind |-> "AddDocumentToAnalysis", user |-> Me, file |-> g])
      BY DEF UploadAccepted, SendFileToAnalysis
    <3>2. /\ command[g] = None /\ Published' = Published \cup {g}
          /\ command'[g].kind # "AnalyzeDocument" /\ command'[g].file = g
      BY <1>1, <3>1, MeAssumption DEF Kinds
    <3>3. direct' = direct /\ prepared' = prepared
      BY DEF UploadAccepted
    <3> QED
      BY <3>2, <3>3, MeAssumption
  <2>3. CASE ~((\E g \in Guids : StartAccepted(g)) \/ \E g \in Guids : UploadAccepted(g))
    BY <1>5, <2>3 DEF Page, Open, LoadAnswered, LoadFails, ToggleRow, StartAnalysis, StartFails,
      OnUpload, UploadFails, Others, vars
  <2> QED
    BY <2>1, <2>2, <2>3
<1> QED
  BY <1>2, <1>3, <1>4, <1>5 DEF JourneyNext
\* Uploads are named by their own ids.
LEMMA UploadsNamedStep ==
  ASSUME IndInv, JourneyTypeOK, UploadsNamed, JourneyNext
  PROVE  UploadsNamed'
<1>1. \A g \in Published : command'[g] = command[g]
  BY LogKept, WriteSideStep
<1> QED
  BY <1>1, PublishedStep DEF UploadsNamed

\* The rows of the page are those of the list.
LEMMA DocumentsListed ==
  ASSUME NEW events
  PROVE  \A r \in DocumentsToAnalysis(events) :
           r.document \in {events[i].document : i \in ToAnalysis(events)}
<1> SUFFICES ASSUME NEW r \in DocumentsToAnalysis(events)
             PROVE  r.document \in {events[i].document : i \in ToAnalysis(events)}
  OBVIOUS
<1>1. \E d \in {events[i].document : i \in ToAnalysis(events)} : \E status :
        r = [document |-> d, status |-> status]
  BY Zenon DEF DocumentsToAnalysis
<1>2. PICK d \in {events[i].document : i \in ToAnalysis(events)} : \E status :
        r = [document |-> d, status |-> status]
  BY <1>1
<1> QED
  BY <1>2

\* What the page offers stays in the log.
LEMMA OffersStoredStep ==
  ASSUME IndInv, JourneyTypeOK, OffersStored, JourneyNext
  PROVE  OffersStored'
<1> DEFINE Begun(d) == \E i \in Mine(Me, Len(log)) :
             log[i].document = d /\ log[i].status = "NotInitialized"
<1>1. \A d : Begun(d) => Begun(d)'
  <2>1. \A i \in Mine(Me, Len(log)) : i \in DOMAIN log /\ i \in Mine(Me, Len(log))'
    BY LogKept, WriteSideStep DEF Mine
  <2> QED
    BY <2>1, LogKept, WriteSideStep
<1>2. \A d \in Offered : Begun(d)
  BY DEF OffersStored
<1>3. SUFFICES ASSUME NEW d \in Offered'
               PROVE  d \in Offered \/ Begun(d)
  BY <1>1, <1>2 DEF OffersStored
<1> HIDE DEF Begun
<1>4. CASE UNCHANGED <<files, selected, starting>>
  BY <1>4 DEF Offered
<1>5. CASE \E q \in Queriers : LoadAnswered(q)
  <2> PICK q \in Queriers : LoadAnswered(q)
    BY <1>5
  <2> DEFINE names == Visible(q, Me)
  <2>0. PICK events \in Earlier(q, Me) :
          /\ ~DocumentsToAnalysisThrows(events, names)
          /\ files' = {r.document : r \in DocumentsToAnalysis(events)}
    BY DEF LoadAnswered
  <2>1. selected'.row = selected.row /\ starting' = starting
    BY DEF LoadAnswered, JourneyTypeOK
  <2>2. CASE d \in files'
    <3>1. d \in {events[i].document : i \in ToAnalysis(events)}
      BY <2>0, <2>2, DocumentsListed
    <3>2. PICK i \in Places(names, "NotInitialized", d) : TRUE
      BY <2>0, <3>1 DEF DocumentsToAnalysisThrows, LacksName
    <3>3. i \in DOMAIN names /\ names[i].document = d /\ names[i].status = "NotInitialized"
      BY <3>2 DEF Places
    <3>4. i \in Mine(Me, Len(log)) /\ names[i] = log[i]
      BY <3>3, MineFacts, MeAssumption
    <3> QED
      BY <3>3, <3>4 DEF Begun
  <2>3. CASE d \notin files'
    BY <2>1, <2>3, <1>3 DEF Offered
  <2> QED
    BY <2>2, <2>3
<1>6. CASE \E c \in Guids : ToggleRow(c)
  <2>1. PICK c \in files : ToggleRow(c)
    BY <1>6 DEF ToggleRow
  <2>2. files' = files /\ starting' = starting /\ selected'.row \in {None, c}
    BY <2>1 DEF ToggleRow, Nothing
  <2> QED
    BY <1>3, <2>2 DEF Offered
<1>7. CASE Page /\ ~(\E q \in Queriers : LoadAnswered(q)) /\ ~(\E c \in Guids : ToggleRow(c))
  <2>1. CASE Open
    <3>1. files' = {} /\ selected'.row = None /\ starting' = starting
      BY <2>1 DEF Open, Nothing
    <3> QED
      BY <1>3, <3>1 DEF Offered
  <2>2. CASE StartAnalysis
    <3>1. files' = files /\ selected' = selected /\ starting' \in {selected.row, Undefined}
      BY <2>2 DEF StartAnalysis
    <3> QED
      BY <1>3, <3>1 DEF Offered
  <2>3. CASE StartFails \/ \E g \in Guids : StartAccepted(g)
    <3>1. files' = files /\ selected' = selected /\ starting' = None
      BY <2>3 DEF StartAccepted, StartFails
    <3> QED
      BY <1>3, <3>1 DEF Offered
  <2>4. CASE LoadFails \/ OnUpload \/ UploadFails \/ \E g \in Guids : UploadAccepted(g)
    BY <1>4, <2>4 DEF LoadFails, OnUpload, UploadFails, UploadAccepted
  <2> QED
    BY <1>7, <2>1, <2>2, <2>3, <2>4 DEF Page
<1>8. CASE Elsewhere \/ Handling \/ Showing
  BY <1>4, <1>8 DEF Elsewhere, Handling, Showing, Show, Forget, page
<1> QED
  BY <1>5, <1>6, <1>7, <1>8 DEF JourneyNext

\* Analyses not started by other clients, and those of a document that was
\* ready, are named before they run.
LEMMA StartsNamedStep ==
  ASSUME IndInv, JourneyTypeOK, RecordsFit, StartsNamed, OffersStored, JourneyNext
  PROVE  StartsNamed'
<1>0. [Next]_vars
  BY WriteSideStep
<1>1. \A g \in Published : \A status : NamedBefore(g, status) => NamedBefore(g, status)'
  BY <1>0, NamedBeforeKept
<1>2. \A g \in Published : command'[g] = command[g]
  BY <1>0, LogKept
<1>3. prepared \subseteq Published
  BY DEF JourneyTypeOK
<1>4. CASE Published' = Published /\ direct' = direct /\ prepared' = prepared
  BY <1>1, <1>2, <1>3, <1>4 DEF StartsNamed
<1>5. ASSUME NEW u \in Users, NEW g \in Guids,
             /\ command[g] = None /\ Published' = Published \cup {g}
             /\ \/ /\ command'[g].kind # "AnalyzeDocument" /\ command'[g].file = g
                   /\ direct' = direct /\ prepared' = prepared
                \/ \E f \in Guids :
                     /\ command'[g].kind = "AnalyzeDocument"
                     /\ StartAnalysisOf(u, f, g)
                     /\ \/ direct' = direct \cup {g}
                        \/ u = Me /\ f = starting /\ direct' = direct
      PROVE  StartsNamed'
  <2>1. ASSUME NEW h \in Published
        PROVE  /\ h \notin direct' /\ command'[h].kind = "AnalyzeDocument" =>
                    NamedBefore(h, "NotInitialized")'
               /\ h \in prepared' => NamedBefore(h, "NotStarted")'
    <3>1. h # g
      BY <1>5 DEF Published
    <3>2. direct \subseteq direct' /\ (h \in prepared' => h \in prepared)
      BY <1>5, <3>1 DEF StartAnalysisOf
    <3> QED
      BY <1>1, <1>2, <3>2 DEF StartsNamed
  <2>2. CASE command'[g].kind # "AnalyzeDocument" /\ prepared' = prepared
    <3>1. g \notin prepared'
      BY <1>3, <1>5, <2>2 DEF Published
    <3> QED
      BY <1>3, <1>5, <2>1, <2>2, <3>1 DEF StartsNamed
  <2>3. ASSUME NEW f \in Guids, command'[g].kind = "AnalyzeDocument", StartAnalysisOf(u, f, g),
               direct' = direct \cup {g} \/ (u = Me /\ f = starting /\ direct' = direct)
        PROVE  StartsNamed'
    <3>1. AnalyzeFile(u, f, g) /\ (g \in prepared' => g \in prepared \/ Ready(u, f))
      BY <2>3 DEF StartAnalysisOf
    <3>2. g \in prepared' => NamedBefore(g, "NotStarted")'
      <4>1. g \notin prepared
        BY <1>3, <1>5 DEF Published
      <4> QED
        BY <3>1, <4>1, NamedBeforeNew DEF Ready
    <3>3. g \notin direct' => NamedBefore(g, "NotInitialized")'
      <4> SUFFICES ASSUME g \notin direct' PROVE NamedBefore(g, "NotInitialized")'
        OBVIOUS
      <4>1. u = Me /\ f = starting
        BY <2>3
      <4>2. f \in Offered
        BY <4>1, EmptyGuidAssumption, NoneIsNoGuid DEF Offered, Undefined
      <4>3. \E i \in Mine(Me, Len(log)) : log[i].document = f /\ log[i].status = "NotInitialized"
        BY <4>2 DEF OffersStored
      <4> QED
        BY <3>1, <4>1, <4>3, NamedBeforeNew
    <3>4. prepared' \subseteq prepared \cup {g}
      BY <2>3 DEF StartAnalysisOf
    <3> QED
      BY <1>3, <1>5, <2>1, <3>2, <3>3, <3>4 DEF StartsNamed
  <2> QED
    BY <1>5, <2>2, <2>3
<1> QED
  BY <1>4, <1>5, PublishedStep

\* The page and the caches keep their types.
LEMMA JourneyTypeOKStep ==
  ASSUME IndInv, JourneyTypeOK, JourneyNext
  PROVE  JourneyTypeOK'
<1>1. direct' \subseteq Published' /\ prepared' \subseteq Published'
  BY PublishedStep DEF StartAnalysisOf, JourneyTypeOK
<1>2. seen' \in [Queriers -> [Users -> 0 .. Len(log')]]
  <2>0. Len(log) \in Nat /\ Len(log') \in Nat /\ Len(log') >= Len(log)
    BY LogKept, WriteSideStep
  <2>1. \A q \in Queriers, u \in Users : seen[q][u] \in 0 .. Len(log')
    BY <2>0 DEF JourneyTypeOK
  <2>2. CASE seen' = seen
    BY <2>1, <2>2 DEF JourneyTypeOK
  <2>3. ASSUME NEW q \in Queriers, Forget(q)
        PROVE  seen' \in [Queriers -> [Users -> 0 .. Len(log')]]
    BY <2>0, <2>1, <2>3 DEF Forget, JourneyTypeOK
  <2>4. ASSUME NEW q \in Queriers, NEW u \in Users, Show(q, u)
        PROVE  seen' \in [Queriers -> [Users -> 0 .. Len(log')]]
    <3>1. seen[q][u] + 1 \in 0 .. Len(log')
      BY <2>0, <2>4 DEF Show, JourneyTypeOK
    <3> QED
      BY <2>1, <2>4, <3>1 DEF Show, JourneyTypeOK
  <2>5. CASE ~Showing
    BY <2>2, <2>5 DEF JourneyNext, Elsewhere, Handling, Page, Open, LoadAnswered, LoadFails,
      ToggleRow, StartAnalysis, StartAccepted, StartFails, OnUpload, UploadAccepted, UploadFails,
      Others
  <2> QED
    BY <2>3, <2>4, <2>5 DEF Showing
<1>3. /\ load' \in {"done", "asked", "leaving"} /\ files' \subseteq Guids
      /\ selected' \in [row : Guids \cup {None}, current : BOOLEAN] /\ disabled' \in BOOLEAN
      /\ starting' \in Guids \cup {Undefined, None} /\ uploading' \in BOOLEAN
  <2>1. CASE Elsewhere \/ Handling \/ Showing
    BY <2>1 DEF Elsewhere, Handling, Showing, Show, Forget, page, JourneyTypeOK
  <2>2. ASSUME NEW q \in Queriers, LoadAnswered(q)
        PROVE  files' \subseteq Guids
    <3>0. PICK events \in Earlier(q, Me) :
            files' = {r.document : r \in DocumentsToAnalysis(events)}
      BY <2>2 DEF LoadAnswered
    <3>1. \A i \in DOMAIN events : events[i].document \in Guids
      <4>1. \A i \in DOMAIN log : log[i].document \in Guids
        <5>1. \A i \in DOMAIN log : log[i] \in Event
          BY DEF IndInv, TypeOK
        <5> QED
          BY <5>1 DEF Event
      <4>2. PICK n \in 0 .. Len(log) : events = Prefix(Me, n)
        BY EarlierFacts, MeAssumption
      <4> QED
        BY <4>1, <4>2, PrefixFacts, MeAssumption
    <3>2. \A r \in DocumentsToAnalysis(events) : r.document \in Guids
      BY <3>1, DocumentsListed DEF ToAnalysis
    <3> QED
      BY <3>0, <3>2
  <2>3. CASE \E q \in Queriers : LoadAnswered(q)
    <3> PICK q \in Queriers : LoadAnswered(q)
      BY <2>3
    <3>1. files' \subseteq Guids /\ load' = "done"
          /\ disabled' = disabled /\ starting' = starting /\ uploading' = uploading
      BY <2>2 DEF LoadAnswered
    <3>2. selected' \in [row : Guids \cup {None}, current : BOOLEAN]
      BY DEF LoadAnswered, JourneyTypeOK
    <3> QED
      BY <3>1, <3>2 DEF JourneyTypeOK
  <2>4. CASE Page /\ ~\E q \in Queriers : LoadAnswered(q)
    <3>1. Nothing \in [row : Guids \cup {None}, current : BOOLEAN]
      BY DEF Nothing
    <3>2. \A d \in Guids : [row |-> d, current |-> TRUE] \in [row : Guids \cup {None}, current : BOOLEAN]
      OBVIOUS
    <3>3. selected.row \in Guids \cup {None}
      BY DEF JourneyTypeOK
    <3> QED
      BY <2>4, <3>1, <3>2, <3>3 DEF Page, Open, LoadFails, ToggleRow, StartAnalysis,
        StartAccepted, StartFails, OnUpload, UploadAccepted, UploadFails, JourneyTypeOK
  <2> QED
    BY <2>1, <2>3, <2>4 DEF JourneyNext
<1> QED
  BY <1>1, <1>2, <1>3 DEF JourneyTypeOK
\* The initial state satisfies the invariant.
LEMMA InitJourneyInv == JourneyInit => JourneyInv
<1> SUFFICES ASSUME JourneyInit PROVE JourneyInv
  OBVIOUS
<1>1. IndInv /\ log = << >> /\ Published = {} /\ \A r \in Runs : Known(r) = {}
  <2>1. Init
    BY DEF JourneyInit
  <2>2. IndInv
    BY <2>1, InitIndInv
  <2> QED
    BY <2>1, <2>2 DEF Init, Known, WrittenBy, Published
<1>2. JourneyTypeOK
  <2>1. 0 \in 0 .. Len(log) /\ Nothing \in [row : Guids \cup {None}, current : BOOLEAN]
    BY <1>1 DEF Nothing
  <2> QED
    BY <2>1 DEF JourneyInit, JourneyTypeOK
<1>3. RecordsFit /\ EndsOnce
  BY <1>1 DEF RecordsFit, EndsOnce
<1>4. UploadsNamed /\ StartsNamed
  BY <1>1 DEF JourneyInit, UploadsNamed, StartsNamed
<1>5. OffersStored
  BY DEF JourneyInit, OffersStored, Offered, Nothing
<1> QED
  BY <1>1, <1>2, <1>3, <1>4, <1>5 DEF JourneyInv

\* Every step keeps the invariant.
LEMMA JourneyInvStep == JourneyInv /\ [JourneyNext]_jvars => JourneyInv'
<1> SUFFICES ASSUME JourneyInv, [JourneyNext]_jvars PROVE JourneyInv'
  OBVIOUS
<1>0. /\ IndInv /\ JourneyTypeOK /\ RecordsFit /\ EndsOnce /\ UploadsNamed /\ StartsNamed
      /\ OffersStored
  BY DEF JourneyInv
<1>1. CASE JourneyNext
  <2>1. [Next]_vars
    BY <1>1, WriteSideStep
  <2>2. IndInv'
    BY <1>0, <2>1, IndInvStep
  <2>3. RecordsFit' /\ EndsOnce'
    <3>1. CASE Next
      BY <1>0, <3>1, RecordsFitStep, EndsOnceStep
    <3>2. CASE UNCHANGED vars
      BY <1>0, <3>2 DEF vars, RecordsFit, EndsOnce, Known, WrittenBy, KindOf
    <3> QED
      BY <2>1, <3>1, <3>2
  <2>4. JourneyTypeOK'
    BY <1>0, <1>1, JourneyTypeOKStep
  <2>5. UploadsNamed' /\ OffersStored'
    BY <1>0, <1>1, UploadsNamedStep, OffersStoredStep
  <2>6. StartsNamed'
    BY <1>0, <1>1, StartsNamedStep
  <2> QED
    BY <2>2, <2>3, <2>4, <2>5, <2>6 DEF JourneyInv
<1>2. CASE UNCHANGED jvars
  <2>1. UNCHANGED vars /\ UNCHANGED <<seen, load, files, selected, disabled, starting, uploading, direct, prepared>>
    BY <1>2 DEF jvars, page
  <2>2. IndInv'
    BY <1>0, <2>1, IndInvStep
  <2>3. RecordsFit' /\ EndsOnce'
    BY <1>0, <2>1 DEF vars, RecordsFit, EndsOnce, Known, WrittenBy, KindOf
  <2>4. JourneyTypeOK' /\ UploadsNamed'
    BY <1>0, <2>1 DEF vars, JourneyTypeOK, UploadsNamed, Published
  <2>5. StartsNamed' /\ OffersStored'
    BY <1>0, <2>1 DEF vars, StartsNamed, OffersStored, NamedBefore, Mine, Published, Offered
  <2> QED
    BY <2>2, <2>3, <2>4, <2>5 DEF JourneyInv
<1> QED
  BY <1>1, <1>2

\* The invariant of the whole holds.
THEOREM JourneyInvariance == JourneySpec => []JourneyInv
BY InitJourneyInv, JourneyInvStep, PTL DEF JourneySpec

\* The page and the replicas' caches keep their shape.
THEOREM JourneyTypeCorrect == JourneySpec => []JourneyTypeOK
<1>1. JourneyInv => JourneyTypeOK
  BY DEF JourneyInv
<1> QED
  BY <1>1, JourneyInvariance, PTL

---------------------------------------------------------------------------
\* What the page and the queries show

\* The invariant implies that the page's documents are its user's uploads.
LEMMA OffersFollow == JourneyInv => OffersOwnUploads
<1> SUFFICES ASSUME JourneyInv, NEW d \in Offered
             PROVE  d \in Uploads(Me)
  BY DEF OffersOwnUploads
<1>0. IndInv /\ RecordsFit /\ UploadsNamed /\ OffersStored
  BY DEF JourneyInv
<1>1. PICK i \in Mine(Me, Len(log)) : log[i].document = d /\ log[i].status = "NotInitialized"
  BY <1>0 DEF OffersStored
<1>2. i \in DOMAIN log /\ log[i].stream = "Analysis" /\ log[i].user = Me
  <2>1. Len(log) \in Nat /\ DOMAIN log = 1 .. Len(log)
    BY <1>0 DEF IndInv, TypeOK
  <2> QED
    BY <2>1 DEF Mine
<1> DEFINE r == log[i].uuid[1]
<1>3. OfCommand(log[i], r[1]) /\ Recorded(KindOf(r), log[i]) /\ r[1] \in Published
      /\ command[r[1]] \in Command
  BY <1>0, <1>2, EventFacts
<1>4. KindOf(r) = "AddDocumentToAnalysis"
  BY <1>1, <1>2, <1>3
    DEF OfCommand, Recorded, KindOf, OpeningStatus, ClosingStatus, Command, Kinds
<1> QED
  BY <1>0, <1>1, <1>2, <1>3, <1>4 DEF Uploads, UploadsNamed, OfCommand, KindOf

\* Whatever ids other clients analyze for the user and whichever replica
\* answered, the page offers and starts only documents its user uploaded.
THEOREM PageOffersOwnUploads == JourneySpec => []OffersOwnUploads
BY JourneyInvariance, OffersFollow, PTL

\* A document with an event in the log has an earlier event, or that one, that
\* says its upload began, unless another client analyzed it.
LEMMA BegunBefore ==
  ASSUME JourneyInv, NEW i \in DOMAIN log, log[i].stream = "Analysis"
  PROVE  \/ \E g \in direct :
              /\ command[g].user = log[i].user /\ command[g].file = log[i].document
         \/ \E k \in Mine(log[i].user, Len(log)) :
              /\ k <= i
              /\ log[k].document = log[i].document /\ log[k].status = "NotInitialized"
<1>0. IndInv /\ RecordsFit /\ StartsNamed /\ UploadsNamed
  BY DEF JourneyInv
<1>1. Len(log) \in Nat /\ DOMAIN log = 1 .. Len(log) /\ i \in 1 .. Len(log)
  BY <1>0 DEF IndInv, TypeOK
<1> DEFINE r == log[i].uuid[1]
<1>2. /\ OfCommand(log[i], r[1]) /\ Recorded(KindOf(r), log[i])
      /\ r[1] \in Published /\ command[r[1]] \in Command
      /\ Settling(log[i].status) <=> log[i].uuid[2] = "closing"
  BY <1>0, EventFacts
<1>3. CASE KindOf(r) = "AnalyzeDocument"
  <2>1. command[r[1]].user = log[i].user /\ command[r[1]].file = log[i].document /\ log[i].task = r[1]
    BY <1>2, <1>3 DEF OfCommand, KindOf
  <2>2. CASE r[1] \notin direct
    <3>1. NamedBefore(r[1], "NotInitialized")
      BY <1>0, <1>2, <1>3, <2>2 DEF StartsNamed, KindOf
    <3>2. PICK k \in Mine(command[r[1]].user, Len(log)) :
            /\ log[k].document = command[r[1]].file /\ log[k].status = "NotInitialized"
            /\ \A j \in DOMAIN log : log[j].task = r[1] => k < j
      BY <3>1 DEF NamedBefore
    <3>3. k < i /\ k \in 1 .. Len(log)
      BY <2>1, <3>2 DEF Mine
    <3> QED
      BY <1>1, <2>1, <3>2, <3>3
  <2> QED
    BY <2>1, <2>2
<1>4. CASE KindOf(r) # "AnalyzeDocument"
  <2>1. KindOf(r) = "AddDocumentToAnalysis" /\ log[i].task = EmptyGuid
    BY <1>2, <1>4, EmptyGuidAssumption DEF OfCommand, KindOf, Command, Kinds
  <2>2. CASE ~Settling(log[i].status)
    <3>1. log[i].status = "NotInitialized"
      BY <1>2, <2>1, <2>2 DEF Recorded, OpeningStatus
    <3> QED
      BY <1>1, <3>1 DEF Mine
  <2>3. CASE Settling(log[i].status)
    <3>1. PICK j \in 1 .. (i - 1) :
            /\ ~Settling(log[j].status)
            /\ log[j].stream = log[i].stream /\ log[j].user = log[i].user
            /\ log[j].document = log[i].document /\ log[j].task = log[i].task
      BY <1>0, <2>3 DEF IndInv, StartBeforeEnd
    <3>2. j \in DOMAIN log /\ j \in 1 .. Len(log) /\ j <= i
      BY <1>1
    <3> DEFINE s == log[j].uuid[1]
    <3>3. /\ OfCommand(log[j], s[1]) /\ Recorded(KindOf(s), log[j])
          /\ s[1] \in Guids /\ command[s[1]] \in Command
          /\ log[j].uuid[2] # "closing"
      BY <1>0, <3>1, <3>2, EventFacts
    <3>4. KindOf(s) # "AnalyzeDocument"
      BY <2>1, <3>1, <3>3, EmptyGuidAssumption DEF OfCommand, KindOf
    <3>5. log[j].status = "NotInitialized"
      BY <3>3, <3>4 DEF Recorded, OpeningStatus
    <3> QED
      BY <3>1, <3>2, <3>5 DEF Mine
  <2> QED
    BY <2>2, <2>3
<1> QED
  BY <1>3, <1>4

\* The invariant implies that name lookups fail only for other clients' documents.
LEMMA LookupsFollow == JourneyInv => NameLookupsFailOnlyForOthers
<1> SUFFICES ASSUME JourneyInv, NEW q \in Queriers, NEW u \in Users, NEW events \in Earlier(q, u),
                    DocumentsWithLatestStatusThrows(events, Visible(q, u))
             PROVE  \E g \in direct :
                      /\ command[g].user = u
                      /\ Places(Visible(q, u), "NotInitialized", command[g].file) = {}
  BY DEF NameLookupsFailOnlyForOthers
<1> DEFINE names == Visible(q, u)
<1>0. IndInv /\ JourneyTypeOK
  BY DEF JourneyInv
<1>1. PICK i \in DOMAIN events : Places(names, "NotInitialized", events[i].document) = {}
  BY DEF DocumentsWithLatestStatusThrows, LacksName
<1>2. /\ i \in Mine(u, seen[q][u]) /\ i \in DOMAIN log /\ events[i] = log[i]
      /\ log[i].stream = "Analysis" /\ log[i].user = u
  <2>1. PICK n \in 0 .. Len(log) : events = Prefix(u, n) /\ Mine(u, n) \subseteq Mine(u, seen[q][u])
    BY <1>0, EarlierFacts
  <2>2. i \in Mine(u, n) /\ events[i] = log[i]
    BY <1>0, <1>1, <2>1, PrefixFacts
  <2> QED
    BY <1>0, <2>1, <2>2, MineFacts
<1>3. ASSUME NEW k \in Mine(u, Len(log)), k <= i
      PROVE  k \in DOMAIN names /\ names[k] = log[k]
  <2>1. k \in Nat /\ i \in Nat
    BY <1>0, <1>2 DEF Mine, IndInv, TypeOK
  <2>2. k \in Mine(u, seen[q][u])
    <3>1. seen[q][u] \in Nat /\ i <= seen[q][u] /\ k \in 1 .. Len(log)
      BY <1>0, <1>2, <1>3 DEF Mine, JourneyTypeOK
    <3>2. k \in 1 .. seen[q][u]
      BY <1>3, <2>1, <3>1
    <3> QED
      BY <1>3, <3>2 DEF Mine
  <2> QED
    BY <1>0, <2>2, MineFacts
<1>4. CASE \E k \in Mine(log[i].user, Len(log)) :
             /\ k <= i /\ log[k].document = log[i].document /\ log[k].status = "NotInitialized"
  <2> PICK k \in Mine(u, Len(log)) :
             /\ k <= i /\ log[k].document = log[i].document /\ log[k].status = "NotInitialized"
    BY <1>2, <1>4
  <2>1. k \in Places(names, "NotInitialized", events[i].document)
    BY <1>2, <1>3 DEF Places
  <2> QED
    BY <1>1, <2>1
<1> QED
  BY <1>1, <1>2, <1>4, BegunBefore

\* The name lookup of the lists of documents fails, on every replica, only for a
\* document that a client outside the page analyzed without an upload.
THEOREM NameLookupsFailForOthers == JourneySpec => []NameLookupsFailOnlyForOthers
BY JourneyInvariance, LookupsFollow, PTL
---------------------------------------------------------------------------
\* The list of analyses and the lookup

TaskGroup(events, g) == {i \in OfAnalyses(events) : events[i].task = g}

\* The list has the newest event of each task, which is one of the log's.
LEMMA ListedFacts ==
  ASSUME IndInv, RecordsFit, NEW u \in Users, NEW n \in 0 .. Len(log), NEW names,
         NEW dto \in UserAnalyses(Prefix(u, n), names)
  PROVE  LET events == Prefix(u, n)
             L == LatestOf(events, TaskGroup(events, dto.task))
         IN /\ dto = AnalysisStatusDto(names, events[L])
            /\ L \in TaskGroup(events, dto.task)
            /\ L \in Mine(u, n) /\ L \in DOMAIN log /\ events[L] = log[L]
            /\ dto.task \in Guids /\ log[L].task = dto.task
            /\ dto.document = log[L].document /\ dto.status = log[L].status
            /\ dto.result = log[L].result /\ dto.named = IsNamed(names, log[L])
            /\ \A j \in TaskGroup(events, dto.task) : events[j].date <= events[L].date
<1> DEFINE events == Prefix(u, n)
<1>0. IndInv /\ RecordsFit
  OBVIOUS
<1>1. PICK i \in OfAnalyses(events) :
        dto = AnalysisStatusDto(names, events[LatestOf(events,
                {j \in OfAnalyses(events) : events[j].task = events[i].task})])
  BY DEF UserAnalyses
<1> DEFINE t == events[i].task
           L == LatestOf(events, TaskGroup(events, t))
<1>2. dto = AnalysisStatusDto(names, events[L]) /\ i \in TaskGroup(events, t)
  BY <1>1 DEF TaskGroup
<1>3. /\ TaskGroup(events, t) \subseteq Mine(u, n)
      /\ n \in Nat /\ Mine(u, n) \subseteq 1 .. n
      /\ \A j \in Mine(u, n) : j \in DOMAIN log /\ events[j] = log[j]
  BY <1>0, PrefixFacts DEF TaskGroup, OfAnalyses
<1>4. \A j \in TaskGroup(events, t) : events[j].date \in Int /\ j \in 1 .. n
  BY <1>0, <1>3, EventFacts
<1>5. /\ L \in TaskGroup(events, t)
      /\ \A j \in TaskGroup(events, t) : events[j].date <= events[L].date
  <2> HIDE DEF events, t
  <2>1. TaskGroup(events, t) # {} /\ TaskGroup(events, t) \subseteq 1 .. n
    BY <1>2, <1>4
  <2> QED
    BY <1>3, <1>4, <2>1, LatestIsNewest
<1>6. events[L].task = t /\ L \in DOMAIN log /\ events[L] = log[L] /\ t # EmptyGuid
      /\ L \in Mine(u, n)
  BY <1>3, <1>5 DEF TaskGroup, OfAnalyses
<1>7. log[L].task \in Guids \cup {EmptyGuid}
  <2>1. log[L] \in Event
    BY <1>0, <1>6 DEF IndInv, TypeOK
  <2> QED
    BY <2>1 DEF Event
<1>8. /\ dto.task = events[L].task /\ dto.document = events[L].document
      /\ dto.status = events[L].status /\ dto.result = events[L].result
      /\ dto.named = IsNamed(names, events[L])
  BY <1>2 DEF AnalysisStatusDto
<1>9. dto.task = t
  BY <1>6, <1>8
<1> QED
  BY <1>2, <1>5, <1>6, <1>7, <1>8, <1>9

\* A task with an event is in the list.
LEMMA Listed ==
  ASSUME NEW events, NEW names, NEW g, TaskGroup(events, g) # {}
  PROVE  AnalysisStatusDto(names, events[LatestOf(events, TaskGroup(events, g))])
           \in UserAnalyses(events, names)
<1>1. PICK i \in OfAnalyses(events) : events[i].task = g
  BY DEF TaskGroup
<1>2. TaskGroup(events, g) = {j \in OfAnalyses(events) : events[j].task = events[i].task}
  BY <1>1 DEF TaskGroup
<1> QED
  BY <1>1, <1>2 DEF UserAnalyses

\* The invariant implies that prepared analyses have names.
LEMMA NamesFollow == JourneyInv => NamesAreKnown
<1> SUFFICES ASSUME JourneyInv, NEW q \in Queriers, NEW u \in Users, NEW events \in Earlier(q, u),
                    NEW dto \in UserAnalyses(events, Visible(q, u)), dto.task \in prepared
             PROVE  dto.named
  BY DEF NamesAreKnown
<1> DEFINE names == Visible(q, u)
           g == dto.task
           L == LatestOf(events, TaskGroup(events, g))
<1>0. IndInv /\ JourneyTypeOK /\ RecordsFit /\ StartsNamed
  BY DEF JourneyInv
<1>1. /\ L \in Mine(u, seen[q][u]) /\ L \in DOMAIN log
      /\ g \in Guids /\ log[L].task = g /\ dto.named = IsNamed(names, log[L])
  <2>1. PICK n \in 0 .. Len(log) : events = Prefix(u, n) /\ Mine(u, n) \subseteq Mine(u, seen[q][u])
    BY <1>0, EarlierFacts
  <2>2. dto \in UserAnalyses(Prefix(u, n), names)
    BY <2>1
  <2> HIDE DEF names
  <2> QED
    BY <1>0, <2>1, <2>2, ListedFacts
<1>2. command[g].user = u /\ command[g].file = log[L].document
  <2>1. log[L].user = u
    BY <1>0, <1>1, MineFacts
  <2> QED
    BY <1>0, <1>1, <2>1, TaskFacts
<1>3. PICK k \in Mine(u, Len(log)) :
        log[k].document = log[L].document /\ log[k].status = "NotStarted" /\ k < L
  BY <1>0, <1>1, <1>2 DEF StartsNamed, NamedBefore
<1>4. k \in DOMAIN names /\ names[k] = log[k]
  BY <1>0, <1>1, <1>3, MineFacts
<1>5. k \in Places(names, "NotStarted", log[L].document)
  BY <1>1, <1>3, <1>4 DEF Places
<1> QED
  BY <1>1, <1>5 DEF IsNamed

\* Every replica that lists an analysis started when its document was ready
\* gives the document's name.
THEOREM NamesKnown == JourneySpec => []NamesAreKnown
BY JourneyInvariance, NamesFollow, PTL

\* What a lookup by id finds is what the list says of the task.
LEMMA LookupAgrees ==
  ASSUME JourneyInv, NEW q \in Queriers, NEW u \in Users, NEW g \in Guids,
         TaskGroup(Visible(q, u), g) # {}
  PROVE  LET events == Visible(q, u)
             newest == AnalysisStatusDto(events, events[LatestOf(events, TaskGroup(events, g))])
         IN newest \in Lists(q, u) /\ Finds(q, u, g) = Found(newest)
<1> DEFINE events == Visible(q, u)
           group == {i \in DOMAIN events : events[i].task = g}
<1>0. IndInv /\ JourneyTypeOK /\ RecordsFit
  BY DEF JourneyInv
<1>1. \A i \in DOMAIN events : i \in DOMAIN log /\ events[i] = log[i]
  BY <1>0, MineFacts
<1>2. group = TaskGroup(events, g)
  BY <1>0, <1>1, TaskFacts, EmptyGuidAssumption DEF TaskGroup, OfAnalyses
<1>3. AnalysisStatusDto(events, events[LatestOf(events, TaskGroup(events, g))]) \in Lists(q, u)
  BY Listed DEF Lists
<1> QED
  BY <1>2, <1>3 DEF GetById, Finds

\* So it is after a step.
LEMMA LookupAgreesNext ==
  JourneyInv' =>
    (\A q \in Queriers, u \in Users, g \in Guids : TaskGroup(Visible(q, u), g) # {} =>
       LET events == Visible(q, u)
           newest == AnalysisStatusDto(events, events[LatestOf(events, TaskGroup(events, g))])
       IN newest \in Lists(q, u) /\ Finds(q, u, g) = Found(newest))'
<1>1. JourneyInv =>
    \A q \in Queriers, u \in Users, g \in Guids : TaskGroup(Visible(q, u), g) # {} =>
       LET events == Visible(q, u)
           newest == AnalysisStatusDto(events, events[LatestOf(events, TaskGroup(events, g))])
       IN newest \in Lists(q, u) /\ Finds(q, u, g) = Found(newest)
  BY LookupAgrees
<1> QED
  BY <1>1, PTL

\* The events of a task are known to the runs of its command.
LEMMA TaskRuns ==
  IndInv /\ RecordsFit =>
    \A i \in DOMAIN log, g \in Guids : log[i].task = g =>
      \E s \in Runs :
        /\ log[i].uuid[1] = s /\ s[1] = g /\ pc[s] # "idle" /\ log[i] \in Known(s)
        /\ log[i].uuid[2] \in {"opening", "closing"}
        /\ log[i].date \in Int
        /\ Settling(log[i].status) <=> log[i].uuid[2] = "closing"
<1> SUFFICES ASSUME IndInv, RecordsFit, NEW i \in DOMAIN log, NEW g \in Guids, log[i].task = g
             PROVE  \E s \in Runs :
                      /\ log[i].uuid[1] = s /\ s[1] = g /\ pc[s] # "idle" /\ log[i] \in Known(s)
                      /\ log[i].uuid[2] \in {"opening", "closing"}
                      /\ log[i].date \in Int
                      /\ Settling(log[i].status) <=> log[i].uuid[2] = "closing"
  OBVIOUS
<1>1. log[i].uuid[1] \in Runs /\ log[i] \in Known(log[i].uuid[1])
  BY EventFacts
<1>2. pc[log[i].uuid[1]] # "idle"
  BY <1>1 DEF IndInv, KnownEvents
<1> QED
  BY <1>1, <1>2, EventFacts, TaskFacts, LoggedIsKnown

\* They are after a step, too.
LEMMA TaskRunsNext ==
  (IndInv /\ RecordsFit)' =>
    (\A i \in DOMAIN log, g \in Guids : log[i].task = g =>
      \E s \in Runs :
        /\ log[i].uuid[1] = s /\ s[1] = g /\ pc[s] # "idle" /\ log[i] \in Known(s)
        /\ log[i].uuid[2] \in {"opening", "closing"}
        /\ log[i].date \in Int
        /\ Settling(log[i].status) <=> log[i].uuid[2] = "closing")'
BY TaskRuns, PTL

\* An analysis listed as over is listed so after a step that takes nothing
\* from the replica and delivers its command only once.
LEMMA OverStep ==
  ASSUME JourneyInv, JourneyInv', [Next]_vars,
         NEW q \in Queriers, NEW u \in Users, seen'[q][u] >= seen[q][u],
         NEW dto \in Lists(q, u), Settling(dto.status),
         \A n \in 2 .. MaxDeliveries : pc'[<<dto.task, n>>] = "idle"
  PROVE  \E later \in Lists(q, u)' :
           /\ later.task = dto.task /\ later.status = dto.status /\ later.result = dto.result
           /\ \A g \in Guids : g = dto.task => Finds(q, u, g)' = Found(later)
<1> DEFINE events == Visible(q, u)
           after == Visible(q, u)'
           g == dto.task
           r == <<g, 1>>
           L == LatestOf(events, TaskGroup(events, g))
           M == LatestOf(after, TaskGroup(after, g))
<1>0. /\ IndInv /\ JourneyTypeOK /\ RecordsFit
      /\ IndInv' /\ JourneyTypeOK' /\ RecordsFit' /\ EndsOnce' /\ DatesWithinRun'
  BY DEF JourneyInv, IndInv
<1>1. /\ L \in TaskGroup(events, g) /\ L \in Mine(u, seen[q][u]) /\ L \in DOMAIN log
      /\ events[L] = log[L] /\ g \in Guids /\ log[L].task = g
      /\ dto.status = log[L].status /\ dto.result = log[L].result
  <2>1. seen[q][u] \in 0 .. Len(log)
    BY <1>0 DEF JourneyTypeOK
  <2> QED
    BY <1>0, <2>1, ListedFacts DEF Lists, Visible
<1>2. /\ seen'[q][u] \in 0 .. Len(log') /\ Len(log') \in Nat /\ DOMAIN log' = 1 .. Len(log')
      /\ seen[q][u] \in 0 .. Len(log) /\ DOMAIN log = 1 .. Len(log) /\ log'[L] = log[L]
      /\ L \in DOMAIN log'
  BY <1>0, <1>1, LogKept DEF JourneyTypeOK
<1>3. \A j \in TaskGroup(after, g) :
        /\ j \in DOMAIN log' /\ j \in 1 .. seen'[q][u]
        /\ after[j] = log'[j] /\ log'[j].task = g
  <2>1. /\ DOMAIN after = {i \in 1 .. seen'[q][u] : log'[i].stream = "Analysis" /\ log'[i].user = u}
        /\ \A i \in DOMAIN after : after[i] = log'[i]
    BY DEF Visible, Prefix, Mine
  <2>2. \A j \in TaskGroup(after, g) : j \in DOMAIN after /\ after[j].task = g
    BY DEF TaskGroup, OfAnalyses
  <2>3. 1 .. seen'[q][u] \subseteq DOMAIN log'
    BY <1>2
  <2> HIDE DEF after, g
  <2> QED
    BY <2>1, <2>2, <2>3
<1>4. L \in TaskGroup(after, g) /\ after[L] = log[L]
  <2>1. L \in 1 .. seen[q][u] /\ log[L].stream = "Analysis" /\ log[L].user = u
    BY <1>1 DEF Mine
  <2>2. L \in 1 .. seen'[q][u]
    BY <1>2, <2>1
  <2>3. L \in DOMAIN after /\ after[L] = log'[L]
    BY <1>2, <2>1, <2>2 DEF Visible, Prefix, Mine
  <2>4. events[L].status # "NotStarted" /\ events[L].task # EmptyGuid
    BY <1>1 DEF TaskGroup, OfAnalyses
  <2> QED
    BY <1>1, <1>2, <2>3, <2>4 DEF TaskGroup, OfAnalyses
<1>5. \A j \in TaskGroup(after, g) :
        /\ log'[j].uuid[1] = r /\ r \in Runs /\ log'[j].uuid[2] \in {"opening", "closing"}
        /\ log'[j] \in Known(r)' /\ log'[j].date \in Int
        /\ Settling(log'[j].status) <=> log'[j].uuid[2] = "closing"
  <2> SUFFICES ASSUME NEW j \in TaskGroup(after, g)
               PROVE  /\ log'[j].uuid[1] = r /\ r \in Runs /\ log'[j].uuid[2] \in {"opening", "closing"}
                      /\ log'[j] \in Known(r)' /\ log'[j].date \in Int
                      /\ Settling(log'[j].status) <=> log'[j].uuid[2] = "closing"
    OBVIOUS
  <2>0. j \in DOMAIN log' /\ log'[j].task = g /\ g \in Guids
    BY <1>1, <1>3
  <2>1. PICK s \in Runs :
          /\ log'[j].uuid[1] = s /\ s[1] = g /\ pc'[s] # "idle" /\ log'[j] \in Known(s)'
          /\ log'[j].uuid[2] \in {"opening", "closing"}
          /\ log'[j].date \in Int
          /\ Settling(log'[j].status) <=> log'[j].uuid[2] = "closing"
    BY <1>0, <2>0, TaskRunsNext
  <2>2. s = <<g, s[2]>> /\ s[2] \in 1 .. MaxDeliveries
    BY <2>1, EarlierRuns
  <2>3. s[2] = 1
    <3>1. s[2] \notin 2 .. MaxDeliveries
      BY <2>1, <2>2
    <3> QED
      BY <2>2, <3>1, BoundsAssumption
  <2>4. s = r
    BY <2>2, <2>3
  <2> QED
    BY <2>1, <2>4
<1>6. M \in TaskGroup(after, g) /\ after[L].date <= after[M].date
  <2>1. TaskGroup(after, g) \subseteq 1 .. seen'[q][u] /\ TaskGroup(after, g) # {}
    BY <1>3, <1>4
  <2>2. \A j \in TaskGroup(after, g) : after[j].date \in Int
    BY <1>3, <1>5
  <2>3. seen'[q][u] \in Nat
    BY <1>2
  <2> HIDE DEF after, g
  <2> QED
    BY <1>4, <2>1, <2>2, <2>3, LatestIsNewest
<1>7. log'[L].uuid[2] = "closing" /\ Settling(log'[L].status)
  BY <1>1, <1>2, <1>4, <1>5
<1>8. log'[M].uuid[2] = "closing"
  <2>1. log'[M].uuid[2] = "opening" => log'[M].date < log'[L].date
    BY <1>0, <1>4, <1>5, <1>6, <1>7 DEF DatesWithinRun
  <2>2. log'[L].date <= log'[M].date /\ log'[L].date \in Int /\ log'[M].date \in Int
    BY <1>3, <1>4, <1>5, <1>6
  <2> QED
    BY <1>5, <1>6, <2>1, <2>2
<1>9. log'[M] = log'[L]
  BY <1>0, <1>4, <1>5, <1>6, <1>7, <1>8 DEF EndsOnce
<1>10. after[M] = log[L]
  BY <1>2, <1>3, <1>6, <1>9
<1> DEFINE later == AnalysisStatusDto(after, after[M])
<1>11. later \in Lists(q, u)' /\ \A h \in Guids : h = g => Finds(q, u, h)' = Found(later)
  <2>1. PICK h \in Guids : h = g
    BY <1>1
  <2>2. TaskGroup(Visible(q, u), h)' # {}
    BY <1>6, <2>1
  <2>3. (LET events_ == Visible(q, u)
             newest == AnalysisStatusDto(events_, events_[LatestOf(events_, TaskGroup(events_, h))])
         IN newest \in Lists(q, u) /\ Finds(q, u, h) = Found(newest))'
    BY <2>2, LookupAgreesNext
  <2> QED
    BY <2>1, <2>3
<1> QED
  BY <1>1, <1>10, <1>11 DEF AnalysisStatusDto

\* While a replica lives and a command is delivered once, an analysis it
\* listed as over stays listed with its status and its result.
THEOREM OverStays == JourneySpec => OverStaysOver
<1>1. JourneyInv /\ JourneyInv' /\ [JourneyNext]_jvars => [StaysOver]_jvars
  <2> SUFFICES ASSUME JourneyInv, JourneyInv', JourneyNext,
                      NEW q \in Queriers, NEW u \in Users,
                      \A v \in Users : seen'[q][v] >= seen[q][v],
                      NEW dto \in Lists(q, u), Settling(dto.status),
                      \A n \in 2 .. MaxDeliveries : pc'[<<dto.task, n>>] = "idle"
               PROVE  \E later \in Lists(q, u)' :
                        /\ later.task = dto.task /\ later.status = dto.status
                        /\ later.result = dto.result
                        /\ Finds(q, u, dto.task)' = Found(later)
    BY DEF StaysOver
  <2>1. [Next]_vars
    BY WriteSideStep
  <2>2. dto.task \in Guids
    <3>1. IndInv /\ RecordsFit /\ seen[q][u] \in 0 .. Len(log)
      BY DEF JourneyInv, JourneyTypeOK
    <3> QED
      BY <3>1, ListedFacts DEF Lists, Visible
  <2> QED
    BY <2>1, <2>2, OverStep
<1> QED
  BY <1>1, JourneyInvariance, PTL DEF JourneySpec, OverStaysOver

---------------------------------------------------------------------------
\* What the whole implements

\* With the page, other clients and QueryService around it, the write side
\* does what it does alone: its theorems hold of the whole.
THEOREM WriteSideWithin == JourneySpec => Spec
<1>1. JourneyInit => Init
  BY DEF JourneyInit
<1>2. [JourneyNext]_jvars => [Next]_vars
  BY WriteSideStep DEF jvars
<1> QED
  BY <1>1, <1>2, PTL DEF JourneySpec, Spec

\* What the page and the other clients start are operations: each is accepted,
\* delivered, begun and ended at least once as Operations says it.
THEOREM JourneyImplementsOperations == JourneySpec => OperationsSpec
BY WriteSideWithin, WriteSideImplementsOperations

Topics == {"Analysis", "SourceDocuments"} \X Users
Streams == [i \in DOMAIN log |-> <<log[i].stream, log[i].user>>]
Shown(q) == [t \in Topics |-> IF t[1] = "Analysis" THEN Mine(t[2], seen[q][t[2]]) ELSE {}]

\* A new event does not show before the replica gets there.
LEMMA ShownKept ==
  ASSUME IndInv, JourneyTypeOK, [Next]_vars, seen' = seen, NEW q \in Queriers
  PROVE  Shown(q)' = Shown(q)
<1> SUFFICES ASSUME NEW u \in Users
             PROVE  Mine(u, seen[q][u])' = Mine(u, seen[q][u])
  BY DEF Shown, Topics
<1>1. seen[q][u] \in 0 .. Len(log)
  BY DEF JourneyTypeOK
<1>2. \A i \in 1 .. seen[q][u] : i \in DOMAIN log /\ log'[i] = log[i]
  BY <1>1, LogKept
<1> QED
  BY <1>2 DEF Mine

\* The write side appends at most one event, to a topic of the view.
LEMMA StreamsStep ==
  ASSUME IndInv, [Next]_vars
  PROVE  Streams' = Streams \/ \E t \in Topics : Streams' = Append(Streams, t)
<1>1. log \in Seq(Event) /\ Len(log) \in Nat /\ DOMAIN log = 1 .. Len(log)
  BY DEF IndInv, TypeOK
<1>2. CASE UNCHANGED log
  BY <1>2 DEF Streams
<1>3. ASSUME NEW e \in Event, log' = Append(log, e)
      PROVE  \E t \in Topics : Streams' = Append(Streams, t)
  <2> DEFINE t == <<e.stream, e.user>>
  <2>1. t \in Topics
    BY DEF Event, Topics
  <2>2. DOMAIN log' = 1 .. (Len(log) + 1) /\ \A i \in 1 .. Len(log) : log'[i] = log[i]
    BY <1>1, <1>3
  <2>3. log'[Len(log) + 1] = e
    BY <1>1, <1>3
  <2>4. \A i \in DOMAIN log : log[i] \in Event
    BY <1>1
  <2>5. \A i \in DOMAIN log : <<log[i].stream, log[i].user>> \in Topics
    BY <2>4 DEF Event, Topics
  <2>6. Streams \in Seq(Topics) /\ Len(Streams) = Len(log)
    BY <1>1, <2>5 DEF Streams
  <2>7. Streams' = [i \in 1 .. (Len(log) + 1) |-> IF i = Len(log) + 1 THEN t ELSE Streams[i]]
    BY <1>1, <2>2, <2>3 DEF Streams
  <2>8. Streams' = Append(Streams, t)
    BY <1>1, <2>6, <2>7
  <2> QED
    BY <2>1, <2>8
<1>4. log' = log \/ \E e \in Event : log' = Append(log, e)
  <2>1. CASE \E r \in Runs : AppendToStream(r) \/ AppendFails(r)
    <3> PICK r \in Runs : AppendToStream(r) \/ AppendFails(r)
      BY <2>1
    <3>1. pending[r] \in Event
      BY DEF AppendToStream, AppendFails, IndInv, RunsInOrder, TypeOK
    <3> QED
      BY <3>1 DEF AppendToStream, AppendFails
  <2>2. CASE ~\E r \in Runs : AppendToStream(r) \/ AppendFails(r)
    BY <2>2 DEF Next, Client, SendFileToAnalysis, CreateSource, AnalyzeFile, Publish, Step, Deliver, HandleAsync,
      ScriptEnds, RunnerThrows, Ack, Environment, Crash, Disconnect, Connect, Quiescent, vars
  <2> QED
    BY <2>1, <2>2
<1> QED
  BY <1>2, <1>3, <1>4

\* Every step of the whole is one of the view of each replica, or leaves it alone.
LEMMA ReplicaStep ==
  ASSUME JourneyInv, [JourneyNext]_jvars, NEW q \in Queriers
  PROVE  [View(q)!Next]_(View(q)!vars)
<1>0. IndInv /\ JourneyTypeOK
  BY DEF JourneyInv
<1>1. CASE [Next]_vars /\ seen' = seen
  <2>1. Shown(q)' = Shown(q)
    BY <1>0, <1>1, ShownKept
  <2>2. Streams' = Streams \/ \E t \in Topics : Streams' = Append(Streams, t)
    BY <1>0, <1>1, StreamsStep
  <2> QED
    BY <2>1, <2>2 DEF View!Next, View!Record, View!vars, Streams, Shown, Topics
<1>2. ASSUME UNCHANGED <<log, seen>>
      PROVE  UNCHANGED View(q)!vars
  BY <1>2 DEF View!vars, Mine
<1>3. ASSUME NEW p \in Queriers, Forget(p)
      PROVE  [View(q)!Next]_(View(q)!vars)
  <2>1. log' = log
    BY <1>3 DEF Forget, vars
  <2>2. CASE p # q
    <3>1. seen'[q] = seen[q]
      BY <1>0, <1>3, <2>2 DEF Forget, JourneyTypeOK
    <3> QED
      BY <2>1, <3>1 DEF View!vars, Mine
  <2>3. CASE p = q
    <3>1. \A u \in Users : Mine(u, seen[q][u])' = {}
      BY <1>0, <1>3, <2>3 DEF Forget, JourneyTypeOK, Mine
    <3> QED
      BY <2>1, <3>1 DEF View!Next, View!Forget
  <2> QED
    BY <2>2, <2>3
<1>4. ASSUME NEW p \in Queriers, NEW u \in Users, Show(p, u)
      PROVE  [View(q)!Next]_(View(q)!vars)
  <2> DEFINE n == seen[q][u] + 1
             t == <<"Analysis", u>>
  <2>1. log' = log
    BY <1>4 DEF Show, vars
  <2>2. CASE p # q
    <3>1. seen'[q] = seen[q]
      BY <1>0, <1>4, <2>2 DEF Show, JourneyTypeOK
    <3> QED
      BY <2>1, <3>1 DEF View!vars, Mine
  <2>3. CASE p = q
    <3>1. /\ seen[q][u] \in Nat /\ seen'[q][u] = n /\ n \in DOMAIN log
          /\ \A v \in Users : v # u => seen'[q][v] = seen[q][v]
      BY <1>0, <1>4, <2>3 DEF Show, JourneyTypeOK, IndInv, TypeOK
    <3>2. Mine(u, n) = IF log[n].stream = "Analysis" /\ log[n].user = u
                       THEN Mine(u, seen[q][u]) \cup {n} ELSE Mine(u, seen[q][u])
      BY <3>1 DEF Mine
    <3>3. \A v \in Users : Mine(v, seen[q][v])' = IF v = u THEN Mine(u, n) ELSE Mine(v, seen[q][v])
      BY <2>1, <3>1 DEF Mine
    <3>4. CASE ~(log[n].stream = "Analysis" /\ log[n].user = u)
      BY <2>1, <3>2, <3>3, <3>4 DEF View!vars
    <3>5. CASE log[n].stream = "Analysis" /\ log[n].user = u
      <4>1. t \in Topics /\ Shown(q)[t] = Mine(u, seen[q][u])
        BY DEF Shown, Topics
      <4>2. Shown(q)' = [Shown(q) EXCEPT ![t] = @ \cup {n}]
        <5>1. \A s \in Topics : s[2] \in Users /\ (s[1] = "Analysis" /\ s[2] = u => s = t)
          BY DEF Topics
        <5>2. \A s \in Topics : Shown(q)'[s] = IF s = t THEN Shown(q)[t] \cup {n} ELSE Shown(q)[s]
          BY <3>2, <3>3, <3>5, <4>1, <5>1 DEF Shown
        <5> QED
          BY <5>2 DEF Shown
      <4>3. n \in DOMAIN Streams /\ View(q)!Oldest(t, n)
        <5>1. Streams[n] = t /\ n \in DOMAIN Streams
          BY <3>1, <3>5 DEF Streams
        <5>2. n \notin Shown(q)[t]
          BY <3>1, <4>1 DEF Mine
        <5>3. \A j \in 1 .. (n - 1) : Streams[j] = t => j \in Shown(q)[t]
          BY <1>0, <3>1, <4>1 DEF Mine, Streams, IndInv, TypeOK
        <5> QED
          BY <5>1, <5>2, <5>3 DEF View!Oldest, Streams, Shown, Topics
      <4>4. View(q)!Show(t)
        BY <2>1, <4>2, <4>3 DEF View!Show, Streams, Shown, Topics
      <4> QED
        BY <4>1, <4>4 DEF View!Next, Topics
    <3> QED
      BY <3>4, <3>5
  <2> QED
    BY <2>2, <2>3
<1>5. CASE Showing
  BY <1>3, <1>4, <1>5 DEF Showing
<1>6. CASE Elsewhere \/ Handling \/ Page \/ UNCHANGED jvars
  <2>1. [Next]_vars
    BY <1>6, WriteSideStep DEF JourneyNext, jvars
  <2>2. seen' = seen
    BY <1>6 DEF Elsewhere, Handling, Page, Open, LoadAnswered, LoadFails, ToggleRow, StartAnalysis,
      StartAccepted, StartFails, OnUpload, UploadAccepted, UploadFails, Others, jvars
  <2> QED
    BY <1>1, <2>1, <2>2
<1> QED
  BY <1>5, <1>6 DEF JourneyNext

\* Each replica keeps EventView's promise to every user, whatever the write
\* side appends meanwhile and whichever other replica restarts.
THEOREM ReplicasImplementView == JourneySpec => ReplicasAreViews
<1> SUFFICES ASSUME NEW q \in Queriers
             PROVE  JourneySpec => View(q)!Spec
  BY DEF ReplicasAreViews
<1>1. JourneyInit => View(q)!Init
  BY DEF JourneyInit, Init, View!Init, Mine
<1>2. JourneyInv /\ [JourneyNext]_jvars => [View(q)!Next]_(View(q)!vars)
  BY ReplicaStep
<1> QED
  BY <1>1, <1>2, JourneyInvariance, PTL DEF JourneySpec, View!Spec

\* What the view may show next is the next event the replica gets to.
LEMMA NextToShow == JourneyInv => ReplicasShowWhatViewsMay
<1> SUFFICES ASSUME JourneyInv, NEW q \in Queriers, NEW u \in Users, NEW i \in DOMAIN log,
                    View(q)!Oldest(<<"Analysis", u>>, i)
             PROVE  i > seen[q][u] /\ Mine(u, i) = Mine(u, seen[q][u]) \cup {i}
  BY DEF ReplicasShowWhatViewsMay
<1>1. /\ DOMAIN log = 1 .. Len(log) /\ Len(log) \in Nat /\ i \in Nat
      /\ seen[q][u] \in 0 .. Len(log)
  BY DEF JourneyInv, IndInv, TypeOK, JourneyTypeOK
<1>2. /\ log[i].stream = "Analysis" /\ log[i].user = u
      /\ i \notin Mine(u, seen[q][u])
      /\ \A j \in 1 .. (i - 1) :
           log[j].stream = "Analysis" /\ log[j].user = u => j \in Mine(u, seen[q][u])
  <2>1. <<"Analysis", u>> \in Topics /\ Shown(q)[<<"Analysis", u>>] = Mine(u, seen[q][u])
    BY DEF Shown, Topics
  <2>2. /\ Streams[i] = <<"Analysis", u>> /\ i \notin Shown(q)[<<"Analysis", u>>]
        /\ \A j \in 1 .. (i - 1) :
             Streams[j] = <<"Analysis", u>> => j \in Shown(q)[<<"Analysis", u>>]
    BY DEF View!Oldest, Streams, Shown, Topics
  <2>3. \A j \in 1 .. i : j \in DOMAIN log
    BY <1>1
  <2>4. \A j \in 1 .. i : Streams[j] = <<log[j].stream, log[j].user>>
    BY <2>3 DEF Streams
  <2>5. i \in 1 .. i /\ \A j \in 1 .. (i - 1) : j \in 1 .. i
    BY <1>1
  <2> QED
    BY <2>1, <2>2, <2>4, <2>5
<1>3. i > seen[q][u]
  BY <1>1, <1>2 DEF Mine
<1> QED
  BY <1>1, <1>2, <1>3 DEF Mine

\* The prefix of the log that a replica has reached stands for every state of
\* the view: the abstraction of QueryService leaves no answer out.
THEOREM ReplicasLeaveNothingOut == JourneySpec => []ReplicasShowWhatViewsMay
BY JourneyInvariance, NextToShow, PTL
===========================================================================
