------------------------------ MODULE Queries ------------------------------
(***************************************************************************)
(* What QueryService makes of a user's analysis events.  The events are a   *)
(* function from their places in the list it reads, so that First finds the *)
(* smallest place; a name is known or "No info".                            *)
(*                                                                          *)
(* A query makes its rows from one enumeration of the list and looks the    *)
(* names up in later ones, when the list may hold more.                     *)
(***************************************************************************)
EXTENDS Contracts

Places(events, status, document) ==
  {i \in DOMAIN events : events[i].status = status /\ events[i].document = document}

\* OrderByDescending(e => e.OccurenceDate).First(), a stable sort.
LatestOf(events, group) ==
  CHOOSE i \in group : \A j \in group :
    events[j].date < events[i].date \/ (events[j].date = events[i].date /\ i <= j)

\* A mutant: the name is looked up among the analysis' own events.
IsNamedByTask(names, e) ==
  \E j \in Places(names, "NotStarted", e.document) : names[j].task = e.task

\* The name comes from the event that says the document is ready.
IsNamed(names, e) == Places(names, "NotStarted", e.document) # {}

AnalysisStatusDto(names, e) ==
  [task |-> e.task, document |-> e.document,
   status |-> e.status, result |-> e.result, named |-> IsNamed(names, e)]

OfAnalyses(events) ==
  {i \in DOMAIN events : events[i].status # "NotStarted" /\ events[i].task # EmptyGuid}

\* A mutant: the events are grouped by document.
UserAnalysesByDocument(events, names) ==
  {[AnalysisStatusDto(names, events[LatestOf(events,
      {j \in OfAnalyses(events) : events[j].document = events[i].document})])
    EXCEPT !.task = events[i].task] : i \in OfAnalyses(events)}

\* The newest event of every task.
UserAnalyses(events, names) ==
  {AnalysisStatusDto(names, events[LatestOf(events,
      {j \in OfAnalyses(events) : events[j].task = events[i].task})]) : i \in OfAnalyses(events)}

NotFound == [found |-> FALSE]
Found(dto) == [found |-> TRUE, dto |-> dto]

\* First throws when there is no such event, which is answered with 404.
GetById(events, names, task) ==
  LET group == {i \in DOMAIN events : events[i].task = task} IN
  IF group = {} THEN NotFound ELSE Found(AnalysisStatusDto(names, events[LatestOf(events, group)]))

\* A mutant: the name comes from the event that says the document is ready.
LacksNameUntilReady(names, documents) ==
  \E d \in documents : Places(names, "NotStarted", d) = {}

\* A mutant: FirstOrDefault, and no name.
NeverLacksName(names, documents) == FALSE

\* First throws when no event says that the upload began.
LacksName(names, documents) ==
  \E d \in documents : Places(names, "NotInitialized", d) = {}

ToAnalysis(events) ==
  {i \in DOMAIN events : events[i].status \in {"NotStarted", "NotInitialized", "Failed"}}

\* The newest event of every document, of those three statuses.
DocumentsToAnalysis(events) ==
  {[document |-> d,
    status |-> events[LatestOf(events, {j \in ToAnalysis(events) : events[j].document = d})].status]
     : d \in {events[i].document : i \in ToAnalysis(events)}}

\* Its names are looked up when the answer is written.
DocumentsToAnalysisThrows(events, names) ==
  LacksName(names, {events[i].document : i \in ToAnalysis(events)})

\* The list of every document with its newest event, of any status.
DocumentsWithLatestStatusThrows(events, names) ==
  LacksName(names, {events[i].document : i \in DOMAIN events})
===========================================================================
