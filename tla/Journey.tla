------------------------------ MODULE Journey ------------------------------
(***************************************************************************)
(* From the browser and back: the page on which a user uploads documents,   *)
(* lists them and starts analyses, the write side (CommandHandler), and the *)
(* replicas of QueryService, each of which shows a user a prefix of the     *)
(* user's events (EventView).  Other clients call the same API at will.     *)
(***************************************************************************)
EXTENDS CommandHandlerInv, Queries

CONSTANTS
  Queriers,  \* instances of QueryService
  Me         \* the user of the page

ASSUME MeAssumption == Me \in Users
ASSUME NoneIsNoGuid == None \notin Guids \cup {EmptyGuid}

\* The id of a start request sent when no row is selected.
Undefined == EmptyGuid
Nothing == [row |-> None, current |-> FALSE]

VARIABLES
  seen,       \* QueryService replica -> user -> how far in the log its cache is
  load,       \* the page's list: "done", "asked", or "leaving" for the login page
  files,      \* uploadedFiles: the documents of its rows
  selected,   \* selectedRow, and whether it is a row of the present list
  disabled,   \* startButtonDisabled
  starting,   \* the id of the start request in flight, or None
  uploading,  \* whether an upload is in flight
  direct,     \* analyses other clients started
  prepared    \* analyses started when their document was ready

page == <<load, files, selected, disabled, starting, uploading>>
jvars == <<vars, seen, page, direct, prepared>>

JourneyTypeOK ==
  /\ seen \in [Queriers -> [Users -> 0 .. Len(log)]]
  /\ load \in {"done", "asked", "leaving"}
  /\ files \subseteq Guids
  /\ selected \in [row : Guids \cup {None}, current : BOOLEAN]
  /\ disabled \in BOOLEAN
  /\ starting \in Guids \cup {Undefined, None}
  /\ uploading \in BOOLEAN
  /\ direct \subseteq Published
  /\ prepared \subseteq Published

JourneyInit ==
  /\ Init
  /\ seen = [q \in Queriers |-> [u \in Users |-> 0]]
  /\ load = "asked"
  /\ files = {}
  /\ selected = Nothing
  /\ disabled = TRUE
  /\ starting = None
  /\ uploading = FALSE
  /\ direct = {}
  /\ prepared = {}

---------------------------------------------------------------------------
\* The API and the write side

\* The places of user u's analysis events up to place n of the log.
Mine(u, n) == {i \in 1 .. n : log[i].stream = "Analysis" /\ log[i].user = u}
Ready(u, f) == \E i \in Mine(u, Len(log)) : log[i].document = f /\ log[i].status = "NotStarted"

StartAnalysisOf(u, f, g) ==
  /\ AnalyzeFile(u, f, g)
  /\ prepared' = IF Ready(u, f) THEN prepared \cup {g} ELSE prepared

Elsewhere == \E u \in Users, g \in Guids :
  \/ /\ SendFileToAnalysis(u, g) \/ CreateSource(u, g)
     /\ UNCHANGED <<seen, page, direct, prepared>>
  \/ \E f \in Guids :
       /\ StartAnalysisOf(u, f, g)
       /\ direct' = direct \cup {g}
       /\ UNCHANGED <<seen, page>>

Handling ==
  /\ (\E r \in Runs : Step(r)) \/ Environment
  /\ UNCHANGED <<seen, page, direct, prepared>>

---------------------------------------------------------------------------
\* QueryService

\* A mutant: the cache goes one place past the log.
ShowBeyond(q, u) ==
  /\ seen[q][u] <= Len(log)
  /\ seen' = [seen EXCEPT ![q][u] = @ + 1]
  /\ UNCHANGED <<vars, page, direct, prepared>>

Show(q, u) ==
  /\ seen[q][u] < Len(log)
  /\ seen' = [seen EXCEPT ![q][u] = @ + 1]
  /\ UNCHANGED <<vars, page, direct, prepared>>

Forget(q) ==
  /\ "crash" \in Faults
  /\ seen' = [seen EXCEPT ![q] = [u \in Users |-> 0]]
  /\ UNCHANGED <<vars, page, direct, prepared>>

\* The events replica q reads for user u, and those an answer's rows may be made
\* from when it looks its names up: any list of q's since it started, though a
\* request reads none from before it was made.
Prefix(u, n) == [i \in Mine(u, n) |-> log[i]]
Visible(q, u) == Prefix(u, seen[q][u])
Earlier(q, u) == {Prefix(u, n) : n \in 0 .. seen[q][u]}

---------------------------------------------------------------------------
\* The page (NewAnalysisComponent and its UploadFileComponent)

Others == <<vars, seen, direct, prepared>>

\* The user comes to the page: a new component, which loads its list.  Bound:
\* the user leaves it when none of its requests is in flight.
Open ==
  /\ starting = None /\ ~uploading
  /\ load' = "asked"
  /\ files' = {}
  /\ selected' = Nothing
  /\ disabled' = TRUE
  /\ UNCHANGED <<starting, uploading, Others>>

\* The rows are new objects, so the row selected before is not among them.
LoadAnswered(q) ==
  /\ load = "asked"
  /\ \E events \in Earlier(q, Me) :
       /\ ~DocumentsToAnalysisThrows(events, Visible(q, Me))
       /\ files' = {r.document : r \in DocumentsToAnalysis(events)}
  /\ load' = "done"
  /\ selected' = [selected EXCEPT !.current = FALSE]
  /\ UNCHANGED <<disabled, starting, uploading, Others>>

\* Status 500 leaves the old list; any other error logs the user out.  A load
\* fails at any time: besides names that lack, for a user without events, and
\* when the list grows during an enumeration (see AnalysisReadModel).
LoadFails ==
  /\ load = "asked"
  /\ load' \in {"done", "leaving"}
  /\ UNCHANGED <<files, selected, disabled, starting, uploading, Others>>

ToggleRow(d) ==
  /\ load = "done"
  /\ d \in files
  /\ IF selected = [row |-> d, current |-> TRUE]
     THEN selected' = Nothing /\ disabled' = TRUE
     ELSE selected' = [row |-> d, current |-> TRUE] /\ disabled' = FALSE
  /\ UNCHANGED <<load, files, starting, uploading, Others>>

\* Bound: one start request in flight.
StartAnalysis ==
  /\ load = "done"
  /\ ~disabled
  /\ starting = None
  /\ disabled' = TRUE
  /\ starting' = IF selected.row = None THEN Undefined ELSE selected.row
  /\ UNCHANGED <<load, files, selected, uploading, Others>>

\* The command is published; the page may see an error all the same.
StartAccepted(g) ==
  /\ starting \in Guids
  /\ StartAnalysisOf(Me, starting, g)
  /\ starting' = None
  /\ disabled' \in {disabled, FALSE}
  /\ UNCHANGED <<load, files, selected, uploading, seen, direct>>

StartFails ==
  /\ starting # None
  /\ starting' = None
  /\ disabled' = FALSE
  /\ UNCHANGED <<load, files, selected, uploading, Others>>

OnUpload ==
  /\ load = "done"
  /\ ~uploading
  /\ uploading' = TRUE
  /\ UNCHANGED <<load, files, selected, disabled, starting, Others>>

\* A success loads the list again; an answer that is lost only shows a toast.
UploadAccepted(g) ==
  /\ uploading
  /\ SendFileToAnalysis(Me, g)
  /\ uploading' = FALSE
  /\ load' \in {load, "asked"}
  /\ UNCHANGED <<files, selected, disabled, starting, seen, direct, prepared>>

UploadFails ==
  /\ uploading
  /\ uploading' = FALSE
  /\ UNCHANGED <<load, files, selected, disabled, starting, Others>>

---------------------------------------------------------------------------
Page ==
  \/ Open
  \/ \E q \in Queriers : LoadAnswered(q)
  \/ LoadFails
  \/ \E d \in Guids : ToggleRow(d)
  \/ StartAnalysis
  \/ \E g \in Guids : StartAccepted(g)
  \/ StartFails
  \/ OnUpload
  \/ \E g \in Guids : UploadAccepted(g)
  \/ UploadFails

Showing == \E q \in Queriers : Forget(q) \/ \E u \in Users : Show(q, u)

JourneyNext == Elsewhere \/ Handling \/ Showing \/ Page

JourneySpec == JourneyInit /\ [][JourneyNext]_jvars

---------------------------------------------------------------------------
\* Correctness

\* The documents user u uploaded to have them analyzed.
Uploads(u) ==
  {g \in Published : command[g].kind = "AddDocumentToAnalysis" /\ command[g].user = u}

\* The documents of the page's rows, of the row selected and of the request sent.
Offered == files \cup ({selected.row, starting} \ {None, Undefined})

\* The page offers, keeps selected and starts only documents its user has
\* uploaded, although any client may have analyzed any id for this user, the
\* row selected may be of an older list than the one shown, and the replica
\* that answered may have been behind or have restarted since.
OffersOwnUploads == Offered \subseteq Uploads(Me)

\* The name lookup of the two lists of documents, which has no default, fails
\* only for a document that another client analyzed: nothing the page uploads
\* or starts lacks its name in a later list, whichever replica answers, however
\* far behind it is.  (The lists fail otherwise, too: for a user without events
\* and when an event arrives during an enumeration.  See LoadFails.)
NameLookupsFailOnlyForOthers ==
  \A q \in Queriers, u \in Users : \A events \in Earlier(q, u) :
    DocumentsWithLatestStatusThrows(events, Visible(q, u)) =>
      \E g \in direct :
        command[g].user = u /\ Places(Visible(q, u), "NotInitialized", command[g].file) = {}

\* An analysis started when its document was ready is listed with the
\* document's name by every replica that lists it, since a replica that shows
\* the analysis shows the earlier event that names the document.
NamesAreKnown ==
  \A q \in Queriers, u \in Users : \A events \in Earlier(q, u) :
    \A dto \in UserAnalyses(events, Visible(q, u)) : dto.task \in prepared => dto.named

\* What replica q lists for user u when nothing arrives meanwhile, and finds.
Lists(q, u) == UserAnalyses(Visible(q, u), Visible(q, u))
Finds(q, u, g) == GetById(Visible(q, u), Visible(q, u), g)

\* While a replica's process lives and the broker delivers a command once, an
\* analysis that the replica listed as over stays listed, with that status and
\* that result, and looking it up by its id finds the same.
StaysOver ==
  \A q \in Queriers, u \in Users :
    (\A v \in Users : seen'[q][v] >= seen[q][v]) =>
      \A dto \in Lists(q, u) :
        ( /\ Settling(dto.status)
          /\ \A n \in 2 .. MaxDeliveries : pc'[<<dto.task, n>>] = "idle" )
        => \E later \in Lists(q, u)' :
             /\ later.task = dto.task /\ later.status = dto.status /\ later.result = dto.result
             /\ Finds(q, u, dto.task)' = Found(later)

OverStaysOver == [][StaysOver]_jvars

---------------------------------------------------------------------------
\* A replica implements EventView

\* The topics are a stream and a user; QueryService's analysis cache shows
\* those of one stream.
View(q) == INSTANCE EventView WITH
  Topics <- {"Analysis", "SourceDocuments"} \X Users,
  log <- [i \in DOMAIN log |-> <<log[i].stream, log[i].user>>],
  shown <- [t \in {"Analysis", "SourceDocuments"} \X Users |->
              IF t[1] = "Analysis" THEN Mine(t[2], seen[q][t[2]]) ELSE {}]

\* Every replica shows every user a growing prefix of the user's events, from
\* which only a restart takes anything away, while the write side appends
\* events of all users and of both streams.
ReplicasAreViews == \A q \in Queriers : View(q)!Spec

\* And whatever a view may show next, the replica may: it is the user's only
\* event between the place the replica has reached and that event's place.
ReplicasShowWhatViewsMay ==
  \A q \in Queriers, u \in Users : \A i \in DOMAIN log :
    View(q)!Oldest(<<"Analysis", u>>, i) =>
      i > seen[q][u] /\ Mine(u, i) = Mine(u, seen[q][u]) \cup {i}
---------------------------------------------------------------------------
\* The inductive invariant of the safety properties

RecordsFit == \A r \in Runs : \A e \in Known(r) : Recorded(KindOf(r), e)

\* A run records one end.
EndsOnce ==
  \A r \in Runs :
    /\ pc[r] \in {"opening", "script"} => \A e \in Known(r) : e.uuid[2] = "opening"
    /\ \A e, f \in Known(r) : e.uuid[2] = "closing" /\ f.uuid[2] = "closing" => e = f

UploadsNamed ==
  \A g \in Published : command[g].kind = "AddDocumentToAnalysis" => command[g].file = g

\* An event of g's user and document has this status, and is earlier than any
\* event of analysis g.
NamedBefore(g, status) ==
  \E i \in Mine(command[g].user, Len(log)) :
    /\ log[i].document = command[g].file
    /\ log[i].status = status
    /\ \A k \in DOMAIN log : log[k].task = g => i < k

StartsNamed ==
  /\ \A g \in Published \ direct :
       command[g].kind = "AnalyzeDocument" => NamedBefore(g, "NotInitialized")
  /\ \A g \in prepared : NamedBefore(g, "NotStarted")

\* The uploads of the documents the page offers have begun.
OffersStored ==
  \A d \in Offered : \E i \in Mine(Me, Len(log)) :
    log[i].document = d /\ log[i].status = "NotInitialized"

JourneyInv ==
  IndInv /\ JourneyTypeOK /\ RecordsFit /\ EndsOnce /\ UploadsNamed /\ StartsNamed /\ OffersStored
===========================================================================
