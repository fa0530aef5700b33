# Verification of the plagiarism detector

This directory holds TLA+ models of the plagiarism detector in `src/`, the TLC
configurations that check them on small instances, and the proofs that TLAPS
checks for every instance. Paths below are relative to `src/app` unless they
start with `src/`.

## 1. The system

A user uploads a document and asks for its analysis. The web client calls an
API behind a gateway. Writes go to **CommandService**, which publishes a command
to RabbitMQ. A replica of **CommandHandler** receives it, appends a status event
to EventStore, runs a Spark script on the parquet tables in HDFS, and appends a
second status event. Reads go to **QueryService**, which keeps every user's
events in memory, fed by subscriptions to EventStore, and answers lists from
them. Two replicas run of CommandService, CommandHandler, QueryService and
IdentityService (`docker-compose-prod.yml`). The corpus that documents are compared
with was collected beforehand by a scraper that its operator runs by hand.

```
client -> gateway -> CommandService -> RabbitMQ -> CommandHandler -> Spark script -> HDFS
   \          \                                        |
    \          -> QueryService <- subscription <- EventStore
     -> IdentityService (Postgres)
```

| Component | State it keeps | Operations | What makes it correct |
|---|---|---|---|
| CommandService | none | SendFileToAnalysis, CreateSource, AnalyzeFile: publish a command under a fresh id | what it accepted is carried out |
| RabbitMQ as configured | three auto-deleted queues, unacknowledged deliveries | route, deliver to one of the consumers, take back, acknowledge | a command is in one place and is not lost |
| CommandHandler | one run per delivery | append the opening status, run the script, append the closing status, return | an end follows a start; every command is settled; an operation stays in progress only for known causes |
| EventsFacade, write side | EventStore's streams | build an event with the replica's clock, append it | an operation's end is dated after its start |
| EventsFacade, analysis read model | static dictionary user -> list, a flag, subscriptions | GetAnalysesForUser, HandleNewEvent, resubscribe | readers see an ordered, growing prefix of a user's events |
| EventsFacade, source read model | static list, a flag, subscriptions | GetCachedOrFetch, resubscribe | as above, for one list that all users share |
| QueryService | none of its own | lists, lookups, report | answers are well defined, and never torn by events that arrive meanwhile |
| Spark scripts | parquet tables `sources`, `data`, `tmp.parquet` | two uploads (copy the table, overwrite it with one more row) and the detection | no row is lost; what is reported as stored is stored |
| IdentityService | table of users | login, create account | one account per login |
| Gateway, JWT | none | forward a request while its token is valid | only valid tokens pass |
| Web client | stored token, page state | lists, row selection, uploads, starts, login | pages act on what they show; sessions end and begin cleanly |
| GitHub scraper | a CSV list of projects, its copy with progress marks, the archives, `dataset.parquet` | list projects; download archives, stop, kill, resume; convert | a listed project is fetched or its loss is excused; the table is complete and its rows are named right |

### What is hard here

Nothing is transactional. A command's two appends, its script and its
acknowledgement are separate steps. The broker takes a message back when a
connection is lost although the handler goes on. Replicas date events with their
own clocks. The read model is filled by callbacks of several subscriptions that
racing requests opened, and it is enumerated without the lock its writers take.
Scripts share one temporary directory and overwrite their tables in place. The
scraper is stopped and resumed by hand, and remembers in one file it rewrites. Every
such hazard is listed with its line in `PROJECT.json` ("hazards"), with the
properties that would catch it going wrong, or a note saying why there are none.
Some of them do go wrong in this code, where nothing in the repository promises that
they do not: two accounts of one login, a late answer that ends or replaces a newer
session, an archive replaced by a namesake's, an operation whose handler threw. Their
notes say so. A property can then say no more than that nothing *else* goes wrong.

## 2. Modules and the code they model

| Module | Models | Notes |
|---|---|---|
| `Contracts` | commands, statuses, what the scripts print and what each handler makes of it | a script's output is its last line, as one of `"1"`, `"-1"`, `"score"`, `"text"` |
| `Operations` | abstract: at-least-once execution of an operation, and what its events, sorted by date, say of it | accepted, then each delivery may begin and end once; settled when all that began have ended |
| `CommandHandler` | CommandService, the broker, the three handlers, the append | one run per delivery `<<id, n>>` |
| `CommandHandlerInv`, `CommandHandlerProofs` | inductive invariant, theorems and the refinement of `Operations` | |
| `EventView` | abstract: an in-memory view of an event log | shows a growing prefix per topic, emptied by a restart; both read models and `Journey`'s replicas implement it |
| `AnalysisReadModel` | `EventsFacade/Services/AnalysisService.cs`, one process | a subscription is named by the request that opened it |
| `AnalysisReadModelProofs` | theorems and the refinement of `EventView` | |
| `Sorting` | that a finite, non-empty set of events has a newest one | by well-founded induction |
| `SourceReadModel` | `EventsFacade/Services/SourceDocumentsService.cs` and the list endpoint over it, one process | an event is its position in the stream |
| `SourceReadModelProofs` | theorems and the refinement of `EventView` | |
| `SparkRepository` | the three scripts in `spark_analysis_scripts/` and their directories | an overwrite is delete, tasks to a staging directory, commit |
| `SparkRepositoryProofs` | theorems | |
| `Queries` | `QueryService/Services/Implementations/`, as operators on the list the rows are made from and the list the names are looked up in | |
| `Journey` | the new-analysis page, composed with `CommandHandler` and with replicas that behave as `EventView` promises | |
| `JourneyProofs` | theorems, and what the whole implements | |
| `Sessions` | IdentityService, the gateway's check, the client's sessions and pages | one browser; a call is known by what it carries |
| `SessionsProofs` | theorems | |
| `ArchivesSpider` | the spiders in `src/github-scraper/github_projects_scraper/` | a project is its row in the list |
| `ToParquet` | `src/github-scraper/processing_scripts/to_parquet.py`, beside the spiders | |
| `ToParquetProofs` | theorems about both | |
| `MCCommandHandler`, `MCAnalysisReadModel`, `MCSourceReadModel`, `MCSparkRepository`, `MCJourney`, `MCSessions`, `MCToParquet` | values of the constants for TLC | |

`CommandHandler`, state: `command` (what was published under an id), `ready` and
`held` (the broker), `link` (a replica is up, cut off from the broker, or down),
`pc`, `on` and `pending` (a run), `log` and `now`. Actions:
`SendFileToAnalysis`, `CreateSource`, `AnalyzeFile` (CommandService), `Deliver` (the
broker), `HandleAsync`, `AppendToStream`, `ScriptEnds`, `Ack` (a handler, in the order of its awaits),
`AppendFails`, `RunnerThrows` (its exceptions), `Crash`, `Disconnect`, `Connect`.
A delivered message waits for a thread of its replica, whose threads scripts block
(`Common/Utils/PythonRunner.cs:21-23`), so `Deliver` and `HandleAsync` are two
steps: the broker may take the message back in between, and another replica may
settle and acknowledge the command before the first one begins, which it does all the same.
An event is dated when it is built, after that wait and before its append is awaited,
so a date, a delivery and a place in the log are different things. The client library acknowledges after
the handler returns or throws; an acknowledgement from a connection that was lost
does nothing.

`AnalysisReadModel`, state: `log` (the users of the events), `cache` (`Events`),
`initialized` (`WasInitializedTimes > 0`), `phase` and `at` (a subscription's
handler and checkpoint), `pc`, `asker`, `version`, `found`, `names` (a request). The two history
variables `told` and `floor` record what was answered. The handler's
`TryGetValue` and its `Add` or `TryAdd` are separate steps, as they are in the
code, and `Add` is two: `List.Add` counts the new version, then the element, and stores it
last, with only other writers locked out. A request holds the live list, not a copy. It
enumerates it once for its rows (`GroupBy`) and, as it writes them, once again for each
name (`GetInitialEvent`), without the lock. Each enumeration (`EnumerationBegins`)
ends well (`Enumerated`), or in `InvalidOperationException` when the version
has changed since it began (`Modified`), or in `NullReferenceException` when it reaches the
slot that is counted and not stored yet (`ReadsNull`). The list may grow between two enumerations,
which raises nothing: rows and names then come from different lists (`found`, `names`).

`SourceReadModel`, state: `log`, the list as `items` (its array) and `count`,
`initialized`, `phase`, `at` and `size` (a subscription: where it is in its
handler, its place in the stream, the count its `List.Add` read), `pc` and
`found` (a request). `List.Add` is two steps, since nothing locks it: it reads
the count, and then stores the element in that slot and the count plus one. What
an `Add` that overlaps another stores while the array is being replaced may be
lost; that slot is then null. A drop replays the stream from its start. `raced`
says whether two `Add`s overlapped in this process, `settled` how long the list was
when no `Add` was last under way, `found`, `told` and `floor` what was answered before two
overlapped: history variables. `Restart` ends the requests of the process ("over")
and forgets what they had found.

`SparkRepository`, state: `disk` (per directory: published rows, and what tasks
staged), per script its step, the rows it read last, the directory whose files it
believes it can read, and the line it printed. Spark reads lazily: a table is
listed when it is read and its files are opened when its rows are used, so a
directory that is deleted in between makes the script throw. `alone` and
`before` are history variables: an upload no other upload overlaps, and the rows
its table held when it started.

`Journey`, state: how far in the log every replica's cache is (an answer's names are
looked up in the list as it is, `Visible`, its rows are of that list or an earlier one, `Earlier`), the page's list
(`load`, `files`), `selected`, `disabled` (the start button), the requests in
flight. The rows of a reloaded list are other objects than the row selected
before (`selected.current`). `direct` and `prepared` are history variables:
analyses other clients started, and analyses whose document was ready. Other
clients may call the API at will, with any document id, as the API accepts it.
`Offered` is what the page shows, keeps selected or has sent; `OffersOwnUploads`
says that all of it are documents its user uploaded.

`Sessions`, state: `users` (the table), `issued` (tokens, each known by its
place), `now` (the gateway's clock), per tab `session` (`currentUserSubject`),
`page` and `shown`, `stored` (localStorage) and `calls`: the requests and timers
in flight, each with the tab that waits for it and whether the component that
made it is still there (`live`). An answer and its callback are one step, except
that an account is looked up and stored in two. `past`, `contested` and
`overlapped` are history variables. The router is modelled by what the code
relies on: the guard, the login page's redirect, and that nothing happens on the
way to the page one is on. `LoadAgain` is an upload from a page of `Uploaders`,
after which the page asks for its list again. The list pages behave alike: the
module has any set of them (`Lists`), and one stands for all in the run.

`ArchivesSpider`, state: `listed` (the CSV file), `progress` (its copy, with the
rows marked as scraped), `archive` (what lies under each name, and whether it is
whole), and the archives spider: `status`, `frame` (the rows it works on),
`marked`, `at` (the row it yielded last), `inflight`, `writing`. Actions:
`ParsePage`; `Crawl`, `Resume`, `NextRequest` (the generator: mark the row yielded
last, save the frame, yield the next), `ParseArchive` and `ArchiveWritten` (the
file is emptied and then written), `Refused`, `Interrupt`, `Close`, `Kill`,
`KillWhileSaving`. The row that is marked is the one whose request was *taken*,
before its answer: that is what a kill can lose. `copied`, `asked` and `lost` are
history variables: the rows the progress file began with, those asked for since,
and those a refusal, a kill or another archive of the same name excuses. Two
settings of the spiders have no effect in the code and none in the model: `FEED`
and `REDIRECTS_ENABLED` are not names Scrapy reads. A redirect that arrives while
Scrapy closes is dropped, which `Refused` covers, and the loop over pages asks for
pages 1 to `MAX_PAGES - 1`.

`ToParquet`, state: `convert` (the script's next step), `todo`, `handled` and
`current` (the names it listed), `tmp` (where it unpacks), `rows` (its frame), `due`
(the next tenth to report), `table`. It lists the names once and counts them again
at every step, and spiders may run beside it. The sums of 0.1 are modelled by the
parts at which the sum exceeds its fraction (`Late`, {3} for ten parts).

Abstracted everywhere: document contents and similarity (a score or none), names
(known or not), dates (integers), HTTP and JSON formats, logging.

## 3. What the runs check

| Run | Instance | What it shows |
|---|---|---|
| `handler_faults` | 1 command, 2 deliveries, 2 replicas, one clock 3 ticks behind, every fault | `StartBeforeEnd`, `OneCustodian`, `DrainedIsSettled`, `OpenIsExplained` |
| `handler_delivery` | same, crashes and lost connections, equal clocks, fairness | `NoneStuck`, `EveryCommandSettles`, and `CommandHandler` implements `Operations` |
| `complete_has_score` | no faults | violated: a failed analysis is recorded as Complete |
| `accepted_analysis_starts` | outages, fairness | violated: a command published without a consumer is dropped |
| `read_model` | 2 requests and their subscriptions, 2 users, 2 events, every failure, fairness | ordered, complete, bounded copies, fed; answers are whole and monotone; implements `EventView`; every event appears unless the process restarts |
| `empty_list_for_new_user` | no failures | violated: a user without events gets an error, not an empty list |
| `source_read_model` | 3 requests and their subscriptions, 2 documents, 2 dates, 2 events, a list of 4, every failure | always: what the list holds when no `Add` is under way stays in it, and the list is fed; until two `Add`s overlap: answers never go back although the stream is replayed, and the list implements `EventView` |
| `spark_repository` | 3 scripts of any kind at once, 2 documents, every failure | what an upload that no other overlaps achieves and preserves |
| `reported_is_stored` | 2 scripts, no failures | violated: overlapping uploads lose documents reported as stored |
| `journey` | 2 commands of 3 ids, 1 handler replica, 1 QueryService replica that lags and restarts | the name lookup of the document lists fails only for documents others analyzed; names are known; over stays over, in the list and by id; the page offers its user's own uploads only |
| `sessions` | 2 tabs, 2 logins, 3 accounts, 2 tokens, a replica whose clock is behind the gateway's, 1 list page that uploads, 2 calls in flight, every failure | logins are unique unless two creations overlap; a list is that of the tab's session; tabs do not end each other's sessions |
| `to_parquet` | 3 projects of which 2 share an archive's name, 1 search of 3 pages, 2 archives a run, 2 requests in flight, progress in 2 parts of which the first is late | however the spiders are stopped, killed and resumed: no project is lost without an excuse, and only the first of a resumed run may be asked for twice; the table holds every row at the end, under the right name |

Why the bounds are enough. The hazards of the write side are between two runs of
*one* command (a redelivery while the first run goes on), so one command with two
deliveries to two replicas contains them; runs of different commands share only
the log and the clock, and the proofs cover any number of both. A clock that is
behind by more than a handler takes makes every order by date possible. `handler_delivery` needs
no such clock: its refinement speaks of what is stored, and is proved for any clocks. In the
read model, two subscriptions race for one key or one list while their requests read; two
events are the least with which a list that has one grows during an enumeration or between
two, or two users' lists race. More events and requests are left to the proofs, which hold for
any number: at two of each the run has 297 342 states.
In the source list, two subscriptions race and a third request reads; two
events of one document with equal or different dates are the least a replay can
reorder, and four slots are the least that fill the list's first array.
In the repository, three scripts are the least in which an upload that is
alone runs while a detection script reads, after another upload that failed.
In the journey, two commands are an upload and its analysis, or two analyses of a
document nobody uploaded (the third id). One QueryService replica that lags
and restarts is ahead and behind in every order in which two could be, and each
property speaks of one replica. In `Sessions`, two tokens are two sessions, of one tab
or of two, and two calls are an old one and a new one; three accounts let one
login be created twice beside another; a token issued at the
first tick by a clock that is behind expires in the second. One replica of IdentityService is
enough, since its calls interleave at the table step by step; clocks that differ, and a
token that is not valid yet, are left to the proofs. For the
scraper, three projects are one that is done, one in flight and one to come; two
that share a name overwrite each other; a run of two archives leaves one for the
next; two parts with the first one late are the least in which a part falls due
after its share, and the proof is for any number of parts.
`MaxCommands`, `MaxDeliveries`, `MaxUsers`, `MaxTime`, `MaxTokens`, `MaxCalls`, `MaxEvents`,
`Requests`, `MaxAdds`, `Scripts`, `LastRow`, `MaxInFlight` and, on the page, one start and one upload in flight are
the bounds; each is named where it is declared or used. The deadlock check is on
everywhere that the system does not end; the ends of bounded behaviours are
explicit stuttering steps (`Quiescent`, `Done`), and `Journey` never ends.

Every property is also run against a definition changed the way a plausible bug
would change it (the operators marked "A mutant"), and fails there.

### Fairness

`CommandHandler`: weak fairness of `Deliver` (RabbitMQ pushes to connected
consumers), of `HandleAsync` (a replica's threads come free, as its scripts end), of
`AppendToStream`, `ScriptEnds` and `Ack` (awaited calls return;
the code has no timeout on the script, so that a script ends is an assumption),
and of `Connect` (docker's restart policy is `any`; the broker's client recovers
connections). No fairness of clients or faults. Faults are bounded by
`MaxDeliveries`, which is what ends the redeliveries.
`AnalysisReadModel`: strong fairness of `HandleNewEvent`, because a subscription
that is dropped again and again still delivers between drops, weak fairness of
the handler's own steps (`BeginAdd`, `Add`, `TryAdd`) and of `Resubscribe`. No fairness of requests.
The other modules state safety only: nothing obliges a user, a script's caller or
the operator of the spiders to go on.

## 4. What is proved

All proofs are for any number of replicas, commands, deliveries, users, requests,
scripts, events, tabs, pages, projects and archives, from the named assumptions on
the constants only. Each theorem file follows one pattern: the invariant that
the module ends with holds initially, every action keeps every part of it (a lemma
per action, or per part), and each property follows from it.

`CommandHandlerProofs`. `Invariance` proves `IndInv` of `CommandHandlerInv`
inductive; `StartsBeforeItEnds`, `CustodyIsExclusive`, `NoCommandIsLost`, `NoCommandIsStuck`,
`DrainedOperationIsSettled` and `OpenOnlyWithCause` follow. `StartBeforeEnd`
alone is not inductive: a run about to append its end must be known to have
stored its start (`StoredPhases`), with its command's fields (`KnownEvents`) and
an earlier date (`DatesWithinRun`, which needs that a replica's clock is past
every event it built). The events a step changes are summarized once, in `KnownStep`,
and every conjunct on events is preserved by that lemma.

`OpenOnlyWithCause` is about operations left in progress. Let the newest event of an
operation be a start, with no message waiting, no run going on and none that threw.
The run that recorded it did not acknowledge, since one that did has a later end of its own
(`StoredPhases`, `DatesWithinRun`); so it died. If another run acknowledged, that
one is the command's last (`LastRun`, from `OneCustodian`), so the dead run had lost its
message to a later one. If none did, the broker lost the message (`NothingLost`),
which only an outage can do.

`NoCommandIsStuck` is what `EveryCommandSettles` comes to without fairness: while
some replica stays connected, a command whose end is not on record is waiting with
a run left to take it (`ReadyIsDeliverable`), or is held by a run that goes on; the
one exception is a handler that threw, after which the message is gone.

`WriteSideImplementsOperations` proves the refinement of `Operations` for every
fault and any clocks. The abstract state of an operation is what its events sorted by date say,
which deliveries were made, began and ended, and whether the command is closed.
A step concerns one command, so it moves one operation (`OneMoves`). A
delivery needs a command that no run has acknowledged (`OneCustodian`), and without crashes and lost
connections it is the only one (`RunsOnce`). A run records a start once
(`NothingBeforeOpening`), and one end after it (`EndsLast`). An end that leaves no
start without its end settles the operation (`DrainedIsSettled`, before and after the
step). An acknowledgement closes it, after an end or an exception (`FaultsThrow`).
`Operations` does not say that an acknowledged operation is final, because it is not: a run
whose message was taken back may begin later, and reopen what another run has
settled; if it then dies, the operation is left in progress.

`AnalysisReadModelProofs`. `ReadModelInvariance` proves `IndInv`. The point is
the discarded insert: `TryAdd` drops an event when another subscription has
created the key. `HandlersKnow` says that a handler about to insert has an event
that is the first of its user, so that whoever created the key stored the same
event, since lists are ordered (`CachedInOrder`). From it follow
`CacheKeepsOrder`, `NoEventIsSkipped`, `CacheStaysFed`
and, step by step, `CacheImplementsView`. What a request has read so far is a list the cache has held, rows
before names (`Read`), and holds what was told before the request was made (`Remembered`):
`NoAnswerIsTorn` and `AnswersAreMonotonic`. `CopiesStayBounded` counts: the copies of
an event in a list and in the hands of handlers are at most the subscriptions that
have passed it, because a handler takes an event to a list once and moves on.

`SourceReadModelProofs`. Until two `Add`s overlap, the list holds before each
element every earlier event of the stream, although drops replay it; so its answer
is that of a prefix, and what was answered (`told`) is among the events cached.
`AnswersAdvance`, `HandledIsListed` and `FlagIsHonest` follow. `SettledStays` needs no such
condition: every `Add` under way has read a count that is at least `settled` (`SettledBelow`), so that,
however they overlap, none stores into a slot that was settled before it began. The newest event
of a document, which the list shows, exists by `Sorting`. `ListImplementsView` maps
the list to an `EventView` with one topic, which shows nothing once two `Add`s have
overlapped: an `Add` shows the oldest event that is not shown (every event before
it was handled, so by `HandledIsListed` it is listed), or adds one that is listed
already, which readers of the view do not see.

`JourneyProofs`. Every step of `Journey` is a step of `CommandHandler` or leaves
its variables alone (`WriteSideStep`), so `JourneyInv` starts from that module's
`IndInv`. It adds that events fit their commands (`RecordsFit`), that a run records
one end (`EndsOnce`), that uploads and analyses are named before they run
(`UploadsNamed`, `StartsNamed`) and that what the page offers is in the log
(`OffersStored`). The properties of the run follow for every instance.
`WriteSideWithin` says that the theorems of `CommandHandlerProofs` hold of the
whole; `JourneyImplementsOperations` is the one that matters to the page.
`ReplicasImplementView` and `ReplicasLeaveNothingOut` justify how `Journey` models
QueryService, by how far in the log a replica has come: what it shows is allowed
by `EventView`, which `AnalysisReadModel` implements, and whatever `EventView` may
show a user next, the replica reaches without showing anything else first. (TLC cannot take
`ReplicasAreViews` as a property, because the instance has a parameter.)

`SessionsProofs`. `IndInv` says who may be under way with what: a login in flight
belongs to a tab without a session unless two logins of it overlapped
(`LoginsAlone`), a live list call carries its tab's token (`ListsAskForSession`), a
call's token is one the tab had (`Remembered`), and two creations of one login that
both passed the lookup are `contested`. The lemmas `Stay`, `Enter` and `Navigate` say once
what a callback, a login and a change of page do to calls, and the actions cite
them.

`ToParquetProofs`. `Memory` relates the progress file to the spider's frame: what
is to come is what the frame does not mark, and the row yielded last is the first of
it; that row is accounted for before it is marked (`LastIsAccounted`), and of the rows to come
only the first was asked for (`OnlyFirstAsked`). `CrawlAccountsForAll` and
`ResumeRepeatsOne` follow. `PartsRemain` says that a part remains due while a
file remains to be handled, so that the last file reports the last one; that is
a fact about products of counts (`PartBeforeLast`, `LastPartReached`).

`SparkRepositoryProofs`. `RepositoryInvariance` proves `RepositoryInv`, whose core
`Intact` says, for an upload that no other overlaps, what its table, its copy and
its view hold at each of its steps, whatever detection scripts do and whatever
earlier failures left. `AloneUploadProceeds`, `AloneUploadStores` and
`RowsSurviveAloneUpload` follow.

Only model-checked: the liveness properties `EveryCommandSettles` and
`EventsAppear`, which are beyond the prover (fairness needs `ENABLED`), and the
counterexamples of the runs that expect one. Every invariant, action property and
refinement that a run checks has a theorem.

## 5. Where the code and its own words differ

The findings in `PROJECT.json` quote both sides. In short: a failed analysis is
recorded as Complete with result -1; a command the API answered 202 may be
dropped; a failed upload of a document to analyze is recorded as ready; uploads
that overlap lose rows that were reported as stored; a user without events gets
500 instead of an empty list; the list of source documents may lose elements, or fail
until a restart, after two subscriptions added to it at once; an analysis that exists may be answered with 404
while its events arrive; the list of documents ready for analysis contains some
that are not; the report endpoint looks analyses up under the wrong user;
creating an account that exists is answered with 500 and not with 400; an uploaded
document reaches its script as the name of a .NET type and not as its text; a
document that is similar to nothing makes the detection throw, and is recorded with
the -1 of a failure.

## 6. What is not modelled

Components with status `not_modelled` in `PROJECT.json`, each with its reason, and
of the modelled ones:

- PDF formatting and the mock of single sources: they keep no state.
- Deployment files, TLS, nginx, seed data and the exploratory notebook
  (`src/spark_notebooks/`), which no component runs. What the models take from
  the deployment is named where it is used: two replicas, restart policies, the
  seeded accounts.
- The load tests. Most Python files of the repository, by lines, are the *payload*
  these tests upload (`locust-performance-tests/locust/requests-data/files/`: copies
  of Django's sources). They never run, so there is nothing in them to model. The
  test that sends them (`locustfile.py`) and the script that collects them call the
  API as `Journey`'s other clients do.
- The scraper's middlewares and pipelines, which are Scrapy's templates and are not
  enabled; what a Python file contains, and how comments are stripped from it.
- A limit on how long a script runs: `PythonRunner` has none, and nothing promises
  that scripts end. Liveness assumes it.
- What two QueryService replicas answer one after the other: each keeps a cache of
  its own, and nothing in the code promises agreement.
- That a session whose token expired ends: `Sessions` checks safety only; its run is
  large, and liveness would need an instance of its own.
- Text similarity itself: a document has a score or none.

## 7. Plan

1. A session with an expired token ends once a list is asked for with it, in an
   instance of its own with fairness of the answers.
2. What of `EveryCommandSettles` and `EventsAppear` is safety, beyond
   `NoCommandIsStuck`: that every fair step of a run or a subscription brings it
   closer to its end.

The order follows the weight of what can go wrong.
