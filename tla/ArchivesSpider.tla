-------------------------- MODULE ArchivesSpider --------------------------
(***************************************************************************)
(* The spiders that collect the corpus: `projects` lists GitHub projects in *)
(* a CSV file, `archives` downloads the archive of every project listed and *)
(* keeps, in a copy of that file, which ones it has asked for.  Its         *)
(* operator stops it, kills it, and runs it again with or without           *)
(* `resume`, since one run asks for at most MaxArchives.                    *)
(*                                                                          *)
(* Scrapy takes requests one by one from the generator start_requests and   *)
(* calls parse for the answers, in one thread: a project is marked when the *)
(* generator is resumed, after its request was taken and usually before the *)
(* answer.  A project is its row in the list; rows that are equal are one   *)
(* (the clean-up script drops them, and Scrapy sends one request).          *)
(***************************************************************************)
EXTENDS Integers, FiniteSets

CONSTANTS
  LastRow,      \* bound: how many projects there are to find
  Searches,     \* the search URLs of the projects spider
  Found,        \* <<search, page>> -> the projects on that page
  MaxPages,
  MaxArchives,
  MaxInFlight,  \* bound: requests Scrapy has under way at once
  NameOf,       \* project -> the name of its archive, owner-repository.tar.gz
  Names,
  NoFile

Projects == 1 .. LastRow

ASSUME LastRowAssumption == LastRow \in Nat
ASSUME LimitAssumption == {MaxPages, MaxArchives, MaxInFlight} \subseteq Nat \ {0}
ASSUME FoundAssumption == Found \in [Searches \X (1 .. MaxPages) -> SUBSET Projects]
ASSUME NameAssumption == NameOf \in [Projects -> Names] /\ IsFiniteSet(Names)

\* An archive on disk: whose it is, and whether all of it was written.
Archive == [of : Projects, whole : BOOLEAN]
ASSUME NoFileAssumption == NoFile \notin Archive

VARIABLES
  listed,    \* the projects in the CSV file
  progress,  \* the copy in FILES_STORE: its rows, and those marked archive-scraped
  archive,   \* name -> the archive stored under it
  status,    \* what the archives spider does
  frame,     \* its data frame: the rows it read and did not drop
  marked,    \* the rows it marked since it started
  at,        \* the row it yielded last; past every row once the generator ended
  inflight,  \* requests not answered yet
  writing,   \* the project whose archive is being written, or 0
  copied,    \* history: the rows the progress file began with
  asked,     \* history: the rows asked for since then
  lost       \* history: the rows a refusal, a kill or a namesake excuses

spider == <<status, frame, marked, at, inflight, writing>>
crawlVars == <<listed, progress, archive, status, frame, marked, at, inflight,
               writing, copied, asked, lost>>

AtEnd == LastRow + 1
Progress == [there : BOOLEAN, rows : SUBSET Projects, done : SUBSET Projects]

CrawlTypeOK ==
  /\ listed \subseteq Projects
  /\ progress \in Progress
  /\ archive \in [Names -> Archive \cup {NoFile}]
  /\ status \in {"off", "running", "closing"}
  /\ frame \subseteq Projects
  /\ marked \subseteq Projects
  /\ at \in 0 .. AtEnd
  /\ inflight \subseteq Projects
  /\ writing \in 0 .. LastRow
  /\ copied \subseteq Projects
  /\ asked \subseteq Projects
  /\ lost \subseteq Projects

CrawlInit ==
  /\ listed = {}
  /\ progress = [there |-> FALSE, rows |-> {}, done |-> {}]
  /\ archive = [n \in Names |-> NoFile]
  /\ status = "off"
  /\ frame = {}
  /\ marked = {}
  /\ at = 0
  /\ inflight = {}
  /\ writing = 0
  /\ copied = {}
  /\ asked = {}
  /\ lost = {}

\* A progress file with these rows, of which `done` are marked.
File(rows, done) == [there |-> TRUE, rows |-> rows, done |-> done \cap rows]

ToCome == progress.rows \ progress.done
Stored(p) == archive[NameOf[p]] = [of |-> p, whole |-> TRUE]
Accounted(p) == p \in inflight \/ Stored(p) \/ p \in lost

\* The other projects whose archive is replaced by one of p's name.
Namesakes(p) == {q \in Projects : q # p /\ NameOf[q] = NameOf[p]}

---------------------------------------------------------------------------
\* The projects spider

\* A page of a search is answered and its items are exported; a page that is
\* refused adds nothing, and runs of the spider add up.
ParsePage(search, page) ==
  /\ page < MaxPages
  /\ listed' = listed \cup Found[<<search, page>>]
  /\ UNCHANGED <<progress, archive, copied, asked, lost, spider>>

---------------------------------------------------------------------------
\* The archives spider

Load(rows) ==
  /\ status = "off"
  /\ status' = "running"
  /\ frame' = rows
  /\ UNCHANGED <<listed, archive, marked, at, inflight, writing>>

Crawl ==
  /\ Load(listed)
  /\ progress' = File(listed, {})
  /\ copied' = listed
  /\ asked' = {}
  /\ lost' = {}

\* A mutant: the rows scraped before are not removed.
ResumeAll ==
  /\ progress.there
  /\ Load(progress.rows)
  /\ UNCHANGED <<progress, copied, asked, lost>>

\* Without a progress file, reading it raises and the spider ends.
Resume ==
  /\ progress.there
  /\ Load(ToCome)
  /\ UNCHANGED <<progress, copied, asked, lost>>

MarkedNow == IF at = 0 THEN marked ELSE marked \cup {at}
Rest == {p \in frame : p > at}
Exhausted == Cardinality(MarkedNow) = MaxArchives \/ Rest = {}

\* The one thread is not busy writing an archive.
Idle == writing = 0

\* A mutant: the generator is resumed after its end.
TakesForEver ==
  /\ Idle
  /\ status = "running"
  /\ Cardinality(inflight) < MaxInFlight

TakesRequests ==
  /\ Idle
  /\ status = "running"
  /\ at # AtEnd
  /\ Cardinality(inflight) < MaxInFlight

Yields(p) ==
  /\ p \in Rest
  /\ \A q \in Rest : p <= q
  /\ at' = p
  /\ inflight' = inflight \cup {p}
  /\ asked' = asked \cup {p}

Ends ==
  /\ at' = AtEnd
  /\ UNCHANGED <<inflight, asked>>

\* A mutant: a row is marked when its request is made.
MarkFirst ==
  /\ TakesRequests
  /\ IF Exhausted THEN Ends ELSE \E p \in Rest : Yields(p)
  /\ marked' = MarkedNow \cup (inflight' \ inflight)
  /\ progress' = File(frame, marked')
  /\ UNCHANGED <<listed, archive, status, frame, writing, copied, lost>>

\* The generator is resumed: it marks the row it yielded last, saves the
\* frame, and yields the next row unless it has reached a limit.
NextRequest ==
  /\ TakesRequests
  /\ marked' = MarkedNow
  /\ progress' = IF at = 0 THEN progress ELSE File(frame, MarkedNow)
  /\ IF Exhausted THEN Ends ELSE \E p \in Rest : Yields(p)
  /\ UNCHANGED <<listed, archive, status, frame, writing, copied, lost>>

\* parse opens the archive's file, which empties it, whatever was there ...
ParseArchive(p) ==
  /\ p \in inflight
  /\ Idle
  /\ writing' = p
  /\ archive' = [archive EXCEPT ![NameOf[p]] = [of |-> p, whole |-> FALSE]]
  /\ lost' = lost \cup Namesakes(p)
  /\ UNCHANGED <<listed, progress, status, frame, marked, at, inflight, copied, asked>>

\* ... and writes the answer to it.
ArchiveWritten(p) ==
  /\ writing = p
  /\ writing' = 0
  /\ inflight' = inflight \ {p}
  /\ archive' = [archive EXCEPT ![NameOf[p]] = [of |-> p, whole |-> TRUE]]
  /\ lost' = lost \ {p}
  /\ UNCHANGED <<listed, progress, status, frame, marked, at, copied, asked>>

\* Any status but 200, or no answer after Scrapy's retries, or a redirect that
\* arrives when Scrapy is closing: nothing is stored.
Refused(p) ==
  /\ p \in inflight
  /\ Idle
  /\ inflight' = inflight \ {p}
  /\ lost' = lost \cup {p}
  /\ UNCHANGED <<listed, progress, archive, status, frame, marked, at, writing, copied, asked>>

\* The operator interrupts the spider: it takes no more requests and waits
\* for the answers to those under way.
Interrupt ==
  /\ status = "running"
  /\ status' = "closing"
  /\ UNCHANGED <<listed, progress, archive, frame, marked, at, inflight, writing, copied, asked, lost>>

\* The process ends, and with it all that is not on disk.
Gone ==
  /\ status' = "off"
  /\ frame' = {}
  /\ marked' = {}
  /\ at' = 0
  /\ inflight' = {}
  /\ writing' = 0

Close ==
  /\ status = "closing" \/ (status = "running" /\ at = AtEnd)
  /\ inflight = {}
  /\ Gone
  /\ UNCHANGED <<listed, progress, archive, copied, asked, lost>>

Killed ==
  /\ status # "off"
  /\ Gone
  /\ UNCHANGED <<listed, copied, asked>>

\* The requests under way are lost, except the one whose row is not marked yet.
Kill ==
  /\ Killed
  /\ lost' = lost \cup (inflight \ {at})
  /\ UNCHANGED <<progress, archive>>

\* Saving the frame truncates the file and writes its rows in order.
KillWhileSaving(last) ==
  /\ TakesRequests
  /\ at # 0
  /\ Killed
  /\ progress' = File({p \in frame : p <= last}, MarkedNow)
  /\ lost' = lost \cup inflight \cup {p \in frame : p > last}
  /\ UNCHANGED archive

CrawlNext ==
  \/ \E s \in Searches, page \in 1 .. MaxPages : ParsePage(s, page)
  \/ Crawl
  \/ Resume
  \/ NextRequest
  \/ \E p \in Projects : ParseArchive(p) \/ ArchiveWritten(p) \/ Refused(p)
  \/ Interrupt
  \/ Close
  \/ Kill
  \/ \E last \in 0 .. LastRow : KillWhileSaving(last)

---------------------------------------------------------------------------
\* Correctness

\* Every project the progress file began with is still to come, asked for at
\* this moment, stored, or excused: by a refusal, a namesake, or a kill while
\* its request was under way or the file was being written.  Runs that end or
\* are interrupted, and runs that resume them, lose no other.
NothingElseLost ==
  \A p \in copied : p \in ToCome \/ Accounted(p)

\* A resumed spider asks for no row that is marked, and asks a second time
\* only for its first row: the one whose request was taken, and which was not
\* marked, when the spider before it ended.
RepeatStep ==
  \A p \in inflight' \ inflight : p \notin progress.done /\ (p \in asked => at = 0)

RepeatsOnlyTheFirst == [][RepeatStep]_crawlVars

---------------------------------------------------------------------------
\* The inductive invariant of the safety properties

Yielded == at \notin {0, AtEnd}

\* What is to come is what the frame does not mark, and the row yielded last
\* is the first of that.
Memory ==
  /\ status = "off" => /\ frame = {} /\ marked = {} /\ inflight = {}
                       /\ at = 0 /\ writing = 0
  /\ status # "off" => ToCome = frame \ marked /\ progress.there
  /\ at = 0 => marked = {} /\ inflight = {}
  /\ Yielded => at \in frame /\ marked = {p \in frame : p < at}
  /\ inflight \subseteq frame
  /\ writing # 0 => writing \in inflight
  /\ copied # {} => progress.there

\* The row yielded last is accounted for before it is marked.
LastIsAccounted == Yielded => Accounted(at)

\* Of the rows that are to come, only the first was asked for.
OnlyFirstAsked == \A p \in asked \cap ToCome : \A q \in ToCome : p <= q

ArchivesNamed ==
  /\ \A n \in Names : archive[n] # NoFile => NameOf[archive[n].of] = n
  /\ writing # 0 => archive[NameOf[writing]] = [of |-> writing, whole |-> FALSE]

CrawlInv ==
  CrawlTypeOK /\ Memory /\ LastIsAccounted /\ OnlyFirstAsked /\ NothingElseLost /\ ArchivesNamed
===========================================================================
