-------------------------- MODULE ToParquetProofs --------------------------
(***************************************************************************)
(* Proofs about the spiders and to_parquet.py, for any list of projects,    *)
(* any limits and any number of archives.                                   *)
(***************************************************************************)
EXTENDS ToParquet, FiniteSetTheorems, TLAPS

---------------------------------------------------------------------------
\* The spiders

\* The file a save leaves.
LEMMA FileFacts ==
  ASSUME NEW set \in SUBSET Projects, NEW done
  PROVE  /\ File(set, done) \in Progress
         /\ File(set, done).there
         /\ File(set, done).rows \ File(set, done).done = set \ done
BY DEF File, Progress

\* Nothing is listed and no spider runs at first.
LEMMA CrawlBegins == CrawlInit => CrawlInv
BY LastRowAssumption, SMT
   DEF CrawlInit, CrawlInv, CrawlTypeOK, Memory, LastIsAccounted, OnlyFirstAsked, NothingElseLost,
       ArchivesNamed, Yielded, ToCome, Progress, AtEnd, Projects

\* The row a request is made for.
LEMMA YieldedRow ==
  ASSUME CrawlInv, TakesRequests, NEW p, Yields(p)
  PROVE  /\ p \in frame /\ p \in Projects /\ p > at /\ p \notin {0, AtEnd}
         /\ MarkedNow = {q \in frame : q < p}
<1> USE LastRowAssumption
<1>1. p \in frame /\ p \in Projects /\ p > at /\ \A q \in frame : q > at => p <= q
  BY DEF Yields, Rest, CrawlInv, CrawlTypeOK
<1>2. p \in 1 .. LastRow /\ at \in 0 .. LastRow /\ \A q \in frame : q \in Int /\ q > 0
  BY <1>1 DEF CrawlInv, CrawlTypeOK, Projects, TakesRequests, AtEnd
<1>3. MarkedNow = {q \in frame : q < p}
  <2>1. CASE at = 0
    <3>1. MarkedNow = {}
      BY <2>1 DEF MarkedNow, CrawlInv, Memory
    <3>2. \A q \in frame : ~(q < p)
      BY <1>1, <1>2, <2>1
    <3> QED BY <3>1, <3>2
  <2>2. CASE at # 0
    <3>1. at \in frame /\ MarkedNow = {q \in frame : q < at} \cup {at}
      BY <2>2 DEF MarkedNow, CrawlInv, Memory, Yielded, TakesRequests
    <3>2. \A q \in frame : q < p <=> q < at \/ q = at
      BY <1>1, <1>2
    <3> QED BY <3>1, <3>2
  <2> QED BY <2>1, <2>2
<1> QED BY <1>1, <1>2, <1>3 DEF AtEnd

\* Every step of the spiders keeps the types.
LEMMA CrawlKeepsTypes == CrawlInv /\ CrawlNext => CrawlTypeOK'
<1> SUFFICES ASSUME CrawlInv, CrawlNext PROVE CrawlTypeOK'
  OBVIOUS
<1> USE DEF CrawlTypeOK, spider
<1>0. CrawlTypeOK
  BY DEF CrawlInv
<1>r. /\ \A p \in Projects : p \in 0 .. AtEnd /\ p \in 0 .. LastRow
      /\ {0, AtEnd} \subseteq 0 .. AtEnd /\ 0 \in 0 .. LastRow
      /\ \A i \in 0 .. AtEnd : i \in {0, AtEnd} \/ i \in Projects
  BY LastRowAssumption DEF AtEnd, Projects
<1>a. \A p \in Projects : \A b \in BOOLEAN :
        [archive EXCEPT ![NameOf[p]] = [of |-> p, whole |-> b]] \in [Names -> Archive \cup {NoFile}]
  BY <1>0, NameAssumption DEF Archive
<1>1. ASSUME NEW s \in Searches, NEW page \in 1 .. MaxPages, ParsePage(s, page)
      PROVE  CrawlTypeOK'
  BY <1>0, <1>1, FoundAssumption DEF ParsePage
<1>2. CASE Crawl
  BY <1>0, <1>2, FileFacts DEF Crawl, Load
<1>3. CASE Resume
  BY <1>0, <1>3 DEF Resume, Load, ToCome, Progress
<1>4. CASE NextRequest
  <2>1. MarkedNow \subseteq Projects /\ progress' \in Progress
    BY <1>0, <1>r, <1>4, FileFacts DEF NextRequest, MarkedNow, TakesRequests
  <2>2. CASE Exhausted
    BY <1>0, <1>r, <1>4, <2>1, <2>2 DEF NextRequest, Ends
  <2>3. CASE ~Exhausted
    BY <1>0, <1>r, <1>4, <2>1, <2>3 DEF NextRequest, Yields, Rest
  <2> QED BY <2>2, <2>3
<1>5. ASSUME NEW p \in Projects, ParseArchive(p)
      PROVE  CrawlTypeOK'
  BY <1>0, <1>r, <1>a, <1>5 DEF ParseArchive, Namesakes
<1>6. ASSUME NEW p \in Projects, ArchiveWritten(p)
      PROVE  CrawlTypeOK'
  BY <1>0, <1>r, <1>a, <1>6 DEF ArchiveWritten
<1>7. ASSUME NEW p \in Projects, Refused(p)
      PROVE  CrawlTypeOK'
  BY <1>0, <1>7 DEF Refused
<1>8. CASE Interrupt
  BY <1>0, <1>8 DEF Interrupt
<1>9. CASE Close
  BY <1>0, <1>r, <1>9 DEF Close, Gone
<1>10. CASE Kill
  BY <1>0, <1>r, <1>10 DEF Kill, Killed, Gone
<1>11. ASSUME NEW last \in 0 .. LastRow, KillWhileSaving(last)
       PROVE  CrawlTypeOK'
  <2>1. progress' \in Progress
    BY <1>0, <1>11, FileFacts DEF KillWhileSaving
  <2> QED BY <1>0, <1>r, <1>11, <2>1 DEF KillWhileSaving, Killed, Gone
<1> QED BY <1>1, <1>2, <1>3, <1>4, <1>5, <1>6, <1>7, <1>8, <1>9, <1>10, <1>11 DEF CrawlNext

\* Every step keeps what the spider remembers in line with the file it saves.
LEMMA CrawlKeepsMemory == CrawlInv /\ CrawlNext => Memory'
<1> SUFFICES ASSUME CrawlInv, CrawlNext PROVE Memory'
  OBVIOUS
<1> USE DEF Memory, Yielded, spider
<1>r. 0 # AtEnd
  BY LastRowAssumption DEF AtEnd
<1>0. CrawlTypeOK /\ Memory
  BY DEF CrawlInv
<1>1. ASSUME NEW s \in Searches, NEW page \in 1 .. MaxPages, ParsePage(s, page)
      PROVE  Memory'
  BY <1>0, <1>1 DEF ParsePage, ToCome
<1>2. CASE Crawl
  <2>1. ToCome' = listed \ {} /\ progress'.there
    BY <1>0, <1>2, FileFacts DEF Crawl, ToCome, CrawlTypeOK
  <2> QED BY <1>0, <1>2, <2>1 DEF Crawl, Load
<1>3. CASE Resume
  BY <1>0, <1>3 DEF Resume, Load, ToCome
<1>4. CASE NextRequest
  <2>1. ToCome' = frame' \ marked' /\ progress'.there
    BY <1>0, <1>4, FileFacts DEF NextRequest, TakesRequests, MarkedNow, ToCome, CrawlTypeOK
  <2>2. CASE Exhausted
    BY <1>0, <1>r, <1>4, <2>1, <2>2 DEF NextRequest, TakesRequests, Ends, Idle
  <2>3. CASE ~Exhausted
    <3>1. PICK p \in Rest : Yields(p)
      BY <1>4, <2>3 DEF NextRequest
    <3>2. /\ p \in frame /\ p \notin {0, AtEnd}
          /\ marked' = {q \in frame' : q < p}
      BY <1>4, <3>1, YieldedRow DEF NextRequest
    <3> QED BY <1>0, <1>4, <2>1, <3>1, <3>2 DEF NextRequest, TakesRequests, Yields, Idle
  <2> QED BY <2>2, <2>3
<1>5. ASSUME NEW p \in Projects, ParseArchive(p)
      PROVE  Memory'
  BY <1>0, <1>5 DEF ParseArchive, ToCome
<1>6. ASSUME NEW p \in Projects, ArchiveWritten(p)
      PROVE  Memory'
  BY <1>0, <1>6 DEF ArchiveWritten, ToCome
<1>7. ASSUME NEW p \in Projects, Refused(p)
      PROVE  Memory'
  BY <1>0, <1>7 DEF Refused, ToCome, Idle
<1>8. CASE Interrupt
  BY <1>0, <1>8 DEF Interrupt, ToCome
<1>9. CASE Close
  BY <1>0, <1>9 DEF Close, Gone
<1>10. CASE Kill
  BY <1>0, <1>10 DEF Kill, Killed, Gone
<1>11. ASSUME NEW last \in 0 .. LastRow, KillWhileSaving(last)
       PROVE  Memory'
  <2>1. progress'.there
    BY <1>0, <1>11, FileFacts DEF KillWhileSaving, CrawlTypeOK
  <2> QED BY <1>0, <1>11, <2>1 DEF KillWhileSaving, Killed, Gone
<1> QED BY <1>1, <1>2, <1>3, <1>4, <1>5, <1>6, <1>7, <1>8, <1>9, <1>10, <1>11 DEF CrawlNext

\* What each way of ending or going on leaves to come.
LEMMA ToComeNext ==
  ASSUME CrawlInv, NextRequest
  PROVE  /\ ToCome' = frame \ MarkedNow
         /\ at = 0 => ToCome' = ToCome
         /\ at # 0 => ToCome' = ToCome \ {at}
<1> USE DEF CrawlInv, CrawlTypeOK, Memory, NextRequest, TakesRequests
<1>1. CASE at = 0
  BY <1>1 DEF ToCome, MarkedNow
<1>2. CASE at # 0
  BY <1>2, FileFacts DEF ToCome, MarkedNow
<1> QED BY <1>1, <1>2

\* What an archive that is opened or written does to the other projects.
LEMMA ArchiveStep ==
  ASSUME CrawlInv, NEW p \in Projects, ParseArchive(p) \/ ArchiveWritten(p)
  PROVE  ArchivesNamed' /\ \A q \in Projects : Accounted(q) => Accounted(q)'
<1> USE NameAssumption, NoFileAssumption DEF CrawlInv, CrawlTypeOK
<1>1. PICK b \in BOOLEAN : archive' = [archive EXCEPT ![NameOf[p]] = [of |-> p, whole |-> b]]
  BY DEF ParseArchive, ArchiveWritten
<1>2. /\ NameOf[p] \in Names
      /\ archive'[NameOf[p]] = [of |-> p, whole |-> b]
      /\ \A n \in Names \ {NameOf[p]} : archive'[n] = archive[n]
  BY <1>1
<1>3. ArchivesNamed'
  <2>1. CASE ParseArchive(p)
    <3>1. archive'[NameOf[p]] = [of |-> p, whole |-> FALSE] /\ writing' = p
      BY <1>2, <2>1 DEF ParseArchive
    <3> QED BY <1>2, <3>1 DEF ArchivesNamed
  <2>2. CASE ArchiveWritten(p)
    BY <1>2, <2>2 DEF ArchiveWritten, ArchivesNamed
  <2> QED BY <2>1, <2>2
<1>4. ASSUME NEW q \in Projects, Accounted(q)
      PROVE  Accounted(q)'
  <2>1. CASE q = p
    <3>1. CASE ParseArchive(p)
      BY <2>1, <3>1 DEF ParseArchive, Accounted
    <3>2. CASE ArchiveWritten(p)
      <4>1. archive'[NameOf[p]] = [of |-> p, whole |-> TRUE]
        BY <1>2, <3>2 DEF ArchiveWritten
      <4> QED BY <2>1, <4>1 DEF Accounted, Stored
    <3> QED BY <3>1, <3>2
  <2>2. CASE q # p /\ NameOf[q] # NameOf[p]
    <3>1. archive'[NameOf[q]] = archive[NameOf[q]]
      BY <1>2, <2>2
    <3> QED BY <1>4, <2>2, <3>1 DEF Accounted, Stored, ParseArchive, ArchiveWritten
  <2>3. CASE q # p /\ NameOf[q] = NameOf[p]
    <3>1. CASE ParseArchive(p)
      BY <2>3, <3>1 DEF ParseArchive, Accounted, Namesakes
    <3>2. CASE ArchiveWritten(p)
      <4>1. writing = p /\ p # 0
        BY <3>2, LastRowAssumption DEF ArchiveWritten, Projects
      <4>2. ~Stored(q)
        BY <2>3, <4>1 DEF ArchivesNamed, Stored
      <4> QED BY <1>4, <2>3, <3>2, <4>2 DEF Accounted, ArchiveWritten
    <3> QED BY <3>1, <3>2
  <2> QED BY <2>1, <2>2, <2>3
<1> QED BY <1>3, <1>4

\* A project that is accounted for stays so, except that a killed spider has
\* forgotten its request for the row it yielded last.
LEMMA AccountedStays ==
  ASSUME CrawlInv, CrawlNext, ~Crawl
  PROVE  /\ ArchivesNamed'
         /\ \A q \in Projects : Accounted(q) => Accounted(q)' \/ (Kill /\ q = at)
<1>1. CASE \E p \in Projects : ParseArchive(p) \/ ArchiveWritten(p)
  BY <1>1, ArchiveStep
<1>2. CASE ~\E p \in Projects : ParseArchive(p) \/ ArchiveWritten(p)
  <2>1. archive' = archive /\ (writing' = writing \/ writing' = 0)
    BY <1>2 DEF CrawlNext, ParsePage, spider, Crawl, Resume, Load, NextRequest, Refused,
                Interrupt, Close, Gone, Kill, KillWhileSaving, Killed
  <2>2. ArchivesNamed'
    BY <2>1 DEF CrawlInv, ArchivesNamed
  <2>3. ASSUME NEW q \in Projects, Accounted(q), ~(Kill /\ q = at)
        PROVE  Accounted(q)'
    BY <1>2, <2>1, <2>3
       DEF CrawlNext, ParsePage, spider, Crawl, Resume, Load, NextRequest, Ends, Yields, Refused,
           Interrupt, Close, Gone, Kill, KillWhileSaving, Killed, Accounted, Stored
  <2> QED BY <2>2, <2>3
<1> QED BY <1>1, <1>2

\* The row yielded last stays accounted for until it is marked.
LEMMA CrawlKeepsLast == CrawlInv /\ CrawlNext => LastIsAccounted'
<1> SUFFICES ASSUME CrawlInv, CrawlNext, Yielded' PROVE Accounted(at)'
  BY DEF LastIsAccounted
<1>1. CASE at' = at
  <2>1. at \in Projects /\ Accounted(at) /\ ~Kill /\ ~Crawl
    BY <1>1 DEF CrawlInv, CrawlTypeOK, Memory, LastIsAccounted, Yielded, Kill, Killed, Gone,
                Crawl, Load
  <2> QED BY <1>1, <2>1, AccountedStays DEF Accounted, Stored
<1>2. CASE at' # at
  BY <1>2 DEF CrawlNext, ParsePage, spider, Crawl, Resume, Load, NextRequest, Ends, Yields,
              ParseArchive, ArchiveWritten, Refused, Interrupt, Close, Kill, KillWhileSaving,
              Killed, Gone, Yielded, Accounted
<1> QED BY <1>1, <1>2

\* Every step keeps the projects of the file accounted for.
LEMMA CrawlLosesNothingElse == CrawlInv /\ CrawlNext => NothingElseLost'
<1> SUFFICES ASSUME CrawlInv, CrawlNext, NEW p \in copied', p \notin ToCome' PROVE Accounted(p)'
  BY DEF NothingElseLost
<1> USE DEF CrawlInv
<1>1. CASE Crawl
  <2>1. ToCome' = listed \ {} /\ copied' = listed
    BY <1>1, FileFacts DEF Crawl, ToCome, CrawlTypeOK
  <2> QED BY <2>1
<1>2. CASE ~Crawl
  <2>1. copied' = copied /\ p \in Projects
    BY <1>2 DEF CrawlNext, ParsePage, spider, Resume, Load, NextRequest, ParseArchive,
                ArchiveWritten, Refused, Interrupt, Close, Kill, KillWhileSaving, Killed,
                CrawlTypeOK
  <2>2. CASE Accounted(p) /\ ~(Kill /\ p = at)
    BY <1>2, <2>1, <2>2, AccountedStays
  <2>3. CASE Kill /\ p = at
    <3>1. Yielded
      BY <2>1, <2>3, LastRowAssumption DEF Yielded, Projects, AtEnd
    <3>2. p \in ToCome
      <4>1. at \in frame /\ ~(at < at) /\ status # "off"
        BY <2>1, <2>3, <3>1 DEF Memory, Projects, Kill, Killed
      <4> QED BY <2>3, <3>1, <4>1 DEF Memory
    <3> QED BY <2>3, <3>2 DEF Kill, ToCome
  <2>4. CASE ~Accounted(p)
    <3>1. p \in ToCome
      BY <2>1, <2>4 DEF NothingElseLost
    <3>2. CASE NextRequest
      <4>1. at # 0 /\ p = at
        BY <3>1, <3>2, ToComeNext
      <4> QED BY <2>4, <3>2, <4>1 DEF LastIsAccounted, Yielded, NextRequest, TakesRequests
    <3>3. ASSUME NEW last \in 0 .. LastRow, KillWhileSaving(last)
          PROVE  Accounted(p)'
      <4>1. /\ p \in frame /\ p \notin marked /\ at # 0 /\ at # AtEnd
            /\ ToCome' = {q \in frame : q <= last} \ MarkedNow
            /\ lost' = lost \cup inflight \cup {q \in frame : q > last}
        BY <3>1, <3>3, FileFacts
           DEF KillWhileSaving, Killed, TakesRequests, Memory, ToCome, CrawlTypeOK
      <4>2. p \in 0 .. LastRow
        BY <2>1 DEF Projects
      <4>3. CASE p > last
        BY <4>1, <4>3 DEF Accounted
      <4>4. CASE p <= last
        <5>1. p = at
          BY <4>1, <4>4 DEF MarkedNow
        <5> QED BY <2>4, <4>1, <5>1 DEF LastIsAccounted, Yielded
      <4> QED BY <4>2, <4>3, <4>4
    <3>4. CASE ~NextRequest /\ ~\E last \in 0 .. LastRow : KillWhileSaving(last)
      <4>1. ToCome' = ToCome
        BY <1>2, <3>4 DEF CrawlNext, ParsePage, spider, Resume, Load, ParseArchive,
              ArchiveWritten, Refused, Interrupt, Close, Kill, Killed, ToCome
      <4> QED BY <3>1, <4>1
    <3> QED BY <3>2, <3>3, <3>4
  <2> QED BY <2>2, <2>3, <2>4
<1> QED BY <1>1, <1>2

\* Every step keeps the first row to come the only one asked for before.
LEMMA CrawlKeepsOrder == CrawlInv /\ CrawlNext => OnlyFirstAsked' /\ RepeatStep
<1> SUFFICES ASSUME CrawlInv, CrawlNext PROVE OnlyFirstAsked' /\ RepeatStep
  OBVIOUS
<1> USE DEF CrawlInv
<1>1. CASE NextRequest /\ ~Exhausted
  <2>1. PICK p \in Rest : Yields(p)
    BY <1>1 DEF NextRequest
  <2>2. /\ p \in frame /\ p \in Projects /\ p > at
        /\ MarkedNow = {q \in frame : q < p}
    BY <1>1, <2>1, YieldedRow DEF NextRequest
  <2>3. p \in Int /\ \A q \in frame : q \in Int
    BY <2>2 DEF CrawlTypeOK, Projects
  <2>4. ToCome' = {q \in frame : p <= q}
    <3>1. ToCome' = frame \ {q \in frame : q < p}
      BY <1>1, <2>2, ToComeNext
    <3>2. \A q \in frame : ~(q < p) <=> p <= q
      BY <2>3
    <3> QED BY <3>1, <3>2
  <2>5. \A q \in asked \cap ToCome' : at = 0 /\ q = p
    <3> SUFFICES ASSUME NEW q \in asked \cap ToCome' PROVE at = 0 /\ q = p
      OBVIOUS
    <3>1. q \in ToCome /\ p \in ToCome'
      BY <1>1, <2>2, <2>3, <2>4, ToComeNext DEF Projects
    <3>2. q <= p
      BY <1>1, <3>1, ToComeNext DEF OnlyFirstAsked
    <3>3. CASE at # 0
      <4>1. at \in ToCome
        BY <1>1, <3>3 DEF Memory, Yielded, NextRequest, TakesRequests, CrawlTypeOK
      <4> QED BY <2>2, <2>4, <3>1, <4>1 DEF OnlyFirstAsked, CrawlTypeOK, Projects
    <3>4. q \in Int /\ p <= q
      BY <2>3, <2>4
    <3>5. q = p
      BY <2>3, <3>2, <3>4
    <3> QED BY <3>3, <3>5
  <2>6. p \notin progress.done
    <3>1. p \notin MarkedNow /\ marked \subseteq MarkedNow
      BY <2>2, <2>3 DEF MarkedNow
    <3>2. p \in ToCome
      BY <1>1, <2>2, <3>1 DEF Memory, NextRequest, TakesRequests
    <3> QED BY <3>2 DEF ToCome
  <2>7. asked' = asked \cup {p} /\ inflight' = inflight \cup {p} /\ p \in ToCome'
    BY <2>1, <2>2, <2>3, <2>4 DEF Yields
  <2>8. OnlyFirstAsked'
    <3> SUFFICES ASSUME NEW q \in (asked \cap ToCome)' PROVE \A r \in ToCome' : q <= r
      BY DEF OnlyFirstAsked
    <3>1. q = p
      BY <2>5, <2>7
    <3> QED BY <2>4, <3>1
  <2> QED BY <2>5, <2>6, <2>7, <2>8 DEF RepeatStep
<1>2. CASE ~(NextRequest /\ ~Exhausted)
  <2>1. inflight' \subseteq inflight /\ (asked' = asked \/ asked' = {})
    BY <1>2 DEF CrawlNext, ParsePage, spider, Crawl, Resume, Load, NextRequest, Ends, ParseArchive,
                ArchiveWritten, Refused, Interrupt, Close, Gone, Kill, KillWhileSaving, Killed
  <2>2. CASE ToCome' \subseteq ToCome
    BY <2>1, <2>2 DEF OnlyFirstAsked, RepeatStep
  <2>3. CASE Crawl
    BY <2>1, <2>3 DEF Crawl, OnlyFirstAsked, RepeatStep
  <2>4. CASE NextRequest
    BY <2>1, <2>2, <2>4, ToComeNext
  <2>5. ASSUME NEW last \in 0 .. LastRow, KillWhileSaving(last)
        PROVE  ToCome' \subseteq ToCome
    <3>1. ToCome' = {q \in frame : q <= last} \ MarkedNow
      BY <2>5, FileFacts DEF KillWhileSaving, ToCome, CrawlTypeOK
    <3> QED BY <2>5, <3>1 DEF KillWhileSaving, TakesRequests, MarkedNow, Memory
  <2>6. CASE ~Crawl /\ ~NextRequest /\ ~\E last \in 0 .. LastRow : KillWhileSaving(last)
    BY <2>2, <2>6 DEF CrawlNext, ParsePage, spider, Resume, Load, ParseArchive,
          ArchiveWritten, Refused, Interrupt, Close, Kill, Killed, ToCome
  <2> QED BY <2>2, <2>3, <2>4, <2>5, <2>6
<1> QED BY <1>1, <1>2

\* The spiders preserve their invariant.
THEOREM SpidersInvariance == CrawlInv /\ [CrawlNext]_crawlVars => CrawlInv'
<1> SUFFICES ASSUME CrawlInv, [CrawlNext]_crawlVars PROVE CrawlInv'
  OBVIOUS
<1>1. CASE CrawlNext
  <2>1. ArchivesNamed'
    BY <1>1, AccountedStays DEF CrawlInv, Crawl, Load, ArchivesNamed
  <2> QED BY <1>1, <2>1, CrawlKeepsTypes, CrawlKeepsMemory, CrawlKeepsLast, CrawlKeepsOrder,
             CrawlLosesNothingElse DEF CrawlInv
<1>2. CASE UNCHANGED crawlVars
  BY <1>2 DEF crawlVars, CrawlInv, CrawlTypeOK, Memory, LastIsAccounted, OnlyFirstAsked,
              NothingElseLost, ArchivesNamed, Yielded, Accounted, Stored, ToCome
<1> QED BY <1>1, <1>2

---------------------------------------------------------------------------
\* The conversion

\* Files only come.
LEMMA ListingGrows == CrawlInv /\ [CrawlNext]_crawlVars => Listing \subseteq Listing'
<1> SUFFICES ASSUME CrawlInv, [CrawlNext]_crawlVars PROVE Listing \subseteq Listing'
  OBVIOUS
<1>1. progress.there => progress'.there
  <2>1. ASSUME NEW some \in SUBSET Projects, NEW marks, progress' = File(some, marks)
        PROVE  progress'.there
    BY <2>1, FileFacts
  <2>2. CASE progress' = progress
    BY <2>2
  <2>3. CASE Crawl \/ NextRequest \/ \E last \in 0 .. LastRow : KillWhileSaving(last)
    <3>1. listed \subseteq Projects /\ \A last : {p \in frame : p <= last} \subseteq Projects
      BY DEF CrawlInv, CrawlTypeOK
    <3> QED BY <2>1, <2>3, <3>1
         DEF Crawl, NextRequest, KillWhileSaving, CrawlInv, CrawlTypeOK
  <2> QED BY <2>2, <2>3 DEF crawlVars, CrawlNext, ParsePage, Resume, ParseArchive, ArchiveWritten,
         Refused, Interrupt, Close, Kill
<1>2. \A n \in Names : archive[n] # NoFile => archive'[n] # NoFile
  <2>1. ASSUME NEW p \in Projects, NEW b \in BOOLEAN
        PROVE  [of |-> p, whole |-> b] # NoFile
    BY NoFileAssumption DEF Archive
  <2> QED BY <2>1 DEF crawlVars, CrawlInv, CrawlTypeOK, CrawlNext, ParsePage, Crawl, Resume, Load,
         NextRequest, ParseArchive, ArchiveWritten, Refused, Interrupt, Close, Kill,
         KillWhileSaving, Killed
<1> QED BY <1>1, <1>2 DEF Listing

\* If fewer files are done than there are, a part that is reached is not the last.
LEMMA PartBeforeLast ==
  ASSUME NEW done \in Nat, NEW total \in Nat, NEW part \in Nat, NEW steps \in Nat \ {0},
         done < total, done * steps >= part * total
  PROVE  part < steps
<1> SUFFICES ASSUME part >= steps PROVE FALSE
  OBVIOUS
<1>1. part * total >= steps * total
  BY SMT
<1>2. steps * total > steps * done
  BY SMT
<1>3. steps * done = done * steps
  BY SMT
<1>4. part * total \in Int /\ steps * total \in Int /\ steps * done \in Int /\ done * steps \in Int
  BY SMT
<1> QED BY <1>1, <1>2, <1>3, <1>4

\* When all files are done, every part that remains is reached.
LEMMA LastPartReached ==
  ASSUME NEW total \in Nat \ {0}, NEW part \in Nat, NEW steps \in Nat \ {0}, part <= steps
  PROVE  total * steps >= part * total /\ (part # steps => total * steps > part * total)
<1>1. total * steps - part * total = total * (steps - part)
  BY SMT
<1>2. steps - part \in Nat /\ (part # steps => steps - part > 0)
  BY SMT
<1>3. total * (steps - part) >= 0 /\ (part # steps => total * (steps - part) > 0)
  BY <1>2, SMT
<1>4. total * steps \in Int /\ part * total \in Int /\ total * (steps - part) \in Int
  BY SMT
<1> QED BY <1>1, <1>3, <1>4

\* The names listed are finitely many.
LEMMA Counted ==
  ASSUME NEW set \in SUBSET AllNames
  PROVE  IsFiniteSet(set) /\ Cardinality(set) \in Nat /\ (set # {} => Cardinality(set) > 0)
<1>1. IsFiniteSet(AllNames)
  BY NameAssumption, FS_Union, FS_Singleton, FS_AddElement DEF AllNames
<1>2. IsFiniteSet(set)
  BY <1>1, FS_Subset
<1> QED BY <1>2, FS_CardinalityType, FS_EmptySet

\* The script lists archives and the progress file.
LEMMA ListingNames == Listing \subseteq AllNames
BY DEF Listing, AllNames

\* The values the table takes.
LEMMA TableValues == Unreadable \in Table /\ \A set \in SUBSET Row : Written(set) \in Table
BY DEF Unreadable, Written, Table

\* The script has not started at first.
LEMMA ConversionBegins == Init => ConversionInv
<1> SUFFICES ASSUME Init PROVE ConversionInv
  OBVIOUS
<1>1. CrawlInv
  BY CrawlBegins DEF Init
<1> QED BY <1>1, StepsAssumption
     DEF Init, ConversionInv, CrawlInv, TypeOK, RowsNamed, RowsNameTheirArchive, PartsRemain,
         WrittenAtEnd, Unreadable, Table, AllNames

\* A step of the script leaves the spiders alone, and a step of the spiders
\* only adds files.
LEMMA StepListing ==
  ASSUME ConversionInv, [Next]_vars
  PROVE  /\ CrawlInv' /\ Listing \subseteq Listing'
         /\ ConvertNext => Listing' = Listing /\ UNCHANGED crawlVars
<1>1. [CrawlNext]_crawlVars
  BY DEF Next, vars, ConvertNext, Start, Unpack, ProcessDir, Report, KillConversion
<1>2. ASSUME ConvertNext PROVE UNCHANGED crawlVars
  BY <1>2 DEF ConvertNext, Start, Unpack, ProcessDir, Report, KillConversion
<1> QED BY <1>1, <1>2, SpidersInvariance, ListingGrows DEF ConversionInv, Listing, crawlVars

\* The script starts with a new frame.
LEMMA StartKeeps ==
  ASSUME ConversionInv, CrawlInv', Start, UNCHANGED crawlVars, Listing' = Listing
  PROVE  ConversionInv'
BY StepsAssumption, ListingNames
   DEF Start, ConversionInv, CrawlInv, TypeOK, RowsNamed, RowsNameTheirArchive, PartsRemain,
       WrittenAtEnd

\* The script takes the next file and unpacks it to an empty directory.
LEMMA UnpackKeeps ==
  ASSUME ConversionInv, CrawlInv', NEW n \in AllNames, Unpack(n), UNCHANGED crawlVars,
         Listing' = Listing
  PROVE  ConversionInv'
<1> USE DEF ConversionInv, Unpack
<1>1. n # Csv => n \in Names /\ archive[n] # NoFile /\ archive[n] \in Archive
  BY DEF PartsRemain, Listing, AllNames, CrawlInv, CrawlTypeOK
<1>2. tmp' \subseteq Projects
  BY <1>1 DEF Unpacked, Archive
<1>3. TypeOK'
  BY <1>2 DEF TypeOK, CrawlInv
<1>4. convert' = "process" => current' \in Names /\ \A p \in tmp' : NameOf[p] = current'
  BY <1>1 DEF Opens, Unpacked, CrawlInv, ArchivesNamed
<1>5. RowsNamed'
  BY <1>4 DEF RowsNamed
<1>6. PartsRemain'
  BY DEF PartsRemain
<1> QED BY <1>3, <1>5, <1>6 DEF RowsNameTheirArchive, WrittenAtEnd

\* The script appends what it finds under the archive's name.
LEMMA ProcessKeeps ==
  ASSUME ConversionInv, CrawlInv', ProcessDir, UNCHANGED crawlVars, Listing' = Listing
  PROVE  ConversionInv'
<1> USE DEF ConversionInv, ProcessDir
<1>1. PICK part \in SUBSET tmp : rows' = rows \cup [name : {current}, of : part]
  OBVIOUS
<1>2. \A row \in [name : {current}, of : part] : row \in Row /\ NameOf[row.of] = row.name
  BY DEF RowsNamed, TypeOK, Row
<1>3. TypeOK' /\ RowsNamed'
  BY <1>1, <1>2 DEF TypeOK, CrawlInv, RowsNamed
<1> QED BY <1>3 DEF PartsRemain, RowsNameTheirArchive, WrittenAtEnd

\* The script writes the table when a part is reached, and no later than at the last file.
LEMMA ReportKeeps ==
  ASSUME ConversionInv, CrawlInv', Report, UNCHANGED crawlVars, Listing' = Listing
  PROVE  ConversionInv'
<1> USE DEF ConversionInv, Report
<1> DEFINE done == Cardinality(handled)
           total == Cardinality(Listing)
<1>1. /\ done \in Nat \ {0} /\ total \in Nat
      /\ due \in 1 .. Steps /\ Steps \in Nat \ {0} /\ Steps \notin Late
  BY Counted, ListingNames, StepsAssumption DEF PartsRemain, TypeOK
<1>2. Reached => done * Steps >= due * total
  BY <1>1 DEF Reached
<1>3. ASSUME todo # {}, Reached
      PROVE  due < Steps
  <2>1. handled \subseteq Listing /\ handled # Listing
    BY <1>3 DEF PartsRemain
  <2>2. done < total
    BY <1>1, <2>1, Counted, ListingNames, FS_Subset
  <2> QED BY <1>1, <1>2, <1>3, <2>2, PartBeforeLast
<1>4. ASSUME Listing = handled
      PROVE  Reached
  <2>1. total = done
    BY <1>4
  <2>2. done * Steps >= due * done /\ (due # Steps => done * Steps > due * done)
    BY <1>1, LastPartReached
  <2> QED BY <1>1, <2>1, <2>2 DEF Reached
<1>5. TypeOK'
  <2>1. table' \in Table /\ due' \in 1 .. Steps + 1
    BY <1>1, TableValues DEF TypeOK
  <2> QED BY <2>1 DEF TypeOK, CrawlInv
<1>6. PartsRemain'
  BY <1>1, <1>3 DEF PartsRemain
<1>7. WrittenAtEnd'
  BY <1>4 DEF WrittenAtEnd
<1>8. RowsNameTheirArchive' /\ RowsNamed'
  BY DEF RowsNameTheirArchive, RowsNamed, Written
<1> QED BY <1>5, <1>6, <1>7, <1>8

\* The script is killed, perhaps while it writes.
LEMMA KillKeeps ==
  ASSUME ConversionInv, CrawlInv', KillConversion, UNCHANGED crawlVars, Listing' = Listing
  PROVE  ConversionInv'
<1> USE DEF ConversionInv, KillConversion
<1>1. table' \in {table, Written(rows), Unreadable}
  OBVIOUS
<1>2. TypeOK'
  <2>1. table' \in Table /\ 1 \in 1 .. Steps + 1
    BY <1>1, TableValues, StepsAssumption DEF TypeOK
  <2> QED BY <2>1 DEF TypeOK, CrawlInv, AllNames
<1> QED BY <1>1, <1>2
     DEF PartsRemain, RowsNameTheirArchive, RowsNamed, WrittenAtEnd, Written, Unreadable

\* The state of the conversion survives a step of the spiders.
LEMMA SpiderStepKeeps ==
  ASSUME ConversionInv, CrawlInv', UNCHANGED convertVars, Listing \subseteq Listing'
  PROVE  ConversionInv'
BY DEF convertVars, ConversionInv, CrawlInv, TypeOK, RowsNamed, RowsNameTheirArchive, PartsRemain,
       WrittenAtEnd

\* The invariant holds of the spiders and the conversion together.
THEOREM ConversionInvariance == Spec => []ConversionInv
<1>1. ASSUME ConversionInv, [Next]_vars
      PROVE  ConversionInv'
  <2>1. CASE ConvertNext
    BY <1>1, <2>1, StepListing, StartKeeps, UnpackKeeps, ProcessKeeps, ReportKeeps, KillKeeps
       DEF ConvertNext
  <2>2. CASE UNCHANGED convertVars
    BY <1>1, <2>2, StepListing, SpiderStepKeeps
  <2> QED BY <1>1, <2>1, <2>2 DEF Next, vars
<1> QED BY <1>1, ConversionBegins, PTL DEF Spec

\* Every variable keeps its type.
THEOREM ConversionTypes == Spec => []TypeOK
<1>1. ConversionInv => TypeOK
  BY DEF ConversionInv
<1> QED BY <1>1, ConversionInvariance, PTL

\* Runs of the spider that end, are interrupted or killed, and runs that resume
\* them, lose only the projects whose requests were refused, cut off or replaced.
THEOREM CrawlAccountsForAll == Spec => []NothingElseLost
<1>1. ConversionInv => NothingElseLost
  BY DEF ConversionInv, CrawlInv
<1> QED BY <1>1, ConversionInvariance, PTL

\* A resumed spider repeats at most its first request.
THEOREM ResumeRepeatsOne == Spec => RepeatsOnlyTheFirst
<1>1. ASSUME ConversionInv, [Next]_vars
      PROVE  [RepeatStep]_crawlVars
  <2>1. CASE CrawlNext
    BY <1>1, <2>1, CrawlKeepsOrder DEF ConversionInv
  <2>2. CASE UNCHANGED crawlVars
    BY <2>2
  <2> QED BY <1>1, <2>1, <2>2, StepListing DEF Next, vars
<1> QED BY <1>1, ConversionInvariance, PTL DEF Spec, RepeatsOnlyTheFirst

\* The last write of the table has every row, if no file came meanwhile.
THEOREM TableIsWritten == Spec => []WrittenAtEnd
<1>1. ConversionInv => WrittenAtEnd
  BY DEF ConversionInv
<1> QED BY <1>1, ConversionInvariance, PTL

\* No row is filed under another archive's name.
THEOREM RowsAreNamed == Spec => []RowsNameTheirArchive
<1>1. ConversionInv => RowsNameTheirArchive
  BY DEF ConversionInv
<1> QED BY <1>1, ConversionInvariance, PTL
===========================================================================
