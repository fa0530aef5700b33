----------------------------- MODULE ToParquet -----------------------------
(***************************************************************************)
(* The script to_parquet.py, beside the spiders: it unpacks every file of   *)
(* the directory the archives spider stores in, and writes the Python files *)
(* it found to dataset.parquet each time another tenth of the files is      *)
(* done.  The table becomes the corpus the detection compares with.         *)
(*                                                                          *)
(* The names are listed once, but the files are counted again at every      *)
(* step, and the tenths are sums of 0.1: their third is above 0.3, and none *)
(* of the others is above its fraction.                                     *)
(***************************************************************************)
EXTENDS ArchivesSpider

CONSTANTS
  Steps,   \* in how many parts progress is reported: 10
  Late,    \* the parts whose sum of floats is above their fraction: {3}
  Csv      \* the name of the progress file, which lies among the archives

ASSUME StepsAssumption == Steps \in Nat \ {0} /\ Late \subseteq (1 .. Steps) \ {Steps}
ASSUME CsvAssumption == Csv \notin Names

\* A row of the table: the archive it was found in, and whose file it is.
Row == [name : Names, of : Projects]
\* The table as a reader finds it.
Table == [readable : BOOLEAN, rows : SUBSET Row]

VARIABLES
  convert,  \* the script's next step
  todo,     \* the names listed and not taken yet
  handled,  \* the names taken: the script counts them
  current,  \* the name in hand
  tmp,      \* the directory it unpacks to: whose files are there
  rows,     \* its data frame
  due,      \* the next part of the progress to report
  table     \* dataset.parquet

convertVars == <<convert, todo, handled, current, tmp, rows, due, table>>
vars == <<crawlVars, convertVars>>

Unreadable == [readable |-> FALSE, rows |-> {}]
Written(found) == [readable |-> TRUE, rows |-> found]

AllNames == Names \cup {Csv}
\* What os.listdir finds.
Listing == {n \in Names : archive[n] # NoFile} \cup (IF progress.there THEN {Csv} ELSE {})

TypeOK ==
  /\ CrawlTypeOK
  /\ convert \in {"off", "next", "process", "count", "done"}
  /\ todo \subseteq AllNames
  /\ handled \subseteq AllNames
  /\ current \in AllNames
  /\ tmp \subseteq Projects
  /\ rows \subseteq Row
  /\ due \in 1 .. Steps + 1
  /\ table \in Table

Init ==
  /\ CrawlInit
  /\ convert = "off"
  /\ todo = {}
  /\ handled = {}
  /\ current = Csv
  /\ tmp = {}
  /\ rows = {}
  /\ due = 1
  /\ table = Unreadable

---------------------------------------------------------------------------
Start ==
  /\ convert \in {"off", "done"}
  /\ Listing # {}
  /\ convert' = "next"
  /\ todo' = Listing
  /\ handled' = {}
  /\ rows' = {}
  /\ due' = 1
  /\ UNCHANGED <<current, tmp, table, crawlVars>>

\* What unpacking the file of this name leaves in tmp: a file that is not a
\* whole archive fails, at the start or on the way.
Unpacked(n) ==
  IF n = Csv THEN {{}}
  ELSE IF archive[n].whole THEN {{archive[n].of}}
  ELSE {{}, {archive[n].of}}

Opens(n) == n # Csv /\ archive[n].whole

\* A mutant: tmp is not removed first.
UnpackOver(n) ==
  /\ convert = "next"
  /\ n \in todo
  /\ todo' = todo \ {n}
  /\ handled' = handled \cup {n}
  /\ current' = n
  /\ \E files \in Unpacked(n) : tmp' = tmp \cup files
  /\ convert' = IF Opens(n) THEN "process" ELSE "count"
  /\ UNCHANGED <<rows, due, table, crawlVars>>

Unpack(n) ==
  /\ convert = "next"
  /\ n \in todo
  /\ todo' = todo \ {n}
  /\ handled' = handled \cup {n}
  /\ current' = n
  /\ tmp' \in Unpacked(n)
  /\ convert' = IF Opens(n) THEN "process" ELSE "count"
  /\ UNCHANGED <<rows, due, table, crawlVars>>

\* process_dir appends to the frame as it goes: what it appended before an
\* exception stays, and the script goes on with the next archive.
ProcessDir ==
  /\ convert = "process"
  /\ convert' = "count"
  /\ \E part \in SUBSET tmp : rows' = rows \cup [name : {current}, of : part]
  /\ UNCHANGED <<todo, handled, current, tmp, due, table, crawlVars>>

\* A mutant: a part is reported only when it is exceeded.
ReachedLate == Cardinality(handled) * Steps > due * Cardinality(Listing)

\* counter / len(os.listdir(directory)) >= currentPercentage
Reached ==
  LET done == Cardinality(handled) * Steps
      part == due * Cardinality(Listing)
  IN IF due \in Late THEN done > part ELSE done >= part

\* One part is reported even when several are reached.
Report ==
  /\ convert = "count"
  /\ convert' = IF todo = {} THEN "done" ELSE "next"
  /\ IF Reached
     THEN /\ due' = due + 1
          /\ table' = Written(rows)
     ELSE UNCHANGED <<due, table>>
  /\ UNCHANGED <<todo, handled, current, tmp, rows, crawlVars>>

\* The script is killed: what it remembers is gone, tmp stays, and a table that is
\* being written cannot be read.
KillConversion ==
  /\ convert \in {"next", "process", "count"}
  /\ convert' = "off"
  /\ table' \in IF convert = "count" /\ Reached THEN {table, Written(rows), Unreadable} ELSE {table}
  /\ todo' = {}
  /\ handled' = {}
  /\ current' = Csv
  /\ rows' = {}
  /\ due' = 1
  /\ UNCHANGED <<tmp, crawlVars>>

ConvertNext == Start \/ (\E n \in AllNames : Unpack(n)) \/ ProcessDir \/ Report \/ KillConversion

Next == ConvertNext \/ (CrawlNext /\ UNCHANGED convertVars)

Spec == Init /\ [][Next]_vars

---------------------------------------------------------------------------
\* Correctness

\* When the script ends, the table holds every row it made, unless files came
\* while it ran: the last part falls due before the last file, whatever their
\* number and however the floats add up.
WrittenAtEnd ==
  (convert = "done" /\ Listing = handled) => table = Written(rows)

\* Every row of the table names the archive its file came from, although the
\* archives are unpacked one after another to one directory, unpacking fails
\* on the way, and a script that was killed left its files there.
RowsNameTheirArchive ==
  \A row \in table.rows : NameOf[row.of] = row.name

---------------------------------------------------------------------------
\* The inductive invariant of the safety properties

RowsNamed ==
  /\ \A row \in rows : NameOf[row.of] = row.name
  /\ convert = "process" => current \in Names /\ \A p \in tmp : NameOf[p] = current

\* The last part falls due no later than with the last file.
PartsRemain ==
  /\ handled \cap todo = {}
  /\ handled \cup todo \subseteq Listing
  /\ convert \in {"process", "count"} => handled # {}
  /\ convert \in {"next", "process", "count"} => due <= Steps

ConversionInv ==
  CrawlInv /\ TypeOK /\ RowsNamed /\ RowsNameTheirArchive /\ PartsRemain /\ WrittenAtEnd
===========================================================================
