-------------------------- MODULE SparkRepository --------------------------
(***************************************************************************)
(* The parquet tables on HDFS and the Spark scripts the handlers run on     *)
(* them: each upload script copies its table to tmp.parquet, which all of   *)
(* them share, and overwrites the table with the copy and one more row; the *)
(* detection script reads both tables.  Nothing keeps scripts from running  *)
(* at the same time.                                                        *)
(*                                                                          *)
(* A row is the id of its document.  Spark overwrites a directory in steps: *)
(* it deletes it, its tasks write to a staging directory inside the new     *)
(* one, under a name all jobs share, and the commit publishes what is       *)
(* staged.  Rows are read lazily: what is listed when a table is read must  *)
(* still be there when its rows are used.                                   *)
(***************************************************************************)
EXTENDS Contracts

CONSTANTS
  Scripts,   \* bound: script processes, each run once
  Seed,      \* ids of the rows the tables hold at first
  Failures,  \* which of FailureKinds may happen
  NoKind

FailureKinds ==
  {"session",    \* no Spark session
   "exception",  \* any call of Spark throws
   "kill"}       \* the process dies

ASSUME SeedAssumption == Seed \subseteq Guids
ASSUME FailuresAssumption == Failures \subseteq FailureKinds
ASSUME NoKindAssumption == NoKind \notin Kinds

Paths == {"sources", "data", "tmp"}

\* A directory: its published rows, and, while it is being written, the
\* outputs of the tasks that staged theirs.
Directory ==
  [dir : {"absent", "empty", "files"}, rows : SUBSET Guids,
   open : BOOLEAN, staged : SUBSET (SUBSET Guids)]

VARIABLES
  kind,    \* script -> the command it runs for
  doc,     \* script -> the id of that command's document
  stage,   \* script -> its next step
  view,    \* script -> the rows of the table it read last
  holds,   \* script -> the directory whose files it listed, "nothing", or "gone"
  out,     \* script -> the last line it printed, "" while it runs
  disk,    \* path -> its directory
  alone,   \* script -> whether it is an upload, and no other has run since it started
  before   \* script -> the rows of its table when it started

vars == <<kind, doc, stage, view, holds, out, disk, alone, before>>

Table(k) == IF k = "AddDocumentToAnalysis" THEN "sources" ELSE "data"
Home(j) == Table(kind[j])

Copying == {"copyBegin", "copyTasks", "copyCommit"}
Writing == {"begin", "tasks", "commit"}
Live(j) == stage[j] \notin {"new", "ended"}
Uploads(j) == Live(j) /\ kind[j] # "AnalyzeDocument"
Target(j) == IF stage[j] \in Copying THEN "tmp" ELSE Home(j)

TypeOK ==
  /\ kind \in [Scripts -> Kinds \cup {NoKind}]
  /\ doc \in [Scripts -> Guids \cup {EmptyGuid}]
  /\ stage \in [Scripts -> Copying \cup Writing \cup
       {"new", "session", "reread", "collect", "compare", "ended"}]
  /\ view \in [Scripts -> SUBSET Guids]
  /\ holds \in [Scripts -> Paths \cup {"nothing", "gone"}]
  /\ out \in [Scripts -> Lines \cup {""}]
  /\ disk \in [Paths -> Directory]
  /\ alone \in [Scripts -> BOOLEAN]
  /\ before \in [Scripts -> SUBSET Guids]

Absent == [dir |-> "absent", rows |-> {}, open |-> FALSE, staged |-> {}]
\* A new directory of a job whose tasks have staged these outputs.
Staging(outputs) == [dir |-> "empty", rows |-> {}, open |-> TRUE, staged |-> outputs]
Corpus == [dir |-> "files", rows |-> Seed, open |-> FALSE, staged |-> {}]

\* The tables were put in place by hand; the scripts read them first.
Init ==
  /\ kind = [j \in Scripts |-> NoKind]
  /\ doc = [j \in Scripts |-> EmptyGuid]
  /\ stage = [j \in Scripts |-> "new"]
  /\ view = [j \in Scripts |-> {}]
  /\ holds = [j \in Scripts |-> "nothing"]
  /\ out = [j \in Scripts |-> ""]
  /\ disk = [p \in Paths |-> IF p = "tmp" THEN Absent ELSE Corpus]
  /\ alone = [j \in Scripts |-> FALSE]
  /\ before = [j \in Scripts |-> {}]

---------------------------------------------------------------------------
\* Steps of a script

\* A mutant: the arguments are shifted by one, and the user's id is taken
\* for the document's.
StartShifted(j, k, d) ==
  /\ stage[j] = "new"
  /\ stage' = [stage EXCEPT ![j] = "session"]
  /\ kind' = [kind EXCEPT ![j] = k]
  /\ doc' = [doc EXCEPT ![j] = CHOOSE u \in Users : TRUE]
  /\ before' = [before EXCEPT ![j] = disk[Table(k)].rows]
  /\ alone' = IF k = "AnalyzeDocument" THEN alone
              ELSE [i \in Scripts |-> i = j /\ \A u \in Scripts : ~Uploads(u)]
  /\ UNCHANGED <<view, holds, out, disk>>

Start(j, k, d) ==
  /\ stage[j] = "new"
  /\ stage' = [stage EXCEPT ![j] = "session"]
  /\ kind' = [kind EXCEPT ![j] = k]
  /\ doc' = [doc EXCEPT ![j] = d]
  /\ before' = [before EXCEPT ![j] = disk[Table(k)].rows]
  /\ alone' = IF k = "AnalyzeDocument" THEN alone
              ELSE [i \in Scripts |-> i = j /\ \A u \in Scripts : ~Uploads(u)]
  /\ UNCHANGED <<view, holds, out, disk>>

\* What j knows of directory p once it has listed it.
List(j, p) ==
  /\ view' = [view EXCEPT ![j] = disk[p].rows]
  /\ holds' = [holds EXCEPT ![j] = IF disk[p].dir = "files" THEN p ELSE "nothing"]

GoTo(j, next) ==
  /\ stage' = [stage EXCEPT ![j] = next]
  /\ UNCHANGED <<kind, doc, out, alone, before>>

Says(j, line) ==
  /\ stage' = [stage EXCEPT ![j] = "ended"]
  /\ out' = [out EXCEPT ![j] = line]
  /\ UNCHANGED <<kind, doc, alone, before>>

SessionFails(j) ==
  /\ "session" \in Failures
  /\ stage[j] = "session"
  /\ Says(j, "-1")
  /\ UNCHANGED <<view, holds, disk>>

\* A mutant: the table is overwritten without a copy.
ReadTableInPlace(j) ==
  /\ Uploads(j)
  /\ stage[j] = "session"
  /\ disk[Home(j)].dir # "absent"
  /\ List(j, Home(j))
  /\ GoTo(j, "begin")
  /\ UNCHANGED disk

\* With a schema, an empty directory is an empty table; without one, it
\* cannot be read.
ReadTable(j) ==
  /\ Uploads(j)
  /\ stage[j] = "session"
  /\ disk[Home(j)].dir # "absent"
  /\ List(j, Home(j))
  /\ GoTo(j, "copyBegin")
  /\ UNCHANGED disk

\* mode("overwrite"): the directory goes, with what any other job staged.
BeginWrite(j) ==
  /\ stage[j] \in {"copyBegin", "begin"}
  /\ disk' = [disk EXCEPT ![Target(j)] = Staging({})]
  /\ holds' = [i \in Scripts |-> IF holds[i] = Target(j) THEN "gone" ELSE holds[i]]
  /\ GoTo(j, IF stage[j] = "begin" THEN "tasks" ELSE "copyTasks")
  /\ UNCHANGED view

\* The tasks create the staging directory when it is missing.
Staged(d, output) ==
  [dir |-> IF d.dir = "absent" THEN "empty" ELSE d.dir, rows |-> d.rows,
   open |-> TRUE, staged |-> d.staged \cup {output}]

\* A mutant: the table is overwritten with the new row alone.
RunTasksAlone(j) ==
  /\ stage[j] \in {"copyTasks", "tasks"}
  /\ holds[j] # "gone"
  /\ LET output == IF stage[j] = "tasks" THEN {doc[j]} ELSE view[j] IN
       disk' = [disk EXCEPT ![Target(j)] = Staged(@, output)]
  /\ GoTo(j, IF stage[j] = "tasks" THEN "commit" ELSE "copyCommit")
  /\ UNCHANGED <<view, holds>>

RunTasks(j) ==
  /\ stage[j] \in {"copyTasks", "tasks"}
  /\ holds[j] # "gone"
  /\ LET output == IF stage[j] = "tasks" THEN view[j] \cup {doc[j]} ELSE view[j] IN
       disk' = [disk EXCEPT ![Target(j)] = Staged(@, output)]
  /\ GoTo(j, IF stage[j] = "tasks" THEN "commit" ELSE "copyCommit")
  /\ UNCHANGED <<view, holds>>

\* A directory once its job has committed.
Published(d) ==
  [dir |-> IF d.staged = {} THEN d.dir ELSE "files", rows |-> d.rows \cup UNION d.staged,
   open |-> FALSE, staged |-> {}]

Commit(j) ==
  /\ stage[j] \in {"copyCommit", "commit"}
  /\ disk[Target(j)].open
  /\ disk' = [disk EXCEPT ![Target(j)] = Published(@)]
  /\ IF stage[j] = "commit" THEN Says(j, "1") ELSE GoTo(j, "reread")
  /\ UNCHANGED <<view, holds>>

RereadCopy(j) ==
  /\ stage[j] = "reread"
  /\ disk["tmp"].dir = "files"
  /\ List(j, "tmp")
  /\ GoTo(j, "begin")
  /\ UNCHANGED disk

\* The detection script: its document's row, then every row of the corpus.
FindRow(j) ==
  /\ stage[j] = "session"
  /\ kind[j] = "AnalyzeDocument"
  /\ disk["sources"].dir = "files"
  /\ List(j, "sources")
  /\ GoTo(j, "collect")
  /\ UNCHANGED disk

CollectRow(j) ==
  /\ stage[j] = "collect"
  /\ holds[j] # "gone"
  /\ doc[j] \in view[j]
  /\ disk["data"].dir # "absent"
  /\ List(j, "data")
  /\ GoTo(j, "compare")
  /\ UNCHANGED disk

Compare(j) ==
  /\ stage[j] = "compare"
  /\ holds[j] # "gone"
  /\ view[j] # {}
  /\ Says(j, "score")
  /\ UNCHANGED <<view, holds, disk>>

---------------------------------------------------------------------------
\* Failures

\* Spark throws: a directory or a file is not there, the row is not found, or
\* no row of the corpus is similar enough, and the sum of none is None.
Throws(j) ==
  \/ Uploads(j) /\ stage[j] = "session" /\ disk[Home(j)].dir = "absent"
  \/ stage[j] = "session" /\ kind[j] = "AnalyzeDocument" /\ disk["sources"].dir # "files"
  \/ stage[j] \in {"copyTasks", "tasks", "collect", "compare"} /\ holds[j] = "gone"
  \/ stage[j] \in {"copyCommit", "commit"} /\ ~disk[Target(j)].open
  \/ stage[j] = "reread" /\ disk["tmp"].dir # "files"
  \/ stage[j] = "collect" /\ (doc[j] \notin view[j] \/ disk["data"].dir = "absent")
  \/ stage[j] = "compare"

\* What a write that ends at its present step leaves in its directory: it may
\* be deleted and not created again, or published in part.
LeftBehind(j) ==
  LET d == disk[Target(j)] IN
  CASE stage[j] \in {"copyBegin", "begin"} -> {d, Absent}
    [] stage[j] \in {"copyCommit", "commit"} ->
         {d} \cup {[d EXCEPT !.dir = "files", !.rows = @ \cup part] : part \in SUBSET UNION d.staged}
    [] OTHER -> {d}

Aborted(d) == [d EXCEPT !.open = FALSE, !.staged = {}]

Ends(j, line, d) ==
  /\ Says(j, line)
  /\ disk' = [disk EXCEPT ![Target(j)] = d]
  /\ holds' = [i \in Scripts |->
       IF d.dir = "absent" /\ holds[i] = Target(j) THEN "gone" ELSE holds[i]]
  /\ UNCHANGED view

\* All print -1; the script of documents to analyze prints the exception too.
\* Spark aborts the job, which removes the staging directory.
Raise(j) ==
  /\ Live(j)
  /\ "exception" \in Failures \/ Throws(j)
  /\ \E d \in LeftBehind(j) :
       Ends(j, IF kind[j] = "AddDocumentToAnalysis" THEN "text" ELSE "-1",
            IF stage[j] \in Copying \cup Writing THEN Aborted(d) ELSE d)

Kill(j) ==
  /\ "kill" \in Failures
  /\ Live(j)
  /\ \E d \in LeftBehind(j) : Ends(j, "text", d)

---------------------------------------------------------------------------
Step(j) ==
  \/ \E k \in Kinds, d \in Guids : Start(j, k, d)
  \/ SessionFails(j)
  \/ ReadTable(j)
  \/ BeginWrite(j)
  \/ RunTasks(j)
  \/ Commit(j)
  \/ RereadCopy(j)
  \/ FindRow(j)
  \/ CollectRow(j)
  \/ Compare(j)
  \/ Raise(j)
  \/ Kill(j)

\* Bound: every script has run.
Done == (\A j \in Scripts : stage[j] = "ended") /\ UNCHANGED vars

Next == Done \/ \E j \in Scripts : Step(j)

Spec == Init /\ [][Next]_vars

---------------------------------------------------------------------------
\* Correctness

\* An upload that no other overlapped, and that says it succeeded, has put its
\* row in its table next to every row that was there, whatever detection
\* scripts ran meanwhile and whatever earlier scripts left behind.
AloneStores ==
  [][\A j \in Scripts :
       (Uploads(j) /\ alone[j] /\ out'[j] = "1") =>
         disk'[Home(j)].rows = before[j] \cup {doc[j]}]_vars

\* An upload that no other overlaps always leaves the rows it found on disk,
\* in its table or in tmp, wherever it fails or is killed.
EarlierRowsKept ==
  [][\A j \in Scripts :
       (Uploads(j) /\ alone'[j]) =>
         \/ before[j] \subseteq disk'[Home(j)].rows
         \/ before[j] \subseteq disk'["tmp"].rows]_vars

\* An upload that no other overlaps and that Spark does not fail can only fail
\* because its table is not there: its files are not deleted under it, and its
\* staging directory is not taken away.
AloneProceeds ==
  \A j \in Scripts : (Uploads(j) /\ alone[j] /\ Throws(j)) =>
    stage[j] = "session" /\ disk[Home(j)].dir = "absent"

\* Once no script runs, a document reported as stored is stored.  (Violated:
\* uploads that overlap delete what the other reads or writes; a table can
\* lose every row, and both be reported as stored.)
ReportedIsStored ==
  (\A j \in Scripts : ~Live(j)) =>
    \A j \in Scripts :
      ( /\ stage[j] = "ended"
        /\ kind[j] # "AnalyzeDocument"
        /\ ClosingStatus(kind[j], out[j]) # "Failed" )
      => doc[j] \in disk[Home(j)].rows

---------------------------------------------------------------------------
\* The inductive invariant of the safety properties

Roles ==
  \A j \in Scripts :
    /\ stage[j] # "new" => kind[j] \in Kinds /\ doc[j] \in Guids
    /\ stage[j] # "ended" => out[j] = ""
    /\ stage[j] \in Copying \cup Writing \cup {"reread"} => kind[j] # "AnalyzeDocument"
    /\ stage[j] \in {"collect", "compare"} => kind[j] = "AnalyzeDocument"

\* A script that deletes files leaves no script that believes it can use them.
Held == \A j \in Scripts : holds[j] \in Paths => disk[holds[j]].dir = "files"

\* What upload j has done so far is as it left it, and no other runs.
Intact(j) ==
  LET home == disk[Home(j)]
      tmp == disk["tmp"]
  IN
  /\ \A i \in Scripts : Uploads(i) => i = j
  /\ stage[j] \notin {"tasks", "commit"} => home.rows = before[j]
  /\ stage[j] # "session" => view[j] = before[j]
  /\ stage[j] \in Copying => holds[j] \in {Home(j), "nothing"}
  /\ stage[j] \in Writing => holds[j] \in {"tmp", "nothing"}
  /\ stage[j] = "copyTasks" => tmp = Staging({})
  /\ stage[j] = "copyCommit" => tmp = Staging({before[j]})
  /\ stage[j] \in {"reread"} \cup Writing => tmp.dir = "files" /\ tmp.rows = before[j]
  /\ stage[j] = "tasks" => home = Staging({})
  /\ stage[j] = "commit" => home = Staging({before[j] \cup {doc[j]}})

Undisturbed == \A j \in Scripts : (Uploads(j) /\ alone[j]) => Intact(j)

RepositoryInv == TypeOK /\ Roles /\ Held /\ Undisturbed
===========================================================================
