----------------------- MODULE SparkRepositoryProofs -----------------------
(***************************************************************************)
(* Proofs about the parquet tables, for any number of scripts, any ids and  *)
(* any failures: an upload that no other overlaps is undisturbed by what    *)
(* detection scripts and dead scripts do, so it stores its row, and the     *)
(* rows it found are on disk wherever it stops.                             *)
(***************************************************************************)
EXTENDS SparkRepository, TLAPS

---------------------------------------------------------------------------
\* Directories

\* The directories of the model are directories.
LEMMA FixedDirectories == Absent \in Directory /\ Staging({}) \in Directory /\ Corpus \in Directory
BY SeedAssumption DEF Absent, Staging, Corpus, Directory

\* Commit and abort keep a directory a directory.
LEMMA CommitAndAbort ==
  ASSUME NEW d \in Directory
  PROVE  Published(d) \in Directory /\ Aborted(d) \in Directory
<1>1. UNION d.staged \subseteq Guids
  BY DEF Directory
<1> QED BY <1>1 DEF Directory, Published, Aborted

\* What is left behind, and what is left of it after an abort, is a directory.
LEMMA LeavesDirectory ==
  ASSUME TypeOK, NEW j \in Scripts, NEW d \in LeftBehind(j)
  PROVE  d \in Directory /\ Aborted(d) \in Directory
<1> DEFINE old == disk[Target(j)]
<1>1. old \in Directory
  BY DEF TypeOK, Target, Home, Table, Paths
<1>2. d \in Directory
  <2>1. CASE stage[j] \in {"copyCommit", "commit"}
    <3>1. \A part \in SUBSET UNION old.staged :
            [old EXCEPT !.dir = "files", !.rows = @ \cup part] \in Directory
      BY <1>1 DEF Directory
    <3> QED BY <1>1, <2>1, <3>1 DEF LeftBehind
  <2> QED BY <1>1, <2>1, FixedDirectories DEF LeftBehind
<1> QED BY <1>2, CommitAndAbort

\* One job's tasks and commit in a directory its overwrite has just created.
LEMMA StageOne == ASSUME NEW output PROVE Staged(Staging({}), output) = Staging({output})
BY DEF Staged, Staging

\* What a commit of one staged output publishes.
LEMMA CommitOne ==
  ASSUME NEW output
  PROVE  /\ Published(Staging({output})).dir = "files"
         /\ Published(Staging({output})).rows = output
<1>1. {} \cup UNION {output} = output
  OBVIOUS
<1> QED BY <1>1 DEF Published, Staging

\* A directory with one more staged output is a directory.
LEMMA StagedDirectory ==
  ASSUME NEW d \in Directory, NEW output \in SUBSET Guids
  PROVE  Staged(d, output) \in Directory
<1>1. d.staged \cup {output} \in SUBSET (SUBSET Guids)
  BY DEF Directory
<1> QED BY <1>1 DEF Directory, Staged

---------------------------------------------------------------------------
\* Initial states

\* The tables start as they were put in place, and no script runs.
LEMMA InitInv == Init => RepositoryInv
<1> SUFFICES ASSUME Init PROVE RepositoryInv
  OBVIOUS
<1>1. TypeOK
  BY FixedDirectories DEF Init, TypeOK, Paths, Lines
<1>2. Roles /\ Held /\ Undisturbed
  BY DEF Init, Roles, Held, Undisturbed, Uploads, Live, Copying, Writing, Paths
<1> QED BY <1>1, <1>2 DEF RepositoryInv

---------------------------------------------------------------------------
\* Types

\* A step of a script keeps the types.
LEMMA StepType ==
  ASSUME RepositoryInv, NEW j \in Scripts, Step(j)
  PROVE  TypeOK'
<1> USE DEF RepositoryInv
<1>0. /\ \A p \in Paths : disk[p] \in Directory
      /\ Target(j) \in Paths /\ Home(j) \in Paths
  BY DEF TypeOK, Target, Home, Table, Paths
<1>1. ASSUME NEW k \in Kinds, NEW d \in Guids, Start(j, k, d) PROVE TypeOK'
  <2>1. disk[Table(k)].rows \in SUBSET Guids
    BY <1>0 DEF Table, Paths, Directory
  <2> QED BY <1>1, <2>1 DEF Start, TypeOK
<1>2. CASE SessionFails(j)
  BY <1>2 DEF SessionFails, Says, TypeOK, Lines
<1>3. ASSUME NEW p \in Paths, NEW next \in Writing \cup Copying \cup {"collect", "compare"},
             List(j, p), GoTo(j, next), UNCHANGED disk
      PROVE  TypeOK'
  <2>1. disk[p].rows \in SUBSET Guids
    BY <1>0 DEF Directory
  <2> QED BY <1>3, <2>1 DEF List, GoTo, TypeOK, Writing, Copying
<1>4. CASE ReadTable(j)
  BY <1>0, <1>3, <1>4 DEF ReadTable, Copying
<1>5. CASE BeginWrite(j)
  <2>1. disk' \in [Paths -> Directory]
    BY <1>0, <1>5, FixedDirectories DEF BeginWrite, TypeOK
  <2>2. holds' \in [Scripts -> Paths \cup {"nothing", "gone"}]
    BY <1>5 DEF BeginWrite, TypeOK
  <2> QED BY <1>5, <2>1, <2>2 DEF BeginWrite, GoTo, TypeOK, Writing, Copying
<1>6. CASE RunTasks(j)
  <2> DEFINE output == IF stage[j] = "tasks" THEN view[j] \cup {doc[j]} ELSE view[j]
  <2>1. output \in SUBSET Guids
    BY <1>6 DEF RunTasks, TypeOK, Roles
  <2>2. disk' \in [Paths -> Directory]
    BY <1>0, <1>6, <2>1, StagedDirectory DEF RunTasks, TypeOK
  <2> QED BY <1>6, <2>2 DEF RunTasks, GoTo, TypeOK, Writing, Copying
<1>7. CASE Commit(j)
  <2>1. disk' \in [Paths -> Directory]
    BY <1>0, <1>7, CommitAndAbort DEF Commit, TypeOK
  <2> QED BY <1>7, <2>1 DEF Commit, GoTo, Says, TypeOK, Lines
<1>8. CASE RereadCopy(j)
  BY <1>3, <1>8 DEF RereadCopy, Writing, Paths
<1>9. CASE FindRow(j)
  BY <1>3, <1>9 DEF FindRow, Paths
<1>10. CASE CollectRow(j)
  BY <1>3, <1>10 DEF CollectRow, Paths
<1>11. CASE Compare(j)
  BY <1>11 DEF Compare, Says, TypeOK, Lines
<1>12. ASSUME NEW d \in Directory, NEW line \in Lines, Ends(j, line, d) PROVE TypeOK'
  <2>1. disk' \in [Paths -> Directory]
    BY <1>0, <1>12 DEF Ends, TypeOK
  <2>2. holds' \in [Scripts -> Paths \cup {"nothing", "gone"}]
    BY <1>12 DEF Ends, TypeOK
  <2> QED BY <1>12, <2>1, <2>2 DEF Ends, Says, TypeOK
<1>13. CASE Raise(j)
  BY <1>12, <1>13, LeavesDirectory DEF Raise, Lines
<1>14. CASE Kill(j)
  BY <1>12, <1>14, LeavesDirectory DEF Kill, Lines
<1> QED
  BY <1>1, <1>2, <1>4, <1>5, <1>6, <1>7, <1>8, <1>9, <1>10, <1>11, <1>13, <1>14 DEF Step

---------------------------------------------------------------------------
\* Roles, and what scripts hold

\* A script only reaches the stages of its kind, and prints once.
LEMMA StepRoles ==
  ASSUME RepositoryInv, NEW j \in Scripts, Step(j)
  PROVE  Roles'
<1> USE DEF RepositoryInv, Roles, TypeOK, Copying, Writing
<1>1. ASSUME NEW k \in Kinds, NEW d \in Guids, Start(j, k, d) PROVE Roles'
  BY <1>1 DEF Start
<1>2. ASSUME NEW line, Says(j, line), Live(j) PROVE Roles'
  BY <1>2 DEF Says, Live
<1>3. CASE SessionFails(j) \/ Compare(j)
  BY <1>2, <1>3 DEF SessionFails, Compare, Live
<1>4. CASE ReadTable(j)
  BY <1>4 DEF ReadTable, GoTo, Uploads, Live
<1>5. CASE BeginWrite(j)
  BY <1>5 DEF BeginWrite, GoTo
<1>6. CASE RunTasks(j)
  BY <1>6 DEF RunTasks, GoTo
<1>7. CASE Commit(j)
  BY <1>2, <1>7 DEF Commit, GoTo, Live
<1>8. CASE RereadCopy(j)
  BY <1>8 DEF RereadCopy, GoTo
<1>9. CASE FindRow(j) \/ CollectRow(j)
  BY <1>9 DEF FindRow, CollectRow, GoTo
<1>10. CASE Raise(j) \/ Kill(j)
  BY <1>2, <1>10 DEF Raise, Kill, Ends
<1> QED
  BY <1>1, <1>3, <1>4, <1>5, <1>6, <1>7, <1>8, <1>9, <1>10 DEF Step

\* Whoever deletes a directory takes it from every script that listed it.
LEMMA StepHeld ==
  ASSUME RepositoryInv, NEW j \in Scripts, Step(j)
  PROVE  Held'
<1> USE DEF RepositoryInv, Held
<1>0. Target(j) \in Paths /\ Home(j) \in Paths
  BY DEF Target, Home, Table, Paths
<1>1. ASSUME UNCHANGED <<holds, disk>> PROVE Held'
  BY <1>1
<1>2. ASSUME NEW p \in Paths, List(j, p), UNCHANGED disk PROVE Held'
  BY <1>2 DEF List, TypeOK, Paths
<1>3. CASE ReadTable(j)
  BY <1>0, <1>2, <1>3 DEF ReadTable
<1>4. CASE RereadCopy(j) \/ FindRow(j) \/ CollectRow(j)
  BY <1>2, <1>4 DEF RereadCopy, FindRow, CollectRow, Paths
<1>5. CASE BeginWrite(j)
  <2>1. \A p \in Paths : p # Target(j) => disk'[p] = disk[p]
    BY <1>5 DEF BeginWrite, TypeOK
  <2>2. \A i \in Scripts : holds'[i] = IF holds[i] = Target(j) THEN "gone" ELSE holds[i]
    BY <1>5 DEF BeginWrite
  <2> QED BY <1>0, <2>1, <2>2 DEF Paths
<1>6. ASSUME UNCHANGED holds, NEW d,
             disk' = [disk EXCEPT ![Target(j)] = d],
             disk[Target(j)].dir = "files" => d.dir = "files"
      PROVE  Held'
  <2>1. \A p \in Paths : disk[p].dir = "files" => disk'[p].dir = "files"
    BY <1>0, <1>6 DEF TypeOK
  <2> QED BY <1>6, <2>1
<1>7. CASE RunTasks(j)
  <2> DEFINE output == IF stage[j] = "tasks" THEN view[j] \cup {doc[j]} ELSE view[j]
             new == Staged(disk[Target(j)], output)
  <2>1. disk' = [disk EXCEPT ![Target(j)] = new] /\ UNCHANGED holds
    BY <1>7 DEF RunTasks
  <2>2. disk[Target(j)].dir = "files" => new.dir = "files"
    BY DEF Staged
  <2> HIDE DEF new
  <2> QED BY <1>6, <2>1, <2>2
<1>8. CASE Commit(j)
  <2>1. disk' = [disk EXCEPT ![Target(j)] = Published(disk[Target(j)])] /\ UNCHANGED holds
    BY <1>8 DEF Commit
  <2>2. disk[Target(j)].dir = "files" => Published(disk[Target(j)]).dir = "files"
    BY DEF Published
  <2> QED BY <1>6, <2>1, <2>2
<1>9. ASSUME NEW line, NEW d, Ends(j, line, d), d.dir \in {"absent", "files", disk[Target(j)].dir}
      PROVE  Held'
  <2>1. \A p \in Paths : disk'[p] = IF p = Target(j) THEN d ELSE disk[p]
    BY <1>0, <1>9 DEF Ends, TypeOK
  <2>2. \A i \in Scripts :
          holds'[i] = IF d.dir = "absent" /\ holds[i] = Target(j) THEN "gone" ELSE holds[i]
    BY <1>9 DEF Ends
  <2> QED BY <1>9, <2>1, <2>2 DEF Paths
<1>10. ASSUME NEW d \in LeftBehind(j)
       PROVE  /\ d.dir \in {"absent", "files", disk[Target(j)].dir}
              /\ Aborted(d).dir = d.dir
  <2>1. d.dir \in {"absent", "files", disk[Target(j)].dir}
    <3>1. disk[Target(j)] \in Directory
      BY <1>0 DEF TypeOK
    <3>2. CASE stage[j] \in {"copyCommit", "commit"}
      BY <3>1, <3>2 DEF LeftBehind, Directory
    <3>3. CASE stage[j] \notin {"copyCommit", "commit"}
      <4>1. d = disk[Target(j)] \/ d = Absent
        BY <3>3 DEF LeftBehind
      <4> QED BY <4>1 DEF Absent
    <3> QED BY <3>2, <3>3
  <2> QED BY <2>1, LeavesDirectory DEF Aborted, Directory
<1>11. CASE Raise(j) \/ Kill(j)
  BY <1>9, <1>10, <1>11 DEF Raise, Kill
<1>12. CASE SessionFails(j) \/ Compare(j)
  BY <1>1, <1>12 DEF SessionFails, Compare
<1>13. ASSUME NEW k \in Kinds, NEW d \in Guids, Start(j, k, d) PROVE Held'
  BY <1>1, <1>13 DEF Start
<1> QED
  BY <1>3, <1>4, <1>5, <1>7, <1>8, <1>11, <1>12, <1>13 DEF Step

---------------------------------------------------------------------------
\* Undisturbed uploads

\* Nothing another script does touches an upload that no other overlaps.
LEMMA OthersLeave ==
  ASSUME RepositoryInv, NEW i \in Scripts, Step(i),
         NEW j \in Scripts, j # i, Uploads(j)', alone'[j]
  PROVE  /\ Uploads(j) /\ alone[j]
         /\ UNCHANGED <<disk, kind[j], doc[j], stage[j], view[j], holds[j], before[j], out[j]>>
         /\ \A s \in Scripts : Uploads(s)' => Uploads(s)
<1> USE DEF RepositoryInv
<1>0. ASSUME Uploads(j), alone[j] PROVE ~Uploads(i)
  BY <1>0 DEF Undisturbed, Intact
<1>1. ASSUME NEW k \in Kinds, NEW d \in Guids, Start(i, k, d)
      PROVE  /\ UNCHANGED <<disk, kind[j], doc[j], stage[j], view[j], holds[j], before[j], out[j], alone[j]>>
             /\ \A s \in Scripts : Uploads(s)' => Uploads(s)
  <2>1. UNCHANGED <<disk, view, holds, out, kind[j], doc[j], stage[j], before[j]>>
    BY <1>1 DEF Start, TypeOK
  <2>2. k = "AnalyzeDocument"
    BY <1>1 DEF Start
  <2>3. \A s \in Scripts : Uploads(s)' => Uploads(s)
    BY <1>1, <2>2 DEF Start, TypeOK, Uploads, Live
  <2> QED BY <1>1, <2>1, <2>2, <2>3 DEF Start
<1>2. ASSUME ~\E k \in Kinds, d \in Guids : Start(i, k, d)
      PROVE  /\ Live(i)
             /\ UNCHANGED <<kind, doc, alone, before>>
             /\ UNCHANGED <<stage[j], out[j]>>
             /\ \A s \in Scripts : Uploads(s)' => Uploads(s)
  <2>1. /\ Live(i)
        /\ \/ \E next \in Copying \cup Writing \cup {"reread", "collect", "compare"} : GoTo(i, next)
           \/ \E line \in Lines : Says(i, line)
    BY <1>2 DEF Step, SessionFails, ReadTable, BeginWrite, RunTasks, Commit, RereadCopy, FindRow,
         CollectRow, Compare, Raise, Kill, Ends, Live, Uploads, Copying, Writing, Lines
  <2> QED BY <2>1 DEF GoTo, Says, TypeOK, Uploads, Live
<1>3. Uploads(j) /\ alone[j]
  BY <1>1, <1>2 DEF Uploads, Live
<1>4. stage[i] \in {"new", "session", "collect", "compare", "ended"}
  BY <1>0, <1>3 DEF Roles, Uploads, Live, TypeOK
<1>5. ~Uploads(i)
  BY <1>0, <1>3
<1>6. ASSUME ~\E k \in Kinds, d \in Guids : Start(i, k, d)
      PROVE  UNCHANGED <<disk, view[j], holds[j]>>
  <2>1. CASE SessionFails(i) \/ Compare(i)
    BY <2>1 DEF SessionFails, Compare
  <2>2. CASE FindRow(i) \/ CollectRow(i)
    BY <2>2 DEF FindRow, CollectRow, List, TypeOK
  <2>3. ASSUME NEW line, NEW d \in LeftBehind(i), Ends(i, line, d)
        PROVE  UNCHANGED <<disk, view[j], holds[j]>>
    <3>1. d = disk[Target(i)]
      BY <1>4, <2>3 DEF LeftBehind
    <3>2. UNCHANGED disk
      BY <2>3, <3>1 DEF Ends, TypeOK, Target, Home, Table, Paths
    <3>3. holds[j] = Target(i) => d.dir = "files"
      BY <3>1 DEF Held, Target, Home, Table, Paths
    <3> QED BY <2>3, <3>2, <3>3 DEF Ends
  <2>4. CASE Raise(i) \/ Kill(i)
    BY <1>4, <2>3, <2>4 DEF Raise, Kill, Copying, Writing
  <2> QED
    BY <1>4, <1>5, <1>6, <2>1, <2>2, <2>4
      DEF Step, ReadTable, BeginWrite, RunTasks, Commit, RereadCopy
<1> QED BY <1>1, <1>2, <1>3, <1>6

\* An upload that goes on alone finds its own work as it left it.
LEMMA OwnStep ==
  ASSUME RepositoryInv, NEW j \in Scripts, Step(j), Uploads(j)', alone'[j]
  PROVE  Intact(j)'
<1> USE DEF RepositoryInv
<1>0. Home(j) \in Paths /\ Home(j) \notin {"tmp", "nothing"} /\ disk \in [Paths -> Directory] /\ "tmp" \in Paths
  BY DEF Home, Table, Paths, TypeOK
<1>1. ASSUME NEW k \in Kinds, NEW d \in Guids, Start(j, k, d) PROVE Intact(j)'
  <2>1. /\ stage'[j] = "session" /\ kind'[j] = k /\ before'[j] = disk[Table(k)].rows
        /\ UNCHANGED disk
    BY <1>1 DEF Start, TypeOK
  <2>2. k # "AnalyzeDocument"
    BY <2>1 DEF Uploads
  <2>3. \A u \in Scripts : ~Uploads(u)
    BY <1>1, <2>2 DEF Start
  <2>4. \A i \in Scripts : Uploads(i)' => i = j
    BY <1>1, <2>3 DEF Start, TypeOK, Uploads, Live
  <2> QED BY <2>1, <2>4 DEF Intact, Home, Copying, Writing
<1>2. CASE ~\E k \in Kinds, d \in Guids : Start(j, k, d)
  <2>1. \E next \in Copying \cup Writing \cup {"reread", "collect", "compare"} : GoTo(j, next)
    BY <1>2 DEF Step, SessionFails, ReadTable, BeginWrite, RunTasks, Commit, RereadCopy, FindRow,
         CollectRow, Compare, Raise, Kill, Ends, Says, TypeOK, Uploads, Live, Copying, Writing
  <2>2. UNCHANGED <<kind, doc, alone, before>> /\ Uploads(j) /\ alone[j] /\ Intact(j)
    <3>1. UNCHANGED <<kind, doc, alone, before>> /\ alone[j] /\ kind[j] # "AnalyzeDocument"
      BY <2>1 DEF GoTo, Uploads
    <3>2. Live(j)
      BY <1>2, <2>1 DEF Step, GoTo, SessionFails, ReadTable, BeginWrite, RunTasks, Commit, RereadCopy,
           FindRow, CollectRow, Compare, Raise, Kill, Live, Uploads
    <3> QED BY <3>1, <3>2 DEF Uploads, Undisturbed
  <2>3. \A i \in Scripts : Uploads(i)' => i = j
    BY <2>1, <2>2 DEF GoTo, TypeOK, Uploads, Live, Intact
  <2>4. Home(j)' = Home(j) /\ (\A n : GoTo(j, n) => stage'[j] = n) /\ kind[j] # "AnalyzeDocument"
    BY <2>2 DEF Home, GoTo, TypeOK, Uploads
  <2>5. CASE ReadTable(j)
    <3>1. /\ stage'[j] = "copyBegin" /\ view'[j] = disk[Home(j)].rows
          /\ holds'[j] \in {Home(j), "nothing"} /\ UNCHANGED disk
          /\ stage[j] = "session"
      BY <2>4, <2>5 DEF ReadTable, List, TypeOK
    <3> QED BY <2>2, <2>3, <2>4, <3>1 DEF Intact, Copying, Writing
  <2>6. CASE BeginWrite(j) /\ stage[j] = "copyBegin"
    <3>1. /\ stage'[j] = "copyTasks" /\ UNCHANGED view
          /\ disk'["tmp"] = Staging({}) /\ disk'[Home(j)] = disk[Home(j)]
      BY <1>0, <2>4, <2>6 DEF BeginWrite, Target, Copying
    <3>2. holds'[j] = holds[j]
      BY <1>0, <2>2, <2>6 DEF BeginWrite, Target, Intact, Copying
    <3> QED BY <2>2, <2>3, <2>4, <2>6, <3>1, <3>2 DEF Intact, Copying, Writing
  <2>7. CASE BeginWrite(j) /\ stage[j] # "copyBegin"
    <3>1. /\ stage[j] = "begin" /\ stage'[j] = "tasks" /\ UNCHANGED view
          /\ disk'["tmp"] = disk["tmp"] /\ disk'[Home(j)] = Staging({})
      BY <1>0, <2>4, <2>7 DEF BeginWrite, Target, Copying
    <3>2. holds'[j] = holds[j]
      BY <1>0, <2>2, <2>7, <3>1 DEF BeginWrite, Target, Intact, Copying, Writing
    <3> QED BY <2>2, <2>3, <2>4, <3>1, <3>2 DEF Intact, Copying, Writing
  <2>8. CASE RunTasks(j) /\ stage[j] = "copyTasks"
    <3>1. stage'[j] = "copyCommit" /\ UNCHANGED <<view, holds>> /\ Target(j) = "tmp"
      BY <2>4, <2>8 DEF RunTasks, Target, Copying
    <3>2. view[j] = before[j] /\ disk["tmp"] = Staging({})
      BY <2>2, <2>8 DEF Intact
    <3>3. disk'["tmp"] = Staging({before[j]}) /\ disk'[Home(j)] = disk[Home(j)]
      BY <1>0, <2>8, <3>1, <3>2, StageOne DEF RunTasks
    <3> QED BY <2>2, <2>3, <2>4, <2>8, <3>1, <3>2, <3>3 DEF Intact, Copying, Writing
  <2>9. CASE RunTasks(j) /\ stage[j] # "copyTasks"
    <3>1. /\ stage[j] = "tasks" /\ stage'[j] = "commit" /\ UNCHANGED <<view, holds>>
          /\ Target(j) = Home(j)
      BY <2>4, <2>9 DEF RunTasks, Target, Copying
    <3>2. view[j] = before[j] /\ disk[Home(j)] = Staging({})
      BY <2>2, <3>1 DEF Intact
    <3>3. /\ disk'[Home(j)] = Staging({before[j] \cup {doc[j]}})
          /\ disk'["tmp"] = disk["tmp"]
      BY <1>0, <2>9, <3>1, <3>2, StageOne DEF RunTasks
    <3> QED BY <2>2, <2>3, <2>4, <3>1, <3>2, <3>3 DEF Intact, Copying, Writing
  <2>10. CASE Commit(j)
    <3>1. stage[j] = "copyCommit" /\ stage'[j] = "reread" /\ UNCHANGED <<view, holds>>
      BY <2>4, <2>10 DEF Commit, Says, TypeOK, Uploads, Live
    <3>2. disk["tmp"] = Staging({before[j]})
      BY <2>2, <3>1 DEF Intact
    <3>3. disk'["tmp"] = Published(disk["tmp"]) /\ disk'[Home(j)] = disk[Home(j)]
      BY <1>0, <2>10, <3>1 DEF Commit, Target, Copying
    <3>4. disk'["tmp"].dir = "files" /\ disk'["tmp"].rows = before[j]
      <4>1. disk'["tmp"] = Published(Staging({before[j]}))
        BY <3>2, <3>3
      <4>2. /\ Published(Staging({before[j]})).dir = "files"
            /\ Published(Staging({before[j]})).rows = before[j]
        BY CommitOne
      <4> QED BY <4>1, <4>2
    <3> QED BY <2>2, <2>3, <2>4, <3>1, <3>3, <3>4 DEF Intact, Copying, Writing
  <2>11. CASE RereadCopy(j)
    <3>1. /\ stage[j] = "reread" /\ stage'[j] = "begin" /\ UNCHANGED disk
          /\ view'[j] = disk["tmp"].rows /\ holds'[j] = "tmp"
      BY <2>4, <2>11 DEF RereadCopy, List, TypeOK
    <3> QED BY <2>2, <2>3, <2>4, <3>1 DEF Intact, Copying, Writing
  <2> QED
    BY <1>2, <2>1, <2>2, <2>4, <2>5, <2>6, <2>7, <2>8, <2>9, <2>10, <2>11
      DEF Step, SessionFails, FindRow, CollectRow, Compare, Raise, Kill, Ends, Says, Roles,
          Uploads, Live, TypeOK
<1> QED BY <1>1, <1>2

\* Neither its own steps nor those of others disturb an upload that is alone.
LEMMA StepUndisturbed ==
  ASSUME RepositoryInv, NEW i \in Scripts, Step(i)
  PROVE  Undisturbed'
<1> SUFFICES ASSUME NEW j \in Scripts, Uploads(j)', alone'[j]
             PROVE  Intact(j)'
  BY DEF Undisturbed
<1>1. CASE j = i
  BY <1>1, OwnStep
<1>2. CASE j # i
  <2>1. Intact(j)
    BY <1>2, OthersLeave DEF RepositoryInv, Undisturbed
  <2> QED BY <1>2, <2>1, OthersLeave DEF Intact, Home
<1> QED BY <1>1, <1>2

\* Every step keeps the inductive invariant.
LEMMA StepInv ==
  ASSUME RepositoryInv, [Next]_vars
  PROVE  RepositoryInv'
<1>1. ASSUME NEW i \in Scripts, Step(i) PROVE RepositoryInv'
  BY <1>1, StepType, StepRoles, StepHeld, StepUndisturbed DEF RepositoryInv
<1>2. CASE UNCHANGED vars
  <2> USE <1>2 DEF vars
  <2>1. TypeOK'
    BY DEF RepositoryInv, TypeOK
  <2>2. Roles' /\ Held'
    BY DEF RepositoryInv, Roles, Held
  <2>3. Undisturbed'
    <3>1. \A j \in Scripts : (Uploads(j)' <=> Uploads(j)) /\ Home(j)' = Home(j)
      BY DEF Uploads, Live, Home
    <3>2. \A j \in Scripts : Intact(j) => Intact(j)'
      BY <3>1 DEF Intact
    <3> QED BY <3>1, <3>2 DEF RepositoryInv, Undisturbed
  <2> QED BY <2>1, <2>2, <2>3 DEF RepositoryInv
<1> QED BY <1>1, <1>2 DEF Next, Done

\* Every reachable state satisfies the inductive invariant.
THEOREM RepositoryInvariance == Spec => []RepositoryInv
<1>1. Init => RepositoryInv
  BY InitInv
<1>2. RepositoryInv /\ [Next]_vars => RepositoryInv'
  BY StepInv
<1> QED BY <1>1, <1>2, PTL DEF Spec

\* The variables of SparkRepository keep their types.
THEOREM RepositoryTypeCorrect == Spec => []TypeOK
<1>1. RepositoryInv => TypeOK
  BY DEF RepositoryInv
<1> QED BY <1>1, RepositoryInvariance, PTL

---------------------------------------------------------------------------
\* What the scripts guarantee an upload that no other overlaps

\* The scripts never delete files that an upload alone still needs: it fails
\* only when its table was missing from the start, or when Spark fails it.
THEOREM AloneUploadProceeds == Spec => []AloneProceeds
<1>1. RepositoryInv => AloneProceeds
  <2> SUFFICES ASSUME RepositoryInv, NEW j \in Scripts, Uploads(j), alone[j], Throws(j)
               PROVE  stage[j] = "session" /\ disk[Home(j)].dir = "absent"
    BY DEF AloneProceeds
  <2>1. Intact(j) /\ kind[j] # "AnalyzeDocument" /\ stage[j] \notin {"collect", "compare"}
    BY DEF RepositoryInv, Undisturbed, Roles, Uploads
  <2>2. Home(j) # "gone"
    BY DEF Home, Table
  <2>3. stage[j] \notin {"copyTasks", "tasks"} \/ holds[j] # "gone"
    BY <2>1, <2>2 DEF Intact, Copying, Writing
  <2>4. stage[j] \notin {"copyCommit", "commit"} \/ disk[Target(j)].open
    BY <2>1 DEF Intact, Target, Copying, Staging
  <2>5. stage[j] # "reread" \/ disk["tmp"].dir = "files"
    BY <2>1 DEF Intact
  <2> QED BY <2>1, <2>3, <2>4, <2>5 DEF Throws
<1> QED BY <1>1, RepositoryInvariance, PTL

\* Only the commit of its table makes an upload print 1.
LEMMA OnlyCommitStores ==
  ASSUME RepositoryInv, NEW i \in Scripts, Step(i), NEW j \in Scripts, Uploads(j), out'[j] = "1"
  PROVE  i = j /\ Commit(j) /\ stage[j] = "commit"
<1> USE DEF RepositoryInv, TypeOK
<1>0. out[j] # "1"
  BY DEF Roles, Uploads, Live
<1>1. ASSUME NEW line, line # "1", Says(i, line) PROVE FALSE
  BY <1>0, <1>1 DEF Says
<1>2. ASSUME UNCHANGED out PROVE FALSE
  BY <1>0, <1>2
<1>3. CASE SessionFails(i) \/ Compare(i) \/ Raise(i) \/ Kill(i)
  BY <1>1, <1>3 DEF SessionFails, Compare, Raise, Kill, Ends
<1>4. CASE Commit(i)
  <2>1. stage[i] = "commit" /\ Says(i, "1")
    BY <1>2, <1>4 DEF Commit, GoTo
  <2>2. i = j
    BY <1>0, <2>1 DEF Says
  <2> QED BY <1>4, <2>1, <2>2
<1>5. CASE \E k \in Kinds, d \in Guids : Start(i, k, d)
  BY <1>2, <1>5 DEF Start
<1>6. CASE ReadTable(i) \/ BeginWrite(i) \/ RunTasks(i) \/ RereadCopy(i) \/ FindRow(i) \/ CollectRow(i)
  BY <1>2, <1>6 DEF ReadTable, BeginWrite, RunTasks, RereadCopy, FindRow, CollectRow, GoTo
<1> QED BY <1>3, <1>4, <1>5, <1>6 DEF Step

\* An upload that ran alone and reports success has added its row to those it
\* found, whatever failed before it and whatever was read meanwhile.
THEOREM AloneUploadStores == Spec => AloneStores
<1>1. ASSUME RepositoryInv, NEW i \in Scripts, Step(i),
             NEW j \in Scripts, Uploads(j), alone[j], out'[j] = "1"
      PROVE  disk'[Home(j)].rows = before[j] \cup {doc[j]}
  <2>1. Commit(j) /\ stage[j] = "commit"
    BY <1>1, OnlyCommitStores
  <2>2. disk[Home(j)] = Staging({before[j] \cup {doc[j]}})
    BY <1>1, <2>1 DEF RepositoryInv, Undisturbed, Intact
  <2>3. Target(j) = Home(j) /\ Home(j) \in Paths
    BY <2>1 DEF Target, Home, Table, Copying, Paths
  <2>4. disk'[Home(j)] = Published(disk[Home(j)])
    BY <1>1, <2>1, <2>3 DEF Commit, RepositoryInv, TypeOK
  <2> QED BY <2>2, <2>4, CommitOne
<1>2. RepositoryInv /\ [Next]_vars =>
        [\A j \in Scripts : (Uploads(j) /\ alone[j] /\ out'[j] = "1") =>
           disk'[Home(j)].rows = before[j] \cup {doc[j]}]_vars
  BY <1>1 DEF Next, Done
<1> QED BY <1>2, RepositoryInvariance, PTL DEF Spec, AloneStores

\* What a step of an upload that no other overlaps does to the two directories
\* it uses: one of them keeps the rows the upload found.
LEMMA OwnRowsKept ==
  ASSUME RepositoryInv, NEW j \in Scripts, Step(j), Uploads(j), alone[j]
  PROVE  before[j] \subseteq disk'[Home(j)].rows \/ before[j] \subseteq disk'["tmp"].rows
<1> USE DEF RepositoryInv
<1>0. /\ Home(j) \in Paths /\ Home(j) # "tmp" /\ disk \in [Paths -> Directory] /\ "tmp" \in Paths
      /\ Intact(j) /\ kind[j] # "AnalyzeDocument"
  BY DEF Home, Table, Paths, TypeOK, Undisturbed, Uploads
<1>1. /\ stage[j] \notin {"tasks", "commit"} => disk[Home(j)].rows = before[j]
      /\ stage[j] \in Writing => disk["tmp"].rows = before[j]
  BY <1>0 DEF Intact
<1>2. ASSUME NEW p \in Paths, NEW d, disk' = [disk EXCEPT ![p] = d],
             p = Target(j), stage[j] \in Copying \cup Writing
      PROVE  before[j] \subseteq disk'[Home(j)].rows \/ before[j] \subseteq disk'["tmp"].rows
  <2>1. CASE stage[j] \in Copying
    <3>1. disk'[Home(j)] = disk[Home(j)]
      BY <1>0, <1>2, <2>1 DEF Target
    <3> QED BY <1>1, <2>1, <3>1 DEF Copying
  <2>2. CASE stage[j] \in Writing
    <3>1. disk'["tmp"] = disk["tmp"]
      BY <1>0, <1>2, <2>2 DEF Target, Copying, Writing
    <3> QED BY <1>1, <2>2, <3>1
  <2> QED BY <1>2, <2>1, <2>2
<1>3. ASSUME UNCHANGED disk
      PROVE  before[j] \subseteq disk'[Home(j)].rows \/ before[j] \subseteq disk'["tmp"].rows
  BY <1>1, <1>3 DEF Writing
<1>4. CASE SessionFails(j) \/ ReadTable(j) \/ RereadCopy(j) \/ FindRow(j) \/ CollectRow(j) \/ Compare(j)
  BY <1>3, <1>4 DEF SessionFails, ReadTable, RereadCopy, FindRow, CollectRow, Compare
<1>5. CASE \E k \in Kinds, d \in Guids : Start(j, k, d)
  BY <1>3, <1>5 DEF Start
<1>6. Target(j) \in Paths
  BY <1>0 DEF Target
<1>7. CASE BeginWrite(j)
  BY <1>2, <1>6, <1>7 DEF BeginWrite, Copying, Writing
<1>8. CASE Commit(j)
  BY <1>2, <1>6, <1>8 DEF Commit, Copying, Writing
<1>9. CASE RunTasks(j)
  <2>1. \E d : disk' = [disk EXCEPT ![Target(j)] = d]
    BY <1>0, <1>6, <1>9 DEF RunTasks
  <2> QED BY <1>2, <1>6, <1>9, <2>1 DEF RunTasks, Copying, Writing
<1>10. ASSUME NEW line, NEW d, Ends(j, line, d),
              stage[j] \notin Copying \cup Writing => d = disk[Target(j)]
       PROVE  before[j] \subseteq disk'[Home(j)].rows \/ before[j] \subseteq disk'["tmp"].rows
  <2>1. CASE stage[j] \in Copying \cup Writing
    BY <1>2, <1>6, <1>10, <2>1 DEF Ends
  <2>2. CASE stage[j] \notin Copying \cup Writing
    BY <1>0, <1>3, <1>10, <2>2 DEF Ends
  <2> QED BY <2>1, <2>2
<1>11. \A d \in LeftBehind(j) : stage[j] \notin Copying \cup Writing => d = disk[Target(j)]
  BY DEF LeftBehind, Copying, Writing
<1>12. CASE Raise(j) \/ Kill(j)
  BY <1>10, <1>11, <1>12 DEF Raise, Kill
<1> QED BY <1>4, <1>5, <1>7, <1>8, <1>9, <1>12 DEF Step

\* Wherever an upload that no other overlaps fails or is killed, the rows it
\* found are in its table or in tmp.
THEOREM RowsSurviveAloneUpload == Spec => EarlierRowsKept
<1> DEFINE Kept(j) == \/ before[j] \subseteq disk'[Home(j)].rows
                      \/ before[j] \subseteq disk'["tmp"].rows
<1>1. ASSUME RepositoryInv, NEW i \in Scripts, Step(i), NEW j \in Scripts, Uploads(j), alone'[j]
      PROVE  Kept(j)
  <2>1. alone[j]
    <3>1. CASE \E k \in Kinds, d \in Guids : Start(i, k, d)
      <4>1. stage[i] = "new" /\ i # j
        BY <1>1, <3>1 DEF Start, Uploads, Live
      <4> QED BY <1>1, <3>1, <4>1 DEF Start
    <3>2. CASE ~\E k \in Kinds, d \in Guids : Start(i, k, d)
      BY <1>1, <3>2 DEF Step, SessionFails, ReadTable, BeginWrite, RunTasks, Commit, RereadCopy,
           FindRow, CollectRow, Compare, Raise, Kill, Ends, GoTo, Says
    <3> QED BY <3>1, <3>2
  <2>2. CASE i = j
    BY <1>1, <2>1, <2>2, OwnRowsKept
  <2>3. CASE i # j
    <3>1. Uploads(j)' /\ UNCHANGED disk
      <4>1. Uploads(j)'
        BY <1>1, <2>3 DEF Step, Start, SessionFails, ReadTable, BeginWrite, RunTasks, Commit,
             RereadCopy, FindRow, CollectRow, Compare, Raise, Kill, Ends, GoTo, Says,
             RepositoryInv, TypeOK, Uploads, Live
      <4> QED BY <1>1, <2>3, <4>1, OthersLeave
    <3>2. /\ stage[j] \notin {"tasks", "commit"} => disk[Home(j)].rows = before[j]
          /\ stage[j] \in Writing => disk["tmp"].rows = before[j]
      BY <1>1, <2>1 DEF RepositoryInv, Undisturbed, Intact
    <3> QED BY <3>1, <3>2 DEF Writing
  <2> QED BY <2>2, <2>3
<1>2. RepositoryInv /\ [Next]_vars =>
        [\A j \in Scripts : (Uploads(j) /\ alone'[j]) => Kept(j)]_vars
  BY <1>1 DEF Next, Done
<1> QED BY <1>2, RepositoryInvariance, PTL DEF Spec, EarlierRowsKept
===========================================================================
