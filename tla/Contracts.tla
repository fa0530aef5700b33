---------------------------- MODULE Contracts ----------------------------
(***************************************************************************)
(* What the services exchange: the commands CommandService publishes, the  *)
(* statuses and the events CommandHandler records, and what each handler   *)
(* makes of the last line its Spark script prints.                         *)
(***************************************************************************)
EXTENDS Integers, Sequences, FiniteSets

CONSTANTS
  Users,      \* user ids, from the JWT
  Guids,      \* the ids Guid.NewGuid() hands out, and the ids clients name
  EmptyGuid   \* Guid.Empty

ASSUME EmptyGuidAssumption == EmptyGuid \notin Guids

Kinds == {"AddDocumentToAnalysis", "AddDocumentToSourceStore", "AnalyzeDocument"}

OperationStatus ==
  {"NotInitialized", "NotStarted", "Waiting", "Running", "Complete", "Failed"}

\* A command without its id: who asked, and for which document.
Command == [kind : Kinds, user : Users, file : Guids]

\* The last line of a script's standard output, by what the handlers tell apart:
\* "1" and "-1", a similarity score, or any text that is not a number.
Lines == {"1", "-1", "score", "text"}

\* An upload script prints 1 or -1, the detection script a score or -1. Any of
\* them leaves other text last when its process dies before it prints, and
\* spark_save_file_to_analysis.py prints the exception after its -1.
Printed(kind) ==
  IF kind = "AnalyzeDocument" THEN {"score", "-1", "text"} ELSE {"1", "-1", "text"}

\* What double.TryParse accepts.
IsDouble(line) == line # "text"

\* The status a handler records before it runs its script.
OpeningStatus(kind) ==
  IF kind = "AnalyzeDocument" THEN "Running" ELSE "NotInitialized"

\* The status a handler records from the script's last line.
ClosingStatus(kind, line) ==
  IF kind = "AnalyzeDocument"
  THEN IF IsDouble(line) THEN "Complete" ELSE "Failed"
  ELSE IF line = "-1" THEN "Failed"
  ELSE IF kind = "AddDocumentToAnalysis" THEN "NotStarted" ELSE "Complete"

\* The Result of a closing event: the parsed line, or the default 0.0.
ClosingResult(kind, line) ==
  IF kind = "AnalyzeDocument" /\ IsDouble(line) THEN line ELSE "zero"

Results == Lines \cup {"zero"}

\* A status that says an operation is over.
Settling(status) == status \in {"NotStarted", "Complete", "Failed"}
===========================================================================
