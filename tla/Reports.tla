------------------------------- MODULE Reports -------------------------------
(***************************************************************************)
(* What the supervisor reads of the records: the list of a period, the     *)
(* detail and the document of one inspection, the ZIP of a period, the     *)
(* summary, the page of findings and the page of conflicts                 *)
(* (InspectionExportService, InspectionExportLoteService,                  *)
(* DashboardService, SyncService.listConflicts).                           *)
(*                                                                         *)
(* Every read is a transaction of its own, one action here, and the        *)
(* ingestion goes on between two of them.  An answer is the number of      *)
(* times its row was written; a document is what was read to fill it in.   *)
(* The photo of an inspection, if its template asks for one, is the one of *)
(* PhotoFiles with its name.                                               *)
(***************************************************************************)
EXTENDS PhotoFiles, Sequences, FiniteSets

CONSTANTS Inspection, Finding,
          Unframed,      \* no revision, or one whose definition does not parse
          Unexportable,  \* and those with no original, or one that does not pair
          BaseName,      \* site, date and first letters of the id of each
          TopeLote,      \* TOPE_INSPECCIONES_LOTE
          MaxWrites,     \* bound of the instance: writes of the ingestion
          MaxReports     \* bound of the instance: reports asked for

ASSUME ReportsAssumption ==
  /\ IsFiniteSet(Inspection) /\ Photo \subseteq Inspection
  /\ Unframed \subseteq Unexportable /\ Unexportable \subseteq Inspection
  /\ {TopeLote, MaxWrites, MaxReports} \subseteq Nat

VARIABLES
  answer,    \* inspections that arrived: writes of their answer
  finding,   \* table finding: the state of each
  conflicts, \* rows of conflict_record
  writes,    \* writes of the ingestion so far
  job,       \* the report being made
  zip,       \* the ZIP of the last report: its files and its manifest
  audit,     \* the row of audit_log of the last report
  reports,   \* reports asked for so far
  raced      \* history: something was written while the report was read

reportVars == <<answer, finding, conflicts, writes, job, zip, audit, reports, raced>>
storeVars == <<answer, finding, conflicts, writes>>
lotVars == <<zip, audit>>

Severity == {"minor", "urgent", "resolved"}  \* resolved: urgent once, status resolved
Query == {"estados", "severidad", "urgentes", "autores", "items", "total"}

NoDocument == [answer |-> 0, photo |-> 0, bytes |-> 0]
NoJob == [kind |-> "none", pc |-> "idle", asked |-> {}, left |-> {}, current |-> Nothing,
          document |-> NoDocument, entries |-> << >>, got |-> << >>]
NoZip == [files |-> << >>, asked |-> {}, entries |-> << >>]

ReportsInit ==
  /\ PhotoInit
  /\ \E S \in SUBSET Inspection : answer = [i \in S |-> 1]
  /\ finding = << >>
  /\ conflicts = 0
  /\ writes = 0
  /\ job = NoJob
  /\ zip = NoZip /\ audit = << >>
  /\ reports = 0
  /\ raced = FALSE

Arrived == DOMAIN answer
Set(f, key, value) == [k \in DOMAIN f \cup {key} |-> IF k = key THEN value ELSE f[k]]

----------------------------------------------------------------------------
(* The ingestion                                                           *)

\* Something that the report reads has changed, or is changing on the volume.
Written == raced' = (job # NoJob)

\* An inspection with its answer, or a later version of the answer.
IngestAnswer(i) ==
  /\ writes < MaxWrites /\ writes' = writes + 1
  /\ answer' = Set(answer, i, IF i \in Arrived THEN answer[i] + 1 ELSE 1)
  /\ Written
  /\ UNCHANGED <<photoVars, finding, conflicts, job, lotVars, reports>>

\* A resolved finding was urgent, and stays resolved.
IngestFinding(f, s) ==
  /\ writes < MaxWrites /\ writes' = writes + 1
  /\ f \in DOMAIN finding => finding[f] # "resolved" /\ s # finding[f]
  /\ finding' = Set(finding, f, s)
  /\ Written
  /\ UNCHANGED <<photoVars, answer, conflicts, job, lotVars, reports>>

\* recordConflict adds a row, and none is changed or removed.
IngestConflict ==
  /\ writes < MaxWrites /\ writes' = writes + 1
  /\ conflicts' = conflicts + 1
  /\ Written
  /\ UNCHANGED <<photoVars, answer, finding, job, lotVars, reports>>

\* The photo refers to an answer that is stored (assertRefs).
IngestPhoto ==
  /\ \E x \in Upload : PhotoStep(x)
  /\ \A x \in Upload : upload'[x].photo \in Arrived \cup {Nothing}
  /\ Written
  /\ UNCHANGED <<storeVars, job, lotVars, reports>>

----------------------------------------------------------------------------
(* listar, detalle, exportar, exportarLote                                 *)

Ask ==
  /\ reports < MaxReports /\ reports' = reports + 1
  /\ job = NoJob
  /\ zip' = NoZip /\ audit' = << >> /\ raced' = FALSE
  /\ UNCHANGED <<photoVars, storeVars>>

Read == UNCHANGED <<photoVars, storeVars, lotVars, reports, raced>>

\* listar with the filter S.  An empty list is a 404, a long one a 413, and
\* neither leaves a trace.
LotAsk(S) ==
  /\ Ask
  /\ job' = IF S = {} \/ Cardinality(S) > TopeLote THEN NoJob
            ELSE [NoJob EXCEPT !.kind = "lot", !.pc = "next", !.asked = S, !.left = S]

\* detalle and exportar of one inspection; an id that is not there is a 404.
OneAsk(kind, i) ==
  /\ Ask
  /\ job' = IF i \notin Arrived THEN NoJob
            ELSE [NoJob EXCEPT !.kind = kind, !.pc = "revision", !.current = i]

NextOfLot(i) ==
  /\ job.pc = "next" /\ i \in job.left
  /\ job' = [job EXCEPT !.pc = "revision", !.current = i, !.left = @ \ {i},
                        !.document = NoDocument]
  /\ Read

\* The lot goes on with the reason in its manifest; a single document is an error.
Failed(entry) ==
  job' = IF job.kind = "lot"
         THEN [job EXCEPT !.pc = "next", !.entries = Append(@, entry)]
         ELSE NoJob
FailedEntry == [inspection |-> job.current, file |-> Nothing, document |-> NoDocument]

\* revisionDe and definitionDe; for a document also getRevisionOriginal,
\* proponerImport, emparejarItemsConOrigen.  What they need never changes once
\* published.
ReadRevision ==
  /\ job.pc = "revision"
  /\ IF job.current \in (IF job.kind = "detail" THEN Unframed ELSE Unexportable)
     THEN Failed(FailedEntry)
     ELSE job' = [job EXCEPT !.pc = "answers"]
  /\ Read

\* camposDe.
ReadAnswers ==
  /\ job.pc = "answers"
  /\ job' = [job EXCEPT !.pc = IF job.kind = "detail" THEN "done" ELSE "photos",
                        !.document.answer = answer[job.current]]
  /\ Read

\* evidenciasDe: the rows of the photos ...
PhotoOf(i) == IF i \in Photo THEN photo[i] ELSE 0

ReadPhotos ==
  /\ job.pc = "photos"
  /\ job' = [job EXCEPT !.pc = IF PhotoOf(job.current) = 0 THEN "done" ELSE "bytes",
                        !.document.photo = PhotoOf(job.current)]
  /\ Read

\* ... and then the file of each; one that is not there fails the document.
ReadBytes ==
  LET f == File(job.current, job.document.photo) IN
  /\ job.pc = "bytes"
  /\ IF volume[f] = 0 THEN Failed(FailedEntry)
     ELSE job' = [job EXCEPT !.pc = "done", !.document.bytes = volume[f]]
  /\ Read

\* nombreUnico: the base, or the first number that is free.
Used == {e.file : e \in {job.entries[k] : k \in DOMAIN job.entries}}

\* Mutant: the names are not compared with those in use.
MutNombreUnico(i) == <<BaseName[i], 1>>

NombreUnico(i) ==
  LET free == {n \in 1 .. Len(job.entries) + 1 : <<BaseName[i], n>> \notin Used} IN
  <<BaseName[i], CHOOSE n \in free : \A m \in free : n <= m>>

AddToLot ==
  /\ job.kind = "lot" /\ job.pc = "done"
  /\ job' = [job EXCEPT !.pc = "next",
               !.entries = Append(@, [inspection |-> job.current, file |-> NombreUnico(job.current),
                                      document |-> job.document])]
  /\ Read

Answered == job.kind \in {"detail", "one"} /\ job.pc = "done" /\ job' = NoJob /\ Read

\* empaquetar: the files by name, and the manifest.
Exported == {e \in {job.entries[k] : k \in DOMAIN job.entries} : e.file # Nothing}
Empaquetar ==
  [files |-> [n \in {e.file : e \in Exported} |->
                (CHOOSE e \in Exported : e.file = n).document],
   asked |-> job.asked, entries |-> job.entries]

\* auditar: a failure of the INSERT is logged and swallowed.
Auditar ==
  audit' \in {<< >>, << [exported |-> {e.inspection : e \in Exported},
                         failed |-> Cardinality(job.asked) - Cardinality(Exported)] >>}

\* Nothing exported is a 422, audited all the same.
Pack ==
  /\ job.pc = "next" /\ job.left = {}
  /\ zip' = IF Exported = {} THEN NoZip ELSE Empaquetar
  /\ Auditar
  /\ job' = NoJob
  /\ UNCHANGED <<photoVars, storeVars, reports, raced>>

----------------------------------------------------------------------------
(* summary, findings and listConflicts: their queries run in parallel      *)

SummaryAsk == Ask /\ job' = [NoJob EXCEPT !.kind = "summary", !.pc = "queries"]
FindingsAsk == Ask /\ job' = [NoJob EXCEPT !.kind = "findings", !.pc = "queries"]
ConflictsAsk == Ask /\ job' = [NoJob EXCEPT !.kind = "conflicts", !.pc = "queries"]

QueriesOf(kind) == IF kind = "summary" THEN {"estados", "severidad", "urgentes", "autores"}
                   ELSE {"items", "total"}

Count(S) == Cardinality({f \in DOMAIN finding : finding[f] \in S})

\* What a page is of.
Listed == IF job.kind = "conflicts" THEN conflicts ELSE Count(Severity)

\* Mutant: the findings that are resolved count as urgent.
MutAnswerOf(q) ==
  CASE q = "estados" -> Cardinality(Arrived)
    [] q = "autores" -> IF Arrived = {} THEN 0 ELSE 1
    [] q = "severidad" -> Count({"urgent"})
    [] q = "urgentes" -> Count({"urgent", "resolved"})
    [] q \in {"items", "total"} -> Listed

\* severidad is the sum of high and critical; no page is cut by LIMIT.
AnswerOf(q) ==
  CASE q = "estados" -> Cardinality(Arrived)
    [] q = "autores" -> IF Arrived = {} THEN 0 ELSE 1
    [] q = "severidad" -> Count({"urgent", "resolved"})
    [] q = "urgentes" -> Count({"urgent"})
    [] q \in {"items", "total"} -> Listed

RunQuery(q) ==
  /\ job.pc = "queries"
  /\ q \in QueriesOf(job.kind) \ DOMAIN job.got
  /\ job' = [job EXCEPT !.got = Set(@, q, AnswerOf(q))]
  /\ Read

AnswerQueries ==
  /\ job.pc = "queries" /\ DOMAIN job.got = QueriesOf(job.kind)
  /\ job' = NoJob
  /\ Read

\* An error of the database, a caller who left, the death of the process.
GiveUp == job # NoJob /\ job' = NoJob /\ Read

----------------------------------------------------------------------------
Ingest ==
  \/ \E i \in Inspection : IngestAnswer(i)
  \/ \E f \in Finding, s \in Severity : IngestFinding(f, s)
  \/ IngestConflict \/ IngestPhoto

Document ==
  \/ ReadRevision \/ ReadAnswers \/ ReadPhotos \/ ReadBytes
  \/ AddToLot \/ Answered
  \/ \E i \in Inspection : NextOfLot(i)
  \/ Pack

Asking ==
  \/ \E S \in SUBSET Arrived : LotAsk(S)
  \/ \E i \in Inspection, kind \in {"one", "detail"} : OneAsk(kind, i)
  \/ SummaryAsk \/ FindingsAsk \/ ConflictsAsk

ReportsNext ==
  \/ Ingest
  \/ Asking \/ Document
  \/ (\E q \in Query : RunQuery(q)) \/ AnswerQueries \/ GiveUp

ReportsSpec == ReportsInit /\ [][ReportsNext]_<<photoVars, reportVars>>

----------------------------------------------------------------------------
\* FR-045, FR-047: the ZIP of a period accounts for every inspection of it,
\* whatever failed in between.  Each is in the manifest once, each one exported
\* has a file of its own with its own document, and the audit row says the same.
LotAccountsForAll ==
  LET entries == {zip.entries[k] : k \in DOMAIN zip.entries}
      exported == {e \in entries : e.file # Nothing} IN
  /\ {e.inspection : e \in entries} = zip.asked
  /\ Len(zip.entries) = Cardinality(zip.asked)
  /\ \A e \in exported : zip.files[e.file] = e.document
  /\ Cardinality(DOMAIN zip.files) = Cardinality(exported)
  /\ zip # NoZip /\ audit # << >> =>
       /\ audit[1].exported = {e.inspection : e \in exported}
       /\ audit[1].failed = Cardinality(entries \ exported)

\* When nothing was ingested while a report was read, it is of one moment: the
\* document has the last answer and the last photo, whose file still has the
\* bytes of its row unless it changed hands, and the counts that the
\* supervisor compares agree.
ReportIsOfOneMoment ==
  job # NoJob /\ ~raced =>
    /\ job.kind \in {"one", "detail", "lot"} /\ job.pc = "done" =>
         /\ job.document.answer = answer[job.current]
         /\ job.kind # "detail" => job.document.photo = PhotoOf(job.current)
         /\ job.document.photo # 0 =>
              job.document.bytes = job.document.photo \/ job.current \in disputed
    /\ {"severidad", "urgentes"} \subseteq DOMAIN job.got =>
         job.got["urgentes"] <= job.got["severidad"]
    /\ {"estados", "autores"} \subseteq DOMAIN job.got =>
         (job.got["estados"] = 0 <=> job.got["autores"] = 0)
    /\ {"items", "total"} \subseteq DOMAIN job.got => job.got["items"] = job.got["total"]
=============================================================================
