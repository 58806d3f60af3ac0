# Verification of Terreno Conectado

TLA+ models of the program under `src/`, the TLC configurations that check them on
small instances, and proofs that TLAPS checks for every instance. A field worker
captures inspections on a device without signal, on forms that the office publishes; the
device sends them in batches when it can; the server keeps one row per entity, decides
between versions by *last writer wins*, audits both sides of every conflict, and fills
the original workbook in again for the supervisor. The project asks whether anything is
lost, stored twice, stored out of order or reported wrongly on the way, and whether a
form, a session, a photo or a report can end up as another one than was meant.

Paths below are relative to `src/`.

## 1. The system

### Components

| Component | State | Operations | Correct when |
|---|---|---|---|
| **Sync ingestion** `backend/src/sync/sync.service.ts` | domain tables (`inspection`, `inspection_response`, `finding`, `log_entry`, `attachment`), `conflict_record`, `sync_log`, `audit_log` | `batch`: validate all, open log, one transaction per record in `BATCH_ORDER`, close log, answer | no committed version is lost; a retry writes nothing twice; references hold; log and answer tell what was committed |
| **Storage volume** `backend/src/storage/*`, photo branch of `sync.service.ts` | files named by photo and type | write, replace, remove | a photo that has a row has its bytes |
| **Conflict view** `conflicts.controller.ts`, `listConflicts` | none | filtered SELECT and COUNT | shows what is stored |
| **Device database and handlers** `frontend/src/lib/db.ts`, `store.tsx` | IndexedDB: inspections, responses, findings, attachments, log entries, `outbox`, `meta.draftInspectionId` | capture an answer, photo or finding, log entry, submit, discard a draft or a queued unit, reset | what was submitted is queued; what is queued exists |
| **Sync worker** `frontend/src/lib/sync.ts` | `enCurso`, `retryTimer`, `sincronizacionPermitida`, status of the outbox rows | `sincronizarCola`, timer, signal switch | rows shown as synced are on the server; failed rows are retried |
| **Sessions** `backend/src/auth/*` | `auth_session` rows with family and revocation, `failed_login_count`, `locked_until`; counters per address in memory | login, refresh with rotation, revocation of a family (there is no logout) | one open session per user; a reused token kills its family; guesses are limited |
| **Administration** `backend/src/admin/admin.service.ts` | `tenant.status`, users, `audit_log` | create, suspend, reactivate a tenant; assign a tenant_admin | suspension closes the sessions and stays in force; the audit tells the state |
| **Templates** `backend/src/templates/templates.service.ts` | `template`, `template_revision`, sections and items, assignments, `published_seq` | draft, edit, publish, archive, assign, delta by cursor | what is published never changes and is numbered without gaps; the delta misses nothing |
| **Template import** same file, `frontend/src/screens/Importar.tsx`, `shared/src/xlsx/import.ts` | `template_imports` with a status, the file on the volume; the five steps of the wizard | upload, propose, edit, confirm, publish | confirmed once; published as it was shown |
| **Forms of the device** `frontend/src/lib/store.tsx`, `plantillas.ts`, `catalogo-formularios.ts` | cached session, catalogue per account, revisions, original workbooks, chosen form | start, login, logout, load, choose, download, purge | an account sees its own forms; an open draft keeps its form and its original |
| **Dashboard and export** `backend/src/dashboard/*`, `frontend/src/screens/Dashboard.tsx` | what the screen shows; one audit row per export | figures, list, detail, document, ZIP of a period | of one moment, of the filter shown, nothing left out |
| **xlsx library, field values** `shared/src/xlsx/*`, `frontend/src/lib/valores.ts`, `components/Campos.tsx` | the answers in their columns | read, propose, validate, serialise, fill | an answer stands below its own header |
| **Row level security and migrations**, **logging and health**, **REST client**, **other screens** | – | – | – |

### How they interact

* The handlers of the store write the device's tables and the outbox in Dexie
  transactions, and call `sincronizarAhora`, which is a no-op without signal or
  while a batch flies. Handlers and worker share the tables and nothing else.
* The worker reads up to 500 queued rows, marks them `syncing`, builds each record
  from its table, and sends one POST. Answer, refusal, timeout and exception all end
  in `synced` or `failed` rows, with a retry timer when something failed.
* The server handles several POSTs at once. They meet only in the database, in
  READ COMMITTED transactions, one per record.
* An abandoned request may still be processed; its retry has the same records
  under another `batch_id`. Idempotence rests on the ids (UUIDv7 of the device) and
  on `captured_at` and `client_version`.
* Sessions and administration meet in `auth_session` and `tenant`, one statement at a
  time, with no transaction around them.
* The wizard makes a template of a workbook by requests that may overlap; the catalogue
  assigns its revisions; each device loads the ones of its account and keeps them, and
  their workbooks, for the time without signal.
* An export reads the rows of the sync, the photos of the volume and the original
  workbook, each in a transaction of its own, while batches keep arriving.

### What is hard

Interleaved handlers that read before an await and write after it; a page that may
die at every await with its queue half marked; transactions that read a row without
a lock and then update it; an answer lost after its batch was committed; a batch that
half fails; limits (500 rows in a batch, 5 errors in an answer); checks that are one
statement and the write that relies on them another; a number drawn before the commit
that makes it visible; files that no rollback takes back; screens that stay usable while
an answer is on its way; a device that two accounts share. `PROJECT.json` lists
each hazard at its line with the properties that would catch it going wrong, or the
reason why none does yet.

## 2. The modules

| Module | What it is |
|---|---|
| `Lww` | the version order: `decideLww`, `lwwWins` |
| `SyncIngest` | the server: concurrent batches, a transaction per record, crash |
| `SyncIngestProofs` | proofs about `SyncIngest`: types, versions, batches |
| `ClientOutbox` | the device: capture handlers, queue, worker, signal, death of the page |
| `ClientOutboxProofs` | proofs about `ClientOutbox` |
| `SyncPromise` | abstract: what the whole promises of one record |
| `SyncSystem` | `ClientOutbox` with network and server; refines `SyncPromise` |
| `SyncSystemProofs` | proofs about `SyncSystem`, the two refinements among them |
| `Sessions`, `SessionsProofs` | login, refresh, suspension, administrators, by statement |
| `TemplateCatalog`, `TemplateCatalogProofs` | the templates on the server, their import, and the delta |
| `PublicationLog` | abstract: the versions of a template, a list that only grows |
| `ImportWizard` | the wizard and its requests |
| `FilledWorkbook` | from a workbook to a form, its answers, and the workbook filled in |
| `DashboardScreen` | the dashboard and its overlapping loads |
| `OfficeScreensProofs` | proofs about `DashboardScreen` and `ImportWizard` |
| `DeviceForms`, `DeviceFormsProofs` | the session of the device, its catalogue and its forms |
| `PhotoFiles` | the photos on the volume |
| `Reports` | what the supervisor reads while batches arrive; extends `PhotoFiles` |
| `ReportsProofs` | proofs about `PhotoFiles` and `Reports` |
| `MCSyncIngest`, `MCClientOutbox`, `MCSyncSystem`, `MCSessions`, `MCBackOffice`, `MCFormsReports` | the instances TLC runs |

`MCBackOffice` and `MCFormsReports` each put parts side by side that share no
variable. Their `side` chooses one part for a whole behaviour, so the states are the sum
of the parts' states and not the product, and what a run shows of a part is what its own
specification would show.

### `SyncIngest`

One constant `Request` per POST; a retry is another request. `row` is the domain
tables (a row is the record it was last written from), `conflicts` is
`conflict_record`, `syncLog` the status of each request's log. `phase`, `todo`,
`cur`, `seen` and `dupe` are the program counter and the locals of each handler; `ok`,
`applied`, `failed`, `errors` are what it counts.

The grain is the SQL statement where another transaction may act in between:

| Action | Code |
|---|---|
| `RejectForeign`, `RejectMalformed`, `Accept` | the two passes of `validate`, `auditTenantMismatch`, `beginSyncLog` |
| `BeginRecord`, `RefuseOrphan` | the loop of `process`, BEGIN, `assertRefs` |
| `SelectExisting` | the unlocked SELECT |
| `Insert`, `InsertDuplicateKey` | INSERT with COMMIT, or the primary key refusing it |
| `ReplayEqual` | `decideLww` says equal |
| `FindConflict`, `KeepStored`, `Overwrite` | `recordConflict` in its two statements, then the UPDATE and COMMIT |
| `TransactionFails` | any statement fails; the catch of the loop |
| `Finish` | status and `finishSyncLog` |
| `Crash` | the Node process dies; open transactions roll back |

The last write of a transaction and its COMMIT are one step: an uncommitted row is
invisible, and another writer of it waits. `committed` and `raced` are history
variables: the second holds the ids some handler updated although the row was no
longer the one it had read. Of a payload the model keeps what `payloadFromRow`
returns. References to tables no batch writes (site, user, template) are not in
`Refs`: a missing one ends as `TransactionFails` does. The files of the photos are in
`PhotoFiles`.

### `ClientOutbox`

`local` says of each id whether its record is in the device's tables, `row` is the
status of its outbox row. A handler is split where it awaits something that others
can interleave with: the lookup of the draft (`BeginCapture`, `FindNoDraft`,
`CreateDraft`) before the write (`WriteResponse`, `SaveFinding`), the lookup of the photo
of an answer (`LookUpPhoto`, kept in `found`) before it is replaced or removed
(`SavePhoto`, `ClearPhoto`), the geolocation in a submit (`BeginSubmit`, `Submit`), the reads of
`descartarBorrador` before its transaction (`BeginDiscard`, `Discard`). The worker
has one action per await of `sincronizarCola`: `ReadQueue`, `NothingToSend`,
`MarkSending`, `BuildRequest` or `BuildFails`, then `Settle` or `FetchFails`. `Crash`
is a reload or the death of the page: what is in IndexedDB stays.

Taken as one step although the code awaits inside: the marking of the rows of a batch
(`marcarEnviando` and `marcarFallido` update row by row), and adding a new draft with
its pointer. So is the lookup of an answer with its write (db.ts:460): what can come
between the two is another change of the same item, which would add a second answer, and
in the model an item has one handler at a time; the hazard is listed without a property.
A discard between the two ends as in the model: an answer looked up and
deleted is gone, one not found is added without its inspection. Ties in the order of the queue are broken in any way. An edited answer
keeps its id. The tenant and the session do not change. How long the backoff waits is
left out: a programmed retry is due at any later time.

### `SyncSystem` and `SyncPromise`

The device with one server and a network. A batch is handled in one step here: the
server stores some records, each after those it refers to, and lists at most
`MaxErrors` of the others. The request can be lost, be cut short by a crash, or be
given up and arrive later next to its retry (`astray`). `missed` and `cut` are history:
the failures that the answer on its way had no room for, and those of all the answers
that were heard. That the server may be taken
so is what `SyncIngest` shows: `ReferencesHold`, `BothVersionsKept` and
`AppliedOnce`; the versions of a record are left out here. This link is an
abstraction by hand, not a refinement that is checked.

`SyncPromise` is one stage per record: *none*, *held* by the device alone, *stored*
by the server, *synced* on the device, *dropped* by the user; and the moves allowed
between them. A record in `cut` may also be *claimed*: shown as synced with no row on
the server. `SyncSystem` implements it under the mapping `Stage` (property
`KeepsPromise`), whatever the size of batch and answer: no record that an answer had
room for becomes synced before it is stored, and what is stored never goes back.

### `Sessions`

Every query of `AuthService` and `AdminService` is its own transaction, so a request is a
chain of statements: `req` holds the step each one is at and what it has read. A login is
`LoginRead`, the comparison of the password (`LoginFails`, `LoginMatches`),
`LoginRevoke`, `CreateSession`; a refresh is `RefreshRead`, then `RefreshKill` and
`RefreshAudit` for a row already revoked, `RefreshExpire`, or `RefreshAccount`,
`RefreshRotate`, `CreateSession`; a change of status is `StatusRead` and `StatusWrite`,
one statement with its revocations and its audit row. Counters per address are memory and
go with `Crash`. The clock is the environment: a lock, a block, a session, an access
token may run out at any moment. `outdated` marks a request whose reads have been
overtaken, and `excused` the sessions such a request left behind: the properties are
about all the others, and about when the mark is cleared again.

### `PhotoFiles` and `Reports`

`photo` is the version in the row, `volume` the version of the bytes in each file; a file
is named by the photo and its type, as in the code, so two versions of one type share a
name. One action is one effect: `WriteFile`, `InsertRow` or `UpdateRow`, `RemoveOld`,
`CommitPhoto`; `RowFails` with `RemoveNew` is the catch, `AbortPhoto` a failed COMMIT or
a crash. `disputed` are the photos whose file changed hands: written beside another
upload, replaced by one of its own type, or removed for a COMMIT that then failed.

`Reports` adds the readers: every read (`ReadRevision`, `ReadAnswers`, `ReadPhotos`,
`ReadBytes`, one query of the summary, of the findings or of the conflicts) is an action,
and the ingestion goes on between them. `raced` says that it did. `AddToLot`, `Pack` and
the audit row make the ZIP.

### `DeviceForms`

A task is a chain of awaits of `store.tsx`: a start of the page, a login, a reload of the
catalogue, a choice of a form. Each action is the code between two awaits, with what the
code does when it finds that the session has changed, where it looks. Several tasks run
at once, of two accounts in turn. `Plan` is `planificarPurga`, `Choose` is
`elegirPlantillaActiva`, `ToDownload` is `revisionesParaOriginal`. `crossed` are accounts
whose task was running when another one logged in, or whose cached session was run with
the token of another, `reframed` a draft opened while a form was being chosen. The list, the form chosen last and the draft
are read and the form shown in the order of the code (`ShowList`, `ReadFrame`,
`ShowForm`); `SyncFails` is the catch of `cargarPlantilla`, which goes on with the
catalogue as it is stored. A change of signal (`SignalChanges`) comes at any time,
beside any task, during the start too; the start it causes takes a task, and the reload
one more. The token
is in the `sessionStorage` of a tab (api.ts:5) and the session in the database of the
device, so a tab that is opened anew (`Reopen`) may have lost the one and kept the other.

### `TemplateCatalog` and `PublicationLog`

A publication is `PublishRead`, `PublishNumber`, `PublishWrite` and `PublishCommit`; a
confirmation `ConfirmRead`, `ConfirmWrite` and `ConfirmCommit`; `Waits` and `Collides`
are the locks and the unique indexes, `Rollback` any failure. `nextSeq` is drawn in the
write, visible at the commit. The delta reads its items and its ceiling in two
transactions (`DeltaItems`, `DeltaMax`). `PublicationLog` is what an inspection relies
on that keeps (template, version): `AppendsToTheLog` is the refinement, with the list of
each template computed from the published rows.

The device of today asks for the whole catalogue (catalogo-formularios.ts:26-28). The
client of the delta in the model is the one of `plantillas.ts` (`fusionarDelta`,
`cursorDesdeGuardado`), which tests call and the screens do not.

### `ImportWizard`, `DashboardScreen`

The state of the screen, the requests on their way, and as much of the server as answers
them. The wizard: `LeerArchivo`, `GuardarBorrador`, `Publicar` ask, `ServeUpload` and so
on are the server, `HearUpload` and so on the answer, which finds whatever is on the
screen by then. The dashboard: `Cargar` is a load of three requests, `ListAnswers`,
`AllAnswer` and `SomeFails` their ends; nothing cancels a load, and `overtaken` are the
parts of the screen that an older answer took back.

### `FilledWorkbook`

Mostly operators: `ProponerImport` (the parser), `PropuestaADefinicion`,
`ValidateValorCampo`, `ColumnasDesdeValor` and `CampoDesdeColumnas`, `Emparejado` and
`Rellenar`. A cell is its kind, its text and its number; of a value only what the parser
and the validation tell apart is kept. The actions edit the proposal, publish, answer,
reopen the draft, export on the device, send, export on the server.

## 3. The runs

| Run | Specification | Shows |
|---|---|---|
| `sync_ingest` | `Spec` of `SyncIngest` | `BothVersionsKept`, `NewestUnlessRaced`, `AppliedOnce`, `ReferencesHold`, `ParentsComeFirst`, `LogTellsTheTruth` hold |
| `client_outbox` | `Spec` of `ClientOutbox`, any server | `SyncingIsInFlight`, `FailedRowsHaveRetry`, `SubmittedTreeQueued`, `LostRecordsWereDrafts` hold |
| `sync_system` | `SystemSpec`, more rows than a batch and more failures than an answer | `SyncedUnlessCut` and the refinement `KeepsPromise` hold |
| `sync_drain` | `FairSystemSpec` | failed rows are sent again (`FailedIsRetried`) and arrive (`FailedIsDelivered`) |
| `sessions` | `Spec` of `Sessions` | `OneSessionUnlessRaced`, `SuspendedHasNoSession`, `ReusedFamilyIsDead`, `AuditTellsTheState`, `GuessesAreBounded`, `NoAccessWhileSuspended` hold |
| `back_office` | `CatalogSpec`, `WizardSpec`, `DashboardSpec`, `WorkbookSpec` side by side | `CatalogMatchesUnlessEdited`, `ImportConfirmedOnce`, `DeltaMissesNothing` and the refinement `AppendsToTheLog`; `PublishedIsWhatWasConfirmed`; `ScreenIsOfTheFilter`; `DocumentCarriesTheAnswers` hold |
| `forms_reports` | `FormsSpec` and `ReportsSpec` (with the actions of `PhotoFiles`) side by side | `FormsAreOwn`, `DraftIsNotReframed`, `PurgeIsLeast`, `DraftKeepsItsOriginal`; `PhotoHasItsFile`; `LotAccountsForAll`, `ReportIsOfOneMoment` hold |
| `sync_ingest_regression` | as `sync_ingest` | **violated**: an older version replaces a newer one |
| `outbox_stranded` | as `client_outbox` | **violated**: rows stay `syncing` after the page died |
| `outbox_poison` | as `client_outbox` | **violated**: parts of a discarded draft stay queued |
| `outbox_undrained` | two rows per batch | **violated**: failed rows are left without a retry |
| `sync_error_cap` | one error per answer | **violated**: a rejected record is marked synced |

### Bounds

* `sync_ingest`: three requests (two that race and one that comes after or between),
  an inspection with three versions of two payloads (so that the third has the payload
  of the first, which `recordConflict` must not confuse), a finding and its photo; five
  bodies, among them a foreign and a malformed one. Requests are symmetric. Two
  requests suffice for a lost update; the third is the retry.
* `client_outbox`: one inspection with an answer, its photo, a finding, and a log
  entry: one id of each type, five rows, all in one batch. Every handler can be
  between its read and its write at once. One inspection means no second draft after
  a discard; ids are not used again.
* `sync_system`: an inspection, an answer and its photo, two rows in a batch and one error
  in an answer: in the order of the code's 500 and 5, so that rows stay outside a batch, a
  photo may go before its owner, and an answer may have to leave failures out.
  `sync_error_cap`: an inspection, an answer and a finding on it in one batch, one error.
* `sync_drain`: an inspection, a finding, which is queued before its inspection, and the
  photo of the finding, all in one batch with an answer that can list it. With more rows
  than a batch the retries are not promised (`outbox_undrained`), and a record of `cut` is
  never sent again (`sync_error_cap`), so delivery is asked for without the two.
* `MaxBatch` is the whole queue except in `outbox_undrained`, where it is 2 of five, and in
  `sync_system`, where it is 2 of three.
* `sessions`: one tenant with two accounts, one address, two requests at a time and five
  in all, `MaxFailed` 2. Five requests are a login, a refresh, its reuse, and a
  suspension with another request beside it. An address only refuses requests, and its
  block may end at any time, so one is enough. 1.3 million states.
* `back_office`, catalogue: three revisions of at most two templates, two definitions,
  one import, two transactions at a time, five requests. Wizard: two workbooks, one edit,
  four requests. Dashboard: two filters, two rows, two loads at a time and three in all,
  two clicks. Workbook: five books, of which `Shift` has a title above its header and a
  sheet of one column, `Lists` a column of each other type, a blank sheet and a sheet
  named as the one of the evidence, `Padded` a name that ends in a space, `Twins` two
  names that differ by that space alone, and `Headless` nothing to propose; numbers -15, 0 and 20; one edit and two answers. `MAX_COLUMNA` is 4
  so that a book reaches it.
* `forms_reports`, forms: one tenant, two accounts, the first given both forms or
  the second one only, the other the second only, two tasks at a time (so a change of signal beside one has the
  start but not the reload; the proofs are for any number), three events of the user and the page, one original
  per pass, a budget for either form but not both. Reports: three inspections, two with one base
  name and one that cannot be exported, a lot of at most two; one photo with three
  versions, the last of another type; two uploads, one other write, one report. The
  symmetry joins sets of different parts, which is sound because a behaviour is of one.

Deadlock is checked except in the runs whose number of requests or events is bounded:
`sync_ingest`, `sessions`, `back_office`, `forms_reports`.

### Fairness (`FairSystemSpec`)

* `WF` of the worker's own steps: the browser fires a due timer and resumes a pending
  await while the page is open.
* `WF` of `HearAnswer \/ GiveUp`: a fetch ends by its answer or by `TIMEOUT_LOTE_MS`.
  The code clears the timer when the headers arrive (sync.ts:97); that the body then
  ends is assumed.
* `SF` of `ServeWell` and of `HearWell`: of the batches sent again and again one is
  served whole, and one such answer gets back before the timeout. The code cannot
  promise this; without it a network that is always down would refute any delivery.

Nothing is assumed of the user or of the signal: the properties allow for the signal
going, the page dying and the record being discarded.

### What the violations say

They are listed in `PROJECT.json` under findings, each with the line it contradicts.
The lost update of `sync_ingest_regression` replaces the newer row, but both versions
stay in `conflict_record`: `BothVersionsKept` holds with the race in the model, and
`NewestUnlessRaced` says that this race is the only way to it. Likewise
`SyncingIsInFlight` shows that the death of the page is the only way to strand a row,
and `LostRecordsWereDrafts` that discarding a draft is the only way to a queued row
without its record.

The same form is used where a race of the code breaks what a document says and no run of
its own refutes it: the property names the race by a history variable and holds the code
to everything else. `OneSessionUnlessRaced`, `SuspendedHasNoSession` and
`ReusedFamilyIsDead` excuse requests that had passed their checks;
`CatalogMatchesUnlessEdited` an edition between the read and the write of a publication;
`ImportConfirmedOnce` two confirmations that overlap; `DeltaMissesNothing` a revision
that became visible behind the cursor, or after the list was read of the delta that then
moved the cursor past it (a delta that is lost moves no cursor and excuses nothing); `ScreenIsOfTheFilter` an answer that overtook a
later one; `PhotoHasItsFile` a file that changed hands; `FormsAreOwn` and
`DraftIsNotReframed` tasks that ran across a change. The attempt to prove `FormsAreOwn`
met a second way to it, longer than the run's bound: a tab that lost its token keeps the
cached session of one account, another account logs in, and before its session is cached a
change of signal starts the page again. That start takes the cached account for its own
and the token of the other for its requests, so the catalogue of the one is stored under
the name of the other (store.tsx:618-651, 662-679). TLC reaches it in 15 states with four
events of the user and the page; `crossed` names it. Each of these has its finding in
`PROJECT.json`, and so have six defects that the translation of `FilledWorkbook` met.

## 4. The proofs

All safety properties that the passing runs check are proved, and both refinements, of `SyncPromise` and of
`PublicationLog`. They hold for any sets of requests, ids, versions and bodies on the
server; any records, drafts and interleavings of handlers on the device; any accounts,
tenants and addresses; any revisions, templates, imports and transactions at a time; any
workbooks, sheets, answers, filters and rows; any forms, tasks, photos, uploads and inspections. The
bounds on events (`MaxRequests`, `MaxEvents`, `MaxUploads`, ...) may be any number too, so
no proof uses that something happens seldom.

| Theorem | Property | Inductive invariant |
|---|---|---|
| `TypeCorrect` | `TypeOK` | `TypeInv`: with it, a handler in a transaction holds a record |
| `VersionsAreKept` | `BothVersionsKept` | `KeepInv` |
| `NewestVersionStored`, `RetriesAreIdempotent` | `NewestUnlessRaced`, `AppliedOnce` | `VersionInv` |
| `ReferencesAreKept` | `ReferencesHold` | `RefsInv` |
| `LogsAreTruthful` | `LogTellsTheTruth` | `BooksInv` |
| `ParentsAreFirst` | `ParentsComeFirst` | `OrderInv` |
| `OutboxTypeCorrect` | `TypeOK` of `ClientOutbox` | itself |
| `OnlyCrashStrands` | `SyncingIsInFlight` | `WorkerInv` |
| `OnlyDraftsLeaveRows` | `LostRecordsWereDrafts` | `LostInv` |
| `SmallQueuesAreRetried` | `FailedRowsHaveRetry`, if all entities fit in a batch | `RetryInv` |
| `SubmittedIsQueued` | `SubmittedTreeQueued` | `QueueInv` |
| `SystemTypeCorrect` | `SystemTypeOK` | `CallInv` |
| `SystemImplementsOutbox` | `Spec` of `ClientOutbox` | `CallInv` |
| `OnlyCutAnswersMislead` | `SyncedUnlessCut`, for finitely many records | `SyncedInv` |
| `SystemKeepsPromise` | `KeepsPromise`, for finitely many records | `PromiseInv` |
| `SessionsTypeCorrect` | `TypeOK` of `Sessions` | `TypeInv` |
| `SuspensionClosesSessions`, `OneSessionPerUser`, `ReuseKillsTheFamily` | `SuspendedHasNoSession`, `OneSessionUnlessRaced`, `ReusedFamilyIsDead` | `SafetyInv` |
| `SuspensionStopsAccess` | `NoAccessWhileSuspended` | `SafetyInv` |
| `AuditIsTrue` | `AuditTellsTheState` | `AuditInv` |
| `GuessesBounded` | `GuessesAreBounded` | `GuessInv` |
| `CatalogTypeCorrect` | `CatalogTypeOK` | `TypeInv` |
| `CatalogMatches` | `CatalogMatchesUnlessEdited` | `MatchInv` |
| `DeltaIsComplete` | `DeltaMissesNothing` | `DeltaInv` |
| `ImportsAreConfirmedOnce` | `ImportConfirmedOnce` | `ImportInv` |
| `VersionsHaveNoGaps`, `CatalogImplementsLog` | `AppendsToTheLog` | `VersionInv` |
| `WizardPublishesWhatItShowed` | `PublishedIsWhatWasConfirmed` | `WizardInv` |
| `DashboardShowsTheFilter` | `ScreenIsOfTheFilter` | `ScreenInv` |
| `DocumentsCarryTheAnswers` | `DocumentCarriesTheAnswers` | `WorkbookInv` |
| `FormsTypeCorrect` | `FormsTypeOK` | `TypeInv` |
| `PurgesAreLeast` | `PurgeIsLeast` | `TypeInv` |
| `DraftsAreNotReframed` | `DraftIsNotReframed` | `DraftInv` |
| `DraftsKeepTheirOriginal` | `DraftKeepsItsOriginal` | `DraftInv` |
| `FormsStayOwn` | `FormsAreOwn` | `OneOrCrossed`, `OwnInv` |
| `PhotosKeepTheirBytes` | `PhotoHasItsFile` | `PhotoInv` |
| `ReportsOnlyRead` | `PhotoSpec` | none: a step of `Reports` is one of `PhotoFiles` or none |
| `ReportsAreOfOneMoment` | `ReportIsOfOneMoment` | `JobInv`, `MomentInv`, `NoStrangeBytes` |
| `LotsAccountForAll` | `LotAccountsForAll` | `JobInv` |

*Assumptions.* `IngestConstants` types the constants. `StampsIdentifyPayloads`: two
different payloads of one entity never have the same `captured_at` and
`client_version`; every edit in `db.ts` increments the counter, and an entity is edited
on the device that created it. `RefsHaveTypes`: a payload refers to the types
`applyRecord` looks up for it (used by `ParentsAreFirst` alone). `OutboxConstants` and
`SystemConstants` type the constants of the device and of the system: ids of different
types differ, and a finding is about an answer of its own inspection.
The other modules' assumptions (`SessionsAssumption`, `CatalogAssumption`,
`WizardAssumption`, `WorkbookAssumption`, `DashboardAssumption`, `FormsAssumption`, `PhotoAssumption`,
`ReportsAssumption`) type their constants and keep the markers for "nothing" apart from
the values. Beyond that: no id names both a tenant and an account, and a process handles
finitely many requests at a time; two forms never have the same `published_seq` (it is
drawn from a sequence and unique), a form is assigned within its tenant, and there are
finitely many; the inspections are finitely many, which the counts of a report are
about. `OnlyCutAnswersMislead` and `SystemKeepsPromise` ask that a device has finitely many
records, and nothing of `MaxErrors` and `MaxBatch`: they hold for the 5 and 500 of the code.
One theorem has a hypothesis that restricts the code, which its statement shows:
`SmallQueuesAreRetried` has `Cardinality(Entity) <= MaxBatch`. Beyond it the property
fails, as `outbox_undrained` shows: the failed rows outside the batch get no retry.

*No version is lost.* A payload leaves a row only by an `Overwrite`, which audits the
row it *read*. If the row has changed since, what is overwritten is not what is
audited. `SeenKept` closes that gap: while a handler is between its SELECT and its
UPDATE, either the row is still the one it saw, or what the row now holds has been
audited already, as the winner of the handler that put it there. `DupesAudited` does the
same for an audit that is skipped because the pair was found.

*The newest version.* `LwwWins` is a strict weak order (`LwwTransitive` and
the lemmas after it). `SeenNotNewer`: as long as nobody raced on the entity, what a
handler has seen does not beat the row. So a version that beats what was seen, where the
row is still that, beats everything committed before; it is not among those,
which is idempotence.

*Batches.* `BookCases` sums up what any step does to one request. `Books` says that a
record of the body is in one place at a time (to do, open, ok, failed), and that the log
is closed once, at the end. `OrphansMissed`: whoever was refused refers to an entity
that neither the rest of the loop nor its ok records can name, because the loop takes
types in order.

*The worker.* `WorkerCases` reduces any step to what it does to the worker and the queue:
it wakes the worker, requeues rows, or is a step of `sincronizarCola`. `BatchUnsettled`
is what makes a batch its worker's own: no row of it is synced before its answer.
`LostInv` adds that the parts `descartarBorrador` read before its transaction are all of
one draft. `RetryInv` adds that a failed row is in the batch that is being sent.

*The submitted tree.* `Ancestors` is the life of a record: absent, present, gone, never
back, always after its inspection or owner. A handler that read before an await
therefore still finds absent what it is about to add. `FindingsQueued` and
`RootGoesFirst` say who queued each part: findings and their photos when they are
captured, answers and theirs by the submit, and no part goes before its inspection. What
is left is an answer or a photo written after the submit, the set `late`.

*Device and server.* `DeviceStep` maps each step of the system to a step of the device
or a stutter, so every invariant of `ClientOutbox` holds in `SyncSystem`. `AllListed` is
the counting argument: an answer to a batch with at most `MaxErrors` failures lists them
all; of more failures, those it leaves out are in `missed` (`AnswerComplete`), and in `cut`
once the answer is heard. For the refinement,
`SentWasHeld` adds that what is on the network was once on the device; `StageStep` then
maps each step to a move of `SyncPromise`.

*Sessions.* What is to be shown of the rows of `auth_session` fails for a moment in every
race, so the invariant is about the requests. `SuspensionInv`, `OneSessionInv` and
`ReuseInv` say: a request that has passed its checks either still holds to what it read
(the tenant is active; the user has no other open row but the one about to be rotated; the
family has not been killed), or carries the mark, or what it threatens is excused already
(`KnowsSuspension`, `KnowsSessions`, `KnowsReuse`). `ClosingStep` is the lemma that every
step but `CreateSession` only closes rows, and `QuietStep` that all but seven steps leave
the knowledge of every request alone; the seven are taken one by one.

*Photos.* `UploadsAreWhole` ties each step of an upload to what it has written so far.
`Alone` is the point: a photo that is not disputed has one upload at most, and that one
started from the row as it is. `OldAndNewApart` then keeps its new file off the file of
the row, and `PhotoHasItsFile` is what is left of the invariant.

*Audit and guesses.* A trail is true of its subject because one statement writes both:
`WhoWritesAudit` lists those statements, `TrailOf` and the count of the grants are what
they keep. For the guesses, `GuessInv` bounds the failures since the last lock together
with the comparisons under way (`Guessing`): each such comparison began when the account
was read as open, and there are no more of them than requests.

*The catalogue.* `ReadMatches` and `Publishing`: what a publication has read is what it
writes, unless the draft was edited. `ReadMissesNothing` says of the delta, between its
two reads, what the property says of the device once both are in. `MadeCounted` with
`ImportsInHand` counts the templates made of an import; a confirmation that finds it
confirmed already is one of two that overlapped.

*The log.* That versions have no gaps is no property of one row: `Numbered` says it of
each template, `TxNumbered` of the transactions, of which at most one per template is past
its write, because the unique index on (template, version) makes the second wait.
`NextVersionIs` then turns `MAX(version) + 1` into the number of versions plus one, and
`OneTemplateGrows` shows a commit as the `Publish` of `PublicationLog` on that
template's list, every other step as a stutter.

*The wizard.* `UploadInv`, `BookInv` and `HeardInv` tie screen, requests and stored
drafts: the import on the screen is of the workbook on the screen, what was last heard of
a save is stored or older than the screen. `AgreedInv` is the property, once the rest
makes sure that the proposal a publication was asked with is the one that is stored.

*The workbook.* Three chains of facts meet in `DocumentIsRight`. Of the parser:
`InOrderFacts` (a finite set of numbers put in order has each once), `SectionFacts` and
`BookFacts` say that each proposed item knows the sheet and the column it comes from, and
that no two share them. Of the wizard: whatever is changed, removed or published, the
proposal stays `FromBook`: a section is no longer than its sheet, and where it is as long
its items are in their own places. So when `Emparejado` finds that the counts agree,
`PairedWithItsPlace` holds, which is the assumption `rellenar.ts:114-116` states; the code
itself tests the counts alone. Of the values: `RoundTrip` (a value is the same when it comes back from
its columns, also through the driver), so that `Reabrir` and `CamposDe` give back `campo`,
and each document asked for is that of the answers that stand (`DocumentInv`). The proof
found what no instance had: two sheets whose names differ only by spaces around them. The
parser trims the names, so the answers of the one are written over those of the other;
`Lost` names it now, the book `Twins` reaches it, and `PROJECT.json` has the finding.

*Dashboard.* `LoadsAreNumbered` makes the number of a load an order of time and
`LastIsOfTheFilter` ties the last one to the filter on the screen. `ListInv`, `DataInv`
and `DetailInv` say for each part of the screen that it is of the last load, or that the
last load is still on its way, or that an older answer took it back.

*Forms.* `PurgesAreLeast` is about an algorithm and not about its interleavings: `Keep`
is a recursive function and `Bytes` a fold; `KeptFacts`, `BytesIsNat` and `PlanFacts` say
what they compute, by induction over a set (`AllNumbers`). `OneOrCrossed`: two accounts are present on a device (as token, as
session, as the account of a task) only where both are marked. Of an unmarked account,
`OwnInv` says that what is stored for it, carried by its tasks and shown to it is its own;
it is this pair of invariants that was not inductive before the marks named the start
with another's token. `DraftInv` ties a choice of a form under way to the open draft, and
the original of a draft then leaves only by a purge that was planned for another form.

*Reports.* `JobInv` accounts for the choice of a lot (`Accounted`: each inspection is done,
in hand or still to come, once) and keeps the entries of the manifest apart
(`EntriesApart`). The names of the files differ since `NameIsFree`, a pigeonhole argument:
of as many numbered names as there are entries and one more, one is free. `MomentInv` says
that what a job has read so far is still what is stored, until an ingestion overlaps it;
`NoStrangeBytes` is needed for the photo, whose bytes are read apart from its row.

*Only model-checked:* the liveness of `sync_drain`, and the counterexamples. *Out of the
prover's reach:* liveness under fairness, ENABLED, and induction over data by the
library's theorems, which `AllNumbers` and `LeastNumber` replace where it is needed. No
module uses a RECURSIVE operator.

## 5. Not modelled, and why

* Read-only parts with no reads to interleave (listings of one query, health, logging).
* Row level security is taken as given: the models have the rows of one tenant, and
  `Sessions` those of each. The migrations are taken as run.
* Of the client: two sessions of different tenants that share one outbox
  (`sincronizables` does not filter by tenant; listed under hazards); headers and bodies of
  the requests; the estimate of the quota and the compression of photos, of which only the
  outcome is kept; screens that only render.
* Of the workbooks: styles, rich text, merged ranges and the embedding of images, which
  the library does; signatures and computed fields.
* `fusionarDelta` and its cursor are modelled as the client of the delta; `leerCursorPlantilla`
  and `guardarCursorPlantilla`, which no screen calls, are not.
* A silent refresh is not in the client: it never calls `/auth/refresh`. The refreshes of
  `Sessions` are those any holder of the cookie may send.

## 6. Plan

1. *Done:* `Lww`, `SyncIngest`, `ClientOutbox`, `SyncSystem` against `SyncPromise`, all
   with their proofs.
2. *Done:* `PhotoFiles` and `Reports`; `Sessions`; `TemplateCatalog` against
   `PublicationLog`; `ImportWizard`, `DashboardScreen`, `FilledWorkbook`; `DeviceForms`.
3. *Done:* the proofs of the safety of all these, and the refinement of `PublicationLog`.
4. The link from `SyncIngest` to the server step of `SyncSystem`, by hand so far, as a
   refinement.
