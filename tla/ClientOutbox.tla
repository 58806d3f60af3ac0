---------------------------- MODULE ClientOutbox ----------------------------
(***************************************************************************)
(* The device: the records a field worker captures in IndexedDB (db.ts),   *)
(* the handlers of the store that write them (store.tsx) and the queue     *)
(* worker that sends them (sync.ts), as one page runs them.                *)
(*                                                                         *)
(* A handler is split where it awaits something other handlers can         *)
(* interleave with: a lookup made before its transaction, the compression  *)
(* of a photo, the geolocation of a submit.  A Dexie transaction is one    *)
(* step.  The worker is split at every await of sincronizarCola.           *)
(*                                                                         *)
(* The server is whatever answer comes: SyncSystem puts the real one here. *)
(***************************************************************************)
EXTENDS Integers, FiniteSets

CONSTANTS
  Inspection, Response, Finding, Attachment, LogEntry,  \* ids of each type
  RootOf,     \* [Response \cup Finding -> Inspection]
  OwnerOf,    \* [Attachment -> Response \cup Finding]
  AboutOf,    \* [Finding -> Response \cup {None}]: the answer a finding is on
  MaxBatch,   \* MAX_REGISTROS_LOTE
  None

Capturable == Response \cup Finding
Entity == Inspection \cup Capturable \cup Attachment \cup LogEntry

ASSUME OutboxConstants ==
  /\ Inspection \cap (Capturable \cup Attachment \cup LogEntry) = {}
  /\ Response \cap Finding = {}
  /\ Attachment \cap (Capturable \cup LogEntry) = {}
  /\ LogEntry \cap Capturable = {}
  /\ RootOf \in [Capturable -> Inspection]
  /\ OwnerOf \in [Attachment -> Capturable]
  /\ AboutOf \in [Finding -> Response \cup {None}]
  /\ \A f \in Finding : AboutOf[f] # None => RootOf[AboutOf[f]] = RootOf[f]
  /\ MaxBatch \in Nat \ {0}
  /\ None \notin Entity

PartsOf(i) == {e \in Capturable : RootOf[e] = i}
PhotosOf(S) == {a \in Attachment : OwnerOf[a] \in S}
Tree(i) == {i} \cup PartsOf(i) \cup PhotosOf(PartsOf(i))

VARIABLES
  local,       \* [Entity -> absent | present | gone]: the tables of db.ts
  submitted,   \* inspections with status 'submitted'
  draft,       \* meta.draftInspectionId
  row,         \* [Entity -> status of its outbox row, or none]
  resolving,   \* drafts some handler found missing and is about to create
  capture,     \* [Capturable -> CaptureStep]: responderCampo and crearHallazgo
               \* after resolverDraft
  found,       \* [Response -> photos it had when its handler looked them up]
  submitting,  \* the draft enviarInspeccion read, while it geolocates
  condemned,   \* what descartarBorrador read before its transaction
  pc,          \* where sincronizarCola is
  batch,       \* its filas
  timer,       \* whether retryTimer is set
  online,      \* sincronizacionPermitida
  open,        \* whether the page is open
  stranded,    \* history: rows that were 'syncing' when the page died
  late,        \* history: captures written after their inspection was sent
  dropped      \* history: inspections descartarBorrador deleted

tables == <<local, submitted, draft>>
handlers == <<resolving, capture, found, submitting, condemned>>
worker == <<pc, batch, timer>>
signal == <<online, open>>
past == <<stranded, late, dropped>>
vars == <<tables, row, handlers, worker, signal, past>>

RowStatus == {"none", "pending", "syncing", "synced", "failed"}
CaptureStep == {"idle", "write", "photo", "save", "clear"}

(* Values of the right type; and a worker that is sending has a batch. *)
TypeOK ==
  /\ local \in [Entity -> {"absent", "present", "gone"}]
  /\ submitted \subseteq Inspection
  /\ draft \in Inspection \cup {None}
  /\ row \in [Entity -> RowStatus]
  /\ resolving \subseteq Inspection
  /\ capture \in [Capturable -> CaptureStep]
  /\ found \in [Response -> SUBSET Attachment]
  /\ submitting \in Inspection \cup {None}
  /\ condemned \subseteq Inspection \cup Capturable
  /\ pc \in {"idle", "read", "mark", "build", "fetch"}
  /\ batch \subseteq Entity
  /\ timer \in BOOLEAN
  /\ online \in BOOLEAN
  /\ open \in BOOLEAN
  /\ stranded \subseteq Entity
  /\ late \subseteq Response \cup Attachment
  /\ dropped \subseteq Inspection
  /\ pc \in {"build", "fetch"} => batch # {}

Init ==
  /\ local = [e \in Entity |-> "absent"]
  /\ submitted = {}
  /\ draft = None
  /\ row = [e \in Entity |-> "none"]
  /\ resolving = {}
  /\ capture = [e \in Capturable |-> "idle"]
  /\ found = [e \in Response |-> {}]
  /\ submitting = None
  /\ condemned = {}
  /\ pc = "idle"
  /\ batch = {}
  /\ timer = FALSE
  /\ online \in BOOLEAN
  /\ open = TRUE
  /\ stranded = {}
  /\ late = {}
  /\ dropped = {}

Present(S) == {e \in S : local[e] = "present"}

(* Add and delete of tables, and encolar. *)
Add(S) == local' = [e \in Entity |-> IF e \in S THEN "present" ELSE local[e]]
Delete(S) ==
  local' = [e \in Entity |-> IF e \in Present(S) THEN "gone" ELSE local[e]]
Enqueue(S) == row' = [e \in Entity |-> IF e \in S THEN "pending" ELSE row[e]]
Unqueue(S) == row' = [e \in Entity |-> IF e \in S THEN "none" ELSE row[e]]

(* sincronizarAhora: nothing without signal, nothing while a batch flies. *)
Trigger ==
  /\ pc' = IF online /\ pc = "idle" THEN "read" ELSE pc
  /\ UNCHANGED <<batch, timer>>
-----------------------------------------------------------------------------
(* Capturing.                                                              *)

(* ensureDraftInspection finds its draft and returns it. *)
DraftOpen ==
  /\ draft # None
  /\ local[draft] = "present"
  /\ draft \notin submitted

(* A finding takes the id of the answer to its item, if the draft has one. *)
AnswerIsThere(e) ==
  e \in Finding => AboutOf[e] \in {None} \cup Present(Response)

BeginCapture(e) ==
  /\ open
  /\ DraftOpen
  /\ draft = RootOf[e]
  /\ AnswerIsThere(e)
  /\ capture[e] = "idle"
  /\ local[e] = "absent" \/ (local[e] = "present" /\ e \in Response)
  /\ capture' = [capture EXCEPT ![e] = "write"]
  /\ UNCHANGED <<tables, row, resolving, found, submitting, condemned, worker,
                 signal, past>>

(* It finds none, or one that is no draft any more, and will add the inspection
   i; others may find none too. *)
FindNoDraft(i) ==
  /\ open
  /\ ~DraftOpen
  /\ local[i] = "absent"
  /\ i \notin resolving
  /\ draft' = None
  /\ resolving' = resolving \cup {i}
  /\ UNCHANGED <<local, submitted, row, capture, found, submitting, condemned, worker,
                 signal, past>>

CreateDraft(e) ==
  /\ RootOf[e] \in resolving
  /\ AnswerIsThere(e)
  /\ capture[e] = "idle"
  /\ Add({RootOf[e]})
  /\ draft' = RootOf[e]
  /\ resolving' = resolving \ {RootOf[e]}
  /\ capture' = [capture EXCEPT ![e] = "write"]
  /\ UNCHANGED <<submitted, row, found, submitting, condemned, worker, signal, past>>

(* Whether what a handler writes now comes after the submit. *)
Late(i, S) == late' = IF i \in submitted THEN late \cup S ELSE late

(* upsertResponse.  The answer of a photo item goes on to its attachment.  The
   lookup of the row and its write are one step: no other handler adds e, and a
   row deleted in between is gone for either.  A handler that finds it deleted
   adds it anew under another id, with no inspection left: the model forgets it. *)
WriteResponse(e) ==
  /\ e \in Response
  /\ capture[e] = "write"
  /\ Add({e} \ {x \in Entity : local[x] = "gone"})
  /\ \E next \in {"idle", "photo"} :
       /\ next = "photo" => PhotosOf({e}) # {}
       /\ capture' = [capture EXCEPT ![e] = next]
  /\ Late(RootOf[e], {e} \ {x \in Entity : row[x] # "none"})
  /\ UNCHANGED <<submitted, draft, row, resolving, found, submitting, condemned,
                 worker, signal, stranded, dropped>>

(* What guardarFotoRespuesta and quitarFotoRespuesta read before they write. *)
LookUpPhoto(e) ==
  /\ e \in Response
  /\ capture[e] = "photo"
  /\ found' = [found EXCEPT ![e] = Present(PhotosOf({e}))]
  /\ \E next \in {"save", "clear"} : capture' = [capture EXCEPT ![e] = next]
  /\ UNCHANGED <<tables, row, resolving, submitting, condemned, worker, signal,
                 past>>

PhotoDone(e) ==
  /\ capture' = [capture EXCEPT ![e] = "idle"]
  /\ found' = [found EXCEPT ![e] = {}]

(* guardarFotoRespuesta updates the photo it found, if it is still there, or
   adds one. *)
SavePhoto(e) ==
  /\ e \in Response
  /\ capture[e] = "save"
  /\ IF found[e] # {}
     THEN UNCHANGED <<local, late>>
     ELSE \E a \in PhotosOf({e}) :
            /\ local[a] = "absent"
            /\ Add({a})
            /\ Late(RootOf[e], {a})
  /\ PhotoDone(e)
  /\ UNCHANGED <<submitted, draft, row, resolving, submitting, condemned,
                 worker, signal, stranded, dropped>>

(* quitarFotoRespuesta: the attachment it found and its outbox row, if any. *)
ClearPhoto(e) ==
  /\ e \in Response
  /\ capture[e] = "clear"
  /\ Delete(found[e])
  /\ Unqueue(found[e])
  /\ PhotoDone(e)
  /\ UNCHANGED <<submitted, draft, resolving, submitting, condemned, worker,
                 signal, past>>

(* addFinding: the finding, perhaps a photo of it, and their outbox rows. *)
SaveFinding(e) ==
  /\ e \in Finding
  /\ capture[e] = "write"
  /\ \E photos \in SUBSET PhotosOf({e}) :
       /\ Cardinality(photos) <= 1
       /\ Add({e} \cup photos)
       /\ Enqueue({e} \cup photos)
  /\ capture' = [capture EXCEPT ![e] = "idle"]
  /\ UNCHANGED <<submitted, draft, resolving, found, submitting, condemned, worker,
                 signal, past>>

(* addLogEntry; nothing triggers the worker. *)
SaveLogEntry(l) ==
  /\ open
  /\ local[l] = "absent"
  /\ Add({l})
  /\ Enqueue({l})
  /\ UNCHANGED <<submitted, draft, handlers, worker, signal, past>>
-----------------------------------------------------------------------------
(* Submitting and discarding.                                              *)

BeginSubmit ==
  /\ open
  /\ draft # None
  /\ submitting = None
  /\ submitting' = draft
  /\ UNCHANGED <<tables, row, resolving, capture, found, condemned, worker, signal,
                 past>>

(* Mutant: only the inspection and its responses are queued. *)
MutQueuedWith(i) == {i} \cup Present(PartsOf(i) \cap Response)

(* What submitInspection queues. *)
QueuedWith(i) ==
  LET answers == Present(PartsOf(i) \cap Response)
  IN  {i} \cup answers \cup Present(PhotosOf(answers))

Submit ==
  /\ submitting # None
  /\ local[submitting] = "present"
  /\ submitting \notin submitted
  /\ submitted' = submitted \cup {submitting}
  /\ Enqueue(QueuedWith(submitting))
  /\ draft' = None
  /\ submitting' = None
  /\ Trigger
  /\ UNCHANGED <<local, resolving, capture, found, condemned, signal, past>>

(* The draft was discarded under the submit, which throws. *)
SubmitFails ==
  /\ submitting # None
  /\ local[submitting] # "present"
  /\ submitting' = None
  /\ UNCHANGED <<tables, row, resolving, capture, found, condemned, worker, signal,
                 past>>

(* descartarBorrador reads the draft and its parts, then deletes in one
   transaction: the parts by inspection, the photos by the owners it read. *)
BeginDiscard ==
  /\ open
  /\ draft # None
  /\ condemned = {}
  /\ condemned' = {draft} \cup Present(PartsOf(draft))
  /\ UNCHANGED <<tables, row, resolving, capture, found, submitting, worker, signal,
                 past>>

Discard(i) ==
  /\ i \in condemned \cap Inspection
  /\ Delete({i} \cup PartsOf(i) \cup PhotosOf(condemned))
  /\ draft' = None
  /\ condemned' = {}
  /\ dropped' = dropped \cup {i}
  /\ UNCHANGED <<submitted, row, resolving, capture, found, submitting, worker,
                 signal, stranded, late>>

(* Mutant: the findings keep their outbox rows. *)
MutUnit(e) ==
  LET answers == PartsOf(e) \cap Response
  IN  {e} \cup Present(answers \cup PhotosOf(answers))

(* The rows descartarRegistroCola removes with that of e: an entry of the log
   alone, an inspection with its tree. *)
Unit(e) == {e} \cup Present(Tree(e))

(* Only the status of the row of e itself is looked at. *)
DiscardUnit(e) ==
  /\ open
  /\ e \in LogEntry \cup Inspection
  /\ row[e] \in {"pending", "failed"}
  /\ e \in Inspection => local[e] = "present"
  /\ Delete(Tree(e))
  /\ Unqueue(Unit(e))
  /\ draft' = IF draft = e THEN None ELSE draft
  /\ UNCHANGED <<submitted, handlers, worker, signal, past>>

(* limpiarDatosLocalesPrueba empties every table of the tenant. *)
ResetLocalData ==
  /\ open
  /\ Present(Entity) # {}
  /\ Delete(Entity)
  /\ Unqueue(Entity)
  /\ draft' = None
  /\ UNCHANGED <<submitted, handlers, worker, signal, past>>
-----------------------------------------------------------------------------
(* The worker, sincronizarCola.                                            *)

Ready == {e \in Entity : row[e] \in {"pending", "failed"}}

(* ORDEN_BATCH. *)
OrdenBatch(e) ==
  CASE e \in Inspection -> 1
    [] e \in Response   -> 2
    [] e \in Finding    -> 3
    [] e \in Attachment -> 4
    [] e \in LogEntry   -> 5

(* priorizarFotosLibres: a photo whose owner is not in the queue goes first. *)
Position(e, priorizarFotos) ==
  IF priorizarFotos /\ e \in Attachment
       /\ (local[e] # "present" \/ OwnerOf[e] \notin Ready)
  THEN 0
  ELSE OrdenBatch(e)

(* Mutant: the failed rows are left out. *)
MutFirstOfQueue(priorizarFotos) ==
  {S \in SUBSET {e \in Entity : row[e] = "pending"} :
     /\ Cardinality(S) <= MaxBatch
     /\ S # {} \/ \A e \in Entity : row[e] # "pending"}

(* The first MaxBatch rows of the queue.  Among equals the ids decide, which
   may be in any order. *)
FirstOfQueue(priorizarFotos) ==
  {S \in SUBSET Ready :
     /\ S = Ready \/ Cardinality(S) = MaxBatch
     /\ Cardinality(S) <= MaxBatch
     /\ \A e \in S, other \in Ready \ S :
          Position(e, priorizarFotos) <= Position(other, priorizarFotos)}

(* The button of the queue screen. *)
SyncNow ==
  /\ open /\ online /\ pc = "idle"
  /\ pc' = "read"
  /\ UNCHANGED <<tables, row, handlers, batch, timer, signal, past>>

(* retryTimer runs out.  Without signal, or with a batch in flight, nothing is
   sent and nothing is programmed. *)
TimerFires ==
  /\ timer
  /\ timer' = FALSE
  /\ pc' = IF online /\ pc = "idle" THEN "read" ELSE pc
  /\ UNCHANGED <<tables, row, handlers, batch, signal, past>>

ReadQueue ==
  /\ pc = "read"
  /\ \E priorizarFotos \in BOOLEAN : batch' \in FirstOfQueue(priorizarFotos)
  /\ pc' = "mark"
  /\ UNCHANGED <<tables, row, handlers, timer, signal, past>>

(* The signal went meanwhile, or there is nothing to send. *)
NothingToSend ==
  /\ pc = "mark"
  /\ ~online \/ batch = {}
  /\ pc' = "idle"
  /\ batch' = {}
  /\ timer' = FALSE
  /\ UNCHANGED <<tables, row, handlers, signal, past>>

(* An update of a row that was deleted does nothing. *)
Mark(S, status) ==
  row' = [e \in Entity |-> IF e \in S /\ row[e] # "none" THEN status ELSE row[e]]

(* Mutant: the early return on an empty queue is gone. *)
MutMarkSending ==
  /\ pc = "mark"
  /\ online
  /\ Mark(batch, "syncing")
  /\ pc' = "build"
  /\ UNCHANGED <<tables, handlers, batch, timer, signal, past>>

(* marcarEnviando. *)
MarkSending ==
  /\ pc = "mark"
  /\ online
  /\ batch # {}
  /\ Mark(batch, "syncing")
  /\ pc' = "build"
  /\ UNCHANGED <<tables, handlers, batch, timer, signal, past>>

(* aSyncRecord finds the record of every row. *)
BuildRequest ==
  /\ pc = "build"
  /\ batch \subseteq Present(Entity)
  /\ pc' = "fetch"
  /\ UNCHANGED <<tables, row, handlers, batch, timer, signal, past>>

(* Mutant: the rows to put back are read from the queue again, where those
   that are 'syncing' no longer are. *)
MutFailBatch ==
  /\ Mark(batch \cap Ready, "failed")
  /\ pc' = "idle"
  /\ batch' = {}
  /\ timer' = TRUE
  /\ UNCHANGED <<tables, handlers, signal, past>>

(* marcarFallido of the whole batch, and programarReintento. *)
FailBatch ==
  /\ Mark(batch, "failed")
  /\ pc' = "idle"
  /\ batch' = {}
  /\ timer' = TRUE
  /\ UNCHANGED <<tables, handlers, signal, past>>

(* One record is not there: aSyncRecord throws and the batch fails unsent. *)
BuildFails ==
  /\ pc = "build"
  /\ ~ (batch \subseteq Present(Entity))
  /\ FailBatch

(* No answer within TIMEOUT_LOTE_MS, no connection, or not a 2xx. *)
FetchFails ==
  /\ pc = "fetch"
  /\ FailBatch

(* Mutant: an answer that lists failures cancels the retry as one without. *)
MutSettle(listed) ==
  /\ pc = "fetch"
  /\ row' = [e \in Entity |->
               IF e \notin batch \/ row[e] = "none" THEN row[e]
               ELSE IF e \in listed THEN "failed" ELSE "synced"]
  /\ timer' = FALSE
  /\ pc' = "idle"
  /\ batch' = {}
  /\ UNCHANGED <<tables, handlers, signal, past>>

(* Mutant: every queued row is settled, those that came meanwhile too. *)
MutSettleQueue(listed) ==
  /\ pc = "fetch"
  /\ row' = [e \in Entity |->
               IF row[e] = "none" THEN "none"
               ELSE IF e \in listed THEN "failed" ELSE "synced"]
  /\ timer' = (listed \cap batch # {})
  /\ pc' = "idle"
  /\ batch' = {}
  /\ UNCHANGED <<tables, handlers, signal, past>>

(* A 2xx answer whose "errors" name the entities listed: their rows failed, all
   the others are synced. *)
Settle(listed) ==
  /\ pc = "fetch"
  /\ row' = [e \in Entity |->
               IF e \notin batch \/ row[e] = "none" THEN row[e]
               ELSE IF e \in listed THEN "failed" ELSE "synced"]
  /\ timer' = (listed \cap batch # {})
  /\ pc' = "idle"
  /\ batch' = {}
  /\ UNCHANGED <<tables, handlers, signal, past>>
-----------------------------------------------------------------------------
(* The signal and the page.                                                *)

GoOffline ==
  /\ open
  /\ online
  /\ online' = FALSE
  /\ timer' = FALSE
  /\ UNCHANGED <<tables, row, handlers, pc, batch, open, past>>

GoOnline ==
  /\ open
  /\ ~online
  /\ online' = TRUE
  /\ pc' = IF pc = "idle" THEN "read" ELSE pc
  /\ UNCHANGED <<tables, row, handlers, batch, timer, open, past>>

(* The page is closed, reloaded or killed: what is not in IndexedDB is lost. *)
Crash ==
  /\ open
  /\ open' = FALSE
  /\ resolving' = {}
  /\ capture' = [e \in Capturable |-> "idle"]
  /\ found' = [e \in Response |-> {}]
  /\ submitting' = None
  /\ condemned' = {}
  /\ pc' = "idle"
  /\ batch' = {}
  /\ timer' = FALSE
  /\ stranded' = stranded \cup {e \in Entity : row[e] = "syncing"}
  /\ UNCHANGED <<tables, row, online, late, dropped>>

(* arrancarSesion triggers a sync when there is signal. *)
Reopen ==
  /\ ~open
  /\ open' = TRUE
  /\ online' \in BOOLEAN
  /\ pc' = IF online' THEN "read" ELSE "idle"
  /\ UNCHANGED <<tables, row, handlers, batch, timer, past>>

User ==
  \/ \E e \in Capturable : \/ BeginCapture(e)
                          \/ CreateDraft(e)
                          \/ WriteResponse(e)
                          \/ LookUpPhoto(e)
                          \/ SavePhoto(e)
                          \/ ClearPhoto(e)
                          \/ SaveFinding(e)
  \/ \E i \in Inspection : FindNoDraft(i) \/ Discard(i)
  \/ \E l \in LogEntry : SaveLogEntry(l)
  \/ \E e \in Inspection \cup LogEntry : DiscardUnit(e)
  \/ BeginSubmit
  \/ Submit
  \/ SubmitFails
  \/ BeginDiscard
  \/ ResetLocalData
  \/ SyncNow

Signal == GoOffline \/ GoOnline \/ Reopen

Prepare == TimerFires \/ ReadQueue \/ NothingToSend \/ MarkSending \/ BuildFails

Answer == FetchFails \/ \E listed \in SUBSET batch : Settle(listed)

Next == User \/ Signal \/ Crash \/ Prepare \/ BuildRequest \/ Answer

Spec == Init /\ [][Next]_vars
-----------------------------------------------------------------------------
(* Properties.                                                             *)

(* The catch of sincronizarCola puts every row of its batch back: a row is
   'syncing' only while the worker sends it, or because the page died then. *)
SyncingIsInFlight ==
  \A e \in Entity : row[e] = "syncing" =>
    (e \in batch /\ pc \in {"build", "fetch"}) \/ e \in stranded

(* FR-022: with the page open and signal, the worker never rests on failed
   rows without a retry programmed, whatever signal changes, triggers and
   timers crossed before. *)
FailedRowsHaveRetry ==
  open /\ online /\ pc = "idle" /\ (\E e \in Entity : row[e] = "failed") => timer

(* FR-022: a failed row is sent again, unless the user discards it, the signal
   goes or the page dies. *)
FailedIsRetried ==
  \A e \in Entity :
    row[e] = "failed" ~> row[e] # "failed" \/ ~online \/ ~open

(* Article III: all a submitted inspection had at that moment is in the queue
   for as long as it is on the device; only what a slower handler wrote after
   the submit is not. *)
SubmittedTreeQueued ==
  \A i \in submitted : local[i] = "present" =>
    \A e \in Present(Tree(i)) : row[e] # "none" \/ e \in late

(* Discarding a unit, emptying a photo and the reset leave no row without its
   record; only discarding a draft can, with what was already queued of it. *)
LostRecordsWereDrafts ==
  \A e \in Entity :
    row[e] \in {"pending", "syncing", "failed"} /\ local[e] # "present" =>
      \E i \in dropped : e \in Tree(i)

(* sync.ts says of its catch that it is the invariant "ningún registro se
   pierde": no row stays 'syncing' for ever. *)
NoRowStranded ==
  \A e \in Entity : row[e] = "syncing" => e \in batch

(* db.ts says of descartarBorrador: "un borrador descartado nunca se
   sincroniza": none of its parts is waiting in the queue. *)
DiscardedIsNotQueued ==
  \A i \in dropped : \A e \in Tree(i) : row[e] \notin {"pending", "failed"}
=============================================================================
