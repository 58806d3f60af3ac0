----------------------------- MODULE SyncIngest -----------------------------
(***************************************************************************)
(* The ingestion of POST /api/v1/sync/batch (SyncService.batch): several   *)
(* requests of one tenant handled at once by the Node process, each record *)
(* in a READ COMMITTED transaction of its own.                             *)
(*                                                                         *)
(* The grain is the SQL statement, wherever another transaction can act in *)
(* between: the SELECT that loads the stored version takes no lock, and    *)
(* the UPDATE that follows filters on the id alone.  The last write of a   *)
(* transaction and its COMMIT are one step: a row written but not yet      *)
(* committed is invisible to the others, and a writer of the same row      *)
(* waits for it.                                                           *)
(*                                                                         *)
(* A stored row is the record it was last written from: its version        *)
(* columns and its payload are those of that record.  A payload here is    *)
(* what payloadFromRow returns of it; the location of an inspection, which *)
(* that leaves out, and the bytes of a photo are not part of it.  Row      *)
(* level security shows a transaction the rows of its own tenant only, so  *)
(* the module has the rows of that one tenant.                             *)
(***************************************************************************)
EXTENDS Lww, FiniteSets

CONSTANTS
  Request,    \* the POST requests of the run; a client's retry is another one
  Id,         \* entity ids (UUIDv7, unique over the entity types)
  TypeOf,     \* [Id -> EntityType]
  Refs,       \* [Id -> SUBSET Id]: the entities a record's payload refers to
  Payload,    \* payload contents
  Sent,       \* every record some device sends: see SentRecord
  Bodies,     \* the bodies the requests may have: sets of records
  MaxErrors,  \* MAX_ERRORS, the length of the "errors" list of a response
  NoRow       \* no stored row

EntityType == {"inspection", "response", "finding", "log_entry", "attachment"}

(* own: the record's tenant_id is the one of the token; valid: validatePayload
   accepts its content. *)
SentRecord == [id : Id, captured_at : Nat, client_version : Nat,
               data : Payload, own : BOOLEAN, valid : BOOLEAN]

ASSUME IngestConstants ==
  /\ TypeOf \in [Id -> EntityType]
  /\ Refs \in [Id -> SUBSET Id]
  /\ Sent \subseteq SentRecord
  /\ Bodies \subseteq SUBSET Sent
  /\ MaxErrors \in Nat
  /\ NoRow \notin Sent

(* The types a record of each type may name in its payload. *)
RefTypes(type) ==
  CASE type = "inspection" -> {}
    [] type = "response"   -> {"inspection"}
    [] type = "finding"    -> {"inspection", "response"}
    [] type = "log_entry"  -> {}
    [] type = "attachment" -> {"inspection", "response", "finding", "log_entry"}

ASSUME RefsHaveTypes ==
  \A i \in Id : \A p \in Refs[i] : TypeOf[p] \in RefTypes(TypeOf[i])

(* A device numbers its edits, so two different payloads of an entity never
   carry the same captured_at and client_version. *)
ASSUME StampsIdentifyPayloads ==
  \A a, b \in Sent : a.id = b.id /\ SameStamp(a, b) => a.data = b.data

VARIABLES
  row,        \* [Id -> Sent \cup {NoRow}]: the domain tables
  conflicts,  \* conflict_record
  syncLog,    \* [Request -> status of the request's sync_log row]
  audited,    \* requests with a tenant mismatch entry in audit_log
  phase,      \* where each handler is
  body,       \* the accepted records of each request
  todo,       \* the records its loop has not reached
  cur,        \* the record of its open transaction
  seen,       \* the row selectExisting returned to it
  dupe,       \* whether recordConflict found the pair already audited
  ok,         \* records counted in records_ok
  applied,    \* those of them with outcome 'applied'
  failed,     \* records counted in records_failed
  errors,     \* the failed records the response names
  orphaned,   \* the failed records that assertRefs refused
  committed,  \* history: the records some transaction has committed
  raced       \* history: the ids some transaction overwrote after its snapshot
              \* of the row had gone stale

logs == <<syncLog, audited>>
locals == <<cur, seen, dupe>>
outcome == <<ok, applied, failed, errors, orphaned>>
history == <<committed, raced>>
vars == <<row, conflicts, logs, phase, body, todo, locals, outcome, history>>

Phases == {"idle", "process", "select", "decide", "write", "done", "rejected",
           "dead"}
Open == {"process", "select", "decide", "write"}
LogStatus == {"none", "pending", "ok", "partial", "failed"}

(* log: the request whose sync_log the audit hangs from, if that was opened. *)
Conflict == [id : Id, winner : Payload, loser : Payload, log : Request]

(* The variables hold values of their types: rows and handlers hold records
   some device sent, and a handler inside a transaction knows its record. *)
TypeOK ==
  /\ row \in [Id -> Sent \cup {NoRow}]
  /\ conflicts \subseteq Conflict
  /\ syncLog \in [Request -> LogStatus]
  /\ audited \subseteq Request
  /\ phase \in [Request -> Phases]
  /\ body \in [Request -> SUBSET Sent]
  /\ todo \in [Request -> SUBSET Sent]
  /\ cur \in [Request -> Sent \cup {NoRow}]
  /\ seen \in [Request -> Sent \cup {NoRow}]
  /\ dupe \in [Request -> BOOLEAN]
  /\ ok \in [Request -> SUBSET Sent]
  /\ applied \in [Request -> SUBSET Sent]
  /\ failed \in [Request -> SUBSET Sent]
  /\ errors \in [Request -> SUBSET Sent]
  /\ orphaned \in [Request -> SUBSET Sent]
  /\ committed \subseteq Sent
  /\ raced \subseteq Id

Init ==
  /\ row = [i \in Id |-> NoRow]
  /\ conflicts = {}
  /\ syncLog = [r \in Request |-> "none"]
  /\ audited = {}
  /\ phase = [r \in Request |-> "idle"]
  /\ body = [r \in Request |-> {}]
  /\ todo = [r \in Request |-> {}]
  /\ cur = [r \in Request |-> NoRow]
  /\ seen = [r \in Request |-> NoRow]
  /\ dupe = [r \in Request |-> FALSE]
  /\ ok = [r \in Request |-> {}]
  /\ applied = [r \in Request |-> {}]
  /\ failed = [r \in Request |-> {}]
  /\ errors = [r \in Request |-> {}]
  /\ orphaned = [r \in Request |-> {}]
  /\ committed = {}
  /\ raced = {}
-----------------------------------------------------------------------------
(* Validation of the whole body, before anything is written.               *)

Foreign(b) == \E rec \in b : ~rec.own
Malformed(b) == \E rec \in b : ~rec.valid

(* Pass 1: the first record of another tenant rejects the batch with a 409.
   The audit entry is written best effort: its failure is swallowed. *)
RejectForeign(r, b) ==
  /\ phase[r] = "idle"
  /\ Foreign(b)
  /\ phase' = [phase EXCEPT ![r] = "rejected"]
  /\ audited' \in {audited, audited \cup {r}}
  /\ UNCHANGED <<row, conflicts, syncLog, body, todo, locals, outcome,
                 history>>

(* Pass 2: one malformed payload rejects the batch with a 400. *)
RejectMalformed(r, b) ==
  /\ phase[r] = "idle"
  /\ ~Foreign(b)
  /\ Malformed(b)
  /\ phase' = [phase EXCEPT ![r] = "rejected"]
  /\ UNCHANGED <<row, conflicts, logs, body, todo, locals, outcome, history>>

(* The batch is taken: beginSyncLog opens its log, or fails and is ignored. *)
Accept(r, b) ==
  /\ phase[r] = "idle"
  /\ ~Foreign(b)
  /\ ~Malformed(b)
  /\ syncLog' \in {syncLog, [syncLog EXCEPT ![r] = "pending"]}
  /\ phase' = [phase EXCEPT ![r] = "process"]
  /\ body' = [body EXCEPT ![r] = b]
  /\ todo' = [todo EXCEPT ![r] = b]
  /\ UNCHANGED <<row, conflicts, audited, locals, outcome, history>>
-----------------------------------------------------------------------------
(* The loop of process: one record, one transaction, one try/catch.        *)

(* Mutant: the types in alphabetical order. *)
MutBatchOrder(type) ==
  CASE type = "attachment" -> 1
    [] type = "finding"    -> 2
    [] type = "inspection" -> 3
    [] type = "log_entry"  -> 4
    [] type = "response"   -> 5

(* BATCH_ORDER: the fixed dependency order of FR-020. *)
BatchOrder(type) ==
  CASE type = "inspection" -> 1
    [] type = "response"   -> 2
    [] type = "finding"    -> 3
    [] type = "log_entry"  -> 4
    [] type = "attachment" -> 5

(* The loop may take rec next: no record left is of an earlier type.  Among
   records of one type the body's order decides, and a body has any order. *)
NextInLoop(r, rec) ==
  /\ phase[r] = "process"
  /\ rec \in todo[r]
  /\ \A other \in todo[r] :
       BatchOrder(TypeOf[rec.id]) <= BatchOrder(TypeOf[other.id])

RefsStored(rec) == \A p \in Refs[rec.id] : row[p] # NoRow

(* The transaction is over, and its local variables with it. *)
EndRecord(r) ==
  /\ cur' = [cur EXCEPT ![r] = NoRow]
  /\ seen' = [seen EXCEPT ![r] = NoRow]
  /\ dupe' = [dupe EXCEPT ![r] = FALSE]
  /\ phase' = [phase EXCEPT ![r] = "process"]

(* The catch of the loop: the transaction is rolled back, the record counts as
   failed, and its id is listed only while the list is short of MAX_ERRORS. *)
CountFailed(r, rec) ==
  /\ failed' = [failed EXCEPT ![r] = @ \cup {rec}]
  /\ errors' = IF Cardinality(errors[r]) < MaxErrors
               THEN [errors EXCEPT ![r] = @ \cup {rec}]
               ELSE errors
  /\ EndRecord(r)

(* The transaction committed and the loop counts the record as ok. *)
CountOk(r, rec, isApplied) ==
  /\ ok' = [ok EXCEPT ![r] = @ \cup {rec}]
  /\ applied' = IF isApplied THEN [applied EXCEPT ![r] = @ \cup {rec}]
                             ELSE applied
  /\ committed' = committed \cup {rec}
  /\ EndRecord(r)

(* Mutant: the references are not looked up. *)
MutBeginRecord(r, rec) ==
  /\ NextInLoop(r, rec)
  /\ todo' = [todo EXCEPT ![r] = @ \ {rec}]
  /\ cur' = [cur EXCEPT ![r] = rec]
  /\ phase' = [phase EXCEPT ![r] = "select"]
  /\ UNCHANGED <<row, conflicts, logs, body, seen, dupe, outcome, history>>

(* BEGIN and assertRefs: every entity the payload refers to has a row.  Rows
   are never deleted, so one look at all of them is as good as a SELECT each. *)
BeginRecord(r, rec) ==
  /\ NextInLoop(r, rec)
  /\ RefsStored(rec)
  /\ todo' = [todo EXCEPT ![r] = @ \ {rec}]
  /\ cur' = [cur EXCEPT ![r] = rec]
  /\ phase' = [phase EXCEPT ![r] = "select"]
  /\ UNCHANGED <<row, conflicts, logs, body, seen, dupe, outcome, history>>

RefuseOrphan(r, rec) ==
  /\ NextInLoop(r, rec)
  /\ ~RefsStored(rec)
  /\ todo' = [todo EXCEPT ![r] = @ \ {rec}]
  /\ orphaned' = [orphaned EXCEPT ![r] = @ \cup {rec}]
  /\ CountFailed(r, rec)
  /\ UNCHANGED <<row, conflicts, logs, body, ok, applied, history>>

(* selectExisting: a plain SELECT, no lock taken. *)
SelectExisting(r) ==
  /\ phase[r] = "select"
  /\ seen' = [seen EXCEPT ![r] = row[cur[r].id]]
  /\ phase' = [phase EXCEPT ![r] = "decide"]
  /\ UNCHANGED <<row, conflicts, logs, body, todo, cur, dupe, outcome,
                 history>>

(* No row was seen and none has appeared: INSERT and COMMIT. *)
Insert(r) ==
  /\ phase[r] = "decide"
  /\ seen[r] = NoRow
  /\ row[cur[r].id] = NoRow
  /\ row' = [row EXCEPT ![cur[r].id] = cur[r]]
  /\ CountOk(r, cur[r], TRUE)
  /\ UNCHANGED <<conflicts, logs, body, todo, failed, errors, orphaned, raced>>

(* Another transaction inserted the id first: the primary key rejects it. *)
InsertDuplicateKey(r) ==
  /\ phase[r] = "decide"
  /\ seen[r] = NoRow
  /\ row[cur[r].id] # NoRow
  /\ CountFailed(r, cur[r])
  /\ UNCHANGED <<row, conflicts, logs, body, todo, ok, applied, orphaned,
                 history>>

(* A replay of the version stored: nothing to write. *)
ReplayEqual(r) ==
  /\ phase[r] = "decide"
  /\ seen[r] # NoRow
  /\ DecideLww(seen[r], cur[r]) = "equal"
  /\ CountOk(r, cur[r], FALSE)
  /\ UNCHANGED <<row, conflicts, logs, body, todo, failed, errors, orphaned,
                 raced>>

Wins(r) == DecideLww(seen[r], cur[r]) = "incoming_wins"
Winner(r) == IF Wins(r) THEN cur[r].data ELSE seen[r].data
Loser(r) == IF Wins(r) THEN seen[r].data ELSE cur[r].data

(* recordConflict looks for the same pair of payloads of the same entity. *)
FindConflict(r) ==
  /\ phase[r] = "decide"
  /\ seen[r] # NoRow
  /\ DecideLww(seen[r], cur[r]) # "equal"
  /\ dupe' = [dupe EXCEPT ![r] =
       \E c \in conflicts :
         /\ c.id = cur[r].id
         /\ c.winner = Winner(r)
         /\ c.loser = Loser(r)]
  /\ phase' = [phase EXCEPT ![r] = "write"]
  /\ UNCHANGED <<row, conflicts, logs, body, todo, cur, seen, outcome,
                 history>>

AuditConflict(r) ==
  conflicts' =
    IF dupe[r] THEN conflicts
    ELSE conflicts \cup {[id |-> cur[r].id, winner |-> Winner(r),
                          loser |-> Loser(r), log |-> r]}

(* Mutant: the loser is dropped without an audit. *)
MutKeepStored(r) ==
  /\ phase[r] = "write"
  /\ ~Wins(r)
  /\ CountOk(r, cur[r], FALSE)
  /\ UNCHANGED <<row, conflicts, logs, body, todo, failed, errors, orphaned,
                 raced>>

(* existing_wins: the incoming version is kept in the audit only. *)
KeepStored(r) ==
  /\ phase[r] = "write"
  /\ ~Wins(r)
  /\ AuditConflict(r)
  /\ CountOk(r, cur[r], FALSE)
  /\ UNCHANGED <<row, logs, body, todo, failed, errors, orphaned, raced>>

(* Mutant: the incoming version is written whoever wins. *)
MutOverwrite(r) ==
  /\ phase[r] = "write"
  /\ AuditConflict(r)
  /\ row' = [row EXCEPT ![cur[r].id] = cur[r]]
  /\ raced' = IF row[cur[r].id] = seen[r] THEN raced
              ELSE raced \cup {cur[r].id}
  /\ CountOk(r, cur[r], TRUE)
  /\ UNCHANGED <<logs, body, todo, failed, errors, orphaned>>

(* incoming_wins: the audit and UPDATE ... WHERE id, which overwrites whatever
   the row holds by now. *)
Overwrite(r) ==
  /\ phase[r] = "write"
  /\ Wins(r)
  /\ AuditConflict(r)
  /\ row' = [row EXCEPT ![cur[r].id] = cur[r]]
  /\ raced' = IF row[cur[r].id] = seen[r] THEN raced
              ELSE raced \cup {cur[r].id}
  /\ CountOk(r, cur[r], TRUE)
  /\ UNCHANGED <<logs, body, todo, failed, errors, orphaned>>

(* A statement of the transaction fails (connection, lock timeout, disk): it is
   rolled back and the loop goes on. *)
TransactionFails(r) ==
  /\ phase[r] \in {"select", "decide", "write"}
  /\ CountFailed(r, cur[r])
  /\ UNCHANGED <<row, conflicts, logs, body, todo, ok, applied, orphaned,
                 history>>
-----------------------------------------------------------------------------
(* The end of the request.                                                 *)

(* Mutant: the status word of the device's ResultadoSync. *)
MutBatchStatus(r) ==
  CASE failed[r] = {} -> "ok"
    [] failed[r] # {} /\ ok[r] # {} -> "parcial"
    [] OTHER -> "failed"

BatchStatus(r) ==
  CASE failed[r] = {} -> "ok"
    [] failed[r] # {} /\ ok[r] # {} -> "partial"
    [] OTHER -> "failed"

(* Mutant: one record stored makes the batch ok. *)
MutFinish(r) ==
  /\ phase[r] = "process"
  /\ todo[r] = {}
  /\ syncLog' = [syncLog EXCEPT ![r] = IF ok[r] # {} THEN "ok" ELSE "failed"]
  /\ phase' = [phase EXCEPT ![r] = "done"]
  /\ UNCHANGED <<row, conflicts, audited, body, todo, locals, outcome,
                 history>>

(* finishSyncLog closes the log the request opened; its failure is ignored and
   leaves it pending. *)
Finish(r) ==
  /\ phase[r] = "process"
  /\ todo[r] = {}
  /\ syncLog' \in {syncLog,
                   [syncLog EXCEPT ![r] = IF @ = "pending" THEN BatchStatus(r)
                                                           ELSE @]}
  /\ phase' = [phase EXCEPT ![r] = "done"]
  /\ UNCHANGED <<row, conflicts, audited, body, todo, locals, outcome,
                 history>>

(* The process dies: its open transactions roll back and no answer is sent. *)
Crash ==
  /\ \E r \in Request : phase[r] \in Open
  /\ phase' = [r \in Request |-> IF phase[r] \in Open THEN "dead" ELSE phase[r]]
  /\ cur' = [r \in Request |-> NoRow]
  /\ seen' = [r \in Request |-> NoRow]
  /\ dupe' = [r \in Request |-> FALSE]
  /\ UNCHANGED <<row, conflicts, logs, body, todo, outcome, history>>

Receive(r) ==
  \E b \in Bodies : RejectForeign(r, b) \/ RejectMalformed(r, b) \/ Accept(r, b)

TakeRecord(r) ==
  \E rec \in todo[r] : BeginRecord(r, rec) \/ RefuseOrphan(r, rec)

Step(r) ==
  \/ SelectExisting(r)
  \/ Insert(r)
  \/ InsertDuplicateKey(r)
  \/ ReplayEqual(r)
  \/ FindConflict(r)
  \/ KeepStored(r)
  \/ Overwrite(r)
  \/ TransactionFails(r)
  \/ Finish(r)

Next == Crash \/ \E r \in Request : Receive(r) \/ TakeRecord(r) \/ Step(r)

Spec == Init /\ [][Next]_vars
-----------------------------------------------------------------------------
(* Properties.                                                             *)

Audited(i, data) ==
  \E c \in conflicts : c.id = i /\ data \in {c.winner, c.loser}

Kept(rec) ==
  \/ row[rec.id] # NoRow /\ row[rec.id].data = rec.data
  \/ Audited(rec.id, rec.data)

(* Article III: every version whose transaction committed can still be found,
   as the stored row or on one side of a conflict_record, however many
   handlers wrote the entity at once. *)
BothVersionsKept == \A rec \in committed : Kept(rec)

(* FR-023: the stored version is the newest of all committed ones, unless some
   handler updated the entity on the strength of a row that another had
   replaced since its SELECT. *)
NewestUnlessRaced ==
  \A rec \in committed :
    rec.id \notin raced =>
      row[rec.id] # NoRow /\ ~LwwWins(rec, row[rec.id])

(* FR-021: a version is written once.  A retry of a batch whose answer was
   lost, or that a crash cut short, finds it and reports 'unchanged'. *)
AppliedOnce ==
  \A r, s \in Request : \A rec \in applied[r] \cap applied[s] :
    r = s \/ rec.id \in raced

(* Every stored entity has the rows it refers to, whatever the batches that
   brought them, their failures and their order. *)
ReferencesHold ==
  \A i \in Id : row[i] # NoRow => \A p \in Refs[i] : row[p] # NoRow

(* FR-020: no record is refused for a missing reference that the same batch
   stores: of the entities it refers to, one is not among the batch's ok. *)
ParentsComeFirst ==
  \A r \in Request : \A rec \in orphaned[r] :
    \E p \in Refs[rec.id] : \A other \in ok[r] : other.id # p

(* A log closed 'ok' vouches for the whole batch, 'partial' for a part of it:
   the counts the supervisor reads agree with what was committed. *)
LogTellsTheTruth ==
  \A r \in Request :
    /\ syncLog[r] = "ok" => body[r] \subseteq committed
    /\ syncLog[r] = "partial" => \E rec \in body[r] : rec \in committed
    /\ syncLog[r] = "failed" => \E rec \in body[r] : rec \notin ok[r]

(* What spec 003 says of the upsert: "ON CONFLICT (id) DO UPDATE ... WHERE
   excluded.client_version > tabla.client_version": a stored version is never
   replaced by one it beats. *)
StoredVersionNeverRegresses ==
  [][\A i \in Id : row[i] # NoRow => ~LwwWins(row[i], row'[i])]_vars
=============================================================================
