------------------------- MODULE ClientOutboxProofs -------------------------
(* Proofs about the device, for any inspections, answers, findings, photos and
   log entries, and any size of a batch. *)
EXTENDS ClientOutbox, FiniteSetTheorems, TLAPS

-----------------------------------------------------------------------------
(* One step of the device, by action. *)
LEMMA OutboxCases ==
  ASSUME Next
  PROVE  \/ \E e \in Capturable : \/ BeginCapture(e)
                                  \/ CreateDraft(e)
                                  \/ WriteResponse(e)
                                  \/ LookUpPhoto(e)
                                  \/ SavePhoto(e)
                                  \/ ClearPhoto(e)
                                  \/ SaveFinding(e)
         \/ \E i \in Inspection : FindNoDraft(i) \/ Discard(i)
         \/ \E l \in LogEntry : SaveLogEntry(l)
         \/ \E e \in Inspection \cup LogEntry : DiscardUnit(e)
         \/ BeginSubmit \/ Submit \/ SubmitFails \/ BeginDiscard
         \/ ResetLocalData \/ SyncNow
         \/ GoOffline \/ GoOnline \/ Reopen \/ Crash
         \/ TimerFires \/ ReadQueue \/ NothingToSend \/ MarkSending
         \/ BuildRequest \/ BuildFails \/ FetchFails
         \/ \E listed \in SUBSET batch : Settle(listed)
BY DEF Next, User, Signal, Prepare, Answer

(* The type invariant is inductive. *)
LEMMA OutboxTypeStep == TypeOK /\ [Next]_vars => TypeOK'
<1> SUFFICES ASSUME TypeOK, [Next]_vars PROVE TypeOK'
  OBVIOUS
<1> USE OutboxConstants
        DEF TypeOK, tables, handlers, worker, signal, past, Capturable, Entity,
            RowStatus, CaptureStep
<1>1. ASSUME NEW e \in Capturable, BeginCapture(e) PROVE TypeOK'
  BY <1>1 DEF BeginCapture
<1>2. ASSUME NEW e \in Capturable, CreateDraft(e) PROVE TypeOK'
  BY <1>2 DEF CreateDraft, Add
<1>3. ASSUME NEW e \in Capturable, WriteResponse(e) PROVE TypeOK'
  <2>1. late' \subseteq Response \cup Attachment BY <1>3 DEF WriteResponse, Late
  <2>2. local' \in [Entity -> {"absent", "present", "gone"}]
    BY <1>3 DEF WriteResponse, Add
  <2>3. capture' \in [Capturable -> CaptureStep]
    BY <1>3 DEF WriteResponse
  <2> QED BY <1>3, <2>1, <2>2, <2>3 DEF WriteResponse
<1>4. ASSUME NEW e \in Capturable, SavePhoto(e) PROVE TypeOK'
  <2>1. \/ local' = local /\ late' = late
        \/ \E a \in Attachment : Add({a}) /\ Late(RootOf[e], {a})
    BY <1>4 DEF SavePhoto, PhotosOf
  <2>2. ASSUME NEW a \in Attachment, Add({a}), Late(RootOf[e], {a})
        PROVE  /\ late' \subseteq Response \cup Attachment
               /\ local' \in [Entity -> {"absent", "present", "gone"}]
    BY <2>2 DEF Add, Late
  <2>3. /\ late' \subseteq Response \cup Attachment
        /\ local' \in [Entity -> {"absent", "present", "gone"}]
    BY <2>1, <2>2
  <2> QED BY <1>4, <2>3 DEF SavePhoto, PhotoDone
<1>5. ASSUME NEW e \in Capturable, ClearPhoto(e) PROVE TypeOK'
  BY <1>5 DEF ClearPhoto, PhotoDone, Delete, Unqueue
<1>23. ASSUME NEW e \in Capturable, LookUpPhoto(e) PROVE TypeOK'
  BY <1>23 DEF LookUpPhoto, Present, PhotosOf
<1>6. ASSUME NEW e \in Capturable, SaveFinding(e) PROVE TypeOK'
  BY <1>6 DEF SaveFinding, Add, Enqueue
<1>7. ASSUME NEW i \in Inspection, FindNoDraft(i) \/ Discard(i) PROVE TypeOK'
  BY <1>7 DEF FindNoDraft, Discard, Delete
<1>8. ASSUME NEW l \in LogEntry, SaveLogEntry(l) PROVE TypeOK'
  BY <1>8 DEF SaveLogEntry, Add, Enqueue
<1>9. ASSUME NEW e \in Inspection \cup LogEntry, DiscardUnit(e) PROVE TypeOK'
  BY <1>9 DEF DiscardUnit, Delete, Unqueue
<1>10. ASSUME BeginSubmit \/ SubmitFails PROVE TypeOK'
  BY <1>10 DEF BeginSubmit, SubmitFails
<1>11. ASSUME Submit PROVE TypeOK'
  BY <1>11 DEF Submit, Enqueue, Trigger
<1>12. ASSUME BeginDiscard PROVE TypeOK'
  BY <1>12 DEF BeginDiscard, Present, PartsOf
<1>13. ASSUME ResetLocalData PROVE TypeOK'
  BY <1>13 DEF ResetLocalData, Delete, Unqueue
<1>14. ASSUME SyncNow \/ GoOffline \/ GoOnline PROVE TypeOK'
  BY <1>14 DEF SyncNow, GoOffline, GoOnline
<1>15. ASSUME Reopen \/ TimerFires PROVE TypeOK'
  BY <1>15 DEF Reopen, TimerFires
<1>16. ASSUME Crash PROVE TypeOK'
  BY <1>16 DEF Crash
<1>17. ASSUME ReadQueue PROVE TypeOK'
  BY <1>17 DEF ReadQueue, FirstOfQueue, Ready
<1>18. ASSUME NothingToSend \/ BuildRequest PROVE TypeOK'
  BY <1>18 DEF NothingToSend, BuildRequest
<1>19. ASSUME MarkSending PROVE TypeOK'
  BY <1>19 DEF MarkSending, Mark
<1>20. ASSUME BuildFails \/ FetchFails PROVE TypeOK'
  BY <1>20 DEF BuildFails, FetchFails, FailBatch, Mark
<1>21. ASSUME NEW listed \in SUBSET batch, Settle(listed) PROVE TypeOK'
  BY <1>21 DEF Settle
<1>22. ASSUME UNCHANGED vars PROVE TypeOK'
  BY <1>22 DEF vars
<1> QED
  BY OutboxCases, <1>1, <1>2, <1>3, <1>4, <1>5, <1>6, <1>7, <1>8, <1>9, <1>10,
     <1>11, <1>12, <1>13, <1>14, <1>15, <1>16, <1>17, <1>18, <1>19, <1>20, <1>21,
     <1>22, <1>23

(* A new device has nothing stored and nothing queued. *)
LEMMA OutboxInit == Init => TypeOK
<1> SUFFICES ASSUME Init PROVE TypeOK
  OBVIOUS
<1>1. /\ local \in [Entity -> {"absent", "present", "gone"}]
      /\ row \in [Entity -> RowStatus]
      /\ capture \in [Capturable -> CaptureStep]
      /\ found \in [Response -> SUBSET Attachment]
  BY DEF Init, RowStatus, CaptureStep
<1>2. online \in BOOLEAN /\ open \in BOOLEAN /\ timer \in BOOLEAN
  BY Zenon DEF Init
<1> QED BY <1>1, <1>2 DEF Init, TypeOK

(* The variables of the device keep their types, and a batch that is built or
   sent is not empty. *)
THEOREM OutboxTypeCorrect == Spec => []TypeOK
BY OutboxInit, OutboxTypeStep, PTL DEF Spec
-----------------------------------------------------------------------------
(* The worker and the queue.  Nothing runs on a closed page; the rows of a
   batch are settled only by its own answer. *)
ClosedIsIdle ==
  ~open => /\ pc = "idle"
           /\ timer = FALSE
           /\ submitting = None

BatchUnsettled == \A e \in batch : row[e] # "synced"

WorkerInv == TypeOK /\ ClosedIsIdle /\ BatchUnsettled /\ SyncingIsInFlight

(* Every step leaves the worker alone, starts it, or is one of its own. *)
Waking ==
  /\ pc' = pc \/ (pc = "idle" /\ pc' = "read")
  /\ batch' = batch

(* A handler or the user may queue rows anew and take rows out. *)
Requeuing ==
  \A e \in Entity : row'[e] \in {row[e], "pending", "none"}

(* Every step by what it does to the worker and the status of the rows. *)
LEMMA WorkerCases ==
  ASSUME WorkerInv, [Next]_vars
  PROVE  \/ Waking /\ Requeuing /\ stranded' = stranded
         \/ ReadQueue \/ NothingToSend \/ MarkSending \/ BuildRequest
         \/ BuildFails \/ FetchFails \/ \E listed \in SUBSET batch : Settle(listed)
         \/ Crash
<1> USE DEF WorkerInv, TypeOK, tables, handlers, worker, signal, past, Waking, Requeuing
<1>1. ASSUME NEW e \in Capturable,
             \/ BeginCapture(e) \/ CreateDraft(e) \/ WriteResponse(e)
             \/ LookUpPhoto(e) \/ SavePhoto(e)
      PROVE  Waking /\ Requeuing /\ stranded' = stranded
  BY <1>1 DEF BeginCapture, CreateDraft, WriteResponse, LookUpPhoto, SavePhoto
<1>2. ASSUME NEW e \in Capturable, ClearPhoto(e) \/ SaveFinding(e)
      PROVE  Waking /\ Requeuing /\ stranded' = stranded
  BY <1>2 DEF ClearPhoto, SaveFinding, Enqueue, Unqueue
<1>3. ASSUME NEW i \in Inspection, FindNoDraft(i) \/ Discard(i)
      PROVE  Waking /\ Requeuing /\ stranded' = stranded
  BY <1>3 DEF FindNoDraft, Discard
<1>4. ASSUME NEW l \in LogEntry, SaveLogEntry(l)
      PROVE  Waking /\ Requeuing /\ stranded' = stranded
  BY <1>4 DEF SaveLogEntry, Enqueue
<1>5. ASSUME NEW e \in Inspection \cup LogEntry, DiscardUnit(e)
      PROVE  Waking /\ Requeuing /\ stranded' = stranded
  BY <1>5 DEF DiscardUnit, Unqueue
<1>6. ASSUME BeginSubmit \/ SubmitFails \/ BeginDiscard
      PROVE  Waking /\ Requeuing /\ stranded' = stranded
  BY <1>6 DEF BeginSubmit, SubmitFails, BeginDiscard
<1>7. ASSUME Submit
      PROVE  Waking /\ Requeuing /\ stranded' = stranded
  BY <1>7 DEF Submit, Enqueue, Trigger
<1>8. ASSUME ResetLocalData
      PROVE  Waking /\ Requeuing /\ stranded' = stranded
  BY <1>8 DEF ResetLocalData, Unqueue
<1>9. ASSUME SyncNow \/ GoOffline \/ GoOnline \/ TimerFires
      PROVE  Waking /\ Requeuing /\ stranded' = stranded
  BY <1>9 DEF SyncNow, GoOffline, GoOnline, TimerFires
<1>10. ASSUME Reopen
       PROVE  Waking /\ Requeuing /\ stranded' = stranded
  BY <1>10 DEF Reopen, ClosedIsIdle
<1>11. ASSUME UNCHANGED vars
       PROVE  Waking /\ Requeuing /\ stranded' = stranded
  BY <1>11 DEF vars
<1> QED
  BY OutboxCases, <1>1, <1>2, <1>3, <1>4, <1>5, <1>6, <1>7, <1>8, <1>9, <1>10, <1>11

(* A closed page has no worker, no timer and no submit under way. *)
LEMMA ClosedStep == WorkerInv /\ [Next]_vars => ClosedIsIdle'
<1> SUFFICES ASSUME WorkerInv, [Next]_vars, ~open' PROVE ClosedIsIdle'
  BY DEF ClosedIsIdle
<1> USE DEF WorkerInv, ClosedIsIdle, TypeOK, tables, handlers, worker, signal, past
<1>1. ASSUME NEW e \in Capturable,
             \/ BeginCapture(e) \/ CreateDraft(e) \/ WriteResponse(e)
             \/ LookUpPhoto(e) \/ SavePhoto(e) \/ ClearPhoto(e) \/ SaveFinding(e)
      PROVE  ClosedIsIdle'
  BY <1>1 DEF BeginCapture, CreateDraft, WriteResponse, LookUpPhoto, SavePhoto,
              ClearPhoto, SaveFinding
<1>2. ASSUME NEW i \in Inspection, FindNoDraft(i) \/ Discard(i)
      PROVE  ClosedIsIdle'
  BY <1>2 DEF FindNoDraft, Discard
<1>3. ASSUME NEW e \in Inspection \cup LogEntry, SaveLogEntry(e) \/ DiscardUnit(e)
      PROVE  ClosedIsIdle'
  BY <1>3 DEF SaveLogEntry, DiscardUnit
<1>4. ASSUME BeginSubmit \/ Submit \/ SubmitFails \/ BeginDiscard \/ ResetLocalData
      PROVE  ClosedIsIdle'
  BY <1>4 DEF BeginSubmit, Submit, SubmitFails, BeginDiscard, ResetLocalData
<1>5. ASSUME SyncNow \/ GoOffline \/ GoOnline \/ Reopen \/ Crash
      PROVE  ClosedIsIdle'
  BY <1>5 DEF SyncNow, GoOffline, GoOnline, Reopen, Crash
<1>6. ASSUME \/ TimerFires \/ ReadQueue \/ NothingToSend \/ MarkSending
             \/ BuildRequest \/ BuildFails \/ FetchFails
      PROVE  ClosedIsIdle'
  BY <1>6 DEF TimerFires, ReadQueue, NothingToSend, MarkSending, BuildRequest,
              BuildFails, FetchFails, FailBatch
<1>7. ASSUME NEW listed \in SUBSET batch, Settle(listed) PROVE ClosedIsIdle'
  BY <1>7 DEF Settle
<1>8. ASSUME UNCHANGED vars PROVE ClosedIsIdle'
  BY <1>8 DEF vars
<1> QED
  BY OutboxCases, <1>1, <1>2, <1>3, <1>4, <1>5, <1>6, <1>7, <1>8

(* The batch of the worker is its own until it is settled. *)
LEMMA WorkerStep == WorkerInv /\ [Next]_vars => WorkerInv'
<1> SUFFICES ASSUME WorkerInv, [Next]_vars
             PROVE  BatchUnsettled' /\ SyncingIsInFlight'
  BY OutboxTypeStep, ClosedStep DEF WorkerInv
<1>0. TypeOK /\ TypeOK' BY OutboxTypeStep DEF WorkerInv
<1> USE DEF WorkerInv, BatchUnsettled, SyncingIsInFlight, TypeOK, tables, handlers,
            signal, past
<1>1. CASE Waking /\ Requeuing /\ stranded' = stranded
  BY <1>0, <1>1 DEF Waking, Requeuing
<1>2. CASE ReadQueue
  BY <1>0, <1>2 DEF ReadQueue, FirstOfQueue, Ready
<1>3. CASE NothingToSend
  BY <1>0, <1>3 DEF NothingToSend
<1>4. CASE MarkSending
  BY <1>0, <1>4 DEF MarkSending, Mark
<1>5. CASE BuildRequest
  BY <1>0, <1>5 DEF BuildRequest
<1>6. CASE BuildFails \/ FetchFails
  BY <1>0, <1>6 DEF BuildFails, FetchFails, FailBatch, Mark
<1>7. ASSUME NEW listed \in SUBSET batch, Settle(listed)
      PROVE  BatchUnsettled' /\ SyncingIsInFlight'
  BY <1>0, <1>7 DEF Settle
<1>8. CASE Crash
  BY <1>0, <1>8 DEF Crash
<1> QED
  BY WorkerCases, <1>1, <1>2, <1>3, <1>4, <1>5, <1>6, <1>7, <1>8

(* So it is in every state. *)
LEMMA WorkerInvariance == Spec => []WorkerInv
<1>1. Init => WorkerInv
  BY OutboxInit DEF Init, WorkerInv, ClosedIsIdle, BatchUnsettled, SyncingIsInFlight
<1> QED
  BY <1>1, WorkerStep, PTL DEF Spec

(* The invariant of the catch of sincronizarCola: only the death of the page
   can leave a row 'syncing' that no batch holds. *)
THEOREM OnlyCrashStrands == Spec => []SyncingIsInFlight
<1>1. WorkerInv => SyncingIsInFlight
  BY DEF WorkerInv
<1> QED
  BY <1>1, WorkerInvariance, PTL
-----------------------------------------------------------------------------
(* Rows without a record.  The parts descartarBorrador read are of one draft, so
   the photos it deletes are of that draft's tree. *)
CondemnedOfOne ==
  \A i \in condemned \cap Inspection : condemned \subseteq {i} \cup PartsOf(i)

LostInv == WorkerInv /\ CondemnedOfOne /\ LostRecordsWereDrafts

(* A step that takes no record away without its row, and queues only what is
   there, leaves no new row without its record. *)
Tidy ==
  /\ dropped \subseteq dropped'
  /\ \A e \in Entity : row'[e] \in {"pending", "syncing", "failed"} =>
       \/ local'[e] = "present"
       \/ row[e] \in {"pending", "syncing", "failed"} /\ local[e] # "present"
       \/ \E i \in dropped' : e \in Tree(i)

(* A record leaves the device only with its draft or its queued unit. *)
LEMMA TidyStep ==
  ASSUME LostInv, [Next]_vars
  PROVE  Tidy /\ CondemnedOfOne'
<1> USE OutboxConstants
        DEF TypeOK, tables, handlers, worker, signal, past, Tidy, CondemnedOfOne
<1>0. TypeOK /\ CondemnedOfOne /\ BatchUnsettled
  BY DEF LostInv, WorkerInv
<1>1. ASSUME NEW e \in Capturable, BeginCapture(e) PROVE Tidy /\ CondemnedOfOne'
  BY <1>0, <1>1 DEF BeginCapture
<1>2. ASSUME NEW e \in Capturable, CreateDraft(e) \/ WriteResponse(e) \/ LookUpPhoto(e)
      PROVE Tidy /\ CondemnedOfOne'
  BY <1>0, <1>2 DEF CreateDraft, WriteResponse, LookUpPhoto, Add
<1>3. ASSUME NEW e \in Capturable, SavePhoto(e) PROVE Tidy /\ CondemnedOfOne'
  <2>1. local' = local \/ \E a \in Attachment : Add({a})
    BY <1>3 DEF SavePhoto, PhotosOf
  <2>2. \A x \in Entity : local[x] = "present" => local'[x] = "present"
    BY <2>1 DEF Add
  <2>3. UNCHANGED <<row, condemned, dropped>> BY <1>3 DEF SavePhoto
  <2> QED BY <1>0, <2>2, <2>3
<1>4. ASSUME NEW e \in Capturable, ClearPhoto(e) PROVE Tidy /\ CondemnedOfOne'
  <2>1. \A x \in Entity : \/ row'[x] = "none"
                         \/ (row'[x] = row[x] /\ local'[x] = local[x])
    BY <1>4 DEF ClearPhoto, Delete, Unqueue, Present
  <2>2. UNCHANGED <<condemned, dropped>>
    BY <1>4 DEF ClearPhoto
  <2> QED BY <1>0, <2>1, <2>2
<1>5. ASSUME NEW e \in Capturable, SaveFinding(e) PROVE Tidy /\ CondemnedOfOne'
  BY <1>0, <1>5 DEF SaveFinding, Add, Enqueue
<1>6. ASSUME NEW i \in Inspection, FindNoDraft(i) PROVE Tidy /\ CondemnedOfOne'
  BY <1>0, <1>6 DEF FindNoDraft
<1>7. ASSUME NEW i \in Inspection, Discard(i) PROVE Tidy /\ CondemnedOfOne'
  <2>1. PhotosOf(condemned) \subseteq PhotosOf(PartsOf(i))
    BY <1>0, <1>7 DEF Discard, PhotosOf, Capturable
  <2>2. /\ condemned' = {} /\ dropped' = dropped \cup {i} /\ row' = row
        /\ \A e \in Entity : local'[e] # local[e] => e \in Tree(i)
    BY <1>7, <2>1 DEF Discard, Delete, Tree, Present
  <2> QED BY <1>0, <2>2
<1>8. ASSUME NEW l \in LogEntry, SaveLogEntry(l) PROVE Tidy /\ CondemnedOfOne'
  BY <1>0, <1>8 DEF SaveLogEntry, Add, Enqueue
<1>9. ASSUME NEW e \in Inspection \cup LogEntry, DiscardUnit(e)
      PROVE Tidy /\ CondemnedOfOne'
  BY <1>0, <1>9 DEF DiscardUnit, Delete, Unqueue, Unit
<1>10. ASSUME BeginSubmit \/ SubmitFails PROVE Tidy /\ CondemnedOfOne'
  BY <1>0, <1>10 DEF BeginSubmit, SubmitFails
<1>11. ASSUME Submit PROVE Tidy /\ CondemnedOfOne'
  <2>1. QueuedWith(submitting) \subseteq Present(Entity)
    BY <1>0, <1>11 DEF Submit, QueuedWith, Present, PhotosOf, PartsOf, Entity,
                       Capturable
  <2> QED BY <1>0, <1>11, <2>1 DEF Submit, Enqueue, Present
<1>12. ASSUME BeginDiscard PROVE Tidy /\ CondemnedOfOne'
  <2>1. CondemnedOfOne'
    BY <1>0, <1>12 DEF BeginDiscard, Present, PartsOf, Capturable
  <2> QED BY <1>0, <1>12, <2>1 DEF BeginDiscard
<1>13. ASSUME ResetLocalData PROVE Tidy /\ CondemnedOfOne'
  BY <1>0, <1>13 DEF ResetLocalData, Unqueue
<1>14. ASSUME \/ SyncNow \/ GoOffline \/ GoOnline \/ Reopen \/ TimerFires
              \/ ReadQueue \/ NothingToSend \/ BuildRequest
       PROVE Tidy /\ CondemnedOfOne'
  BY <1>0, <1>14 DEF SyncNow, GoOffline, GoOnline, Reopen, TimerFires, ReadQueue,
                     NothingToSend, BuildRequest
<1>15. ASSUME Crash PROVE Tidy /\ CondemnedOfOne'
  BY <1>0, <1>15 DEF Crash
<1>16. ASSUME MarkSending PROVE Tidy /\ CondemnedOfOne'
  BY <1>0, <1>16 DEF MarkSending, Mark, BatchUnsettled, RowStatus
<1>17. ASSUME BuildFails \/ FetchFails PROVE Tidy /\ CondemnedOfOne'
  BY <1>0, <1>17 DEF BuildFails, FetchFails, FailBatch, Mark, BatchUnsettled, RowStatus
<1>18. ASSUME NEW listed \in SUBSET batch, Settle(listed) PROVE Tidy /\ CondemnedOfOne'
  BY <1>0, <1>18 DEF Settle, BatchUnsettled, RowStatus
<1>19. ASSUME UNCHANGED vars PROVE Tidy /\ CondemnedOfOne'
  BY <1>0, <1>19 DEF vars
<1> QED
  BY OutboxCases, <1>1, <1>2, <1>3, <1>4, <1>5, <1>6, <1>7, <1>8, <1>9, <1>10,
     <1>11, <1>12, <1>13, <1>14, <1>15, <1>16, <1>17, <1>18, <1>19

(* Queued rows without a record are of dropped drafts, those about to go included. *)
LEMMA LostStep == LostInv /\ [Next]_vars => LostInv'
<1> SUFFICES ASSUME LostInv, [Next]_vars PROVE LostInv'
  OBVIOUS
<1>1. Tidy /\ CondemnedOfOne' /\ WorkerInv'
  BY TidyStep, WorkerStep DEF LostInv
<1>2. LostRecordsWereDrafts'
  BY <1>1 DEF LostInv, LostRecordsWereDrafts, Tidy, Tree, PartsOf, PhotosOf
<1> QED BY <1>1, <1>2 DEF LostInv

(* Of all that deletes records on the device, only discarding a draft leaves a
   queued row without its record. *)
THEOREM OnlyDraftsLeaveRows == Spec => []LostRecordsWereDrafts
<1>1. Init => LostInv
  BY OutboxInit
     DEF Init, LostInv, WorkerInv, ClosedIsIdle, BatchUnsettled, SyncingIsInFlight,
         CondemnedOfOne, LostRecordsWereDrafts
<1>2. LostInv => LostRecordsWereDrafts
  BY DEF LostInv
<1> QED
  BY <1>1, <1>2, LostStep, PTL DEF Spec
-----------------------------------------------------------------------------
(* Retries.  While the whole queue fits in a batch, the failed rows are in the
   batch of the worker that read them, and its answer programs the retry. *)
FailedInBatch ==
  pc \in {"mark", "build", "fetch"} =>
    \A e \in Entity : row[e] = "failed" => e \in batch

RetryInv == WorkerInv /\ FailedInBatch /\ FailedRowsHaveRetry

(* A queue that fits in a batch is sent whole. *)
LEMMA WholeQueue ==
  ASSUME IsFiniteSet(Entity), Cardinality(Entity) <= MaxBatch,
         NEW priorizarFotos \in BOOLEAN, NEW S \in FirstOfQueue(priorizarFotos)
  PROVE  S = Ready
<1>1. Ready \subseteq Entity /\ S \subseteq Ready
  BY DEF Ready, FirstOfQueue
<1>2. IsFiniteSet(Ready) /\ Cardinality(Ready) <= Cardinality(Entity)
  BY <1>1, FS_Subset
<1>3. IsFiniteSet(S) /\ Cardinality(S) <= Cardinality(Ready)
      /\ (Cardinality(S) = Cardinality(Ready) => S = Ready)
  BY <1>1, <1>2, FS_Subset
<1>4. /\ Cardinality(Entity) \in Nat /\ Cardinality(Ready) \in Nat
      /\ Cardinality(S) \in Nat /\ MaxBatch \in Nat
  BY <1>2, <1>3, FS_CardinalityType, OutboxConstants
<1>5. S = Ready \/ Cardinality(S) = MaxBatch
  BY DEF FirstOfQueue
<1> QED BY <1>2, <1>3, <1>4, <1>5

(* Failed rows are in the batch under way or have a retry ahead. *)
LEMMA RetryStep ==
  ASSUME IsFiniteSet(Entity), Cardinality(Entity) <= MaxBatch,
         RetryInv, [Next]_vars
  PROVE  RetryInv'
<1>0. TypeOK /\ TypeOK' /\ WorkerInv' /\ ClosedIsIdle
  BY OutboxTypeStep, WorkerStep DEF RetryInv, WorkerInv
<1> SUFFICES FailedInBatch' /\ FailedRowsHaveRetry'
  BY <1>0 DEF RetryInv
<1> USE DEF RetryInv, FailedInBatch, FailedRowsHaveRetry, TypeOK, tables, handlers,
            worker, signal, past
<1>1. ASSUME NEW e \in Capturable,
             \/ BeginCapture(e) \/ CreateDraft(e) \/ WriteResponse(e)
             \/ LookUpPhoto(e) \/ SavePhoto(e)
      PROVE  FailedInBatch' /\ FailedRowsHaveRetry'
  BY <1>0, <1>1 DEF BeginCapture, CreateDraft, WriteResponse, LookUpPhoto, SavePhoto
<1>2. ASSUME NEW e \in Capturable, ClearPhoto(e) \/ SaveFinding(e)
      PROVE  FailedInBatch' /\ FailedRowsHaveRetry'
  <2>1. \A x \in Entity : row'[x] = "failed" => row[x] = "failed"
    <3>1. CASE ClearPhoto(e)
      BY <3>1 DEF ClearPhoto, Unqueue
    <3>2. CASE SaveFinding(e)
      BY <3>2 DEF SaveFinding, Enqueue
    <3> QED BY <1>2, <3>1, <3>2
  <2>2. UNCHANGED <<worker, signal>> BY <1>2 DEF ClearPhoto, SaveFinding
  <2> QED BY <1>0, <2>1, <2>2
<1>3. ASSUME NEW i \in Inspection, FindNoDraft(i) \/ Discard(i)
      PROVE  FailedInBatch' /\ FailedRowsHaveRetry'
  BY <1>0, <1>3 DEF FindNoDraft, Discard
<1>4. ASSUME NEW e \in Inspection \cup LogEntry, SaveLogEntry(e) \/ DiscardUnit(e)
      PROVE  FailedInBatch' /\ FailedRowsHaveRetry'
  BY <1>0, <1>4 DEF SaveLogEntry, DiscardUnit, Enqueue, Unqueue
<1>5. ASSUME BeginSubmit \/ SubmitFails \/ BeginDiscard
      PROVE  FailedInBatch' /\ FailedRowsHaveRetry'
  BY <1>0, <1>5 DEF BeginSubmit, SubmitFails, BeginDiscard
<1>6. ASSUME Submit PROVE FailedInBatch' /\ FailedRowsHaveRetry'
  BY <1>0, <1>6 DEF Submit, Enqueue, Trigger
<1>7. ASSUME ResetLocalData PROVE FailedInBatch' /\ FailedRowsHaveRetry'
  BY <1>0, <1>7 DEF ResetLocalData, Unqueue
<1>8. ASSUME SyncNow \/ GoOffline \/ GoOnline \/ TimerFires
      PROVE  FailedInBatch' /\ FailedRowsHaveRetry'
  BY <1>0, <1>8 DEF SyncNow, GoOffline, GoOnline, TimerFires
<1>9. ASSUME Reopen PROVE FailedInBatch' /\ FailedRowsHaveRetry'
  BY <1>0, <1>9 DEF Reopen
<1>10. ASSUME ReadQueue PROVE FailedInBatch' /\ FailedRowsHaveRetry'
  <2>1. batch' = Ready BY <1>10, WholeQueue DEF ReadQueue
  <2> QED BY <1>0, <1>10, <2>1 DEF ReadQueue, Ready
<1>11. ASSUME NothingToSend PROVE FailedInBatch' /\ FailedRowsHaveRetry'
  BY <1>0, <1>11 DEF NothingToSend
<1>12. ASSUME MarkSending PROVE FailedInBatch' /\ FailedRowsHaveRetry'
  BY <1>0, <1>12 DEF MarkSending, Mark
<1>13. ASSUME BuildRequest PROVE FailedInBatch' /\ FailedRowsHaveRetry'
  BY <1>0, <1>13 DEF BuildRequest
<1>14. ASSUME BuildFails \/ FetchFails PROVE FailedInBatch' /\ FailedRowsHaveRetry'
  BY <1>0, <1>14 DEF BuildFails, FetchFails, FailBatch
<1>15. ASSUME NEW listed \in SUBSET batch, Settle(listed)
       PROVE  FailedInBatch' /\ FailedRowsHaveRetry'
  <2>1. \A e \in Entity : row'[e] = "failed" => e \in listed
    BY <1>0, <1>15 DEF Settle
  <2>2. listed \cap batch # {} => timer'
    BY <1>15 DEF Settle
  <2> QED BY <1>15, <2>1, <2>2 DEF Settle
<1>16. ASSUME Crash PROVE FailedInBatch' /\ FailedRowsHaveRetry'
  BY <1>0, <1>16 DEF Crash
<1>17. ASSUME UNCHANGED vars PROVE FailedInBatch' /\ FailedRowsHaveRetry'
  BY <1>0, <1>17 DEF vars
<1> QED
  BY OutboxCases, <1>1, <1>2, <1>3, <1>4, <1>5, <1>6, <1>7, <1>8, <1>9, <1>10,
     <1>11, <1>12, <1>13, <1>14, <1>15, <1>16, <1>17

(* FR-022 as long as all rows of the device fit in one batch: with signal and
   the page open, failed rows always have a retry programmed. *)
THEOREM SmallQueuesAreRetried ==
  ASSUME IsFiniteSet(Entity), Cardinality(Entity) <= MaxBatch
  PROVE  Spec => []FailedRowsHaveRetry
<1>1. Init => RetryInv
  BY OutboxInit
     DEF Init, RetryInv, WorkerInv, ClosedIsIdle, BatchUnsettled, SyncingIsInFlight,
         FailedInBatch, FailedRowsHaveRetry
<1>2. RetryInv => FailedRowsHaveRetry
  BY DEF RetryInv
<1>3. RetryInv /\ [Next]_vars => RetryInv'
  BY RetryStep
<1> QED
  BY <1>1, <1>2, <1>3, PTL DEF Spec
-----------------------------------------------------------------------------
(* The life of a record on the device: absent, present, gone, never back.  A
   record is added under the inspection, or to the owner, that was added before;
   so a handler that is about to add one still finds it absent. *)
Ancestors ==
  /\ \A i \in resolving : local[i] = "absent"
  /\ \A e \in Capturable :
       local[e] # "absent" \/ capture[e] # "idle" => local[RootOf[e]] # "absent"
  /\ \A e \in Finding :
       /\ capture[e] = "write" => local[e] = "absent"
       /\ capture[e] \in {"idle", "write"}
  /\ \A e \in Response : capture[e] \in {"photo", "save", "clear"} => local[e] # "absent"
  /\ \A a \in Attachment : local[a] # "absent" => local[OwnerOf[a]] # "absent"

Onward ==
  \A e \in Entity :
    \/ local'[e] = local[e]
    \/ local[e] = "absent" /\ local'[e] = "present"
    \/ local[e] = "present" /\ local'[e] = "gone"

(* What Ancestors needs of a step that adds nothing and starts no handler. *)
NothingAdded ==
  /\ \A e \in Entity : \/ local'[e] = local[e]
                       \/ local[e] = "present" /\ local'[e] = "gone"
  /\ resolving' \subseteq resolving
  /\ \A e \in Capturable : capture'[e] \in {capture[e], "idle"}

(* A step that adds no record keeps every record after its inspection and owner. *)
LEMMA NothingAddedStep ==
  ASSUME TypeOK, Ancestors, NothingAdded
  PROVE  Onward /\ Ancestors'
<1>1. Onward BY DEF Onward, NothingAdded
<1>2. Inspection \subseteq Entity /\ Capturable \subseteq Entity
      /\ Attachment \subseteq Entity /\ Finding \subseteq Capturable
      /\ Response \subseteq Capturable
  BY DEF Entity, Capturable
<1>3. \A e \in Entity : local'[e] = "absent" <=> local[e] = "absent"
  BY DEF NothingAdded
<1>4. \A e \in Capturable : RootOf[e] \in Inspection
  BY OutboxConstants
<1>5. \A a \in Attachment : OwnerOf[a] \in Capturable
  BY OutboxConstants
<1>6. \A i \in resolving' : local'[i] = "absent"
  BY <1>2, <1>3 DEF Ancestors, NothingAdded, TypeOK
<1>7. \A e \in Capturable :
        local'[e] # "absent" \/ capture'[e] # "idle" => local'[RootOf[e]] # "absent"
  BY <1>2, <1>3, <1>4 DEF Ancestors, NothingAdded
<1>8. \A e \in Finding : /\ capture'[e] = "write" => local'[e] = "absent"
                         /\ capture'[e] \in {"idle", "write"}
  BY <1>2, <1>3 DEF Ancestors, NothingAdded
<1>9. \A e \in Response :
        capture'[e] \in {"photo", "save", "clear"} => local'[e] # "absent"
  BY <1>2, <1>3 DEF Ancestors, NothingAdded
<1>10. \A a \in Attachment : local'[a] # "absent" => local'[OwnerOf[a]] # "absent"
  BY <1>2, <1>3, <1>5 DEF Ancestors
<1> QED BY <1>1, <1>6, <1>7, <1>8, <1>9, <1>10 DEF Ancestors

(* A record is absent, present, then gone, and never goes back. *)
LEMMA OnwardStep ==
  ASSUME TypeOK, Ancestors, [Next]_vars
  PROVE  Onward /\ Ancestors'
<1> USE OutboxConstants
        DEF TypeOK, tables, handlers, worker, signal, past, Entity, Capturable
<1>1. ASSUME NEW e \in Capturable, BeginCapture(e) PROVE Onward /\ Ancestors'
  <2>1. local' = local /\ resolving' = resolving
        /\ capture' = [capture EXCEPT ![e] = "write"]
        /\ local[RootOf[e]] # "absent"
        /\ (e \in Finding => local[e] = "absent")
    BY <1>1 DEF BeginCapture, DraftOpen
  <2> QED BY <2>1 DEF Onward, Ancestors
<1>2. ASSUME NEW e \in Capturable, CreateDraft(e) PROVE Onward /\ Ancestors'
  <2>0. RootOf[e] \in Inspection /\ local[RootOf[e]] = "absent"
    BY <1>2 DEF CreateDraft, Ancestors
  <2>1. /\ RootOf[e] \in Inspection /\ local[RootOf[e]] = "absent"
        /\ local' = [local EXCEPT ![RootOf[e]] = "present"]
        /\ resolving' = resolving \ {RootOf[e]}
        /\ capture' = [capture EXCEPT ![e] = "write"]
    BY <1>2, <2>0 DEF CreateDraft, Add
  <2>2. local[e] = "absent"
    BY <2>1 DEF Ancestors
  <2> QED BY <2>1, <2>2 DEF Onward, Ancestors
<1>3. ASSUME NEW e \in Capturable, WriteResponse(e) PROVE Onward /\ Ancestors'
  <2>1. /\ e \in Response /\ capture[e] = "write" /\ resolving' = resolving
        /\ \E next \in {"idle", "photo"} : capture' = [capture EXCEPT ![e] = next]
    BY <1>3 DEF WriteResponse
  <2>2. Add({e} \ {x \in Entity : local[x] = "gone"})
    BY <1>3 DEF WriteResponse
  <2>3. \A x \in Entity : local'[x] = IF x = e /\ local[x] # "gone" THEN "present"
                                                                 ELSE local[x]
    BY <2>2 DEF Add
  <2>4. local[RootOf[e]] # "absent" BY <2>1 DEF Ancestors
  <2>5. local'[e] # "absent" BY <2>3
  <2>6. Onward BY <2>3 DEF Onward
  <2>7. Ancestors'
    BY <2>1, <2>3, <2>4, <2>5 DEF Ancestors
  <2> QED BY <2>6, <2>7
<1>4. ASSUME NEW e \in Capturable, SavePhoto(e) PROVE Onward /\ Ancestors'
  <2>1. capture[e] = "save" /\ resolving' = resolving /\ e \in Response
        /\ capture' = [capture EXCEPT ![e] = "idle"]
    BY <1>4 DEF SavePhoto, PhotoDone
  <2>2. CASE local' = local
    BY <2>1, <2>2, NothingAddedStep DEF NothingAdded
  <2>3. CASE local' # local
    <3>1. PICK a \in PhotosOf({e}) : local[a] = "absent" /\ Add({a})
      BY <1>4, <2>3 DEF SavePhoto
    <3>2. a \in Attachment /\ OwnerOf[a] = e
          /\ local' = [local EXCEPT ![a] = "present"]
      BY <3>1 DEF PhotosOf, Add
    <3>3. local[e] # "absent" BY <2>1 DEF Ancestors
    <3> QED BY <2>1, <3>1, <3>2, <3>3 DEF Onward, Ancestors
  <2> QED BY <2>2, <2>3
<1>5. ASSUME NEW e \in Capturable, ClearPhoto(e) PROVE Onward /\ Ancestors'
  BY <1>5, NothingAddedStep DEF ClearPhoto, PhotoDone, Delete, Present, NothingAdded
<1>17. ASSUME NEW e \in Capturable, LookUpPhoto(e) PROVE Onward /\ Ancestors'
  <2>1. /\ e \in Response /\ capture[e] = "photo"
        /\ local' = local /\ resolving' = resolving
        /\ \E next \in {"save", "clear"} : capture' = [capture EXCEPT ![e] = next]
    BY <1>17 DEF LookUpPhoto
  <2>2. local[e] # "absent" /\ local[RootOf[e]] # "absent" /\ e \notin Finding
    BY <2>1 DEF Ancestors
  <2> QED BY <2>1, <2>2 DEF Onward, Ancestors
<1>6. ASSUME NEW e \in Capturable, SaveFinding(e) PROVE Onward /\ Ancestors'
  <2>1. PICK photos \in SUBSET PhotosOf({e}) : Add({e} \cup photos)
    BY <1>6 DEF SaveFinding
  <2>2. /\ e \in Finding /\ capture[e] = "write" /\ resolving' = resolving
        /\ capture' = [capture EXCEPT ![e] = "idle"]
    BY <1>6 DEF SaveFinding
  <2>3. \A a \in photos : a \in Attachment /\ OwnerOf[a] = e
    BY <2>1 DEF PhotosOf
  <2>4. local[e] = "absent" /\ \A a \in photos : local[a] = "absent"
    BY <2>2, <2>3 DEF Ancestors
  <2>5. local[RootOf[e]] # "absent" BY <2>2 DEF Ancestors
  <2>6. \A x \in Entity : \/ local'[x] = local[x]
                          \/ /\ x = e \/ x \in photos
                             /\ local[x] = "absent" /\ local'[x] = "present"
    BY <2>1, <2>4 DEF Add
  <2>7. local'[e] = "present" BY <2>1 DEF Add
  <2> QED BY <2>2, <2>3, <2>4, <2>5, <2>6, <2>7 DEF Onward, Ancestors
<1>7. ASSUME NEW i \in Inspection, FindNoDraft(i) PROVE Onward /\ Ancestors'
  BY <1>7 DEF FindNoDraft, Onward, Ancestors
<1>8. ASSUME NEW i \in Inspection, Discard(i) PROVE Onward /\ Ancestors'
  BY <1>8, NothingAddedStep DEF Discard, Delete, Present, NothingAdded
<1>9. ASSUME NEW l \in LogEntry, SaveLogEntry(l) PROVE Onward /\ Ancestors'
  <2>1. local[l] = "absent" /\ local' = [local EXCEPT ![l] = "present"]
        /\ UNCHANGED <<resolving, capture>>
    BY <1>9 DEF SaveLogEntry, Add
  <2> QED BY <2>1 DEF Onward, Ancestors
<1>10. ASSUME NEW e \in Inspection \cup LogEntry, DiscardUnit(e)
       PROVE Onward /\ Ancestors'
  BY <1>10, NothingAddedStep DEF DiscardUnit, Delete, Present, NothingAdded
<1>11. ASSUME BeginSubmit \/ Submit \/ SubmitFails \/ BeginDiscard
       PROVE Onward /\ Ancestors'
  BY <1>11, NothingAddedStep
     DEF BeginSubmit, Submit, SubmitFails, BeginDiscard, NothingAdded
<1>12. ASSUME ResetLocalData PROVE Onward /\ Ancestors'
  BY <1>12, NothingAddedStep DEF ResetLocalData, Delete, Present, NothingAdded
<1>13. ASSUME \/ SyncNow \/ GoOffline \/ GoOnline \/ Reopen \/ TimerFires
              \/ ReadQueue \/ NothingToSend \/ MarkSending \/ BuildRequest
       PROVE Onward /\ Ancestors'
  BY <1>13, NothingAddedStep
     DEF SyncNow, GoOffline, GoOnline, Reopen, TimerFires, ReadQueue, NothingToSend,
         MarkSending, BuildRequest, NothingAdded
<1>14. ASSUME BuildFails \/ FetchFails \/ \E listed \in SUBSET batch : Settle(listed)
       PROVE Onward /\ Ancestors'
  BY <1>14, NothingAddedStep
     DEF BuildFails, FetchFails, FailBatch, Settle, NothingAdded
<1>15. ASSUME Crash PROVE Onward /\ Ancestors'
  BY <1>15, NothingAddedStep DEF Crash, NothingAdded
<1>16. ASSUME UNCHANGED vars PROVE Onward /\ Ancestors'
  BY <1>16, NothingAddedStep DEF vars, NothingAdded
<1> QED
  BY OutboxCases, <1>1, <1>2, <1>3, <1>4, <1>5, <1>6, <1>7, <1>8, <1>9, <1>10,
     <1>11, <1>12, <1>13, <1>14, <1>15, <1>16, <1>17
-----------------------------------------------------------------------------
(* The queue of a submitted inspection.  Findings and their photos are queued
   when they are captured; answers and theirs by the submit; nothing of an
   inspection goes before the inspection itself. *)
FindingsQueued ==
  /\ \A f \in Finding : local[f] = "present" => row[f] # "none"
  /\ \A a \in Attachment :
       OwnerOf[a] \in Finding /\ local[a] = "present" => row[a] # "none"

RootGoesFirst ==
  \A e \in Capturable : local[e] = "gone" => local[RootOf[e]] # "present"

QueueInv ==
  /\ TypeOK /\ Ancestors /\ FindingsQueued /\ RootGoesFirst
  /\ \A i \in submitted : local[i] # "absent"
  /\ SubmittedTreeQueued

(* A step that adds no record and takes rows only of records it deletes. *)
Gentle ==
  /\ \A e \in Entity : \/ local'[e] = local[e]
                       \/ local[e] = "present" /\ local'[e] = "gone"
  /\ \A e \in Entity : row'[e] = "none" => row[e] = "none" \/ local'[e] # "present"
  /\ \A e \in Capturable :
       local'[e] = "gone" => local[e] = "gone" \/ local'[RootOf[e]] # "present"
  /\ submitted' = submitted
  /\ late \subseteq late'

(* What an inspection consists of. *)
LEMMA TreeParts ==
  ASSUME NEW i \in Inspection, NEW e \in Tree(i)
  PROVE  /\ e \in Entity
         /\ \/ e = i
            \/ e \in Capturable /\ RootOf[e] = i
            \/ e \in Attachment /\ OwnerOf[e] \in Capturable /\ RootOf[OwnerOf[e]] = i
BY DEF Tree, PartsOf, PhotosOf, Entity, Capturable

(* A step that adds nothing to submitted inspections keeps them queued. *)
LEMMA GentleStep ==
  ASSUME QueueInv, TypeOK', Ancestors', Gentle
  PROVE  QueueInv'
<1>1. /\ Finding \subseteq Entity /\ Attachment \subseteq Entity
      /\ Capturable \subseteq Entity /\ Inspection \subseteq Entity
      /\ submitted \subseteq Inspection
      /\ \A e \in Capturable : RootOf[e] \in Inspection
  BY OutboxConstants DEF Entity, Capturable, QueueInv, TypeOK
<1>2. FindingsQueued'
  BY <1>1 DEF QueueInv, FindingsQueued, Gentle
<1>3. RootGoesFirst'
  BY <1>1 DEF QueueInv, RootGoesFirst, Gentle
<1>4. \A i \in submitted' : local'[i] # "absent"
  BY <1>1 DEF QueueInv, Gentle
<1>5. SubmittedTreeQueued'
  <2> SUFFICES ASSUME NEW i \in submitted, local'[i] = "present",
                      NEW e \in Tree(i), local'[e] = "present"
               PROVE  row'[e] # "none" \/ e \in late'
    BY DEF SubmittedTreeQueued, Present, Gentle, Tree, PartsOf, PhotosOf
  <2>1. e \in Entity BY <1>1, TreeParts
  <2>2. local[i] = "present" /\ local[e] = "present"
    BY <1>1, <2>1 DEF Gentle
  <2>3. row[e] # "none" \/ e \in late
    BY <2>2 DEF QueueInv, SubmittedTreeQueued, Present
  <2> QED BY <2>1, <2>3 DEF Gentle
<1> QED BY <1>2, <1>3, <1>4, <1>5 DEF QueueInv

(* Deleting at least a whole tree, and the rows of no more than is deleted. *)
LEMMA DeleteIsGentle ==
  ASSUME TypeOK, NEW S, Delete(S),
         \A e \in Capturable \cap S : RootOf[e] \in S,
         \A e \in Entity : row'[e] = "none" => row[e] = "none" \/ e \in S,
         submitted' = submitted, late \subseteq late'
  PROVE  Gentle
<1>1. Capturable \subseteq Entity /\ Inspection \subseteq Entity
      /\ \A e \in Capturable : RootOf[e] \in Inspection
  BY OutboxConstants DEF Entity, Capturable
<1>2. \A e \in Entity : local'[e] = IF e \in S /\ local[e] = "present" THEN "gone"
                                                                     ELSE local[e]
  BY DEF Delete, Present
<1>3. \A e \in Entity : e \in S => local'[e] # "present"
  BY <1>2
<1> QED BY <1>1, <1>2, <1>3 DEF Gentle

(* All of a submitted inspection is queued, short of what was written late. *)
LEMMA QueueStep == QueueInv /\ [Next]_vars => QueueInv'
<1> SUFFICES ASSUME QueueInv, [Next]_vars PROVE QueueInv'
  OBVIOUS
<1>0. TypeOK /\ TypeOK' /\ Ancestors /\ Ancestors' /\ Onward
  BY OutboxTypeStep, OnwardStep DEF QueueInv
<1>a. /\ Finding \subseteq Capturable /\ Response \subseteq Capturable
      /\ Capturable \subseteq Entity /\ Inspection \subseteq Entity
      /\ Attachment \subseteq Entity /\ LogEntry \subseteq Entity
      /\ submitted \subseteq Inspection
      /\ \A e \in Capturable : RootOf[e] \in Inspection
      /\ \A a \in Attachment : OwnerOf[a] \in Capturable
  BY <1>0, OutboxConstants DEF Entity, Capturable, TypeOK
<1> USE DEF tables, handlers, worker, signal, past
<1>1. ASSUME NEW e \in Capturable, BeginCapture(e) PROVE QueueInv'
  BY <1>0, <1>1, GentleStep DEF BeginCapture, Gentle
<1>5. ASSUME NEW e \in Capturable, ClearPhoto(e) PROVE QueueInv'
  <2>1. Delete(found[e]) /\ Unqueue(found[e]) /\ UNCHANGED <<submitted, late>>
    BY <1>5 DEF ClearPhoto
  <2>2. found[e] \cap Capturable = {}
    BY <1>0, <1>5, OutboxConstants DEF ClearPhoto, TypeOK
  <2>3. Gentle
    BY <1>0, <2>1, <2>2, DeleteIsGentle DEF Unqueue
  <2> QED BY <1>0, <2>3, GentleStep
<1>17. ASSUME NEW e \in Capturable, LookUpPhoto(e) PROVE QueueInv'
  BY <1>0, <1>17, GentleStep DEF LookUpPhoto, Gentle
<1>7. ASSUME NEW i \in Inspection, FindNoDraft(i) PROVE QueueInv'
  BY <1>0, <1>7, GentleStep DEF FindNoDraft, Gentle
<1>8. ASSUME NEW i \in Inspection, Discard(i) PROVE QueueInv'
  <2> DEFINE S == {i} \cup PartsOf(i) \cup PhotosOf(condemned)
  <2>1. \A e \in Capturable \cap S : RootOf[e] \in S
    BY OutboxConstants DEF PartsOf, PhotosOf
  <2>2. Gentle
    BY <1>0, <1>8, <2>1, DeleteIsGentle DEF Discard
  <2> QED BY <1>0, <2>2, GentleStep
<1>10. ASSUME NEW e \in Inspection \cup LogEntry, DiscardUnit(e) PROVE QueueInv'
  <2>1. \A x \in Capturable \cap Tree(e) : RootOf[x] \in Tree(e)
    BY OutboxConstants DEF Tree, PartsOf, PhotosOf, Capturable
  <2>2. \A x \in Unit(e) : x \in Tree(e)
    BY DEF Unit, Present, Tree
  <2>3. \A x \in Entity : row'[x] = "none" => row[x] = "none" \/ x \in Tree(e)
    BY <1>10, <2>2 DEF DiscardUnit, Unqueue
  <2>4. Gentle
    BY <1>0, <1>10, <2>1, <2>3, DeleteIsGentle DEF DiscardUnit
  <2> QED BY <1>0, <2>4, GentleStep
<1>11. ASSUME BeginSubmit \/ SubmitFails \/ BeginDiscard PROVE QueueInv'
  BY <1>0, <1>11, GentleStep DEF BeginSubmit, SubmitFails, BeginDiscard, Gentle
<1>12. ASSUME ResetLocalData PROVE QueueInv'
  <2>1. \A e \in Capturable \cap Entity : RootOf[e] \in Entity
    BY <1>a
  <2>2. Gentle
    BY <1>0, <1>12, <2>1, DeleteIsGentle DEF ResetLocalData
  <2> QED BY <1>0, <2>2, GentleStep
<1>13. ASSUME \/ SyncNow \/ GoOffline \/ GoOnline \/ Reopen \/ TimerFires
              \/ ReadQueue \/ NothingToSend \/ BuildRequest \/ Crash
       PROVE QueueInv'
  <2>1. UNCHANGED <<local, row, submitted, late>>
    BY <1>13 DEF SyncNow, GoOffline, GoOnline, Reopen, TimerFires, ReadQueue,
                 NothingToSend, BuildRequest, Crash
  <2> QED BY <1>0, <2>1, GentleStep DEF Gentle
<1>14. ASSUME \/ MarkSending \/ BuildFails \/ FetchFails
              \/ \E listed \in SUBSET batch : Settle(listed)
       PROVE QueueInv'
  <2>1. UNCHANGED <<local, submitted, late>>
    BY <1>14 DEF MarkSending, BuildFails, FetchFails, FailBatch, Settle
  <2>2. \A e \in Entity : row'[e] = "none" => row[e] = "none"
    BY <1>14 DEF MarkSending, BuildFails, FetchFails, FailBatch, Mark, Settle
  <2> QED BY <1>0, <2>1, <2>2, GentleStep DEF Gentle
<1>16. ASSUME UNCHANGED vars PROVE QueueInv'
  BY <1>0, <1>16, GentleStep DEF vars, Gentle
(* The steps that add a record, and the submit. *)
<1> DEFINE Added(S) ==
      \A x \in Entity : local'[x] # local[x] =>
        x \in S /\ local[x] = "absent" /\ local'[x] = "present"
<1> DEFINE NoRowLost == \A x \in Entity : row'[x] = "none" => row[x] = "none"
<1>20. ASSUME NEW S, Added(S), NoRowLost, submitted' = submitted, late \subseteq late',
              \A x \in Entity \cap S : x \notin Inspection /\ local'[x] = "present" =>
                row'[x] # "none" \/ x \in late' \/ x \in LogEntry
                  \/ (x \in Response /\ RootOf[x] \notin submitted)
                  \/ (x \in Attachment /\ OwnerOf[x] \in Response
                        /\ RootOf[OwnerOf[x]] \notin submitted),
              \A x \in Entity \cap S :
                \/ x \notin Finding /\ (x \in Attachment => OwnerOf[x] \notin Finding)
                \/ row'[x] # "none"
       PROVE QueueInv'
  <2>1. FindingsQueued'
    BY <1>20, <1>a DEF QueueInv, FindingsQueued
  <2>2. RootGoesFirst'
    BY <1>0, <1>20, <1>a DEF QueueInv, RootGoesFirst, Ancestors
  <2>3. \A i \in submitted' : local'[i] # "absent"
    BY <1>20, <1>a DEF QueueInv
  <2>4. SubmittedTreeQueued'
    <3> SUFFICES ASSUME NEW i \in submitted, local'[i] = "present",
                        NEW e \in Tree(i), local'[e] = "present"
                 PROVE  row'[e] # "none" \/ e \in late'
      BY <1>20 DEF SubmittedTreeQueued, Present, Tree, PartsOf, PhotosOf
    <3>1. /\ e \in Entity /\ i \in Inspection
          /\ \/ e = i
             \/ e \in Capturable /\ RootOf[e] = i
             \/ e \in Attachment /\ OwnerOf[e] \in Capturable /\ RootOf[OwnerOf[e]] = i
      BY <1>a, TreeParts
    <3>2. local[i] = "present"
      BY <1>20, <1>a, <3>1 DEF QueueInv
    <3>3. CASE local[e] = "present"
      <4>1. row[e] # "none" \/ e \in late
        BY <3>2, <3>3 DEF QueueInv, SubmittedTreeQueued, Present
      <4> QED BY <1>20, <3>1, <4>1
    <3>4. CASE local[e] # "present"
      <4>1. e \in S /\ e # i BY <1>20, <3>1, <3>2, <3>4
      <4>2. e \notin Inspection /\ e \notin LogEntry
        BY <3>1, <4>1, OutboxConstants DEF Capturable
      <4>3. e \in Response => RootOf[e] = i
        BY <3>1, <4>1, OutboxConstants DEF Capturable
      <4>4. e \in Attachment => RootOf[OwnerOf[e]] = i
        BY <3>1, <4>1, OutboxConstants DEF Capturable
      <4> QED BY <1>20, <3>1, <4>1, <4>2, <4>3, <4>4
    <3> QED BY <3>3, <3>4
  <2> QED BY <1>0, <2>1, <2>2, <2>3, <2>4 DEF QueueInv
<1>2. ASSUME NEW e \in Capturable, CreateDraft(e) PROVE QueueInv'
  <2>1. /\ Added({RootOf[e]}) /\ NoRowLost /\ submitted' = submitted /\ late' = late
        /\ RootOf[e] \in Inspection
    BY <1>2, <1>a, <1>0 DEF CreateDraft, Add, Ancestors
  <2>2. RootOf[e] \notin Finding /\ RootOf[e] \notin Attachment
    BY <2>1, OutboxConstants DEF Capturable
  <2> QED BY <1>20, <2>1, <2>2
<1>3. ASSUME NEW e \in Capturable, WriteResponse(e) PROVE QueueInv'
  <2>1. Add({e} \ {x \in Entity : local[x] = "gone"}) /\ e \in Response
        /\ row' = row /\ submitted' = submitted
        /\ Late(RootOf[e], {e} \ {x \in Entity : row[x] # "none"})
    BY <1>3 DEF WriteResponse
  <2>2. Added({e})
    BY <1>0, <2>1 DEF Add, TypeOK
  <2>3. e \notin Finding /\ e \notin Attachment
    BY <2>1, OutboxConstants DEF Capturable
  <2>4. late \subseteq late' /\ (row'[e] # "none" \/ e \in late' \/ RootOf[e] \notin submitted)
    BY <2>1, <1>a DEF Late
  <2> QED BY <1>20, <2>1, <2>2, <2>3, <2>4
<1>4. ASSUME NEW e \in Capturable, SavePhoto(e) PROVE QueueInv'
  <2>1. e \in Response /\ row' = row /\ submitted' = submitted
    BY <1>4 DEF SavePhoto
  <2>2. CASE local' = local /\ late' = late
    BY <1>0, <2>1, <2>2, GentleStep DEF Gentle
  <2>3. ASSUME NEW a \in PhotosOf({e}), local[a] = "absent", Add({a}),
               Late(RootOf[e], {a})
        PROVE QueueInv'
    <3>1. a \in Attachment /\ OwnerOf[a] = e /\ Added({a})
      BY <2>3 DEF PhotosOf, Add
    <3>2. a \notin Finding /\ e \notin Finding
      BY <2>1, <3>1, OutboxConstants DEF Capturable
    <3>3. late \subseteq late' /\ (a \in late' \/ RootOf[e] \notin submitted)
      BY <2>3 DEF Late
    <3> QED BY <1>20, <2>1, <3>1, <3>2, <3>3
  <2> QED BY <1>4, <2>2, <2>3 DEF SavePhoto
<1>6. ASSUME NEW e \in Capturable, SaveFinding(e) PROVE QueueInv'
  <2>1. PICK photos \in SUBSET PhotosOf({e}) :
          Add({e} \cup photos) /\ Enqueue({e} \cup photos)
    BY <1>6 DEF SaveFinding
  <2>2. e \in Finding /\ capture[e] = "write" /\ UNCHANGED <<submitted, late>>
    BY <1>6 DEF SaveFinding
  <2>3. \A a \in photos : a \in Attachment /\ OwnerOf[a] = e
    BY <2>1 DEF PhotosOf
  <2>4. local[e] = "absent" /\ \A a \in photos : local[a] = "absent"
    BY <1>0, <2>2, <2>3 DEF Ancestors, TypeOK
  <2>5. Added({e} \cup photos)
    BY <2>1, <2>4 DEF Add
  <2>6. NoRowLost /\ \A x \in Entity \cap ({e} \cup photos) : row'[x] # "none"
    BY <2>1 DEF Enqueue
  <2> HIDE DEF Added, NoRowLost
  <2> QED BY <1>20, <2>2, <2>5, <2>6
<1>9. ASSUME NEW l \in LogEntry, SaveLogEntry(l) PROVE QueueInv'
  <2>1. /\ Added({l}) /\ NoRowLost /\ UNCHANGED <<submitted, late>>
    BY <1>9 DEF SaveLogEntry, Add, Enqueue
  <2>2. l \notin Finding /\ l \notin Attachment
    BY OutboxConstants DEF Capturable
  <2> QED BY <1>20, <2>1, <2>2
<1>15. ASSUME Submit PROVE QueueInv'
  <2> DEFINE i == submitting
  <2>1. /\ i \in Inspection /\ local[i] = "present" /\ local' = local /\ late' = late
        /\ submitted' = submitted \cup {i}
        /\ \A x \in Entity : row'[x] = IF x \in QueuedWith(i) THEN "pending" ELSE row[x]
    BY <1>15, <1>0 DEF Submit, Enqueue, TypeOK
  <2>2. FindingsQueued' /\ RootGoesFirst' /\ \A j \in submitted' : local'[j] # "absent"
    BY <2>1, <1>a DEF QueueInv, FindingsQueued, RootGoesFirst
  <2>3. ASSUME NEW e \in Tree(i), local[e] = "present" PROVE row'[e] # "none"
    <3>1. e \in Entity BY <2>1, TreeParts
    <3>2. CASE e = i BY <2>1, <3>1, <3>2 DEF QueuedWith
    <3>3. CASE e \in Finding
      BY <2>1, <2>3, <3>1, <3>3 DEF QueueInv, FindingsQueued
    <3>4. CASE e \in Response /\ e # i
      <4>1. RootOf[e] = i
        BY <2>1, <3>4, TreeParts, OutboxConstants DEF Capturable
      <4>2. e \in QueuedWith(i)
        BY <2>3, <3>4, <4>1, <1>a DEF QueuedWith, PartsOf, Present
      <4> QED BY <2>1, <3>1, <4>2
    <3>5. CASE e \in Attachment
      <4>1. OwnerOf[e] \in Capturable /\ RootOf[OwnerOf[e]] = i
        BY <2>1, <3>5, TreeParts, OutboxConstants
      <4>2. CASE OwnerOf[e] \in Finding
        BY <2>1, <2>3, <3>1, <3>5, <4>2 DEF QueueInv, FindingsQueued
      <4>3. CASE OwnerOf[e] \in Response
        <5>1. local[OwnerOf[e]] = "present"
          BY <1>0, <1>a, <2>1, <2>3, <3>5, <4>1
             DEF QueueInv, RootGoesFirst, Ancestors, TypeOK
        <5>2. e \in QueuedWith(i)
          BY <2>3, <3>5, <4>1, <4>3, <5>1 DEF QueuedWith, PartsOf, PhotosOf, Present
        <5> QED BY <2>1, <3>1, <5>2
      <4> QED BY <4>1, <4>2, <4>3 DEF Capturable
    <3> QED
      BY <2>1, <3>2, <3>3, <3>4, <3>5, TreeParts DEF Capturable
  <2>4. SubmittedTreeQueued'
    <3> SUFFICES ASSUME NEW j \in submitted', local'[j] = "present",
                        NEW e \in Tree(j), local'[e] = "present"
                 PROVE  row'[e] # "none" \/ e \in late'
      BY DEF SubmittedTreeQueued, Present, Tree, PartsOf, PhotosOf
    <3>1. CASE j = i BY <2>1, <2>3, <3>1
    <3>2. CASE j \in submitted
      <4>1. row[e] # "none" \/ e \in late
        BY <2>1, <3>2 DEF QueueInv, SubmittedTreeQueued, Present
      <4>2. e \in Entity BY <1>a, <3>2, TreeParts
      <4> QED BY <2>1, <4>1, <4>2
    <3> QED BY <2>1, <3>1, <3>2
  <2> QED BY <1>0, <2>2, <2>4 DEF QueueInv
<1> HIDE DEF Added, NoRowLost
<1> QED
  BY OutboxCases, <1>1, <1>2, <1>3, <1>4, <1>5, <1>6, <1>7, <1>8, <1>9, <1>10,
     <1>11, <1>12, <1>13, <1>14, <1>15, <1>16, <1>17

(* Article III on the device: what a submitted inspection had is queued for as
   long as it is there, whatever handlers, discards, batches and crashes. *)
THEOREM SubmittedIsQueued == Spec => []SubmittedTreeQueued
<1>1. Init => QueueInv
  BY OutboxInit, OutboxConstants
     DEF Init, QueueInv, Ancestors, FindingsQueued, RootGoesFirst, SubmittedTreeQueued,
         Entity, Capturable
<1>2. QueueInv => SubmittedTreeQueued
  BY DEF QueueInv
<1> QED
  BY <1>1, <1>2, QueueStep, PTL DEF Spec
=============================================================================
