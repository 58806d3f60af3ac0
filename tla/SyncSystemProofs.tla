-------------------------- MODULE SyncSystemProofs --------------------------
(* Proofs about device and server together: what carries over from the device,
   what synced means, and that the two implement SyncPromise. *)
EXTENDS SyncSystem, ClientOutboxProofs

-----------------------------------------------------------------------------
(* Every step of the system is a step of the device or none of it: whatever is
   proved of the device against an arbitrary server holds with this one. *)
CallInv ==
  /\ SystemTypeOK
  /\ call = "served" => reply \subseteq batch

(* A step of the system is a step of the device alone, or stutters for it. *)
LEMMA DeviceStep ==
  ASSUME CallInv, [SystemNext]_systemVars
  PROVE  [Next]_vars
<1> USE DEF vars, device
<1>1. CASE (User \/ Signal \/ Prepare) /\ Alone
  BY <1>1 DEF Next
<1>2. CASE Send
  BY <1>2 DEF Send, Next
<1>3. CASE HearAnswer
  BY <1>3 DEF HearAnswer, CallInv, Next, Answer
<1>4. CASE GiveUp
  BY <1>4 DEF GiveUp, Next, Answer
<1>5. CASE PageDies
  BY <1>5 DEF PageDies, Next
<1>6. CASE Serve \/ ServeInPart \/ \E body \in astray : ArriveLate(body)
  BY <1>6 DEF Serve, ServeInPart, ArriveLate
<1>7. CASE UNCHANGED systemVars
  BY <1>7 DEF systemVars
<1> QED
  BY <1>1, <1>2, <1>3, <1>4, <1>5, <1>6, <1>7 DEF SystemNext

(* Handlers and signal do not disturb a worker that waits for its answer. *)
LEMMA AloneKeepsCall ==
  ASSUME TypeOK, User \/ Signal \/ Prepare, pc = "fetch" => open
  PROVE  /\ pc' = "fetch" <=> pc = "fetch"
         /\ pc = "fetch" => batch' = batch
<1> USE DEF tables, handlers, worker, signal, past
<1>1. CASE User
  BY <1>1 DEF User, BeginCapture, CreateDraft, WriteResponse, LookUpPhoto, SavePhoto,
     ClearPhoto, SaveFinding, FindNoDraft, Discard, SaveLogEntry, DiscardUnit, BeginSubmit,
     Submit, Trigger, SubmitFails, BeginDiscard, ResetLocalData, SyncNow
<1>2. CASE Signal
  BY <1>2 DEF Signal, GoOffline, GoOnline, Reopen
<1>3. CASE Prepare
  BY <1>3 DEF Prepare, TimerFires, ReadQueue, NothingToSend, MarkSending, BuildFails,
     FailBatch
<1> QED BY <1>1, <1>2, <1>3

(* A request is out only while the worker waits for it. *)
LEMMA CallStep ==
  ASSUME CallInv, WorkerInv, [SystemNext]_systemVars
  PROVE  CallInv' /\ WorkerInv'
<1>0. [Next]_vars /\ TypeOK /\ TypeOK' /\ WorkerInv' /\ (pc = "fetch" => open)
  BY DeviceStep, WorkerStep, OutboxTypeStep DEF WorkerInv, ClosedIsIdle
<1> USE DEF CallInv, SystemTypeOK, vars, device, server, answers, worker
<1>1. CASE (User \/ Signal \/ Prepare) /\ Alone
  BY <1>0, <1>1, AloneKeepsCall DEF Alone
<1>2. CASE Send
  BY <1>0, <1>2 DEF Send, BuildRequest
<1>3. CASE Serve
  <2>1. PICK accepted \in Outcomes(batch) :
          /\ stored' = stored \cup accepted
          /\ reply' \in Answers(batch \ accepted, batch)
          /\ missed' \subseteq batch
    BY <1>3 DEF Serve
  <2>2. accepted \subseteq batch /\ reply' \subseteq batch
    BY <2>1 DEF Outcomes, Answers
  <2> QED BY <1>0, <1>3, <2>1, <2>2 DEF Serve, TypeOK
<1>4. CASE ServeInPart
  <2>1. PICK accepted \in Outcomes(batch) : stored' = stored \cup accepted
    BY <1>4 DEF ServeInPart
  <2> QED BY <1>0, <1>4, <2>1 DEF ServeInPart, Outcomes, TypeOK
<1>5. CASE HearAnswer
  BY <1>0, <1>5 DEF HearAnswer, Settle
<1>6. CASE GiveUp
  BY <1>0, <1>6 DEF GiveUp, LeaveAstray, FetchFails, FailBatch, TypeOK
<1>7. CASE PageDies
  BY <1>0, <1>7 DEF PageDies, LeaveAstray, Crash, TypeOK
<1>8. ASSUME NEW body \in astray, ArriveLate(body) PROVE CallInv'
  <2>1. PICK accepted \in Outcomes(body) : stored' = stored \cup accepted
    BY <1>8 DEF ArriveLate
  <2> QED BY <1>0, <1>8, <2>1 DEF ArriveLate, Outcomes
<1>9. CASE UNCHANGED systemVars
  BY <1>0, <1>9 DEF systemVars
<1> QED
  BY <1>0, <1>1, <1>2, <1>3, <1>4, <1>5, <1>6, <1>7, <1>8, <1>9 DEF SystemNext

(* So it is in every state, and the invariants of the worker with it. *)
LEMMA CallInvariance == SystemSpec => [](CallInv /\ WorkerInv)
<1>1. SystemInit => CallInv /\ WorkerInv
  BY OutboxInit
     DEF SystemInit, Init, CallInv, SystemTypeOK, WorkerInv, ClosedIsIdle,
         BatchUnsettled, SyncingIsInFlight
<1>2. CallInv /\ WorkerInv /\ [SystemNext]_systemVars => (CallInv /\ WorkerInv)'
  BY CallStep
<1> QED
  BY <1>1, <1>2, PTL DEF SystemSpec

(* The types of device and server; a request is out only while the worker
   waits for it. *)
THEOREM SystemTypeCorrect == SystemSpec => []SystemTypeOK
<1>1. CallInv => SystemTypeOK
  BY DEF CallInv
<1> QED
  BY <1>1, CallInvariance, PTL

(* The device inside the system behaves as ClientOutbox says, so that all its
   invariants carry over. *)
THEOREM SystemImplementsOutbox == SystemSpec => Spec
<1>1. SystemInit => Init
  BY DEF SystemInit
<1>2. CallInv /\ [SystemNext]_systemVars => [Next]_vars
  BY DeviceStep
<1> QED
  BY <1>1, <1>2, CallInvariance, PTL DEF SystemSpec, Spec
-----------------------------------------------------------------------------
(* Answers.  What an answer does not list is stored, or failed with more others
   than it could list. *)
AnswerComplete == call = "served" => batch \subseteq reply \cup stored \cup missed

SyncedInv == CallInv /\ WorkerInv /\ AnswerComplete /\ SyncedUnlessCut

(* An answer with room for all failures lists them all. *)
LEMMA AllListed ==
  ASSUME NEW rejected, IsFiniteSet(rejected), Cardinality(rejected) <= MaxErrors,
         NEW listed \in Answers(rejected, batch)
  PROVE  listed = rejected
<1>1. listed \subseteq rejected /\ (listed = rejected \/ Cardinality(listed) = MaxErrors)
  BY DEF Answers
<1>2. /\ IsFiniteSet(listed)
      /\ Cardinality(listed) <= Cardinality(rejected)
      /\ Cardinality(listed) = Cardinality(rejected) => listed = rejected
  BY <1>1, FS_Subset
<1>3. /\ Cardinality(rejected) \in Nat /\ Cardinality(listed) \in Nat
      /\ MaxErrors \in Nat
  BY <1>2, FS_CardinalityType, SystemConstants
<1> QED BY <1>1, <1>2, <1>3

(* What the device does by itself marks nothing synced. *)
LEMMA AloneMarksNothing ==
  ASSUME WorkerInv, [Next]_vars, User \/ Signal \/ Prepare
  PROVE  \A e \in Entity : row'[e] = "synced" => row[e] = "synced"
<1> USE DEF TypeOK
<1>0. TypeOK /\ (pc = "fetch" => open)
  BY DEF WorkerInv, ClosedIsIdle
<1>1. CASE Waking /\ Requeuing
  BY <1>1 DEF Requeuing
<1>2. CASE ReadQueue \/ NothingToSend \/ BuildRequest \/ Crash
  BY <1>2 DEF ReadQueue, NothingToSend, BuildRequest, Crash
<1>3. CASE MarkSending \/ BuildFails
  BY <1>0, <1>3 DEF MarkSending, BuildFails, FailBatch, Mark
<1>4. ASSUME pc = "fetch", FetchFails \/ \E listed \in SUBSET batch : Settle(listed)
      PROVE  FALSE
  BY <1>0, <1>4, AloneKeepsCall DEF FetchFails, FailBatch, Settle
<1> QED
  BY <1>0, <1>1, <1>2, <1>3, <1>4, WorkerCases DEF FetchFails, Settle

(* A row is marked synced only by an answer that is heard, and one the server
   has not stored only by an answer that was cut. *)
LEMMA SyncedStep ==
  ASSUME IsFiniteSet(Entity), SyncedInv, [SystemNext]_systemVars
  PROVE  SyncedInv'
<1>0. /\ CallInv' /\ WorkerInv' /\ [Next]_vars
      /\ TypeOK /\ TypeOK' /\ SystemTypeOK /\ (pc = "fetch" => open)
      /\ WorkerInv
  BY CallStep, DeviceStep
     DEF SyncedInv, CallInv, WorkerInv, ClosedIsIdle
<1> SUFFICES AnswerComplete' /\ SyncedUnlessCut'
  BY <1>0 DEF SyncedInv
<1> USE DEF SyncedInv, AnswerComplete, SyncedUnlessCut, device, server, answers, worker,
            TypeOK, SystemTypeOK
<1>1. CASE (User \/ Signal \/ Prepare) /\ Alone
  <2>1. AnswerComplete'
    BY <1>0, <1>1, AloneKeepsCall DEF Alone
  <2>2. \A e \in Entity : row'[e] = "synced" => row[e] = "synced"
    BY <1>0, <1>1, AloneMarksNothing
  <2> QED BY <1>1, <2>1, <2>2 DEF Alone
<1>2. CASE Send
  BY <1>0, <1>2 DEF Send, BuildRequest
<1>3. CASE Serve
  <2>1. PICK accepted \in Outcomes(batch) :
          /\ stored' = stored \cup accepted
          /\ reply' \in Answers(batch \ accepted, batch)
          /\ missed' = IF Cardinality(batch \ accepted) > MaxErrors
                       THEN (batch \ accepted) \ reply' ELSE {}
    BY <1>3 DEF Serve
  <2>2. IsFiniteSet(batch \ accepted)
    BY <1>0, FS_Subset
  <2>3. Cardinality(batch \ accepted) \in Nat /\ MaxErrors \in Nat
    BY <2>2, FS_CardinalityType, SystemConstants
  <2>4. batch \ accepted \subseteq reply' \cup missed'
    BY <2>1, <2>2, <2>3, AllListed
  <2> QED BY <1>3, <2>1, <2>4 DEF Serve
<1>4. CASE ServeInPart
  BY <1>4 DEF ServeInPart
<1>5. CASE HearAnswer
  <2>1. \A e \in Entity : row'[e] = "synced" =>
          row[e] = "synced" \/ (e \in batch /\ e \notin reply)
    BY <1>0, <1>5 DEF HearAnswer, Settle
  <2> QED BY <1>5, <2>1 DEF HearAnswer
<1>6. CASE GiveUp
  BY <1>0, <1>6 DEF GiveUp, LeaveAstray, FetchFails, FailBatch, Mark
<1>7. CASE PageDies
  BY <1>0, <1>7 DEF PageDies, LeaveAstray, Crash
<1>8. ASSUME NEW body \in astray, ArriveLate(body)
      PROVE  AnswerComplete' /\ SyncedUnlessCut'
  BY <1>8 DEF ArriveLate
<1>9. CASE UNCHANGED systemVars
  BY <1>9 DEF systemVars, vars
<1> QED
  BY <1>1, <1>2, <1>3, <1>4, <1>5, <1>6, <1>7, <1>8, <1>9 DEF SystemNext

(* Nothing is synced on a new device. *)
LEMMA SyncedInit == SystemInit => SyncedInv
BY OutboxInit
   DEF SystemInit, Init, CallInv, SystemTypeOK, WorkerInv, ClosedIsIdle,
       BatchUnsettled, SyncingIsInFlight, SyncedInv, AnswerComplete, SyncedUnlessCut

(* NFR-04 as the code keeps it, for any batch size and any room for errors (500
   and 5 in the code): a row shown as synced that the server has not stored
   failed in a batch with more failures than its answer could list. *)
THEOREM OnlyCutAnswersMislead ==
  ASSUME IsFiniteSet(Entity)
  PROVE  SystemSpec => []SyncedUnlessCut
<1>1. SyncedInv /\ [SystemNext]_systemVars => SyncedInv'
  BY SyncedStep
<1>2. SyncedInv => SyncedUnlessCut
  BY DEF SyncedInv
<1> QED
  BY <1>1, <1>2, SyncedInit, PTL DEF SystemSpec
-----------------------------------------------------------------------------
(* A record is queued once: not before it is there, and what a submit queues
   not before the submit. *)
SentBySubmit(i) ==
  {i} \cup (PartsOf(i) \cap Response) \cup PhotosOf(PartsOf(i) \cap Response)

QueuedOnce ==
  /\ \A e \in Entity : local[e] = "absent" => row[e] = "none"
  /\ \A i \in Inspection \ submitted : \A e \in SentBySubmit(i) : row[e] = "none"

(* A synced row stays, or goes with its record. *)
SyncedStays ==
  \A e \in Entity : row[e] = "synced" =>
    row'[e] = "synced" \/ (row'[e] = "none" /\ local'[e] # "present")

(* A step that queues nothing keeps QueuedOnce. *)
LEMMA NothingQueued ==
  ASSUME QueuedOnce, Onward, submitted \subseteq submitted',
         \A e \in Entity : row[e] = "none" => row'[e] = "none"
  PROVE  QueuedOnce'
<1>1. \A i \in Inspection : SentBySubmit(i) \subseteq Entity
  BY DEF SentBySubmit, PartsOf, PhotosOf, Entity, Capturable
<1>2. \A e \in Entity : local'[e] = "absent" => local[e] = "absent"
  BY DEF Onward
<1> QED BY <1>1, <1>2 DEF QueuedOnce, SentBySubmit

(* Only a capture and a submit queue records, those not queued before; a synced
   row is taken out only with its record. *)
LEMMA QueuedOnceStep ==
  ASSUME WorkerInv, Ancestors, QueuedOnce, [Next]_vars
  PROVE  QueuedOnce' /\ SyncedStays
<1>0. TypeOK /\ BatchUnsettled /\ Onward
  BY OnwardStep DEF WorkerInv
<1>a. /\ Finding \subseteq Entity /\ Attachment \subseteq Entity
      /\ LogEntry \subseteq Entity /\ Inspection \subseteq Entity
      /\ submitted \subseteq Inspection
  BY <1>0 DEF Entity, Capturable, TypeOK
<1>b. ASSUME submitted \subseteq submitted',
             \A e \in Entity : row[e] = "none" => row'[e] = "none"
      PROVE  QueuedOnce'
  BY <1>0, <1>b, NothingQueued
<1> USE DEF TypeOK, tables, handlers, worker, signal, past
<1>1. ASSUME NEW e \in Capturable,
             \/ BeginCapture(e) \/ CreateDraft(e) \/ WriteResponse(e)
             \/ LookUpPhoto(e) \/ SavePhoto(e)
      PROVE  row' = row /\ submitted' = submitted
  BY <1>1 DEF BeginCapture, CreateDraft, WriteResponse, LookUpPhoto, SavePhoto
<1>2. ASSUME NEW i \in Inspection, FindNoDraft(i) \/ Discard(i)
      PROVE  row' = row /\ submitted' = submitted
  BY <1>2 DEF FindNoDraft, Discard
<1>3. ASSUME \/ BeginSubmit \/ SubmitFails \/ BeginDiscard \/ SyncNow \/ GoOffline
             \/ GoOnline \/ Reopen \/ TimerFires \/ ReadQueue \/ NothingToSend
             \/ BuildRequest \/ Crash \/ UNCHANGED vars
      PROVE  row' = row /\ submitted' = submitted
  BY <1>3 DEF BeginSubmit, SubmitFails, BeginDiscard, SyncNow, GoOffline, GoOnline,
              Reopen, TimerFires, ReadQueue, NothingToSend, BuildRequest, Crash, vars
<1>4. ASSUME row' = row, submitted' = submitted PROVE QueuedOnce' /\ SyncedStays
  BY <1>b, <1>4 DEF SyncedStays
<1>5. ASSUME \/ MarkSending \/ BuildFails \/ FetchFails
             \/ \E listed \in SUBSET batch : Settle(listed)
      PROVE  QueuedOnce' /\ SyncedStays
  <2>1. /\ submitted' = submitted
        /\ \A e \in Entity : row[e] = "none" => row'[e] = "none"
        /\ \A e \in Entity : e \notin batch => row'[e] = row[e]
    BY <1>5 DEF MarkSending, BuildFails, FetchFails, FailBatch, Mark, Settle
  <2> QED BY <1>0, <1>b, <2>1 DEF SyncedStays, BatchUnsettled
<1>6. ASSUME NEW S, Delete(S), submitted' = submitted,
             \A e \in Entity : row'[e] = row[e] \/ (e \in S /\ row'[e] = "none")
      PROVE  QueuedOnce' /\ SyncedStays
  <2>1. \A e \in Entity : e \in S => local'[e] # "present"
    BY <1>6 DEF Delete, Present
  <2> QED BY <1>b, <1>6, <2>1 DEF SyncedStays
<1>7. ASSUME NEW e \in Capturable, ClearPhoto(e) PROVE QueuedOnce' /\ SyncedStays
  BY <1>6, <1>7 DEF ClearPhoto, Unqueue
<1>8. ASSUME NEW e \in Inspection \cup LogEntry, DiscardUnit(e)
      PROVE  QueuedOnce' /\ SyncedStays
  <2>1. Unit(e) \subseteq Tree(e)
    BY DEF Unit, Present, Tree
  <2> QED BY <1>6, <1>8, <2>1 DEF DiscardUnit, Unqueue
<1>9. ASSUME ResetLocalData PROVE QueuedOnce' /\ SyncedStays
  BY <1>6, <1>9 DEF ResetLocalData, Unqueue
<1>10. ASSUME NEW S, Add(S), Enqueue(S), submitted' = submitted,
              \A e \in S : e \in Entity /\ local[e] = "absent",
              \A i \in Inspection : S \cap SentBySubmit(i) = {}
       PROVE  QueuedOnce' /\ SyncedStays
  <2>1. \A e \in Entity : IF e \in S THEN local'[e] = "present" /\ row'[e] = "pending"
                                     ELSE local'[e] = local[e] /\ row'[e] = row[e]
    BY <1>10 DEF Add, Enqueue
  <2>2. \A i \in Inspection : SentBySubmit(i) \subseteq Entity
    BY DEF SentBySubmit, PartsOf, PhotosOf, Entity, Capturable
  <2>3. QueuedOnce'
    BY <1>10, <2>1, <2>2 DEF QueuedOnce, SentBySubmit
  <2> QED BY <1>10, <2>1, <2>3 DEF QueuedOnce, SyncedStays
<1>11. ASSUME NEW e \in Capturable, SaveFinding(e) PROVE QueuedOnce' /\ SyncedStays
  <2>1. PICK photos \in SUBSET PhotosOf({e}) :
          Add({e} \cup photos) /\ Enqueue({e} \cup photos)
    BY <1>11 DEF SaveFinding
  <2>2. e \in Finding /\ local[e] = "absent" /\ submitted' = submitted
    BY <1>11 DEF SaveFinding, Ancestors
  <2>3. \A a \in photos : /\ a \in Attachment /\ OwnerOf[a] = e
                          /\ local[a] = "absent"
    BY <2>1, <2>2 DEF PhotosOf, Ancestors
  <2>4. \A i \in Inspection : ({e} \cup photos) \cap SentBySubmit(i) = {}
    BY <2>2, <2>3, OutboxConstants DEF SentBySubmit, PartsOf, PhotosOf, Capturable
  <2> QED BY <1>a, <1>10, <2>1, <2>2, <2>3, <2>4
<1>12. ASSUME NEW l \in LogEntry, SaveLogEntry(l) PROVE QueuedOnce' /\ SyncedStays
  <2>1. \A i \in Inspection : {l} \cap SentBySubmit(i) = {}
    BY OutboxConstants DEF SentBySubmit, PartsOf, PhotosOf, Capturable
  <2> QED BY <1>a, <1>10, <1>12, <2>1 DEF SaveLogEntry
<1>13. ASSUME Submit PROVE QueuedOnce' /\ SyncedStays
  <2>1. /\ submitting \in Inspection \ submitted /\ local' = local
        /\ submitted' = submitted \cup {submitting}
        /\ local[submitting] = "present"
        /\ Enqueue(QueuedWith(submitting))
    BY <1>0, <1>13 DEF Submit
  <2>2. \A e \in QueuedWith(submitting) :
          e \in SentBySubmit(submitting) /\ local[e] = "present"
    BY <2>1 DEF QueuedWith, SentBySubmit, PartsOf, PhotosOf, Present
  <2>3. \A e \in Entity : IF e \in QueuedWith(submitting) THEN row'[e] = "pending"
                                                         ELSE row'[e] = row[e]
    BY <2>1 DEF Enqueue
  <2>4. \A i \in Inspection \ submitted' : \A e \in SentBySubmit(i) :
          e \in Entity /\ e \notin QueuedWith(submitting)
    BY <2>1, <2>2, OutboxConstants
       DEF SentBySubmit, PartsOf, PhotosOf, Entity, Capturable
  <2>5. QueuedOnce'
    BY <2>1, <2>2, <2>3, <2>4 DEF QueuedOnce, SentBySubmit, PartsOf, PhotosOf
  <2> QED BY <2>1, <2>2, <2>3, <2>5 DEF QueuedOnce, SyncedStays
<1> QED
  BY OutboxCases, <1>1, <1>2, <1>3, <1>4, <1>5, <1>7, <1>8, <1>9, <1>11, <1>12, <1>13

(* A record on its way is one the device holds or held. *)
SentWasHeld ==
  /\ pc = "fetch" => \A e \in batch : local[e] # "absent"
  /\ \A body \in astray : \A e \in body : local[e] # "absent"

PromiseInv == SyncedInv /\ Ancestors /\ QueuedOnce /\ SentWasHeld

(* What is sent was held, records and rows only go on, and so it remains. *)
LEMMA PromiseStep ==
  ASSUME IsFiniteSet(Entity), PromiseInv, [SystemNext]_systemVars
  PROVE  PromiseInv' /\ Onward /\ SyncedStays
<1>0. /\ SyncedInv' /\ [Next]_vars /\ TypeOK /\ SystemTypeOK
      /\ (pc = "fetch" => open)
  BY SyncedStep, DeviceStep
     DEF PromiseInv, SyncedInv, CallInv, SystemTypeOK, WorkerInv, ClosedIsIdle
<1>1. Onward /\ Ancestors' /\ QueuedOnce' /\ SyncedStays
  BY <1>0, OnwardStep, QueuedOnceStep DEF PromiseInv, SyncedInv
<1>2. \A e \in Entity : local[e] # "absent" => local'[e] # "absent"
  BY <1>1 DEF Onward
<1>3. batch \subseteq Entity /\ \A body \in astray : body \subseteq Entity
  BY <1>0 DEF TypeOK, SystemTypeOK
<1>4. SentWasHeld'
  <2> USE DEF PromiseInv, SentWasHeld, device, server, answers, tables, worker, vars
  <2>1. CASE (User \/ Signal \/ Prepare) /\ Alone
    BY <1>0, <1>2, <1>3, <2>1, AloneKeepsCall DEF Alone
  <2>2. CASE Send
    <3>1. /\ batch' = batch /\ astray' = astray
          /\ \A e \in batch : local[e] = "present"
      BY <2>2 DEF Send, BuildRequest, Present
    <3> QED BY <1>2, <1>3, <3>1
  <2>3. CASE Serve \/ ServeInPart
    BY <2>3 DEF Serve, ServeInPart
  <2>4. CASE HearAnswer
    BY <1>2, <1>3, <2>4 DEF HearAnswer, Settle
  <2>5. CASE GiveUp \/ PageDies
    <3>1. pc' # "fetch"
      BY <2>5 DEF GiveUp, PageDies, FetchFails, FailBatch, Crash
    <3>2. astray' \subseteq astray \cup {batch} /\ (astray' = astray \/ pc = "fetch")
      BY <1>0, <2>5 DEF GiveUp, PageDies, LeaveAstray, SystemTypeOK
    <3> QED BY <1>2, <1>3, <3>1, <3>2
  <2>6. ASSUME NEW body \in astray, ArriveLate(body) PROVE SentWasHeld'
    BY <2>6 DEF ArriveLate
  <2>7. CASE UNCHANGED systemVars
    BY <2>7 DEF systemVars
  <2> QED
    BY <2>1, <2>2, <2>3, <2>4, <2>5, <2>6, <2>7 DEF SystemNext
<1> QED BY <1>0, <1>1, <1>4 DEF PromiseInv

(* What the server comes to store was sent, and is stored while the device
   stands still. *)
LEMMA StoredStep ==
  ASSUME PromiseInv, [SystemNext]_systemVars
  PROVE  \/ stored' = stored
         \/ /\ stored \subseteq stored'
            /\ row' = row /\ local' = local
            /\ \A e \in stored' \ stored : local[e] # "absent"
<1> USE DEF device, server, answers, vars, tables
<1>1. CASE \/ (User \/ Signal \/ Prepare) /\ Alone
           \/ Send \/ HearAnswer \/ GiveUp \/ PageDies \/ UNCHANGED systemVars
  BY <1>1 DEF Alone, Send, HearAnswer, GiveUp, PageDies, LeaveAstray, systemVars
<1>2. CASE Serve \/ ServeInPart
  <2>1. PICK accepted \in Outcomes(batch) : stored' = stored \cup accepted
    BY <1>2 DEF Serve, ServeInPart
  <2>2. accepted \subseteq batch /\ pc = "fetch"
    BY <1>2, <2>1 DEF Outcomes, Serve, ServeInPart, PromiseInv, SyncedInv, CallInv,
                      SystemTypeOK
  <2> QED BY <1>2, <2>1, <2>2 DEF Serve, ServeInPart, PromiseInv, SentWasHeld
<1>3. ASSUME NEW body \in astray, ArriveLate(body)
      PROVE  /\ stored \subseteq stored' /\ row' = row /\ local' = local
             /\ \A e \in stored' \ stored : local[e] # "absent"
  <2>1. PICK accepted \in Outcomes(body) : stored' = stored \cup accepted
    BY <1>3 DEF ArriveLate
  <2> QED BY <1>3, <2>1 DEF Outcomes, ArriveLate, PromiseInv, SentWasHeld
<1> QED BY <1>1, <1>2, <1>3 DEF SystemNext

(* A row comes to be shown as synced while nothing else moves, and its record
   was sent. *)
LEMMA MarkedStep ==
  ASSUME PromiseInv, [SystemNext]_systemVars,
         NEW e \in Entity, row[e] # "synced", row'[e] = "synced"
  PROVE  stored' = stored /\ local' = local /\ local[e] # "absent"
<1>0. WorkerInv /\ TypeOK /\ SystemTypeOK /\ [Next]_vars
  BY DeviceStep DEF PromiseInv, SyncedInv, CallInv, WorkerInv
<1> USE DEF device, server, answers, vars, tables
<1>1. ~((User \/ Signal \/ Prepare) /\ Alone)
  BY <1>0, AloneMarksNothing
<1>2. ~(Send \/ Serve \/ ServeInPart \/ UNCHANGED systemVars)
  BY DEF Send, BuildRequest, Serve, ServeInPart, systemVars
<1>3. ~(GiveUp \/ PageDies)
  BY <1>0 DEF GiveUp, PageDies, FetchFails, FailBatch, Mark, Crash, TypeOK
<1>4. ~ \E body \in astray : ArriveLate(body)
  BY DEF ArriveLate
<1>5. HearAnswer
  BY <1>1, <1>2, <1>3, <1>4 DEF SystemNext
<1>6. e \in batch /\ pc = "fetch"
  BY <1>0, <1>5 DEF HearAnswer, Settle
<1> QED BY <1>5, <1>6 DEF HearAnswer, Settle, PromiseInv, SentWasHeld

(* An answer that was cut stays noted. *)
LEMMA CutGrows ==
  ASSUME CallInv, CallInv', [SystemNext]_systemVars
  PROVE  cut \subseteq cut' /\ cut' \in SUBSET Entity
<1>1. cut' \in SUBSET Entity
  BY DEF CallInv, SystemTypeOK
<1>2. cut' = cut \/ cut' = cut \cup missed
  BY DEF SystemNext, Alone, Send, Serve, ServeInPart, HearAnswer, GiveUp, PageDies,
         LeaveAstray, ArriveLate, systemVars, answers
<1> QED BY <1>1, <1>2

(* Every step moves each record along the stages of SyncPromise, or not at all. *)
LEMMA StageStep ==
  ASSUME PromiseInv, PromiseInv', Onward, SyncedStays, [SystemNext]_systemVars
  PROVE  [Promise!Next]_<<Stage, cut>>
<1>1. /\ local \in [Entity -> {"absent", "present", "gone"}]
      /\ local' \in [Entity -> {"absent", "present", "gone"}]
      /\ SyncedUnlessCut'
  BY DEF PromiseInv, SyncedInv, WorkerInv, TypeOK
<1>2. Stage' \in [Entity -> Promise!Stages]
  BY <1>1 DEF Stage, Promise!Stages
<1>3. cut \subseteq cut' /\ cut' \in SUBSET Entity
  BY CutGrows DEF PromiseInv, SyncedInv
<1>4. ASSUME NEW e \in Entity
      PROVE  \/ Stage'[e] = Stage[e]
             \/ <<Stage[e], Stage'[e]>> \in Promise!Moves
             \/ e \in cut' /\ <<Stage[e], Stage'[e]>> \in Promise!CutMoves
  <2>1. e \in stored => e \in stored'
    BY StoredStep
  <2>2. CASE e \in stored
    <3>1. Stage[e] \in {"synced", "stored"} /\ Stage'[e] \in {"synced", "stored"}
      BY <2>1, <2>2 DEF Stage
    <3> QED BY <3>1 DEF Promise!Moves
  <2>3. CASE e \notin stored /\ e \in stored'
    <3>1. row'[e] = row[e] /\ local[e] # "absent"
      BY <2>3, StoredStep
    <3>2. CASE row[e] = "synced"
      <4>1. Stage[e] = "claimed" /\ Stage'[e] = "synced"
        BY <2>3, <3>1, <3>2 DEF Stage
      <4>2. e \in cut
        BY <2>3, <3>2 DEF PromiseInv, SyncedInv, SyncedUnlessCut
      <4> QED BY <1>3, <4>1, <4>2 DEF Promise!CutMoves
    <3>3. CASE row[e] # "synced"
      <4>1. Stage[e] \in {"held", "dropped"} /\ Stage'[e] = "stored"
        BY <1>1, <2>3, <3>1, <3>3 DEF Stage
      <4> QED BY <4>1 DEF Promise!Moves
    <3> QED BY <3>2, <3>3
  <2>4. CASE e \notin stored /\ e \notin stored' /\ row'[e] = "synced"
    <3>1. Stage'[e] = "claimed" /\ e \in cut'
      BY <1>1, <2>4 DEF Stage, SyncedUnlessCut
    <3>2. CASE row[e] = "synced"
      BY <2>4, <3>1, <3>2 DEF Stage
    <3>3. CASE row[e] # "synced"
      <4>1. local[e] # "absent"
        BY <2>4, <3>3, MarkedStep
      <4>2. Stage[e] \in {"held", "dropped"}
        BY <1>1, <2>4, <3>3, <4>1 DEF Stage
      <4> QED BY <3>1, <4>2 DEF Promise!CutMoves
    <3> QED BY <3>2, <3>3
  <2>5. CASE e \notin stored /\ e \notin stored' /\ row'[e] # "synced"
    <3>1. CASE row[e] = "synced"
      <4>1. row[e] # "none" /\ local'[e] # "present"
        BY <2>5, <3>1 DEF SyncedStays
      <4>2. local'[e] # "absent"
        BY <3>1, <4>1 DEF Onward, PromiseInv, QueuedOnce
      <4>3. Stage[e] = "claimed" /\ Stage'[e] = "dropped"
        BY <1>1, <2>5, <3>1, <4>1, <4>2 DEF Stage
      <4>4. e \in cut
        BY <2>5, <3>1 DEF PromiseInv, SyncedInv, SyncedUnlessCut
      <4> QED BY <1>3, <4>3, <4>4 DEF Promise!CutMoves
    <3>2. CASE row[e] # "synced"
      <4>1. \/ local'[e] = local[e]
            \/ local[e] = "absent" /\ local'[e] = "present"
            \/ local[e] = "present" /\ local'[e] = "gone"
        BY DEF Onward
      <4> QED BY <1>1, <2>5, <3>2, <4>1 DEF Stage, Promise!Moves
    <3> QED BY <3>1, <3>2
  <2> QED BY <2>1, <2>2, <2>3, <2>4, <2>5
<1> QED BY <1>2, <1>3, <1>4 DEF Promise!Next

(* Article III for any device, any network, any batch size and any room for
   errors: no record is synced before it is stored, save those an answer had no
   room for; none the server has is lost; none is given up unless the user
   drops it. *)
THEOREM SystemKeepsPromise ==
  ASSUME IsFiniteSet(Entity)
  PROVE  SystemSpec => KeepsPromise
<1>1. SystemInit => PromiseInv
  BY SyncedInit, OutboxConstants
     DEF SystemInit, Init, PromiseInv, Ancestors, QueuedOnce, SentBySubmit, SentWasHeld,
         PartsOf, PhotosOf, Entity, Capturable
<1>2. SystemInit => Promise!Init
  BY DEF SystemInit, Init, Promise!Init, Stage
<1>3. PromiseInv /\ [SystemNext]_systemVars => PromiseInv' /\ Onward /\ SyncedStays
  BY PromiseStep
<1>4. PromiseInv /\ PromiseInv' /\ Onward /\ SyncedStays /\ [SystemNext]_systemVars
        => [Promise!Next]_<<Stage, cut>>
  BY StageStep
<1> QED
  BY <1>1, <1>2, <1>3, <1>4, PTL DEF SystemSpec, KeepsPromise, Promise!Spec
=============================================================================
