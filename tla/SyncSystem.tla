----------------------------- MODULE SyncSystem -----------------------------
(***************************************************************************)
(* A device and the server: the outbox of ClientOutbox with the ingestion  *)
(* of SyncIngest behind it.                                                *)
(*                                                                         *)
(* The device sees a batch as one answer, so here the server handles one   *)
(* in one step: it stores some of the records, each after those it refers  *)
(* to, and names in its answer at most MaxErrors of the others.  Batches   *)
(* may be lost, the answer may be lost, and a batch the device gave up on  *)
(* may still arrive, together with the retry of it.                        *)
(***************************************************************************)
EXTENDS ClientOutbox

CONSTANT MaxErrors  \* MAX_ERRORS of the server

ASSUME SystemConstants == MaxErrors \in Nat

VARIABLES
  stored,   \* entities with a row in the server's database
  call,     \* the request of the worker: none | sent | served | lost
  reply,    \* the entities its answer lists as failed
  astray,   \* batches the device gave up on that may still arrive
  missed,   \* history: the failures that answer had no room for
  cut       \* history: records an answer that was heard had no room for

server == <<stored, call, reply, astray>>
answers == <<missed, cut>>
device == <<tables, row, handlers, worker, signal, past>>
systemVars == <<vars, server, answers>>

(* Values of the right type; a request is out only while the worker waits. *)
SystemTypeOK ==
  /\ TypeOK
  /\ stored \subseteq Entity
  /\ call \in {"none", "sent", "served", "lost"}
  /\ reply \subseteq Entity
  /\ astray \subseteq SUBSET Entity
  /\ missed \subseteq Entity
  /\ cut \subseteq Entity
  /\ call = "none" <=> pc # "fetch"

SystemInit ==
  /\ Init
  /\ stored = {}
  /\ call = "none"
  /\ reply = {}
  /\ astray = {}
  /\ missed = {}
  /\ cut = {}

(* What the payload of a record refers to; the server wants it stored. *)
RefersTo(e) ==
  CASE e \in Response   -> {RootOf[e]}
    [] e \in Finding    -> {RootOf[e], AboutOf[e]} \ {None}
    [] e \in Attachment -> {OwnerOf[e]}
    [] OTHER            -> {}

(* Mutant: a record the server has is refused. *)
MutReplays(body) ==
  {S \in SUBSET (body \ stored) : \A e \in S : RefersTo(e) \subseteq stored \cup S}

(* The sets of records of a batch the server may store: never one before what
   it refers to; any other may fail. *)
Outcomes(body) ==
  {S \in SUBSET body : \A e \in S : RefersTo(e) \subseteq stored \cup S}

(* Mutant: the answer lists failures only if all failed. *)
MutAnswers(rejected, body) ==
  IF rejected = body THEN {rejected} ELSE {{}}

(* The failures an answer may list. *)
Answers(rejected, body) ==
  {S \in SUBSET rejected : S = rejected \/ Cardinality(S) = MaxErrors}
    \cap {S \in SUBSET rejected : Cardinality(S) <= MaxErrors}

Send ==
  /\ BuildRequest
  /\ call' = "sent"
  /\ UNCHANGED <<stored, reply, astray, answers>>

Serve ==
  /\ call = "sent"
  /\ \E accepted \in Outcomes(batch) :
       /\ stored' = stored \cup accepted
       /\ reply' \in Answers(batch \ accepted, batch)
       /\ missed' = IF Cardinality(batch \ accepted) > MaxErrors
                    THEN (batch \ accepted) \ reply' ELSE {}
  /\ call' = "served"
  /\ UNCHANGED <<device, astray, cut>>

(* The process dies in the middle of the batch, or refuses it whole. *)
ServeInPart ==
  /\ call = "sent"
  /\ \E accepted \in Outcomes(batch) : stored' = stored \cup accepted
  /\ call' = "lost"
  /\ UNCHANGED <<device, reply, astray, answers>>

HearAnswer ==
  /\ call = "served"
  /\ Settle(reply)
  /\ call' = "none"
  /\ reply' = {}
  /\ missed' = {}
  /\ cut' = cut \cup missed
  /\ UNCHANGED <<stored, astray>>

(* Mutant: the call is not aborted. *)
MutLeaveAstray ==
  /\ astray' = IF call = "sent" THEN astray \cup {batch} ELSE astray
  /\ UNCHANGED <<stored, call, reply, answers>>

(* The device stops waiting; the request may still be on its way. *)
LeaveAstray ==
  /\ astray' = IF call = "sent" THEN astray \cup {batch} ELSE astray
  /\ call' = "none"
  /\ reply' = {}
  /\ missed' = {}
  /\ UNCHANGED <<stored, cut>>

GiveUp == FetchFails /\ LeaveAstray

PageDies == Crash /\ LeaveAstray

(* A batch that was given up arrives, in whole or in part, or is lost. *)
ArriveLate(body) ==
  /\ \E accepted \in Outcomes(body) : stored' = stored \cup accepted
  /\ astray' = astray \ {body}
  /\ UNCHANGED <<device, call, reply, answers>>

(* What the device does by itself. *)
Alone == UNCHANGED <<server, answers>>

SystemNext ==
  \/ (User \/ Signal \/ Prepare) /\ Alone
  \/ Send
  \/ Serve
  \/ ServeInPart
  \/ HearAnswer
  \/ GiveUp
  \/ PageDies
  \/ \E body \in astray : ArriveLate(body)

SystemSpec == SystemInit /\ [][SystemNext]_systemVars

(* A batch served whole: all is stored that can be. *)
ServeWell ==
  /\ Serve
  /\ stored' = stored \cup UNION Outcomes(batch)
  /\ reply' = batch \ stored'

(* An answer is heard that lists nothing the server has. *)
HearWell == HearAnswer /\ reply \cap stored = {}

(* The browser runs a due timer and resumes a pending await, and a fetch ends
   by its answer or by TIMEOUT_LOTE_MS.  Of the network and the server it is
   assumed that they do not fail every time: among the
   batches sent again and again one is served whole, and one such answer gets
   through before the timeout. *)
FairSystemSpec ==
  /\ SystemSpec
  /\ WF_systemVars((Prepare /\ Alone) \/ Send)
  /\ WF_systemVars(HearAnswer \/ GiveUp)
  /\ SF_systemVars(ServeWell)
  /\ SF_systemVars(HearWell)
-----------------------------------------------------------------------------
(* Properties.                                                             *)

(* NFR-04 as it stands: a row the device shows as synced is stored. *)
SyncedMeansStored == \A e \in Entity : row[e] = "synced" => e \in stored

(* NFR-04 as the code keeps it: whatever was lost, late, rejected or retried on
   the way, a row is shown as synced without being stored only if it failed in
   a batch with more failures than an answer can list. *)
SyncedUnlessCut == \A e \in Entity : row[e] = "synced" => e \in stored \cup cut

(* Where a record stands: synced, or claimed to be, once the device says so,
   else stored if the server has it, else as the device keeps it. *)
Stage ==
  [e \in Entity |->
     CASE row[e] = "synced" -> IF e \in stored THEN "synced" ELSE "claimed"
       [] row[e] # "synced" /\ e \in stored -> "stored"
       [] OTHER -> CASE local[e] = "absent"  -> "none"
                     [] local[e] = "present" -> "held"
                     [] local[e] = "gone"    -> "dropped"]

Promise == INSTANCE SyncPromise WITH stage <- Stage

(* The device and the server together keep the promise: no record an answer
   could list is synced before it is stored, none the server stored is lost,
   none goes back. *)
KeepsPromise == Promise!Spec

(* Page and signal are there, and no queued row is without its record. *)
Calm ==
  /\ open
  /\ online
  /\ \A e \in Ready \cup batch : local[e] = "present"

(* All that e refers to, and they in turn, is stored or queued with it. *)
Deliverable(e) == \E S \in Outcomes(Ready \cup batch) : e \in S

(* FR-022 and NFR-04 together: a failed record that can be delivered is synced
   in the end, however often its batch or the answer was lost before. *)
FailedIsDelivered ==
  \A e \in Entity :
    row[e] = "failed" /\ Deliverable(e) ~> row[e] \in {"synced", "none"} \/ ~Calm
=============================================================================
