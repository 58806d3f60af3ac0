-------------------------- MODULE SyncIngestProofs --------------------------
(* Proofs about the ingestion, for any number of requests, entities, versions
   and bodies. *)
EXTENDS SyncIngest, TLAPS

-----------------------------------------------------------------------------
(* One step of the system, by action: what every invariance proof splits on. *)
LEMMA NextCases ==
  ASSUME Next
  PROVE  \/ Crash
         \/ \E r \in Request :
              \/ \E b \in Bodies : \/ RejectForeign(r, b)
                                   \/ RejectMalformed(r, b)
                                   \/ Accept(r, b)
              \/ \E rec \in todo[r] : BeginRecord(r, rec) \/ RefuseOrphan(r, rec)
              \/ SelectExisting(r)
              \/ Insert(r)
              \/ InsertDuplicateKey(r)
              \/ ReplayEqual(r)
              \/ FindConflict(r)
              \/ KeepStored(r)
              \/ Overwrite(r)
              \/ TransactionFails(r)
              \/ Finish(r)
BY DEF Next, Receive, TakeRecord, Step

(* The variables keep their types; inside a transaction the handler holds a
   record. *)
HoldsRecord ==
  \A r \in Request :
    /\ phase[r] \in {"select", "decide", "write"} => cur[r] \in Sent
    /\ phase[r] = "write" => seen[r] \in Sent

TypeInv == TypeOK /\ HoldsRecord

(* The type invariant is inductive. *)
LEMMA TypeStep == TypeInv /\ [Next]_vars => TypeInv'
<1> USE IngestConstants DEF TypeInv, TypeOK, HoldsRecord, logs, locals, outcome, history
<1>1. ASSUME TypeInv, Crash PROVE TypeInv'
  BY <1>1 DEF Crash, Phases, Open
<1>2. ASSUME TypeInv, NEW r \in Request, NEW b \in Bodies,
             RejectForeign(r, b) \/ RejectMalformed(r, b) \/ Accept(r, b)
      PROVE TypeInv'
  BY <1>2 DEF RejectForeign, RejectMalformed, Accept, Phases, LogStatus
<1>3. ASSUME TypeInv, NEW r \in Request, NEW rec \in todo[r], BeginRecord(r, rec)
      PROVE TypeInv'
  BY <1>3 DEF BeginRecord, Phases
<1>4. ASSUME TypeInv, NEW r \in Request, NEW rec \in todo[r], RefuseOrphan(r, rec)
      PROVE TypeInv'
  BY <1>4 DEF RefuseOrphan, CountFailed, EndRecord, Phases
<1>5. ASSUME TypeInv, NEW r \in Request, SelectExisting(r) PROVE TypeInv'
  <2>1. cur[r].id \in Id BY <1>5 DEF SelectExisting, SentRecord
  <2> QED BY <1>5, <2>1 DEF SelectExisting, Phases
<1>6. ASSUME TypeInv, NEW r \in Request, Insert(r) PROVE TypeInv'
  <2>1. cur[r] \in Sent BY <1>6 DEF Insert
  <2>2. cur[r].id \in Id BY <2>1 DEF SentRecord
  <2>3. row' \in [Id -> Sent \cup {NoRow}] BY <1>6, <2>1, <2>2 DEF Insert
  <2>4. /\ ok' \in [Request -> SUBSET Sent]
        /\ applied' \in [Request -> SUBSET Sent]
        /\ committed' \subseteq Sent
    BY <1>6, <2>1 DEF Insert, CountOk
  <2> QED BY <1>6, <2>3, <2>4 DEF Insert, CountOk, EndRecord, Phases
<1>7. ASSUME TypeInv, NEW r \in Request,
             InsertDuplicateKey(r) \/ TransactionFails(r)
      PROVE TypeInv'
  <2>1. cur[r] \in Sent BY <1>7 DEF InsertDuplicateKey, TransactionFails
  <2>2. CountFailed(r, cur[r]) BY <1>7 DEF InsertDuplicateKey, TransactionFails
  <2>3. UNCHANGED <<row, conflicts, logs, body, todo, ok, applied, orphaned, history>>
    BY <1>7 DEF InsertDuplicateKey, TransactionFails
  <2> QED BY <1>7, <2>1, <2>2, <2>3 DEF CountFailed, EndRecord, Phases
<1>8. ASSUME TypeInv, NEW r \in Request, ReplayEqual(r) PROVE TypeInv'
  <2>1. cur[r] \in Sent BY <1>8 DEF ReplayEqual
  <2>2. applied' = applied BY <1>8 DEF ReplayEqual, CountOk
  <2> QED BY <1>8, <2>1, <2>2 DEF ReplayEqual, CountOk, EndRecord, Phases
<1>9. ASSUME TypeInv, NEW r \in Request, FindConflict(r) PROVE TypeInv'
  BY <1>9 DEF FindConflict, Phases
<1>10. ASSUME TypeInv, NEW r \in Request, phase[r] = "write", seen[r] \in Sent,
              AuditConflict(r)
       PROVE conflicts' \subseteq Conflict
  <2>1. cur[r] \in Sent BY <1>10
  <2>2. cur[r].id \in Id /\ cur[r].data \in Payload /\ seen[r].data \in Payload
    BY <1>10, <2>1 DEF SentRecord
  <2>3. Winner(r) \in Payload /\ Loser(r) \in Payload
    BY <2>2 DEF Winner, Loser
  <2> QED BY <1>10, <2>2, <2>3 DEF AuditConflict, Conflict
<1>11. ASSUME TypeInv, NEW r \in Request, KeepStored(r) PROVE TypeInv'
  <2>1. cur[r] \in Sent /\ seen[r] \in Sent BY <1>11 DEF KeepStored
  <2>2. conflicts' \subseteq Conflict BY <1>10, <1>11, <2>1 DEF KeepStored
  <2>3. applied' = applied BY <1>11 DEF KeepStored, CountOk
  <2> QED BY <1>11, <2>1, <2>2, <2>3 DEF KeepStored, CountOk, EndRecord, Phases
<1>12. ASSUME TypeInv, NEW r \in Request, Overwrite(r) PROVE TypeInv'
  <2>1. cur[r] \in Sent /\ seen[r] \in Sent BY <1>12 DEF Overwrite
  <2>2. conflicts' \subseteq Conflict BY <1>10, <1>12, <2>1 DEF Overwrite
  <2>3. cur[r].id \in Id BY <2>1 DEF SentRecord
  <2> QED BY <1>12, <2>1, <2>2, <2>3 DEF Overwrite, CountOk, EndRecord, Phases
<1>13. ASSUME TypeInv, NEW r \in Request, Finish(r) PROVE TypeInv'
  BY <1>13 DEF Finish, Phases, LogStatus, BatchStatus
<1>14. ASSUME TypeInv, UNCHANGED vars PROVE TypeInv'
  BY <1>14 DEF vars
<1> QED
  BY NextCases, <1>1, <1>2, <1>3, <1>4, <1>5, <1>6, <1>7, <1>8, <1>9, <1>11,
     <1>12, <1>13, <1>14

(* The type invariant of the ingestion holds in every reachable state. *)
THEOREM TypeCorrect == Spec => []TypeOK
<1>1. Init => TypeInv
  BY IngestConstants
     DEF Init, TypeInv, TypeOK, HoldsRecord, Phases, LogStatus
<1>2. TypeInv => TypeOK
  BY DEF TypeInv
<1> QED
  BY <1>1, <1>2, TypeStep, PTL DEF Spec

(* Variables are well typed, and a handler in a transaction holds a record. *)
LEMMA TypeInvariance == Spec => []TypeInv
<1>1. Init => TypeInv
  BY IngestConstants
     DEF Init, TypeInv, TypeOK, HoldsRecord, Phases, LogStatus
<1> QED
  BY <1>1, TypeStep, PTL DEF Spec
-----------------------------------------------------------------------------
(* What most steps have in common: the tables and the histories stay as they
   are, and no handler moves on to decide or to write. *)
Quiet ==
  /\ UNCHANGED <<row, conflicts, committed, raced, applied>>
  /\ \A r \in Request : phase'[r] \in {"decide", "write"} =>
       /\ phase'[r] = phase[r] /\ cur'[r] = cur[r]
       /\ seen'[r] = seen[r] /\ dupe'[r] = dupe[r]

(* Every step by what it does to rows, audits and what a handler has seen. *)
LEMMA StepCases ==
  ASSUME TypeInv, [Next]_vars
  PROVE  \/ Quiet
         \/ \E r \in Request : \/ SelectExisting(r)
                               \/ Insert(r)
                               \/ ReplayEqual(r)
                               \/ FindConflict(r)
                               \/ KeepStored(r)
                               \/ Overwrite(r)
<1> USE DEF TypeInv, TypeOK, logs, locals, outcome, history
<1>1. ASSUME Crash PROVE Quiet
  BY <1>1 DEF Crash, Quiet, Open
<1>2. ASSUME NEW r \in Request, NEW b \in Bodies,
             RejectForeign(r, b) \/ RejectMalformed(r, b) \/ Accept(r, b)
      PROVE Quiet
  BY <1>2 DEF RejectForeign, RejectMalformed, Accept, Quiet
<1>3. ASSUME NEW r \in Request, NEW rec \in todo[r],
             BeginRecord(r, rec) \/ RefuseOrphan(r, rec)
      PROVE Quiet
  BY <1>3 DEF BeginRecord, RefuseOrphan, CountFailed, EndRecord, Quiet
<1>4. ASSUME NEW r \in Request, InsertDuplicateKey(r) \/ TransactionFails(r)
      PROVE Quiet
  BY <1>4 DEF InsertDuplicateKey, TransactionFails, CountFailed, EndRecord, Quiet
<1>5. ASSUME NEW r \in Request, Finish(r) PROVE Quiet
  BY <1>5 DEF Finish, Quiet
<1>6. ASSUME UNCHANGED vars PROVE Quiet
  BY <1>6 DEF vars, Quiet
<1> QED
  BY NextCases, <1>1, <1>2, <1>3, <1>4, <1>5, <1>6
-----------------------------------------------------------------------------
(* Article III.  A payload can leave a row only through Overwrite.  That step
   audits the row it saw; and if the row has changed since, whatever replaced
   it was itself audited as a winner.  The invariant says so of every open
   handler: the row is still the one seen, or its payload is audited. *)
RowsKeyed == \A i \in Id : row[i] # NoRow => row[i].id = i

SeenKept ==
  \A r \in Request :
    phase[r] \in {"decide", "write"} /\ seen[r] # NoRow =>
      /\ seen[r].id = cur[r].id
      /\ row[cur[r].id] # NoRow
      /\ Kept(seen[r])
      /\ \/ row[cur[r].id] = seen[r]
         \/ Audited(cur[r].id, row[cur[r].id].data)

DupesAudited ==
  \A r \in Request :
    phase[r] = "write" /\ dupe[r] =>
      Audited(cur[r].id, seen[r].data) /\ Audited(cur[r].id, cur[r].data)

KeepInv == TypeInv /\ RowsKeyed /\ SeenKept /\ DupesAudited /\ BothVersionsKept

(* After recordConflict both payloads are in the audit, and nothing left it. *)
LEMMA AuditConflictKeeps ==
  ASSUME KeepInv, NEW r \in Request, phase[r] = "write", AuditConflict(r)
  PROVE  /\ conflicts \subseteq conflicts'
         /\ \E c \in conflicts' : c.id = cur[r].id /\ seen[r].data \in {c.winner, c.loser}
         /\ \E c \in conflicts' : c.id = cur[r].id /\ cur[r].data \in {c.winner, c.loser}
<1>1. conflicts \subseteq conflicts' BY DEF AuditConflict
<1>2. CASE dupe[r]
  BY <1>1, <1>2 DEF KeepInv, DupesAudited, Audited
<1>3. CASE ~dupe[r]
  <2> DEFINE new == [id |-> cur[r].id, winner |-> Winner(r), loser |-> Loser(r), log |-> r]
  <2>1. new \in conflicts' BY <1>3 DEF AuditConflict
  <2>2. {seen[r].data, cur[r].data} = {new.winner, new.loser}
    BY DEF Winner, Loser
  <2> QED BY <1>1, <2>1, <2>2
<1> QED BY <1>2, <1>3

(* A transaction that leaves its record kept, and audits both the row it
   replaces and the version it writes, preserves the invariant. *)
LEMMA CommitKeeps ==
  ASSUME KeepInv, TypeInv', NEW r \in Request, NEW rec \in Sent, rec.id \in Id,
         conflicts \subseteq conflicts',
         committed' = committed \cup {rec},
         phase'[r] = "process",
         \A s \in Request \ {r} : /\ phase'[s] = phase[s] /\ cur'[s] = cur[s]
                                  /\ seen'[s] = seen[s] /\ dupe'[s] = dupe[s],
         \/ /\ row' = row
            /\ Kept(rec)'
         \/ /\ row' = [row EXCEPT ![rec.id] = rec]
            /\ \E c \in conflicts' : c.id = rec.id /\ rec.data \in {c.winner, c.loser}
            /\ \E c \in conflicts' : /\ c.id = rec.id
                                    /\ row[rec.id].data \in {c.winner, c.loser}
  PROVE  KeepInv'
<1> USE IngestConstants
<1>1. rec # NoRow /\ row \in [Id -> Sent \cup {NoRow}]
  BY DEF KeepInv, TypeInv, TypeOK
<1>2. \A i \in Id : row[i] # NoRow => row'[i] # NoRow
  BY <1>1
<1>3. \A i \in Id :
        \/ row'[i] = row[i]
        \/ \E c \in conflicts' : c.id = i /\ row[i].data \in {c.winner, c.loser}
  BY <1>1
<1>4. \A i \in Id :
        \/ row'[i] = row[i]
        \/ \E c \in conflicts' : c.id = i /\ row'[i].data \in {c.winner, c.loser}
  BY <1>1
<1>5. \A data : \A i \in Id : Audited(i, data) => Audited(i, data)'
  BY DEF Audited
<1>6. ASSUME NEW old \in Sent, Kept(old) PROVE Kept(old)'
  <2>1. old.id \in Id BY DEF SentRecord
  <2>2. CASE row[old.id] # NoRow /\ row[old.id].data = old.data
    BY <1>2, <1>3, <2>1, <2>2 DEF Kept, Audited
  <2>3. CASE Audited(old.id, old.data)
    BY <1>5, <2>1, <2>3 DEF Kept
  <2> QED BY <1>6, <2>2, <2>3 DEF Kept
<1>7. Kept(rec)'
  BY <1>1 DEF Kept, Audited
<1>8. RowsKeyed'
  BY <1>1 DEF KeepInv, RowsKeyed
<1>9. SeenKept'
  <2> SUFFICES ASSUME NEW s \in Request, phase'[s] \in {"decide", "write"},
                      seen'[s] # NoRow
               PROVE  /\ seen'[s].id = cur'[s].id
                      /\ row'[cur'[s].id] # NoRow
                      /\ Kept(seen[s])'
                      /\ \/ row'[cur'[s].id] = seen'[s]
                         \/ Audited(cur[s].id, row[cur[s].id].data)'
    BY DEF SeenKept, Kept, Audited
  <2>1. s # r OBVIOUS
  <2>2. /\ phase'[s] = phase[s] /\ cur'[s] = cur[s] /\ seen'[s] = seen[s]
        /\ phase[s] \in {"decide", "write"} /\ seen[s] # NoRow
    BY <2>1
  <2>3. cur[s] \in Sent /\ cur[s].id \in Id /\ seen[s] \in Sent
    BY <2>2 DEF KeepInv, TypeInv, TypeOK, HoldsRecord, SentRecord
  <2>4. /\ seen[s].id = cur[s].id /\ row[cur[s].id] # NoRow /\ Kept(seen[s])
        /\ \/ row[cur[s].id] = seen[s]
           \/ Audited(cur[s].id, row[cur[s].id].data)
    BY <2>2 DEF KeepInv, SeenKept
  <2>5. Kept(seen[s])'
    BY <1>6, <2>2, <2>3, <2>4 DEF Kept, Audited
  <2>6. \/ row'[cur'[s].id] = seen'[s]
        \/ Audited(cur[s].id, row[cur[s].id].data)'
    BY <1>4, <1>5, <2>2, <2>3, <2>4 DEF Audited
  <2> QED BY <1>2, <2>2, <2>3, <2>4, <2>5, <2>6
<1>10. DupesAudited'
  BY DEF KeepInv, DupesAudited, Audited
<1>11. BothVersionsKept'
  <2>1. \A old \in committed : old \in Sent /\ Kept(old)
    BY DEF KeepInv, BothVersionsKept, TypeInv, TypeOK
  <2> QED BY <1>6, <1>7, <2>1 DEF BothVersionsKept, Kept, Audited
<1> QED BY <1>8, <1>9, <1>10, <1>11 DEF KeepInv

(* Every committed version is the row or audited, and nothing is about to change that. *)
LEMMA KeepStep == KeepInv /\ [Next]_vars => KeepInv'
<1> SUFFICES ASSUME KeepInv, [Next]_vars PROVE KeepInv'
  OBVIOUS
<1> USE IngestConstants
<1>0. TypeInv /\ TypeInv' BY TypeStep DEF KeepInv
<1>1. CASE Quiet
  <2>1. RowsKeyed' BY <1>1 DEF KeepInv, RowsKeyed, Quiet
  <2>2. SeenKept' BY <1>1 DEF KeepInv, SeenKept, Quiet, Kept, Audited
  <2>3. DupesAudited' BY <1>1 DEF KeepInv, DupesAudited, Quiet, Audited
  <2>4. BothVersionsKept' BY <1>1 DEF KeepInv, BothVersionsKept, Quiet, Kept, Audited
  <2> QED BY <1>0, <2>1, <2>2, <2>3, <2>4 DEF KeepInv
<1>2. ASSUME NEW r \in Request, SelectExisting(r) PROVE KeepInv'
  <2> USE DEF SelectExisting, logs, outcome, history
  <2>1. RowsKeyed' BY <1>2 DEF KeepInv, RowsKeyed
  <2>2. SeenKept'
    <3>1. cur[r] \in Sent BY <1>2 DEF KeepInv, TypeInv, HoldsRecord
    <3>2. cur[r].id \in Id BY <3>1 DEF SentRecord
    <3>3. ASSUME row[cur[r].id] # NoRow PROVE Kept(row[cur[r].id]) /\ row[cur[r].id].id = cur[r].id
      BY <3>2, <3>3 DEF KeepInv, RowsKeyed, Kept
    <3> QED BY <1>2, <3>1, <3>2, <3>3, <1>0
            DEF KeepInv, SeenKept, TypeInv, TypeOK, Kept, Audited
  <2>3. DupesAudited' BY <1>2, <1>0 DEF KeepInv, DupesAudited, TypeInv, TypeOK, Audited
  <2>4. BothVersionsKept' BY <1>2 DEF KeepInv, BothVersionsKept, Kept, Audited
  <2> QED BY <1>0, <2>1, <2>2, <2>3, <2>4 DEF KeepInv
<1>3. ASSUME NEW r \in Request, Insert(r) PROVE KeepInv'
  <2> USE DEF Insert, CountOk, EndRecord
  <2>0. cur[r] \in Sent /\ cur[r].id \in Id
    BY <1>3 DEF KeepInv, TypeInv, HoldsRecord, SentRecord
  <2>1. /\ row' = [row EXCEPT ![cur[r].id] = cur[r]]
        /\ conflicts' = conflicts
        /\ committed' = committed \cup {cur[r]}
        /\ phase'[r] = "process"
        /\ \A s \in Request \ {r} : /\ phase'[s] = phase[s] /\ cur'[s] = cur[s]
                                    /\ seen'[s] = seen[s] /\ dupe'[s] = dupe[s]
    BY <1>3 DEF KeepInv, TypeInv, TypeOK
  <2>2. \A i \in Id : row[i] # NoRow => row'[i] = row[i]
    BY <1>3, <2>1, <1>0 DEF TypeInv, TypeOK
  <2>3. \A rec \in Sent : Kept(rec) => Kept(rec)'
    BY <2>1, <2>2 DEF Kept, Audited, SentRecord
  <2>4. RowsKeyed' BY <2>0, <2>1, <1>0 DEF KeepInv, RowsKeyed, TypeInv, TypeOK
  <2>5. SeenKept'
    <3> SUFFICES ASSUME NEW s \in Request, phase'[s] \in {"decide", "write"},
                        seen'[s] # NoRow
                 PROVE  /\ seen'[s].id = cur'[s].id
                        /\ row'[cur'[s].id] # NoRow
                        /\ Kept(seen[s])'
                        /\ \/ row'[cur'[s].id] = seen'[s]
                           \/ Audited(cur[s].id, row[cur[s].id].data)'
      BY <2>1 DEF SeenKept, Kept, Audited
    <3>1. s # r /\ phase[s] \in {"decide", "write"} /\ seen[s] # NoRow /\ seen[s] \in Sent
      BY <2>1, <1>0 DEF TypeInv, TypeOK
    <3>2. cur[s] \in Sent /\ cur[s].id \in Id
      BY <3>1, <1>0 DEF TypeInv, HoldsRecord, SentRecord
    <3>3. row'[cur[s].id] = row[cur[s].id]
      BY <2>2, <3>1, <3>2 DEF KeepInv, SeenKept
    <3> QED BY <2>1, <2>3, <3>1, <3>2, <3>3 DEF KeepInv, SeenKept, Kept, Audited
  <2>6. DupesAudited' BY <2>1 DEF KeepInv, DupesAudited, Audited
  <2>7. BothVersionsKept'
    <3>2. \A rec \in committed : Kept(rec)'
      BY <2>3, <1>0 DEF KeepInv, BothVersionsKept, TypeInv, TypeOK
    <3>3. row'[cur[r].id] = cur[r]
      BY <2>0, <2>1, <1>0 DEF TypeInv, TypeOK
    <3> QED BY <2>0, <2>1, <3>2, <3>3 DEF BothVersionsKept, Kept
  <2> QED BY <1>0, <2>4, <2>5, <2>6, <2>7 DEF KeepInv
<1>4. ASSUME NEW r \in Request, ReplayEqual(r) PROVE KeepInv'
  <2>1. cur[r] \in Sent /\ cur[r].id \in Id /\ seen[r] \in Sent
    BY <1>4 DEF ReplayEqual, KeepInv, TypeInv, TypeOK, HoldsRecord, SentRecord
  <2>2. /\ row' = row /\ conflicts' = conflicts
        /\ committed' = committed \cup {cur[r]}
        /\ phase'[r] = "process"
        /\ \A s \in Request \ {r} : /\ phase'[s] = phase[s] /\ cur'[s] = cur[s]
                                    /\ seen'[s] = seen[s] /\ dupe'[s] = dupe[s]
    BY <1>4, <1>0 DEF ReplayEqual, CountOk, EndRecord, TypeInv, TypeOK
  <2>3. seen[r].id = cur[r].id /\ Kept(seen[r])
    BY <1>4 DEF ReplayEqual, KeepInv, SeenKept
  <2>4. SameStamp(seen[r], cur[r])
    BY <1>4 DEF ReplayEqual, DecideLww
  <2>5. seen[r].data = cur[r].data
    BY <2>1, <2>3, <2>4, StampsIdentifyPayloads
  <2>6. ASSUME NEW rec \in Sent, rec = cur[r] PROVE Kept(rec)'
    BY <2>2, <2>3, <2>5, <2>6 DEF Kept, Audited
  <2> QED BY <1>0, <2>1, <2>2, <2>6, CommitKeeps
<1>5. ASSUME NEW r \in Request, FindConflict(r) PROVE KeepInv'
  <2>1. /\ row' = row /\ conflicts' = conflicts /\ committed' = committed
        /\ cur' = cur /\ seen' = seen
        /\ phase[r] = "decide" /\ seen[r] # NoRow
        /\ \A s \in Request \ {r} : phase'[s] = phase[s] /\ dupe'[s] = dupe[s]
        /\ dupe'[r] = \E c \in conflicts : /\ c.id = cur[r].id
                                          /\ c.winner = Winner(r)
                                          /\ c.loser = Loser(r)
    BY <1>5, <1>0 DEF FindConflict, logs, outcome, history, TypeInv, TypeOK
  <2>2. RowsKeyed' BY <2>1 DEF KeepInv, RowsKeyed
  <2>3. SeenKept' BY <2>1 DEF KeepInv, SeenKept, Kept, Audited
  <2>4. BothVersionsKept' BY <2>1 DEF KeepInv, BothVersionsKept, Kept, Audited
  <2>5. {Winner(r), Loser(r)} = {cur[r].data, seen[r].data}
    BY DEF Winner, Loser
  <2>6. dupe'[r] => /\ Audited(cur[r].id, seen[r].data)
                    /\ Audited(cur[r].id, cur[r].data)
    BY <2>1, <2>5 DEF Audited
  <2>7. DupesAudited'
    BY <2>1, <2>6 DEF KeepInv, DupesAudited, Audited
  <2> QED BY <1>0, <2>2, <2>3, <2>4, <2>7 DEF KeepInv
<1>6. ASSUME NEW r \in Request, KeepStored(r) PROVE KeepInv'
  <2>1. cur[r] \in Sent /\ cur[r].id \in Id
    BY <1>6 DEF KeepStored, KeepInv, TypeInv, HoldsRecord, SentRecord
  <2>2. /\ row' = row /\ phase[r] = "write" /\ AuditConflict(r)
        /\ committed' = committed \cup {cur[r]}
        /\ phase'[r] = "process"
        /\ \A s \in Request \ {r} : /\ phase'[s] = phase[s] /\ cur'[s] = cur[s]
                                    /\ seen'[s] = seen[s] /\ dupe'[s] = dupe[s]
    BY <1>6, <1>0 DEF KeepStored, CountOk, EndRecord, TypeInv, TypeOK
  <2>3. /\ conflicts \subseteq conflicts'
        /\ \E c \in conflicts' : c.id = cur[r].id /\ cur[r].data \in {c.winner, c.loser}
    BY <2>2, AuditConflictKeeps
  <2>4. ASSUME NEW rec \in Sent, rec = cur[r] PROVE Kept(rec)'
    BY <2>3, <2>4 DEF Kept, Audited
  <2> QED BY <1>0, <2>1, <2>2, <2>3, <2>4, CommitKeeps
<1>7. ASSUME NEW r \in Request, Overwrite(r) PROVE KeepInv'
  <2>1. cur[r] \in Sent /\ cur[r].id \in Id /\ seen[r] \in Sent
    BY <1>7 DEF Overwrite, KeepInv, TypeInv, HoldsRecord, SentRecord
  <2>2. /\ row' = [row EXCEPT ![cur[r].id] = cur[r]]
        /\ phase[r] = "write" /\ AuditConflict(r)
        /\ committed' = committed \cup {cur[r]}
        /\ phase'[r] = "process"
        /\ \A s \in Request \ {r} : /\ phase'[s] = phase[s] /\ cur'[s] = cur[s]
                                    /\ seen'[s] = seen[s] /\ dupe'[s] = dupe[s]
    BY <1>7, <1>0 DEF Overwrite, CountOk, EndRecord, TypeInv, TypeOK
  <2>3. /\ conflicts \subseteq conflicts'
        /\ \E c \in conflicts' : c.id = cur[r].id /\ seen[r].data \in {c.winner, c.loser}
        /\ \E c \in conflicts' : c.id = cur[r].id /\ cur[r].data \in {c.winner, c.loser}
    BY <2>2, AuditConflictKeeps
  <2>4. \/ row[cur[r].id] = seen[r]
        \/ Audited(cur[r].id, row[cur[r].id].data)
    BY <2>1, <2>2 DEF KeepInv, SeenKept
  <2>5. \E c \in conflicts' : c.id = cur[r].id /\ row[cur[r].id].data \in {c.winner, c.loser}
    BY <2>3, <2>4 DEF Audited
  <2> QED BY <1>0, <2>1, <2>2, <2>3, <2>5, CommitKeeps
<1> QED BY <1>1, <1>2, <1>3, <1>4, <1>5, <1>6, <1>7, <1>0, StepCases

(* Article III, for any number of handlers, entities and versions: whatever
   the interleaving of the transactions, the crashes and the races between a
   SELECT and its UPDATE, no committed version is lost. *)
THEOREM VersionsAreKept == Spec => []BothVersionsKept
<1>1. Init => KeepInv
  BY IngestConstants
     DEF Init, KeepInv, TypeInv, TypeOK, HoldsRecord, Phases, LogStatus, RowsKeyed,
         SeenKept, DupesAudited, BothVersionsKept
<1>2. KeepInv => BothVersionsKept
  BY DEF KeepInv
<1> QED
  BY <1>1, <1>2, KeepStep, PTL DEF Spec

-----------------------------------------------------------------------------
(* Which version the server keeps: the newest one, and each written once,
   unless two handlers raced between SELECT and UPDATE. *)

(* LwwWins is a strict weak order: what the proofs below use of it. *)
LEMMA LwwIrreflexive ==
  ASSUME NEW a \in Sent
  PROVE  ~LwwWins(a, a)
BY IngestConstants DEF LwwWins, SentRecord

(* Not to win is transitive, *)
LEMMA LwwTransitive ==
  ASSUME NEW a \in Sent, NEW b \in Sent, NEW c \in Sent,
         ~LwwWins(a, b), ~LwwWins(b, c)
  PROVE  ~LwwWins(a, c)
BY IngestConstants DEF LwwWins, SentRecord

(* winning is asymmetric, *)
LEMMA LwwWinnerBeats ==
  ASSUME NEW a \in Sent, NEW b \in Sent, LwwWins(a, b)
  PROVE  ~LwwWins(b, a)
BY IngestConstants DEF LwwWins, SentRecord

(* and versions of one stamp tie. *)
LEMMA LwwTie ==
  ASSUME NEW a \in Sent, NEW b \in Sent, SameStamp(a, b)
  PROVE  ~LwwWins(a, b) /\ ~LwwWins(b, a)
BY IngestConstants DEF LwwWins, SameStamp, SentRecord

(* The outcomes of decideLww, as comparisons. *)
LEMMA DecideLwwCases ==
  ASSUME NEW old \in Sent, NEW new \in Sent
  PROVE  /\ DecideLww(old, new) = "incoming_wins" => LwwWins(new, old)
         /\ DecideLww(old, new) # "incoming_wins" => ~LwwWins(new, old)
BY LwwTie DEF DecideLww
-----------------------------------------------------------------------------
(* As long as nobody raced on an entity its row only gets newer, so what a
   handler has seen is never newer than the row; a version that wins over what
   was seen, and is therefore applied, cannot have been committed before. *)
SeenNotNewer ==
  \A r \in Request :
    phase[r] \in {"decide", "write"} /\ seen[r] # NoRow /\ cur[r].id \notin raced =>
      ~LwwWins(seen[r], row[cur[r].id])

AppliedCommitted == \A r \in Request : applied[r] \subseteq committed

VersionInv ==
  KeepInv /\ NewestUnlessRaced /\ SeenNotNewer /\ AppliedCommitted /\ AppliedOnce

(* What VersionInv and KeepInv give of a handler that has seen a row. *)
LEMMA SeenFacts ==
  ASSUME VersionInv, NEW r \in Request, phase[r] \in {"decide", "write"},
         seen[r] # NoRow
  PROVE  /\ cur[r] \in Sent /\ cur[r].id \in Id /\ seen[r] \in Sent
         /\ row[cur[r].id] \in Sent
         /\ cur[r].id \notin raced => ~LwwWins(seen[r], row[cur[r].id])
<1>1. cur[r] \in Sent /\ seen[r] \in Sent
  BY DEF VersionInv, KeepInv, TypeInv, TypeOK, HoldsRecord
<1>2. cur[r].id \in Id
  BY <1>1, IngestConstants DEF SentRecord
<1>3. row[cur[r].id] # NoRow
  BY DEF VersionInv, KeepInv, SeenKept
<1>4. row[cur[r].id] \in Sent
  BY <1>2, <1>3 DEF VersionInv, KeepInv, TypeInv, TypeOK
<1> QED BY <1>1, <1>2, <1>4 DEF VersionInv, SeenNotNewer

(* A version that loses or ties, committed with the row as it is. *)
LEMMA NotAppliedStep ==
  ASSUME VersionInv, KeepInv', NEW r \in Request, NEW rec \in Sent, rec.id \in Id,
         row' = row, raced' = raced, applied' = applied,
         committed' = committed \cup {rec},
         rec.id \notin raced => row[rec.id] # NoRow /\ ~LwwWins(rec, row[rec.id]),
         phase'[r] = "process",
         \A s \in Request \ {r} : /\ phase'[s] = phase[s] /\ cur'[s] = cur[s]
                                  /\ seen'[s] = seen[s]
  PROVE  VersionInv'
<1>1. NewestUnlessRaced' BY DEF VersionInv, NewestUnlessRaced
<1>2. SeenNotNewer' BY DEF VersionInv, SeenNotNewer
<1>3. AppliedCommitted' BY DEF VersionInv, AppliedCommitted
<1>4. AppliedOnce' BY DEF VersionInv, AppliedOnce
<1> QED BY <1>1, <1>2, <1>3, <1>4 DEF VersionInv

(* A version written over a row it beats, over no row, or over a stale one. *)
LEMMA AppliedStep ==
  ASSUME VersionInv, KeepInv', NEW r \in Request, NEW rec \in Sent, rec.id \in Id,
         row' = [row EXCEPT ![rec.id] = rec],
         raced \subseteq raced',
         committed' = committed \cup {rec},
         applied' = [applied EXCEPT ![r] = @ \cup {rec}],
         rec.id \in raced' \/ row[rec.id] = NoRow
                           \/ (row[rec.id] \in Sent /\ LwwWins(rec, row[rec.id])),
         phase'[r] = "process",
         \A s \in Request \ {r} : /\ phase'[s] = phase[s] /\ cur'[s] = cur[s]
                                  /\ seen'[s] = seen[s]
  PROVE  VersionInv'
<1> USE IngestConstants
<1>0. /\ TypeOK /\ rec # NoRow
      /\ row'[rec.id] = rec
      /\ \A i \in Id \ {rec.id} : row'[i] = row[i]
      /\ committed \subseteq Sent
      /\ applied'[r] = applied[r] \cup {rec}
      /\ \A s \in Request \ {r} : applied'[s] = applied[s]
  BY DEF VersionInv, KeepInv, TypeInv, TypeOK
<1>1. ASSUME NEW old \in committed, old.id = rec.id, rec.id \notin raced'
      PROVE  /\ row[rec.id] \in Sent /\ LwwWins(rec, row[rec.id])
             /\ ~LwwWins(old, row[rec.id]) /\ ~LwwWins(old, rec) /\ old # rec
  <2>1. row[rec.id] # NoRow /\ ~LwwWins(old, row[rec.id])
    BY <1>1 DEF VersionInv, NewestUnlessRaced
  <2>2. row[rec.id] \in Sent /\ LwwWins(rec, row[rec.id])
    BY <1>1, <2>1
  <2>3. old \in Sent BY <1>0
  <2> QED BY <2>1, <2>2, <2>3, LwwWinnerBeats, LwwTransitive
<1>2. NewestUnlessRaced'
  <2> SUFFICES ASSUME NEW old \in committed', old.id \notin raced'
               PROVE  row'[old.id] # NoRow /\ ~LwwWins(old, row'[old.id])
    BY DEF NewestUnlessRaced
  <2>1. old \in Sent /\ old.id \in Id BY <1>0 DEF SentRecord
  <2>2. CASE old.id # rec.id
    <3>1. old \in committed BY <2>2
    <3>2. row'[old.id] = row[old.id] BY <1>0, <2>1, <2>2
    <3>3. row[old.id] # NoRow /\ ~LwwWins(old, row[old.id])
      BY <3>1 DEF VersionInv, NewestUnlessRaced
    <3> QED BY <3>2, <3>3
  <2>3. CASE old = rec
    BY <1>0, <2>1, <2>3, LwwIrreflexive
  <2>4. CASE old # rec /\ old.id = rec.id
    <3>1. old \in committed BY <2>4
    <3> QED BY <1>0, <1>1, <2>4, <3>1
  <2> QED BY <2>2, <2>3, <2>4
<1>3. SeenNotNewer'
  <2> SUFFICES ASSUME NEW s \in Request, phase'[s] \in {"decide", "write"},
                      seen'[s] # NoRow, cur'[s].id \notin raced'
               PROVE  ~LwwWins(seen'[s], row'[cur'[s].id])
    BY DEF SeenNotNewer
  <2>1. /\ s # r /\ cur'[s] = cur[s] /\ seen'[s] = seen[s]
        /\ phase[s] \in {"decide", "write"} /\ seen[s] # NoRow
    OBVIOUS
  <2>2. /\ cur[s] \in Sent /\ cur[s].id \in Id /\ seen[s] \in Sent
        /\ row[cur[s].id] \in Sent /\ ~LwwWins(seen[s], row[cur[s].id])
    BY <2>1, SeenFacts
  <2>3. CASE cur[s].id = rec.id
    <3>1. LwwWins(rec, row[rec.id]) BY <2>1, <2>2, <2>3
    <3>2. ~LwwWins(row[rec.id], rec) BY <2>2, <2>3, <3>1, LwwWinnerBeats
    <3>3. ~LwwWins(seen[s], rec) BY <2>2, <2>3, <3>2, LwwTransitive
    <3> QED BY <1>0, <2>1, <2>3, <3>3
  <2>4. CASE cur[s].id # rec.id
    <3>1. row'[cur[s].id] = row[cur[s].id] BY <1>0, <2>2, <2>4
    <3> QED BY <2>1, <2>2, <3>1
  <2> QED BY <2>3, <2>4
<1>4. AppliedCommitted'
  BY <1>0 DEF VersionInv, AppliedCommitted
<1>5. AppliedOnce'
  <2> SUFFICES ASSUME NEW s \in Request, NEW t \in Request,
                      NEW old \in applied'[s] \cap applied'[t],
                      s # t, old.id \notin raced'
               PROVE  FALSE
    BY DEF AppliedOnce
  <2>1. CASE old = rec
    <3>1. old \in applied[s] \/ old \in applied[t] BY <1>0
    <3>2. old \in committed BY <3>1 DEF VersionInv, AppliedCommitted
    <3> QED BY <1>1, <2>1, <3>2
  <2>2. CASE old # rec
    <3>1. old \in applied[s] \cap applied[t] BY <1>0, <2>2
    <3> QED BY <3>1 DEF VersionInv, AppliedOnce
  <2> QED BY <2>1, <2>2
<1> QED BY <1>2, <1>3, <1>4, <1>5 DEF VersionInv

(* Short of a race, the row is the newest and what a handler saw does not beat it. *)
LEMMA VersionStep == VersionInv /\ [Next]_vars => VersionInv'
<1> SUFFICES ASSUME VersionInv, [Next]_vars PROVE VersionInv'
  OBVIOUS
<1> USE IngestConstants
<1>0. KeepInv /\ KeepInv' /\ TypeInv /\ TypeOK
  BY KeepStep DEF VersionInv, KeepInv, TypeInv
<1>1. CASE Quiet
  <2>1. NewestUnlessRaced' BY <1>1 DEF VersionInv, NewestUnlessRaced, Quiet
  <2>2. SeenNotNewer' BY <1>1 DEF VersionInv, SeenNotNewer, Quiet
  <2>3. AppliedCommitted' BY <1>1 DEF VersionInv, AppliedCommitted, Quiet
  <2>4. AppliedOnce' BY <1>1 DEF VersionInv, AppliedOnce, Quiet
  <2> QED BY <1>0, <2>1, <2>2, <2>3, <2>4 DEF VersionInv
<1>2. ASSUME NEW r \in Request, SelectExisting(r) PROVE VersionInv'
  <2>1. /\ UNCHANGED <<row, committed, raced, applied, cur>>
        /\ seen' = [seen EXCEPT ![r] = row[cur[r].id]]
        /\ phase' = [phase EXCEPT ![r] = "decide"]
    BY <1>2 DEF SelectExisting, outcome, history
  <2>2. cur[r] \in Sent /\ cur[r].id \in Id
    BY <1>0, <1>2 DEF SelectExisting, TypeInv, HoldsRecord, SentRecord
  <2>3. SeenNotNewer'
    <3>1. row[cur[r].id] # NoRow => ~LwwWins(row[cur[r].id], row[cur[r].id])
      BY <1>0, <2>2, LwwIrreflexive DEF TypeOK
    <3> QED BY <1>0, <2>1, <3>1 DEF VersionInv, SeenNotNewer, TypeOK
  <2>4. NewestUnlessRaced' BY <2>1 DEF VersionInv, NewestUnlessRaced
  <2>5. AppliedCommitted' BY <2>1 DEF VersionInv, AppliedCommitted
  <2>6. AppliedOnce' BY <2>1 DEF VersionInv, AppliedOnce
  <2> QED BY <1>0, <2>3, <2>4, <2>5, <2>6 DEF VersionInv
<1>3. ASSUME NEW r \in Request, Insert(r) PROVE VersionInv'
  <2>1. cur[r] \in Sent /\ cur[r].id \in Id
    BY <1>0, <1>3 DEF Insert, TypeInv, HoldsRecord, SentRecord
  <2>2. /\ row' = [row EXCEPT ![cur[r].id] = cur[r]] /\ row[cur[r].id] = NoRow
        /\ raced' = raced
        /\ committed' = committed \cup {cur[r]}
        /\ applied' = [applied EXCEPT ![r] = @ \cup {cur[r]}]
        /\ phase'[r] = "process"
        /\ \A s \in Request \ {r} : /\ phase'[s] = phase[s] /\ cur'[s] = cur[s]
                                    /\ seen'[s] = seen[s]
    BY <1>0, <1>3 DEF Insert, CountOk, EndRecord, TypeOK
  <2> QED BY <1>0, <2>1, <2>2, AppliedStep
<1>4. ASSUME NEW r \in Request, ReplayEqual(r) \/ KeepStored(r) PROVE VersionInv'
  <2>0. /\ phase[r] \in {"decide", "write"} /\ seen[r] # NoRow
        /\ DecideLww(seen[r], cur[r]) # "incoming_wins"
    BY <1>0, <1>4 DEF ReplayEqual, KeepStored, Wins, TypeInv, HoldsRecord
  <2>1. /\ row' = row /\ raced' = raced /\ applied' = applied
        /\ committed' = committed \cup {cur[r]}
        /\ phase'[r] = "process"
        /\ \A s \in Request \ {r} : /\ phase'[s] = phase[s] /\ cur'[s] = cur[s]
                                    /\ seen'[s] = seen[s]
    BY <1>0, <1>4 DEF ReplayEqual, KeepStored, CountOk, EndRecord, TypeOK
  <2>2. /\ cur[r] \in Sent /\ cur[r].id \in Id /\ seen[r] \in Sent
        /\ row[cur[r].id] \in Sent
        /\ cur[r].id \notin raced => ~LwwWins(seen[r], row[cur[r].id])
    BY <2>0, SeenFacts
  <2>3. ~LwwWins(cur[r], seen[r]) BY <2>0, <2>2, DecideLwwCases
  <2>4. cur[r].id \notin raced =>
          row[cur[r].id] # NoRow /\ ~LwwWins(cur[r], row[cur[r].id])
    BY <2>2, <2>3, LwwTransitive
  <2> QED BY <1>0, <2>1, <2>2, <2>4, NotAppliedStep
<1>5. ASSUME NEW r \in Request, FindConflict(r) PROVE VersionInv'
  <2>1. /\ UNCHANGED <<row, committed, raced, applied, cur, seen>>
        /\ phase[r] = "decide"
        /\ \A s \in Request \ {r} : phase'[s] = phase[s]
    BY <1>0, <1>5 DEF FindConflict, outcome, history, TypeOK
  <2>2. NewestUnlessRaced' BY <2>1 DEF VersionInv, NewestUnlessRaced
  <2>3. SeenNotNewer' BY <2>1 DEF VersionInv, SeenNotNewer
  <2>4. AppliedCommitted' BY <2>1 DEF VersionInv, AppliedCommitted
  <2>5. AppliedOnce' BY <2>1 DEF VersionInv, AppliedOnce
  <2> QED BY <1>0, <2>2, <2>3, <2>4, <2>5 DEF VersionInv
<1>6. ASSUME NEW r \in Request, Overwrite(r) PROVE VersionInv'
  <2>0. phase[r] = "write" /\ seen[r] \in Sent /\ seen[r] # NoRow
    BY <1>0, <1>6 DEF Overwrite, TypeInv, HoldsRecord
  <2>1. /\ row' = [row EXCEPT ![cur[r].id] = cur[r]]
        /\ raced \subseteq raced'
        /\ row[cur[r].id] = seen[r] \/ cur[r].id \in raced'
        /\ committed' = committed \cup {cur[r]}
        /\ applied' = [applied EXCEPT ![r] = @ \cup {cur[r]}]
        /\ phase'[r] = "process"
        /\ \A s \in Request \ {r} : /\ phase'[s] = phase[s] /\ cur'[s] = cur[s]
                                    /\ seen'[s] = seen[s]
    BY <1>0, <1>6 DEF Overwrite, CountOk, EndRecord, TypeOK
  <2>2. /\ cur[r] \in Sent /\ cur[r].id \in Id /\ row[cur[r].id] \in Sent
    BY <2>0, SeenFacts
  <2>3. LwwWins(cur[r], seen[r])
    BY <1>6, <2>0, <2>2, DecideLwwCases DEF Overwrite, Wins
  <2> QED BY <1>0, <2>1, <2>2, <2>3, AppliedStep
<1> QED BY <1>0, <1>1, <1>2, <1>3, <1>4, <1>5, <1>6, StepCases

(* So it is in every state. *)
LEMMA VersionInvariance == Spec => []VersionInv
<1>1. Init => VersionInv
  BY IngestConstants
     DEF Init, VersionInv, KeepInv, TypeInv, TypeOK, HoldsRecord, Phases, LogStatus,
         RowsKeyed, SeenKept, DupesAudited, BothVersionsKept, NewestUnlessRaced,
         SeenNotNewer, AppliedCommitted, AppliedOnce
<1> QED
  BY <1>1, VersionStep, PTL DEF Spec

(* FR-023 for any number of handlers and versions: only a race between a SELECT
   and its UPDATE can leave a row behind a version that was committed. *)
THEOREM NewestVersionStored == Spec => []NewestUnlessRaced
<1>1. VersionInv => NewestUnlessRaced
  BY DEF VersionInv
<1> QED
  BY <1>1, VersionInvariance, PTL

(* FR-021 for any number of retries: a version that was applied is never
   applied by another request, short of the same race. *)
THEOREM RetriesAreIdempotent == Spec => []AppliedOnce
<1>1. VersionInv => AppliedOnce
  BY DEF VersionInv
<1> QED
  BY <1>1, VersionInvariance, PTL

-----------------------------------------------------------------------------
(* The loop over a batch: the order of its records, the rows they refer to,
   and what its log says. *)

InTransaction(r) == phase[r] \in {"select", "decide", "write"}

-----------------------------------------------------------------------------
(* Rows and committed versions never go, and a row that appears is the one of a
   handler inside its transaction. *)
LEMMA RowsStay ==
  ASSUME KeepInv, [Next]_vars
  PROVE  /\ committed \subseteq committed'
         /\ \A i \in Id : row[i] # NoRow => row'[i] # NoRow
         /\ \A i \in Id : row[i] = NoRow /\ row'[i] # NoRow =>
              \E r \in Request : InTransaction(r) /\ cur[r].id = i
<1> USE IngestConstants
<1>0. TypeInv BY DEF KeepInv
<1>1. CASE Quiet
  BY <1>1 DEF Quiet
<1>2. ASSUME NEW r \in Request, SelectExisting(r) \/ FindConflict(r)
      PROVE  row' = row /\ committed' = committed
  BY <1>2 DEF SelectExisting, FindConflict, history
<1>3. ASSUME NEW r \in Request, ReplayEqual(r) \/ KeepStored(r)
      PROVE  row' = row /\ committed \subseteq committed'
  BY <1>3 DEF ReplayEqual, KeepStored, CountOk
<1>4. ASSUME NEW r \in Request, Insert(r) \/ Overwrite(r)
      PROVE  /\ committed \subseteq committed'
             /\ InTransaction(r)
             /\ \A i \in Id : \/ row'[i] = row[i]
                              \/ i = cur[r].id /\ row'[i] # NoRow
  <2>1. InTransaction(r) /\ cur[r] \in Sent
    BY <1>0, <1>4 DEF Insert, Overwrite, InTransaction, TypeInv, HoldsRecord
  <2>2. row' = [row EXCEPT ![cur[r].id] = cur[r]] /\ committed \subseteq committed'
    BY <1>4 DEF Insert, Overwrite, CountOk
  <2> QED BY <1>0, <2>1, <2>2 DEF TypeInv, TypeOK
<1> QED BY <1>0, <1>1, <1>2, <1>3, <1>4, StepCases

-----------------------------------------------------------------------------
(* What a step does to the books of one request. *)
SameBooks(r) ==
  /\ body'[r] = body[r]
  /\ todo'[r] = todo[r]
  /\ ok'[r] = ok[r]
  /\ failed'[r] = failed[r]
  /\ orphaned'[r] = orphaned[r]

Untouched(r) ==
  /\ SameBooks(r)
  /\ syncLog'[r] = syncLog[r]
  /\ \/ phase'[r] = phase[r] /\ (InTransaction(r) => cur'[r] = cur[r])
     \/ InTransaction(r) /\ phase'[r] \in {"decide", "write"} /\ cur'[r] = cur[r]
     \/ phase[r] = "idle" /\ phase'[r] = "rejected"
     \/ phase[r] \in Open /\ phase'[r] = "dead"

Admitted(r) ==
  /\ phase[r] = "idle"
  /\ phase'[r] = "process"
  /\ todo'[r] = body'[r]
  /\ ok'[r] = ok[r]
  /\ failed'[r] = failed[r]
  /\ orphaned'[r] = orphaned[r]
  /\ syncLog'[r] \in {syncLog[r], "pending"}

Taken(r, rec) ==
  /\ NextInLoop(r, rec)
  /\ todo'[r] = todo[r] \ {rec}
  /\ body'[r] = body[r]
  /\ ok'[r] = ok[r]
  /\ syncLog'[r] = syncLog[r]
  /\ \/ /\ RefsStored(rec)
        /\ phase'[r] = "select"
        /\ cur'[r] = rec
        /\ failed'[r] = failed[r]
        /\ orphaned'[r] = orphaned[r]
     \/ /\ ~RefsStored(rec)
        /\ phase'[r] = "process"
        /\ failed'[r] = failed[r] \cup {rec}
        /\ orphaned'[r] = orphaned[r] \cup {rec}

Counted(r) ==
  /\ InTransaction(r)
  /\ phase'[r] = "process"
  /\ body'[r] = body[r]
  /\ todo'[r] = todo[r]
  /\ orphaned'[r] = orphaned[r]
  /\ syncLog'[r] = syncLog[r]
  /\ \/ /\ ok'[r] = ok[r] \cup {cur[r]}
        /\ failed'[r] = failed[r]
        /\ cur[r] \in committed'
        /\ row'[cur[r].id] # NoRow
     \/ /\ ok'[r] = ok[r]
        /\ failed'[r] = failed[r] \cup {cur[r]}

Closed(r) ==
  /\ phase[r] = "process"
  /\ todo[r] = {}
  /\ phase'[r] = "done"
  /\ SameBooks(r)
  /\ syncLog'[r] \in {syncLog[r], BatchStatus(r)}

(* What any step does to one request: nothing, admit it, take a record, count it, close. *)
LEMMA BookCases ==
  ASSUME KeepInv, [Next]_vars, NEW r \in Request
  PROVE  \/ Untouched(r)
         \/ Admitted(r)
         \/ \E rec \in todo[r] : Taken(r, rec)
         \/ Counted(r)
         \/ Closed(r)
<1> USE IngestConstants DEF logs, locals, outcome, history
<1>0. TypeInv /\ TypeOK BY DEF KeepInv, TypeInv
<1>1. ASSUME Crash PROVE Untouched(r)
  BY <1>0, <1>1 DEF Crash, Open, Untouched, SameBooks, InTransaction
<1>2. ASSUME NEW s \in Request, NEW b \in Bodies,
             RejectForeign(s, b) \/ RejectMalformed(s, b)
      PROVE Untouched(r)
  BY <1>0, <1>2 DEF RejectForeign, RejectMalformed, Untouched, SameBooks,
                    InTransaction, TypeOK
<1>3. ASSUME NEW s \in Request, NEW b \in Bodies, Accept(s, b)
      PROVE Untouched(r) \/ Admitted(r)
  <2>1. CASE s = r
    BY <1>0, <1>3, <2>1 DEF Accept, Admitted, TypeOK
  <2>2. CASE s # r
    BY <1>0, <1>3, <2>2 DEF Accept, Untouched, SameBooks, InTransaction, TypeOK
  <2> QED BY <2>1, <2>2
<1>4. ASSUME NEW s \in Request, NEW rec \in todo[s],
             BeginRecord(s, rec) \/ RefuseOrphan(s, rec)
      PROVE Untouched(r) \/ \E other \in todo[r] : Taken(r, other)
  <2>1. CASE s = r
    <3>1. ASSUME BeginRecord(r, rec) PROVE Taken(r, rec)
      BY <1>0, <3>1 DEF BeginRecord, Taken, TypeOK
    <3>2. ASSUME RefuseOrphan(r, rec) PROVE Taken(r, rec)
      BY <1>0, <3>2 DEF RefuseOrphan, CountFailed, EndRecord, Taken, TypeOK
    <3> QED BY <1>4, <2>1, <3>1, <3>2
  <2>2. CASE s # r
    BY <1>0, <1>4, <2>2 DEF BeginRecord, RefuseOrphan, CountFailed, EndRecord,
                            Untouched, SameBooks, InTransaction, TypeOK
  <2> QED BY <2>1, <2>2
<1>5. ASSUME NEW s \in Request, SelectExisting(s) \/ FindConflict(s)
      PROVE Untouched(r)
  BY <1>0, <1>5 DEF SelectExisting, FindConflict, Untouched, SameBooks,
                    InTransaction, TypeOK
<1>6. ASSUME NEW s \in Request, InsertDuplicateKey(s) \/ TransactionFails(s)
      PROVE Untouched(r) \/ Counted(r)
  <2>1. /\ InTransaction(s) /\ CountFailed(s, cur[s])
        /\ UNCHANGED <<syncLog, body, todo, ok, orphaned>>
    BY <1>6 DEF InsertDuplicateKey, TransactionFails, InTransaction
  <2>2. CASE s = r
    BY <1>0, <2>1, <2>2 DEF CountFailed, EndRecord, Counted, TypeOK
  <2>3. CASE s # r
    BY <1>0, <2>1, <2>3 DEF CountFailed, EndRecord, Untouched, SameBooks,
                            InTransaction, TypeOK
  <2> QED BY <2>2, <2>3
<1>7. ASSUME NEW s \in Request,
             Insert(s) \/ ReplayEqual(s) \/ KeepStored(s) \/ Overwrite(s)
      PROVE Untouched(r) \/ Counted(r)
  <2>1. /\ InTransaction(s)
        /\ CountOk(s, cur[s], TRUE) \/ CountOk(s, cur[s], FALSE)
        /\ UNCHANGED <<syncLog, body, todo, failed, orphaned>>
    BY <1>7 DEF Insert, ReplayEqual, KeepStored, Overwrite, InTransaction
  <2>2. cur[s] \in Sent /\ cur[s].id \in Id
    BY <1>0, <2>1 DEF InTransaction, TypeInv, HoldsRecord, SentRecord
  <2>3. row'[cur[s].id] # NoRow
    <3>1. CASE Insert(s) \/ Overwrite(s)
      <4>1. row' = [row EXCEPT ![cur[s].id] = cur[s]]
        BY <3>1 DEF Insert, Overwrite
      <4> QED BY <1>0, <2>2, <4>1 DEF TypeOK
    <3>2. CASE ReplayEqual(s) \/ KeepStored(s)
      <4>1. row' = row /\ phase[s] \in {"decide", "write"} /\ seen[s] # NoRow
        BY <1>0, <3>2 DEF ReplayEqual, KeepStored, TypeInv, HoldsRecord
      <4> QED BY <4>1 DEF KeepInv, SeenKept
    <3> QED BY <1>7, <3>1, <3>2
  <2>4. CASE s = r
    BY <1>0, <2>1, <2>3, <2>4 DEF CountOk, EndRecord, Counted, TypeOK
  <2>5. CASE s # r
    BY <1>0, <2>1, <2>5 DEF CountOk, EndRecord, Untouched, SameBooks,
                            InTransaction, TypeOK
  <2> QED BY <2>4, <2>5
<1>8. ASSUME NEW s \in Request, Finish(s) PROVE Untouched(r) \/ Closed(r)
  <2>1. CASE s = r
    BY <1>0, <1>8, <2>1 DEF Finish, Closed, SameBooks, TypeOK
  <2>2. CASE s # r
    BY <1>0, <1>8, <2>2 DEF Finish, Untouched, SameBooks, InTransaction, TypeOK
  <2> QED BY <2>1, <2>2
<1>9. ASSUME UNCHANGED vars PROVE Untouched(r)
  BY <1>9 DEF vars, Untouched, SameBooks, InTransaction
<1> QED
  BY NextCases, <1>1, <1>2, <1>3, <1>4, <1>5, <1>6, <1>7, <1>8, <1>9
-----------------------------------------------------------------------------
(* References.  What a record refers to was stored when its transaction began,
   rows never go, and only open transactions add rows. *)
OpenRefsStored ==
  \A r \in Request : InTransaction(r) => RefsStored(cur[r])

RefsInv == KeepInv /\ OpenRefsStored /\ ReferencesHold

(* References of rows, and of records about to be stored, are to rows. *)
LEMMA RefsStep == RefsInv /\ [Next]_vars => RefsInv'
<1> SUFFICES ASSUME RefsInv, [Next]_vars PROVE RefsInv'
  OBVIOUS
<1> USE IngestConstants
<1>0. KeepInv /\ KeepInv' BY KeepStep DEF RefsInv
<1>1. \A i \in Id : row[i] # NoRow => row'[i] # NoRow
  BY <1>0, RowsStay
<1>2. ASSUME NEW i \in Id, \A p \in Refs[i] : row[p] # NoRow
      PROVE  \A p \in Refs[i] : row'[p] # NoRow
  BY <1>1, <1>2
<1>3. OpenRefsStored'
  <2> SUFFICES ASSUME NEW r \in Request, InTransaction(r)'
               PROVE  \A p \in Refs[cur'[r].id] : row'[p] # NoRow
    BY DEF OpenRefsStored, RefsStored
  <2>1. cur'[r] \in Sent /\ cur'[r].id \in Id
    BY <1>0 DEF KeepInv, TypeInv, HoldsRecord, InTransaction, SentRecord
  <2>2. \A p \in Refs[cur'[r].id] : row[p] # NoRow
    <3>1. CASE Untouched(r)
      BY <3>1 DEF Untouched, InTransaction, RefsInv, OpenRefsStored, RefsStored
    <3>2. CASE \E rec \in todo[r] : Taken(r, rec)
      BY <3>2 DEF Taken, InTransaction, RefsStored
    <3>3. CASE Admitted(r) \/ Counted(r) \/ Closed(r)
      BY <3>3 DEF Admitted, Counted, Closed, InTransaction
    <3> QED BY <1>0, <3>1, <3>2, <3>3, BookCases
  <2> QED BY <1>2, <2>1, <2>2
<1>4. ReferencesHold'
  <2> SUFFICES ASSUME NEW i \in Id, row'[i] # NoRow
               PROVE  \A p \in Refs[i] : row'[p] # NoRow
    BY DEF ReferencesHold
  <2>1. CASE row[i] # NoRow
    BY <1>2, <2>1 DEF RefsInv, ReferencesHold
  <2>2. CASE row[i] = NoRow
    <3>1. PICK r \in Request : InTransaction(r) /\ cur[r].id = i
      BY <1>0, <2>2, RowsStay
    <3> QED BY <1>2, <3>1 DEF RefsInv, OpenRefsStored, RefsStored
  <2> QED BY <2>1, <2>2
<1> QED BY <1>0, <1>3, <1>4 DEF RefsInv

(* Whatever batches bring the entities and however they fail, no stored entity
   refers to one that is not stored. *)
THEOREM ReferencesAreKept == Spec => []ReferencesHold
<1>1. Init => RefsInv
  BY IngestConstants
     DEF Init, RefsInv, KeepInv, TypeInv, TypeOK, HoldsRecord, Phases, LogStatus,
         RowsKeyed, SeenKept, DupesAudited, BothVersionsKept, OpenRefsStored,
         InTransaction, ReferencesHold
<1>2. RefsInv => ReferencesHold
  BY DEF RefsInv
<1> QED
  BY <1>1, <1>2, RefsStep, PTL DEF Spec
-----------------------------------------------------------------------------
(* The books of a request: a record of the body is in one place at a time, and
   in some place until the process dies.  A log is closed once, at the end. *)
Fresh(r) ==
  phase[r] = "idle" =>
    body[r] = {} /\ todo[r] = {} /\ ok[r] = {} /\ failed[r] = {} /\ orphaned[r] = {}

OnePlace(r) ==
  /\ todo[r] \cup ok[r] \cup failed[r] \subseteq body[r]
  /\ todo[r] \cap (ok[r] \cup failed[r]) = {}
  /\ ok[r] \cap failed[r] = {}
  /\ InTransaction(r) =>
       cur[r] \in body[r] \ (todo[r] \cup ok[r] \cup failed[r])

SomePlace(r) ==
  phase[r] # "dead" =>
    \A rec \in body[r] :
      rec \in todo[r] \cup ok[r] \cup failed[r] \/ (InTransaction(r) /\ rec = cur[r])

OkStored(r) ==
  \A rec \in ok[r] : rec \in committed /\ row[rec.id] # NoRow

LogOf(r) ==
  /\ syncLog[r] \notin {"none", "pending"} => phase[r] = "done"
  /\ syncLog[r] = "ok" => body[r] \subseteq committed
  /\ syncLog[r] = "partial" => \E rec \in body[r] : rec \in committed
  /\ syncLog[r] = "failed" => \E rec \in body[r] : rec \notin ok[r]

Books(r) == Fresh(r) /\ OnePlace(r) /\ SomePlace(r) /\ OkStored(r) /\ LogOf(r)

BooksInv == KeepInv /\ \A r \in Request : Books(r)

(* A record of a batch is in one place at a time, and the log is closed once. *)
LEMMA BooksStep == BooksInv /\ [Next]_vars => BooksInv'
<1> SUFFICES ASSUME BooksInv, [Next]_vars, NEW r \in Request
             PROVE  KeepInv' /\ Books(r)'
  BY KeepStep DEF BooksInv
<1>0. /\ KeepInv /\ KeepInv' /\ TypeOK
      /\ Fresh(r) /\ OnePlace(r) /\ SomePlace(r) /\ OkStored(r) /\ LogOf(r)
  BY KeepStep DEF BooksInv, Books, KeepInv, TypeInv
<1>1. /\ committed \subseteq committed'
      /\ \A i \in Id : row[i] # NoRow => row'[i] # NoRow
  BY <1>0, RowsStay
<1>2. \A rec \in ok[r] : rec.id \in Id
  BY <1>0, IngestConstants DEF TypeOK, SentRecord
<1>3. CASE Untouched(r)
  <2> USE DEF Untouched, SameBooks, InTransaction, Open
  <2>1. Fresh(r)' BY <1>0, <1>3 DEF Fresh
  <2>2. OnePlace(r)' BY <1>0, <1>3 DEF OnePlace
  <2>3. SomePlace(r)'
    <3>1. CASE phase[r] = "idle" /\ phase'[r] = "rejected"
      BY <1>0, <1>3, <3>1 DEF SomePlace, Fresh
    <3> QED BY <1>0, <1>3, <3>1 DEF SomePlace
  <2>4. OkStored(r)' BY <1>0, <1>1, <1>2, <1>3 DEF OkStored
  <2>5. LogOf(r)' BY <1>0, <1>1, <1>3 DEF LogOf
  <2> QED BY <1>0, <2>1, <2>2, <2>3, <2>4, <2>5 DEF Books
<1>4. CASE Admitted(r)
  <2> USE DEF Admitted, InTransaction
  <2>1. Fresh(r)' BY <1>4 DEF Fresh
  <2>2. OnePlace(r)' BY <1>0, <1>4 DEF OnePlace, Fresh
  <2>3. SomePlace(r)' BY <1>4 DEF SomePlace
  <2>4. OkStored(r)' BY <1>0, <1>4 DEF OkStored, Fresh
  <2>5. LogOf(r)' BY <1>0, <1>4 DEF LogOf
  <2> QED BY <1>0, <2>1, <2>2, <2>3, <2>4, <2>5 DEF Books
<1>5. ASSUME NEW rec \in todo[r], Taken(r, rec) PROVE Books(r)'
  <2> USE DEF Taken, InTransaction, NextInLoop
  <2>1. Fresh(r)' BY <1>5 DEF Fresh
  <2>2. OnePlace(r)' BY <1>0, <1>5 DEF OnePlace
  <2>3. SomePlace(r)' BY <1>0, <1>5 DEF SomePlace
  <2>4. OkStored(r)' BY <1>0, <1>1, <1>2, <1>5 DEF OkStored
  <2>5. LogOf(r)' BY <1>0, <1>5 DEF LogOf
  <2> QED BY <2>1, <2>2, <2>3, <2>4, <2>5 DEF Books
<1>6. CASE Counted(r)
  <2> USE DEF Counted, InTransaction
  <2>1. Fresh(r)' BY <1>6 DEF Fresh
  <2>2. OnePlace(r)' BY <1>0, <1>6 DEF OnePlace
  <2>3. SomePlace(r)' BY <1>0, <1>6 DEF SomePlace
  <2>4. OkStored(r)' BY <1>0, <1>1, <1>2, <1>6 DEF OkStored
  <2>5. LogOf(r)' BY <1>0, <1>6 DEF LogOf
  <2> QED BY <1>0, <2>1, <2>2, <2>3, <2>4, <2>5 DEF Books
<1>7. CASE Closed(r)
  <2> USE DEF Closed, SameBooks, InTransaction
  <2>1. Fresh(r)' BY <1>7 DEF Fresh
  <2>2. OnePlace(r)' BY <1>0, <1>7 DEF OnePlace
  <2>3. SomePlace(r)' BY <1>0, <1>7 DEF SomePlace
  <2>4. OkStored(r)' BY <1>0, <1>1, <1>2, <1>7 DEF OkStored
  <2>5. LogOf(r)'
    <3>1. \A rec \in body[r] : rec \in ok[r] \cup failed[r]
      BY <1>0, <1>7 DEF SomePlace
    <3>2. ok[r] \subseteq committed' /\ ok[r] \subseteq body[r] /\ failed[r] \subseteq body[r]
          /\ ok[r] \cap failed[r] = {}
      BY <1>0, <1>1 DEF OkStored, OnePlace
    <3>3. CASE failed[r] = {}
      BY <1>0, <1>7, <3>1, <3>2, <3>3 DEF LogOf, BatchStatus
    <3>4. CASE failed[r] # {} /\ ok[r] # {}
      BY <1>0, <1>7, <3>1, <3>2, <3>4 DEF LogOf, BatchStatus
    <3>5. CASE failed[r] # {} /\ ok[r] = {}
      BY <1>0, <1>7, <3>1, <3>2, <3>5 DEF LogOf, BatchStatus
    <3> QED BY <3>3, <3>4, <3>5
  <2> QED BY <1>0, <2>1, <2>2, <2>3, <2>4, <2>5 DEF Books
<1> QED BY <1>0, <1>3, <1>4, <1>5, <1>6, <1>7, BookCases

(* So it is in every state. *)
LEMMA BooksInvariance == Spec => []BooksInv
<1>1. Init => BooksInv
  BY IngestConstants
     DEF Init, BooksInv, KeepInv, TypeInv, TypeOK, HoldsRecord, Phases, LogStatus,
         RowsKeyed, SeenKept, DupesAudited, BothVersionsKept, Books, Fresh, OnePlace,
         SomePlace, OkStored, LogOf, InTransaction
<1> QED
  BY <1>1, BooksStep, PTL DEF Spec

(* The status a supervisor reads in sync_log agrees with what was committed,
   for any batch, however its records failed and wherever the process died. *)
THEOREM LogsAreTruthful == Spec => []LogTellsTheTruth
<1>1. BooksInv => LogTellsTheTruth
  BY DEF BooksInv, Books, LogOf, LogTellsTheTruth
<1> QED
  BY <1>1, BooksInvariance, PTL
-----------------------------------------------------------------------------
(* The order of the loop.  When a record is refused, an entity it refers to has
   no row; its type comes earlier, so the loop is past all records of it, and
   none of those is among the batch's ok, or the row would be there. *)
LEMMA EarlierType ==
  ASSUME NEW i \in Id, NEW p \in Refs[i]
  PROVE  /\ p \in Id
         /\ ~(BatchOrder(TypeOf[i]) <= BatchOrder(TypeOf[p]))
<1>1. p \in Id /\ TypeOf[i] \in EntityType /\ TypeOf[p] \in EntityType
  BY IngestConstants
<1>2. TypeOf[p] \in RefTypes(TypeOf[i])
  BY RefsHaveTypes
<1> QED BY <1>1, <1>2 DEF RefTypes, BatchOrder, EntityType

OutOfReach(r, p) ==
  /\ \A other \in ok[r] \cup todo[r] : other.id # p
  /\ InTransaction(r) => cur[r].id # p

OrphansMissed ==
  \A r \in Request : \A rec \in orphaned[r] :
    \E p \in Refs[rec.id] : OutOfReach(r, p)

OrderInv == BooksInv /\ OrphansMissed

(* Whoever was refused refers to an entity that its batch cannot store any more. *)
LEMMA OrderStep == OrderInv /\ [Next]_vars => OrderInv'
<1> SUFFICES ASSUME OrderInv, [Next]_vars, NEW r \in Request,
                    NEW rec \in orphaned'[r]
             PROVE  \E p \in Refs[rec.id] : OutOfReach(r, p)'
  BY BooksStep DEF OrderInv, OrphansMissed
<1>0. /\ KeepInv /\ TypeOK /\ Fresh(r) /\ OkStored(r)
      /\ \A old \in orphaned[r] : \E p \in Refs[old.id] : OutOfReach(r, p)
  BY DEF OrderInv, OrphansMissed, BooksInv, Books, KeepInv, TypeInv
<1>1. CASE Untouched(r)
  BY <1>0, <1>1 DEF Untouched, SameBooks, OutOfReach, InTransaction, Open
<1>2. CASE Admitted(r)
  BY <1>0, <1>2 DEF Admitted, Fresh
<1>3. ASSUME NEW next \in todo[r], Taken(r, next)
      PROVE  \E p \in Refs[rec.id] : OutOfReach(r, p)'
  <2>1. CASE rec \in orphaned[r]
    <3>1. PICK p \in Refs[rec.id] : OutOfReach(r, p)
      BY <1>0, <2>1
    <3>2. OutOfReach(r, p)'
      BY <1>3, <3>1 DEF Taken, OutOfReach, InTransaction
    <3> QED BY <3>1, <3>2
  <2>2. CASE rec \notin orphaned[r]
    <3>1. rec = next /\ ~RefsStored(rec) /\ phase'[r] = "process"
      BY <1>3, <2>2 DEF Taken
    <3>2. rec.id \in Id
      BY <1>0, <3>1, IngestConstants DEF TypeOK, SentRecord
    <3>3. PICK p \in Refs[rec.id] : row[p] = NoRow
      BY <3>1 DEF RefsStored
    <3>4. \A other \in todo[r] : other.id # p
      <4> SUFFICES ASSUME NEW other \in todo[r], other.id = p PROVE FALSE
        OBVIOUS
      <4>1. BatchOrder(TypeOf[rec.id]) <= BatchOrder(TypeOf[p])
        BY <1>3, <3>1 DEF Taken, NextInLoop
      <4> QED BY <3>2, <4>1, EarlierType
    <3>5. \A other \in ok[r] : other.id # p
      BY <1>0, <3>3 DEF OkStored
    <3>6. OutOfReach(r, p)'
      BY <1>3, <3>1, <3>4, <3>5 DEF Taken, OutOfReach, InTransaction
    <3> QED BY <3>6
  <2> QED BY <2>1, <2>2
<1>4. CASE Counted(r)
  <2>1. PICK p \in Refs[rec.id] : OutOfReach(r, p)
    BY <1>0, <1>4 DEF Counted
  <2>2. OutOfReach(r, p)'
    BY <1>4, <2>1 DEF Counted, OutOfReach, InTransaction
  <2> QED BY <2>1, <2>2
<1>5. CASE Closed(r)
  BY <1>0, <1>5 DEF Closed, SameBooks, OutOfReach, InTransaction
<1> QED BY <1>0, <1>1, <1>2, <1>3, <1>4, <1>5, BookCases

(* FR-020 for any batch in any order: a record refused for a missing reference
   refers to an entity the batch itself did not get stored. *)
THEOREM ParentsAreFirst == Spec => []ParentsComeFirst
<1>1. Init => OrderInv
  BY IngestConstants
     DEF Init, OrderInv, BooksInv, KeepInv, TypeInv, TypeOK, HoldsRecord, Phases,
         LogStatus, RowsKeyed, SeenKept, DupesAudited, BothVersionsKept, Books, Fresh,
         OnePlace, SomePlace, OkStored, LogOf, InTransaction, OrphansMissed
<1>2. OrderInv => ParentsComeFirst
  BY DEF OrderInv, OrphansMissed, OutOfReach, ParentsComeFirst
<1> QED
  BY <1>1, <1>2, OrderStep, PTL DEF Spec
=============================================================================
