------------------------------ MODULE PhotoFiles ------------------------------
(***************************************************************************)
(* The photos on the sync volume (SyncService.applyRecord, case            *)
(* attachment).  The row is in the database and the bytes are in a file    *)
(* whose name is the id of the photo and the extension of its type.  The   *)
(* transaction writes the file before the row, and removes the file of the *)
(* version that it replaced before it commits; nothing on the volume is    *)
(* rolled back.                                                            *)
(*                                                                         *)
(* A version of a photo stands for what the device sent; Mime gives its    *)
(* type.  Two uploads are in progress at a time: other batches, or a retry *)
(* beside the request that the device gave up on.                          *)
(***************************************************************************)
EXTENDS Naturals

CONSTANTS Photo, Mime, Upload, Nothing,
          MaxUploads   \* bound of the instance: uploads that ever begin

Version == DOMAIN Mime

ASSUME PhotoAssumption == Version \subseteq Nat \ {0} /\ Nothing \notin Photo
                             /\ MaxUploads \in Nat

VARIABLES
  photo,     \* table attachment: the version of each photo, 0 without row
  volume,    \* the version of the bytes in each file, 0 without file
  upload,    \* the transactions in progress
  uploads,   \* uploads begun so far
  disputed   \* history: photos whose file was written or removed by two hands

photoVars == <<photo, volume, upload, uploads, disputed>>

File(p, v) == <<p, Mime[v]>>
Files == {File(p, v) : p \in Photo, v \in Version}

NoUpload == [pc |-> "idle", photo |-> Nothing, version |-> 0, old |-> 0]

PhotoInit ==
  /\ photo = [p \in Photo |-> 0]
  /\ volume = [f \in Files |-> 0]
  /\ upload = [x \in Upload |-> NoUpload]
  /\ uploads = 0
  /\ disputed = {}

----------------------------------------------------------------------------
FileOf(x) == File(upload[x].photo, upload[x].version)

\* The row has been written by a transaction that has not committed.
RowLocked(p) ==
  \E y \in Upload : upload[y].photo = p /\ upload[y].pc \in {"clean", "commit"}

InProgress(p) == \E y \in Upload : upload[y].photo = p

Goto(x, pc) == upload' = [upload EXCEPT ![x].pc = pc]
End(x) == upload' = [upload EXCEPT ![x] = NoUpload]

\* selectExisting and decideLww: only a newer version goes on.
SelectPhoto(x, p, v) ==
  /\ upload[x] = NoUpload
  /\ uploads < MaxUploads /\ uploads' = uploads + 1
  /\ v > photo[p]
  /\ upload' = [upload EXCEPT ![x] = [pc |-> "file", photo |-> p, version |-> v,
                                      old |-> photo[p]]]
  /\ disputed' = IF InProgress(p) THEN disputed \cup {p} ELSE disputed
  /\ UNCHANGED <<photo, volume>>

\* The name may be that of the file that the row has.
WriteFile(x) ==
  LET p == upload[x].photo IN
  /\ upload[x].pc = "file"
  /\ volume' = [volume EXCEPT ![FileOf(x)] = upload[x].version]
  /\ disputed' = IF photo[p] # 0 /\ File(p, photo[p]) = FileOf(x) THEN disputed \cup {p}
                 ELSE disputed
  /\ Goto(x, "row")
  /\ UNCHANGED <<photo, uploads>>

\* INSERT of a photo that had no row.  Another transaction may have committed
\* one meanwhile: 23505, and the file is removed.
InsertRow(x) ==
  LET p == upload[x].photo IN
  /\ upload[x].pc = "row" /\ upload[x].old = 0
  /\ ~RowLocked(p)
  /\ Goto(x, IF photo[p] = 0 THEN "commit" ELSE "undo")
  /\ UNCHANGED <<photo, volume, uploads, disputed>>

\* UPDATE ... WHERE id, whatever version the row has by now.
UpdateRow(x) ==
  /\ upload[x].pc = "row" /\ upload[x].old # 0
  /\ ~RowLocked(upload[x].photo)
  /\ Goto(x, "clean")
  /\ UNCHANGED <<photo, volume, uploads, disputed>>

\* The statement fails: deadlock, timeout, a lost connection.
RowFails(x) ==
  /\ upload[x].pc = "row"
  /\ Goto(x, "undo")
  /\ UNCHANGED <<photo, volume, uploads, disputed>>

\* Mutant: the failure removes the file of the version that stays.
MutRemoveNew(x) ==
  LET p == upload[x].photo IN
  /\ upload[x].pc = "undo"
  /\ volume' = [volume EXCEPT ![FileOf(x)] = 0,
                              ![File(p, IF upload[x].old = 0 THEN upload[x].version
                                        ELSE upload[x].old)] = 0]
  /\ End(x)
  /\ UNCHANGED <<photo, uploads, disputed>>

\* The catch of the statement: the file just written goes and the error rolls
\* the transaction back.
RemoveNew(x) ==
  /\ upload[x].pc = "undo"
  /\ volume' = [volume EXCEPT ![FileOf(x)] = 0]
  /\ End(x)
  /\ UNCHANGED <<photo, uploads, disputed>>

\* The file of the row that was read goes, its name being the same or not.
RemoveOld(x) ==
  LET p == upload[x].photo IN
  /\ upload[x].pc = "clean"
  /\ volume' = [volume EXCEPT ![File(p, upload[x].old)] = 0]
  /\ Goto(x, "commit")
  /\ UNCHANGED <<photo, uploads, disputed>>

CommitPhoto(x) ==
  /\ upload[x].pc = "commit"
  /\ photo' = [photo EXCEPT ![upload[x].photo] = upload[x].version]
  /\ End(x)
  /\ UNCHANGED <<volume, uploads, disputed>>

\* The COMMIT fails, or the process dies: nothing is done about the volume.
AbortPhoto(x) ==
  /\ upload[x].pc # "idle"
  /\ disputed' = IF upload[x].pc = "commit" /\ upload[x].old # 0
                 THEN disputed \cup {upload[x].photo} ELSE disputed
  /\ End(x)
  /\ UNCHANGED <<photo, volume, uploads>>

PhotoStep(x) ==
  \/ \E p \in Photo, v \in Version : SelectPhoto(x, p, v)
  \/ WriteFile(x) \/ InsertRow(x) \/ UpdateRow(x) \/ RowFails(x)
  \/ RemoveNew(x) \/ RemoveOld(x) \/ CommitPhoto(x) \/ AbortPhoto(x)

PhotoNext == \E x \in Upload : PhotoStep(x)

PhotoSpec == PhotoInit /\ [][PhotoNext]_photoVars

----------------------------------------------------------------------------
\* A photo in the database has its bytes on the volume, whatever statement
\* failed and wherever the process died, unless its file changed hands: two
\* uploads of it at once, a replacement of the same type, or one that has
\* removed it and not committed.
PhotoHasItsFile ==
  \A p \in Photo :
    photo[p] # 0 => \/ volume[File(p, photo[p])] = photo[p]
                   \/ p \in disputed
                   \/ \E x \in Upload : upload[x].photo = p /\ upload[x].pc = "commit"
=============================================================================
