--------------------------- MODULE ReportsProofs ---------------------------
(* Proofs about the photos on the volume and about what is read of them: a
   photo in the database keeps its bytes; a report that nothing overlapped is
   of one moment; a lot accounts for every inspection of its choice.  For any
   photos, versions, types, uploads at a time, inspections, findings and
   conflicts. *)
EXTENDS Reports, SequenceTheorems, FiniteSetTheorems, TLAPS

PhotoSteps == {"idle", "file", "row", "undo", "clean", "commit"}

UploadRecord == [pc : PhotoSteps, photo : Photo \cup {Nothing},
                 version : {0} \cup Version, old : {0} \cup Version]

PhotoTypeInv ==
  /\ photo \in [Photo -> {0} \cup Version]
  /\ volume \in [Files -> {0} \cup Version]
  /\ upload \in [Upload -> UploadRecord]
  /\ uploads \in Nat
  /\ disputed \subseteq Photo

(* An upload in progress has a photo and a version; the others are all alike. *)
UploadsAreWhole ==
  \A x \in Upload :
    IF upload[x].pc = "idle" THEN upload[x] = NoUpload
    ELSE upload[x].photo \in Photo /\ upload[x].version \in Version

(* Nobody has disputed the photo of this upload. *)
Undisputed(x) == upload[x].pc # "idle" /\ upload[x].photo \notin disputed

(* It is then the only upload of its photo, *)
Alone ==
  \A x, y \in Upload : Undisputed(x) /\ upload[y].photo = upload[x].photo => x = y

(* the row is still the one it read, and once it has written its file that is
   not the file of the row, and holds its version. *)
FileWritten(x) == upload[x].pc \in {"row", "undo", "clean", "commit"}

Apart(x) ==
  LET p == upload[x].photo IN
  /\ upload[x].old = photo[p]
  /\ upload[x].pc = "clean" => photo[p] # 0
  /\ FileWritten(x) /\ photo[p] # 0 => File(p, photo[p]) # FileOf(x)
  /\ FileWritten(x) /\ upload[x].pc # "undo" => volume[FileOf(x)] = upload[x].version

OldAndNewApart == \A x \in Upload : Undisputed(x) => Apart(x)

PhotoInv ==
  /\ PhotoTypeInv /\ UploadsAreWhole /\ Alone /\ OldAndNewApart
  /\ PhotoHasItsFile

(* The file of a photo is one of the files. *)
LEMMA FilesAreNamed ==
  ASSUME NEW p \in Photo, NEW v \in Version
  PROVE  File(p, v) \in Files
BY DEF Files

(* Two photos never share a file. *)
LEMMA FilesOfPhotos ==
  ASSUME NEW p, NEW q, NEW v, NEW w, File(p, v) = File(q, w)
  PROVE  p = q
BY DEF File

(* Before any upload there is no row and no file. *)
LEMMA PhotoInit0 == PhotoInit => PhotoInv
<1> SUFFICES ASSUME PhotoInit PROVE PhotoInv
  OBVIOUS
<1>1. PhotoTypeInv
  BY DEF PhotoInit, PhotoTypeInv, UploadRecord, PhotoSteps, NoUpload
<1>2. UploadsAreWhole /\ Alone /\ OldAndNewApart
  BY DEF PhotoInit, UploadsAreWhole, Alone, OldAndNewApart, Undisputed, NoUpload
<1>3. PhotoHasItsFile
  BY DEF PhotoInit, PhotoHasItsFile
<1> QED BY <1>1, <1>2, <1>3 DEF PhotoInv
-----------------------------------------------------------------------------
(* Types and shapes, whatever the step. *)
LEMMA PhotoTypeStep ==
  ASSUME PhotoTypeInv, UploadsAreWhole, [PhotoNext]_photoVars
  PROVE  PhotoTypeInv' /\ UploadsAreWhole'
<1>1. CASE UNCHANGED photoVars
  BY <1>1 DEF photoVars, PhotoTypeInv, UploadsAreWhole
<1>2. ASSUME NEW x \in Upload, PhotoStep(x) PROVE PhotoTypeInv' /\ UploadsAreWhole'
  <2> USE DEF PhotoTypeInv, UploadsAreWhole, UploadRecord, PhotoSteps
  <2> USE <1>2, PhotoAssumption
  <2>1. ASSUME NEW p \in Photo, NEW v \in Version, SelectPhoto(x, p, v)
        PROVE  PhotoTypeInv' /\ UploadsAreWhole'
    BY <2>1 DEF SelectPhoto, NoUpload
  <2>2. CASE WriteFile(x)
    BY <2>2, FilesAreNamed DEF WriteFile, Goto, FileOf, NoUpload
  <2>3. CASE InsertRow(x)
    BY <2>3 DEF InsertRow, Goto, NoUpload
  <2>4. CASE UpdateRow(x)
    BY <2>4 DEF UpdateRow, Goto, NoUpload
  <2>5. CASE RowFails(x)
    BY <2>5 DEF RowFails, Goto, NoUpload
  <2>6. CASE RemoveNew(x)
    BY <2>6 DEF RemoveNew, End, NoUpload
  <2>7. CASE RemoveOld(x)
    BY <2>7 DEF RemoveOld, Goto, NoUpload
  <2>8. CASE CommitPhoto(x)
    BY <2>8 DEF CommitPhoto, End, NoUpload
  <2>9. CASE AbortPhoto(x)
    BY <2>9 DEF AbortPhoto, End, NoUpload
  <2> QED BY <2>1, <2>2, <2>3, <2>4, <2>5, <2>6, <2>7, <2>8, <2>9 DEF PhotoStep
<1> QED BY <1>1, <1>2 DEF PhotoNext

(* A step that ends an upload, or moves it on, leaves the others alone. *)
LEMMA AloneStep ==
  ASSUME PhotoInv, [PhotoNext]_photoVars
  PROVE  Alone'
<1> USE PhotoAssumption DEF PhotoInv
<1>1. CASE UNCHANGED photoVars
  BY <1>1 DEF photoVars, Alone, Undisputed
<1>2. ASSUME NEW x \in Upload, PhotoStep(x) PROVE Alone'
  <2> USE DEF PhotoTypeInv, UploadsAreWhole, UploadRecord, Alone, Undisputed
  <2>1. ASSUME NEW p \in Photo, NEW v \in Version, SelectPhoto(x, p, v)
        PROVE  Alone'
    BY <2>1 DEF SelectPhoto, NoUpload, InProgress
  <2>2. CASE WriteFile(x)
    BY <2>2 DEF WriteFile, Goto
  <2>3. CASE InsertRow(x)
    BY <2>3 DEF InsertRow, Goto
  <2>4. CASE UpdateRow(x)
    BY <2>4 DEF UpdateRow, Goto
  <2>5. CASE RowFails(x)
    BY <2>5 DEF RowFails, Goto
  <2>6. CASE RemoveNew(x)
    BY <2>6 DEF RemoveNew, End, NoUpload
  <2>7. CASE RemoveOld(x)
    BY <2>7 DEF RemoveOld, Goto
  <2>8. CASE CommitPhoto(x)
    BY <2>8 DEF CommitPhoto, End, NoUpload
  <2>9. CASE AbortPhoto(x)
    BY <2>9 DEF AbortPhoto, End, NoUpload
  <2> QED BY <1>2, <2>1, <2>2, <2>3, <2>4, <2>5, <2>6, <2>7, <2>8, <2>9 DEF PhotoStep
<1> QED BY <1>1, <1>2 DEF PhotoNext
-----------------------------------------------------------------------------
(* The upload that steps keeps its own claims; those of the others are about
   other photos, hence about other files. *)
LEMMA ApartStep ==
  ASSUME PhotoInv, [PhotoNext]_photoVars
  PROVE  OldAndNewApart'
<1> USE PhotoAssumption DEF PhotoInv
<1>0. PhotoTypeInv' /\ UploadsAreWhole' /\ Alone'
  BY PhotoTypeStep, AloneStep
<1>1. CASE UNCHANGED photoVars
  BY <1>1 DEF photoVars, OldAndNewApart, Apart, Undisputed, FileWritten, FileOf
<1>2. ASSUME NEW x \in Upload, PhotoStep(x), NEW y \in Upload, Undisputed(y)'
      PROVE  Apart(y)'
  <2> USE DEF PhotoTypeInv, UploadsAreWhole, UploadRecord, OldAndNewApart, Undisputed,
              FileWritten, Apart, FileOf, File
  <2>1. ASSUME NEW p \in Photo, NEW v \in Version, SelectPhoto(x, p, v)
        PROVE  Apart(y)'
    BY <1>2, <2>1 DEF SelectPhoto, NoUpload
  <2>2. CASE WriteFile(x)
    BY <1>2, <2>2, FilesAreNamed DEF WriteFile, Goto, Alone
  <2>3. CASE InsertRow(x)
    BY <1>2, <2>3 DEF InsertRow, Goto
  <2>4. CASE UpdateRow(x)
    BY <1>2, <2>4 DEF UpdateRow, Goto
  <2>5. CASE RowFails(x)
    BY <1>2, <2>5 DEF RowFails, Goto
  <2>6. CASE RemoveNew(x)
    BY <1>2, <2>6, FilesAreNamed DEF RemoveNew, End, NoUpload, Alone
  <2>7. CASE RemoveOld(x)
    BY <1>2, <2>7, FilesAreNamed DEF RemoveOld, Goto, Alone
  <2>8. CASE CommitPhoto(x)
    BY <1>2, <2>8 DEF CommitPhoto, End, NoUpload, Alone
  <2>9. CASE AbortPhoto(x)
    BY <1>2, <2>9 DEF AbortPhoto, End, NoUpload
  <2> QED BY <1>2, <2>1, <2>2, <2>3, <2>4, <2>5, <2>6, <2>7, <2>8, <2>9 DEF PhotoStep
<1> QED BY <1>1, <1>2 DEF PhotoNext, OldAndNewApart
-----------------------------------------------------------------------------

(* Of PhotoInv, the part that is the property: the row has its bytes. *)
LEMMA HasFileStep ==
  ASSUME PhotoInv, [PhotoNext]_photoVars
  PROVE  PhotoHasItsFile'
<1> USE PhotoAssumption DEF PhotoInv
<1>0. PhotoTypeInv' /\ UploadsAreWhole'
  BY PhotoTypeStep
<1>1. CASE UNCHANGED photoVars
  BY <1>1 DEF photoVars, PhotoHasItsFile
<1>2. ASSUME NEW x \in Upload, PhotoStep(x), NEW p \in Photo,
             photo'[p] # 0, p \notin disputed',
             \A y \in Upload : ~(upload'[y].photo = p /\ upload'[y].pc = "commit")
      PROVE  volume'[File(p, photo'[p])] = photo'[p]
  <2> USE <1>2 DEF PhotoTypeInv, UploadsAreWhole, UploadRecord, OldAndNewApart,
                   Undisputed, FileWritten, Apart, FileOf, File, PhotoHasItsFile
  <2>1. ASSUME NEW q \in Photo, NEW v \in Version, SelectPhoto(x, q, v)
        PROVE  volume'[File(p, photo'[p])] = photo'[p]
    BY <2>1 DEF SelectPhoto, NoUpload
  <2>2. CASE WriteFile(x)
    BY <2>2, FilesAreNamed DEF WriteFile, Goto
  <2>3. CASE InsertRow(x)
    BY <2>3 DEF InsertRow, Goto
  <2>4. CASE UpdateRow(x)
    BY <2>4 DEF UpdateRow, Goto
  <2>5. CASE RowFails(x)
    BY <2>5 DEF RowFails, Goto
  <2>6. CASE RemoveNew(x)
    BY <2>6, FilesAreNamed DEF RemoveNew, End, NoUpload
  <2>7. CASE RemoveOld(x)
    BY <2>7, FilesAreNamed DEF RemoveOld, Goto
  <2>8. CASE CommitPhoto(x)
    BY <2>8 DEF CommitPhoto, End, NoUpload
  <2>9. CASE AbortPhoto(x)
    <3>1. p \notin disputed /\ photo'[p] = photo[p] /\ volume' = volume
      BY <2>9 DEF AbortPhoto
    <3>2. ASSUME NEW z \in Upload, upload[z].photo = p, upload[z].pc = "commit"
          PROVE  FALSE
      <4>1. z = x
        BY <2>9, <3>2 DEF AbortPhoto, End
      <4>2. upload[x].old # 0
        BY <3>1, <3>2, <4>1
      <4> QED BY <2>9, <3>2, <4>1, <4>2 DEF AbortPhoto
    <3> QED BY <3>1, <3>2
  <2> QED BY <2>1, <2>2, <2>3, <2>4, <2>5, <2>6, <2>7, <2>8, <2>9 DEF PhotoStep
<1> QED BY <1>1, <1>2 DEF PhotoNext, PhotoHasItsFile

(* The inductive invariant, from the five facts. *)
THEOREM PhotoInvHolds == PhotoSpec => []PhotoInv
<1>1. PhotoInit => PhotoInv
  BY PhotoInit0
<1>2. PhotoInv /\ [PhotoNext]_photoVars => PhotoInv'
  BY PhotoTypeStep, AloneStep, ApartStep, HasFileStep DEF PhotoInv
<1> QED BY <1>1, <1>2, PTL DEF PhotoSpec

(* A photo in the database has its bytes on the volume, whatever statement of
   applyRecord failed and wherever the process died, unless its file changed
   hands. *)
THEOREM PhotosKeepTheirBytes == PhotoSpec => []PhotoHasItsFile
BY PhotoInvHolds, PTL DEF PhotoInv

-----------------------------------------------------------------------------
(* The reports: what a job is, whatever was ingested meanwhile.             *)

OnOne == {"revision", "answers", "photos", "bytes", "done"}

Contents == [answer : Nat, photo : Nat, bytes : Nat]
FileName == {BaseName[i] : i \in Inspection} \X Nat
Entry == [inspection : Inspection, file : FileName \cup {Nothing}, document : Contents]

JobRecord ==
  [kind : {"none", "lot", "one", "detail", "summary", "findings", "conflicts"},
   pc : {"idle", "next", "queries"} \cup OnOne,
   asked : SUBSET Inspection, left : SUBSET Inspection, current : Inspection \cup {Nothing},
   document : Contents, entries : Seq(Entry), got : UNION {[D -> Nat] : D \in SUBSET Query}]

StoreTypes ==
  /\ answer \in [Arrived -> Nat] /\ Arrived \subseteq Inspection
  /\ IsFiniteSet(DOMAIN finding) /\ conflicts \in Nat

Shape(j) ==
  /\ j.pc \in OnOne => j.kind \in {"lot", "one", "detail"} /\ j.current \in Arrived
  /\ j.pc = "next" => j.kind = "lot"
  /\ j.pc = "queries" => j.kind \in {"summary", "findings", "conflicts"}
  /\ j.pc = "bytes" => j.current \in Photo /\ j.document.photo \in Version
  /\ j.kind = "detail" => j.pc \notin {"photos", "bytes"} /\ j.document.photo = 0
  /\ j.asked \subseteq Arrived
  /\ j.pc = "queries" \/ j.got = << >>
  /\ DOMAIN j.got \subseteq QueriesOf(j.kind)

(* Of the inspections asked for, each one is in the manifest already, is the one
   that is being read, or is left. *)
InManifest(j) == {j.entries[n].inspection : n \in DOMAIN j.entries}
BeingRead(j) == IF j.pc = "next" THEN {} ELSE {j.current}

EntriesApart(entries) ==
  \A m, n \in DOMAIN entries :
    \/ entries[m].inspection = entries[n].inspection
    \/ entries[m].file = entries[n].file /\ entries[n].file # Nothing
    => m = n

Accounted(j) ==
  j.kind = "lot" =>
    /\ j.asked = InManifest(j) \cup BeingRead(j) \cup j.left
    /\ InManifest(j) \cap j.left = {}
    /\ BeingRead(j) \cap (InManifest(j) \cup j.left) = {}
    /\ EntriesApart(j.entries)

JobInv == job \in JobRecord /\ Shape(job) /\ Accounted(job)

(* What the job has read is what there is, if nothing was ingested meanwhile. *)
OfOneMoment(j) ==
  /\ j.pc \in {"photos", "bytes", "done"} => j.document.answer = answer[j.current]
  /\ j.pc = "bytes" \/ (j.pc = "done" /\ j.kind # "detail") =>
       j.document.photo = PhotoOf(j.current)
  /\ j.pc = "done" /\ j.document.photo # 0 =>
       j.document.bytes = j.document.photo \/ j.current \in disputed
  /\ j.pc = "bytes" => j.document.photo # 0

Agreed == \A q \in DOMAIN job.got : job.got[q] = AnswerOf(q)

MomentInv == job # NoJob /\ ~raced => OfOneMoment(job) /\ Agreed

(* The file of a row has the bytes of that row or is not there. *)
NoStrangeBytes ==
  \A p \in Photo :
    photo[p] # 0 => volume[File(p, photo[p])] \in {0, photo[p]} \/ p \in disputed

-----------------------------------------------------------------------------
(* The names in a lot.                                                      *)

(* Some numbers have a least one. *)
LEMMA LeastNumber ==
  ASSUME NEW S \in SUBSET Nat, S # {}
  PROVE  \E n \in S : \A m \in S : n <= m
<1> DEFINE Less == {pair \in Nat \X Nat : pair[1] < pair[2]}
<1>1. IsWellFoundedOn(Less, Nat)
  BY NatLessThanWellFounded DEF OpToRel
<1>2. PICK n \in S : \A m \in S : <<m, n>> \notin Less
  <2> HIDE DEF Less
  <2> QED BY <1>1, WFMin
<1>3. ASSUME NEW m \in S PROVE ~(m < n)
  BY <1>2
<1> QED BY <1>3

(* How many numbers there are up to N. *)
LEMMA Numbers ==
  ASSUME NEW N \in Nat
  PROVE  IsFiniteSet(1 .. N) /\ Cardinality(1 .. N) = N
BY FS_Interval

(* A set that can be numbered from 1 to N has N elements. *)
LEMMA NumberedSet ==
  ASSUME NEW N \in Nat, NEW S, NEW f \in Bijection(1 .. N, S)
  PROVE  IsFiniteSet(S) /\ Cardinality(S) = N
<1>1. IsFiniteSet(1 .. N) /\ Cardinality(1 .. N) = N
  BY Numbers
<1>2. ExistsBijection(1 .. N, S)
  BY DEF ExistsBijection
<1> QED BY <1>1, <1>2, FS_Bijection

(* Of one more number than there are entries, one is free (nombreUnico). *)
LEMMA NameIsFree ==
  ASSUME job \in JobRecord, NEW i \in Inspection
  PROVE  NombreUnico(i) \in FileName /\ NombreUnico(i) \notin Used
<1> DEFINE N == Len(job.entries)
           free == {n \in 1 .. N + 1 : <<BaseName[i], n>> \notin Used}
<1>1. N \in Nat /\ job.entries \in Seq(Entry) /\ DOMAIN job.entries = 1 .. N
  BY DEF JobRecord
<1>2. IsFiniteSet(Used) /\ Cardinality(Used) <= N
  <2> DEFINE f == [n \in 1 .. N |-> job.entries[n].file]
  <2>1. f \in Surjection(1 .. N, Used)
    BY <1>1 DEF Surjection, Used
  <2>2. IsFiniteSet(1 .. N) /\ Cardinality(1 .. N) = N
    BY <1>1, Numbers
  <2> QED BY <2>1, <2>2, FS_Surjection
<1>3. free # {}
  <2> SUFFICES ASSUME free = {} PROVE FALSE
    OBVIOUS
  <2> DEFINE g == [n \in 1 .. N + 1 |-> <<BaseName[i], n>>]
  <2>1. g \in [1 .. N + 1 -> Used]
    OBVIOUS
  <2>2. IsFiniteSet(1 .. N + 1) /\ Cardinality(1 .. N + 1) = N + 1
    BY <1>1, Numbers
  <2>3. Cardinality(Used) < Cardinality(1 .. N + 1)
    BY <1>1, <1>2, <2>2, FS_CardinalityType
  <2>4. PICK m, n \in 1 .. N + 1 : m # n /\ g[m] = g[n]
    <3> HIDE DEF g
    <3> QED BY <1>2, <2>1, <2>2, <2>3, FS_PigeonHole
  <2> QED BY <2>4
<1>4. \E n \in free : \A m \in free : n <= m
  <2>1. free \in SUBSET Nat
    BY <1>1
  <2> HIDE DEF free
  <2> QED BY <1>3, <2>1, LeastNumber
<1>5. PICK n \in free : NombreUnico(i) = <<BaseName[i], n>>
  <2>1. NombreUnico(i) = <<BaseName[i], CHOOSE n \in free : \A m \in free : n <= m>>
    BY DEF NombreUnico
  <2> QED BY <1>4, <2>1
<1> QED BY <1>1, <1>5 DEF FileName

(* The entries of a manifest are as many as the inspections they are of, and the
   files of those exported as many as these. *)
EntriesOf(entries) == {entries[k] : k \in DOMAIN entries}
ExportedOf(entries) == {e \in EntriesOf(entries) : e.file # Nothing}

(* In a manifest whose entries differ, what the ZIP counts is what it lists. *)
LEMMA ManifestCounted ==
  ASSUME NEW entries \in Seq(Entry), EntriesApart(entries)
  PROVE  /\ Cardinality({e.inspection : e \in EntriesOf(entries)}) = Len(entries)
         /\ Cardinality({e.file : e \in ExportedOf(entries)}) = Cardinality(ExportedOf(entries))
         /\ \A e \in ExportedOf(entries) :
              (CHOOSE d \in ExportedOf(entries) : d.file = e.file) = e
         /\ Cardinality(EntriesOf(entries) \ ExportedOf(entries))
              = Len(entries) - Cardinality(ExportedOf(entries))
<1> DEFINE N == Len(entries)
           S == EntriesOf(entries)
           X == ExportedOf(entries)
<1>1. N \in Nat /\ DOMAIN entries = 1 .. N
  OBVIOUS
<1>2. /\ \A m, n \in 1 .. N : entries[m].inspection = entries[n].inspection => m = n
      /\ \A m, n \in 1 .. N :
           entries[m].file = entries[n].file /\ entries[n].file # Nothing => m = n
  BY <1>1 DEF EntriesApart
<1>3. IsFiniteSet(S) /\ Cardinality(S) = N
  <2> DEFINE f == [n \in 1 .. N |-> entries[n]]
  <2>1. f \in Bijection(1 .. N, S)
    BY <1>1, <1>2 DEF Bijection, Injection, Surjection, IsInjective, EntriesOf
  <2> HIDE DEF f, N, S
  <2> QED BY <1>1, <2>1, NumberedSet
<1>4. Cardinality({e.inspection : e \in S}) = N
  <2> DEFINE f == [n \in 1 .. N |-> entries[n].inspection]
             T == {e.inspection : e \in S}
  <2>1. f \in Bijection(1 .. N, T)
    BY <1>1, <1>2 DEF Bijection, Injection, Surjection, IsInjective, EntriesOf
  <2> HIDE DEF f, N, T
  <2>2. Cardinality(T) = N
    BY <1>1, <2>1, NumberedSet
  <2> QED BY <2>2 DEF T
<1>5. IsFiniteSet(X) /\ Cardinality(X) <= N
  BY <1>3, FS_Subset DEF ExportedOf
<1>6. Cardinality({e.file : e \in X}) = Cardinality(X)
  <2> DEFINE f == [e \in X |-> e.file]
             T == {e.file : e \in X}
  <2>1. f \in Bijection(X, T)
    BY <1>1, <1>2 DEF Bijection, Injection, Surjection, IsInjective, EntriesOf, ExportedOf
  <2> HIDE DEF f, X, T
  <2>2. ExistsBijection(X, T)
    BY <2>1 DEF ExistsBijection
  <2>3. Cardinality(T) = Cardinality(X)
    BY <1>5, <2>2, FS_Bijection
  <2> QED BY <2>3 DEF T
<1>7. ASSUME NEW e \in X PROVE (CHOOSE d \in X : d.file = e.file) = e
  <2>1. \A d \in X : d.file = e.file => d = e
    BY <1>1, <1>2 DEF EntriesOf, ExportedOf
  <2> HIDE DEF X
  <2> QED BY <2>1
<1>8. Cardinality(S \ X) = N - Cardinality(X)
  <2>1. Cardinality(S \ X) = Cardinality(S) - Cardinality(S \cap X)
    BY <1>3, FS_Difference
  <2>2. S \cap X = X
    BY DEF ExportedOf
  <2> QED BY <1>3, <2>1, <2>2
<1> QED BY <1>4, <1>6, <1>7, <1>8

-----------------------------------------------------------------------------
(* The photos while reports are made.                                       *)

(* A step beside the reports is a step of the photos, and one of a report is none. *)
LEMMA PhotosGoOn ==
  ASSUME [ReportsNext]_<<photoVars, reportVars>>
  PROVE  [PhotoNext]_photoVars
<1>1. CASE Ingest
  BY <1>1 DEF Ingest, IngestAnswer, IngestFinding, IngestConflict, IngestPhoto, PhotoNext
<1>2. CASE Asking
  BY <1>2 DEF Asking, LotAsk, OneAsk, SummaryAsk, FindingsAsk, ConflictsAsk, Ask
<1>3. CASE Document
  BY <1>3 DEF Document, ReadRevision, ReadAnswers, ReadPhotos, ReadBytes, AddToLot, Answered,
              NextOfLot, Pack, Read
<1>4. ASSUME NEW q \in Query, RunQuery(q) PROVE [PhotoNext]_photoVars
  BY <1>4 DEF RunQuery, Read
<1>5. CASE AnswerQueries \/ GiveUp
  BY <1>5 DEF AnswerQueries, GiveUp, Read
<1> QED BY <1>1, <1>2, <1>3, <1>4, <1>5 DEF ReportsNext

(* The ingestion and the reports together are the photos on the volume, and no
   report writes one. *)
THEOREM ReportsOnlyRead == ReportsSpec => PhotoSpec
<1>1. ReportsInit => PhotoInit
  BY DEF ReportsInit
<1>2. [ReportsNext]_<<photoVars, reportVars>> => [PhotoNext]_photoVars
  BY PhotosGoOn
<1> QED BY <1>1, <1>2, PTL DEF ReportsSpec, PhotoSpec

(* No file ever holds bytes of a version that no upload wrote. *)
LEMMA StrangeBytesStep ==
  ASSUME PhotoInv, NoStrangeBytes, [PhotoNext]_photoVars
  PROVE  NoStrangeBytes'
<1> USE PhotoAssumption DEF PhotoInv
<1>0. PhotoTypeInv' /\ UploadsAreWhole'
  BY PhotoTypeStep
<1>1. CASE UNCHANGED photoVars
  BY <1>1 DEF photoVars, NoStrangeBytes
<1>2. ASSUME NEW x \in Upload, PhotoStep(x), NEW p \in Photo,
             photo'[p] # 0, p \notin disputed'
      PROVE  volume'[File(p, photo'[p])] \in {0, photo'[p]}
  <2> USE <1>2 DEF PhotoTypeInv, UploadsAreWhole, UploadRecord, OldAndNewApart,
                   Undisputed, FileWritten, Apart, FileOf, File, NoStrangeBytes
  <2>1. ASSUME NEW q \in Photo, NEW v \in Version, SelectPhoto(x, q, v)
        PROVE  volume'[File(p, photo'[p])] \in {0, photo'[p]}
    BY <2>1 DEF SelectPhoto, NoUpload
  <2>2. CASE WriteFile(x)
    BY <2>2, FilesAreNamed DEF WriteFile, Goto
  <2>3. CASE InsertRow(x)
    BY <2>3 DEF InsertRow, Goto
  <2>4. CASE UpdateRow(x)
    BY <2>4 DEF UpdateRow, Goto
  <2>5. CASE RowFails(x)
    BY <2>5 DEF RowFails, Goto
  <2>6. CASE RemoveNew(x)
    BY <2>6, FilesAreNamed DEF RemoveNew, End, NoUpload
  <2>7. CASE RemoveOld(x)
    BY <2>7, FilesAreNamed DEF RemoveOld, Goto
  <2>8. CASE CommitPhoto(x)
    BY <2>8 DEF CommitPhoto, End, NoUpload
  <2>9. CASE AbortPhoto(x)
    BY <2>9 DEF AbortPhoto, End
  <2> QED BY <2>1, <2>2, <2>3, <2>4, <2>5, <2>6, <2>7, <2>8, <2>9 DEF PhotoStep
<1> QED BY <1>1, <1>2 DEF PhotoNext, NoStrangeBytes

-----------------------------------------------------------------------------
(* The rows that are read.                                                  *)

(* The rows have their types at the start. *)
LEMMA StoreInit == ReportsInit => StoreTypes
<1> SUFFICES ASSUME ReportsInit PROVE StoreTypes
  OBVIOUS
<1>1. IsFiniteSet(DOMAIN finding)
  <2>1. DOMAIN finding = {}
    BY DEF ReportsInit
  <2> QED BY <2>1, FS_EmptySet
<1> QED BY <1>1 DEF ReportsInit, StoreTypes, Arrived

(* What the reports read keeps its types, and what has arrived stays. *)
LEMMA StoreStep ==
  ASSUME StoreTypes, [ReportsNext]_<<photoVars, reportVars>>
  PROVE  StoreTypes' /\ Arrived \subseteq Arrived'
<1>1. ASSUME NEW i \in Inspection, IngestAnswer(i) PROVE StoreTypes' /\ Arrived \subseteq Arrived'
  BY <1>1 DEF IngestAnswer, StoreTypes, Arrived, Set
<1>2. ASSUME NEW f \in Finding, NEW s \in Severity, IngestFinding(f, s)
      PROVE  StoreTypes' /\ Arrived \subseteq Arrived'
  <2>1. DOMAIN finding' = DOMAIN finding \cup {f} /\ UNCHANGED <<answer, conflicts>>
    BY <1>2 DEF IngestFinding, Set
  <2>2. IsFiniteSet(DOMAIN finding \cup {f})
    BY FS_AddElement DEF StoreTypes
  <2> QED BY <2>1, <2>2 DEF StoreTypes, Arrived
<1>3. CASE IngestConflict
  BY <1>3 DEF IngestConflict, StoreTypes, Arrived
<1>4. ASSUME UNCHANGED storeVars PROVE StoreTypes' /\ Arrived \subseteq Arrived'
  BY <1>4 DEF storeVars, StoreTypes, Arrived
<1>5. CASE IngestPhoto
  BY <1>4, <1>5 DEF IngestPhoto
<1>6. CASE Asking
  BY <1>4, <1>6 DEF Asking, LotAsk, OneAsk, SummaryAsk, FindingsAsk, ConflictsAsk, Ask
<1>7. CASE Document
  BY <1>4, <1>7 DEF Document, ReadRevision, ReadAnswers, ReadPhotos, ReadBytes, AddToLot, Answered,
              NextOfLot, Pack, Read
<1>8. ASSUME NEW q \in Query, RunQuery(q) PROVE StoreTypes' /\ Arrived \subseteq Arrived'
  BY <1>4, <1>8 DEF RunQuery, Read
<1>9. CASE AnswerQueries \/ GiveUp
  BY <1>4, <1>9 DEF AnswerQueries, GiveUp, Read
<1>10. CASE UNCHANGED <<photoVars, reportVars>>
  BY <1>4, <1>10 DEF reportVars, storeVars
<1> QED BY <1>1, <1>2, <1>3, <1>5, <1>6, <1>7, <1>8, <1>9, <1>10 DEF ReportsNext, Ingest

-----------------------------------------------------------------------------
(* What a job is.                                                           *)

(* No job at all has the form of one, and nothing to account for. *)
LEMMA NoJobIsWhole ==
  NoJob \in JobRecord /\ Shape(NoJob) /\ Accounted(NoJob) /\ NoJob.pc = "idle"
<1>1. NoDocument \in Contents
  BY DEF NoDocument, Contents
<1>2. << >> \in Seq(Entry)
  BY EmptySeq
<1>3. << >> \in UNION {[D -> Nat] : D \in SUBSET Query} /\ DOMAIN << >> = {}
  <2>1. << >> = [q \in {} |-> 0]
    OBVIOUS
  <2>2. [q \in {} |-> 0] \in [{} -> Nat] /\ {} \in SUBSET Query
    OBVIOUS
  <2> QED BY <2>1, <2>2
<1>4. NoJob \in JobRecord
  BY <1>1, <1>2, <1>3 DEF NoJob, JobRecord
<1> QED BY <1>3, <1>4 DEF NoJob, NoDocument, Shape, Accounted, OnOne

(* A further entry of the manifest, of an inspection and a file that are new. *)
LEMMA EntryAdded ==
  ASSUME NEW entries \in Seq(Entry), EntriesApart(entries), NEW e \in Entry,
         e.inspection \notin {entries[n].inspection : n \in DOMAIN entries},
         e.file # Nothing => e.file \notin {entries[n].file : n \in DOMAIN entries}
  PROVE  LET more == Append(entries, e) IN
         /\ more \in Seq(Entry) /\ EntriesApart(more)
         /\ {more[n].inspection : n \in DOMAIN more}
              = {entries[n].inspection : n \in DOMAIN entries} \cup {e.inspection}
<1> DEFINE more == Append(entries, e)
           N == Len(entries)
<1>1. /\ N \in Nat /\ DOMAIN entries = 1 .. N /\ more \in Seq(Entry)
      /\ DOMAIN more = 1 .. N + 1 /\ more[N + 1] = e /\ \A n \in 1 .. N : more[n] = entries[n]
  BY AppendProperties
<1> HIDE DEF more, N
<1>2. \A n \in DOMAIN more : n = N + 1 \/ n \in 1 .. N
  BY <1>1
<1>3. EntriesApart(more)
  BY <1>1, <1>2 DEF EntriesApart
<1>4. {more[n].inspection : n \in DOMAIN more}
        = {entries[n].inspection : n \in DOMAIN entries} \cup {e.inspection}
  BY <1>1, <1>2
<1> QED BY <1>1, <1>3, <1>4 DEF more

(* A step that writes a well-formed job keeps what is known of it. *)
LEMMA JobWritten ==
  ASSUME NEW u \in JobRecord, Shape(u), Accounted(u), job' = u, Arrived \subseteq Arrived'
  PROVE  JobInv'
BY DEF JobInv, Shape, Accounted, InManifest, BeingRead, EntriesApart

(* A job that is still about the same inspections. *)
LEMMA StillAccounted ==
  ASSUME NEW u, NEW j, Accounted(j), u.kind = j.kind, u.asked = j.asked, u.left = j.left,
         u.entries = j.entries, u.current = j.current, u.pc # "next", j.pc # "next"
  PROVE  Accounted(u)
BY DEF Accounted, InManifest, BeingRead

(* The lot goes on, with an entry for the inspection that was read. *)
LEMMA GoesOn ==
  ASSUME JobInv, job.kind = "lot", job.pc \in OnOne, NEW e \in Entry,
         e.inspection = job.current, e.file # Nothing => e.file \notin Used
  PROVE  LET u == [job EXCEPT !.pc = "next", !.entries = Append(@, e)] IN
         u \in JobRecord /\ Shape(u) /\ Accounted(u)
<1> DEFINE more == Append(job.entries, e)
           u == [job EXCEPT !.pc = "next", !.entries = more]
<1>1. /\ job \in JobRecord /\ job.entries \in Seq(Entry) /\ EntriesApart(job.entries)
      /\ job.pc # "next" /\ job.current \notin InManifest(job) \cup job.left
      /\ job.asked = InManifest(job) \cup {job.current} \cup job.left
      /\ InManifest(job) \cap job.left = {}
  BY DEF JobInv, JobRecord, Accounted, BeingRead, OnOne
<1>2. e.file # Nothing => e.file \notin {job.entries[n].file : n \in DOMAIN job.entries}
  BY DEF Used
<1>3. /\ more \in Seq(Entry) /\ EntriesApart(more)
      /\ {more[n].inspection : n \in DOMAIN more} = InManifest(job) \cup {job.current}
  BY <1>1, <1>2, EntryAdded DEF InManifest
<1> HIDE DEF more
<1>4. /\ u \in JobRecord /\ u.pc = "next" /\ u.entries = more /\ u.kind = "lot"
      /\ u.asked = job.asked /\ u.left = job.left /\ u.got = job.got
  BY <1>1, <1>3 DEF JobRecord
<1> HIDE DEF u
<1>5. Shape(u)
  <2>1. Shape(job)
    BY DEF JobInv
  <2> QED BY <1>1, <1>4, <2>1 DEF Shape, OnOne
<1>6. Accounted(u)
  <2>1. InManifest(u) = InManifest(job) \cup {job.current}
    BY <1>3, <1>4 DEF InManifest
  <2>2. BeingRead(u) = {}
    BY <1>4 DEF BeingRead
  <2> QED BY <1>1, <1>3, <1>4, <2>1, <2>2 DEF Accounted
<1> QED BY <1>4, <1>5, <1>6 DEF u, more

(* A report that has just been asked for accounts for its whole choice. *)
LEMMA AskedJob ==
  ASSUME StoreTypes, Asking
  PROVE  JobInv' /\ job' \in JobRecord /\ job'.pc \in {"idle", "next", "revision", "queries"}
         /\ job'.document = NoDocument /\ job'.got = << >>
<1>0. NoJob \in JobRecord /\ Shape(NoJob) /\ Accounted(NoJob)
  BY NoJobIsWhole
<1>1. ASSUME NEW u \in JobRecord, Shape(u), Accounted(u), job' = u
      PROVE  JobInv'
  <2>1. Arrived' = Arrived
    BY DEF Asking, LotAsk, OneAsk, SummaryAsk, FindingsAsk, ConflictsAsk, Ask, storeVars, Arrived
  <2> QED BY <1>1, <2>1, JobWritten
<1>2. CASE job' = NoJob
  BY <1>0, <1>1, <1>2 DEF NoJob
<1>3. ASSUME NEW S \in SUBSET Arrived, LotAsk(S), job' # NoJob
      PROVE  JobInv' /\ job' \in JobRecord /\ job'.pc = "next"
             /\ job'.document = NoDocument /\ job'.got = << >>
  <2> DEFINE u == [NoJob EXCEPT !.kind = "lot", !.pc = "next", !.asked = S, !.left = S]
  <2>1. job' = u
    BY <1>3 DEF LotAsk
  <2>2. u \in JobRecord
    BY <1>0 DEF JobRecord, StoreTypes
  <2>3. /\ u.kind = "lot" /\ u.pc = "next" /\ u.asked = S /\ u.left = S /\ u.entries = << >>
        /\ u.got = << >> /\ u.document = NoDocument
    BY DEF NoJob
  <2> HIDE DEF u
  <2>4. Shape(u)
    BY <2>3 DEF Shape, OnOne
  <2>5. Accounted(u)
    <3>1. InManifest(u) = {} /\ BeingRead(u) = {} /\ EntriesApart(u.entries)
      BY <2>3 DEF InManifest, BeingRead, EntriesApart
    <3> QED BY <2>3, <3>1 DEF Accounted
  <2> QED BY <1>1, <2>1, <2>2, <2>3, <2>4, <2>5
<1>4. ASSUME NEW i \in Inspection, NEW kind \in {"one", "detail"}, OneAsk(kind, i), job' # NoJob
      PROVE  JobInv' /\ job' \in JobRecord /\ job'.pc = "revision"
             /\ job'.document = NoDocument /\ job'.got = << >>
  <2> DEFINE u == [NoJob EXCEPT !.kind = kind, !.pc = "revision", !.current = i]
  <2>1. job' = u /\ i \in Arrived
    BY <1>4 DEF OneAsk
  <2>2. u \in JobRecord
    BY <1>0 DEF JobRecord, OnOne
  <2>3. /\ u.kind = kind /\ u.pc = "revision" /\ u.asked = {} /\ u.current = i
        /\ u.got = << >> /\ u.document = NoDocument
    BY DEF NoJob
  <2> HIDE DEF u
  <2>4. Shape(u)
    BY <2>1, <2>3 DEF Shape, OnOne, NoDocument
  <2>5. Accounted(u)
    BY <2>3 DEF Accounted
  <2> QED BY <1>1, <2>1, <2>2, <2>3, <2>4, <2>5
<1>5. ASSUME SummaryAsk \/ FindingsAsk \/ ConflictsAsk
      PROVE  JobInv' /\ job' \in JobRecord /\ job'.pc = "queries"
             /\ job'.document = NoDocument /\ job'.got = << >>
  <2>1. PICK kind \in {"summary", "findings", "conflicts"} :
          job' = [NoJob EXCEPT !.kind = kind, !.pc = "queries"]
    BY <1>5 DEF SummaryAsk, FindingsAsk, ConflictsAsk
  <2> DEFINE u == [NoJob EXCEPT !.kind = kind, !.pc = "queries"]
  <2>2. u \in JobRecord
    BY <1>0 DEF JobRecord
  <2>3. /\ u.kind = kind /\ u.pc = "queries" /\ u.asked = {}
        /\ u.got = << >> /\ u.document = NoDocument
    BY DEF NoJob
  <2>6. job' = u
    BY <2>1
  <2> HIDE DEF u
  <2>4. Shape(u)
    BY <2>3 DEF Shape, OnOne
  <2>5. Accounted(u)
    BY <2>3 DEF Accounted
  <2> QED BY <1>1, <2>2, <2>3, <2>4, <2>5, <2>6
<1> QED BY <1>2, <1>3, <1>4, <1>5 DEF Asking, LotAsk, OneAsk

(* The photo of an inspection, if it has one, is a row of the table. *)
LEMMA PhotoOfTypes ==
  ASSUME PhotoTypeInv, NEW i
  PROVE  /\ PhotoOf(i) \in Nat
         /\ PhotoOf(i) # 0 => i \in Photo /\ PhotoOf(i) \in Version /\ PhotoOf(i) = photo[i]
<1>1. 0 \in Nat /\ \A v \in Version : v \in Nat
  BY PhotoAssumption
<1> HIDE DEF Version
<1> QED BY <1>1 DEF PhotoOf, PhotoTypeInv

(* A file holds a number of a version. *)
LEMMA BytesTypes ==
  ASSUME PhotoTypeInv, NEW p \in Photo, NEW v \in Version
  PROVE  volume[File(p, v)] \in Nat
<1>1. volume[File(p, v)] \in {0} \cup Version
  BY FilesAreNamed DEF PhotoTypeInv
<1>2. 0 \in Nat /\ \A w \in Version : w \in Nat
  BY PhotoAssumption
<1> HIDE DEF Version
<1> QED BY <1>1, <1>2

(* One read of a document: what the job is then. *)
LEMMA ReadJob ==
  ASSUME StoreTypes, PhotoTypeInv, JobInv,
         ReadRevision \/ ReadAnswers \/ ReadPhotos \/ ReadBytes
  PROVE  /\ JobInv' /\ Read
         /\ \/ job' \in JobRecord /\ job'.pc \in {"idle", "next", "answers"}
            \/ /\ ReadAnswers /\ job'.pc \in {"photos", "done"}
               /\ job'.kind = job.kind /\ job'.current = job.current
               /\ job'.pc = "done" <=> job.kind = "detail"
               /\ job'.document.answer = answer[job.current]
               /\ job'.document.photo = job.document.photo
            \/ /\ ReadPhotos
               /\ job'.kind = job.kind /\ job'.current = job.current
               /\ job'.document.answer = job.document.answer
               /\ job'.document.photo = PhotoOf(job.current)
               /\ job'.pc = IF PhotoOf(job.current) = 0 THEN "done" ELSE "bytes"
            \/ /\ ReadBytes /\ job'.pc = "done"
               /\ job'.kind = job.kind /\ job'.current = job.current
               /\ job'.document.answer = job.document.answer
               /\ job'.document.photo = job.document.photo
               /\ job'.document.bytes # 0
               /\ job'.document.bytes = volume[File(job.current, job.document.photo)]
<1> DEFINE j == job
<1>0. j \in JobRecord /\ Shape(j) /\ Accounted(j) /\ NoJob \in JobRecord /\ NoJob.pc = "idle"
  BY NoJobIsWhole DEF JobInv
<1>1. Read /\ Arrived' = Arrived
  BY DEF ReadRevision, ReadAnswers, ReadPhotos, ReadBytes, Read, storeVars, Arrived
<1>2. ASSUME NEW u \in JobRecord, Shape(u), Accounted(u), job' = u PROVE JobInv'
  BY <1>1, <1>2, JobWritten
<1>3. ASSUME Failed(FailedEntry), j.pc \in OnOne
      PROVE  JobInv' /\ job' \in JobRecord /\ job'.pc \in {"idle", "next"}
  <2>1. FailedEntry \in Entry /\ FailedEntry.inspection = j.current /\ FailedEntry.file = Nothing
    <3>1. j.current \in Inspection
      BY <1>0, <1>3 DEF Shape, StoreTypes
    <3> QED BY <3>1 DEF FailedEntry, Entry, Contents, NoDocument
  <2>2. CASE j.kind = "lot"
    <3> DEFINE u == [job EXCEPT !.pc = "next", !.entries = Append(@, FailedEntry)]
    <3>1. u \in JobRecord /\ Shape(u) /\ Accounted(u)
      BY <1>3, <2>1, <2>2, GoesOn
    <3>2. job' = u
      BY <1>0, <1>3, <2>2 DEF Failed
    <3>3. u.pc = "next"
      BY <1>0 DEF JobRecord
    <3> HIDE DEF u
    <3> QED BY <1>2, <3>1, <3>2, <3>3
  <2>3. CASE j.kind # "lot"
    BY <1>0, <1>2, <1>3, <2>3, NoJobIsWhole DEF Failed
  <2> QED BY <2>2, <2>3
<1>4. ASSUME j.pc \in OnOne, NEW pc \in OnOne, NEW document \in Contents,
             job' = [job EXCEPT !.pc = pc, !.document = document],
             pc = "bytes" => j.current \in Photo /\ document.photo \in Version,
             j.kind = "detail" => pc \notin {"photos", "bytes"} /\ document.photo = 0
      PROVE  /\ JobInv' /\ job'.kind = job.kind /\ job'.current = job.current
             /\ job'.document = document /\ job'.pc = pc
  <2> DEFINE u == [job EXCEPT !.pc = pc, !.document = document]
  <2>1. u \in JobRecord
    BY <1>0 DEF JobRecord
  <2>2. /\ u.kind = j.kind /\ u.asked = j.asked /\ u.left = j.left /\ u.entries = j.entries
        /\ u.current = j.current /\ u.got = j.got /\ u.pc = pc /\ u.document = document
    BY <1>0 DEF JobRecord
  <2>3. job' = u
    BY <1>4
  <2> HIDE DEF u
  <2>4. Shape(u)
    BY <1>0, <1>4, <2>2 DEF Shape, OnOne
  <2>5. Accounted(u)
    BY <1>0, <1>4, <2>2, StillAccounted DEF OnOne
  <2> QED BY <1>2, <2>1, <2>2, <2>3, <2>4, <2>5
<1>5. CASE ReadRevision
  <2>1. CASE Failed(FailedEntry)
    BY <1>1, <1>3, <1>5, <2>1 DEF ReadRevision, OnOne
  <2>2. CASE job' = [job EXCEPT !.pc = "answers"]
    <3>1. job' = [job EXCEPT !.pc = "answers", !.document = j.document] /\ j.pc \in OnOne
          /\ j.document \in Contents
      BY <1>0, <1>5, <2>2 DEF JobRecord, ReadRevision, OnOne
    <3>2. job'.pc = "answers" /\ JobInv'
      BY <1>0, <1>4, <3>1 DEF Shape, OnOne
    <3> QED BY <1>1, <3>2 DEF JobInv
  <2> QED BY <1>5, <2>1, <2>2 DEF ReadRevision
<1>6. CASE ReadAnswers
  <2> DEFINE pc == IF j.kind = "detail" THEN "done" ELSE "photos"
             document == [j.document EXCEPT !.answer = answer[j.current]]
  <2>1. j.pc \in OnOne /\ pc \in OnOne /\ answer[j.current] \in Nat /\ j.document \in Contents
    BY <1>0, <1>6 DEF ReadAnswers, OnOne, Shape, StoreTypes, JobRecord
  <2>2. job' = [job EXCEPT !.pc = pc, !.document = document]
    BY <1>0, <1>6 DEF ReadAnswers, JobRecord
  <2>3. document \in Contents /\ document.photo = j.document.photo
        /\ document.answer = answer[j.current]
    BY <2>1 DEF Contents
  <2>4. pc # "bytes" /\ (j.kind = "detail" => pc = "done") /\ (pc = "done" <=> j.kind = "detail")
        /\ pc \in {"photos", "done"}
    OBVIOUS
  <2> HIDE DEF pc, document
  <2>5. /\ JobInv' /\ job'.kind = job.kind /\ job'.current = job.current
        /\ job'.document = document /\ job'.pc = pc
    <3>1. j.kind = "detail" => document.photo = 0
      BY <1>0, <2>3 DEF Shape
    <3> QED BY <1>4, <2>1, <2>2, <2>3, <2>4, <3>1
  <2> QED BY <1>1, <1>6, <2>3, <2>4, <2>5
<1>7. CASE ReadPhotos
  <2> DEFINE pc == IF PhotoOf(j.current) = 0 THEN "done" ELSE "bytes"
             document == [j.document EXCEPT !.photo = PhotoOf(j.current)]
  <2>1. j.pc \in OnOne /\ pc \in OnOne /\ j.kind # "detail" /\ j.document \in Contents
    BY <1>0, <1>7 DEF ReadPhotos, OnOne, Shape, JobRecord
  <2>2. job' = [job EXCEPT !.pc = pc, !.document = document]
    BY <1>0, <1>7 DEF ReadPhotos, JobRecord
  <2>3. document \in Contents /\ document.photo = PhotoOf(j.current)
        /\ document.answer = j.document.answer
    BY <2>1, PhotoOfTypes DEF Contents
  <2>4. pc = IF PhotoOf(j.current) = 0 THEN "done" ELSE "bytes"
    OBVIOUS
  <2> HIDE DEF pc, document
  <2>5. /\ JobInv' /\ job'.kind = job.kind /\ job'.current = job.current
        /\ job'.document = document /\ job'.pc = pc
    <3>1. pc = "bytes" => j.current \in Photo /\ document.photo \in Version
      BY <2>3, <2>4, PhotoOfTypes
    <3> QED BY <1>4, <2>1, <2>2, <2>3, <3>1
  <2> QED BY <1>1, <1>7, <2>3, <2>4, <2>5
<1>8. CASE ReadBytes
  <2> DEFINE read == volume[File(j.current, j.document.photo)]
             document == [j.document EXCEPT !.bytes = read]
  <2>1. /\ j.pc = "bytes" /\ j.pc \in OnOne /\ "done" \in OnOne /\ j.kind # "detail"
        /\ j.document \in Contents /\ j.current \in Photo /\ j.document.photo \in Version
    BY <1>0, <1>8 DEF ReadBytes, OnOne, Shape, JobRecord
  <2>2. CASE Failed(FailedEntry)
    BY <1>1, <1>3, <2>1, <2>2
  <2>3. CASE read # 0 /\ job' = [job EXCEPT !.pc = "done", !.document.bytes = read]
    <3>1. job' = [job EXCEPT !.pc = "done", !.document = document]
      BY <1>0, <2>3 DEF JobRecord
    <3>2. document \in Contents /\ document.photo = j.document.photo
          /\ document.answer = j.document.answer /\ document.bytes = read
      BY <2>1, BytesTypes DEF Contents
    <3> HIDE DEF document
    <3>3. /\ JobInv' /\ job'.kind = job.kind /\ job'.current = job.current
          /\ job'.document = document /\ job'.pc = "done"
      BY <1>4, <2>1, <3>1, <3>2
    <3> QED BY <1>1, <1>8, <2>3, <3>2, <3>3
  <2> QED BY <1>8, <2>2, <2>3 DEF ReadBytes
<1> QED BY <1>5, <1>6, <1>7, <1>8

(* What the counts of the dashboard count is finite. *)
LEMMA Counted ==
  ASSUME StoreTypes
  PROVE  /\ IsFiniteSet(Arrived) /\ Cardinality(Arrived) \in Nat
         /\ \A S : Count(S) \in Nat
         /\ \A S, T : S \subseteq T => Count(S) <= Count(T)
         /\ \A q \in Query : AnswerOf(q) \in Nat
<1>1. IsFiniteSet(Arrived) /\ Cardinality(Arrived) \in Nat
  BY ReportsAssumption, FS_Subset, FS_CardinalityType DEF StoreTypes
<1>2. ASSUME NEW S
      PROVE  /\ IsFiniteSet({f \in DOMAIN finding : finding[f] \in S})
             /\ Count(S) = Cardinality({f \in DOMAIN finding : finding[f] \in S})
             /\ Count(S) \in Nat
  <2>1. IsFiniteSet({f \in DOMAIN finding : finding[f] \in S})
    BY FS_Subset DEF StoreTypes
  <2> QED BY <2>1, FS_CardinalityType DEF Count
<1>3. ASSUME NEW S, NEW T, S \subseteq T PROVE Count(S) <= Count(T)
  <2> DEFINE X == {f \in DOMAIN finding : finding[f] \in S}
             Y == {f \in DOMAIN finding : finding[f] \in T}
  <2>1. X \in SUBSET Y /\ IsFiniteSet(Y)
    BY <1>2, <1>3
  <2>2. Count(S) = Cardinality(X) /\ Count(T) = Cardinality(Y)
    BY <1>2
  <2> HIDE DEF X, Y
  <2> QED BY <2>1, <2>2, FS_Subset
<1>4. Listed \in Nat
  BY <1>2 DEF Listed, StoreTypes
<1>5. ASSUME NEW q \in Query PROVE AnswerOf(q) \in Nat
  <2>1. Count({"urgent", "resolved"}) \in Nat /\ Count({"urgent"}) \in Nat
    BY <1>2
  <2> QED BY <1>1, <1>4, <2>1 DEF AnswerOf, Query
<1> QED BY <1>1, <1>2, <1>3, <1>5

(* The other steps of a job. *)
LEMMA OtherJob ==
  ASSUME StoreTypes, JobInv,
         \/ AddToLot \/ Answered \/ Pack \/ AnswerQueries \/ GiveUp
         \/ \E i \in Inspection : NextOfLot(i)
         \/ \E q \in Query : RunQuery(q)
  PROVE  /\ JobInv' /\ UNCHANGED storeVars
         /\ job'.pc \in {"idle", "next", "revision", "queries"}
         /\ (\A q \in Query : ~RunQuery(q)) => job'.got = << >>
<1> DEFINE j == job
<1>0. j \in JobRecord /\ Shape(j) /\ Accounted(j)
  BY DEF JobInv
<1>00. /\ NoJob \in JobRecord /\ Shape(NoJob) /\ Accounted(NoJob) /\ NoJob.pc = "idle"
       /\ NoJob.got = << >>
  BY NoJobIsWhole DEF NoJob
<1>1. UNCHANGED storeVars /\ Arrived' = Arrived
  BY DEF AddToLot, Answered, Pack, AnswerQueries, GiveUp, NextOfLot, RunQuery, Read, storeVars,
         Arrived
<1>2. ASSUME NEW u \in JobRecord, Shape(u), Accounted(u), job' = u PROVE JobInv'
  BY <1>1, <1>2, JobWritten
<1>3. CASE Answered \/ Pack \/ AnswerQueries \/ GiveUp
  <2>1. job' = NoJob
    BY <1>3 DEF Answered, Pack, AnswerQueries, GiveUp
  <2> QED BY <1>00, <1>1, <1>2, <2>1
<1>4. CASE AddToLot
  <2> DEFINE e == [inspection |-> job.current, file |-> NombreUnico(job.current),
                   document |-> job.document]
             u == [job EXCEPT !.pc = "next", !.entries = Append(@, e)]
  <2>1. j.kind = "lot" /\ j.pc = "done" /\ j.pc \in OnOne /\ j.current \in Inspection
    BY <1>0, <1>4 DEF AddToLot, OnOne, Shape, StoreTypes
  <2>2. e \in Entry /\ e.inspection = j.current /\ e.file \notin Used
    BY <1>0, <2>1, NameIsFree DEF Entry, JobRecord
  <2>3. job' = u
    BY <1>4 DEF AddToLot
  <2>4. u \in JobRecord /\ Shape(u) /\ Accounted(u)
    <3> HIDE DEF e
    <3> QED BY <2>1, <2>2, GoesOn DEF JobInv
  <2>5. u.pc = "next" /\ u.got = << >>
    BY <1>0, <2>1 DEF JobRecord, Shape
  <2> HIDE DEF u
  <2> QED BY <1>1, <1>2, <2>3, <2>4, <2>5
<1>5. ASSUME NEW i \in Inspection, NextOfLot(i)
      PROVE  JobInv' /\ job'.pc = "revision" /\ job'.got = << >>
  <2> DEFINE rest == j.left \ {i}
             u == [job EXCEPT !.pc = "revision", !.current = i, !.left = rest,
                              !.document = NoDocument]
  <2>1. j.pc = "next" /\ i \in j.left /\ job' = u
    BY <1>0, <1>5 DEF NextOfLot, JobRecord
  <2>2. rest \subseteq Inspection /\ NoDocument \in Contents /\ rest = j.left \ {i}
    BY <1>0 DEF JobRecord, NoDocument, Contents
  <2> HIDE DEF rest
  <2>3. u \in JobRecord
    BY <1>0, <2>2 DEF JobRecord, OnOne
  <2>4. /\ u.kind = j.kind /\ u.asked = j.asked /\ u.left = rest /\ u.entries = j.entries
        /\ u.current = i /\ u.got = j.got /\ u.pc = "revision" /\ u.document = NoDocument
    BY <1>0 DEF JobRecord
  <2> HIDE DEF u
  <2>5. j.kind = "lot"
    BY <1>0, <2>1 DEF Shape
  <2>6. InManifest(u) = InManifest(j) /\ BeingRead(u) = {i} /\ BeingRead(j) = {}
    BY <2>1, <2>4 DEF InManifest, BeingRead
  <2>7. Accounted(u)
    BY <1>0, <2>1, <2>2, <2>4, <2>5, <2>6 DEF Accounted
  <2>8. Shape(u)
    BY <1>0, <2>1, <2>4, <2>5 DEF Shape, OnOne, Accounted, NoDocument
  <2>9. u.got = << >>
    BY <1>0, <2>1, <2>4 DEF Shape
  <2> QED BY <1>2, <2>1, <2>3, <2>4, <2>7, <2>8, <2>9
<1>6. ASSUME NEW q \in Query, RunQuery(q) PROVE JobInv' /\ job'.pc = "queries"
  <2> DEFINE got == Set(j.got, q, AnswerOf(q))
             u == [job EXCEPT !.got = got]
  <2>1. j.pc = "queries" /\ q \in QueriesOf(j.kind) /\ job' = u
    BY <1>0, <1>6 DEF RunQuery, JobRecord
  <2>2. got \in UNION {[D -> Nat] : D \in SUBSET Query} /\ DOMAIN got = DOMAIN j.got \cup {q}
    <3>1. PICK D \in SUBSET Query : j.got \in [D -> Nat]
      BY <1>0 DEF JobRecord
    <3>2. got \in [D \cup {q} -> Nat]
      BY <3>1, Counted DEF Set
    <3>3. D \cup {q} \in SUBSET Query
      OBVIOUS
    <3>4. DOMAIN got = DOMAIN j.got \cup {q}
      BY DEF Set
    <3> HIDE DEF got
    <3> QED BY <3>2, <3>3, <3>4
  <2> HIDE DEF got
  <2>3. u \in JobRecord
    BY <1>0, <2>2 DEF JobRecord
  <2>4. /\ u.kind = j.kind /\ u.asked = j.asked /\ u.left = j.left /\ u.entries = j.entries
        /\ u.current = j.current /\ u.got = got /\ u.pc = j.pc /\ u.document = j.document
    BY <1>0 DEF JobRecord
  <2> HIDE DEF u
  <2>5. Shape(u)
    BY <1>0, <2>1, <2>2, <2>4 DEF Shape, OnOne
  <2>6. Accounted(u)
    BY <1>0, <2>1, <2>4, StillAccounted
  <2> QED BY <1>2, <2>1, <2>3, <2>4, <2>5, <2>6
<1> QED BY <1>1, <1>3, <1>4, <1>5, <1>6

(* The steps of the module, one by one. *)
LEMMA ReportsCases ==
  ASSUME [ReportsNext]_<<photoVars, reportVars>>
  PROVE  \/ Ingest
         \/ Asking
         \/ ReadRevision \/ ReadAnswers \/ ReadPhotos \/ ReadBytes
         \/ AddToLot \/ Answered \/ Pack \/ AnswerQueries \/ GiveUp
         \/ \E i \in Inspection : NextOfLot(i)
         \/ \E q \in Query : RunQuery(q)
         \/ UNCHANGED <<photoVars, reportVars>>
BY DEF ReportsNext, Document

(* An ingestion leaves the reports alone but for the mark that it overlapped one. *)
LEMMA IngestLeaves ==
  ASSUME Ingest
  PROVE  job' = job /\ (raced' <=> job # NoJob) /\ UNCHANGED lotVars
BY DEF Ingest, IngestAnswer, IngestFinding, IngestConflict, IngestPhoto, Written

(* Every step leaves the job well formed and all its inspections accounted for. *)
LEMMA JobInvStep ==
  ASSUME StoreTypes, PhotoTypeInv, JobInv, [ReportsNext]_<<photoVars, reportVars>>
  PROVE  JobInv'
<1>1. ASSUME job' = job PROVE JobInv'
  BY <1>1, StoreStep, JobWritten DEF JobInv
<1>2. CASE Ingest \/ UNCHANGED <<photoVars, reportVars>>
  BY <1>1, <1>2, IngestLeaves DEF reportVars
<1> QED BY <1>2, AskedJob, ReadJob, OtherJob, ReportsCases

(* What a job has read is still what is stored, until an ingestion overlaps it. *)
LEMMA MomentStep ==
  ASSUME StoreTypes, PhotoTypeInv, JobInv, NoStrangeBytes, MomentInv,
         [ReportsNext]_<<photoVars, reportVars>>
  PROVE  MomentInv'
<1>0. JobInv' /\ job' \in JobRecord /\ Shape(job) /\ Shape(job)'
  BY JobInvStep DEF JobInv
<1>1. ASSUME job'.got = << >> PROVE Agreed'
  BY <1>1 DEF Agreed
<1>2. ASSUME job'.pc \in {"idle", "next", "revision", "answers", "queries"} PROVE OfOneMoment(job)'
  BY <1>2 DEF OfOneMoment
<1>3. CASE Ingest
  BY <1>3, IngestLeaves DEF MomentInv
<1>4. CASE Asking
  BY <1>1, <1>2, <1>4, AskedJob DEF MomentInv
<1>5. CASE ReadRevision \/ ReadAnswers \/ ReadPhotos \/ ReadBytes
  <2>1. /\ UNCHANGED <<answer, photo, volume, disputed, raced>> /\ job # NoJob
        /\ ReadAnswers => job.pc = "answers"
        /\ ReadPhotos => job.pc = "photos"
        /\ ReadBytes => job.pc = "bytes"
    BY <1>5 DEF ReadRevision, ReadAnswers, ReadPhotos, ReadBytes, Read, storeVars, photoVars, NoJob
  <2>2. job'.pc # "queries" /\ Agreed'
    <3>1. job'.pc # "queries"
      BY <1>5, ReadJob
    <3> QED BY <1>0, <1>1, <3>1 DEF Shape
  <2> SUFFICES ASSUME ~raced PROVE OfOneMoment(job)'
    BY <2>1, <2>2 DEF MomentInv
  <2>3. OfOneMoment(job)
    BY <2>1 DEF MomentInv
  <2>4. CASE job'.pc \in {"idle", "next", "answers"}
    BY <1>2, <2>4
  <2>5. PhotoOf(job.current) # 0 =>
          job.current \in Photo /\ PhotoOf(job.current) = photo[job.current]
    BY PhotoOfTypes
  <2>6. CASE ReadAnswers /\ job'.pc \in {"photos", "done"} /\ job'.kind = job.kind
             /\ job'.current = job.current /\ (job'.pc = "done" <=> job.kind = "detail")
             /\ job'.document.answer = answer[job.current]
             /\ job'.document.photo = job.document.photo
    BY <1>0, <2>1, <2>6 DEF OfOneMoment, Shape
  <2>7. CASE ReadPhotos /\ job'.kind = job.kind /\ job'.current = job.current
             /\ job'.document.answer = job.document.answer
             /\ job'.document.photo = PhotoOf(job.current)
             /\ job'.pc = IF PhotoOf(job.current) = 0 THEN "done" ELSE "bytes"
    BY <2>1, <2>3, <2>7 DEF OfOneMoment, PhotoOf
  <2>8. CASE ReadBytes /\ job'.pc = "done" /\ job'.kind = job.kind /\ job'.current = job.current
             /\ job'.document.answer = job.document.answer
             /\ job'.document.photo = job.document.photo
             /\ job'.document.bytes # 0
             /\ job'.document.bytes = volume[File(job.current, job.document.photo)]
    <3>1. job.document.photo # 0 /\ job.document.photo = PhotoOf(job.current)
          /\ job'.document.answer = answer[job.current]
      BY <2>1, <2>3, <2>8 DEF OfOneMoment
    <3>2. job'.document.bytes = job.document.photo \/ job.current \in disputed
      BY <2>5, <2>8, <3>1 DEF NoStrangeBytes
    <3> QED BY <2>1, <2>8, <3>1, <3>2 DEF OfOneMoment, PhotoOf
  <2> QED BY <1>5, <2>4, <2>6, <2>7, <2>8, ReadJob
<1>6. CASE \/ AddToLot \/ Answered \/ Pack \/ AnswerQueries \/ GiveUp
           \/ \E i \in Inspection : NextOfLot(i)
  <2>1. job'.pc \in {"idle", "next", "revision", "queries"} /\ job'.pc # "queries"
    <3>1. CASE \/ Answered \/ Pack \/ AnswerQueries \/ GiveUp
      BY <3>1, NoJobIsWhole DEF Answered, Pack, AnswerQueries, GiveUp
    <3>2. CASE AddToLot
      BY <3>2 DEF AddToLot, JobInv, JobRecord
    <3>3. ASSUME NEW i \in Inspection, NextOfLot(i)
          PROVE  job'.pc = "revision"
      BY <3>3 DEF NextOfLot, JobInv, JobRecord
    <3> QED BY <1>6, <3>1, <3>2, <3>3
  <2>2. job'.got = << >>
    BY <1>0, <2>1 DEF Shape
  <2> QED BY <1>1, <1>2, <2>1, <2>2 DEF MomentInv
<1>7. ASSUME NEW q \in Query, RunQuery(q) PROVE MomentInv'
  <2>1. /\ UNCHANGED <<answer, finding, conflicts, raced>> /\ job # NoJob /\ job.pc = "queries"
        /\ job' = [job EXCEPT !.got = Set(job.got, q, AnswerOf(q))]
    BY <1>7 DEF RunQuery, Read, storeVars, NoJob, JobInv, JobRecord
  <2>2. job'.pc = "queries" /\ job'.kind = job.kind /\ job'.got = Set(job.got, q, AnswerOf(q))
    BY <2>1 DEF JobInv, JobRecord
  <2>3. \A r : AnswerOf(r)' = AnswerOf(r)
    BY <2>1, <2>2 DEF AnswerOf, Listed, Count, Arrived
  <2>4. ASSUME ~raced PROVE Agreed'
    <3>1. Agreed
      BY <2>1, <2>4 DEF MomentInv
    <3> QED BY <2>2, <2>3, <3>1 DEF Agreed, Set
  <2> QED BY <1>2, <2>1, <2>2, <2>4 DEF MomentInv
<1>8. CASE UNCHANGED <<photoVars, reportVars>>
  BY <1>8 DEF reportVars, photoVars, MomentInv, OfOneMoment, Agreed, PhotoOf, AnswerOf, Listed,
              Count, Arrived
<1> QED BY <1>3, <1>4, <1>5, <1>6, <1>7, <1>8, ReportsCases

-----------------------------------------------------------------------------
(* What a report is of, and what a lot accounts for.                        *)

MomentIsOne == StoreTypes /\ JobInv /\ MomentInv

(* Before any report nothing has been read. *)
LEMMA ReportsInitially ==
  ReportsInit => StoreTypes /\ JobInv /\ MomentInv /\ NoStrangeBytes /\ LotAccountsForAll
<1> SUFFICES ASSUME ReportsInit
             PROVE  StoreTypes /\ JobInv /\ MomentInv /\ NoStrangeBytes /\ LotAccountsForAll
  OBVIOUS
<1>1. JobInv /\ MomentInv
  BY NoJobIsWhole DEF ReportsInit, JobInv, MomentInv
<1>2. NoStrangeBytes
  BY DEF ReportsInit, PhotoInit, NoStrangeBytes
<1>3. LotAccountsForAll
  BY FS_EmptySet DEF ReportsInit, LotAccountsForAll, NoZip
<1> QED BY <1>1, <1>2, <1>3, StoreInit

(* What is proved of the photos alone holds while reports are made of them. *)
THEOREM ReportsPhotosHold == ReportsSpec => [](PhotoInv /\ NoStrangeBytes)
<1>1. PhotoInv /\ NoStrangeBytes /\ [PhotoNext]_photoVars => NoStrangeBytes'
  BY StrangeBytesStep
<1> QED BY <1>1, PhotoInvHolds, ReportsOnlyRead, ReportsInitially, PhotosGoOn,
           PTL DEF ReportsSpec, PhotoSpec

(* ReportIsOfOneMoment: a document or a count that no ingestion overlapped is of
   the moment when it is answered, whatever happened before it was asked for. *)
THEOREM ReportsAreOfOneMoment == ReportsSpec => []ReportIsOfOneMoment
<1>1. MomentIsOne /\ PhotoInv /\ NoStrangeBytes /\ [ReportsNext]_<<photoVars, reportVars>>
        => MomentIsOne'
  BY StoreStep, JobInvStep, MomentStep DEF MomentIsOne, PhotoInv
<1>2. ReportsSpec => []MomentIsOne
  BY <1>1, ReportsPhotosHold, ReportsInitially, PTL DEF ReportsSpec, MomentIsOne
<1>3. MomentIsOne => ReportIsOfOneMoment
  <2> SUFFICES ASSUME MomentIsOne, job # NoJob, ~raced
               PROVE  ReportIsOfOneMoment
    BY DEF ReportIsOfOneMoment
  <2>1. StoreTypes /\ Shape(job) /\ OfOneMoment(job) /\ Agreed
    BY DEF MomentIsOne, JobInv, MomentInv
  <2>2. job.kind \in {"one", "detail", "lot"} /\ job.pc = "done" =>
          /\ job.document.answer = answer[job.current]
          /\ job.kind # "detail" => job.document.photo = PhotoOf(job.current)
          /\ job.document.photo # 0 =>
               job.document.bytes = job.document.photo \/ job.current \in disputed
    BY <2>1 DEF OfOneMoment
  <2>3. {"severidad", "urgentes"} \subseteq DOMAIN job.got =>
          job.got["urgentes"] <= job.got["severidad"]
    <3>1. Count({"urgent"}) <= Count({"urgent", "resolved"})
      BY <2>1, Counted
    <3>2. AnswerOf("severidad") = Count({"urgent", "resolved"})
          /\ AnswerOf("urgentes") = Count({"urgent"})
      BY DEF AnswerOf
    <3> QED BY <2>1, <3>1, <3>2 DEF Agreed
  <2>4. {"estados", "autores"} \subseteq DOMAIN job.got =>
          (job.got["estados"] = 0 <=> job.got["autores"] = 0)
    <3>1. Cardinality(Arrived) = 0 <=> Arrived = {}
      BY <2>1, Counted, FS_EmptySet
    <3>2. AnswerOf("estados") = Cardinality(Arrived)
          /\ AnswerOf("autores") = IF Arrived = {} THEN 0 ELSE 1
      BY DEF AnswerOf
    <3> QED BY <2>1, <3>1, <3>2 DEF Agreed
  <2>5. {"items", "total"} \subseteq DOMAIN job.got => job.got["items"] = job.got["total"]
    <3>1. AnswerOf("items") = Listed /\ AnswerOf("total") = Listed
      BY DEF AnswerOf
    <3> QED BY <2>1, <3>1 DEF Agreed
  <2> QED BY <2>2, <2>3, <2>4, <2>5 DEF ReportIsOfOneMoment
<1> QED BY <1>2, <1>3, PTL

(* The ZIP is made of the entries of the job, which are all there. *)
LEMMA LotStep ==
  ASSUME JobInv, LotAccountsForAll, [ReportsNext]_<<photoVars, reportVars>>
  PROVE  LotAccountsForAll'
<1>1. CASE UNCHANGED lotVars
  BY <1>1 DEF lotVars, LotAccountsForAll
<1>2. CASE zip' = NoZip
  <2>1. /\ zip'.entries = << >> /\ zip'.asked = {} /\ DOMAIN zip'.files = {}
        /\ DOMAIN << >> = {} /\ Len(<< >>) = 0
    BY <1>2 DEF NoZip
  <2>2. {zip'.entries[k] : k \in DOMAIN zip'.entries} = {}
    BY <2>1
  <2> QED BY <1>2, <2>1, <2>2, FS_EmptySet DEF LotAccountsForAll
<1>3. CASE Pack /\ Exported # {}
  <2> DEFINE S == EntriesOf(job.entries)
             X == ExportedOf(job.entries)
  <2>1. /\ job.entries \in Seq(Entry) /\ EntriesApart(job.entries) /\ job.kind = "lot"
        /\ job.asked = InManifest(job)
    BY <1>3 DEF JobInv, JobRecord, Shape, Accounted, BeingRead, Pack
  <2>2. Exported = X
    BY DEF Exported, ExportedOf, EntriesOf
  <2>3. {e.inspection : e \in S} = job.asked
    BY <2>1 DEF InManifest, EntriesOf
  <2>4. /\ Cardinality(job.asked) = Len(job.entries)
        /\ Cardinality({e.file : e \in X}) = Cardinality(X)
        /\ \A e \in X : (CHOOSE d \in X : d.file = e.file) = e
        /\ Cardinality(S \ X) = Len(job.entries) - Cardinality(X)
    BY <2>1, <2>3, ManifestCounted
  <2>5. /\ zip' = [files |-> [n \in {e.file : e \in X} |-> (CHOOSE e \in X : e.file = n).document],
                   asked |-> job.asked, entries |-> job.entries]
        /\ audit' # << >> =>
             audit' = << [exported |-> {e.inspection : e \in X},
                          failed |-> Cardinality(job.asked) - Cardinality(X)] >>
    BY <1>3, <2>2 DEF Pack, Empaquetar, Auditar
  <2>6. /\ zip'.asked = job.asked /\ zip'.entries = job.entries
        /\ {zip'.entries[k] : k \in DOMAIN zip'.entries} = S
        /\ {e \in S : e.file # Nothing} = X
        /\ DOMAIN zip'.files = {e.file : e \in X}
        /\ \A e \in X : zip'.files[e.file] = e.document
    BY <2>4, <2>5 DEF EntriesOf, ExportedOf
  <2>7. audit' # << >> => /\ audit'[1].exported = {e.inspection : e \in X}
                          /\ audit'[1].failed = Cardinality(S \ X)
    BY <2>4, <2>5
  <2> HIDE DEF S, X
  <2> QED BY <2>3, <2>4, <2>6, <2>7 DEF LotAccountsForAll
<1>4. CASE Asking
  BY <1>2, <1>4 DEF Asking, LotAsk, OneAsk, SummaryAsk, FindingsAsk, ConflictsAsk, Ask
<1>5. Pack => zip' = NoZip \/ Exported # {}
  BY DEF Pack
<1>6. CASE \/ ReadRevision \/ ReadAnswers \/ ReadPhotos \/ ReadBytes
           \/ AddToLot \/ Answered \/ AnswerQueries \/ GiveUp
           \/ \E i \in Inspection : NextOfLot(i)
           \/ \E q \in Query : RunQuery(q)
  BY <1>1, <1>6 DEF ReadRevision, ReadAnswers, ReadPhotos, ReadBytes, AddToLot, Answered,
              AnswerQueries, GiveUp, NextOfLot, RunQuery, Read
<1>7. CASE Ingest \/ UNCHANGED <<photoVars, reportVars>>
  BY <1>1, <1>7, IngestLeaves DEF reportVars, lotVars
<1> QED BY <1>2, <1>3, <1>4, <1>5, <1>6, <1>7, ReportsCases

(* LotAccountsForAll (FR-045, FR-047): every inspection of the period is in the
   manifest of its ZIP once, each one exported has a file of its own with its own
   document, and the audit row counts the same. *)
THEOREM LotsAccountForAll == ReportsSpec => []LotAccountsForAll
<1>1. StoreTypes /\ JobInv /\ PhotoInv /\ [ReportsNext]_<<photoVars, reportVars>>
        => StoreTypes' /\ JobInv'
  BY StoreStep, JobInvStep DEF PhotoInv
<1>2. ReportsSpec => [](StoreTypes /\ JobInv)
  BY <1>1, ReportsPhotosHold, ReportsInitially, PTL DEF ReportsSpec
<1>3. JobInv /\ LotAccountsForAll /\ [ReportsNext]_<<photoVars, reportVars>>
        => LotAccountsForAll'
  BY LotStep
<1> QED BY <1>2, <1>3, ReportsInitially, PTL DEF ReportsSpec
=============================================================================
