------------------------- MODULE TemplateCatalogProofs -------------------------
(* Proofs about the catalogue of templates, for any revisions, templates,
   definitions, imports and transactions at a time. *)
EXTENDS TemplateCatalog, SequenceTheorems, FiniteSetTheorems, TLAPS

-----------------------------------------------------------------------------
(* The greatest of a set of numbers that have a bound. *)

(* Some numbers have a least one. *)
LEMMA LeastNumber ==
  ASSUME NEW S \in SUBSET Nat, S # {}
  PROVE  \E n \in S : \A m \in S : n <= m
<1> DEFINE Less == {pair \in Nat \X Nat : pair[1] < pair[2]}
<1>1. IsWellFoundedOn(Less, Nat)
  BY NatLessThanWellFounded DEF OpToRel
<1>2. PICK n \in S : \A m \in S : <<m, n>> \notin Less
  <2> HIDE DEF Less
  <2> QED BY <1>1, WFMin
<1>3. ASSUME NEW m \in S PROVE ~(m < n)
  BY <1>2
<1> QED BY <1>3

(* The greatest of a set of numbers below a bound is one of them. *)
LEMMA MaxOfBounded ==
  ASSUME NEW S \in SUBSET Nat, NEW n \in Nat, \A m \in S : m <= n
  PROVE  /\ MaxOf(S) \in Nat /\ MaxOf(S) <= n
         /\ S # {} => MaxOf(S) \in S
         /\ \A m \in S : m <= MaxOf(S)
<1>1. CASE S = {}
  BY <1>1 DEF MaxOf
<1>2. CASE S # {}
  <2>1. PICK b \in {k \in Nat : \A m \in S : m <= k} :
          \A k \in {k \in Nat : \A m \in S : m <= k} : b <= k
    BY LeastNumber
  <2>2. b \in S
    <3> SUFFICES ASSUME b \notin S PROVE FALSE
      OBVIOUS
    <3>1. \A m \in S : m < b
      BY <2>1
    <3>2. b > 0
      <4>1. PICK m \in S : TRUE
        BY <1>2
      <4> QED BY <3>1, <4>1, <2>1
    <3>3. \A m \in S : m <= b - 1
      BY <2>1, <3>1
    <3>4. b - 1 \in {k \in Nat : \A m \in S : m <= k}
      BY <2>1, <3>2, <3>3
    <3> QED BY <2>1, <3>4
  <2>3. \E k \in S : \A m \in S : m <= k
    BY <2>1, <2>2
  <2>4. MaxOf(S) \in S /\ \A m \in S : m <= MaxOf(S)
    BY <1>2, <2>3 DEF MaxOf
  <2> QED BY <1>2, <2>4
<1> QED BY <1>1, <1>2

-----------------------------------------------------------------------------
(* One step of the catalogue, by action. *)
ConfirmWrites(x) ==
  \E v \in Revision, t \in Template, d \in Definition, publish \in BOOLEAN :
    ConfirmWrite(x, v, t, d, publish)

(* The steps of the module, one by one. *)
LEMMA CatalogCases ==
  ASSUME [CatalogNext]_catalogVars
  PROVE  \/ \E v \in Revision :
              \/ \E t \in Template, d \in Definition : CreateDraft(v, t, d)
              \/ \E d \in Definition : UpdateDraft(v, d)
              \/ ArchiveDraft(v) \/ Assign(v) \/ Unassign(v)
         \/ \E x \in Tx :
              \/ \E v \in Revision : PublishRead(x, v)
              \/ PublishNumber(x) \/ PublishWrite(x) \/ PublishCommit(x) \/ Rollback(x)
              \/ \E i \in Import : UploadWrite(x, i) \/ ConfirmRead(x, i)
              \/ UploadCommit(x) \/ ConfirmCommit(x) \/ ConfirmWrites(x)
         \/ DeltaAsk \/ DeltaItems \/ DeltaMax \/ DeltaMerge \/ DeltaLost
         \/ UNCHANGED catalogVars
<1>1. CASE Author
  BY <1>1 DEF Author
<1>2. CASE \E x \in Tx : Publish(x) \/ Importing(x)
  <2>1. PICK x \in Tx : Publish(x) \/ Importing(x)
    BY <1>2
  <2>2. CASE Publish(x)
    BY <2>2 DEF Publish
  <2>3. CASE Importing(x)
    BY <2>3 DEF Importing, ConfirmWrites
  <2> QED BY <2>1, <2>2, <2>3
<1>3. CASE Delta
  BY <1>3 DEF Delta
<1> QED BY <1>1, <1>2, <1>3 DEF CatalogNext

-----------------------------------------------------------------------------
(* Types, with what a transaction knows of the rows that it is about.       *)

RevisionRecord == [status : Statuses, template : Template \cup {Nothing},
                   definition : Definition \cup {Nothing}, version : Nat,
                   seq : Nat, source : Import \cup {Nothing}]

(* An id that is not used yet has no row; a row has a template and its items. *)
WellFormedRow(row) ==
  /\ row.status = "none" => row = NoRevision
  /\ row.status # "none" => row.template \in Template /\ row.definition \in Definition

RowTypes ==
  /\ revision \in [Revision -> RevisionRecord]
  /\ \A v \in Revision : WellFormedRow(revision[v])
  /\ items \in [Revision -> Definition \cup {Nothing}]
  /\ assigned \subseteq Published

TxRecord == [pc : {"idle", "number", "write", "commit", "uploaded", "confirm"},
             revision : Revision \cup {Nothing}, template : Template \cup {Nothing},
             definition : Definition \cup {Nothing}, import : Import \cup {Nothing},
             publish : BOOLEAN, version : Nat, seq : Nat]

(* The fields that a transaction has set at each of its steps. *)
WellFormedTx(q) ==
  /\ q.pc = "idle" => q = NoTx
  /\ q.pc \in {"uploaded", "confirm"} =>
       q.import \in Import /\ q.revision = Nothing /\ q.template = Nothing
  /\ q.pc \in {"number", "write", "commit"} =>
       /\ q.revision \in Revision /\ q.template \in Template /\ q.definition \in Definition
       /\ q.pc # "commit" => q.import = Nothing
       /\ q.import = Nothing => q.publish

(* A publication is of a row that is there, a draft once it is locked; a
   confirmation is of a new row of a new template. *)
FitsRows(q) ==
  /\ q.pc \in {"number", "write", "commit"} /\ q.import = Nothing =>
       /\ Status(q.revision) # "none"
       /\ q.template = revision[q.revision].template
       /\ q.pc = "commit" => Status(q.revision) = "draft"
  /\ q.pc = "commit" /\ q.import # Nothing =>
       /\ Status(q.revision) = "none"
       /\ \A w \in Revision : revision[w].template # q.template

(* Two transactions never hold one row, nor is the row or the template that a
   confirmation makes known to another. *)
Apart(q, r) ==
  /\ ~(q.pc = "commit" /\ r.pc = "commit" /\ q.revision = r.revision)
  /\ q.pc = "commit" /\ q.import # Nothing =>
       q.revision # r.revision /\ q.template # r.template

TxTypes ==
  /\ tx \in [Tx -> TxRecord]
  /\ \A x \in Tx : WellFormedTx(tx[x]) /\ FitsRows(tx[x])
  /\ \A x, y \in Tx : x # y => Apart(tx[x], tx[y])

DeltaTypes ==
  /\ nextSeq \in Nat \ {0}
  /\ delta \in [pc : {"idle", "reading"}, items : SUBSET Revision, itemsRead : BOOLEAN,
                max : Nat, maxRead : BOOLEAN]
  /\ device \in [cached : SUBSET Revision, cursor : Nat, admin : BOOLEAN]
  /\ late \cup unread \subseteq Revision /\ edited \subseteq Revision
  /\ requests \in Nat

(* No number was taken from the sequence that is not behind it. *)
SeqsBehind ==
  /\ \A v \in Revision : revision[v].seq < nextSeq
  /\ \A x \in Tx : tx[x].seq < nextSeq
  /\ delta.max < nextSeq /\ device.cursor < nextSeq
  /\ delta.items \subseteq Published

ImportTypes ==
  /\ upload \in [Import -> {"none", "proposed", "failed", "confirmed"}]
  /\ volume \subseteq Import /\ twice \subseteq Import
  /\ confirmed \in [Import -> Nat]

VersionsBounded == \E n \in Nat : \A v \in Revision : revision[v].version <= n

TypeInv == RowTypes /\ TxTypes /\ DeltaTypes /\ ImportTypes /\ VersionsBounded
           /\ SeqsBehind

(* The catalogue begins with no revision and no transaction. *)
LEMMA TypeInvInit == CatalogInit => TypeInv
<1> SUFFICES ASSUME CatalogInit PROVE TypeInv
  OBVIOUS
<1>1. RowTypes
  BY DEF CatalogInit, RowTypes, RevisionRecord, WellFormedRow, NoRevision, Statuses, Published,
         Status
<1>2. \A x \in Tx : tx[x] = NoTx
  BY DEF CatalogInit
<1>3. TxTypes
  BY <1>2 DEF CatalogInit, TxTypes, TxRecord, WellFormedTx, FitsRows, Apart, NoTx
<1>4. DeltaTypes
  BY DEF CatalogInit, DeltaTypes, NoDelta
<1>5. ImportTypes
  BY DEF CatalogInit, ImportTypes
<1>6. VersionsBounded
  BY DEF CatalogInit, VersionsBounded, NoRevision
<1>7. SeqsBehind
  BY DEF CatalogInit, SeqsBehind, NoRevision, NoTx, NoDelta
<1> QED BY <1>1, <1>3, <1>4, <1>5, <1>6, <1>7 DEF TypeInv

(* Who writes the rows of the templates. *)
LEMMA WhoWritesRows ==
  ASSUME [CatalogNext]_catalogVars
  PROVE  \/ UNCHANGED <<revision, items, assigned>>
         \/ \E v \in Revision :
              \/ \E t \in Template, d \in Definition : CreateDraft(v, t, d)
              \/ \E d \in Definition : UpdateDraft(v, d)
              \/ ArchiveDraft(v) \/ Assign(v) \/ Unassign(v)
         \/ \E x \in Tx : PublishCommit(x) \/ ConfirmCommit(x)
<1>1. ASSUME NEW x \in Tx, NEW v \in Revision, PublishRead(x, v)
      PROVE  UNCHANGED <<revision, items, assigned>>
  BY <1>1 DEF PublishRead
<1>2. ASSUME NEW x \in Tx, NEW i \in Import, UploadWrite(x, i) \/ ConfirmRead(x, i)
      PROVE  UNCHANGED <<revision, items, assigned>>
  BY <1>2 DEF UploadWrite, ConfirmRead
<1>3. ASSUME NEW x \in Tx, PublishNumber(x) \/ PublishWrite(x) \/ Rollback(x) \/ UploadCommit(x)
      PROVE  UNCHANGED <<revision, items, assigned>>
  BY <1>3 DEF PublishNumber, PublishWrite, Rollback, UploadCommit
<1>4. ASSUME NEW x \in Tx, ConfirmWrites(x)
      PROVE  UNCHANGED <<revision, items, assigned>>
  BY <1>4 DEF ConfirmWrites, ConfirmWrite
<1>5. CASE DeltaAsk \/ DeltaItems \/ DeltaMax \/ DeltaMerge \/ DeltaLost
  BY <1>5 DEF DeltaAsk, DeltaItems, DeltaMax, DeltaMerge, DeltaLost
<1>6. CASE UNCHANGED catalogVars
  BY <1>6 DEF catalogVars
<1> QED BY <1>1, <1>2, <1>3, <1>4, <1>5, <1>6, CatalogCases

(* What a commit knows of its row. *)
LEMMA CommitFacts ==
  ASSUME TypeInv, NEW x \in Tx, tx[x].pc = "commit"
  PROVE  /\ tx[x].revision \in Revision /\ tx[x].template \in Template
         /\ tx[x].definition \in Definition /\ tx[x].import \in Import \cup {Nothing}
         /\ tx[x].publish \in BOOLEAN /\ tx[x].version \in Nat /\ tx[x].seq \in Nat
         /\ tx[x].import = Nothing =>
              /\ tx[x].publish
              /\ Status(tx[x].revision) = "draft"
              /\ tx[x].template = revision[tx[x].revision].template
         /\ tx[x].import # Nothing =>
              /\ Status(tx[x].revision) = "none"
              /\ revision[tx[x].revision] = NoRevision
              /\ \A w \in Revision : revision[w].template # tx[x].template
<1>1. tx[x] \in TxRecord /\ WellFormedTx(tx[x]) /\ FitsRows(tx[x])
  BY DEF TypeInv, TxTypes
<1>2. tx[x].revision \in Revision
  BY <1>1 DEF WellFormedTx
<1>3. WellFormedRow(revision[tx[x].revision])
  BY <1>2 DEF TypeInv, RowTypes
<1> QED BY <1>1, <1>2, <1>3 DEF TxRecord, WellFormedTx, FitsRows, WellFormedRow, Status

(* Any step leaves the rows of template_revision well formed. *)
LEMMA RowTypesStep ==
  ASSUME TypeInv, [CatalogNext]_catalogVars
  PROVE  RowTypes'
<1>0. RowTypes
  BY DEF TypeInv
<1>1. CASE UNCHANGED <<revision, items, assigned>>
  BY <1>0, <1>1 DEF RowTypes, Published, Status
<1>2. ASSUME NEW v \in Revision, NEW row \in RevisionRecord, WellFormedRow(row),
             revision' = [revision EXCEPT ![v] = row], UNCHANGED assigned,
             items' \in [Revision -> Definition \cup {Nothing}],
             Status(v) = "published" => row.status = "published"
      PROVE  RowTypes'
  <2>1. revision' \in [Revision -> RevisionRecord]
    BY <1>0, <1>2 DEF RowTypes
  <2>2. \A w \in Revision : WellFormedRow(revision'[w])
    BY <1>0, <1>2 DEF RowTypes
  <2>3. Published \subseteq Published'
    BY <1>0, <1>2 DEF RowTypes, Published, Status
  <2> QED BY <1>0, <1>2, <2>1, <2>2, <2>3 DEF RowTypes
<1>3. ASSUME NEW v \in Revision, NEW t \in Template, NEW d \in Definition, CreateDraft(v, t, d)
      PROVE  RowTypes'
  <2>1. Status(v) = "none"
    BY <1>3 DEF CreateDraft, NewRevision, OneOf
  <2>2. [NoRevision EXCEPT !.status = "draft", !.template = t, !.definition = d] \in RevisionRecord
    BY DEF NoRevision, RevisionRecord, Statuses
  <2>3. WellFormedRow([NoRevision EXCEPT !.status = "draft", !.template = t, !.definition = d])
    BY DEF WellFormedRow, NoRevision
  <2> QED BY <1>0, <1>2, <1>3, <2>1, <2>2, <2>3 DEF CreateDraft, RowTypes
<1>4. ASSUME NEW v \in Revision, NEW d \in Definition, UpdateDraft(v, d)
      PROVE  RowTypes'
  <2>1. revision[v] \in RevisionRecord /\ WellFormedRow(revision[v]) /\ revision[v].status = "draft"
    BY <1>0, <1>4 DEF RowTypes, UpdateDraft, Status
  <2>2. [revision[v] EXCEPT !.definition = d] \in RevisionRecord
    BY <2>1 DEF RevisionRecord
  <2>3. WellFormedRow([revision[v] EXCEPT !.definition = d])
    BY <2>1 DEF RevisionRecord, WellFormedRow
  <2>4. revision' = [revision EXCEPT ![v] = [revision[v] EXCEPT !.definition = d]]
    BY <1>4 DEF UpdateDraft
  <2> QED BY <1>0, <1>2, <1>4, <2>1, <2>2, <2>3, <2>4 DEF UpdateDraft, RowTypes, Status
<1>5. ASSUME NEW v \in Revision, ArchiveDraft(v)
      PROVE  RowTypes'
  <2>1. revision[v] \in RevisionRecord /\ WellFormedRow(revision[v]) /\ revision[v].status = "draft"
    BY <1>0, <1>5 DEF RowTypes, ArchiveDraft, Status
  <2>2. [revision[v] EXCEPT !.status = "archived"] \in RevisionRecord
    BY <2>1 DEF RevisionRecord, Statuses
  <2>3. WellFormedRow([revision[v] EXCEPT !.status = "archived"])
    BY <2>1 DEF RevisionRecord, WellFormedRow
  <2>4. revision' = [revision EXCEPT ![v] = [revision[v] EXCEPT !.status = "archived"]]
    BY <1>5 DEF ArchiveDraft
  <2> QED BY <1>0, <1>2, <1>5, <2>1, <2>2, <2>3, <2>4 DEF ArchiveDraft, RowTypes, Status
<1>6. ASSUME NEW v \in Revision, Assign(v) \/ Unassign(v)
      PROVE  RowTypes'
  BY <1>0, <1>6 DEF Assign, Unassign, RowTypes, Published, Status
<1>7. ASSUME NEW x \in Tx, PublishCommit(x)
      PROVE  RowTypes'
  <2> DEFINE v == tx[x].revision
             row == [revision[v] EXCEPT !.status = "published", !.version = tx[x].version,
                                        !.seq = tx[x].seq]
  <2>0. /\ v \in Revision /\ tx[x].definition \in Definition
        /\ tx[x].version \in Nat /\ tx[x].seq \in Nat /\ Status(v) = "draft"
    BY <1>7, CommitFacts DEF PublishCommit
  <2>1. revision[v] \in RevisionRecord /\ WellFormedRow(revision[v]) /\ revision[v].status = "draft"
    BY <1>0, <2>0 DEF RowTypes, Status
  <2>2. row \in RevisionRecord
    BY <2>0, <2>1 DEF RevisionRecord, Statuses
  <2>3. WellFormedRow(row) /\ row.status = "published"
    BY <2>1 DEF RevisionRecord, WellFormedRow
  <2>4. revision' = [revision EXCEPT ![v] = row]
    BY <1>7 DEF PublishCommit
  <2>5. items' \in [Revision -> Definition \cup {Nothing}] /\ UNCHANGED assigned
    BY <1>0, <1>7, <2>0 DEF PublishCommit, RowTypes
  <2> QED BY <1>2, <2>0, <2>2, <2>3, <2>4, <2>5
<1>8. ASSUME NEW x \in Tx, ConfirmCommit(x)
      PROVE  RowTypes'
  <2> DEFINE q == tx[x]
             row == [status |-> IF q.publish THEN "published" ELSE "draft",
                     template |-> q.template, definition |-> q.definition,
                     version |-> q.version, seq |-> q.seq, source |-> q.import]
  <2>0. /\ q.revision \in Revision /\ q.definition \in Definition /\ q.template \in Template
        /\ q.version \in Nat /\ q.seq \in Nat /\ Status(q.revision) = "none"
        /\ q.import \in Import
    BY <1>8, CommitFacts DEF ConfirmCommit
  <2>1. row \in RevisionRecord
    BY <2>0 DEF RevisionRecord, Statuses
  <2>2. WellFormedRow(row)
    BY <2>0 DEF WellFormedRow
  <2>3. revision' = [revision EXCEPT ![q.revision] = row]
    BY <1>8 DEF ConfirmCommit
  <2>4. items' \in [Revision -> Definition \cup {Nothing}] /\ UNCHANGED assigned
    BY <1>0, <1>8, <2>0 DEF ConfirmCommit, RowTypes
  <2> HIDE DEF row
  <2> QED BY <1>2, <2>0, <2>1, <2>2, <2>3, <2>4
<1> QED BY <1>1, <1>3, <1>4, <1>5, <1>6, <1>7, <1>8, WhoWritesRows

-----------------------------------------------------------------------------
(* A transaction makes its step: the others stay as they were. *)
LEMMA TxSteps ==
  ASSUME TxTypes, NEW x \in Tx, NEW q \in TxRecord, tx' = [tx EXCEPT ![x] = q],
         WellFormedTx(q), q.pc # "idle" => FitsRows(tx[x])', 
         \A y \in Tx \ {x} : FitsRows(tx[y])' /\ Apart(q, tx[y]) /\ Apart(tx[y], q)
  PROVE  TxTypes'
<1>1. tx' \in [Tx -> TxRecord] /\ tx'[x] = q /\ \A y \in Tx \ {x} : tx'[y] = tx[y]
  BY DEF TxTypes
<1>2. FitsRows(tx[x])'
  BY <1>1 DEF FitsRows
<1>3. ASSUME NEW y \in Tx PROVE WellFormedTx(tx'[y]) /\ FitsRows(tx[y])'
  BY <1>1, <1>2 DEF TxTypes
<1>4. ASSUME NEW y \in Tx, NEW z \in Tx, y # z PROVE Apart(tx'[y], tx'[z])
  BY <1>1, <1>4 DEF TxTypes
<1> QED BY <1>1, <1>3, <1>4 DEF TxTypes

(* The rows that transactions are about. *)
LEMMA SameRowsFit ==
  ASSUME UNCHANGED revision, NEW y \in Tx, tx'[y] = tx[y], FitsRows(tx[y])
  PROVE  FitsRows(tx[y])'
BY DEF FitsRows, Status

(* Who writes the table of transactions. *)
LEMMA WhoWritesTx ==
  ASSUME [CatalogNext]_catalogVars
  PROVE  \/ UNCHANGED <<tx, revision>>
         \/ UNCHANGED tx /\ \E v \in Revision :
              \/ \E t \in Template, d \in Definition : CreateDraft(v, t, d)
              \/ \E d \in Definition : UpdateDraft(v, d)
              \/ ArchiveDraft(v)
         \/ \E x \in Tx :
              \/ \E v \in Revision : PublishRead(x, v)
              \/ PublishNumber(x) \/ PublishWrite(x) \/ PublishCommit(x) \/ Rollback(x)
              \/ \E i \in Import : UploadWrite(x, i) \/ ConfirmRead(x, i)
              \/ UploadCommit(x) \/ ConfirmCommit(x) \/ ConfirmWrites(x)
<1>1. ASSUME NEW v \in Revision, Assign(v) \/ Unassign(v)
      PROVE  UNCHANGED <<tx, revision>>
  BY <1>1 DEF Assign, Unassign
<1>2. ASSUME NEW v \in Revision, NEW t \in Template, NEW d \in Definition, CreateDraft(v, t, d)
      PROVE  UNCHANGED tx
  BY <1>2 DEF CreateDraft
<1>3. ASSUME NEW v \in Revision, NEW d \in Definition, UpdateDraft(v, d)
      PROVE  UNCHANGED tx
  BY <1>3 DEF UpdateDraft
<1>4. ASSUME NEW v \in Revision, ArchiveDraft(v)
      PROVE  UNCHANGED tx
  BY <1>4 DEF ArchiveDraft
<1>5. CASE DeltaAsk \/ DeltaItems \/ DeltaMax \/ DeltaMerge \/ DeltaLost
  BY <1>5 DEF DeltaAsk, DeltaItems, DeltaMax, DeltaMerge, DeltaLost
<1>6. CASE UNCHANGED catalogVars
  BY <1>6 DEF catalogVars
<1> QED BY <1>1, <1>2, <1>3, <1>4, <1>5, <1>6, CatalogCases

(* The next version of a template is a number. *)
LEMMA NextVersionType ==
  ASSUME TypeInv, NEW t
  PROVE  NextVersion(t) \in Nat
<1>1. PICK n \in Nat : \A v \in Revision : revision[v].version <= n
  BY DEF TypeInv, VersionsBounded
<1> DEFINE S == {revision[w].version : w \in OfTemplate(t)}
<1>2. S \in SUBSET Nat /\ \A m \in S : m <= n
  BY <1>1 DEF TypeInv, RowTypes, RevisionRecord, OfTemplate, Published
<1>3. MaxOf(S) \in Nat
  BY <1>2, MaxOfBounded
<1> QED BY <1>3 DEF NextVersion

(* Any step leaves the transactions well formed: they hold rows that exist. *)
LEMMA TxTypesStep ==
  ASSUME TypeInv, [CatalogNext]_catalogVars
  PROVE  TxTypes'
<1>0. /\ RowTypes /\ TxTypes
      /\ tx \in [Tx -> TxRecord]
      /\ \A x \in Tx : tx[x] \in TxRecord /\ WellFormedTx(tx[x]) /\ FitsRows(tx[x])
      /\ \A x, y \in Tx : x # y => Apart(tx[x], tx[y])
  BY DEF TypeInv, TxTypes
<1>1. CASE UNCHANGED <<tx, revision>>
  BY <1>0, <1>1 DEF TxTypes, FitsRows, Status
<1>2. ASSUME UNCHANGED tx, \A y \in Tx : FitsRows(tx[y])'
      PROVE  TxTypes'
  BY <1>0, <1>2 DEF TxTypes
<1>3. ASSUME NEW v \in Revision, NEW t \in Template, NEW d \in Definition, CreateDraft(v, t, d)
      PROVE  TxTypes'
  <2>1. /\ Status(v) = "none" /\ \A y \in Tx : tx[y].revision # v
        /\ UNCHANGED tx
        /\ revision' \in [Revision -> RevisionRecord]
        /\ \A w \in Revision \ {v} : revision'[w] = revision[w]
        /\ revision'[v].template = t
    BY <1>0, <1>3, RowTypesStep DEF CreateDraft, NewRevision, OneOf, RowTypes, NoRevision
  <2>2. \/ \A y \in Tx : tx[y].template # t
        \/ \E w \in Revision : revision[w].template = t
    BY <1>3 DEF CreateDraft, NewTemplate, OneOf
  <2>3. ASSUME NEW y \in Tx PROVE FitsRows(tx[y])'
    <3>1. WellFormedTx(tx[y]) /\ FitsRows(tx[y])
      BY <1>0
    <3> QED BY <2>1, <2>2, <3>1 DEF FitsRows, WellFormedTx, Status
  <2> QED BY <1>2, <2>1, <2>3
<1>4. ASSUME NEW v \in Revision, NEW d \in Definition, UpdateDraft(v, d)
      PROVE  TxTypes'
  <2>1. /\ UNCHANGED tx
        /\ \A w \in Revision : /\ revision'[w].status = revision[w].status
                               /\ revision'[w].template = revision[w].template
    BY <1>0, <1>4 DEF UpdateDraft, RowTypes, RevisionRecord
  <2>2. ASSUME NEW y \in Tx PROVE FitsRows(tx[y])'
    <3>1. WellFormedTx(tx[y]) /\ FitsRows(tx[y])
      BY <1>0
    <3> QED BY <2>1, <3>1 DEF FitsRows, WellFormedTx, Status
  <2> QED BY <1>2, <2>1, <2>2
<1>5. ASSUME NEW v \in Revision, ArchiveDraft(v)
      PROVE  TxTypes'
  <2>1. /\ UNCHANGED tx
        /\ Status(v) = "draft" /\ revision'[v].status = "archived"
        /\ \A w \in Revision : revision'[w].template = revision[w].template
        /\ \A w \in Revision \ {v} : revision'[w] = revision[w]
        /\ \A y \in Tx : tx[y].pc = "commit" => tx[y].revision # v
    BY <1>0, <1>5 DEF ArchiveDraft, RowTypes, RevisionRecord, Locked
  <2>2. ASSUME NEW y \in Tx PROVE FitsRows(tx[y])'
    <3>1. WellFormedTx(tx[y]) /\ FitsRows(tx[y])
      BY <1>0
    <3> QED BY <2>1, <3>1 DEF FitsRows, WellFormedTx, Status
  <2> QED BY <1>2, <2>1, <2>2
<1>6. ASSUME NEW x \in Tx, NEW q \in TxRecord, tx' = [tx EXCEPT ![x] = q], WellFormedTx(q),
             UNCHANGED revision, q.pc # "idle" => FitsRows(tx[x])',
             \A y \in Tx \ {x} : Apart(q, tx[y]) /\ Apart(tx[y], q)
      PROVE  TxTypes'
  <2>1. \A y \in Tx \ {x} : FitsRows(tx[y])'
    <3> SUFFICES ASSUME NEW y \in Tx \ {x} PROVE FitsRows(tx[y])'
      OBVIOUS
    <3>1. tx'[y] = tx[y]
      BY <1>0, <1>6
    <3> QED BY <1>0, <1>6, <3>1, SameRowsFit
  <2> QED BY <1>0, <1>6, <2>1, TxSteps
<1>7. ASSUME NEW x \in Tx, NEW v \in Revision, PublishRead(x, v)
      PROVE  TxTypes'
  <2> DEFINE q == [NoTx EXCEPT !.pc = "number", !.revision = v, !.publish = TRUE,
                      !.template = revision[v].template, !.definition = revision[v].definition]
  <2>1. /\ revision[v].template \in Template /\ revision[v].definition \in Definition
        /\ Status(v) = "draft" /\ UNCHANGED revision
        /\ tx' = [tx EXCEPT ![x] = q]
    BY <1>0, <1>7 DEF PublishRead, RowTypes, WellFormedRow, Status
  <2>2. /\ q \in TxRecord /\ WellFormedTx(q)
        /\ q.pc = "number" /\ q.revision = v /\ q.template = revision[v].template
        /\ q.import = Nothing
    BY <2>1 DEF NoTx, TxRecord, WellFormedTx
  <2> HIDE DEF q
  <2>3. FitsRows(tx[x])'
    BY <1>0, <2>1, <2>2 DEF FitsRows, Status
  <2>4. ASSUME NEW y \in Tx \ {x} PROVE Apart(q, tx[y]) /\ Apart(tx[y], q)
    BY <1>0, <2>1, <2>2, <2>4 DEF Apart, FitsRows
  <2> QED BY <1>6, <2>1, <2>2, <2>3, <2>4
<1>8. ASSUME NEW x \in Tx, PublishNumber(x)
      PROVE  TxTypes'
  <2> DEFINE q == [tx[x] EXCEPT !.pc = "write", !.version = NextVersion(tx[x].template)]
  <2>1. NextVersion(tx[x].template) \in Nat
    BY NextVersionType
  <2>2. /\ tx' = [tx EXCEPT ![x] = q] /\ UNCHANGED revision /\ tx[x].pc = "number"
    BY <1>8 DEF PublishNumber
  <2>3. /\ q \in TxRecord /\ WellFormedTx(q) /\ q.pc = "write"
        /\ q.revision = tx[x].revision /\ q.template = tx[x].template /\ q.import = tx[x].import
    BY <1>0, <2>1, <2>2 DEF TxRecord, WellFormedTx
  <2> HIDE DEF q
  <2>4. FitsRows(tx[x])'
    BY <1>0, <2>2, <2>3 DEF FitsRows, Status
  <2>5. ASSUME NEW y \in Tx \ {x} PROVE Apart(q, tx[y]) /\ Apart(tx[y], q)
    BY <1>0, <2>2, <2>3, <2>5 DEF Apart
  <2> QED BY <1>6, <2>2, <2>3, <2>4, <2>5
<1>9. ASSUME NEW x \in Tx, PublishWrite(x)
      PROVE  TxTypes'
  <2> DEFINE q == [tx[x] EXCEPT !.pc = "commit", !.seq = nextSeq]
  <2>1. /\ tx' = [tx EXCEPT ![x] = q] /\ UNCHANGED revision /\ tx[x].pc = "write"
        /\ Status(tx[x].revision) = "draft" /\ nextSeq \in Nat
        /\ \A y \in Tx \ {x} : ~(tx[y].pc = "commit" /\ tx[y].publish
                                   /\ tx[y].revision = tx[x].revision)
    BY <1>9 DEF PublishWrite, Waits, TypeInv, DeltaTypes
  <2>2. /\ q \in TxRecord /\ WellFormedTx(q) /\ q.pc = "commit" /\ q.import = Nothing
        /\ q.revision = tx[x].revision /\ q.template = tx[x].template /\ tx[x].import = Nothing
    BY <1>0, <2>1 DEF TxRecord, WellFormedTx
  <2> HIDE DEF q
  <2>3. FitsRows(tx[x])'
    BY <1>0, <2>1, <2>2 DEF FitsRows, Status
  <2>4. ASSUME NEW y \in Tx \ {x} PROVE Apart(q, tx[y]) /\ Apart(tx[y], q)
    BY <1>0, <2>1, <2>2, <2>4 DEF Apart, WellFormedTx, FitsRows
  <2> QED BY <1>6, <2>1, <2>2, <2>3, <2>4
<1>10. ASSUME NEW x \in Tx, NEW v \in Revision, NEW t \in Template, NEW d \in Definition,
              NEW publish \in BOOLEAN, ConfirmWrite(x, v, t, d, publish)
       PROVE  TxTypes'
  <2> DEFINE q == [pc |-> "commit", revision |-> v, template |-> t, definition |-> d,
                   import |-> tx[x].import, publish |-> publish,
                   version |-> IF publish THEN 1 ELSE 0, seq |-> IF publish THEN nextSeq ELSE 0]
  <2>1. /\ tx' = [tx EXCEPT ![x] = q] /\ UNCHANGED revision /\ tx[x].pc = "confirm"
        /\ Status(v) = "none" /\ nextSeq \in Nat
        /\ \A y \in Tx : tx[y].revision # v /\ tx[y].template # t
        /\ \A w \in Revision : revision[w].template # t
    BY <1>10 DEF ConfirmWrite, NewRevision, NewTemplate, OneOf, TypeInv, DeltaTypes
  <2>2. tx[x].import \in Import
    BY <1>0, <2>1 DEF WellFormedTx
  <2>3. /\ q \in TxRecord /\ WellFormedTx(q) /\ q.pc = "commit" /\ q.import = tx[x].import
        /\ q.revision = v /\ q.template = t
    BY <2>1, <2>2, CatalogAssumption DEF TxRecord, WellFormedTx
  <2> HIDE DEF q
  <2>4. FitsRows(tx[x])'
    BY <1>0, <2>1, <2>2, <2>3, CatalogAssumption DEF FitsRows, Status
  <2>5. ASSUME NEW y \in Tx \ {x} PROVE Apart(q, tx[y]) /\ Apart(tx[y], q)
    BY <1>0, <2>1, <2>3, <2>5 DEF Apart
  <2> QED BY <1>6, <2>1, <2>3, <2>4, <2>5
<1>11. ASSUME NEW x \in Tx, NEW i \in Import, UploadWrite(x, i) \/ ConfirmRead(x, i)
       PROVE  TxTypes'
  <2> DEFINE q == [NoTx EXCEPT !.pc = IF UploadWrite(x, i) THEN "uploaded" ELSE "confirm",
                               !.import = i]
  <2>1. tx' = [tx EXCEPT ![x] = q] /\ UNCHANGED revision
    BY <1>11 DEF UploadWrite, ConfirmRead
  <2>2. /\ q \in TxRecord /\ WellFormedTx(q) /\ q.pc \in {"uploaded", "confirm"}
        /\ q.revision = Nothing /\ q.template = Nothing
    BY DEF NoTx, TxRecord, WellFormedTx
  <2> HIDE DEF q
  <2>3. FitsRows(tx[x])'
    BY <1>0, <2>1, <2>2 DEF FitsRows
  <2>4. ASSUME NEW y \in Tx \ {x} PROVE Apart(q, tx[y]) /\ Apart(tx[y], q)
    BY <1>0, <2>2, <2>4, CatalogAssumption DEF Apart, WellFormedTx
  <2> QED BY <1>6, <2>1, <2>2, <2>3, <2>4
<1>12. ASSUME NEW x \in Tx, tx' = [tx EXCEPT ![x] = NoTx],
              \A y \in Tx \ {x} : FitsRows(tx[y])'
       PROVE  TxTypes'
  <2>1. /\ NoTx \in TxRecord /\ WellFormedTx(NoTx) /\ NoTx.pc = "idle"
        /\ NoTx.revision = Nothing /\ NoTx.template = Nothing
    BY DEF NoTx, TxRecord, WellFormedTx
  <2>2. ASSUME NEW y \in Tx \ {x} PROVE Apart(NoTx, tx[y]) /\ Apart(tx[y], NoTx)
    BY <1>0, <2>1, <2>2, CatalogAssumption DEF Apart, WellFormedTx
  <2> QED BY <1>0, <1>12, <2>1, <2>2, TxSteps
<1>13. ASSUME NEW x \in Tx, Rollback(x) \/ UploadCommit(x)
       PROVE  TxTypes'
  <2>1. tx' = [tx EXCEPT ![x] = NoTx] /\ UNCHANGED revision
    BY <1>13 DEF Rollback, UploadCommit
  <2>2. ASSUME NEW y \in Tx \ {x} PROVE FitsRows(tx[y])'
    BY <1>0, <2>1, <2>2, SameRowsFit
  <2> QED BY <1>12, <2>1, <2>2
<1>14. ASSUME NEW x \in Tx, PublishCommit(x)
       PROVE  TxTypes'
  <2>1. /\ tx' = [tx EXCEPT ![x] = NoTx] /\ tx[x].pc = "commit"
        /\ tx[x].revision \in Revision /\ Status(tx[x].revision) = "draft"
        /\ \A w \in Revision : revision'[w].template = revision[w].template
        /\ \A w \in Revision \ {tx[x].revision} : revision'[w] = revision[w]
        /\ revision'[tx[x].revision].status = "published"
    BY <1>0, <1>14, CommitFacts DEF PublishCommit, RowTypes, RevisionRecord
  <2>2. ASSUME NEW y \in Tx \ {x} PROVE FitsRows(tx[y])'
    <3>1. /\ WellFormedTx(tx[y]) /\ FitsRows(tx[y]) /\ Apart(tx[x], tx[y])
          /\ tx'[y] = tx[y]
      BY <1>0, <2>1
    <3> QED BY <2>1, <3>1 DEF FitsRows, WellFormedTx, Status, Apart
  <2> QED BY <1>12, <2>1, <2>2
<1>15. ASSUME NEW x \in Tx, ConfirmCommit(x)
       PROVE  TxTypes'
  <2>1. /\ tx' = [tx EXCEPT ![x] = NoTx] /\ tx[x].pc = "commit" /\ tx[x].import # Nothing
        /\ tx[x].revision \in Revision /\ Status(tx[x].revision) = "none"
        /\ \A w \in Revision \ {tx[x].revision} : revision'[w] = revision[w]
        /\ revision'[tx[x].revision].template = tx[x].template
    BY <1>0, <1>15, CommitFacts DEF ConfirmCommit, RowTypes, RevisionRecord
  <2>2. ASSUME NEW y \in Tx \ {x} PROVE FitsRows(tx[y])'
    <3>1. /\ WellFormedTx(tx[y]) /\ FitsRows(tx[y]) /\ Apart(tx[x], tx[y])
          /\ tx'[y] = tx[y]
      BY <1>0, <2>1
    <3> QED BY <2>1, <3>1 DEF FitsRows, WellFormedTx, Status, Apart
  <2> QED BY <1>12, <2>1, <2>2
<1> QED BY <1>1, <1>3, <1>4, <1>5, <1>7, <1>8, <1>9, <1>10, <1>11, <1>13, <1>14, <1>15,
           WhoWritesTx DEF ConfirmWrites

-----------------------------------------------------------------------------

(* The versions given so far have a bound. *)
LEMMA VersionsBoundedStep ==
  ASSUME TypeInv, [CatalogNext]_catalogVars
  PROVE  VersionsBounded'
<1>1. PICK n \in Nat : \A v \in Revision : revision[v].version <= n
  BY DEF TypeInv, VersionsBounded
<1>2. RowTypes /\ revision \in [Revision -> RevisionRecord]
  BY DEF TypeInv, RowTypes
<1>3. ASSUME NEW m \in Nat, \A v \in Revision : revision'[v].version \in {revision[v].version, m}
      PROVE  VersionsBounded'
  <2>1. \A v \in Revision : revision'[v].version <= n + m
    BY <1>1, <1>2, <1>3 DEF RevisionRecord
  <2>2. n + m \in Nat
    OBVIOUS
  <2> QED BY <2>1, <2>2 DEF VersionsBounded
<1>4. CASE UNCHANGED revision
  BY <1>3, <1>4
<1>5. ASSUME NEW v \in Revision, NEW t \in Template, NEW d \in Definition, CreateDraft(v, t, d)
      PROVE  VersionsBounded'
  BY <1>2, <1>3, <1>5 DEF CreateDraft, NoRevision
<1>6. ASSUME NEW v \in Revision, NEW d \in Definition, UpdateDraft(v, d)
      PROVE  VersionsBounded'
  BY <1>2, <1>3, <1>6 DEF UpdateDraft, RevisionRecord
<1>7. ASSUME NEW v \in Revision, ArchiveDraft(v)
      PROVE  VersionsBounded'
  BY <1>2, <1>3, <1>7 DEF ArchiveDraft, RevisionRecord
<1>8. ASSUME NEW x \in Tx, PublishCommit(x) \/ ConfirmCommit(x)
      PROVE  VersionsBounded'
  <2>1. tx[x].version \in Nat /\ tx[x].revision \in Revision
    BY <1>8, CommitFacts DEF PublishCommit, ConfirmCommit
  <2>2. \A v \in Revision : revision'[v].version \in {revision[v].version, tx[x].version}
    BY <1>2, <1>8, <2>1 DEF PublishCommit, ConfirmCommit, RevisionRecord
  <2> QED BY <1>3, <2>1, <2>2
<1>9. ASSUME NEW v \in Revision, Assign(v) \/ Unassign(v)
      PROVE  VersionsBounded'
  BY <1>4, <1>9 DEF Assign, Unassign
<1> QED BY <1>4, <1>5, <1>6, <1>7, <1>8, <1>9, WhoWritesRows

-----------------------------------------------------------------------------
(* The numbers of the sequence. *)

(* The last number that is seen is below the next one. *)
LEMMA LatestSeqType ==
  ASSUME TypeInv
  PROVE  LatestSeq \in Nat /\ LatestSeq < nextSeq
<1> DEFINE S == {revision[v].seq : v \in {w \in Revision : Visible(w)}}
<1>1. nextSeq \in Nat /\ nextSeq - 1 \in Nat
  BY DEF TypeInv, DeltaTypes
<1>2. S \in SUBSET Nat /\ \A m \in S : m <= nextSeq - 1
  BY <1>1 DEF TypeInv, RowTypes, RevisionRecord, SeqsBehind
<1>3. MaxOf(S) \in Nat /\ MaxOf(S) <= nextSeq - 1
  BY <1>1, <1>2, MaxOfBounded
<1>4. LatestSeq = MaxOf(S)
  BY DEF LatestSeq
<1> QED BY <1>1, <1>3, <1>4

(* The cursor moves to one of the numbers that were read, and none is beyond it. *)
LEMMA CursorAfterFacts ==
  ASSUME TypeInv, NEW c, c = CursorAfter(device.cursor, delta.items, delta.max)
  PROVE  /\ c \in Nat /\ c < nextSeq
         /\ c \in {device.cursor, delta.max} \/ \E w \in delta.items : c = revision[w].seq
         /\ device.cursor <= c
<1> DEFINE S == {device.cursor, delta.max} \cup {revision[v].seq : v \in delta.items}
<1>1. nextSeq \in Nat /\ nextSeq - 1 \in Nat
  BY DEF TypeInv, DeltaTypes
<1>2. device.cursor \in Nat /\ delta.max \in Nat /\ delta.items \subseteq Revision
  BY DEF TypeInv, DeltaTypes
<1>3. S \in SUBSET Nat /\ \A m \in S : m <= nextSeq - 1
  BY <1>1, <1>2 DEF TypeInv, RowTypes, RevisionRecord, SeqsBehind
<1>4. c = MaxOf(S)
  BY DEF CursorAfter
<1>5. c \in Nat /\ c <= nextSeq - 1 /\ c \in S /\ device.cursor <= c
  BY <1>1, <1>3, <1>4, MaxOfBounded
<1> QED BY <1>1, <1>5

(* The reader of the delta and what the device has stay well typed. *)
LEMMA DeltaTypesStep ==
  ASSUME TypeInv, [CatalogNext]_catalogVars
  PROVE  DeltaTypes'
<1>0. DeltaTypes /\ RowTypes /\ TxTypes
  BY DEF TypeInv
<1>1. ASSUME NEW v \in Revision, NEW t \in Template, NEW d \in Definition, CreateDraft(v, t, d)
      PROVE  DeltaTypes'
  BY <1>0, <1>1 DEF CreateDraft, Request, DeltaTypes, deviceVars, history
<1>2. ASSUME NEW v \in Revision, NEW d \in Definition, UpdateDraft(v, d)
      PROVE  DeltaTypes'
  BY <1>0, <1>2 DEF UpdateDraft, Request, DeltaTypes, deviceVars, history
<1>3. ASSUME NEW v \in Revision, ArchiveDraft(v) \/ Assign(v) \/ Unassign(v)
      PROVE  DeltaTypes'
  BY <1>0, <1>3 DEF ArchiveDraft, Assign, Unassign, Noted, Request, DeltaTypes, deviceVars, history
<1>4. ASSUME NEW x \in Tx, NEW v \in Revision, PublishRead(x, v)
      PROVE  DeltaTypes'
  BY <1>0, <1>4 DEF PublishRead, Request, DeltaTypes, deviceVars, history
<1>5. ASSUME NEW x \in Tx, PublishNumber(x) \/ PublishWrite(x) \/ Rollback(x) \/ UploadCommit(x)
      PROVE  DeltaTypes'
  BY <1>0, <1>5 DEF PublishNumber, PublishWrite, Rollback, UploadCommit, DeltaTypes, deviceVars, history
<1>6. ASSUME NEW x \in Tx, PublishCommit(x) \/ ConfirmCommit(x)
      PROVE  DeltaTypes'
  <2>1. tx[x].revision \in Revision
    BY <1>6, CommitFacts DEF PublishCommit, ConfirmCommit
  <2> QED BY <1>0, <1>6, <2>1 DEF PublishCommit, ConfirmCommit, Noted, DeltaTypes, deviceVars, history
<1>7. ASSUME NEW x \in Tx, NEW i \in Import, UploadWrite(x, i) \/ ConfirmRead(x, i)
      PROVE  DeltaTypes'
  BY <1>0, <1>7 DEF UploadWrite, ConfirmRead, Request, DeltaTypes, deviceVars, history
<1>8. ASSUME NEW x \in Tx, ConfirmWrites(x)
      PROVE  DeltaTypes'
  BY <1>0, <1>8 DEF ConfirmWrites, ConfirmWrite, DeltaTypes, deviceVars, history
<1>9. CASE DeltaAsk \/ DeltaLost
  <2>1. delta' \in {NoDelta, [NoDelta EXCEPT !.pc = "reading"]}
    BY <1>9 DEF DeltaAsk, DeltaLost
  <2> DEFINE Deltas == [pc : {"idle", "reading"}, items : SUBSET Revision, itemsRead : BOOLEAN,
                        max : Nat, maxRead : BOOLEAN]
  <2>2. delta' \in Deltas
    <3>1. NoDelta \in Deltas
      BY DEF NoDelta
    <3>2. [NoDelta EXCEPT !.pc = "reading"] \in Deltas
      BY <3>1
    <3> QED BY <2>1, <3>1, <3>2
  <2>3. CASE DeltaAsk
    BY <1>0, <2>2, <2>3 DEF DeltaAsk, Request, DeltaTypes, history
  <2>4. CASE DeltaLost
    BY <1>0, <2>2, <2>4 DEF DeltaLost, DeltaTypes, history
  <2> QED BY <1>9, <2>3, <2>4
<1>10. CASE DeltaItems
  <2>1. {v \in Revision : Visible(v) /\ revision[v].seq > device.cursor} \in SUBSET Revision
    OBVIOUS
  <2> QED BY <1>0, <1>10, <2>1 DEF DeltaItems, DeltaTypes, history
<1>11. CASE DeltaMax
  BY <1>0, <1>11, LatestSeqType DEF DeltaMax, DeltaTypes, history
<1>12. CASE DeltaMerge
  <2>1. device' = [device EXCEPT !.cached = device.cached \cup delta.items,
                     !.cursor = CursorAfter(device.cursor, delta.items, delta.max)]
    BY <1>12 DEF DeltaMerge
  <2>2. CursorAfter(device.cursor, delta.items, delta.max) \in Nat
    BY CursorAfterFacts
  <2>3. NoDelta \in [pc : {"idle", "reading"}, items : SUBSET Revision, itemsRead : BOOLEAN,
                     max : Nat, maxRead : BOOLEAN]
    BY DEF NoDelta
  <2> QED BY <1>0, <1>12, <2>1, <2>2, <2>3 DEF DeltaMerge, DeltaTypes, history
<1>13. CASE UNCHANGED catalogVars
  BY <1>0, <1>13 DEF catalogVars, DeltaTypes, history
<1> QED BY <1>1, <1>2, <1>3, <1>4, <1>5, <1>6, <1>7, <1>8, <1>9, <1>10, <1>11, <1>12, <1>13,
           CatalogCases

(* What is published stays as it was published. *)
LEMMA PublishedStays ==
  ASSUME TypeInv, [CatalogNext]_catalogVars, NEW v \in Published
  PROVE  v \in Published' /\ revision'[v] = revision[v]
<1>0. RowTypes /\ v \in Revision /\ Status(v) = "published"
  BY DEF TypeInv, Published
<1>1. CASE UNCHANGED revision
  BY <1>0, <1>1 DEF Published, Status
<1>2. ASSUME NEW w \in Revision, NEW row \in RevisionRecord, Status(w) # "published",
             revision' = [revision EXCEPT ![w] = row]
      PROVE  v \in Published' /\ revision'[v] = revision[v]
  BY <1>0, <1>2 DEF RowTypes, Published, Status
<1>3. ASSUME NEW w \in Revision, Status(w) # "published",
             \A u \in Revision \ {w} : revision'[u] = revision[u]
      PROVE  v \in Published' /\ revision'[v] = revision[v]
  BY <1>0, <1>3 DEF Published, Status
<1>4. ASSUME NEW w \in Revision, NEW t \in Template, NEW d \in Definition, CreateDraft(w, t, d)
      PROVE  v \in Published' /\ revision'[v] = revision[v]
  BY <1>0, <1>3, <1>4 DEF CreateDraft, NewRevision, OneOf, RowTypes
<1>5. ASSUME NEW w \in Revision, NEW d \in Definition, UpdateDraft(w, d)
      PROVE  v \in Published' /\ revision'[v] = revision[v]
  BY <1>0, <1>3, <1>5 DEF UpdateDraft, RowTypes
<1>6. ASSUME NEW w \in Revision, ArchiveDraft(w)
      PROVE  v \in Published' /\ revision'[v] = revision[v]
  BY <1>0, <1>3, <1>6 DEF ArchiveDraft, RowTypes
<1>7. ASSUME NEW w \in Revision, Assign(w) \/ Unassign(w)
      PROVE  v \in Published' /\ revision'[v] = revision[v]
  BY <1>1, <1>7 DEF Assign, Unassign
<1>8. ASSUME NEW x \in Tx, PublishCommit(x) \/ ConfirmCommit(x)
      PROVE  v \in Published' /\ revision'[v] = revision[v]
  <2>1. tx[x].revision \in Revision /\ Status(tx[x].revision) # "published"
    BY <1>8, CommitFacts DEF PublishCommit, ConfirmCommit
  <2>2. \A u \in Revision \ {tx[x].revision} : revision'[u] = revision[u]
    BY <1>0, <1>8 DEF PublishCommit, ConfirmCommit, RowTypes
  <2> QED BY <1>3, <2>1, <2>2
<1> QED BY <1>1, <1>4, <1>5, <1>6, <1>7, <1>8, WhoWritesRows

(* No published number is ahead of the sequence it was drawn from. *)
LEMMA SeqsBehindStep ==
  ASSUME TypeInv, [CatalogNext]_catalogVars
  PROVE  SeqsBehind'
<1>0. /\ RowTypes /\ TxTypes /\ DeltaTypes /\ SeqsBehind
      /\ revision \in [Revision -> RevisionRecord] /\ tx \in [Tx -> TxRecord]
      /\ nextSeq \in Nat \ {0} /\ nextSeq' \in Nat
  BY DeltaTypesStep DEF TypeInv, RowTypes, TxTypes, DeltaTypes
<1>1. delta.items \subseteq Published'
  BY <1>0, PublishedStays DEF SeqsBehind
<1>2. ASSUME nextSeq' >= nextSeq, 
             \A v \in Revision : revision'[v].seq \in {0, revision[v].seq} \cup {tx[x].seq : x \in Tx},
             \A x \in Tx : tx'[x].seq \in {0, tx[x].seq, nextSeq' - 1},
             delta' = delta, device' = device
      PROVE  SeqsBehind'
  <2>1. \A x \in Tx : tx[x].seq \in Nat /\ tx[x].seq < nextSeq
    BY <1>0 DEF SeqsBehind, TxRecord
  <2>2. \A v \in Revision : revision[v].seq \in Nat /\ revision[v].seq < nextSeq
    BY <1>0 DEF SeqsBehind, RevisionRecord
  <2>3. delta.max \in Nat /\ device.cursor \in Nat
    BY <1>0 DEF DeltaTypes
  <2>4. \A v \in Revision : revision'[v].seq < nextSeq'
    BY <1>0, <1>2, <2>1, <2>2
  <2>5. \A x \in Tx : tx'[x].seq < nextSeq'
    BY <1>0, <1>2, <2>1
  <2> QED BY <1>0, <1>1, <1>2, <2>3, <2>4, <2>5 DEF SeqsBehind
<1>3. ASSUME NEW v \in Revision, NEW t \in Template, NEW d \in Definition, CreateDraft(v, t, d)
      PROVE  SeqsBehind'
  BY <1>0, <1>2, <1>3 DEF CreateDraft, NoRevision, deviceVars
<1>4. ASSUME NEW v \in Revision, NEW d \in Definition, UpdateDraft(v, d)
      PROVE  SeqsBehind'
  BY <1>0, <1>2, <1>4 DEF UpdateDraft, RevisionRecord, deviceVars
<1>5. ASSUME NEW v \in Revision, ArchiveDraft(v)
      PROVE  SeqsBehind'
  BY <1>0, <1>2, <1>5 DEF ArchiveDraft, RevisionRecord, deviceVars
<1>6. ASSUME NEW v \in Revision, Assign(v) \/ Unassign(v)
      PROVE  SeqsBehind'
  BY <1>0, <1>2, <1>6 DEF Assign, Unassign, deviceVars
<1>7. ASSUME NEW x \in Tx, PublishCommit(x) \/ ConfirmCommit(x)
      PROVE  SeqsBehind'
  <2>1. tx' = [tx EXCEPT ![x] = NoTx] /\ nextSeq' = nextSeq /\ UNCHANGED <<delta, device>>
    BY <1>7 DEF PublishCommit, ConfirmCommit, deviceVars
  <2>2. \A y \in Tx : tx'[y].seq \in {0, tx[y].seq}
    BY <1>0, <2>1 DEF NoTx
  <2>3. \A v \in Revision : revision'[v].seq \in {revision[v].seq, tx[x].seq}
    BY <1>0, <1>7 DEF PublishCommit, ConfirmCommit, RevisionRecord
  <2> QED BY <1>0, <1>2, <2>1, <2>2, <2>3
<1>8. ASSUME NEW x \in Tx, NEW v \in Revision, PublishRead(x, v)
      PROVE  SeqsBehind'
  BY <1>0, <1>2, <1>8 DEF PublishRead, NoTx, deviceVars
<1>9. ASSUME NEW x \in Tx, NEW i \in Import, UploadWrite(x, i) \/ ConfirmRead(x, i)
      PROVE  SeqsBehind'
  <2>1. /\ UNCHANGED <<revision, nextSeq, delta, device>>
        /\ \E pc \in {"uploaded", "confirm"} :
             tx' = [tx EXCEPT ![x] = [NoTx EXCEPT !.pc = pc, !.import = i]]
    BY <1>9 DEF UploadWrite, ConfirmRead, deviceVars
  <2>2. \A y \in Tx : tx'[y].seq \in {0, tx[y].seq}
    BY <1>0, <2>1 DEF NoTx
  <2> QED BY <1>0, <1>2, <2>1, <2>2
<1>10. ASSUME NEW x \in Tx, Rollback(x) \/ UploadCommit(x)
       PROVE  SeqsBehind'
  BY <1>0, <1>2, <1>10 DEF Rollback, UploadCommit, NoTx, deviceVars
<1>11. ASSUME NEW x \in Tx, PublishNumber(x)
       PROVE  SeqsBehind'
  BY <1>0, <1>2, <1>11 DEF PublishNumber, TxRecord, deviceVars
<1>12. ASSUME NEW x \in Tx, PublishWrite(x)
       PROVE  SeqsBehind'
  BY <1>0, <1>2, <1>12 DEF PublishWrite, TxRecord, deviceVars
<1>13. ASSUME NEW x \in Tx, ConfirmWrites(x)
       PROVE  SeqsBehind'
  BY <1>0, <1>2, <1>13 DEF ConfirmWrites, ConfirmWrite, TxRecord, deviceVars
<1>14. ASSUME UNCHANGED <<revision, tx, nextSeq>>,
              delta'.max < nextSeq, device'.cursor < nextSeq, delta'.items \subseteq Published
       PROVE  SeqsBehind'
  BY <1>0, <1>14 DEF SeqsBehind, Published, Status
<1>15. CASE DeltaAsk \/ DeltaLost
  BY <1>0, <1>14, <1>15 DEF DeltaAsk, DeltaLost, NoDelta, SeqsBehind
<1>16. CASE DeltaItems
  BY <1>0, <1>14, <1>16 DEF DeltaItems, DeltaTypes, Visible, SeqsBehind
<1>17. CASE DeltaMax
  BY <1>0, <1>14, <1>17, LatestSeqType DEF DeltaMax, DeltaTypes, SeqsBehind
<1>18. CASE DeltaMerge
  <2>1. CursorAfter(device.cursor, delta.items, delta.max) < nextSeq
    BY CursorAfterFacts
  <2>2. device'.cursor = CursorAfter(device.cursor, delta.items, delta.max)
    BY <1>0, <1>18 DEF DeltaMerge, DeltaTypes
  <2>3. delta'.max < nextSeq /\ delta'.items \subseteq Published
        /\ UNCHANGED <<revision, tx, nextSeq>>
    BY <1>0, <1>18 DEF DeltaMerge, NoDelta
  <2> QED BY <1>14, <2>1, <2>2, <2>3
<1>19. CASE UNCHANGED catalogVars
  BY <1>0, <1>14, <1>19 DEF catalogVars, SeqsBehind
<1> QED BY <1>3, <1>4, <1>5, <1>6, <1>7, <1>8, <1>9, <1>10, <1>11, <1>12, <1>13, <1>15, <1>16,
           <1>17, <1>18, <1>19, CatalogCases

(* Who writes the table of imports. *)
LEMMA WhoWritesImports ==
  ASSUME [CatalogNext]_catalogVars
  PROVE  \/ UNCHANGED importVars
         \/ \E x \in Tx : \/ \E i \in Import : UploadWrite(x, i)
                          \/ UploadCommit(x) \/ ConfirmCommit(x)
<1>1. ASSUME NEW v \in Revision, ArchiveDraft(v) \/ Assign(v) \/ Unassign(v)
      PROVE  UNCHANGED importVars
  BY <1>1 DEF ArchiveDraft, Assign, Unassign
<1>2. ASSUME NEW v \in Revision, NEW t \in Template, NEW d \in Definition, CreateDraft(v, t, d)
      PROVE  UNCHANGED importVars
  BY <1>2 DEF CreateDraft
<1>3. ASSUME NEW v \in Revision, NEW d \in Definition, UpdateDraft(v, d)
      PROVE  UNCHANGED importVars
  BY <1>3 DEF UpdateDraft
<1>4. ASSUME NEW x \in Tx, NEW v \in Revision, PublishRead(x, v)
      PROVE  UNCHANGED importVars
  BY <1>4 DEF PublishRead
<1>5. ASSUME NEW x \in Tx, NEW i \in Import, ConfirmRead(x, i)
      PROVE  UNCHANGED importVars
  BY <1>5 DEF ConfirmRead
<1>6. ASSUME NEW x \in Tx, PublishNumber(x) \/ PublishWrite(x) \/ PublishCommit(x) \/ Rollback(x)
      PROVE  UNCHANGED importVars
  BY <1>6 DEF PublishNumber, PublishWrite, PublishCommit, Rollback
<1>7. ASSUME NEW x \in Tx, ConfirmWrites(x)
      PROVE  UNCHANGED importVars
  BY <1>7 DEF ConfirmWrites, ConfirmWrite
<1>8. CASE DeltaAsk \/ DeltaItems \/ DeltaMax \/ DeltaMerge \/ DeltaLost
  BY <1>8 DEF DeltaAsk, DeltaItems, DeltaMax, DeltaMerge, DeltaLost
<1>9. CASE UNCHANGED catalogVars
  BY <1>9 DEF catalogVars, importVars
<1> QED BY <1>1, <1>2, <1>3, <1>4, <1>5, <1>6, <1>7, <1>8, <1>9, CatalogCases

(* The imports and the templates made of them stay well typed. *)
LEMMA ImportTypesStep ==
  ASSUME TypeInv, [CatalogNext]_catalogVars
  PROVE  ImportTypes'
<1>0. ImportTypes /\ \A x \in Tx : tx[x] \in TxRecord /\ WellFormedTx(tx[x])
  BY DEF TypeInv, TxTypes
<1>1. CASE UNCHANGED importVars
  BY <1>0, <1>1 DEF importVars, ImportTypes
<1>2. ASSUME NEW x \in Tx, NEW i \in Import, UploadWrite(x, i)
      PROVE  ImportTypes'
  BY <1>0, <1>2 DEF UploadWrite, ImportTypes
<1>3. ASSUME NEW x \in Tx, UploadCommit(x)
      PROVE  ImportTypes'
  BY <1>0, <1>3 DEF UploadCommit, ImportTypes
<1>4. ASSUME NEW x \in Tx, ConfirmCommit(x)
      PROVE  ImportTypes'
  <2>1. tx[x].import \in Import
    BY <1>4, CommitFacts DEF ConfirmCommit
  <2> QED BY <1>0, <1>4, <2>1 DEF ConfirmCommit, ImportTypes
<1> QED BY <1>1, <1>2, <1>3, <1>4, WhoWritesImports

(* The type invariant is inductive. *)
LEMMA TypeInvStep == TypeInv /\ [CatalogNext]_catalogVars => TypeInv'
BY RowTypesStep, TxTypesStep, DeltaTypesStep, ImportTypesStep, VersionsBoundedStep, SeqsBehindStep
   DEF TypeInv

(* Every row, transaction, import and cursor is well formed in every state. *)
THEOREM TypeInvHolds == CatalogSpec => []TypeInv
BY TypeInvInit, TypeInvStep, PTL DEF CatalogSpec

(* The rows, the transactions and the device keep their types, for any revisions,
   templates, definitions, imports and number of transactions at a time. *)
THEOREM CatalogTypeCorrect == CatalogSpec => []CatalogTypeOK
<1>1. TypeInv => CatalogTypeOK
  BY CatalogAssumption
     DEF TypeInv, RowTypes, RevisionRecord, WellFormedRow, TxTypes, TxRecord, DeltaTypes,
         ImportTypes, CatalogTypeOK, Status
<1> QED BY <1>1, TypeInvHolds, PTL

-----------------------------------------------------------------------------
(* The typed catalogue of a published revision.                             *)

Publishing(q) == q.pc \in {"number", "write", "commit"} /\ q.import = Nothing

(* What a publication read of its draft is what the draft says, or the draft is
   noted as edited. *)
ReadMatches ==
  \A x \in Tx : Publishing(tx[x]) =>
    tx[x].definition = revision[tx[x].revision].definition \/ tx[x].revision \in edited

MatchInv == CatalogMatchesUnlessEdited /\ ReadMatches

(* What a publication has read is what it will write, unless the draft was edited. *)
LEMMA MatchStep == TypeInv /\ MatchInv /\ [CatalogNext]_catalogVars => MatchInv'
<1> SUFFICES ASSUME TypeInv, MatchInv, [CatalogNext]_catalogVars
             PROVE  MatchInv'
  OBVIOUS
<1>0. /\ RowTypes /\ revision \in [Revision -> RevisionRecord]
      /\ items \in [Revision -> Definition \cup {Nothing}]
      /\ CatalogMatchesUnlessEdited /\ ReadMatches
      /\ tx \in [Tx -> TxRecord] /\ tx' \in [Tx -> TxRecord]
      /\ \A x \in Tx : tx[x] \in TxRecord /\ WellFormedTx(tx[x]) /\ FitsRows(tx[x])
  BY TypeInvStep DEF TypeInv, TxTypes, RowTypes, MatchInv
<1>1. ASSUME UNCHANGED <<revision, items>>, edited \subseteq edited',
             \A x \in Tx : Publishing(tx'[x]) =>
               \/ /\ Publishing(tx[x]) /\ tx'[x].revision = tx[x].revision
                  /\ tx'[x].definition = tx[x].definition
               \/ tx'[x].definition = revision[tx'[x].revision].definition
      PROVE  MatchInv'
  <2>1. CatalogMatchesUnlessEdited'
    BY <1>0, <1>1 DEF CatalogMatchesUnlessEdited, Status
  <2>2. ReadMatches'
    BY <1>0, <1>1 DEF ReadMatches
  <2> QED BY <2>1, <2>2 DEF MatchInv
<1>2. ASSUME NEW v \in Revision, NEW t \in Template, NEW d \in Definition, CreateDraft(v, t, d)
      PROVE  MatchInv'
  <2>1. /\ Status(v) = "none" /\ \A y \in Tx : tx[y].revision # v
        /\ UNCHANGED <<tx, items, edited>>
        /\ \A w \in Revision \ {v} : revision'[w] = revision[w]
        /\ revision'[v].status = "draft"
    BY <1>0, <1>2 DEF CreateDraft, NewRevision, OneOf, NoRevision
  <2>2. CatalogMatchesUnlessEdited'
    BY <1>0, <2>1 DEF CatalogMatchesUnlessEdited, Status
  <2>3. ReadMatches'
    BY <1>0, <2>1 DEF ReadMatches, Publishing, WellFormedTx
  <2> QED BY <2>2, <2>3 DEF MatchInv
<1>3. ASSUME NEW v \in Revision, NEW d \in Definition, UpdateDraft(v, d)
      PROVE  MatchInv'
  <2>1. /\ Status(v) = "draft"
        /\ UNCHANGED <<tx, items>> /\ edited \subseteq edited'
        /\ \A w \in Revision \ {v} : revision'[w] = revision[w]
        /\ revision'[v].status = "draft" /\ revision'[v].definition = d
        /\ \A x \in Tx : tx[x].revision = v /\ tx[x].definition # d => v \in edited'
    BY <1>0, <1>3 DEF UpdateDraft, RevisionRecord, Status
  <2>2. CatalogMatchesUnlessEdited'
    BY <1>0, <2>1 DEF CatalogMatchesUnlessEdited, Status
  <2>3. ReadMatches'
    BY <1>0, <2>1 DEF ReadMatches, Publishing, WellFormedTx
  <2> QED BY <2>2, <2>3 DEF MatchInv
<1>4. ASSUME NEW v \in Revision, ArchiveDraft(v)
      PROVE  MatchInv'
  <2>1. /\ Status(v) = "draft"
        /\ UNCHANGED <<tx, items, edited>>
        /\ \A w \in Revision : revision'[w].definition = revision[w].definition
        /\ \A w \in Revision \ {v} : revision'[w] = revision[w]
        /\ revision'[v].status = "archived"
    BY <1>0, <1>4 DEF ArchiveDraft, RevisionRecord, Status
  <2>2. CatalogMatchesUnlessEdited'
    BY <1>0, <2>1 DEF CatalogMatchesUnlessEdited, Status
  <2>3. ReadMatches'
    BY <1>0, <2>1 DEF ReadMatches, Publishing, WellFormedTx
  <2> QED BY <2>2, <2>3 DEF MatchInv
<1>5. ASSUME NEW v \in Revision, Assign(v) \/ Unassign(v)
      PROVE  MatchInv'
  BY <1>1, <1>5 DEF Assign, Unassign
<1>6. ASSUME NEW x \in Tx, NEW q \in TxRecord, tx' = [tx EXCEPT ![x] = q],
             UNCHANGED <<revision, items, edited>>,
             Publishing(q) => \/ /\ Publishing(tx[x]) /\ q.revision = tx[x].revision
                                 /\ q.definition = tx[x].definition
                              \/ q.definition = revision[q.revision].definition
      PROVE  MatchInv'
  BY <1>0, <1>1, <1>6
<1>7. ASSUME NEW x \in Tx, NEW v \in Revision, PublishRead(x, v)
      PROVE  MatchInv'
  <2> DEFINE q == [NoTx EXCEPT !.pc = "number", !.revision = v, !.publish = TRUE,
                      !.template = revision[v].template, !.definition = revision[v].definition]
  <2>1. tx' = [tx EXCEPT ![x] = q] /\ UNCHANGED <<revision, items, edited>>
    BY <1>7 DEF PublishRead
  <2>2. q \in TxRecord /\ q.revision = v /\ q.definition = revision[v].definition
    BY <1>0 DEF NoTx, TxRecord, RevisionRecord
  <2> QED BY <1>6, <2>1, <2>2
<1>8. ASSUME NEW x \in Tx, PublishNumber(x) \/ PublishWrite(x)
      PROVE  MatchInv'
  <2>1. /\ UNCHANGED <<revision, items, edited>>
        /\ \A y \in Tx \ {x} : tx'[y] = tx[y]
        /\ tx[x].pc \in {"number", "write"}
        /\ tx'[x].revision = tx[x].revision /\ tx'[x].definition = tx[x].definition
        /\ tx'[x].import = tx[x].import
    BY <1>0, <1>8 DEF PublishNumber, PublishWrite, TxRecord
  <2> QED BY <1>0, <1>1, <2>1 DEF Publishing
<1>9. ASSUME NEW x \in Tx, ConfirmWrites(x)
      PROVE  MatchInv'
  <2>1. /\ UNCHANGED <<revision, items, edited>>
        /\ \A y \in Tx \ {x} : tx'[y] = tx[y]
        /\ tx'[x].import \in Import
    BY <1>0, <1>9 DEF ConfirmWrites, ConfirmWrite, WellFormedTx
  <2> QED BY <1>0, <1>1, <2>1, CatalogAssumption DEF Publishing
<1>10. ASSUME NEW x \in Tx, NEW i \in Import, UploadWrite(x, i) \/ ConfirmRead(x, i)
       PROVE  MatchInv'
  <2>1. /\ UNCHANGED <<revision, items, edited>>
        /\ \A y \in Tx \ {x} : tx'[y] = tx[y]
        /\ tx'[x].import = i
    BY <1>0, <1>10 DEF UploadWrite, ConfirmRead, NoTx
  <2> QED BY <1>0, <1>1, <2>1, CatalogAssumption DEF Publishing
<1>11. ASSUME NEW x \in Tx, Rollback(x) \/ UploadCommit(x)
       PROVE  MatchInv'
  <2>1. /\ UNCHANGED <<revision, items, edited>>
        /\ \A y \in Tx \ {x} : tx'[y] = tx[y]
        /\ tx'[x].pc = "idle"
    BY <1>0, <1>11 DEF Rollback, UploadCommit, NoTx
  <2> QED BY <1>0, <1>1, <2>1 DEF Publishing
<1>12. ASSUME NEW x \in Tx, PublishCommit(x)
       PROVE  MatchInv'
  <2> DEFINE v == tx[x].revision
  <2>1. /\ UNCHANGED edited
        /\ \A y \in Tx \ {x} : tx'[y] = tx[y]
        /\ tx'[x].pc = "idle" /\ Publishing(tx[x]) /\ v \in Revision
        /\ \A w \in Revision : revision'[w].definition = revision[w].definition
        /\ \A w \in Revision \ {v} : revision'[w] = revision[w] /\ items'[w] = items[w]
        /\ revision'[v].status = "published" /\ items'[v] = tx[x].definition
    BY <1>0, <1>12, CommitFacts DEF PublishCommit, RevisionRecord, NoTx, Publishing
  <2>2. tx[x].definition = revision[v].definition \/ v \in edited
    BY <1>0, <2>1 DEF ReadMatches
  <2>3. CatalogMatchesUnlessEdited'
    BY <1>0, <2>1, <2>2 DEF CatalogMatchesUnlessEdited, Status
  <2>4. ReadMatches'
    BY <1>0, <2>1 DEF ReadMatches, Publishing, WellFormedTx
  <2> QED BY <2>3, <2>4 DEF MatchInv
<1>13. ASSUME NEW x \in Tx, ConfirmCommit(x)
       PROVE  MatchInv'
  <2> DEFINE v == tx[x].revision
  <2>1. /\ UNCHANGED edited
        /\ \A y \in Tx \ {x} : tx'[y] = tx[y]
        /\ tx'[x].pc = "idle" /\ v \in Revision /\ Status(v) = "none"
        /\ \A w \in Revision \ {v} : revision'[w] = revision[w] /\ items'[w] = items[w]
        /\ revision'[v].definition = tx[x].definition
        /\ IF tx[x].publish THEN revision'[v].status = "published" /\ items'[v] = tx[x].definition
           ELSE revision'[v].status = "draft" /\ items'[v] = items[v]
    BY <1>0, <1>13, CommitFacts DEF ConfirmCommit, NoTx
  <2>2. CatalogMatchesUnlessEdited'
    BY <1>0, <2>1 DEF CatalogMatchesUnlessEdited, Status
  <2>3. ReadMatches'
    <3> SUFFICES ASSUME NEW y \in Tx, Publishing(tx'[y])
                 PROVE  \/ tx'[y].definition = revision'[tx'[y].revision].definition
                        \/ tx'[y].revision \in edited
      BY <2>1 DEF ReadMatches
    <3>1. y # x /\ tx'[y] = tx[y] /\ tx[y].revision \in Revision \ {v}
      BY <1>0, <2>1 DEF Publishing, WellFormedTx, FitsRows
    <3> QED BY <1>0, <2>1, <3>1 DEF ReadMatches
  <2> QED BY <2>2, <2>3 DEF MatchInv
<1>14. CASE DeltaAsk \/ DeltaItems \/ DeltaMax \/ DeltaMerge \/ DeltaLost
  BY <1>1, <1>14 DEF DeltaAsk, DeltaItems, DeltaMax, DeltaMerge, DeltaLost
<1>15. CASE UNCHANGED catalogVars
  BY <1>1, <1>15 DEF catalogVars
<1> QED BY <1>2, <1>3, <1>4, <1>5, <1>7, <1>8, <1>9, <1>10, <1>11, <1>12, <1>13, <1>14, <1>15,
           CatalogCases

(* The typed catalogue of a published revision is that of its definition, unless
   the draft was edited between the read and the write of its publication; a draft
   has none. *)
THEOREM CatalogMatches == CatalogSpec => []CatalogMatchesUnlessEdited
<1>1. CatalogInit => MatchInv
  BY DEF CatalogInit, MatchInv, CatalogMatchesUnlessEdited, ReadMatches, Publishing, NoRevision,
         NoTx, Status
<1>2. MatchInv => CatalogMatchesUnlessEdited
  BY DEF MatchInv
<1> QED BY <1>1, <1>2, MatchStep, TypeInvHolds, PTL DEF CatalogSpec

-----------------------------------------------------------------------------
(* The delta: what the device is sent, and how far its cursor goes.         *)

(* Once the list of a delta was read, a visible revision is on the device, in
   the list, noted as late, or noted as one that the list could not have. *)
ReadMissesNothing ==
  delta.itemsRead =>
    \A v \in Revision : Visible(v) => v \in device.cached \cup delta.items \cup late \cup unread

DeltaInv == DeltaMissesNothing /\ ReadMissesNothing

(* The steps of the authors and of the transactions: a revision becomes visible. *)
LEMMA DeltaOfOthers ==
  ASSUME TypeInv, DeltaInv, [CatalogNext]_catalogVars,
         UNCHANGED <<delta, device>>, late \subseteq late', unread \subseteq unread',
         \A v \in Revision : Visible(v)' =>
           \/ Visible(v)
           \/ /\ v \in late' \/ ~(revision'[v].seq <= device.cursor)
              /\ delta.itemsRead => v \in unread'
  PROVE  DeltaInv'
<1>0. \A v \in Published : revision'[v] = revision[v]
  BY TypeInvStep, PublishedStays DEF TypeInv, RowTypes, SeqsBehind
<1>2. ASSUME NEW v \in Revision, Visible(v) PROVE revision'[v] = revision[v]
  BY <1>0, <1>2 DEF Visible
<1>4. ASSUME NEW v \in Revision, Visible(v)', revision'[v].seq <= device.cursor
      PROVE  v \in device.cached \cup late'
  <2>1. CASE Visible(v)
    BY <1>2, <1>4, <2>1 DEF DeltaInv, DeltaMissesNothing
  <2>2. CASE ~Visible(v)
    BY <1>4, <2>2
  <2> QED BY <2>1, <2>2
<1>5. ASSUME delta.itemsRead, NEW v \in Revision, Visible(v)'
      PROVE  v \in device.cached \cup delta.items \cup late' \cup unread'
  BY <1>5 DEF DeltaInv, ReadMissesNothing
<1>6. DeltaMissesNothing'
  BY <1>4 DEF DeltaMissesNothing
<1>7. ReadMissesNothing'
  BY <1>5 DEF ReadMissesNothing
<1> QED BY <1>6, <1>7 DEF DeltaInv

(* What the device lacks is ahead of its cursor, or became visible behind it. *)
LEMMA DeltaStep == TypeInv /\ DeltaInv /\ [CatalogNext]_catalogVars => DeltaInv'
<1> SUFFICES ASSUME TypeInv, DeltaInv, [CatalogNext]_catalogVars
             PROVE  DeltaInv'
  OBVIOUS
<1>0. /\ RowTypes /\ DeltaTypes /\ revision \in [Revision -> RevisionRecord]
      /\ assigned \subseteq Published
  BY DEF TypeInv, RowTypes
<1>1. ASSUME UNCHANGED <<delta, device, revision, assigned>>, late \subseteq late',
             unread \subseteq unread'
      PROVE  DeltaInv'
  <2>1. \A v \in Revision : Visible(v)' => Visible(v)
    BY <1>1 DEF Visible, Published, Status
  <2> QED BY <1>1, <2>1, DeltaOfOthers
<1>2. ASSUME UNCHANGED <<delta, device, assigned, late, unread>>,
             NEW v \in Revision, revision'[v].status # "published",
             \A w \in Revision \ {v} : revision'[w] = revision[w]
      PROVE  DeltaInv'
  <2>1. \A w \in Revision : Visible(w)' => Visible(w)
    BY <1>2 DEF Visible, Published, Status
  <2> QED BY <1>2, <2>1, DeltaOfOthers
<1>3. ASSUME NEW v \in Revision, NEW t \in Template, NEW d \in Definition, CreateDraft(v, t, d)
      PROVE  DeltaInv'
  BY <1>0, <1>2, <1>3 DEF CreateDraft, NoRevision, deviceVars, history
<1>4. ASSUME NEW v \in Revision, NEW d \in Definition, UpdateDraft(v, d)
      PROVE  DeltaInv'
  <2>1. revision'[v].status = "draft"
    BY <1>0, <1>4 DEF UpdateDraft, Status, RevisionRecord
  <2> QED BY <1>0, <1>2, <1>4, <2>1 DEF UpdateDraft, deviceVars, history
<1>5. ASSUME NEW v \in Revision, ArchiveDraft(v)
      PROVE  DeltaInv'
  <2>1. revision'[v].status = "archived"
    BY <1>0, <1>5 DEF ArchiveDraft, RevisionRecord
  <2> QED BY <1>0, <1>2, <1>5, <2>1 DEF ArchiveDraft, deviceVars, history
<1>6. ASSUME NEW v \in Revision, Assign(v)
      PROVE  DeltaInv'
  <2>1. /\ UNCHANGED <<delta, device, revision>> /\ assigned' = assigned \cup {v}
        /\ Noted(~device.admin, v, revision[v].seq)
    BY <1>6 DEF Assign, deviceVars
  <2>2. late \subseteq late' /\ unread \subseteq unread'
    BY <2>1 DEF Noted
  <2>3. \A w \in Revision : Visible(w)' =>
          \/ Visible(w)
          \/ /\ w \in late' \/ ~(revision'[w].seq <= device.cursor)
             /\ delta.itemsRead => w \in unread'
    BY <2>1 DEF Noted, Visible, Published, Status
  <2> QED BY <2>1, <2>2, <2>3, DeltaOfOthers
<1>7. ASSUME NEW v \in Revision, Unassign(v)
      PROVE  DeltaInv'
  <2>1. /\ UNCHANGED <<delta, device, revision, late, unread>> /\ assigned' \subseteq assigned
    BY <1>7 DEF Unassign, deviceVars, history
  <2>2. \A w \in Revision : Visible(w)' => Visible(w)
    BY <2>1 DEF Visible, Published, Status
  <2> QED BY <2>1, <2>2, DeltaOfOthers
<1>8. ASSUME NEW x \in Tx, PublishCommit(x) \/ ConfirmCommit(x)
      PROVE  DeltaInv'
  <2> DEFINE v == tx[x].revision
  <2>1. /\ v \in Revision /\ Status(v) # "published"
        /\ tx[x].import = Nothing => tx[x].publish
        /\ tx[x].seq \in Nat
    BY <1>8, CommitFacts DEF PublishCommit, ConfirmCommit
  <2>2. /\ UNCHANGED <<delta, device, assigned>>
        /\ \A w \in Revision \ {v} : revision'[w] = revision[w]
        /\ tx[x].publish => revision'[v].seq = tx[x].seq
        /\ ~tx[x].publish => revision'[v].status = "draft"
        /\ Noted(device.admin /\ tx[x].publish, v, tx[x].seq)
    <3>1. CASE PublishCommit(x)
      BY <1>0, <2>1, <3>1 DEF PublishCommit, RevisionRecord, deviceVars, Noted
    <3>2. CASE ConfirmCommit(x)
      BY <1>0, <2>1, <3>2 DEF ConfirmCommit, deviceVars
    <3> QED BY <1>8, <3>1, <3>2
  <2>3. v \notin assigned
    BY <1>0, <2>1 DEF Published
  <2>4. late \subseteq late' /\ unread \subseteq unread'
    BY <2>2 DEF Noted
  <2>5. \A w \in Revision : Visible(w)' =>
          \/ Visible(w)
          \/ /\ w \in late' \/ ~(revision'[w].seq <= device.cursor)
             /\ delta.itemsRead => w \in unread'
    <3> SUFFICES ASSUME NEW w \in Revision, Visible(w)', ~Visible(w)
                 PROVE  /\ w \in late' \/ ~(revision'[w].seq <= device.cursor)
                        /\ delta.itemsRead => w \in unread'
      OBVIOUS
    <3>1. w = v /\ device.admin
      BY <2>2, <2>3 DEF Visible, Published, Status
    <3>2. tx[x].publish
      BY <2>1, <2>2, <3>1 DEF Visible, Published, Status
    <3> QED BY <2>2, <3>1, <3>2 DEF Noted
  <2> QED BY <2>2, <2>4, <2>5, DeltaOfOthers
<1>9. ASSUME NEW x \in Tx, NEW v \in Revision, PublishRead(x, v)
      PROVE  DeltaInv'
  BY <1>1, <1>9 DEF PublishRead, deviceVars, history
<1>10. ASSUME NEW x \in Tx, NEW i \in Import, UploadWrite(x, i) \/ ConfirmRead(x, i)
       PROVE  DeltaInv'
  BY <1>1, <1>10 DEF UploadWrite, ConfirmRead, deviceVars, history
<1>11. ASSUME NEW x \in Tx, PublishNumber(x) \/ PublishWrite(x) \/ Rollback(x) \/ UploadCommit(x)
       PROVE  DeltaInv'
  BY <1>1, <1>11 DEF PublishNumber, PublishWrite, Rollback, UploadCommit, deviceVars, history
<1>12. ASSUME NEW x \in Tx, ConfirmWrites(x)
       PROVE  DeltaInv'
  BY <1>1, <1>12 DEF ConfirmWrites, ConfirmWrite, deviceVars, history
<1>13. CASE UNCHANGED catalogVars
  BY <1>1, <1>13 DEF catalogVars
<1>14. ASSUME UNCHANGED <<revision, assigned, late>>, device'.admin = device.admin
       PROVE  /\ \A v \in Revision : Visible(v)' <=> Visible(v)
              /\ DeltaMissesNothing' <=>
                   \A v \in Revision :
                     Visible(v) /\ revision[v].seq <= device'.cursor => v \in device'.cached \cup late
  BY <1>14 DEF Visible, Published, Status, DeltaMissesNothing
<1>15. CASE DeltaAsk \/ DeltaLost
  <2>1. /\ UNCHANGED <<revision, assigned, late, device>> /\ delta'.itemsRead = FALSE
    BY <1>15 DEF DeltaAsk, DeltaLost, NoDelta, history
  <2>2. DeltaMissesNothing'
    BY <1>14, <2>1 DEF DeltaInv, DeltaMissesNothing
  <2> QED BY <2>1, <2>2 DEF DeltaInv, ReadMissesNothing
<1>16. CASE DeltaItems
  <2>1. /\ UNCHANGED <<revision, assigned, late, device>>
        /\ delta'.items = {v \in Revision : Visible(v) /\ revision[v].seq > device.cursor}
    BY <1>0, <1>16 DEF DeltaItems, DeltaTypes, history
  <2>2. DeltaMissesNothing'
    BY <1>14, <2>1 DEF DeltaInv, DeltaMissesNothing
  <2>3. \A v \in Revision : Visible(v)' => v \in device.cached \cup delta'.items \cup late
    <3> SUFFICES ASSUME NEW v \in Revision, Visible(v), ~(revision[v].seq > device.cursor)
                 PROVE  v \in device.cached \cup late
      BY <1>14, <2>1
    <3>1. revision[v].seq \in Nat /\ device.cursor \in Nat
      BY <1>0 DEF DeltaTypes, RevisionRecord
    <3> QED BY <3>1 DEF DeltaInv, DeltaMissesNothing
  <2> QED BY <2>1, <2>2, <2>3 DEF DeltaInv, ReadMissesNothing
<1>17. CASE DeltaMax
  <2>1. /\ UNCHANGED <<revision, assigned, late, unread, device>>
        /\ delta'.items = delta.items /\ delta'.itemsRead = delta.itemsRead
    BY <1>0, <1>17 DEF DeltaMax, DeltaTypes, history
  <2>2. DeltaMissesNothing'
    BY <1>14, <2>1 DEF DeltaInv, DeltaMissesNothing
  <2>3. ReadMissesNothing'
    BY <1>14, <2>1 DEF DeltaInv, ReadMissesNothing
  <2> QED BY <2>2, <2>3 DEF DeltaInv
<1>18. CASE DeltaMerge
  <2> DEFINE c == CursorAfter(device.cursor, delta.items, delta.max)
  <2>1. device' = [device EXCEPT !.cached = device.cached \cup delta.items, !.cursor = c]
    BY <1>18 DEF DeltaMerge
  <2>2. /\ UNCHANGED <<revision, assigned>> /\ delta'.itemsRead = FALSE
        /\ late' = late \cup {v \in unread : revision[v].seq <= c}
        /\ device'.cursor = c /\ device'.cached = device.cached \cup delta.items
        /\ device'.admin = device.admin
        /\ delta.itemsRead
    BY <1>0, <1>18, <2>1 DEF DeltaMerge, DeltaTypes, NoDelta
  <2>3. \A v \in Revision : Visible(v)' => Visible(v)
    BY <2>2 DEF Visible, Published, Status
  <2>4. ASSUME NEW v \in Revision, Visible(v), revision[v].seq <= c
        PROVE  v \in device.cached \cup delta.items \cup late'
    BY <2>2, <2>4 DEF DeltaInv, ReadMissesNothing
  <2>5. DeltaMissesNothing'
    BY <2>2, <2>3, <2>4 DEF DeltaMissesNothing
  <2> QED BY <2>2, <2>5 DEF DeltaInv, ReadMissesNothing
<1> QED BY <1>3, <1>4, <1>5, <1>6, <1>7, <1>8, <1>9, <1>10, <1>11, <1>12, <1>13, <1>15, <1>16,
           <1>17, <1>18, CatalogCases

(* The device has every revision that it may see and that its cursor has passed,
   except those that became visible behind the cursor, or after the list was read
   that moved it. *)
THEOREM DeltaIsComplete == CatalogSpec => []DeltaMissesNothing
<1>1. CatalogInit => DeltaInv
  BY DEF CatalogInit, DeltaInv, DeltaMissesNothing, ReadMissesNothing, NoDelta, NoRevision,
         Visible, Published, Status
<1>2. DeltaInv => DeltaMissesNothing
  BY DEF DeltaInv
<1> QED BY <1>1, <1>2, DeltaStep, TypeInvHolds, PTL DEF CatalogSpec

-----------------------------------------------------------------------------
(* The imports: what was made of each, and its workbook on the volume.      *)

Made(i) == {v \in Revision : revision[v].source = i}

(* Nothing was assumed finite: the revisions of an import are, as they are made
   one by one. *)
MadeCounted ==
  \A i \in Import :
    /\ IsFiniteSet(Made(i)) /\ Cardinality(Made(i)) = confirmed[i]
    /\ confirmed[i] > 1 => i \in twice
    /\ Made(i) # {} <=> upload[i] = "confirmed"
    /\ upload[i] # "none" => i \in volume

(* A transaction that confirms an import confirmed by another is one of two that
   overlapped; the row of an import that is uploading is not there yet. *)
ImportsInHand ==
  /\ \A x \in Tx :
       /\ tx[x].pc = "uploaded" => upload[tx[x].import] = "none" /\ tx[x].import \in volume
       /\ tx[x].pc \in {"confirm", "commit"} /\ tx[x].import # Nothing =>
            /\ upload[tx[x].import] \in {"proposed", "confirmed"}
            /\ confirmed[tx[x].import] # 0 => tx[x].import \in twice
  /\ \A x, y \in Tx :
       x # y /\ tx[x].pc = "uploaded" /\ tx[y].pc = "uploaded" => tx[x].import # tx[y].import

ImportInv == MadeCounted /\ ImportsInHand

(* Only the commit of a confirmation says from which import a revision comes. *)
LEMMA SourcesStay ==
  ASSUME TypeInv, [CatalogNext]_catalogVars, \A x \in Tx : ~ConfirmCommit(x), NEW v \in Revision
  PROVE  revision'[v].source = revision[v].source
<1>0. /\ revision \in [Revision -> RevisionRecord]
      /\ \A w \in Revision : Status(w) = "none" => revision[w] = NoRevision
  BY DEF TypeInv, RowTypes, WellFormedRow, Status
<1>1. CASE UNCHANGED revision
  BY <1>1
<1>2. ASSUME NEW w \in Revision, NEW t \in Template, NEW d \in Definition, CreateDraft(w, t, d)
      PROVE  revision'[v].source = revision[v].source
  BY <1>0, <1>2 DEF CreateDraft, NewRevision, OneOf, NoRevision
<1>3. ASSUME NEW w \in Revision, NEW d \in Definition, UpdateDraft(w, d)
      PROVE  revision'[v].source = revision[v].source
  BY <1>0, <1>3 DEF UpdateDraft, RevisionRecord
<1>4. ASSUME NEW w \in Revision, ArchiveDraft(w)
      PROVE  revision'[v].source = revision[v].source
  BY <1>0, <1>4 DEF ArchiveDraft, RevisionRecord
<1>5. ASSUME NEW w \in Revision, Assign(w) \/ Unassign(w)
      PROVE  revision'[v].source = revision[v].source
  BY <1>5 DEF Assign, Unassign
<1>6. ASSUME NEW x \in Tx, PublishCommit(x)
      PROVE  revision'[v].source = revision[v].source
  BY <1>0, <1>6 DEF PublishCommit, RevisionRecord
<1> QED BY <1>1, <1>2, <1>3, <1>4, <1>5, <1>6, WhoWritesRows

(* The templates made of an import are as many as its confirmations. *)
LEMMA ImportStep == TypeInv /\ ImportInv /\ [CatalogNext]_catalogVars => ImportInv'
<1> SUFFICES ASSUME TypeInv, ImportInv, [CatalogNext]_catalogVars
             PROVE  ImportInv'
  OBVIOUS
<1>0. /\ MadeCounted /\ ImportsInHand /\ ImportTypes /\ ImportTypes'
      /\ tx \in [Tx -> TxRecord] /\ tx' \in [Tx -> TxRecord]
      /\ \A x \in Tx : tx[x] \in TxRecord /\ WellFormedTx(tx[x])
      /\ \A x \in Tx : WellFormedTx(tx'[x])
  BY TypeInvStep DEF TypeInv, TxTypes, ImportInv
<1>1. ASSUME \A x \in Tx : ~ConfirmCommit(x)
      PROVE  \A i \in Import : Made(i)' = Made(i)
  BY <1>1, SourcesStay DEF Made
<1>2. ASSUME \A x \in Tx : ~ConfirmCommit(x), UNCHANGED importVars,
             \A x \in Tx : tx'[x] \in {tx[x], NoTx} \/ tx'[x].pc \in {"number", "write"}
                             \/ tx'[x].import = Nothing
                             \/ /\ tx'[x].import = tx[x].import /\ tx'[x].pc = "commit"
                                /\ tx[x].pc = "confirm"
      PROVE  ImportInv'
  <2>1. MadeCounted'
    BY <1>0, <1>1, <1>2 DEF MadeCounted, importVars
  <2>2. ASSUME NEW x \in Tx, tx'[x].pc \in {"uploaded", "confirm"} PROVE tx'[x] = tx[x]
    BY <1>0, <1>2, <2>2, CatalogAssumption DEF NoTx, WellFormedTx
  <2>3. ASSUME NEW x \in Tx, tx'[x].pc = "commit", tx'[x].import # Nothing
        PROVE  tx[x].pc \in {"confirm", "commit"} /\ tx'[x].import = tx[x].import
    BY <1>0, <1>2, <2>3 DEF NoTx
  <2>4. ImportsInHand'
    BY <1>0, <1>2, <2>2, <2>3 DEF ImportsInHand, importVars
  <2> QED BY <2>1, <2>4 DEF ImportInv
<1>3. CASE \A x \in Tx : ~ConfirmCommit(x)
  <2>1. CASE UNCHANGED <<tx, importVars>>
    BY <1>2, <1>3, <2>1
  <2>2. ASSUME NEW x \in Tx, NEW v \in Revision, PublishRead(x, v)
        PROVE  ImportInv'
    <3>1. UNCHANGED importVars /\ tx'[x].pc = "number" /\ \A y \in Tx \ {x} : tx'[y] = tx[y]
      BY <1>0, <2>2 DEF PublishRead, NoTx
    <3> QED BY <1>2, <1>3, <3>1
  <2>3. ASSUME NEW x \in Tx, PublishNumber(x)
        PROVE  ImportInv'
    <3>1. UNCHANGED importVars /\ tx'[x].pc = "write" /\ \A y \in Tx \ {x} : tx'[y] = tx[y]
      BY <1>0, <2>3 DEF PublishNumber, TxRecord
    <3> QED BY <1>2, <1>3, <3>1
  <2>4. ASSUME NEW x \in Tx, PublishWrite(x)
        PROVE  ImportInv'
    <3>1. /\ UNCHANGED importVars /\ \A y \in Tx \ {x} : tx'[y] = tx[y]
          /\ tx'[x].import = Nothing
      BY <1>0, <2>4 DEF PublishWrite, TxRecord, WellFormedTx
    <3> QED BY <1>2, <1>3, <3>1
  <2>5. ASSUME NEW x \in Tx, PublishCommit(x) \/ Rollback(x)
        PROVE  ImportInv'
    <3>1. UNCHANGED importVars /\ \A y \in Tx : tx'[y] \in {tx[y], NoTx}
      BY <1>0, <2>5 DEF PublishCommit, Rollback
    <3> QED BY <1>2, <1>3, <3>1
  <2>6. ASSUME NEW x \in Tx, ConfirmWrites(x)
        PROVE  ImportInv'
    <3>1. /\ UNCHANGED importVars /\ \A y \in Tx \ {x} : tx'[y] = tx[y]
          /\ tx[x].pc = "confirm" /\ tx'[x].pc = "commit" /\ tx'[x].import = tx[x].import
      BY <1>0, <2>6 DEF ConfirmWrites, ConfirmWrite
    <3> QED BY <1>2, <1>3, <3>1
  <2>7. ASSUME NEW x \in Tx, NEW i \in Import, ConfirmRead(x, i)
        PROVE  ImportInv'
    <3>1. /\ UNCHANGED importVars /\ \A y \in Tx \ {x} : tx'[y] = tx[y]
          /\ tx'[x].pc = "confirm" /\ tx'[x].import = i /\ upload[i] = "proposed"
      BY <1>0, <2>7 DEF ConfirmRead, NoTx
    <3>2. confirmed[i] = 0
      BY <1>0, <3>1, FS_EmptySet DEF MadeCounted
    <3>3. MadeCounted'
      BY <1>0, <1>1, <1>3, <3>1 DEF MadeCounted, importVars
    <3>4. ImportsInHand'
      BY <1>0, <3>1, <3>2 DEF ImportsInHand, importVars
    <3> QED BY <3>3, <3>4 DEF ImportInv
  <2>8. ASSUME NEW x \in Tx, NEW i \in Import, UploadWrite(x, i)
        PROVE  ImportInv'
    <3>1. /\ UNCHANGED <<upload, confirmed, twice>> /\ volume' = volume \cup {i}
          /\ \A y \in Tx \ {x} : tx'[y] = tx[y]
          /\ tx'[x].pc = "uploaded" /\ tx'[x].import = i
          /\ upload[i] = "none" /\ i \notin volume
      BY <1>0, <2>8 DEF UploadWrite, NoTx
    <3>2. MadeCounted'
      BY <1>0, <1>1, <1>3, <3>1 DEF MadeCounted
    <3>3. ImportsInHand'
      BY <1>0, <3>1 DEF ImportsInHand
    <3> QED BY <3>2, <3>3 DEF ImportInv
  <2>9. ASSUME NEW x \in Tx, UploadCommit(x)
        PROVE  ImportInv'
    <3> DEFINE i == tx[x].import
    <3>1. /\ UNCHANGED <<volume, confirmed, twice>>
          /\ \A y \in Tx \ {x} : tx'[y] = tx[y]
          /\ tx'[x] = NoTx /\ tx[x].pc = "uploaded" /\ i \in Import
          /\ upload'[i] \in {"proposed", "failed"}
          /\ \A j \in Import \ {i} : upload'[j] = upload[j]
      BY <1>0, <2>9 DEF UploadCommit, ImportTypes, WellFormedTx
    <3>2. upload[i] = "none" /\ i \in volume /\ Made(i) = {}
      BY <1>0, <3>1 DEF ImportsInHand, MadeCounted
    <3>3. MadeCounted'
      BY <1>0, <1>1, <1>3, <3>1, <3>2 DEF MadeCounted
    <3>4. ImportsInHand'
      <4>1. \A y \in Tx \ {x} : tx[y].pc = "uploaded" => tx[y].import \in Import \ {i}
        BY <1>0, <3>1 DEF ImportsInHand, WellFormedTx
      <4>2. \A y \in Tx \ {x} : tx[y].pc \in {"confirm", "commit"} /\ tx[y].import # Nothing =>
              tx[y].import \in Import \ {i}
        BY <1>0, <3>2 DEF ImportsInHand, WellFormedTx, TxRecord
      <4>3. tx'[x].pc = "idle"
        BY <3>1 DEF NoTx
      <4> QED BY <1>0, <3>1, <4>1, <4>2, <4>3 DEF ImportsInHand
    <3> QED BY <3>3, <3>4 DEF ImportInv
  <2>10. ASSUME NEW v \in Revision, NEW t \in Template, NEW d \in Definition, CreateDraft(v, t, d)
         PROVE  ImportInv'
    BY <2>1, <2>10 DEF CreateDraft
  <2>11. ASSUME NEW v \in Revision, NEW d \in Definition, UpdateDraft(v, d)
         PROVE  ImportInv'
    BY <2>1, <2>11 DEF UpdateDraft
  <2>12. ASSUME NEW v \in Revision, ArchiveDraft(v) \/ Assign(v) \/ Unassign(v)
         PROVE  ImportInv'
    BY <2>1, <2>12 DEF ArchiveDraft, Assign, Unassign
  <2>13. CASE DeltaAsk \/ DeltaItems \/ DeltaMax \/ DeltaMerge \/ DeltaLost
    BY <2>1, <2>13 DEF DeltaAsk, DeltaItems, DeltaMax, DeltaMerge, DeltaLost
  <2>14. CASE UNCHANGED catalogVars
    BY <2>1, <2>14 DEF catalogVars, importVars
  <2> QED BY <1>3, <2>2, <2>3, <2>4, <2>5, <2>6, <2>7, <2>8, <2>9, <2>10, <2>11, <2>12, <2>13,
             <2>14, CatalogCases
<1>4. ASSUME NEW x \in Tx, ConfirmCommit(x)
      PROVE  ImportInv'
  <2>0. PICK i \in Import, v \in Revision : i = tx[x].import /\ v = tx[x].revision
    BY <1>4, CommitFacts DEF ConfirmCommit
  <2>1. /\ i = tx[x].import /\ v = tx[x].revision /\ revision[v] = NoRevision
        /\ tx[x].pc = "commit" /\ UNCHANGED volume
        /\ tx'[x].pc = "idle" /\ \A y \in Tx \ {x} : tx'[y] = tx[y]
    BY <1>0, <1>4, <2>0, CatalogAssumption, CommitFacts DEF ConfirmCommit, NoTx
  <2>2. /\ revision'[v].source = i
        /\ \A w \in Revision \ {v} : revision'[w] = revision[w]
    BY <1>4, <2>1 DEF ConfirmCommit, TypeInv, RowTypes
  <2>3. /\ upload'[i] = "confirmed" /\ confirmed'[i] = confirmed[i] + 1
        /\ \A j \in Import \ {i} : upload'[j] = upload[j] /\ confirmed'[j] = confirmed[j]
    BY <1>0, <1>4, <2>1 DEF ConfirmCommit, ImportTypes
  <2>4. /\ twice \subseteq twice'
        /\ \A y \in Tx \ {x} : tx[y].import = i => i \in twice'
    BY <1>4, <2>1 DEF ConfirmCommit
  <2>5. v \notin Made(i) /\ Made(i)' = Made(i) \cup {v} /\ i \in volume
    <3>1. revision[v].source # i
      BY <2>1, CatalogAssumption DEF NoRevision
    <3>2. i \in volume
      <4>1. upload[i] # "none"
        BY <1>0, <2>1, CatalogAssumption DEF ImportsInHand
      <4> QED BY <1>0, <4>1 DEF MadeCounted
    <3> QED BY <2>2, <3>1, <3>2 DEF Made
  <2>6. ASSUME NEW j \in Import \ {i} PROVE Made(j)' = Made(j)
    BY <2>1, <2>2, <2>6, CatalogAssumption DEF Made, NoRevision
  <2>7. /\ IsFiniteSet(Made(i)') /\ Cardinality(Made(i)') = confirmed'[i]
        /\ confirmed'[i] > 1 => confirmed[i] # 0
    <3>1. IsFiniteSet(Made(i)) /\ Cardinality(Made(i)) = confirmed[i] /\ confirmed[i] \in Nat
      BY <1>0, <2>1 DEF MadeCounted, ImportTypes
    <3> QED BY <2>3, <2>5, <3>1, FS_AddElement
  <2>8. confirmed[i] # 0 => i \in twice
    BY <1>0, <2>1, CatalogAssumption DEF ImportsInHand
  <2>9. MadeCounted'
    <3> SUFFICES ASSUME NEW j \in Import
                 PROVE  /\ IsFiniteSet(Made(j)') /\ Cardinality(Made(j)') = confirmed'[j]
                        /\ confirmed'[j] > 1 => j \in twice'
                        /\ Made(j)' # {} <=> upload'[j] = "confirmed"
                        /\ upload'[j] # "none" => j \in volume'
      BY DEF MadeCounted
    <3>1. CASE j = i
      BY <2>1, <2>3, <2>4, <2>5, <2>7, <2>8, <3>1
    <3>2. CASE j # i
      BY <1>0, <2>1, <2>3, <2>4, <2>6, <3>2 DEF MadeCounted
    <3> QED BY <3>1, <3>2
  <2>10. ImportsInHand'
    <3>1. ASSUME NEW y \in Tx, tx'[y].pc = "uploaded"
          PROVE  upload'[tx'[y].import] = "none" /\ tx'[y].import \in volume'
      <4>1. /\ tx'[y] = tx[y] /\ tx[y].import \in Import
            /\ upload[tx[y].import] = "none" /\ tx[y].import \in volume
        BY <1>0, <2>1, <3>1 DEF ImportsInHand, WellFormedTx
      <4>2. upload[i] # "none"
        BY <1>0, <2>1, CatalogAssumption DEF ImportsInHand
      <4> QED BY <2>1, <2>3, <4>1, <4>2
    <3>2. ASSUME NEW y \in Tx, tx'[y].pc \in {"confirm", "commit"}, tx'[y].import # Nothing
          PROVE  /\ upload'[tx'[y].import] \in {"proposed", "confirmed"}
                 /\ confirmed'[tx'[y].import] # 0 => tx'[y].import \in twice'
      <4>1. y # x /\ tx'[y] = tx[y] /\ tx[y].import \in Import
        BY <1>0, <2>1, <3>2 DEF TxRecord
      <4>2. /\ upload[tx[y].import] \in {"proposed", "confirmed"}
            /\ confirmed[tx[y].import] # 0 => tx[y].import \in twice
        BY <1>0, <3>2, <4>1 DEF ImportsInHand
      <4> QED BY <2>3, <2>4, <4>1, <4>2
    <3>3. \A y, z \in Tx : y # z /\ tx'[y].pc = "uploaded" /\ tx'[z].pc = "uploaded" =>
            tx'[y].import # tx'[z].import
      BY <1>0, <2>1 DEF ImportsInHand
    <3> QED BY <3>1, <3>2, <3>3 DEF ImportsInHand
  <2> QED BY <2>9, <2>10 DEF ImportInv
<1> QED BY <1>3, <1>4

(* An import is confirmed once, with one template and one audit row, unless two
   confirmations of it overlap, and each has its row even then; and the workbook of
   an import that the tenant can see is on the volume. *)
THEOREM ImportsAreConfirmedOnce == CatalogSpec => []ImportConfirmedOnce
<1>1. CatalogInit => ImportInv
  <2> SUFFICES ASSUME CatalogInit PROVE ImportInv
    OBVIOUS
  <2>1. \A i \in Import : Made(i) = {}
    BY CatalogAssumption DEF CatalogInit, Made, NoRevision
  <2>2. MadeCounted
    BY <2>1, FS_EmptySet DEF CatalogInit, MadeCounted
  <2>3. ImportsInHand
    BY DEF CatalogInit, ImportsInHand, NoTx
  <2> QED BY <2>2, <2>3 DEF ImportInv
<1>2. ImportInv => ImportConfirmedOnce
  BY DEF ImportInv, MadeCounted, ImportConfirmedOnce, Made
<1> QED BY <1>1, <1>2, ImportStep, TypeInvHolds, PTL DEF CatalogSpec

-----------------------------------------------------------------------------
(* The versions of a template, and the log of publications that they make.  *)

(* The step publishes nothing, and leaves what is published as it is. *)
NothingPublished == Published' = Published /\ \A w \in Published : revision'[w] = revision[w]

(* Transaction x publishes its revision. *)
PublishesItsRow(x) ==
  LET q == tx[x] IN
  /\ q.pc = "commit" /\ q.publish /\ q.revision \notin Published
  /\ Published' = Published \cup {q.revision}
  /\ \A w \in Published : revision'[w] = revision[w]
  /\ revision'[q.revision].template = q.template /\ revision'[q.revision].version = q.version
  /\ revision'[q.revision].definition \in Definition
  /\ tx' = [tx EXCEPT ![x] = NoTx]

(* A published row is the one row of the transaction that commits it. *)
LEMMA WhoPublishes ==
  ASSUME TypeInv, [CatalogNext]_catalogVars
  PROVE  \/ NothingPublished
         \/ \E x \in Tx : (PublishCommit(x) \/ ConfirmCommit(x)) /\ PublishesItsRow(x)
<1>0. RowTypes /\ revision \in [Revision -> RevisionRecord]
  BY DEF TypeInv, RowTypes
<1>1. ASSUME UNCHANGED revision
      PROVE  NothingPublished
  BY <1>1 DEF NothingPublished, Published, Status
<1>2. ASSUME NEW v \in Revision, Status(v) # "published", revision'[v].status # "published",
             \A w \in Revision \ {v} : revision'[w] = revision[w]
      PROVE  NothingPublished
  BY <1>2 DEF NothingPublished, Published, Status
<1>3. ASSUME NEW v \in Revision, NEW t \in Template, NEW d \in Definition, CreateDraft(v, t, d)
      PROVE  NothingPublished
  BY <1>0, <1>2, <1>3 DEF CreateDraft, NewRevision, OneOf, NoRevision
<1>4. ASSUME NEW v \in Revision, NEW d \in Definition, UpdateDraft(v, d)
      PROVE  NothingPublished
  <2>1. revision'[v].status = "draft"
    BY <1>0, <1>4 DEF UpdateDraft, Status, RevisionRecord
  <2> QED BY <1>0, <1>2, <1>4, <2>1 DEF UpdateDraft
<1>5. ASSUME NEW v \in Revision, ArchiveDraft(v)
      PROVE  NothingPublished
  <2>1. revision'[v].status = "archived"
    BY <1>0, <1>5 DEF ArchiveDraft, RevisionRecord
  <2> QED BY <1>0, <1>2, <1>5, <2>1 DEF ArchiveDraft
<1>6. ASSUME NEW v \in Revision, Assign(v) \/ Unassign(v)
      PROVE  NothingPublished
  BY <1>1, <1>6 DEF Assign, Unassign
<1>7. ASSUME NEW x \in Tx, PublishCommit(x)
      PROVE  PublishesItsRow(x)
  <2>0. PICK v \in Revision : v = tx[x].revision
    BY <1>7, CommitFacts DEF PublishCommit
  <2>1. /\ tx[x].pc = "commit" /\ tx[x].publish /\ Status(v) = "draft"
        /\ tx[x].template = revision[v].template
        /\ tx' = [tx EXCEPT ![x] = NoTx]
    BY <1>7, <2>0, CommitFacts DEF PublishCommit
  <2>2. revision[v].definition \in Definition
    BY <1>0, <2>1 DEF RowTypes, WellFormedRow, Status
  <2>3. /\ revision'[v].status = "published" /\ revision'[v].version = tx[x].version
        /\ revision'[v].template = revision[v].template
        /\ revision'[v].definition = revision[v].definition
        /\ \A w \in Revision \ {v} : revision'[w] = revision[w]
    BY <1>0, <1>7, <2>0 DEF PublishCommit, RevisionRecord
  <2>4. v \notin Published /\ Published' = Published \cup {v}
    BY <2>1, <2>3 DEF Published, Status
  <2>5. \A w \in Published : revision'[w] = revision[w]
    BY <2>3, <2>4 DEF Published
  <2> QED BY <2>0, <2>1, <2>2, <2>3, <2>4, <2>5 DEF PublishesItsRow
<1>8. ASSUME NEW x \in Tx, ConfirmCommit(x)
      PROVE  NothingPublished \/ PublishesItsRow(x)
  <2>0. PICK v \in Revision : v = tx[x].revision
    BY <1>8, CommitFacts DEF ConfirmCommit
  <2>1. /\ tx[x].pc = "commit" /\ Status(v) = "none" /\ tx[x].definition \in Definition
        /\ tx' = [tx EXCEPT ![x] = NoTx]
    BY <1>8, <2>0, CommitFacts DEF ConfirmCommit
  <2>2. /\ revision'[v].status = IF tx[x].publish THEN "published" ELSE "draft"
        /\ revision'[v].version = tx[x].version
        /\ revision'[v].template = tx[x].template
        /\ revision'[v].definition = tx[x].definition
        /\ \A w \in Revision \ {v} : revision'[w] = revision[w]
    BY <1>0, <1>8, <2>0 DEF ConfirmCommit
  <2>3. CASE ~tx[x].publish
    BY <1>2, <2>1, <2>2, <2>3
  <2>4. CASE tx[x].publish
    <3>1. v \notin Published /\ Published' = Published \cup {v}
      BY <2>1, <2>2, <2>4 DEF Published, Status
    <3>2. \A w \in Published : revision'[w] = revision[w]
      BY <2>2, <3>1 DEF Published
    <3> QED BY <2>0, <2>1, <2>2, <2>4, <3>1, <3>2 DEF PublishesItsRow
  <2> QED BY <2>3, <2>4
<1> QED BY <1>1, <1>3, <1>4, <1>5, <1>6, <1>7, <1>8, WhoWritesRows

(* The versions of a template are 1, 2, ... without gaps, one revision each. *)
Numbered(t) ==
  /\ IsFiniteSet(OfTemplate(t))
  /\ \A v \in OfTemplate(t) : revision[v].version \in 1 .. Cardinality(OfTemplate(t))
  /\ \A v, w \in OfTemplate(t) : v # w => revision[v].version # revision[w].version
  /\ \A n \in 1 .. Cardinality(OfTemplate(t)) : \E v \in OfTemplate(t) : revision[v].version = n

(* A publication knows at most the next version, and exactly that once it holds
   the key of the index; one transaction of a template holds it. *)
TxNumbered ==
  /\ \A x \in Tx :
       /\ tx[x].pc = "write" =>
            tx[x].version \in 1 .. Cardinality(OfTemplate(tx[x].template)) + 1
       /\ tx[x].pc = "commit" /\ tx[x].publish =>
            tx[x].version = Cardinality(OfTemplate(tx[x].template)) + 1
  /\ \A x, y \in Tx :
       /\ x # y
       /\ tx[x].pc = "commit" /\ tx[x].publish
       /\ tx[y].pc = "commit" /\ tx[y].publish
       => tx[x].template # tx[y].template

VersionInv == (\A t \in Template : Numbered(t)) /\ TxNumbered

(* Where nothing is published the lists of versions stay as they are. *)
LEMMA SameTemplates ==
  ASSUME NothingPublished, NEW t
  PROVE  /\ OfTemplate(t)' = OfTemplate(t)
         /\ \A v \in OfTemplate(t) : revision'[v] = revision[v]
         /\ Numbered(t) => Numbered(t)'
         /\ PublishedAs(t)' = PublishedAs(t)
<1>1. /\ OfTemplate(t)' = OfTemplate(t)
      /\ \A v \in OfTemplate(t) : revision'[v] = revision[v]
  BY DEF NothingPublished, OfTemplate
<1>2. Numbered(t) => Numbered(t)'
  BY <1>1 DEF Numbered
<1>3. ASSUME NEW n
      PROVE  {revision[v].definition : v \in {w \in OfTemplate(t) : revision[w].version = n}}' =
             {revision[v].definition : v \in {w \in OfTemplate(t) : revision[w].version = n}}
  BY <1>1
<1>4. PublishedAs(t)' = PublishedAs(t)
  BY <1>1, <1>3 DEF PublishedAs
<1> QED BY <1>1, <1>2, <1>4

(* A publication adds the next version to its template and leaves the others. *)
LEMMA OneTemplateGrows ==
  ASSUME TypeInv, VersionInv, NEW x \in Tx, PublishesItsRow(x),
         NEW t \in Template, t = tx[x].template
  PROVE  /\ \A u \in Template \ {t} : /\ OfTemplate(u)' = OfTemplate(u) /\ Numbered(u)'
                                      /\ PublishedAs(u)' = PublishedAs(u)
         /\ Numbered(t)'
         /\ Cardinality(OfTemplate(t)) \in Nat
         /\ Cardinality(OfTemplate(t)') = Cardinality(OfTemplate(t)) + 1
         /\ \E d \in Definition : PublishedAs(t)' = Append(PublishedAs(t), {d})
<1>0. PICK v \in Revision, n \in Nat, d \in Definition :
        /\ v = tx[x].revision /\ v \notin Published /\ Published' = Published \cup {v}
        /\ revision'[v].template = t /\ revision'[v].version = n /\ revision'[v].definition = d
        /\ n = tx[x].version
        /\ \A w \in Published : revision'[w] = revision[w]
  <2>1. tx[x].revision \in Revision /\ tx[x].version \in Nat
    BY CommitFacts DEF PublishesItsRow
  <2> QED BY <2>1 DEF PublishesItsRow
<1>1. ASSUME NEW u \in Template \ {t}
      PROVE  /\ OfTemplate(u)' = OfTemplate(u) /\ Numbered(u)'
             /\ PublishedAs(u)' = PublishedAs(u)
  <2>1. /\ OfTemplate(u)' = OfTemplate(u)
        /\ \A w \in OfTemplate(u) : revision'[w] = revision[w]
    BY <1>0 DEF OfTemplate
  <2>2. Numbered(u)'
    BY <2>1 DEF VersionInv, Numbered
  <2>3. ASSUME NEW m
        PROVE  {revision[w].definition : w \in {z \in OfTemplate(u) : revision[z].version = m}}' =
               {revision[w].definition : w \in {z \in OfTemplate(u) : revision[z].version = m}}
    BY <2>1
  <2>4. PublishedAs(u)' = PublishedAs(u)
    BY <2>1, <2>3 DEF PublishedAs
  <2> QED BY <2>1, <2>2, <2>4
<1>2. /\ v \notin OfTemplate(t) /\ OfTemplate(t)' = OfTemplate(t) \cup {v}
      /\ \A w \in OfTemplate(t) : revision'[w] = revision[w]
  BY <1>0 DEF OfTemplate
<1> DEFINE k == Cardinality(OfTemplate(t))
<1>3. /\ Numbered(t) /\ IsFiniteSet(OfTemplate(t)) /\ k \in Nat /\ n = k + 1
  BY <1>0, FS_CardinalityType DEF VersionInv, TxNumbered, PublishesItsRow, Numbered
<1>4. IsFiniteSet(OfTemplate(t)') /\ Cardinality(OfTemplate(t)') = k + 1
  BY <1>2, <1>3, FS_AddElement
<1>5. Numbered(t)'
  <2>1. \A w \in OfTemplate(t) : revision[w].version \in 1 .. k
    BY <1>3 DEF Numbered
  <2>2. \A w \in OfTemplate(t)' : revision'[w].version \in 1 .. Cardinality(OfTemplate(t)')
    BY <1>0, <1>2, <1>3, <1>4, <2>1
  <2>3. \A w, z \in OfTemplate(t)' : w # z => revision'[w].version # revision'[z].version
    BY <1>0, <1>2, <1>3, <2>1 DEF Numbered
  <2>4. \A m \in 1 .. Cardinality(OfTemplate(t)') :
          \E w \in OfTemplate(t)' : revision'[w].version = m
    <3> SUFFICES ASSUME NEW m \in 1 .. k + 1
                 PROVE  \E w \in OfTemplate(t)' : revision'[w].version = m
      BY <1>4
    <3>1. CASE m = k + 1
      BY <1>0, <1>2, <1>3, <3>1
    <3>2. CASE m # k + 1
      <4>1. m \in 1 .. k
        BY <1>3, <3>2
      <4> QED BY <1>2, <1>3, <4>1 DEF Numbered
    <3> QED BY <3>1, <3>2
  <2> QED BY <1>4, <2>2, <2>3, <2>4 DEF Numbered
<1>6. PublishedAs(t)' = Append(PublishedAs(t), {d})
  <2> DEFINE Old(m) == {revision[w].definition : w \in {z \in OfTemplate(t) : revision[z].version = m}}
             New(m) == {revision'[w].definition : w \in {z \in OfTemplate(t)' : revision'[z].version = m}}
  <2>1. PublishedAs(t) = [m \in 1 .. k |-> Old(m)]
    BY DEF PublishedAs
  <2>2. PublishedAs(t)' = [m \in 1 .. k + 1 |-> New(m)]
    BY <1>4 DEF PublishedAs
  <2>3. ASSUME NEW m \in 1 .. k PROVE New(m) = Old(m)
    BY <1>0, <1>2, <1>3, <2>3
  <2>4. New(k + 1) = {d}
    <3>1. \A w \in OfTemplate(t) : revision[w].version # k + 1
      BY <1>3 DEF Numbered
    <3> QED BY <1>0, <1>2, <1>3, <3>1
  <2> HIDE DEF Old, New
  <2> DEFINE s == [m \in 1 .. k |-> Old(m)]
  <2>5. Append(s, {d}) = [m \in 1 .. k + 1 |-> New(m)]
    <3> HIDE DEF k
    <3>1. s \in Seq({Old(m) : m \in 1 .. k} \cup {{d}}) /\ Len(s) = k
      BY <1>3
    <3>2. Append(s, {d}) = [m \in 1 .. k + 1 |-> IF m \in 1 .. k THEN s[m] ELSE {d}]
      BY <1>3, <3>1
    <3> QED BY <1>3, <2>3, <2>4, <3>1, <3>2
  <2> QED BY <2>1, <2>2, <2>5
<1> QED BY <1>1, <1>3, <1>4, <1>5, <1>6

(* Where nothing is published, one transaction may take the next number. *)
LEMMA NumberedAlone ==
  ASSUME TypeInv, TxNumbered, NothingPublished, NEW x \in Tx, NEW q, tx' = [tx EXCEPT ![x] = q],
         q.pc = "write" => q.version \in 1 .. Cardinality(OfTemplate(q.template)) + 1,
         q.pc = "commit" /\ q.publish =>
           /\ q.version = Cardinality(OfTemplate(q.template)) + 1
           /\ \A y \in Tx \ {x} : tx[y].pc = "commit" /\ tx[y].publish =>
                tx[y].template # q.template
  PROVE  TxNumbered'
<1>1. \A t : OfTemplate(t)' = OfTemplate(t)
  BY SameTemplates
<1>2. tx'[x] = q /\ \A y \in Tx \ {x} : tx'[y] = tx[y]
  BY DEF TypeInv, TxTypes
<1>3. ASSUME NEW y \in Tx
      PROVE  /\ tx'[y].pc = "write" =>
                  tx'[y].version \in 1 .. Cardinality(OfTemplate(tx[y].template)') + 1
             /\ tx'[y].pc = "commit" /\ tx'[y].publish =>
                  tx'[y].version = Cardinality(OfTemplate(tx[y].template)') + 1
  <2>1. OfTemplate(tx[y].template)' = OfTemplate(tx'[y].template)
    BY <1>1 DEF NothingPublished, OfTemplate
  <2> QED BY <1>2, <2>1 DEF TxNumbered
<1>4. ASSUME NEW y \in Tx, NEW z \in Tx, y # z,
             tx'[y].pc = "commit", tx'[y].publish, tx'[z].pc = "commit", tx'[z].publish
      PROVE  tx'[y].template # tx'[z].template
  BY <1>2, <1>4 DEF TxNumbered
<1> QED BY <1>3, <1>4 DEF TxNumbered

(* The next version is one more than there are, since there are no gaps. *)
LEMMA NextVersionIs ==
  ASSUME TypeInv, VersionInv, NEW t \in Template
  PROVE  /\ Cardinality(OfTemplate(t)) \in Nat
         /\ NextVersion(t) = Cardinality(OfTemplate(t)) + 1
<1> DEFINE k == Cardinality(OfTemplate(t))
           S == {revision[w].version : w \in OfTemplate(t)}
<1>1. Numbered(t) /\ k \in Nat
  BY FS_CardinalityType DEF VersionInv, Numbered
<1>2. S = 1 .. k
  BY <1>1 DEF Numbered
<1>3. MaxOf(1 .. k) = k
  <2> HIDE DEF k
  <2>1. 1 .. k \in SUBSET Nat /\ \A m \in 1 .. k : m <= k
    BY <1>1
  <2>2. /\ MaxOf(1 .. k) \in Nat /\ MaxOf(1 .. k) <= k
        /\ \A m \in 1 .. k : m <= MaxOf(1 .. k)
    BY <1>1, <2>1, MaxOfBounded
  <2>3. k = 0 \/ k \in 1 .. k
    BY <1>1
  <2> QED BY <1>1, <2>2, <2>3
<1> QED BY <1>1, <1>2, <1>3 DEF NextVersion

(* A transaction past its write holds the next version of its template alone. *)
LEMMA TxNumberedStep ==
  ASSUME TypeInv, VersionInv, [CatalogNext]_catalogVars
  PROVE  TxNumbered'
<1>0. TxNumbered /\ (\A t \in Template : Numbered(t)) /\ TxTypes
  BY DEF VersionInv, TypeInv
<1>1. ASSUME NothingPublished, UNCHANGED tx
      PROVE  TxNumbered'
  BY <1>0, <1>1, SameTemplates DEF TxNumbered
<1>2. ASSUME NothingPublished, NEW x \in Tx, NEW q, tx' = [tx EXCEPT ![x] = q],
             q.pc # "write", q.pc # "commit" \/ ~q.publish
      PROVE  TxNumbered'
  BY <1>0, <1>2, NumberedAlone
<1>3. ASSUME NothingPublished, NEW x \in Tx,
             \/ \E v \in Revision : PublishRead(x, v)
             \/ \E i \in Import : UploadWrite(x, i) \/ ConfirmRead(x, i)
             \/ UploadCommit(x) \/ Rollback(x)
      PROVE  TxNumbered'
  <2> DEFINE Quiet == \E q : tx' = [tx EXCEPT ![x] = q] /\ q.pc \notin {"write", "commit"}
  <2>1. ASSUME NEW v \in Revision, PublishRead(x, v) PROVE Quiet
    <3>1. [NoTx EXCEPT !.pc = "number", !.revision = v, !.publish = TRUE,
                       !.template = revision[v].template,
                       !.definition = revision[v].definition].pc = "number"
      BY DEF NoTx
    <3> QED BY <2>1, <3>1 DEF PublishRead
  <2>2. ASSUME NEW i \in Import, UploadWrite(x, i) PROVE Quiet
    <3>1. [NoTx EXCEPT !.pc = "uploaded", !.import = i].pc = "uploaded"
      BY DEF NoTx
    <3> QED BY <2>2, <3>1 DEF UploadWrite
  <2>3. ASSUME NEW i \in Import, ConfirmRead(x, i) PROVE Quiet
    <3>1. [NoTx EXCEPT !.pc = "confirm", !.import = i].pc = "confirm"
      BY DEF NoTx
    <3> QED BY <2>3, <3>1 DEF ConfirmRead
  <2>4. ASSUME UploadCommit(x) \/ Rollback(x) PROVE Quiet
    <3>1. NoTx.pc = "idle"
      BY DEF NoTx
    <3> QED BY <2>4, <3>1 DEF UploadCommit, Rollback
  <2>5. Quiet
    BY <1>3, <2>1, <2>2, <2>3, <2>4
  <2> QED BY <1>2, <1>3, <2>5
<1>4. ASSUME NothingPublished, NEW x \in Tx, PublishNumber(x)
      PROVE  TxNumbered'
  <2> DEFINE t == tx[x].template
             q == [tx[x] EXCEPT !.pc = "write", !.version = NextVersion(t)]
  <2>1. tx' = [tx EXCEPT ![x] = q] /\ t \in Template /\ tx[x] \in TxRecord
    BY <1>0, <1>4 DEF PublishNumber, TxTypes, WellFormedTx
  <2>2. q.pc = "write" /\ q.template = t /\ q.version = NextVersion(t)
    BY <2>1 DEF TxRecord
  <2>3. q.version \in 1 .. Cardinality(OfTemplate(q.template)) + 1
    BY <2>1, <2>2, NextVersionIs
  <2> HIDE DEF q
  <2> QED BY <1>0, <1>4, <2>1, <2>2, <2>3, NumberedAlone
<1>5. ASSUME NothingPublished, NEW x \in Tx, PublishWrite(x)
      PROVE  TxNumbered'
  <2> DEFINE t == tx[x].template
             k == Cardinality(OfTemplate(t))
             q == [tx[x] EXCEPT !.pc = "commit", !.seq = nextSeq]
  <2>1. /\ tx' = [tx EXCEPT ![x] = q] /\ t \in Template /\ tx[x] \in TxRecord
        /\ tx[x].pc = "write" /\ Numbered(t)
    BY <1>0, <1>5 DEF PublishWrite, TxTypes, WellFormedTx
  <2>2. q.pc = "commit" /\ q.template = t /\ q.version = tx[x].version
    BY <2>1 DEF TxRecord
  <2>3. tx[x].version \in 1 .. k + 1 /\ k \in Nat
    BY <1>0, <2>1, NextVersionIs DEF TxNumbered
  <2>4. tx[x].version \notin 1 .. k
    BY <1>5, <2>1 DEF PublishWrite, Collides, Numbered
  <2>5. tx[x].version = k + 1
    BY <2>3, <2>4
  <2>6. \A y \in Tx \ {x} : tx[y].pc = "commit" /\ tx[y].publish => tx[y].template # t
    BY <1>0, <1>5, <2>5 DEF PublishWrite, Waits, TxNumbered
  <2> HIDE DEF q
  <2> QED BY <1>0, <1>5, <2>1, <2>2, <2>5, <2>6, NumberedAlone
<1>6. ASSUME NothingPublished, NEW x \in Tx, ConfirmWrites(x)
      PROVE  TxNumbered'
  <2>1. PICK v \in Revision, t \in Template, d \in Definition, publish \in BOOLEAN :
          ConfirmWrite(x, v, t, d, publish)
    BY <1>6 DEF ConfirmWrites
  <2> DEFINE q == [pc |-> "commit", revision |-> v, template |-> t, definition |-> d,
                   import |-> tx[x].import, publish |-> publish,
                   version |-> IF publish THEN 1 ELSE 0,
                   seq |-> IF publish THEN nextSeq ELSE 0]
  <2>2. tx' = [tx EXCEPT ![x] = q]
    BY <2>1 DEF ConfirmWrite
  <2>3. OfTemplate(t) = {} /\ \A y \in Tx : tx[y].template # t
    <3>1. t \in NewTemplate
      BY <2>1 DEF ConfirmWrite
    <3> QED BY <3>1 DEF NewTemplate, OneOf, OfTemplate, Published
  <2>4. Cardinality(OfTemplate(t)) + 1 = 1
    BY <2>3, FS_EmptySet
  <2>5. /\ q.pc = "commit" /\ q.template = t
        /\ q.publish => q.version = Cardinality(OfTemplate(t)) + 1
    BY <2>4
  <2> HIDE DEF q
  <2> QED BY <1>0, <1>6, <2>2, <2>3, <2>5, NumberedAlone
<1>7. ASSUME NEW x \in Tx, PublishesItsRow(x)
      PROVE  TxNumbered'
  <2>1. PICK t \in Template : t = tx[x].template
    BY <1>7, CommitFacts DEF PublishesItsRow
  <2>2. /\ Cardinality(OfTemplate(t)) \in Nat
        /\ Cardinality(OfTemplate(t)') = Cardinality(OfTemplate(t)) + 1
        /\ \A u \in Template \ {t} : OfTemplate(u)' = OfTemplate(u)
    BY <1>7, <2>1, OneTemplateGrows
  <2>3. /\ tx[x].pc = "commit" /\ tx[x].publish
        /\ tx'[x].pc = "idle" /\ \A y \in Tx \ {x} : tx'[y] = tx[y]
    BY <1>0, <1>7 DEF PublishesItsRow, TxTypes, NoTx
  <2>4. ASSUME NEW y \in Tx
        PROVE  /\ tx'[y].pc = "write" =>
                    tx'[y].version \in 1 .. Cardinality(OfTemplate(tx[y].template)') + 1
               /\ tx'[y].pc = "commit" /\ tx'[y].publish =>
                    tx'[y].version = Cardinality(OfTemplate(tx[y].template)') + 1
    <3> SUFFICES ASSUME y # x, tx[y].pc \in {"write", "commit"}
                 PROVE  /\ tx[y].pc = "write" =>
                             tx[y].version \in 1 .. Cardinality(OfTemplate(tx[y].template)') + 1
                        /\ tx[y].pc = "commit" /\ tx[y].publish =>
                             tx[y].version = Cardinality(OfTemplate(tx[y].template)') + 1
      BY <2>3
    <3>1. PICK u \in Template : u = tx[y].template /\ u = tx'[y].template
      BY <1>0, <2>3 DEF TxTypes, WellFormedTx
    <3>2. OfTemplate(tx[y].template)' = OfTemplate(u)'
      BY <3>1 DEF OfTemplate
    <3>3. /\ tx[y].pc = "write" => tx[y].version \in 1 .. Cardinality(OfTemplate(u)) + 1
          /\ tx[y].pc = "commit" /\ tx[y].publish =>
               tx[y].version = Cardinality(OfTemplate(u)) + 1 /\ u # t
      BY <1>0, <2>1, <2>3, <3>1 DEF TxNumbered
    <3>4. /\ tx[y].pc = "write" => tx[y].version \in 1 .. Cardinality(OfTemplate(u)') + 1
          /\ tx[y].pc = "commit" /\ tx[y].publish =>
               tx[y].version = Cardinality(OfTemplate(u)') + 1
      <4>1. CASE u = t
        BY <2>2, <3>3, <4>1
      <4>2. CASE u # t
        BY <2>2, <3>3, <4>2
      <4> QED BY <4>1, <4>2
    <3> QED BY <3>2, <3>4
  <2>5. ASSUME NEW y \in Tx, NEW z \in Tx, y # z,
               tx'[y].pc = "commit", tx'[y].publish, tx'[z].pc = "commit", tx'[z].publish
        PROVE  tx'[y].template # tx'[z].template
    BY <1>0, <2>3, <2>5 DEF TxNumbered
  <2> QED BY <2>4, <2>5 DEF TxNumbered
<1>8. ASSUME NothingPublished, NEW x \in Tx, PublishCommit(x) \/ ConfirmCommit(x)
      PROVE  TxNumbered'
  <2>1. tx' = [tx EXCEPT ![x] = NoTx] /\ NoTx.pc = "idle"
    BY <1>8 DEF PublishCommit, ConfirmCommit, NoTx
  <2> QED BY <1>2, <1>8, <2>1
<1>9. CASE NothingPublished
  BY <1>1, <1>3, <1>4, <1>5, <1>6, <1>8, <1>9, WhoWritesTx
<1> QED BY <1>7, <1>9, WhoPublishes

(* Versions without gaps, with the ones in hand, are inductive. *)
LEMMA VersionStep == TypeInv /\ VersionInv /\ [CatalogNext]_catalogVars => VersionInv'
<1> SUFFICES ASSUME TypeInv, VersionInv, [CatalogNext]_catalogVars PROVE VersionInv'
  OBVIOUS
<1>1. TxNumbered'
  BY TxNumberedStep
<1>2. ASSUME NothingPublished, NEW t \in Template PROVE Numbered(t)'
  BY <1>2, SameTemplates DEF VersionInv
<1>3. ASSUME NEW x \in Tx, PublishesItsRow(x), NEW t \in Template PROVE Numbered(t)'
  <2>1. PICK u \in Template : u = tx[x].template
    BY <1>3, CommitFacts DEF PublishesItsRow
  <2> QED BY <1>3, <2>1, OneTemplateGrows
<1> QED BY <1>1, <1>2, <1>3, WhoPublishes DEF VersionInv

(* Before any publication every list of versions is empty. *)
LEMMA VersionInit == CatalogInit => VersionInv
<1> SUFFICES ASSUME CatalogInit PROVE VersionInv
  OBVIOUS
<1>1. ASSUME NEW t PROVE OfTemplate(t) = {}
  BY DEF CatalogInit, NoRevision, OfTemplate, Published, Status
<1>2. ASSUME NEW t PROVE Numbered(t)
  BY <1>1, FS_EmptySet DEF Numbered
<1>3. TxNumbered
  BY DEF CatalogInit, NoTx, TxNumbered
<1> QED BY <1>2, <1>3 DEF VersionInv

(* However publications of a template race, its versions are 1, 2, ... without
   a gap, one published revision each: the unique index and the wait for its
   keys in publishRevision do it. *)
THEOREM VersionsHaveNoGaps == CatalogSpec => []VersionInv
BY TypeInvHolds, VersionInit, VersionStep, PTL DEF CatalogSpec

(* The step makes one publication of the log, or none. *)
LEMMA LogStep ==
  TypeInv /\ VersionInv /\ [CatalogNext]_catalogVars =>
    [Log!Next]_[t \in Template |-> PublishedAs(t)]
<1> SUFFICES ASSUME TypeInv, VersionInv, [CatalogNext]_catalogVars
             PROVE  [Log!Next]_[t \in Template |-> PublishedAs(t)]
  OBVIOUS
<1>1. CASE NothingPublished
  <2>1. \A t \in Template : PublishedAs(t)' = PublishedAs(t)
    BY <1>1, SameTemplates
  <2> QED BY <2>1
<1>2. ASSUME NEW x \in Tx, PublishesItsRow(x)
      PROVE  Log!Next
  <2>1. PICK t \in Template : t = tx[x].template
    BY <1>2, CommitFacts DEF PublishesItsRow
  <2>2. PICK d \in Definition :
          /\ PublishedAs(t)' = Append(PublishedAs(t), {d})
          /\ \A u \in Template \ {t} : PublishedAs(u)' = PublishedAs(u)
    BY <1>2, <2>1, OneTemplateGrows
  <2>3. Log!Publish(t, {d})
    BY <2>2 DEF Log!Publish
  <2> QED BY <2>3 DEF Log!Next
<1> QED BY <1>1, <1>2, WhoPublishes

(* The catalogue begins as the log does: with no version. *)
LEMMA LogInit == CatalogInit => Log!Init
<1> SUFFICES ASSUME CatalogInit PROVE Log!Init
  OBVIOUS
<1>1. ASSUME NEW t PROVE PublishedAs(t) = << >>
  <2>1. OfTemplate(t) = {}
    BY DEF CatalogInit, NoRevision, OfTemplate, Published, Status
  <2>2. Cardinality(OfTemplate(t)) = 0
    BY <2>1, FS_EmptySet
  <2> QED BY <2>2 DEF PublishedAs
<1> QED BY <1>1 DEF Log!Init

(* The catalogue implements the log of publications (PublicationLog): what an
   inspection names by (template, version) is published once, in order, and no
   later step changes it (FR-028, FR-049). *)
THEOREM CatalogImplementsLog == CatalogSpec => AppendsToTheLog
<1>1. CatalogSpec => Log!Init
  BY LogInit DEF CatalogSpec
<1>2. CatalogSpec => [][Log!Next]_[t \in Template |-> PublishedAs(t)]
  BY TypeInvHolds, VersionsHaveNoGaps, LogStep, PTL DEF CatalogSpec
<1> QED BY <1>1, <1>2, PTL DEF AppendsToTheLog, Log!Spec
=============================================================================
