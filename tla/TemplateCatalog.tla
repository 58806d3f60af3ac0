--------------------------- MODULE TemplateCatalog ---------------------------
(***************************************************************************)
(* The templates of one tenant on the server (TemplatesService): drafts,   *)
(* publication, assignment, the import of a workbook, and the delta that a *)
(* device asks for with the cursor of plantillas.ts.                       *)
(*                                                                         *)
(* A write that is one statement is one action.  A publication and a       *)
(* confirmation are transactions (READ COMMITTED): one action per read,    *)
(* one for the writes, which take the locks of the rows and of the unique  *)
(* indexes, and one for the COMMIT, which makes them visible.  A statement *)
(* that meets a lock waits: its action is not enabled.                     *)
(*                                                                         *)
(* A definition is a value that stands for its items: two materialised     *)
(* catalogues with the same items collide on the keys of template_item.    *)
(***************************************************************************)
EXTENDS Naturals, FiniteSets

CONSTANTS Revision, Template, Definition, Import, Tx, Nothing,
          MaxRequests   \* bound of the instance: requests ever made

ASSUME CatalogAssumption ==
  /\ Nothing \notin Revision \cup Template \cup Definition \cup Import
  /\ MaxRequests \in Nat

VARIABLES
  revision,   \* table template_revision
  items,      \* tables template_section and template_item, by revision
  upload,     \* table template_imports: the status of each
  volume,     \* imports whose file is on the sync volume
  confirmed,  \* rows of audit_log that say an import was confirmed
  assigned,   \* revisions with an active assignment for the device
  nextSeq,    \* sequence template_revision_published_seq
  tx,         \* the transactions in progress
  delta,      \* the delta being read for the device
  device,     \* what the device keeps: revisions, cursor
  requests,   \* requests made so far
  late,       \* history: revisions that became visible behind the cursor
  unread,     \* history: those that became visible since the list of the delta was read
  edited,     \* history: drafts changed between the read and the write of a publication
  twice       \* history: imports that two overlapping requests confirmed

catalogVars == <<revision, items, upload, volume, confirmed, assigned, nextSeq,
                 tx, delta, device, requests, late, unread, edited, twice>>
importVars == <<upload, volume, confirmed, twice>>
deviceVars == <<delta, device>>
history == <<late, unread>>

NoRevision == [status |-> "none", template |-> Nothing, definition |-> Nothing,
               version |-> 0, seq |-> 0, source |-> Nothing]
NoTx == [pc |-> "idle", revision |-> Nothing, template |-> Nothing,
         definition |-> Nothing, import |-> Nothing, publish |-> FALSE,
         version |-> 0, seq |-> 0]
NoDelta == [pc |-> "idle", items |-> {}, itemsRead |-> FALSE, max |-> 0, maxRead |-> FALSE]

CatalogInit ==
  /\ revision = [v \in Revision |-> NoRevision]
  /\ items = [v \in Revision |-> Nothing]
  /\ upload = [i \in Import |-> "none"]
  /\ volume = {}
  /\ confirmed = [i \in Import |-> 0]
  /\ assigned = {}
  /\ nextSeq = 1
  /\ tx = [x \in Tx |-> NoTx]
  /\ delta = NoDelta
  /\ device \in [cached : {{}}, cursor : {0}, admin : BOOLEAN]
  /\ requests = 0
  /\ late = {} /\ unread = {} /\ edited = {} /\ twice = {}

----------------------------------------------------------------------------
Status(v) == revision[v].status
Published == {v \in Revision : Status(v) = "published"}
OfTemplate(t) == {v \in Published : revision[v].template = t}
MaxOf(S) == IF S = {} THEN 0 ELSE CHOOSE n \in S : \A m \in S : m <= n

\* The row is locked by an UPDATE that has not been committed.
Locked(v) == \E x \in Tx : tx[x].pc = "commit" /\ tx[x].revision = v

\* gen_random_uuid: an id that no row and no transaction has; which of them
\* makes no difference.
OneOf(S) == IF S = {} THEN {} ELSE {CHOOSE e \in S : TRUE}
NewRevision ==
  OneOf({v \in Revision : Status(v) = "none" /\ \A x \in Tx : tx[x].revision # v})
NewTemplate ==
  OneOf({t \in Template : /\ \A v \in Revision : revision[v].template # t
                          /\ \A x \in Tx : tx[x].template # t})

\* visibilidadRolOperativo: a worker sees what is assigned to the role and site,
\* a tenant_admin all that is published.
Visible(v) == v \in Published /\ (device.admin \/ v \in assigned)

\* A revision becomes visible: the cursor of the device has passed it, or the
\* list of the delta in progress was read without it.
Noted(appears, v, seq) ==
  /\ late' = IF appears /\ seq <= device.cursor THEN late \cup {v} ELSE late
  /\ unread' = IF appears /\ delta.itemsRead THEN unread \cup {v} ELSE unread

----------------------------------------------------------------------------
(* Drafts: POST /templates, POST and PATCH of a revision, archive          *)

Request == requests < MaxRequests /\ requests' = requests + 1

\* createTemplateWithDraft, or createTemplate and createDraftRevision.
CreateDraft(v, t, d) ==
  /\ Request
  /\ v \in NewRevision
  /\ t \in NewTemplate \/ \E w \in Revision : revision[w].template = t
  /\ revision' = [revision EXCEPT ![v] =
                    [NoRevision EXCEPT !.status = "draft", !.template = t, !.definition = d]]
  /\ UNCHANGED <<items, importVars, assigned, nextSeq, tx, deviceVars, history, edited>>

\* Mutant: the UPDATE has no condition on the status.
MutUpdateDraft(v, d) ==
  /\ Request
  /\ Status(v) # "none" /\ ~Locked(v)
  /\ revision' = [revision EXCEPT ![v].definition = d]
  /\ edited' = IF \E x \in Tx : tx[x].revision = v /\ tx[x].definition # d
               THEN edited \cup {v} ELSE edited
  /\ UNCHANGED <<items, importVars, assigned, nextSeq, tx, deviceVars, history>>

\* UPDATE ... WHERE status = 'draft'.
UpdateDraft(v, d) ==
  /\ Request
  /\ Status(v) = "draft" /\ ~Locked(v)
  /\ revision' = [revision EXCEPT ![v].definition = d]
  /\ edited' = IF \E x \in Tx : tx[x].revision = v /\ tx[x].definition # d
               THEN edited \cup {v} ELSE edited
  /\ UNCHANGED <<items, importVars, assigned, nextSeq, tx, deviceVars, history>>

ArchiveDraft(v) ==
  /\ Request
  /\ Status(v) = "draft" /\ ~Locked(v)
  /\ revision' = [revision EXCEPT ![v].status = "archived"]
  /\ UNCHANGED <<items, importVars, assigned, nextSeq, tx, deviceVars, history, edited>>

----------------------------------------------------------------------------
(* publishRevision                                                         *)

PublishRead(x, v) ==
  /\ Request
  /\ tx[x] = NoTx
  /\ Status(v) = "draft"
  /\ tx' = [tx EXCEPT ![x] = [NoTx EXCEPT !.pc = "number", !.revision = v, !.publish = TRUE,
                                !.template = revision[v].template,
                                !.definition = revision[v].definition]]
  /\ UNCHANGED <<revision, items, importVars, assigned, nextSeq, deviceVars, history, edited>>

NextVersion(t) == MaxOf({revision[w].version : w \in OfTemplate(t)}) + 1

PublishNumber(x) ==
  /\ tx[x].pc = "number"
  /\ tx' = [tx EXCEPT ![x].pc = "write", ![x].version = NextVersion(tx[x].template)]
  /\ UNCHANGED <<requests, revision, items, importVars, assigned, nextSeq, deviceVars, history, edited>>

\* Another transaction that has not ended holds a key that this one needs:
\* the row, the items, or (template, version).
Waits(x, v, t, d, n) ==
  \E y \in Tx \ {x} :
    /\ tx[y].pc = "commit" /\ tx[y].publish
    /\ \/ tx[y].revision = v
       \/ tx[y].definition = d
       \/ tx[y].template = t /\ tx[y].version = n

\* Mutant: no unique index on the version.
MutCollides(v, t, d, n) == \E w \in Revision \ {v} : items[w] = d

\* A committed row has one of the keys.
Collides(v, t, d, n) ==
  \/ \E w \in Revision \ {v} : items[w] = d
  \/ \E w \in OfTemplate(t) : revision[w].version = n

\* materializeCatalog and UPDATE ... WHERE status = 'draft'.
PublishWrite(x) ==
  LET q == tx[x] IN
  /\ q.pc = "write"
  /\ ~Waits(x, q.revision, q.template, q.definition, q.version)
  /\ Status(q.revision) = "draft"
  /\ ~Collides(q.revision, q.template, q.definition, q.version)
  /\ tx' = [tx EXCEPT ![x].pc = "commit", ![x].seq = nextSeq]
  /\ nextSeq' = nextSeq + 1
  /\ UNCHANGED <<requests, revision, items, importVars, assigned, deviceVars, history, edited>>

PublishCommit(x) ==
  LET v == tx[x].revision IN
  /\ tx[x].pc = "commit" /\ tx[x].import = Nothing
  /\ revision' = [revision EXCEPT ![v].status = "published", ![v].version = tx[x].version,
                                  ![v].seq = tx[x].seq]
  /\ items' = [items EXCEPT ![v] = tx[x].definition]
  /\ tx' = [tx EXCEPT ![x] = NoTx]
  /\ Noted(device.admin, v, tx[x].seq)
  /\ UNCHANGED <<requests, importVars, assigned, nextSeq, deviceVars, edited>>

\* 409, 23505, a lost connection: nothing of the transaction stays.
Rollback(x) ==
  /\ tx[x] # NoTx
  /\ tx' = [tx EXCEPT ![x] = NoTx]
  /\ UNCHANGED <<requests, revision, items, importVars, assigned, nextSeq, deviceVars, history, edited>>

----------------------------------------------------------------------------
(* Assignment to the role and site of the device                           *)

\* Mutant: also a revision that is not published.
MutAssign(v) ==
  /\ Request
  /\ Status(v) # "none" /\ v \notin assigned
  /\ assigned' = assigned \cup {v}
  /\ Noted(~device.admin, v, revision[v].seq)
  /\ UNCHANGED <<revision, items, importVars, nextSeq, tx, deviceVars, edited>>

Assign(v) ==
  /\ Request
  /\ v \in Published \ assigned
  /\ assigned' = assigned \cup {v}
  /\ Noted(~device.admin, v, revision[v].seq)
  /\ UNCHANGED <<revision, items, importVars, nextSeq, tx, deviceVars, edited>>

\* Deactivation or DELETE.
Unassign(v) ==
  /\ Request
  /\ v \in assigned
  /\ assigned' = assigned \ {v}
  /\ UNCHANGED <<revision, items, importVars, nextSeq, tx, deviceVars, history, edited>>

----------------------------------------------------------------------------
(* The import of a workbook                                                *)

\* uploadAndParseTemplateImport: row, file and proposal in one transaction,
\* and the file is written before it commits.
UploadWrite(x, i) ==
  /\ Request
  /\ tx[x] = NoTx
  /\ upload[i] = "none" /\ i \notin volume
  /\ volume' = volume \cup {i}
  /\ tx' = [tx EXCEPT ![x] = [NoTx EXCEPT !.pc = "uploaded", !.import = i]]
  /\ UNCHANGED <<revision, items, upload, confirmed, assigned, nextSeq, deviceVars, history,
                 edited, twice>>

\* The parser understands the workbook or not.
UploadCommit(x) ==
  /\ tx[x].pc = "uploaded"
  /\ \E s \in {"proposed", "failed"} : upload' = [upload EXCEPT ![tx[x].import] = s]
  /\ tx' = [tx EXCEPT ![x] = NoTx]
  /\ UNCHANGED <<requests, revision, items, volume, confirmed, assigned, nextSeq, deviceVars, history,
                 edited, twice>>

\* Mutant: any import that is there can be confirmed.
MutConfirmRead(x, i) ==
  /\ Request
  /\ tx[x] = NoTx
  /\ upload[i] # "none"
  /\ tx' = [tx EXCEPT ![x] = [NoTx EXCEPT !.pc = "confirm", !.import = i]]
  /\ UNCHANGED <<revision, items, importVars, assigned, nextSeq, deviceVars, history, edited>>

ConfirmRead(x, i) ==
  /\ Request
  /\ tx[x] = NoTx
  /\ upload[i] = "proposed"
  /\ tx' = [tx EXCEPT ![x] = [NoTx EXCEPT !.pc = "confirm", !.import = i]]
  /\ UNCHANGED <<revision, items, importVars, assigned, nextSeq, deviceVars, history, edited>>

\* The new template and its revision, published at once or not, and
\* UPDATE template_imports ... WHERE id, which waits for another confirmation
\* of the import and then goes ahead.
ConfirmWrite(x, v, t, d, publish) ==
  LET i == tx[x].import IN
  /\ tx[x].pc = "confirm"
  /\ v \in NewRevision /\ t \in NewTemplate
  /\ \A y \in Tx : ~(tx[y].pc = "commit" /\ tx[y].import = i)
  /\ publish => ~Waits(x, v, t, d, 1) /\ ~Collides(v, t, d, 1)
  /\ tx' = [tx EXCEPT ![x] = [pc |-> "commit", revision |-> v, template |-> t, definition |-> d,
                              import |-> i, publish |-> publish,
                              version |-> IF publish THEN 1 ELSE 0,
                              seq |-> IF publish THEN nextSeq ELSE 0]]
  /\ nextSeq' = IF publish THEN nextSeq + 1 ELSE nextSeq
  /\ UNCHANGED <<requests, revision, items, importVars, assigned, deviceVars, history, edited>>

ConfirmCommit(x) ==
  LET q == tx[x] IN
  /\ q.pc = "commit" /\ q.import # Nothing
  /\ revision' = [revision EXCEPT ![q.revision] =
                    [status |-> IF q.publish THEN "published" ELSE "draft",
                     template |-> q.template, definition |-> q.definition,
                     version |-> q.version, seq |-> q.seq, source |-> q.import]]
  /\ items' = IF q.publish THEN [items EXCEPT ![q.revision] = q.definition] ELSE items
  /\ upload' = [upload EXCEPT ![q.import] = "confirmed"]
  /\ confirmed' = [confirmed EXCEPT ![q.import] = @ + 1]
  /\ twice' = IF \E y \in Tx \ {x} : tx[y].import = q.import
              THEN twice \cup {q.import} ELSE twice
  /\ Noted(device.admin /\ q.publish, q.revision, q.seq)
  /\ tx' = [tx EXCEPT ![x] = NoTx]
  /\ UNCHANGED <<requests, volume, assigned, nextSeq, deviceVars, edited>>

----------------------------------------------------------------------------
(* GET /templates?since=: listPublishedRevisions runs its two queries in    *)
(* parallel, each in a transaction of its own; the device merges what it    *)
(* gets and moves its cursor (fusionarDelta, cursorDesdeGuardado).          *)

DeltaAsk ==
  /\ Request
  /\ delta = NoDelta
  /\ delta' = [NoDelta EXCEPT !.pc = "reading"]
  /\ UNCHANGED <<revision, items, importVars, assigned, nextSeq, tx, device, history, edited>>

DeltaItems ==
  /\ delta.pc = "reading" /\ ~delta.itemsRead
  /\ delta' = [delta EXCEPT !.itemsRead = TRUE,
                 !.items = {v \in Revision : Visible(v) /\ revision[v].seq > device.cursor}]
  /\ UNCHANGED <<requests, revision, items, importVars, assigned, nextSeq, tx, device, history, edited>>

LatestSeq == MaxOf({revision[v].seq : v \in {w \in Revision : Visible(w)}})

DeltaMax ==
  /\ delta.pc = "reading" /\ ~delta.maxRead
  /\ delta' = [delta EXCEPT !.maxRead = TRUE, !.max = LatestSeq]
  /\ UNCHANGED <<requests, revision, items, importVars, assigned, nextSeq, tx, device, history, edited>>

\* The cursor never goes back.
CursorAfter(cursor, got, max) ==
  MaxOf({cursor, max} \cup {revision[v].seq : v \in got})

DeltaMerge ==
  /\ delta.itemsRead /\ delta.maxRead
  /\ device' = [device EXCEPT !.cached = @ \cup delta.items,
                              !.cursor = CursorAfter(@, delta.items, delta.max)]
  /\ delta' = NoDelta
  /\ late' = late \cup {v \in unread : revision[v].seq <= device'.cursor} /\ unread' = {}
  /\ UNCHANGED <<requests, revision, items, importVars, assigned, nextSeq, tx, edited>>

\* Mutant: the cursor of an integration that was cut moves.
MutDeltaLost ==
  /\ delta # NoDelta
  /\ delta' = NoDelta
  /\ device' = [device EXCEPT !.cursor = CursorAfter(@, delta.items, delta.max)]
  /\ unread' = {}
  /\ UNCHANGED <<requests, revision, items, importVars, assigned, nextSeq, tx, late, edited>>

\* The answer is lost, or the integration is cut: the cursor stays, and what the
\* list did not have is sent the next time.
DeltaLost ==
  /\ delta # NoDelta
  /\ delta' = NoDelta
  /\ unread' = {}
  /\ UNCHANGED <<requests, revision, items, importVars, assigned, nextSeq, tx, device, late, edited>>

----------------------------------------------------------------------------
Author ==
  \/ \E v \in Revision, t \in Template, d \in Definition : CreateDraft(v, t, d)
  \/ \E v \in Revision, d \in Definition : UpdateDraft(v, d)
  \/ \E v \in Revision : ArchiveDraft(v) \/ Assign(v) \/ Unassign(v)

Publish(x) ==
  \/ \E v \in Revision : PublishRead(x, v)
  \/ PublishNumber(x) \/ PublishWrite(x) \/ PublishCommit(x) \/ Rollback(x)

Importing(x) ==
  \/ \E i \in Import : UploadWrite(x, i) \/ ConfirmRead(x, i)
  \/ UploadCommit(x) \/ ConfirmCommit(x)
  \/ \E v \in Revision, t \in Template, d \in Definition, publish \in BOOLEAN :
       ConfirmWrite(x, v, t, d, publish)

Delta == DeltaAsk \/ DeltaItems \/ DeltaMax \/ DeltaMerge \/ DeltaLost

CatalogNext ==
  \/ Author
  \/ \E x \in Tx : Publish(x) \/ Importing(x)
  \/ Delta

CatalogSpec == CatalogInit /\ [][CatalogNext]_catalogVars

----------------------------------------------------------------------------
Statuses == {"none", "draft", "published", "archived"}

\* Type invariant.
CatalogTypeOK ==
  /\ revision \in [Revision -> [status : Statuses, template : Template \cup {Nothing},
                               definition : Definition \cup {Nothing}, version : Nat,
                               seq : Nat, source : Import \cup {Nothing}]]
  /\ \A v \in Revision : Status(v) # "none" =>
       revision[v].template # Nothing /\ revision[v].definition # Nothing
  /\ items \in [Revision -> Definition \cup {Nothing}]
  /\ upload \in [Import -> {"none", "proposed", "failed", "confirmed"}]
  /\ volume \subseteq Import /\ twice \subseteq Import
  /\ confirmed \in [Import -> Nat]
  /\ assigned \subseteq Published /\ requests \in Nat
  /\ nextSeq \in Nat \ {0}
  /\ tx \in [Tx -> [pc : {"idle", "number", "write", "commit", "uploaded", "confirm"},
                    revision : Revision \cup {Nothing}, template : Template \cup {Nothing},
                    definition : Definition \cup {Nothing}, import : Import \cup {Nothing},
                    publish : BOOLEAN, version : Nat, seq : Nat]]
  /\ delta \in [pc : {"idle", "reading"}, items : SUBSET Revision, itemsRead : BOOLEAN,
                max : Nat, maxRead : BOOLEAN]
  /\ device \in [cached : SUBSET Revision, cursor : Nat, admin : BOOLEAN]
  /\ late \cup unread \subseteq Revision /\ edited \subseteq Revision

\* The typed catalogue of a published revision is that of its definition,
\* unless the draft was edited between the read and the write of its
\* publication; nothing else has a catalogue.
CatalogMatchesUnlessEdited ==
  \A v \in Revision :
    IF Status(v) = "published" THEN items[v] = revision[v].definition \/ v \in edited
    ELSE items[v] = Nothing

\* FR-029, FR-019: an import is confirmed once, with one template and one audit
\* row, unless two confirmations of it overlap, and each has its row even then;
\* and whatever rolled back, the workbook of an import that the tenant can see,
\* and so of every revision that came from one, is on the volume.
ImportConfirmedOnce ==
  \A i \in Import :
    LET made == {v \in Revision : revision[v].source = i} IN
    /\ Cardinality(made) = confirmed[i]
    /\ confirmed[i] > 1 => i \in twice
    /\ made # {} <=> upload[i] = "confirmed"
    /\ upload[i] # "none" => i \in volume

\* FR-027: the device has every revision that it may see and its cursor has
\* passed, except those that became visible behind the cursor, or after the list
\* of the delta was read that moved the cursor past them.
DeltaMissesNothing ==
  \A v \in Revision :
    Visible(v) /\ revision[v].seq <= device.cursor => v \in device.cached \cup late

\* The definitions of a template with each version: one of each.
PublishedAs(t) ==
  [n \in 1 .. Cardinality(OfTemplate(t)) |->
     {revision[v].definition : v \in {w \in OfTemplate(t) : revision[w].version = n}}]

Log == INSTANCE PublicationLog WITH log <- [t \in Template |-> PublishedAs(t)],
                                    Definition <- {{d} : d \in Definition}

\* The catalogue implements the list of publications: versions of a template
\* are numbered without gaps and no published definition ever changes, however
\* publications race.
AppendsToTheLog == Log!Spec
=============================================================================
