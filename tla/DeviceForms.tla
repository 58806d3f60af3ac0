----------------------------- MODULE DeviceForms -----------------------------
(***************************************************************************)
(* The session of the device and its forms: how ProveedorEstado starts,    *)
(* enters and leaves a session, and how a session loads its catalogue,     *)
(* downloads original workbooks, purges them and chooses the form that is  *)
(* shown (store.tsx, catalogo-formularios.ts, plantillas.ts, db.ts).       *)
(*                                                                         *)
(* A task is a chain of awaits; every await is a point where the user, the *)
(* page or another task can act, so one action is the code between two of  *)
(* them.  The server gives an account one of the sets of forms that may be *)
(* assigned to it, refuses, or cannot be reached.                          *)
(***************************************************************************)
EXTENDS Naturals, Sequences, FiniteSets, SequencesExt

CONSTANTS Task,        \* slots for the tasks in progress
          Account, Tenant, AccountTenant,
          Form,        \* published revisions
          FormTenant,
          FormOrder,   \* published_seq of each
          Assignment,  \* sets of forms: what each account may be given, now or later
          Size,        \* bytes of the original workbook of each
          Budget,      \* PRESUPUESTO_ORIGINALES_BYTES
          PerPass,     \* originals downloaded in one pass
          MaxEvents,   \* bound of the instance: events of user and page
          Nobody

ASSUME FormsAssumption ==
  /\ Nobody \notin Account \cup Form
  /\ AccountTenant \in [Account -> Tenant] /\ FormTenant \in [Form -> Tenant]
  /\ FormOrder \in [Form -> Nat] /\ Size \in [Form -> Nat]
  /\ \A f \in Form : \A g \in Form : FormOrder[f] = FormOrder[g] => f = g
  /\ IsFiniteSet(Form)
  /\ \A a \in Account : \A S \in Assignment[a] : \A f \in S :
       f \in Form /\ FormTenant[f] = AccountTenant[a]
  /\ Budget \in Nat /\ PerPass \in Nat /\ MaxEvents \in Nat

VARIABLES
  token,        \* sessionStorage: the account whose token is kept
  saved,        \* Dexie: tc_sesion, the account of the cached session
  catalogue,    \* Dexie: the ids of tc_catalogo_asignado, by account
  rows,         \* Dexie: plantillas, the definitions kept
  originals,    \* Dexie: plantillaOriginales, oldest first
  selected,     \* Dexie: the form last chosen, by tenant (and site)
  draft,        \* Dexie: the revision of the open draft
  usuario,      \* React: the account shown
  hidratando,   \* React: the splash screen
  plantilla,    \* React: the form shown, [form, ok]
  formularios,  \* React: the list shown
  frame,        \* the form of a capture that has not reached the draft yet
  task,
  events,
  crossed,      \* history: accounts whose session ran with the token of another
                \* one, or whose tasks ran into a login of another one
  reframed      \* history: the draft was opened while another form was being chosen

catalogueVars == <<catalogue, rows>>
diskVars == <<saved, catalogueVars, originals, selected, draft>>
screenVars == <<usuario, hidratando, plantilla, formularios>>
formsVars == <<token, diskVars, screenVars, frame, task, events, crossed, reframed>>

NoForm == [form |-> Nobody, ok |-> FALSE]
Rest == [pc |-> "idle", kind |-> "none", account |-> Nobody, alive |-> TRUE, bearer |-> Nobody,
         items |-> {}, pending |-> << >>, seen |-> << >>, plan |-> {}, preferred |-> Nobody,
         form |-> Nobody]

FormsInit ==
  /\ token = Nobody /\ saved = Nobody
  /\ catalogue = [a \in Account |-> {}] /\ rows = {}
  /\ originals = << >>
  /\ selected = [t \in Tenant |-> Nobody]
  /\ draft = Nobody
  /\ usuario = Nobody /\ hidratando = TRUE
  /\ plantilla = NoForm /\ formularios = {}
  /\ frame = Nobody
  /\ task = [k \in Task |-> Rest]
  /\ events = 0
  /\ crossed = {} /\ reframed = FALSE

----------------------------------------------------------------------------
(* Pure parts: plantillas.ts                                               *)

\* filter: what is in K, in the order of s.
Keep(s, K) ==
  LET kept[n \in 0 .. Len(s)] ==
        IF n = 0 THEN << >>
        ELSE IF s[n] \in K THEN Append(kept[n - 1], s[n]) ELSE kept[n - 1] IN
  kept[Len(s)]

\* compararPorSecuencia: the last published comes first.
Newest(S) == CHOOSE f \in S : \A g \in S : FormOrder[g] <= FormOrder[f]
Later(f, S) == {g \in S : FormOrder[g] > FormOrder[f]}
BySequence(S) ==
  [n \in 1 .. Cardinality(S) |-> CHOOSE f \in S : Cardinality(Later(f, S)) = n - 1]

\* revisionesParaOriginal: what is not cached, the frozen revision first.
ToDownload(items, cached, active) ==
  LET missing == items \ cached
      first == IF active \in missing THEN <<active>> ELSE << >>
      queue == first \o BySequence(missing \ {active}) IN
  SubSeq(queue, 1, IF Len(queue) < PerPass THEN Len(queue) ELSE PerPass)

Bytes(S) == FoldSet(LAMBDA f, sum : sum + Size[f], 0, S)

\* Mutant: the budget has to be left strictly below.
MutPlanStrict(seen, active, items) ==
  LET orphans == {f \in ToSet(seen) : f \notin items /\ f # active}
      living == Keep(seen, Form \ (orphans \cup {active}))
      left(n) == Bytes(ToSet(seen) \ (orphans \cup ToSet(SubSeq(living, 1, n))))
      enough == {n \in 0 .. Len(living) : left(n) < Budget}
      cut == IF enough = {} THEN Len(living) ELSE CHOOSE n \in enough : \A m \in enough : n <= m IN
  orphans \cup ToSet(SubSeq(living, 1, cut))

\* Mutant: whatever is not assigned is an orphan, the active revision too.
MutPlanOrphans(seen, active, items) == ToSet(seen) \ items

\* planificarPurga over the originals seen, oldest first: the orphans, then the
\* oldest while the rest is over the budget; never the active one.
Plan(seen, active, items) ==
  LET orphans == {f \in ToSet(seen) : f \notin items /\ f # active}
      living == Keep(seen, Form \ (orphans \cup {active}))
      left(n) == Bytes(ToSet(seen) \ (orphans \cup ToSet(SubSeq(living, 1, n))))
      enough == {n \in 0 .. Len(living) : left(n) <= Budget}
      cut == IF enough = {} THEN Len(living) ELSE CHOOSE n \in enough : \A m \in enough : n <= m IN
  orphans \cup ToSet(SubSeq(living, 1, cut))

\* elegirPlantillaActiva: the draft's revision or a block; without a draft the
\* form chosen last, or the newest.
Choose(items, marco, preferred) ==
  IF marco # Nobody THEN [form |-> marco, ok |-> marco \in items]
  ELSE IF items = {} THEN NoForm
  ELSE [form |-> IF preferred \in items THEN preferred ELSE Newest(items), ok |-> TRUE]

----------------------------------------------------------------------------
(* Tasks                                                                   *)

Idle(k) == task[k] = Rest
In(k, pc) == task[k].pc = pc
Finish(k) == task' = [task EXCEPT ![k] = Rest]
To(k, pc) == task' = [task EXCEPT ![k].pc = pc]

Event == events < MaxEvents /\ events' = events + 1

\* leerCatalogo: the ids kept for the account, of the definitions that are there.
ReadCatalogue(a) == {f \in catalogue[a] \cap rows : FormTenant[f] = AccountTenant[a]}

\* salir: token, cached session and screen; the form shown stays.
Leave ==
  /\ token' = Nobody /\ saved' = Nobody
  /\ usuario' = Nobody
  /\ UNCHANGED <<catalogueVars, originals, selected, draft, hidratando, plantilla, formularios,
                 frame, crossed, reframed>>

----------------------------------------------------------------------------
(* The effect that restores the session.  It runs when the page opens and  *)
(* again when the signal changes, since it depends on arrancarSesión; the  *)
(* one before is told that it is no longer alive.                          *)

BootTask == [Rest EXCEPT !.pc = "restore", !.kind = "boot"]
Reload(a) == [Rest EXCEPT !.pc = "load", !.kind = "reload", !.account = a]

\* The page opens with nothing running.
Boot(k) ==
  /\ hidratando /\ \A j \in Task : Idle(j)
  /\ task' = [task EXCEPT ![k] = BootTask]
  /\ UNCHANGED <<token, diskVars, screenVars, frame, events, crossed, reframed>>

\* The signal changes, whatever is running: the effect runs again, and if it came
\* back the forms of the session, if there is one, are loaded again too
\* (recargarPlantillas).
SignalChanges(k, J) ==
  /\ Idle(k)
  /\ \/ J = {}
     \/ usuario # Nobody /\ \E j \in Task \ {k} : Idle(j) /\ J = {j}
  /\ Event
  /\ task' = [i \in Task |-> IF i = k THEN BootTask
                             ELSE IF i \in J THEN Reload(usuario)
                             ELSE [task[i] EXCEPT !.alive = @ /\ task[i].kind # "boot"]]
  /\ UNCHANGED <<token, diskVars, screenVars, frame, crossed, reframed>>

EndBoot(k) ==
  /\ hidratando' = (hidratando /\ ~task[k].alive)
  /\ Finish(k)

\* The cached session is read, and with a token the profile is asked for.  The
\* session may be that of an account whose token was lost, and the token that of
\* another one that is logging in.
BootAsks(k) ==
  /\ In(k, "restore") /\ token # Nobody
  /\ task' = [task EXCEPT ![k].pc = "me", ![k].account = saved]
  /\ crossed' = IF saved \in {Nobody, token} THEN crossed ELSE crossed \cup {saved, token}
  /\ UNCHANGED <<token, diskVars, screenVars, frame, events, reframed>>

BootWithoutToken(k) ==
  /\ In(k, "restore") /\ token = Nobody
  /\ EndBoot(k)
  /\ UNCHANGED <<token, diskVars, usuario, plantilla, formularios, frame, events, crossed, reframed>>

\* me() asks for /auth/me, which the server does not have (its route is /me):
\* with signal the answer is an error and the session is cleared.  The account
\* on the screen, if any, stays there.
BootRefused(k) ==
  /\ In(k, "me")
  /\ token' = Nobody /\ saved' = Nobody
  /\ EndBoot(k)
  /\ UNCHANGED <<catalogueVars, originals, selected, draft, usuario, plantilla, formularios, frame,
                 events, crossed, reframed>>

\* Without signal the session that was read is entered.
BootOffline(k) ==
  /\ In(k, "me") /\ task[k].account # Nobody
  /\ IF task[k].alive THEN To(k, "load") ELSE Finish(k)
  /\ UNCHANGED <<token, diskVars, screenVars, frame, events, crossed, reframed>>

----------------------------------------------------------------------------
(* loginInApp, and salir                                                   *)

LoginAnswered(k, a) ==
  /\ Idle(k) /\ usuario = Nobody /\ ~hidratando
  /\ \A j \in Task : task[j].kind # "login"
  /\ Event
  /\ token' = a
  /\ LET others == {task[j].account : j \in Task} \ {a, Nobody} IN
       crossed' = IF others = {} THEN crossed ELSE crossed \cup others \cup {a}
  /\ task' = [task EXCEPT ![k] = [Rest EXCEPT !.pc = "sites", !.kind = "login", !.account = a]]
  /\ UNCHANGED <<diskVars, screenVars, frame, reframed>>

\* getSites answers; the session is cached and arrancarSesión goes on.
LoginEnters(k) ==
  /\ In(k, "sites")
  /\ saved' = task[k].account
  /\ To(k, "load")
  /\ UNCHANGED <<token, catalogueVars, originals, selected, draft, screenVars, frame, events,
                 crossed, reframed>>

\* getSites fails: the error is shown and the token stays, unless it was a 401.
LoginFailsAfterToken(k) ==
  /\ In(k, "sites")
  /\ Finish(k)
  /\ UNCHANGED events
  /\ \/ Leave
     \/ UNCHANGED <<token, diskVars, screenVars, frame, crossed, reframed>>

Logout ==
  /\ usuario # Nobody
  /\ Event
  /\ Leave
  /\ UNCHANGED task

----------------------------------------------------------------------------
(* cargarPlantilla: actualizarCatalogo, sincronizarOriginales,             *)
(* purgarOriginales, elegirActiva                                          *)

\* The catalogue of this account is read; without a token it is all there is,
\* with one the whole catalogue is asked for.
AskCatalogue(k) ==
  /\ In(k, "load")
  /\ task' = [task EXCEPT ![k].pc = IF token = Nobody THEN "missing" ELSE "asked",
                          ![k].items = ReadCatalogue(task[k].account), ![k].bearer = token]
  /\ UNCHANGED <<token, diskVars, screenVars, frame, events, crossed, reframed>>

\* No answer, or an error: what was read stays.
KeepCatalogue(k) ==
  /\ In(k, "asked")
  /\ To(k, "missing")
  /\ UNCHANGED <<token, diskVars, screenVars, frame, events, crossed, reframed>>

\* Mutant: the ids are kept by tenant.
MutKeepAnswer(a, answer) ==
  catalogue' = [b \in Account |-> IF AccountTenant[b] = AccountTenant[a] THEN answer
                                  ELSE catalogue[b]]

KeepAnswer(a, answer) == catalogue' = [catalogue EXCEPT ![a] = answer]

\* What the server assigns to the owner of the token that was sent, kept under
\* the account of the task in one transaction.
RefreshCatalogue(k) ==
  LET a == task[k].account IN
  /\ In(k, "asked")
  /\ \E answer \in Assignment[task[k].bearer] :
       LET visible == {f \in answer : FormTenant[f] = AccountTenant[a]} IN
       /\ rows' = rows \cup visible
       /\ KeepAnswer(a, visible)
       /\ task' = [task EXCEPT ![k].pc = "missing", ![k].items = visible]
  /\ UNCHANGED <<token, saved, originals, selected, draft, screenVars, frame, events, crossed,
                 reframed>>

\* 401: apiFetch tells the provider, which leaves the session.
CatalogueRefused(k) ==
  /\ In(k, "asked")
  /\ Leave
  /\ To(k, "missing")
  /\ UNCHANGED events

OfTenant(k, s) == Keep(s, {f \in Form : FormTenant[f] = AccountTenant[task[k].account]})

FindMissing(k) ==
  /\ In(k, "missing")
  /\ task' = [task EXCEPT ![k].pc = "download", ![k].bearer = Nobody,
                ![k].pending = ToDownload(task[k].items, ToSet(OfTenant(k, originals)), draft)]
  /\ UNCHANGED <<token, diskVars, screenVars, frame, events, crossed, reframed>>

\* Mutant: a workbook that another load stored meanwhile is there twice.
MutWithOriginal(f) == Append(originals, f)

\* guardarOriginalPlantilla: stored as the newest, by revision.
WithOriginal(f) == Append(Keep(originals, Form \ {f}), f)

\* The next original is stored, or is not for this role (404, 403).
Download(k) ==
  /\ In(k, "download") /\ task[k].pending # << >>
  /\ originals' \in {WithOriginal(Head(task[k].pending)), originals}
  /\ task' = [task EXCEPT ![k].pending = Tail(@)]
  /\ UNCHANGED <<token, saved, catalogueVars, selected, draft, screenVars, frame, events, crossed,
                 reframed>>

\* 401 in the middle of the pass.
DownloadRefused(k) ==
  /\ In(k, "download") /\ task[k].pending # << >>
  /\ Leave
  /\ task' = [task EXCEPT ![k].pending = << >>]
  /\ UNCHANGED events

\* Nothing left, or an error that cuts the pass; purgarOriginales lists what is
\* cached, reads which revision the draft needs, plans ...
PlanPurge(k) ==
  LET seen == OfTenant(k, originals) IN
  /\ In(k, "download")
  /\ task' = [task EXCEPT ![k].pc = "purge", ![k].pending = << >>, ![k].form = draft,
                          ![k].seen = seen, ![k].plan = Plan(seen, draft, task[k].items)]
  /\ UNCHANGED <<token, diskVars, screenVars, frame, events, crossed, reframed>>

\* ... and deletes.
Purge(k) ==
  /\ In(k, "purge")
  /\ originals' = Keep(originals, Form \ task[k].plan)
  /\ task' = [task EXCEPT ![k].pc = "list", ![k].plan = {}, ![k].seen = << >>, ![k].form = Nobody]
  /\ UNCHANGED <<token, saved, catalogueVars, selected, draft, screenVars, frame, events, crossed,
                 reframed>>

\* The catch of cargarPlantilla: a read or a write of the database failed before
\* the list was shown, and the catalogue is read again.
SyncFails(k) ==
  LET a == task[k].account IN
  /\ task[k].pc \in {"load", "missing", "download", "purge"}
  /\ task' = [task EXCEPT ![k] = [Rest EXCEPT !.pc = "list", !.kind = task[k].kind, !.account = a,
                                             !.items = ReadCatalogue(a)]]
  /\ UNCHANGED <<token, diskVars, screenVars, frame, events, crossed, reframed>>

\* The list is shown; the form chosen last is read ...
ShowList(k) ==
  /\ In(k, "list")
  /\ formularios' = task[k].items
  /\ task' = [task EXCEPT ![k].pc = "frame",
                          ![k].preferred = selected[AccountTenant[task[k].account]]]
  /\ UNCHANGED <<token, diskVars, usuario, hidratando, plantilla, frame, events, crossed, reframed>>

\* ... elegirActiva reads the draft ...
ReadFrame(k) ==
  /\ In(k, "frame")
  /\ task' = [task EXCEPT ![k].pc = "choose", ![k].form = draft]
  /\ UNCHANGED <<token, diskVars, screenVars, frame, events, crossed, reframed>>

\* ... and shows the form; a reload ends here, the others enter the session.
ShowForm(k) ==
  /\ In(k, "choose")
  /\ plantilla' = Choose(task[k].items, task[k].form, task[k].preferred)
  /\ task' = [task EXCEPT ![k] = IF @.kind = "reload" THEN Rest
                                 ELSE [@ EXCEPT !.pc = "enter", !.items = {}, !.preferred = Nobody,
                                            !.form = Nobody]]
  /\ UNCHANGED <<token, diskVars, usuario, hidratando, formularios, frame, events, crossed,
                 reframed>>

\* A change of usuario runs the effect of the signal again: a reload, if there
\* is signal.
Enter(k) ==
  /\ In(k, "enter")
  /\ usuario' = task[k].account
  /\ hidratando' = FALSE
  /\ \/ Finish(k)
     \/ task' = [task EXCEPT ![k] = Reload(task[k].account)]
  /\ UNCHANGED <<token, diskVars, plantilla, formularios, frame, events, crossed, reframed>>

----------------------------------------------------------------------------
(* The user                                                                *)

Choosing(k) == In(k, "choose") \/ In(k, "select")

\* Mutant: the draft is not looked at.
MutSelectRead(k, f) ==
  /\ Idle(k) /\ usuario # Nobody
  /\ Event
  /\ f \in formularios
  /\ task' = [task EXCEPT ![k] = [Rest EXCEPT !.pc = "select", !.account = usuario, !.form = f]]
  /\ UNCHANGED <<token, diskVars, screenVars, frame, crossed, reframed>>

\* seleccionarFormulario: not with a draft of another revision.
SelectRead(k, f) ==
  /\ Idle(k) /\ usuario # Nobody
  /\ Event
  /\ f \in formularios
  /\ draft \in {Nobody, f}
  /\ task' = [task EXCEPT ![k] = [Rest EXCEPT !.pc = "select", !.account = usuario, !.form = f]]
  /\ UNCHANGED <<token, diskVars, screenVars, frame, crossed, reframed>>

SelectShow(k) ==
  /\ In(k, "select")
  /\ selected' = [selected EXCEPT ![AccountTenant[task[k].account]] = task[k].form]
  /\ plantilla' = [form |-> task[k].form, ok |-> TRUE]
  /\ Finish(k)
  /\ UNCHANGED <<token, saved, catalogueVars, originals, draft, usuario, hidratando, formularios,
                 frame, events, crossed, reframed>>

\* resolverDraft: the form is the one of the last render; the draft is found or
\* created in the database after an await.
BeginCapture ==
  /\ usuario # Nobody /\ frame = Nobody
  /\ Event
  /\ plantilla.ok
  /\ frame' = plantilla.form
  /\ UNCHANGED <<token, diskVars, screenVars, task, crossed, reframed>>

\* A draft that exists is used as it is.
OpenDraft ==
  /\ frame # Nobody
  /\ draft' = IF draft = Nobody THEN frame ELSE draft
  /\ reframed' = (\/ reframed
                  \/ plantilla.form # draft'
                  \/ \E k \in Task : Choosing(k) /\ task[k].form # draft')
  /\ frame' = Nobody
  /\ UNCHANGED <<token, saved, catalogueVars, originals, selected, screenVars, task, events, crossed>>

\* submitInspection: the draft is no longer one.
SubmitDraft ==
  /\ usuario # Nobody /\ draft # Nobody
  /\ Event
  /\ draft' = Nobody /\ reframed' = FALSE
  /\ UNCHANGED <<token, saved, catalogueVars, originals, selected, screenVars, frame, task, crossed>>

DiscardDraft(k) ==
  /\ usuario # Nobody /\ Idle(k)
  /\ Event
  /\ draft' = Nobody /\ reframed' = FALSE
  /\ task' = [task EXCEPT ![k] = Reload(usuario)]
  /\ UNCHANGED <<token, saved, catalogueVars, originals, selected, screenVars, frame, crossed>>

\* limpiarDatosPrueba: all that belongs to the tenant.
ResetLocalData(k) ==
  LET mine == {f \in Form : FormTenant[f] = AccountTenant[usuario]} IN
  /\ usuario # Nobody /\ Idle(k)
  /\ Event
  /\ rows' = rows \ mine
  /\ originals' = Keep(originals, Form \ mine)
  /\ selected' = [selected EXCEPT ![AccountTenant[usuario]] = Nobody]
  /\ draft' = IF draft \in mine THEN Nobody ELSE draft
  /\ reframed' = (reframed /\ draft \notin mine)
  /\ task' = [task EXCEPT ![k] = Reload(usuario)]
  /\ UNCHANGED <<token, saved, catalogue, screenVars, frame, crossed>>

\* The page is loaded again, or closed and opened in another tab: tasks and React
\* state are gone, the database is not, the token is kept for the tab only.
Reopen ==
  /\ Event
  /\ task' = [k \in Task |-> Rest]
  /\ token' \in {token, Nobody}
  /\ usuario' = Nobody /\ hidratando' = TRUE /\ plantilla' = NoForm /\ formularios' = {}
  /\ frame' = Nobody
  /\ UNCHANGED <<diskVars, crossed, reframed>>

Session(k) ==
  \/ Boot(k) \/ BootAsks(k) \/ BootWithoutToken(k) \/ BootRefused(k) \/ BootOffline(k)
  \/ \E J \in SUBSET Task : SignalChanges(k, J)
  \/ \E a \in Account : LoginAnswered(k, a)
  \/ LoginEnters(k) \/ LoginFailsAfterToken(k)

Load(k) ==
  \/ AskCatalogue(k) \/ KeepCatalogue(k) \/ RefreshCatalogue(k) \/ CatalogueRefused(k)
  \/ FindMissing(k) \/ Download(k) \/ DownloadRefused(k)
  \/ PlanPurge(k) \/ Purge(k) \/ SyncFails(k)
  \/ ShowList(k) \/ ReadFrame(k) \/ ShowForm(k) \/ Enter(k)

Worker ==
  \/ \E k \in Task, f \in Form : SelectRead(k, f)
  \/ \E k \in Task : SelectShow(k) \/ DiscardDraft(k) \/ ResetLocalData(k)
  \/ BeginCapture \/ OpenDraft \/ SubmitDraft \/ Logout \/ Reopen

FormsNext == Worker \/ \E k \in Task : Session(k) \/ Load(k)

FormsSpec == FormsInit /\ [][FormsNext]_formsVars

----------------------------------------------------------------------------
\* Type invariant.
FormsTypeOK ==
  /\ token \in Account \cup {Nobody} /\ saved \in Account \cup {Nobody}
  /\ catalogue \in [Account -> SUBSET Form] /\ rows \subseteq Form
  /\ originals \in Seq(Form) /\ IsInjective(originals)
  /\ selected \in [Tenant -> Form \cup {Nobody}]
  /\ draft \in Form \cup {Nobody}
  /\ usuario \in Account \cup {Nobody} /\ hidratando \in BOOLEAN
  /\ plantilla \in [form : Form \cup {Nobody}, ok : BOOLEAN]
  /\ formularios \subseteq Form /\ frame \in Form \cup {Nobody}
  /\ events \in 0 .. MaxEvents /\ crossed \subseteq Account /\ reframed \in BOOLEAN
  /\ \A k \in Task :
       /\ task[k].account \in Account \cup {Nobody} /\ task[k].bearer \in Account \cup {Nobody}
       /\ task[k].items \subseteq Form /\ task[k].plan \subseteq Form
       /\ {task[k].form, task[k].preferred} \subseteq Form \cup {Nobody}
       /\ task[k].kind \in {"login", "reload"} => task[k].account # Nobody

Own(a) == UNION Assignment[a]

\* What an account keeps and is shown was assigned to it by the server, though
\* the device is shared and a load outlives the session that began it; unless a
\* task of one account was still running when another one logged in, or the cached
\* session of one was read with the token of the other.
FormsAreOwn ==
  /\ \A a \in Account \ crossed : ReadCatalogue(a) \subseteq Own(a)
  /\ usuario \notin crossed \cup {Nobody} =>
       formularios \cup (IF plantilla.ok THEN {plantilla.form} ELSE {}) \subseteq Own(usuario)

\* FR-028: with a draft open the form shown is the frozen one or the block,
\* whatever loads, selections, sessions and resets went by; unless the draft
\* was opened while another form was being chosen.
DraftIsNotReframed ==
  usuario # Nobody /\ draft # Nobody /\ plantilla.ok => plantilla.form = draft \/ reframed

\* FR-018: a purge is right about what it saw: it spares the active revision and
\* leaves what fits; nothing more of what is assigned is deleted than needed.
PurgeIsLeast ==
  \A k \in Task : In(k, "purge") =>
    LET t == task[k]
        kept == ToSet(t.seen) \ t.plan IN
    /\ t.form \notin t.plan
    /\ kept \subseteq t.items \cup {t.form}
    /\ Bytes(kept) <= Budget \/ kept \subseteq {t.form}
    /\ \A n \in DOMAIN t.seen :
         t.seen[n] \in t.plan \cap t.items =>
           Bytes(kept \cup (ToSet(SubSeq(t.seen, n, Len(t.seen))) \cap t.items)) > Budget

\* FR-018, FR-019: the original of the open draft is not deleted by a purge,
\* also one planned by a load of another session, unless it was planned before
\* the draft was opened.
DraftKeepsItsOriginal ==
  [][ draft # Nobody /\ draft' = draft /\ draft \in ToSet(originals) =>
        \/ draft \in ToSet(originals')
        \/ \E k \in Task : In(k, "purge") /\ task[k].form # draft ]_formsVars
=============================================================================
