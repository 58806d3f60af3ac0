----------------------------- MODULE ImportWizard -----------------------------
(***************************************************************************)
(* The wizard that turns a workbook into a template (Importar.tsx) and the *)
(* requests it makes: upload, save of the draft (a confirmation the first  *)
(* time, a PATCH afterwards) and publication.  The screen stays usable     *)
(* while one is on its way: what an answer sets is not what is on the      *)
(* screen any more.  Any request may be lost before the server, or its     *)
(* answer after it.                                                        *)
(*                                                                         *)
(* A proposal is the workbook it came from and the number of its edits; a  *)
(* definition is the proposal it was made from.  The races of two requests *)
(* inside the server are those of TemplateCatalog.                         *)
(***************************************************************************)
EXTENDS Naturals, Sequences

CONSTANTS Workbook, NoBook,
          MaxEdits,  \* bound of the instance: edits of a proposal
          MaxSends   \* bound of the instance: requests ever sent

ASSUME WizardAssumption == NoBook \notin Workbook /\ {MaxEdits, MaxSends} \subseteq Nat

VARIABLES
  paso,
  propuesta,
  valida,      \* puedeContinuar: a name, some item and no invalid one
  importId, revisionId, publicado,   \* 0 for null
  confirmado,
  uploading, save, publish,   \* the request on its way, if analizando, guardando, publicando
  sends,
  imports,     \* table template_imports
  revisions,   \* table template_revision
  heard,       \* history: what the last save heard of saved of this import
  mixed,     \* history: revisions that came to the screen of another import
  agreed       \* history: what the screen showed when each was published, if it knew

wizardScreen == <<paso, propuesta, valida, importId, revisionId, publicado, confirmado>>
requestVars == <<uploading, save, publish, sends>>
serverVars == <<imports, revisions>>
wizardVars == <<wizardScreen, requestVars, serverVars, heard, mixed, agreed>>

NoProposal == [book |-> NoBook, edits |-> 0]
NoRequest == [pc |-> "none", import |-> 0, revision |-> 0, proposal |-> NoProposal, known |-> FALSE]

WizardInit ==
  /\ paso = 1 /\ propuesta = NoProposal /\ valida = TRUE
  /\ importId = 0 /\ revisionId = 0 /\ publicado = 0 /\ confirmado = FALSE
  /\ uploading = NoRequest /\ save = NoRequest /\ publish = NoRequest
  /\ sends = 0
  /\ imports = << >> /\ revisions = << >>
  /\ heard = NoProposal /\ mixed = {} /\ agreed = << >>

----------------------------------------------------------------------------
(* Moving and editing: synchronous                                         *)

OnScreen == publicado = 0

\* Atrás, Editar propuesta, Continuar, Continuar a publicar, Volver al borrador.
Move(n) ==
  /\ OnScreen
  /\ \/ paso = 2 /\ n \in {1, 3}
     \/ paso = 3 /\ n = 2
     \/ paso = 3 /\ n = 4 /\ valida
     \/ paso = 4 /\ n = 3
     \/ paso = 4 /\ n = 5 /\ revisionId # 0
     \/ paso = 5 /\ n = 4
  /\ paso' = n
  /\ UNCHANGED <<propuesta, valida, importId, revisionId, publicado, confirmado,
                 requestVars, serverVars, heard, mixed, agreed>>

\* mutarItem, cambiarTipo, cambiarRequerido, cambiarProps, quitarItem; or
\* setNombre, which only a confirmation sends.
Edit ==
  /\ OnScreen /\ paso = 3
  /\ \/ /\ propuesta.edits < MaxEdits
        /\ propuesta' = [propuesta EXCEPT !.edits = @ + 1]
     \/ UNCHANGED propuesta
  /\ valida' \in BOOLEAN
  /\ UNCHANGED <<paso, importId, revisionId, publicado, confirmado, requestVars, serverVars,
                 heard, mixed, agreed>>

Confirm ==
  /\ OnScreen /\ paso = 5
  /\ confirmado' = ~confirmado
  /\ UNCHANGED <<paso, propuesta, valida, importId, revisionId, publicado, requestVars,
                 serverVars, heard, mixed, agreed>>

\* resetear does not touch the requests on their way.
Resetear ==
  /\ OnScreen /\ paso = 2
  /\ paso' = 1 /\ propuesta' = NoProposal /\ valida' = TRUE
  /\ importId' = 0 /\ revisionId' = 0 /\ publicado' = 0 /\ confirmado' = FALSE
  /\ UNCHANGED <<requestVars, serverVars, heard, mixed, agreed>>

----------------------------------------------------------------------------
(* Requests                                                                *)

Send == sends < MaxSends /\ sends' = sends + 1

\* The local parser understood the workbook; when it did not nothing is sent.
LeerArchivo(b) ==
  /\ OnScreen /\ paso = 1 /\ uploading = NoRequest
  /\ Send
  /\ uploading' = [NoRequest EXCEPT !.pc = "sent", !.proposal = [book |-> b, edits |-> 0]]
  /\ UNCHANGED <<wizardScreen, save, publish, serverVars, heard, mixed, agreed>>

\* A PATCH if there is a revision, else the confirmation of the import.
GuardarBorrador ==
  /\ OnScreen /\ paso = 4 /\ save = NoRequest
  /\ importId # 0 /\ valida
  /\ Send
  /\ save' = [NoRequest EXCEPT !.pc = "sent", !.import = importId, !.proposal = propuesta,
                               !.revision = revisionId]
  /\ publish' = [publish EXCEPT !.known = FALSE]
  /\ UNCHANGED <<wizardScreen, uploading, serverVars, heard, mixed, agreed>>

Publicar ==
  /\ OnScreen /\ paso = 5 /\ publish = NoRequest
  /\ revisionId # 0 /\ confirmado
  /\ Send
  /\ publish' = [NoRequest EXCEPT !.pc = "sent", !.revision = revisionId, !.proposal = propuesta,
                                  !.known = (heard = propuesta /\ save = NoRequest)]
  /\ UNCHANGED <<wizardScreen, uploading, save, serverVars, heard, mixed, agreed>>

----------------------------------------------------------------------------
(* The server                                                              *)

ServeUpload ==
  /\ uploading.pc = "sent"
  /\ \E s \in {"proposed", "failed"} :
       imports' = Append(imports, [book |-> uploading.proposal.book, status |-> s])
  /\ uploading' = [uploading EXCEPT !.pc = "served", !.import = Len(imports')]
  /\ UNCHANGED <<wizardScreen, save, publish, sends, revisions, heard, mixed, agreed>>

\* Mutant: the template is made from the proposal kept with the import.
MutServeConfirm ==
  /\ save.pc = "sent" /\ save.revision = 0
  /\ IF imports[save.import].status = "proposed"
     THEN /\ imports' = [imports EXCEPT ![save.import].status = "confirmed"]
          /\ revisions' = Append(revisions, [import |-> save.import, status |-> "draft",
                                definition |-> [book |-> imports[save.import].book, edits |-> 0]])
          /\ save' = [save EXCEPT !.pc = "served", !.revision = Len(revisions')]
     ELSE /\ save' = [save EXCEPT !.pc = "refused"]
          /\ UNCHANGED serverVars
  /\ UNCHANGED <<wizardScreen, uploading, publish, sends, heard, mixed, agreed>>

\* 409 unless the import is proposed.
ServeConfirm ==
  /\ save.pc = "sent" /\ save.revision = 0
  /\ IF imports[save.import].status = "proposed"
     THEN /\ imports' = [imports EXCEPT ![save.import].status = "confirmed"]
          /\ revisions' = Append(revisions, [import |-> save.import, status |-> "draft",
                                             definition |-> save.proposal])
          /\ save' = [save EXCEPT !.pc = "served", !.revision = Len(revisions')]
     ELSE /\ save' = [save EXCEPT !.pc = "refused"]
          /\ UNCHANGED serverVars
  /\ UNCHANGED <<wizardScreen, uploading, publish, sends, heard, mixed, agreed>>

\* 409 unless the revision is a draft.
ServePatch ==
  /\ save.pc = "sent" /\ save.revision # 0
  /\ IF revisions[save.revision].status = "draft"
     THEN /\ revisions' = [revisions EXCEPT ![save.revision].definition = save.proposal]
          /\ save' = [save EXCEPT !.pc = "served"]
     ELSE /\ save' = [save EXCEPT !.pc = "refused"]
          /\ UNCHANGED revisions
  /\ UNCHANGED <<wizardScreen, uploading, publish, sends, imports, heard, mixed, agreed>>

ServePublish ==
  /\ publish.pc = "sent"
  /\ IF revisions[publish.revision].status = "draft"
     THEN /\ revisions' = [revisions EXCEPT ![publish.revision].status = "published"]
          /\ publish' = [publish EXCEPT !.pc = "served"]
          /\ agreed' = IF publish.known
                       THEN Append(agreed, [revision |-> publish.revision,
                                            shown |-> publish.proposal])
                       ELSE agreed
     ELSE /\ publish' = [publish EXCEPT !.pc = "refused"]
          /\ UNCHANGED <<revisions, agreed>>
  /\ UNCHANGED <<wizardScreen, uploading, save, sends, imports, heard, mixed>>

----------------------------------------------------------------------------
(* The answers                                                             *)

HearUpload ==
  /\ uploading.pc = "served"
  /\ IF imports[uploading.import].status = "failed"
     THEN /\ propuesta' = NoProposal /\ importId' = 0
          /\ UNCHANGED <<paso, valida, revisionId, publicado, confirmado>>
     ELSE /\ importId' = uploading.import /\ propuesta' = uploading.proposal
          /\ valida' \in BOOLEAN
          /\ revisionId' = 0 /\ publicado' = 0 /\ confirmado' = FALSE
          /\ paso' = 2
  /\ uploading' = NoRequest
  /\ heard' = NoProposal
  /\ UNCHANGED <<save, publish, sends, serverVars, mixed, agreed>>

\* Whatever import is on the screen by now.
HearSave ==
  /\ save.pc = "served"
  /\ revisionId' = save.revision
  /\ IF importId = revisions[save.revision].import
     THEN heard' = save.proposal /\ UNCHANGED mixed
     ELSE heard' = NoProposal /\ mixed' = mixed \cup {save.revision}
  /\ save' = NoRequest
  /\ UNCHANGED <<paso, propuesta, valida, importId, publicado, confirmado, uploading, publish,
                 sends, serverVars, agreed>>

HearPublish ==
  /\ publish.pc = "served"
  /\ publicado' = publish.revision
  /\ publish' = NoRequest
  /\ UNCHANGED <<paso, propuesta, valida, importId, revisionId, confirmado, uploading, save, sends,
                 serverVars, heard, mixed, agreed>>

\* An error or no answer: an upload clears the proposal, the others only say so.
UploadFails ==
  /\ uploading # NoRequest
  /\ uploading' = NoRequest
  /\ propuesta' = NoProposal /\ importId' = 0
  /\ UNCHANGED <<paso, valida, revisionId, publicado, confirmado, save, publish, sends,
                 serverVars, heard, mixed, agreed>>

SaveFails ==
  /\ save # NoRequest
  /\ save' = NoRequest
  /\ UNCHANGED <<wizardScreen, uploading, publish, sends, serverVars, heard, mixed, agreed>>

PublishFails ==
  /\ publish # NoRequest
  /\ publish' = NoRequest
  /\ UNCHANGED <<wizardScreen, uploading, save, sends, serverVars, heard, mixed, agreed>>

\* The screen is left, after the publication or before it, and opened anew:
\* answers still on their way find nobody.
LeaveWizard ==
  /\ wizardScreen # <<1, NoProposal, TRUE, 0, 0, 0, FALSE>>
  /\ paso' = 1 /\ propuesta' = NoProposal /\ valida' = TRUE
  /\ importId' = 0 /\ revisionId' = 0 /\ publicado' = 0 /\ confirmado' = FALSE
  /\ uploading' = NoRequest /\ save' = NoRequest /\ publish' = NoRequest
  /\ UNCHANGED <<sends, serverVars, heard, mixed, agreed>>

----------------------------------------------------------------------------
WizardNext ==
  \/ \E n \in 1 .. 5 : Move(n)
  \/ Edit \/ Confirm \/ Resetear \/ LeaveWizard
  \/ \E b \in Workbook : LeerArchivo(b)
  \/ GuardarBorrador \/ Publicar
  \/ ServeUpload \/ ServeConfirm \/ ServePatch \/ ServePublish
  \/ HearUpload \/ HearSave \/ HearPublish
  \/ UploadFails \/ SaveFails \/ PublishFails

WizardSpec == WizardInit /\ [][WizardNext]_wizardVars

----------------------------------------------------------------------------
\* FR-048, FR-019: what is published is what the screen showed when it was
\* confirmed, if everything on it had been saved and heard of; and the
\* definition of a revision is of the workbook that its documents are written
\* on, unless the answer to a save found another workbook on the screen.
PublishedIsWhatWasConfirmed ==
  /\ \A k \in DOMAIN agreed :
       /\ revisions[agreed[k].revision].status = "published"
       /\ revisions[agreed[k].revision].definition = agreed[k].shown
  /\ \A r \in DOMAIN revisions :
       revisions[r].definition.book = imports[revisions[r].import].book \/ r \in mixed
=============================================================================
