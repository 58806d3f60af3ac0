------------------------- MODULE OfficeScreensProofs -------------------------
(* Proofs about the screens of the office: what the dashboard shows once
   everything has answered, for any filters, rows, and number of loads at a
   time; that the wizard publishes what it showed, for any workbooks and any
   number of requests; and that a document made of a workbook carries the
   answers, for any workbooks, edits, answers and exports. *)
EXTENDS DashboardScreen, ImportWizard, FilledWorkbook, SequenceTheorems, FiniteSetTheorems,
        TLAPS

LoadRecord == [number : Nat, filter : Filter \cup {NoFilter},
               list : {"asked", "done"}, rest : {"asked", "done"}]

DashboardTypeInv ==
  /\ filter \in Filter
  /\ loads \in [Load -> LoadRecord]
  /\ started \in Nat
  /\ lista \in [of : Filter \cup {NoFilter}, error : BOOLEAN, number : Nat]
  /\ datos \in [of : Filter \cup {NoFilter}, number : Nat]
  /\ errorCarga \in BOOLEAN /\ silent \in BOOLEAN
  /\ reviews \subseteq Row

(* A load waits for one answer at least, and no number is ahead of the last. *)
Waits(l) == loads[l].list = "asked" \/ loads[l].rest = "asked"

LoadsAreNumbered ==
  /\ \A l \in Load : loads[l] = NoLoad \/ (Waits(l) /\ loads[l].number \in 1 .. started)
  /\ lista.number <= started /\ datos.number <= started

(* The loads that carry the last number were asked with the filter on the screen. *)
LastLoad(l) == loads[l] # NoLoad /\ loads[l].number = started

LastIsOfTheFilter == \A l \in Load : LastLoad(l) => loads[l].filter = filter

(* Where the answers of the last load are: on the screen, or on their way;
   unless one of an earlier load took their place. *)
ListInv ==
  started > 0 =>
    \/ "lista" \in overtaken
    \/ \E l \in Load : LastLoad(l) /\ loads[l].list = "asked"
    \/ lista.number = started /\ (lista.of = filter \/ lista.error)

DataInv ==
  started > 0 =>
    \/ "datos" \in overtaken
    \/ \E l \in Load : LastLoad(l) /\ loads[l].rest = "asked"
    \/ datos.number = started /\ datos.of = filter
    \/ errorCarga \/ silent

(* One detail request at a time, or they have overlapped. *)
DetailInv ==
  \/ "detalle" \in overtaken
  \/ reviews \subseteq {last} /\ (detalle.fase # "inactivo" => detalle.row = last)

ScreenInv ==
  /\ DashboardTypeInv /\ LoadsAreNumbered /\ LastIsOfTheFilter
  /\ ListInv /\ DataInv /\ DetailInv

(* The dashboard opens empty, with no load under way. *)
LEMMA ScreenInvInit == DashboardInit => ScreenInv
<1> SUFFICES ASSUME DashboardInit PROVE ScreenInv
  OBVIOUS
<1> USE DashboardAssumption DEF DashboardInit
<1>1. DashboardTypeInv
  BY DEF DashboardTypeInv, LoadRecord, NoLoad
<1>2. LoadsAreNumbered /\ LastIsOfTheFilter /\ ListInv /\ DataInv /\ DetailInv
  BY DEF LoadsAreNumbered, LastIsOfTheFilter, LastLoad, ListInv, DataInv, DetailInv
<1> QED BY <1>1, <1>2 DEF ScreenInv

(* A click touches neither the loads nor what they set, nor takes a part of
   the screen other than the panel back. *)
LEMMA ClickStep ==
  ASSUME ScreenInv, Clicking
  PROVE  ScreenInv'
<1> USE DEF ScreenInv
<1>1. UNCHANGED loadVars
  BY DEF Clicking, Revisar, ReviewAnswers, Cerrar, ExportarLote, LoteAnswers
<1>2. /\ "lista" \in overtaken' <=> "lista" \in overtaken
      /\ "datos" \in overtaken' <=> "datos" \in overtaken
  BY DEF Clicking, Revisar, ReviewAnswers, Cerrar, ExportarLote, LoteAnswers
<1>3. reviews' \subseteq Row
  BY DEF Clicking, Revisar, ReviewAnswers, Cerrar, ExportarLote, LoteAnswers, rowVars,
         DashboardTypeInv
<1>4. DashboardTypeInv'
  BY <1>1, <1>3 DEF DashboardTypeInv, loadVars
<1>5. LoadsAreNumbered' /\ LastIsOfTheFilter' /\ ListInv' /\ DataInv'
  BY <1>1, <1>2 DEF loadVars, LoadsAreNumbered, Waits, LastIsOfTheFilter, LastLoad, ListInv,
                    DataInv
<1>6. DetailInv'
  <2>1. ASSUME NEW i \in Row, Revisar(i) PROVE DetailInv'
    BY <2>1 DEF Revisar, DetailInv
  <2>2. ASSUME NEW i \in Row, NEW ok \in BOOLEAN, ReviewAnswers(i, ok) PROVE DetailInv'
    BY <2>2 DEF ReviewAnswers, DetailInv
  <2>3. CASE Cerrar
    BY <2>3 DEF Cerrar, DetailInv
  <2>4. CASE ExportarLote \/ \E ok \in BOOLEAN : LoteAnswers(ok)
    BY <2>4 DEF ExportarLote, LoteAnswers, rowVars, DetailInv
  <2> QED BY <2>1, <2>2, <2>3, <2>4 DEF Clicking
<1> QED BY <1>4, <1>5, <1>6
-----------------------------------------------------------------------------
(* A new load has the next number and the filter on the screen. *)
LEMMA CargarStep ==
  ASSUME ScreenInv, NEW l \in Load, NEW f \in Filter, Cargar(l, f), filter' = f,
         UNCHANGED <<lista, datos, rowVars, lote, clicks, overtaken>>
  PROVE  ScreenInv'
<1> USE DashboardAssumption DEF ScreenInv, Cargar
<1>1. DashboardTypeInv'
  <2>1. [number |-> started + 1, filter |-> f, list |-> "asked", rest |-> "asked"] \in LoadRecord
    BY DEF DashboardTypeInv, LoadRecord
  <2>2. loads' \in [Load -> LoadRecord]
    BY <2>1 DEF DashboardTypeInv
  <2>3. filter' \in Filter /\ started' \in Nat /\ reviews' \subseteq Row
    BY DEF DashboardTypeInv, rowVars
  <2>4. /\ lista' \in [of : Filter \cup {NoFilter}, error : BOOLEAN, number : Nat]
        /\ datos' \in [of : Filter \cup {NoFilter}, number : Nat]
    BY DEF DashboardTypeInv
  <2>5. errorCarga' \in BOOLEAN /\ silent' \in BOOLEAN
    OBVIOUS
  <2> QED BY <2>2, <2>3, <2>4, <2>5 DEF DashboardTypeInv
<1>2. LoadsAreNumbered'
  <2>1. ASSUME NEW k \in Load
        PROVE  loads'[k] = NoLoad \/ (Waits(k)' /\ loads'[k].number \in 1 .. started')
    <3>1. CASE k = l
      BY <3>1 DEF DashboardTypeInv, Waits
    <3>2. CASE k # l
      BY <3>2 DEF LoadsAreNumbered, DashboardTypeInv, LoadRecord, Waits
    <3> QED BY <3>1, <3>2
  <2>2. lista'.number <= started' /\ datos'.number <= started'
    BY DEF LoadsAreNumbered, DashboardTypeInv
  <2> QED BY <2>1, <2>2 DEF LoadsAreNumbered
<1>3. LastLoad(l)' /\ loads'[l].filter = f /\ loads'[l].list = "asked"
                   /\ loads'[l].rest = "asked"
  BY DEF LastLoad, DashboardTypeInv, NoLoad
<1>4. \A k \in Load : LastLoad(k)' => k = l
  BY DEF LastLoad, LoadsAreNumbered, DashboardTypeInv, LoadRecord, NoLoad
<1>5. LastIsOfTheFilter' /\ ListInv' /\ DataInv'
  BY <1>3, <1>4 DEF LastIsOfTheFilter, ListInv, DataInv
<1>6. DetailInv'
  BY DEF DetailInv, rowVars
<1> QED BY <1>1, <1>2, <1>5, <1>6

(* What an answer does to the load it is of. *)
LEMMA SettleStep ==
  ASSUME DashboardTypeInv, LoadsAreNumbered, NEW l \in Load,
         NEW field \in {"list", "rest"}, loads[l][field] = "asked",
         Settle(l, field, "done"), started' = started
  PROVE  /\ loads' \in [Load -> LoadRecord]
         /\ \A k \in Load : k # l => loads'[k] = loads[k]
         /\ \/ loads'[l] = NoLoad
            \/ /\ Waits(l)' /\ loads'[l].number = loads[l].number
               /\ loads'[l].filter = loads[l].filter
         /\ LastLoad(l)' => LastLoad(l)
         /\ loads[l].number \in 1 .. started
         /\ loads'[l][field] = "done"
         /\ \A k \in Load : loads'[k] = NoLoad
                              \/ (Waits(k)' /\ loads'[k].number \in 1 .. started)
<1>1. loads[l] # NoLoad
  BY DEF NoLoad
<1> QED BY <1>1 DEF Settle, DashboardTypeInv, LoadRecord, NoLoad, Waits, LoadsAreNumbered,
                    LastLoad
-----------------------------------------------------------------------------

(* The list of a load answers, or its error. *)
LEMMA ListAnswersStep ==
  ASSUME ScreenInv, NEW l \in Load, NEW ok \in BOOLEAN, ListAnswers(l, ok)
  PROVE  ScreenInv'
<1> USE DashboardAssumption DEF ScreenInv
<1>0. started' = started /\ filter' = filter /\ errorCarga' = errorCarga
        /\ silent' = silent /\ datos' = datos /\ rowVars' = rowVars
  BY DEF ListAnswers
<1>1. /\ loads' \in [Load -> LoadRecord]
      /\ \A k \in Load : k # l => loads'[k] = loads[k]
      /\ \/ loads'[l] = NoLoad
         \/ /\ Waits(l)' /\ loads'[l].number = loads[l].number
            /\ loads'[l].filter = loads[l].filter
      /\ LastLoad(l)' => LastLoad(l)
      /\ loads[l].number \in 1 .. started
      /\ loads'[l].list = "done"
      /\ \A k \in Load : loads'[k] = NoLoad
                           \/ (Waits(k)' /\ loads'[k].number \in 1 .. started)
  BY SettleStep DEF ListAnswers
<1>2. DashboardTypeInv'
  BY <1>0, <1>1 DEF ListAnswers, DashboardTypeInv, rowVars, LoadRecord
<1>3. LoadsAreNumbered'
  BY <1>0, <1>1 DEF ListAnswers, LoadsAreNumbered
<1>4. LastIsOfTheFilter'
  BY <1>0, <1>1 DEF LastIsOfTheFilter, LastLoad
<1>5. loads[l] # NoLoad
  BY DEF ListAnswers, NoLoad
<1>6. ListInv'
  <2>1. CASE loads[l].number = started
    BY <1>0, <1>5, <2>1 DEF ListAnswers, ListInv, LastIsOfTheFilter, LastLoad
  <2>2. CASE loads[l].number # started /\ loads[l].number < lista.number
    BY <2>2 DEF ListAnswers, Overtake, ListInv
  <2>3. CASE loads[l].number # started /\ ~(loads[l].number < lista.number)
    <3>1. overtaken' = overtaken
      BY <2>3 DEF ListAnswers, Overtake
    <3>2. lista.number # started
      BY <1>1, <2>3 DEF LoadsAreNumbered, DashboardTypeInv
    <3>3. \A k \in Load : LastLoad(k) => LastLoad(k)' /\ loads'[k] = loads[k]
      BY <1>0, <1>1, <2>3 DEF LastLoad
    <3> QED BY <1>0, <3>1, <3>2, <3>3 DEF ListInv
  <2> QED BY <2>1, <2>2, <2>3
<1>7. DataInv'
  <2>1. "datos" \in overtaken => "datos" \in overtaken'
    BY DEF ListAnswers, Overtake
  <2>2. \A k \in Load : LastLoad(k) /\ loads[k].rest = "asked"
                          => LastLoad(k)' /\ loads'[k].rest = "asked"
    BY <1>0, <1>1 DEF ListAnswers, Settle, LastLoad, NoLoad, DashboardTypeInv, LoadRecord
  <2> QED BY <1>0, <2>1, <2>2 DEF DataInv
<1>8. DetailInv'
  BY <1>0 DEF ListAnswers, Overtake, DetailInv, rowVars
<1> QED BY <1>2, <1>3, <1>4, <1>6, <1>7, <1>8

(* All the requests of a load have answered: its figures are shown. *)
LEMMA AllAnswerStep ==
  ASSUME ScreenInv, NEW l \in Load, AllAnswer(l)
  PROVE  ScreenInv'
<1> USE DashboardAssumption DEF ScreenInv
<1>0. started' = started /\ filter' = filter /\ errorCarga' = errorCarga
        /\ silent' = silent /\ lista' = lista /\ rowVars' = rowVars
  BY DEF AllAnswer
<1>1. /\ loads' \in [Load -> LoadRecord]
      /\ \A k \in Load : k # l => loads'[k] = loads[k]
      /\ \/ loads'[l] = NoLoad
         \/ /\ Waits(l)' /\ loads'[l].number = loads[l].number
            /\ loads'[l].filter = loads[l].filter
      /\ LastLoad(l)' => LastLoad(l)
      /\ loads[l].number \in 1 .. started
      /\ loads'[l].rest = "done"
      /\ \A k \in Load : loads'[k] = NoLoad
                           \/ (Waits(k)' /\ loads'[k].number \in 1 .. started)
  BY SettleStep DEF AllAnswer
<1>2. DashboardTypeInv'
  BY <1>0, <1>1 DEF AllAnswer, DashboardTypeInv, rowVars, LoadRecord
<1>3. LoadsAreNumbered'
  BY <1>0, <1>1 DEF AllAnswer, LoadsAreNumbered
<1>4. LastIsOfTheFilter'
  BY <1>0, <1>1 DEF LastIsOfTheFilter, LastLoad
<1>5. loads[l] # NoLoad
  BY DEF AllAnswer, NoLoad
<1>6. DataInv'
  <2>1. CASE loads[l].number = started
    BY <1>0, <1>5, <2>1 DEF AllAnswer, DataInv, LastIsOfTheFilter, LastLoad
  <2>2. CASE loads[l].number # started /\ loads[l].number < datos.number
    BY <2>2 DEF AllAnswer, Overtake, DataInv
  <2>3. CASE loads[l].number # started /\ ~(loads[l].number < datos.number)
    <3>1. overtaken' = overtaken
      BY <2>3 DEF AllAnswer, Overtake
    <3>2. datos.number # started
      BY <1>1, <2>3 DEF LoadsAreNumbered, DashboardTypeInv
    <3>3. \A k \in Load : LastLoad(k) => LastLoad(k)' /\ loads'[k] = loads[k]
      BY <1>0, <1>1, <2>3 DEF LastLoad
    <3> QED BY <1>0, <3>1, <3>2, <3>3 DEF DataInv
  <2> QED BY <2>1, <2>2, <2>3
<1>7. ListInv'
  <2>1. "lista" \in overtaken => "lista" \in overtaken'
    BY DEF AllAnswer, Overtake
  <2>2. \A k \in Load : LastLoad(k) /\ loads[k].list = "asked"
                          => LastLoad(k)' /\ loads'[k].list = "asked"
    BY <1>0, <1>1 DEF AllAnswer, LastLoad
  <2> QED BY <1>0, <2>1, <2>2 DEF ListInv
<1>8. DetailInv'
  BY <1>0 DEF AllAnswer, Overtake, DetailInv, rowVars
<1> QED BY <1>2, <1>3, <1>4, <1>6, <1>7, <1>8

(* A request of a load fails: its figures are dropped, and no answer is no error. *)
LEMMA SomeFailsStep ==
  ASSUME ScreenInv, NEW l \in Load, NEW answered \in BOOLEAN, SomeFails(l, answered)
  PROVE  ScreenInv'
<1> USE DashboardAssumption DEF ScreenInv
<1>0. started' = started /\ filter' = filter /\ datos' = datos /\ lista' = lista
        /\ rowVars' = rowVars /\ overtaken' = overtaken
        /\ errorCarga' = (answered \/ errorCarga)
        /\ silent' = IF loads[l].number = started THEN ~answered ELSE silent
  BY DEF SomeFails
<1>1. /\ loads' \in [Load -> LoadRecord]
      /\ \A k \in Load : k # l => loads'[k] = loads[k]
      /\ \/ loads'[l] = NoLoad
         \/ /\ Waits(l)' /\ loads'[l].number = loads[l].number
            /\ loads'[l].filter = loads[l].filter
      /\ LastLoad(l)' => LastLoad(l)
      /\ loads[l].number \in 1 .. started
      /\ loads'[l].rest = "done"
      /\ \A k \in Load : loads'[k] = NoLoad
                           \/ (Waits(k)' /\ loads'[k].number \in 1 .. started)
  BY SettleStep DEF SomeFails
<1>2. DashboardTypeInv'
  BY <1>0, <1>1 DEF DashboardTypeInv, rowVars
<1>3. LoadsAreNumbered'
  BY <1>0, <1>1 DEF LoadsAreNumbered
<1>4. LastIsOfTheFilter'
  BY <1>0, <1>1 DEF LastIsOfTheFilter, LastLoad
<1>5. DataInv'
  <2>1. CASE loads[l].number = started
    <3>1. errorCarga' \/ silent'
      BY <1>0, <2>1
    <3> QED BY <3>1 DEF DataInv
  <2>2. CASE loads[l].number # started
    <3>1. \A k \in Load : LastLoad(k) => LastLoad(k)' /\ loads'[k] = loads[k]
      BY <1>0, <1>1, <2>2 DEF LastLoad
    <3>2. errorCarga \/ silent => errorCarga' \/ silent'
      BY <1>0, <2>2
    <3> QED BY <1>0, <3>1, <3>2 DEF DataInv
  <2> QED BY <2>1, <2>2
<1>6. ListInv'
  <2>1. \A k \in Load : LastLoad(k) /\ loads[k].list = "asked"
                          => LastLoad(k)' /\ loads'[k].list = "asked"
    BY <1>0, <1>1 DEF SomeFails, Settle, LastLoad, NoLoad, DashboardTypeInv, LoadRecord
  <2> QED BY <1>0, <2>1 DEF ListInv
<1>7. DetailInv'
  BY <1>0 DEF DetailInv, rowVars
<1> QED BY <1>2, <1>3, <1>4, <1>5, <1>6, <1>7
-----------------------------------------------------------------------------

(* The invariant of the dashboard is inductive. *)
LEMMA ScreenInvStep ==
  ASSUME ScreenInv, [DashboardNext]_dashboardVars
  PROVE  ScreenInv'
<1>1. CASE UNCHANGED dashboardVars
  <2>1. UNCHANGED <<loadVars, reviews, detalle, last, overtaken>>
    BY <1>1 DEF dashboardVars, rowVars
  <2> QED BY <2>1 DEF loadVars, ScreenInv, DashboardTypeInv, LoadsAreNumbered, Waits,
                      LastIsOfTheFilter, LastLoad, ListInv, DataInv, DetailInv
<1>2. ASSUME NEW l \in Load, Open(l) \/ Again(l) PROVE ScreenInv'
  <2>1. filter \in Filter
    BY DEF ScreenInv, DashboardTypeInv
  <2> QED BY <1>2, <2>1, CargarStep DEF Open, Again
<1>3. ASSUME NEW l \in Load, NEW f \in Filter, ChangeFilter(l, f) PROVE ScreenInv'
  BY <1>3, CargarStep DEF ChangeFilter
<1> QED BY <1>1, <1>2, <1>3, ClickStep, ListAnswersStep, AllAnswerStep, SomeFailsStep
        DEF DashboardNext, Loading

(* The inductive invariant. *)
THEOREM ScreenInvHolds == DashboardSpec => []ScreenInv
<1>1. DashboardInit => ScreenInv
  BY ScreenInvInit
<1>2. ScreenInv /\ [DashboardNext]_dashboardVars => ScreenInv'
  BY ScreenInvStep
<1> QED BY <1>1, <1>2, PTL DEF DashboardSpec

(* FR-041: when nothing is on its way, the dashboard shows the filter that is
   selected and the row that was asked for last, or an answer overtook a later
   one, or the last load had no answer. *)
THEOREM DashboardShowsTheFilter == DashboardSpec => []ScreenIsOfTheFilter
<1>1. ScreenInv => ScreenIsOfTheFilter
  <2> SUFFICES ASSUME ScreenInv PROVE ScreenIsOfTheFilter
    OBVIOUS
  <2>1. ASSUME started > 0, loads = [l \in Load |-> NoLoad]
        PROVE  /\ lista.of = filter \/ lista.error \/ "lista" \in overtaken
               /\ datos.of = filter \/ errorCarga \/ silent \/ "datos" \in overtaken
    BY <2>1 DEF ScreenInv, ListInv, DataInv, LastLoad
  <2>2. reviews = {} /\ detalle.fase # "inactivo" =>
          detalle.row = last \/ "detalle" \in overtaken
    BY DEF ScreenInv, DetailInv
  <2> QED BY <2>1, <2>2 DEF ScreenIsOfTheFilter
<1> QED BY <1>1, ScreenInvHolds, PTL

-----------------------------------------------------------------------------
(* The wizard: where each request and each thing on the screen comes from. *)
ProposalRecord == [book : Workbook \cup {NoBook}, edits : Nat]
WizardRequest == [pc : {"none", "sent", "served", "refused"}, import : Nat, revision : Nat,
                  proposal : ProposalRecord, known : BOOLEAN]
ImportRow == [book : Workbook \cup {NoBook}, status : {"proposed", "failed", "confirmed"}]
RevisionRow == [import : Nat, status : {"draft", "published"}, definition : ProposalRecord]
AgreedRow == [revision : Nat, shown : ProposalRecord]

WizardTypes ==
  /\ paso \in 1 .. 5 /\ propuesta \in ProposalRecord /\ heard \in ProposalRecord
  /\ uploading \in WizardRequest /\ save \in WizardRequest /\ publish \in WizardRequest
  /\ imports \in Seq(ImportRow) /\ revisions \in Seq(RevisionRow) /\ agreed \in Seq(AgreedRow)

(* The ids that the screen and the requests hold are of rows that there are. *)
WizardIds ==
  /\ importId \in 0 .. Len(imports) /\ revisionId \in 0 .. Len(revisions)
  /\ \A r \in 1 .. Len(revisions) : revisions[r].import \in 1 .. Len(imports)
  /\ uploading.pc = "served" => uploading.import \in 1 .. Len(imports)
  /\ save.pc # "none" =>
       save.import \in 1 .. Len(imports) /\ save.revision \in 0 .. Len(revisions)
  /\ save.pc = "served" => save.revision # 0
  /\ publish.pc # "none" => publish.revision \in 1 .. Len(revisions)
  /\ \A k \in 1 .. Len(agreed) : agreed[k].revision \in 1 .. Len(revisions)

(* While a workbook is on its way the screen waits for it, and nothing is about
   its import yet. *)
UploadInv ==
  /\ uploading # NoRequest => paso = 1
  /\ uploading.pc # "none" => uploading.proposal.book # NoBook
  /\ paso # 1 => propuesta.book # NoBook
  /\ uploading.pc = "served" =>
       /\ imports[uploading.import].book = uploading.proposal.book
       /\ importId # uploading.import
       /\ save.pc # "none" => save.import # uploading.import
       /\ \A r \in 1 .. Len(revisions) : revisions[r].import # uploading.import

(* A proposal, a save and a definition are of the workbook of their import,
   unless the revision came to the screen of another one. *)
BookInv ==
  /\ importId # 0 => propuesta.book = imports[importId].book
  /\ save.pc # "none" => save.proposal.book = imports[save.import].book
  /\ revisionId # 0 /\ importId # 0 =>
       revisions[revisionId].import = importId \/ revisionId \in mixed
  /\ save.pc # "none" /\ save.revision # 0 =>
       revisions[save.revision].import = save.import \/ save.revision \in mixed
  /\ \A r \in 1 .. Len(revisions) :
       revisions[r].definition.book = imports[revisions[r].import].book \/ r \in mixed

(* The import that a save is about. *)
TargetOf(q) == IF q.revision = 0 THEN q.import ELSE revisions[q.revision].import

(* What the screen heard of saved is what the revision says, or there are edits
   after it. *)
HeardInv ==
  /\ save.pc = "served" => revisions[save.revision].definition = save.proposal
  /\ save.pc # "none" /\ paso # 1 /\ importId = TargetOf(save) =>
       save.proposal.book = propuesta.book /\ save.proposal.edits <= propuesta.edits
  /\ paso # 1 /\ heard # NoProposal =>
       /\ revisionId # 0 /\ revisions[revisionId].import = importId
       /\ heard.book = propuesta.book /\ heard.edits <= propuesta.edits
       /\ revisions[revisionId].definition = heard \/ heard.edits < propuesta.edits
       /\ save.pc # "none" => heard.edits <= save.proposal.edits

(* A publication that knows what is saved keeps knowing it until the next save;
   what was published stays. *)
AgreedInv ==
  /\ publish.pc = "sent" /\ publish.known =>
       save.pc = "none" /\ revisions[publish.revision].definition = publish.proposal
  /\ \A k \in 1 .. Len(agreed) :
       /\ revisions[agreed[k].revision].status = "published"
       /\ revisions[agreed[k].revision].definition = agreed[k].shown

WizardInv == WizardTypes /\ WizardIds /\ UploadInv /\ BookInv /\ HeardInv /\ AgreedInv

(* The wizard opens with nothing read and nothing asked. *)
LEMMA WizardInvInit == WizardInit => WizardInv
<1> SUFFICES ASSUME WizardInit PROVE WizardInv
  OBVIOUS
<1>1. /\ imports = << >> /\ revisions = << >> /\ agreed = << >>
      /\ Len(imports) = 0 /\ Len(revisions) = 0 /\ Len(agreed) = 0
      /\ imports \in Seq(ImportRow) /\ revisions \in Seq(RevisionRow) /\ agreed \in Seq(AgreedRow)
  BY EmptySeq DEF WizardInit
<1>2. WizardTypes
  BY <1>1 DEF WizardInit, WizardTypes, ProposalRecord, WizardRequest, NoProposal, NoRequest
<1>3. WizardIds /\ UploadInv /\ BookInv /\ HeardInv /\ AgreedInv
  BY <1>1 DEF WizardInit, NoRequest, WizardIds, UploadInv, BookInv, HeardInv, AgreedInv
<1> QED BY <1>2, <1>3 DEF WizardInv

(* Moving, editing and the failures of requests leave the server alone. *)
LEMMA ScreenMoves ==
  ASSUME WizardInv,
         \/ \E n \in 1 .. 5 : Move(n)
         \/ Edit \/ Confirm \/ Resetear \/ LeaveWizard
         \/ UploadFails \/ SaveFails \/ PublishFails
  PROVE  WizardInv'
<1> USE DEF WizardInv
<1>1. /\ UNCHANGED <<imports, revisions, heard, mixed, agreed>>
      /\ Len(imports) \in Nat /\ Len(revisions) \in Nat
  BY LenProperties DEF WizardTypes, Move, Edit, Confirm, Resetear, LeaveWizard, UploadFails,
                       SaveFails, PublishFails, serverVars
<1>2. /\ uploading' \in {uploading, NoRequest} /\ save' \in {save, NoRequest}
      /\ publish' \in {publish, NoRequest}
  BY DEF Move, Edit, Confirm, Resetear, LeaveWizard, UploadFails, SaveFails, PublishFails,
         requestVars
<1>3. NoRequest \in WizardRequest /\ NoRequest.pc = "none" /\ ~NoRequest.known
  BY DEF NoRequest, WizardRequest, NoProposal, ProposalRecord
<1> DEFINE Calm ==
      /\ paso' \in 1 .. 5 /\ importId' \in {importId, 0} /\ revisionId' \in {revisionId, 0}
      /\ propuesta' \in ProposalRecord
      /\ importId' # 0 => propuesta'.book = propuesta.book
      /\ paso' # 1 => /\ paso # 1
                      /\ importId' = importId /\ revisionId' = revisionId
                      /\ propuesta'.book = propuesta.book
                      /\ propuesta'.edits >= propuesta.edits
<1>4. NoProposal \in ProposalRecord /\ propuesta \in ProposalRecord /\ paso \in 1 .. 5
  BY DEF NoProposal, ProposalRecord, WizardTypes
<1>5. ASSUME UNCHANGED wizardScreen PROVE Calm
  BY <1>4, <1>5 DEF wizardScreen, ProposalRecord
<1>6. ASSUME NEW n \in 1 .. 5, Move(n) PROVE Calm
  BY <1>4, <1>6 DEF Move, ProposalRecord
<1>7. ASSUME Edit PROVE Calm
  <2>1. /\ propuesta' \in ProposalRecord /\ propuesta'.book = propuesta.book
        /\ propuesta'.edits >= propuesta.edits
    BY <1>4, <1>7 DEF Edit, ProposalRecord
  <2> QED BY <1>4, <1>7, <2>1 DEF Edit
<1>8. ASSUME Resetear \/ LeaveWizard PROVE Calm
  <2>1. /\ paso' = 1 /\ importId' = 0 /\ revisionId' = 0
        /\ propuesta' = NoProposal
    BY <1>8 DEF Resetear, LeaveWizard
  <2> QED BY <1>4, <2>1
<1>9. ASSUME Confirm PROVE Calm
  BY <1>4, <1>9 DEF Confirm, ProposalRecord
<1>10. ASSUME UploadFails PROVE Calm
  BY <1>4, <1>10 DEF UploadFails, UploadInv
<1>11. ASSUME SaveFails \/ PublishFails PROVE Calm
  BY <1>5, <1>11 DEF SaveFails, PublishFails
<1>12. Calm
  BY <1>6, <1>7, <1>8, <1>9, <1>10, <1>11
<1>13. WizardTypes'
  BY <1>1, <1>2, <1>3, <1>12 DEF WizardTypes
<1>14. WizardIds'
  BY <1>1, <1>2, <1>3, <1>12 DEF WizardIds
<1>15. UploadInv'
  BY <1>1, <1>2, <1>3, <1>12 DEF UploadInv, WizardIds
<1>16. BookInv'
  BY <1>1, <1>2, <1>3, <1>12 DEF BookInv
<1>17. HeardInv'
  <2>1. TargetOf(save)' = IF save'.revision = 0 THEN save'.import ELSE revisions[save'.revision].import
    BY <1>1 DEF TargetOf
  <2>2. propuesta.edits \in Nat /\ propuesta'.edits \in Nat
        /\ save.proposal.edits \in Nat /\ heard.edits \in Nat
    BY <1>4, <1>12 DEF ProposalRecord, WizardTypes, WizardRequest
  <2> QED BY <1>1, <1>2, <1>3, <1>12, <2>1, <2>2 DEF HeardInv, TargetOf
<1>18. AgreedInv'
  BY <1>1, <1>2, <1>3 DEF AgreedInv
<1> QED BY <1>13, <1>14, <1>15, <1>16, <1>17, <1>18

(* What the user asks for: to read a file, to save the draft, to publish. *)
LEMMA AskSteps ==
  ASSUME WizardInv, (\E b \in Workbook : LeerArchivo(b)) \/ GuardarBorrador \/ Publicar
  PROVE  WizardInv'
<1> USE DEF WizardInv
<1>1. /\ UNCHANGED <<wizardScreen, serverVars, heard, mixed, agreed>>
      /\ UNCHANGED <<imports, revisions>>
      /\ Len(imports) \in Nat /\ Len(revisions) \in Nat
  BY LenProperties DEF WizardTypes, LeerArchivo, GuardarBorrador, Publicar, serverVars
<1>2. /\ paso \in 1 .. 5 /\ propuesta \in ProposalRecord /\ publish \in WizardRequest
      /\ importId \in 0 .. Len(imports) /\ revisionId \in 0 .. Len(revisions)
      /\ save \in WizardRequest /\ heard \in ProposalRecord
  BY DEF WizardTypes, WizardIds
<1> DEFINE saves == [NoRequest EXCEPT !.pc = "sent", !.import = importId, !.proposal = propuesta,
                                   !.revision = revisionId]
           knows == (heard = propuesta /\ save = NoRequest)
           publishes == [NoRequest EXCEPT !.pc = "sent", !.revision = revisionId,
                                          !.proposal = propuesta, !.known = knows]
<1>6. NoRequest \in WizardRequest
  BY DEF NoRequest, WizardRequest, NoProposal, ProposalRecord
<1>7. /\ saves \in WizardRequest /\ saves.pc = "sent" /\ saves.import = importId
      /\ saves.revision = revisionId /\ saves.proposal = propuesta
  <2>1. importId \in Nat /\ revisionId \in Nat
    BY <1>1, <1>2
  <2> QED BY <1>2, <1>6, <2>1 DEF WizardRequest
<1>8. /\ publishes \in WizardRequest /\ publishes.pc = "sent" /\ publishes.revision = revisionId
      /\ publishes.proposal = propuesta /\ publishes.known = knows
  <2>1. knows \in BOOLEAN
    OBVIOUS
  <2> HIDE DEF knows
  <2>2. revisionId \in Nat
    BY <1>1, <1>2
  <2>3. ASSUME NEW k \in BOOLEAN
        PROVE  LET q == [NoRequest EXCEPT !.pc = "sent", !.revision = revisionId,
                                          !.proposal = propuesta, !.known = k]
               IN  /\ q \in WizardRequest /\ q.pc = "sent" /\ q.revision = revisionId
                   /\ q.proposal = propuesta /\ q.known = k
    BY <1>2, <1>6, <2>2 DEF WizardRequest
  <2> QED BY <2>1, <2>3
<1>9. GuardarBorrador => save' = saves
  BY DEF GuardarBorrador
<1>10. Publicar => publish' = publishes
  BY DEF Publicar
<1> HIDE DEF saves, publishes
<1>3. ASSUME NEW b \in Workbook, LeerArchivo(b) PROVE WizardInv'
  <2>1. /\ uploading' \in WizardRequest
        /\ uploading'.pc = "sent" /\ uploading'.proposal.book = b /\ b # NoBook
        /\ paso = 1 /\ UNCHANGED <<save, publish>>
    BY <1>3, WizardAssumption DEF LeerArchivo, NoRequest, WizardRequest, ProposalRecord, NoProposal
  <2>2. WizardTypes'
    BY <1>1, <2>1 DEF WizardTypes, wizardScreen
  <2>3. WizardIds'
    BY <1>1, <2>1 DEF WizardIds, wizardScreen
  <2>4. UploadInv'
    BY <1>1, <2>1 DEF UploadInv, wizardScreen
  <2>5. BookInv' /\ AgreedInv'
    BY <1>1, <2>1 DEF BookInv, AgreedInv, wizardScreen
  <2>6. HeardInv'
    BY <1>1, <2>1 DEF HeardInv, TargetOf, wizardScreen
  <2> QED BY <2>2, <2>3, <2>4, <2>5, <2>6
<1>4. ASSUME GuardarBorrador PROVE WizardInv'
  <2>1. /\ save' \in WizardRequest /\ save'.pc = "sent" /\ save'.import = importId
        /\ save'.revision = revisionId /\ save'.proposal = propuesta
        /\ paso = 4 /\ importId # 0 /\ UNCHANGED <<uploading, wizardScreen>>
    BY <1>1, <1>4, <1>7, <1>9 DEF GuardarBorrador
  <2>2. /\ publish' \in WizardRequest /\ publish'.pc = publish.pc /\ ~publish'.known
        /\ publish'.revision = publish.revision
    BY <1>2, <1>4 DEF GuardarBorrador, WizardRequest
  <2>3. WizardTypes'
    BY <1>1, <2>1, <2>2 DEF WizardTypes, wizardScreen
  <2>4. WizardIds'
    BY <1>1, <1>2, <2>1, <2>2 DEF WizardIds, wizardScreen
  <2>5. UploadInv'
    <3>1. uploading = NoRequest /\ uploading.pc # "served"
      BY <2>1 DEF UploadInv, NoRequest
    <3> QED BY <1>1, <2>1, <3>1 DEF UploadInv, wizardScreen
  <2>6. BookInv'
    BY <1>1, <2>1 DEF BookInv, wizardScreen
  <2>7. AgreedInv'
    BY <1>1, <2>1, <2>2 DEF AgreedInv, wizardScreen
  <2>8. HeardInv'
    <3>1. propuesta.edits \in Nat /\ heard.edits \in Nat
      BY <1>2 DEF ProposalRecord
    <3> QED BY <1>1, <2>1, <3>1 DEF HeardInv, wizardScreen
  <2> QED BY <2>3, <2>4, <2>5, <2>6, <2>7, <2>8
<1>5. ASSUME Publicar PROVE WizardInv'
  <2>1. /\ publish' \in WizardRequest /\ publish'.pc = "sent" /\ publish'.revision = revisionId
        /\ publish'.proposal = propuesta
        /\ publish'.known => heard = propuesta /\ save = NoRequest
        /\ paso = 5 /\ revisionId # 0 /\ UNCHANGED <<uploading, save, wizardScreen>>
    BY <1>1, <1>5, <1>8, <1>10 DEF Publicar
  <2>2. WizardTypes'
    BY <1>1, <2>1 DEF WizardTypes, wizardScreen
  <2>3. WizardIds'
    BY <1>1, <1>2, <2>1 DEF WizardIds, wizardScreen
  <2>4. UploadInv' /\ BookInv'
    BY <1>1, <2>1 DEF UploadInv, BookInv, wizardScreen
  <2>5. HeardInv'
    BY <1>1, <2>1 DEF HeardInv, TargetOf, wizardScreen
  <2>6. publish'.known => save'.pc = "none" /\ revisions'[publish'.revision].definition = propuesta
    <3> SUFFICES ASSUME publish'.known
                 PROVE  save.pc = "none" /\ revisions[revisionId].definition = propuesta
      BY <1>1, <2>1
    <3>1. heard = propuesta /\ save.pc = "none" /\ heard.edits \in Nat
      BY <1>2, <2>1 DEF NoRequest, ProposalRecord
    <3>2. heard # NoProposal
      BY <2>1, <3>1 DEF UploadInv, NoProposal
    <3> QED BY <2>1, <3>1, <3>2 DEF HeardInv
  <2>7. AgreedInv'
    BY <1>1, <2>1, <2>6 DEF AgreedInv
  <2> QED BY <2>2, <2>3, <2>4, <2>5, <2>7
<1> QED BY <1>3, <1>4, <1>5

(* What the screen makes of an answer, whatever it shows by then. *)
LEMMA AnswerSteps ==
  ASSUME WizardInv, HearUpload \/ HearSave \/ HearPublish
  PROVE  WizardInv'
<1> USE DEF WizardInv
<1>1. /\ UNCHANGED <<imports, revisions, agreed>>
      /\ Len(imports) \in Nat /\ Len(revisions) \in Nat
  BY LenProperties DEF WizardTypes, HearUpload, HearSave, HearPublish, serverVars
<1>2. /\ paso \in 1 .. 5 /\ propuesta \in ProposalRecord /\ publish \in WizardRequest
      /\ importId \in 0 .. Len(imports) /\ revisionId \in 0 .. Len(revisions)
      /\ save \in WizardRequest /\ uploading \in WizardRequest /\ heard \in ProposalRecord
  BY DEF WizardTypes, WizardIds
<1>3. /\ NoRequest \in WizardRequest /\ NoRequest.pc = "none" /\ ~NoRequest.known
      /\ NoProposal \in ProposalRecord
  BY DEF NoRequest, WizardRequest, NoProposal, ProposalRecord
<1>4. ASSUME HearPublish PROVE WizardInv'
  <2>1. /\ publish' = NoRequest
        /\ UNCHANGED <<paso, propuesta, importId, revisionId, uploading, save, heard, mixed>>
    BY <1>4 DEF HearPublish
  <2>2. WizardTypes'
    BY <1>1, <1>3, <2>1 DEF WizardTypes
  <2>3. WizardIds'
    BY <1>1, <1>3, <2>1 DEF WizardIds
  <2>4. UploadInv' /\ BookInv' /\ AgreedInv'
    BY <1>1, <1>3, <2>1 DEF UploadInv, BookInv, AgreedInv
  <2>5. HeardInv'
    BY <1>1, <2>1 DEF HeardInv, TargetOf
  <2> QED BY <2>2, <2>3, <2>4, <2>5
<1>5. ASSUME HearSave PROVE WizardInv'
  <2>1. /\ save.pc = "served" /\ revisionId' = save.revision /\ save' = NoRequest
        /\ save.revision \in 1 .. Len(revisions) /\ save.revision # 0
        /\ UNCHANGED <<paso, propuesta, importId, uploading, publish>>
    BY <1>1, <1>5 DEF HearSave, WizardIds
  <2>2. \/ /\ importId = revisions[save.revision].import
           /\ heard' = save.proposal /\ mixed' = mixed
        \/ heard' = NoProposal /\ mixed' = mixed \cup {save.revision}
    BY <1>5 DEF HearSave
  <2>3. save.proposal \in ProposalRecord /\ save.proposal.edits \in Nat
    BY <1>2 DEF WizardRequest, ProposalRecord
  <2>4. WizardTypes'
    BY <1>1, <1>2, <1>3, <2>1, <2>2, <2>3 DEF WizardTypes
  <2>5. WizardIds'
    BY <1>1, <1>3, <2>1 DEF WizardIds
  <2>6. UploadInv'
    BY <1>1, <1>3, <2>1 DEF UploadInv
  <2>7. BookInv'
    BY <1>1, <1>3, <2>1, <2>2 DEF BookInv
  <2>8. HeardInv'
    BY <1>1, <1>3, <2>1, <2>2, <2>3 DEF HeardInv, TargetOf
  <2>9. AgreedInv'
    BY <1>1, <1>3, <2>1 DEF AgreedInv
  <2> QED BY <2>4, <2>5, <2>6, <2>7, <2>8, <2>9
<1>6. ASSUME HearUpload PROVE WizardInv'
  <2>1. /\ uploading.pc = "served" /\ uploading' = NoRequest /\ heard' = NoProposal
        /\ uploading.import \in 1 .. Len(imports) /\ paso = 1
        /\ UNCHANGED <<save, publish, mixed>>
    <3>1. uploading # NoRequest
      BY <1>6 DEF HearUpload, NoRequest
    <3> QED BY <1>6, <3>1 DEF HearUpload, WizardIds, UploadInv
  <2>2. \/ /\ paso' = paso /\ importId' = 0 /\ propuesta' = NoProposal
           /\ revisionId' = revisionId
        \/ /\ paso' = 2 /\ importId' = uploading.import /\ propuesta' = uploading.proposal
           /\ revisionId' = 0
    BY <1>6 DEF HearUpload
  <2>3. /\ uploading.proposal \in ProposalRecord /\ uploading.proposal.book # NoBook
        /\ imports[uploading.import].book = uploading.proposal.book
        /\ save.pc # "none" => save.import # uploading.import
        /\ \A r \in 1 .. Len(revisions) : revisions[r].import # uploading.import
    BY <1>2, <2>1 DEF WizardRequest, UploadInv
  <2>4. WizardTypes'
    BY <1>1, <1>2, <1>3, <2>1, <2>2, <2>3 DEF WizardTypes
  <2>5. WizardIds'
    BY <1>1, <1>3, <2>1, <2>2 DEF WizardIds
  <2>6. UploadInv'
    BY <1>1, <1>3, <2>1, <2>2, <2>3 DEF UploadInv
  <2>7. BookInv'
    BY <1>1, <1>3, <2>1, <2>2, <2>3 DEF BookInv
  <2>8. HeardInv'
    <3>1. save.pc # "none" => TargetOf(save) # uploading.import
      BY <1>1, <2>3 DEF TargetOf, WizardIds
    <3>2. TargetOf(save)' = TargetOf(save)
      BY <1>1, <2>1 DEF TargetOf
    <3> QED BY <1>1, <2>1, <2>2, <3>1, <3>2 DEF HeardInv
  <2>9. AgreedInv'
    BY <1>1, <1>3, <2>1 DEF AgreedInv
  <2> QED BY <2>4, <2>5, <2>6, <2>7, <2>8, <2>9
<1> QED BY <1>4, <1>5, <1>6

(* A row more, or a row changed, in a table of the server. *)
LEMMA RowAdded ==
  ASSUME NEW S, NEW s \in Seq(S), NEW e \in S
  PROVE  /\ Append(s, e) \in Seq(S) /\ Len(s) \in Nat /\ Len(Append(s, e)) = Len(s) + 1
         /\ \A k \in 1 .. Len(s) : Append(s, e)[k] = s[k]
         /\ Append(s, e)[Len(s) + 1] = e
BY AppendProperties, LenProperties

(* One row of a table changed. *)
LEMMA RowChanged ==
  ASSUME NEW S, NEW s \in Seq(S), NEW i \in 1 .. Len(s), NEW e \in S
  PROVE  /\ [s EXCEPT ![i] = e] \in Seq(S) /\ Len(s) \in Nat
         /\ Len([s EXCEPT ![i] = e]) = Len(s)
         /\ \A k \in 1 .. Len(s) : [s EXCEPT ![i] = e][k] = IF k = i THEN e ELSE s[k]
BY ExceptSeq, LenProperties

(* The server stores the file and answers with its proposal. *)
LEMMA ServeUploadStep ==
  ASSUME WizardInv, ServeUpload
  PROVE  WizardInv'
<1> USE DEF WizardInv
<1>1. /\ imports \in Seq(ImportRow) /\ revisions \in Seq(RevisionRow)
      /\ uploading \in WizardRequest /\ uploading.pc = "sent"
      /\ UNCHANGED <<wizardScreen, save, publish, revisions, heard, mixed, agreed>>
  BY DEF ServeUpload, WizardTypes
<1>2. PICK row \in ImportRow : imports' = Append(imports, row) /\ row.book = uploading.proposal.book
  BY <1>1 DEF ServeUpload, ImportRow, WizardRequest, ProposalRecord
<1> DEFINE n == Len(imports)
<1>3. /\ imports' \in Seq(ImportRow) /\ n \in Nat /\ Len(imports') = n + 1
      /\ \A k \in 1 .. n : imports'[k] = imports[k]
      /\ imports'[n + 1] = row /\ Len(revisions) \in Nat
  BY <1>1, <1>2, RowAdded, LenProperties
<1>4. /\ uploading' \in WizardRequest /\ uploading'.pc = "served" /\ uploading'.import = n + 1
      /\ uploading'.proposal = uploading.proposal
      /\ uploading # NoRequest
  <2>1. uploading' = [uploading EXCEPT !.pc = "served", !.import = n + 1] /\ n + 1 \in Nat
    BY <1>3 DEF ServeUpload
  <2>2. uploading # NoRequest
    BY <1>1 DEF NoRequest
  <2> HIDE DEF n
  <2> QED BY <1>1, <2>1, <2>2 DEF WizardRequest
<1>5. WizardTypes'
  BY <1>1, <1>3, <1>4 DEF WizardTypes, wizardScreen
<1>6. WizardIds'
  <2>1. /\ UNCHANGED <<importId, revisionId>> /\ Len(agreed') = Len(agreed)
        /\ 0 .. n \subseteq 0 .. n + 1 /\ 1 .. n \subseteq 1 .. n + 1 /\ n + 1 \in 1 .. n + 1
    BY <1>1, <1>3 DEF wizardScreen
  <2> QED BY <1>1, <1>3, <1>4, <2>1 DEF WizardIds
<1>7. UploadInv'
  <2>1. importId # n + 1
    BY <1>3 DEF WizardIds
  <2>2. save.pc # "none" => save.import # n + 1
    BY <1>3 DEF WizardIds
  <2>3. \A r \in 1 .. Len(revisions) : revisions[r].import # n + 1
    BY <1>3 DEF WizardIds
  <2> QED BY <1>1, <1>2, <1>3, <1>4, <2>1, <2>2, <2>3 DEF UploadInv, wizardScreen
<1>8. BookInv'
  BY <1>1, <1>3 DEF BookInv, WizardIds, wizardScreen
<1>9. HeardInv' /\ AgreedInv'
  BY <1>1 DEF HeardInv, AgreedInv, TargetOf, wizardScreen
<1> QED BY <1>5, <1>6, <1>7, <1>8, <1>9

(* A save that the server refuses, or a publication. *)
LEMMA RefusedSave ==
  ASSUME WizardInv, save.pc = "sent", save' = [save EXCEPT !.pc = "refused"],
         UNCHANGED <<wizardScreen, serverVars, uploading, publish, heard, mixed, agreed>>
  PROVE  WizardInv'
<1> USE DEF WizardInv, serverVars
<1>1. save \in WizardRequest
  BY DEF WizardTypes
<1>2. /\ save' \in WizardRequest /\ save'.pc = "refused" /\ save'.import = save.import
      /\ save'.revision = save.revision /\ save'.proposal = save.proposal
  BY <1>1 DEF WizardRequest
<1>3. WizardTypes' /\ WizardIds'
  BY <1>2 DEF WizardTypes, WizardIds, wizardScreen
<1>4. UploadInv' /\ BookInv' /\ AgreedInv'
  BY <1>2 DEF UploadInv, BookInv, AgreedInv, wizardScreen
<1>5. HeardInv'
  BY <1>2 DEF HeardInv, TargetOf, wizardScreen
<1> QED BY <1>3, <1>4, <1>5

(* The server makes a draft of the proposal it is sent. *)
LEMMA ServeConfirmStep ==
  ASSUME WizardInv, ServeConfirm
  PROVE  WizardInv'
<1> USE DEF WizardInv
<1> DEFINE i == save.import
           row == [import |-> i, status |-> "draft", definition |-> save.proposal]
           kept == [imports[i] EXCEPT !.status = "confirmed"]
           n == Len(revisions)
<1>1. /\ imports \in Seq(ImportRow) /\ revisions \in Seq(RevisionRow) /\ agreed \in Seq(AgreedRow)
      /\ save \in WizardRequest /\ save.pc = "sent" /\ save.revision = 0
      /\ i \in 1 .. Len(imports)
      /\ UNCHANGED <<wizardScreen, uploading, publish, heard, mixed, agreed>>
  BY DEF ServeConfirm, WizardTypes, WizardIds
<1>2. CASE imports[i].status # "proposed"
  BY <1>1, <1>2, RefusedSave DEF ServeConfirm
<1>3. CASE imports[i].status = "proposed"
  <2>1. /\ imports' = [imports EXCEPT ![i] = kept] /\ revisions' = Append(revisions, row)
        /\ save' = [save EXCEPT !.pc = "served", !.revision = Len(revisions')]
    BY <1>3 DEF ServeConfirm
  <2>2. imports[i] \in ImportRow /\ kept \in ImportRow /\ kept.book = imports[i].book
    <3>1. imports[i] \in ImportRow
      BY <1>1, ElementOfSeq
    <3> QED BY <3>1 DEF ImportRow
  <2>3. row \in RevisionRow /\ row.import = i /\ row.definition = save.proposal
    BY <1>1 DEF RevisionRow, WizardRequest
  <2>4. /\ imports' \in Seq(ImportRow) /\ Len(imports) \in Nat /\ Len(imports') = Len(imports)
        /\ \A k \in 1 .. Len(imports) : imports'[k].book = imports[k].book
    <3> HIDE DEF kept, i
    <3> QED BY <1>1, <2>1, <2>2, RowChanged
  <2>5. /\ revisions' \in Seq(RevisionRow) /\ n \in Nat /\ Len(revisions') = n + 1
        /\ \A k \in 1 .. n : revisions'[k] = revisions[k]
        /\ revisions'[n + 1] = row
    <3> HIDE DEF row
    <3> QED BY <1>1, <2>1, <2>3, RowAdded
  <2>6. /\ save' \in WizardRequest /\ save'.pc = "served" /\ save'.import = i
        /\ save'.revision = n + 1 /\ save'.proposal = save.proposal
    <3>1. save' = [save EXCEPT !.pc = "served", !.revision = n + 1] /\ n + 1 \in Nat
      BY <2>1, <2>5
    <3> HIDE DEF n
    <3> QED BY <1>1, <3>1 DEF WizardRequest
  <2> HIDE DEF row, kept, n, i
  <2>7. WizardTypes'
    BY <1>1, <2>4, <2>5, <2>6 DEF WizardTypes, wizardScreen
  <2>8. WizardIds'
    <3>1. UNCHANGED <<importId, revisionId>> /\ Len(agreed') = Len(agreed)
      BY <1>1 DEF wizardScreen
    <3>2. /\ 0 .. n \subseteq 0 .. n + 1 /\ 1 .. n \subseteq 1 .. n + 1
          /\ n + 1 \in 0 .. n + 1 /\ n + 1 # 0
      BY <2>5
    <3>3. \A r \in 1 .. Len(revisions') : revisions'[r].import \in 1 .. Len(imports')
      <4>1. \A r \in 1 .. n : revisions[r].import \in 1 .. Len(imports)
        BY DEF WizardIds, n
      <4>2. i \in 1 .. Len(imports') /\ Len(imports') = Len(imports)
        BY <1>1, <2>4 DEF i
      <4> SUFFICES ASSUME NEW r \in 1 .. Len(revisions')
                   PROVE  revisions'[r].import \in 1 .. Len(imports')
        OBVIOUS
      <4>3. r = n + 1 \/ r \in 1 .. n
        BY <2>5
      <4> QED BY <2>3, <2>5, <4>1, <4>2, <4>3
    <3> QED BY <1>1, <2>4, <2>5, <2>6, <3>1, <3>2, <3>3 DEF WizardIds, n
  <2>9. UploadInv'
    <3> SUFFICES ASSUME uploading.pc = "served"
                 PROVE  \A r \in 1 .. Len(revisions') : revisions'[r].import # uploading.import
      BY <1>1, <2>4, <2>6 DEF UploadInv, WizardIds, wizardScreen, i
    <3>1. i # uploading.import /\ \A r \in 1 .. n : revisions[r].import # uploading.import
      BY <1>1 DEF UploadInv, n, i
    <3> QED BY <2>3, <2>5, <3>1
  <2>10. BookInv'
    <3>1. save.proposal.book = imports[i].book
      BY <1>1 DEF BookInv, i
    <3>2. ASSUME NEW r \in 1 .. Len(revisions')
          PROVE  revisions'[r].definition.book = imports'[revisions'[r].import].book \/ r \in mixed
      <4>1. CASE r = n + 1
        BY <1>1, <2>3, <2>4, <2>5, <3>1, <4>1 DEF i
      <4>2. CASE r \in 1 .. n
        BY <2>4, <2>5, <4>2 DEF BookInv, WizardIds, n
      <4> QED BY <2>5, <4>1, <4>2
    <3>3. importId # 0 => propuesta.book = imports'[importId].book
      BY <2>4 DEF BookInv, WizardIds
    <3>4. revisionId # 0 /\ importId # 0 =>
            revisions'[revisionId].import = importId \/ revisionId \in mixed
      BY <2>5 DEF BookInv, WizardIds, n
    <3> QED BY <1>1, <2>3, <2>4, <2>5, <2>6, <3>1, <3>2, <3>3, <3>4 DEF BookInv, wizardScreen, i
  <2>11. HeardInv'
    <3>1. TargetOf(save) = i /\ TargetOf(save)' = i
      BY <1>1, <2>3, <2>5, <2>6 DEF TargetOf, i
    <3>2. revisionId # 0 => revisions'[revisionId] = revisions[revisionId]
      BY <2>5 DEF WizardIds, n
    <3> QED BY <1>1, <2>3, <2>5, <2>6, <3>1, <3>2 DEF HeardInv, wizardScreen
  <2>12. AgreedInv'
    <3>1. ~(publish.pc = "sent" /\ publish.known)
      BY <1>1 DEF AgreedInv
    <3>2. \A k \in 1 .. Len(agreed) : revisions'[agreed[k].revision] = revisions[agreed[k].revision]
      BY <2>5 DEF WizardIds, n
    <3> QED BY <1>1, <3>1, <3>2 DEF AgreedInv
  <2> QED BY <2>7, <2>8, <2>9, <2>10, <2>11, <2>12
<1> QED BY <1>2, <1>3

(* The server writes the definition it is sent into the draft. *)
LEMMA ServePatchStep ==
  ASSUME WizardInv, ServePatch
  PROVE  WizardInv'
<1> USE DEF WizardInv
<1> DEFINE v == save.revision
           row == [revisions[v] EXCEPT !.definition = save.proposal]
<1>1. /\ revisions \in Seq(RevisionRow) /\ save \in WizardRequest /\ save.pc = "sent"
      /\ v \in 1 .. Len(revisions) /\ v # 0 /\ Len(revisions) \in Nat
      /\ UNCHANGED <<wizardScreen, uploading, publish, imports, heard, mixed, agreed>>
  BY LenProperties DEF ServePatch, WizardTypes, WizardIds
<1>2. CASE revisions[v].status # "draft"
  BY <1>1, <1>2, RefusedSave DEF ServePatch, serverVars
<1>3. CASE revisions[v].status = "draft"
  <2>1. revisions' = [revisions EXCEPT ![v] = row] /\ save' = [save EXCEPT !.pc = "served"]
    BY <1>3 DEF ServePatch
  <2>2. /\ row \in RevisionRow /\ row.import = revisions[v].import /\ row.status = "draft"
        /\ row.definition = save.proposal
    <3>1. revisions[v] \in RevisionRow
      BY <1>1, ElementOfSeq
    <3> QED BY <1>1, <1>3, <3>1 DEF RevisionRow, WizardRequest
  <2>3. /\ revisions' \in Seq(RevisionRow) /\ Len(revisions') = Len(revisions)
        /\ \A k \in 1 .. Len(revisions) : revisions'[k] = IF k = v THEN row ELSE revisions[k]
    <3> HIDE DEF row, v
    <3> QED BY <1>1, <2>1, <2>2, RowChanged
  <2>4. /\ save' \in WizardRequest /\ save'.pc = "served" /\ save'.import = save.import
        /\ save'.revision = v /\ save'.proposal = save.proposal
    BY <1>1, <2>1 DEF WizardRequest
  <2>5. \A k \in 1 .. Len(revisions) : revisions'[k].import = revisions[k].import
    BY <2>2, <2>3
  <2> HIDE DEF row, v
  <2>6. WizardTypes'
    BY <1>1, <2>3, <2>4 DEF WizardTypes, wizardScreen
  <2>7. WizardIds'
    BY <1>1, <2>3, <2>4, <2>5 DEF WizardIds, wizardScreen
  <2>8. UploadInv'
    BY <1>1, <2>3, <2>4, <2>5 DEF UploadInv, wizardScreen
  <2>9. BookInv'
    <3>1. save.proposal.book = imports[save.import].book
      BY <1>1 DEF BookInv
    <3>2. revisions[v].import = save.import \/ v \in mixed
      BY <1>1 DEF BookInv, v
    <3>3. ASSUME NEW r \in 1 .. Len(revisions)
          PROVE  revisions'[r].definition.book = imports[revisions'[r].import].book \/ r \in mixed
      <4>1. CASE r = v
        BY <1>1, <2>2, <2>3, <3>1, <3>2, <4>1
      <4>2. CASE r # v
        BY <2>3, <4>2 DEF BookInv
      <4> QED BY <4>1, <4>2
    <3>4. revisionId # 0 /\ importId # 0 =>
            revisions'[revisionId].import = importId \/ revisionId \in mixed
      BY <2>5 DEF BookInv, WizardIds
    <3>5. revisions'[v].import = save.import \/ v \in mixed
      BY <1>1, <2>5, <3>2
    <3>6. /\ importId # 0 => propuesta.book = imports[importId].book
      BY DEF BookInv
    <3> QED BY <1>1, <2>3, <2>4, <3>1, <3>3, <3>4, <3>5, <3>6 DEF BookInv, wizardScreen
  <2>10. HeardInv'
    <3>1. TargetOf(save)' = TargetOf(save) /\ TargetOf(save) = revisions[v].import
      BY <1>1, <2>4, <2>5 DEF TargetOf, v
    <3>2. revisions'[v].definition = save.proposal
      BY <1>1, <2>2, <2>3
    <3>3. ASSUME paso # 1, heard # NoProposal
          PROVE  /\ revisionId # 0 /\ revisions'[revisionId].import = importId
                 /\ heard.book = propuesta.book /\ heard.edits <= propuesta.edits
                 /\ revisions'[revisionId].definition = heard \/ heard.edits < propuesta.edits
                 /\ heard.edits <= save.proposal.edits
      <4>1. /\ revisionId \in 1 .. Len(revisions) /\ revisions[revisionId].import = importId
            /\ heard.book = propuesta.book /\ heard.edits <= propuesta.edits
            /\ revisions[revisionId].definition = heard \/ heard.edits < propuesta.edits
            /\ heard.edits <= save.proposal.edits
        BY <1>1, <3>3 DEF HeardInv, WizardIds
      <4>2. CASE revisionId # v
        BY <2>3, <4>1, <4>2
      <4>3. CASE revisionId = v
        <5>1. save.proposal.book = propuesta.book /\ save.proposal.edits <= propuesta.edits
          BY <1>1, <3>1, <3>3, <4>1, <4>3 DEF HeardInv
        <5>2. /\ save.proposal \in ProposalRecord /\ heard \in ProposalRecord
              /\ propuesta \in ProposalRecord
          BY <1>1 DEF WizardTypes, WizardRequest
        <5>3. save.proposal = heard \/ heard.edits < propuesta.edits
          BY <4>1, <5>1, <5>2 DEF ProposalRecord
        <5> QED BY <1>1, <2>5, <3>2, <4>1, <4>3, <5>3
      <4> QED BY <4>2, <4>3
    <3> QED BY <1>1, <2>4, <3>1, <3>2, <3>3 DEF HeardInv, wizardScreen
  <2>11. AgreedInv'
    <3>1. ~(publish.pc = "sent" /\ publish.known)
      BY <1>1 DEF AgreedInv
    <3>2. \A k \in 1 .. Len(agreed) : revisions'[agreed[k].revision] = revisions[agreed[k].revision]
      BY <1>3, <2>3 DEF AgreedInv, WizardIds, v
    <3> QED BY <1>1, <3>1, <3>2 DEF AgreedInv
  <2> QED BY <2>6, <2>7, <2>8, <2>9, <2>10, <2>11
<1> QED BY <1>2, <1>3

(* The server publishes the draft as it is stored. *)
LEMMA ServePublishStep ==
  ASSUME WizardInv, ServePublish
  PROVE  WizardInv'
<1> USE DEF WizardInv
<1> DEFINE v == publish.revision
           row == [revisions[v] EXCEPT !.status = "published"]
<1>1. /\ revisions \in Seq(RevisionRow) /\ publish \in WizardRequest /\ publish.pc = "sent"
      /\ agreed \in Seq(AgreedRow) /\ v \in 1 .. Len(revisions) /\ Len(revisions) \in Nat
      /\ UNCHANGED <<wizardScreen, uploading, save, imports, heard, mixed>>
  BY LenProperties DEF ServePublish, WizardTypes, WizardIds
<1>2. revisions[v] \in RevisionRow
  BY <1>1, ElementOfSeq
<1>3. /\ row \in RevisionRow /\ row.import = revisions[v].import /\ row.status = "published"
      /\ row.definition = revisions[v].definition
  BY <1>2 DEF RevisionRow
<1>4. \/ /\ revisions' = [revisions EXCEPT ![v] = row]
         /\ agreed' = IF publish.known
                      THEN Append(agreed, [revision |-> v, shown |-> publish.proposal])
                      ELSE agreed
      \/ revisions' = revisions /\ agreed' = agreed
  BY DEF ServePublish
<1>5. /\ revisions' \in Seq(RevisionRow) /\ Len(revisions') = Len(revisions)
      /\ \A k \in 1 .. Len(revisions) : /\ revisions'[k].import = revisions[k].import
                                        /\ revisions'[k].definition = revisions[k].definition
                                        /\ revisions[k].status = "published" =>
                                             revisions'[k].status = "published"
      /\ agreed' # agreed => revisions'[v].status = "published"
  <2>1. CASE revisions' = revisions /\ agreed' = agreed
    BY <1>1, <2>1
  <2>2. CASE revisions' = [revisions EXCEPT ![v] = row]
    <3>1. /\ revisions' \in Seq(RevisionRow) /\ Len(revisions') = Len(revisions)
          /\ \A k \in 1 .. Len(revisions) : revisions'[k] = IF k = v THEN row ELSE revisions[k]
      <4> HIDE DEF row, v
      <4> QED BY <1>1, <1>3, <2>2, RowChanged
    <3> QED BY <1>1, <1>3, <3>1
  <2> QED BY <1>4, <2>1, <2>2
<1>6. /\ publish' \in WizardRequest /\ publish'.pc \in {"served", "refused"}
      /\ publish'.revision = v
  BY <1>1 DEF ServePublish, WizardRequest
<1> HIDE DEF row
<1>7. /\ agreed' \in Seq(AgreedRow) /\ Len(agreed) \in Nat /\ Len(agreed') \in Nat
      /\ \A k \in 1 .. Len(agreed') :
           \/ k \in 1 .. Len(agreed) /\ agreed'[k] = agreed[k]
           \/ /\ agreed'[k].revision = v /\ agreed'[k].shown = publish.proposal
              /\ publish.known /\ agreed' # agreed
  <2>1. CASE agreed' = agreed
    BY <1>1, <2>1, LenProperties
  <2>2. CASE publish.known /\ agreed' = Append(agreed, [revision |-> v, shown |-> publish.proposal])
    <3> DEFINE e == [revision |-> v, shown |-> publish.proposal]
    <3>1. e \in AgreedRow /\ e.revision = v /\ e.shown = publish.proposal
      BY <1>1 DEF AgreedRow, WizardRequest
    <3> HIDE DEF e
    <3>2. /\ agreed' \in Seq(AgreedRow) /\ Len(agreed) \in Nat /\ Len(agreed') = Len(agreed) + 1
          /\ \A k \in 1 .. Len(agreed) : agreed'[k] = agreed[k]
          /\ agreed'[Len(agreed) + 1] = e
      BY <1>1, <2>2, <3>1, RowAdded DEF e
    <3>3. agreed' # agreed
      BY <3>2
    <3> QED BY <2>2, <3>1, <3>2, <3>3
  <2> QED BY <1>4, <2>1, <2>2
<1>8. WizardTypes'
  BY <1>1, <1>5, <1>6, <1>7 DEF WizardTypes, wizardScreen
<1>9. WizardIds'
  <2>1. \A k \in 1 .. Len(agreed') : agreed'[k].revision \in 1 .. Len(revisions')
    BY <1>1, <1>5, <1>7 DEF WizardIds
  <2> QED BY <1>1, <1>5, <1>6, <2>1 DEF WizardIds, wizardScreen
<1>10. UploadInv'
  BY <1>1, <1>5 DEF UploadInv, wizardScreen
<1>11. BookInv'
  <2>1. \A r \in 1 .. Len(revisions') :
          revisions'[r].definition.book = imports[revisions'[r].import].book \/ r \in mixed
    BY <1>5 DEF BookInv
  <2>2. revisionId # 0 /\ importId # 0 =>
          revisions'[revisionId].import = importId \/ revisionId \in mixed
    BY <1>5 DEF BookInv, WizardIds
  <2>3. save.pc # "none" /\ save.revision # 0 =>
          revisions'[save.revision].import = save.import \/ save.revision \in mixed
    BY <1>5 DEF BookInv, WizardIds
  <2> QED BY <1>1, <2>1, <2>2, <2>3 DEF BookInv, wizardScreen
<1>12. HeardInv'
  <2>1. save.pc # "none" => TargetOf(save)' = TargetOf(save)
    BY <1>1, <1>5 DEF TargetOf, WizardIds
  <2> QED BY <1>1, <1>5, <2>1 DEF HeardInv, WizardIds, wizardScreen
<1>13. AgreedInv'
  <2>1. publish'.pc # "sent"
    BY <1>6
  <2>2. publish.known => revisions[v].definition = publish.proposal
    BY <1>1 DEF AgreedInv
  <2>3. ASSUME NEW k \in 1 .. Len(agreed')
        PROVE  /\ revisions'[agreed'[k].revision].status = "published"
               /\ revisions'[agreed'[k].revision].definition = agreed'[k].shown
    <3>1. CASE k \in 1 .. Len(agreed) /\ agreed'[k] = agreed[k]
      BY <1>5, <3>1 DEF AgreedInv, WizardIds
    <3>2. CASE /\ agreed'[k].revision = v /\ agreed'[k].shown = publish.proposal
               /\ publish.known /\ agreed' # agreed
      BY <1>1, <1>5, <2>2, <3>2
    <3> QED BY <1>7, <3>1, <3>2
  <2> QED BY <2>1, <2>3 DEF AgreedInv
<1> QED BY <1>8, <1>9, <1>10, <1>11, <1>12, <1>13

(* The inductive invariant of the wizard. *)
LEMMA WizardInvStep == WizardInv /\ [WizardNext]_wizardVars => WizardInv'
<1> SUFFICES ASSUME WizardInv, [WizardNext]_wizardVars PROVE WizardInv'
  OBVIOUS
<1>1. CASE UNCHANGED wizardVars
  BY <1>1 DEF wizardVars, wizardScreen, requestVars, serverVars, WizardInv, WizardTypes, WizardIds,
              UploadInv, BookInv, HeardInv, TargetOf, AgreedInv
<1> QED BY <1>1, ScreenMoves, AskSteps, AnswerSteps, ServeUploadStep, ServeConfirmStep,
           ServePatchStep, ServePublishStep DEF WizardNext

(* What screen, requests and drafts have to do with one another holds in every state. *)
THEOREM WizardInvHolds == WizardSpec => []WizardInv
BY WizardInvInit, WizardInvStep, PTL DEF WizardSpec

(* FR-048, FR-019: however the author goes back, edits, saves again or loses an
   answer while a request is on its way, what is published is what the screen
   showed when it was confirmed and known to be saved, and a definition is of
   the workbook of its own import, unless its revision came to the screen of
   another one (Importar.tsx). *)
THEOREM WizardPublishesWhatItShowed == WizardSpec => []PublishedIsWhatWasConfirmed
<1>1. WizardInv => PublishedIsWhatWasConfirmed
  <2> SUFFICES ASSUME WizardInv PROVE PublishedIsWhatWasConfirmed
    OBVIOUS
  <2>1. DOMAIN agreed = 1 .. Len(agreed) /\ DOMAIN revisions = 1 .. Len(revisions)
    BY LenProperties DEF WizardInv, WizardTypes
  <2> QED BY <2>1 DEF WizardInv, AgreedInv, BookInv, PublishedIsWhatWasConfirmed
<1> QED BY <1>1, WizardInvHolds, PTL

-----------------------------------------------------------------------------
(* The workbook: what the parser proposes.                                  *)

(* Some numbers have a least one. *)
LEMMA LeastNumber ==
  ASSUME NEW S \in SUBSET Nat, S # {}
  PROVE  \E n \in S : \A m \in S : n <= m
<1> DEFINE Less == {pair \in Nat \X Nat : pair[1] < pair[2]}
<1>1. IsWellFoundedOn(Less, Nat)
  BY NatLessThanWellFounded DEF OpToRel
<1>2. PICK n \in S : \A m \in S : <<m, n>> \notin Less
  <2> HIDE DEF Less
  <2> QED BY <1>1, WFMin
<1>3. ASSUME NEW m \in S PROVE ~(m < n)
  BY <1>2
<1> QED BY <1>3

(* Numbers in their order: each of them once. *)
LEMMA InOrderFacts ==
  ASSUME NEW K \in SUBSET Nat, IsFiniteSet(K)
  PROVE  /\ Cardinality(K) \in Nat
         /\ DOMAIN InOrder(K) = 1 .. Cardinality(K)
         /\ \A n \in 1 .. Cardinality(K) : InOrder(K)[n] \in K
         /\ \A n, m \in 1 .. Cardinality(K) : InOrder(K)[n] = InOrder(K)[m] => n = m
<1> DEFINE c == Cardinality(K)
           Below(k) == {m \in K : m < k}
           rank == [k \in K |-> Cardinality(Below(k)) + 1]
<1>2. c \in Nat
  BY FS_CardinalityType
<1>3. \A k \in K : /\ IsFiniteSet(Below(k)) /\ Cardinality(Below(k)) \in Nat
                   /\ Cardinality(Below(k)) < c
  <2> TAKE k \in K
  <2>1. Below(k) \subseteq K /\ k \notin Below(k)
    OBVIOUS
  <2> QED BY <1>2, <2>1, FS_Subset, FS_CardinalityType
<1>4. rank \in [K -> 1 .. c]
  <2> HIDE DEF c, Below
  <2> QED BY <1>2, <1>3 DEF c
<1>5. ASSUME NEW k \in K, NEW m \in K, k < m PROVE rank[k] < rank[m]
  <2>1. Below(k) \subseteq Below(m) /\ k \in Below(m) /\ k \notin Below(k)
    <3>1. \A x \in K : x \in Nat
      OBVIOUS
    <3>2. \A x \in K : x < k => x < m
      BY <1>5, <3>1
    <3>3. ~(k < k)
      BY <3>1
    <3> QED BY <1>5, <3>2, <3>3
  <2>2. Cardinality(Below(k)) < Cardinality(Below(m))
    BY <1>3, <2>1, FS_Subset
  <2> HIDE DEF Below
  <2> QED BY <1>3, <2>2
<1>6. \A k, m \in K : rank[k] = rank[m] => k = m
  <2> SUFFICES ASSUME NEW k \in K, NEW m \in K, k # m PROVE rank[k] # rank[m]
    OBVIOUS
  <2>1. k < m \/ m < k
    OBVIOUS
  <2>2. rank[k] \in Nat /\ rank[m] \in Nat
    <3> HIDE DEF Below
    <3> QED BY <1>3
  <2> HIDE DEF rank
  <2> QED BY <1>5, <2>1, <2>2
<1> HIDE DEF rank
<1>7. \A n \in 1 .. c : \E k \in K : rank[k] = n
  <2>1. IsFiniteSet(1 .. c) /\ Cardinality(1 .. c) = c
    BY <1>2, FS_Interval
  <2>2. rank \in Injection(K, 1 .. c)
    BY <1>4, <1>6 DEF Injection, IsInjective
  <2>3. rank \in Surjection(K, 1 .. c)
    BY <2>1, <2>2, FS_Injection
  <2> QED BY <2>3 DEF Surjection
<1>8. \A n \in 1 .. c : \E k \in K : Cardinality(Below(k)) = n - 1
  <2> TAKE n \in 1 .. c
  <2>1. PICK k \in K : rank[k] = n
    BY <1>7
  <2>2. Cardinality(Below(k)) + 1 = n
    BY <2>1 DEF rank
  <2> HIDE DEF Below
  <2> QED BY <1>2, <1>3, <2>2
<1>9. \A n \in 1 .. c : /\ InOrder(K)[n] \in K
                        /\ Cardinality(Below(InOrder(K)[n])) = n - 1
  BY <1>8 DEF InOrder
<1>10. ASSUME NEW n \in 1 .. c, NEW m \in 1 .. c, InOrder(K)[n] = InOrder(K)[m]
       PROVE  n = m
  <2>1. n - 1 = m - 1
    BY <1>9, <1>10
  <2> HIDE DEF c
  <2> QED BY <1>2, <2>1
<1> QED BY <1>2, <1>9, <1>10 DEF InOrder

ItemCells(book, s) ==
  LET h == EncabezadoIdx(book[s]) IN
  IF h = 0 THEN {}
  ELSE {c \in DOMAIN book[s].rows[h] : book[s].rows[h][c].kind # "empty" /\ c <= MaxColumna}

(* The header of a sheet is one of its rows. *)
LEMMA HeaderIsRow ==
  ASSUME NEW sheet \in HojaLibro
  PROVE  EncabezadoIdx(sheet) = 0 \/ EncabezadoIdx(sheet) \in DOMAIN sheet.rows
<1> DEFINE filled(r) == Cardinality({c \in DOMAIN sheet.rows[r] : sheet.rows[r][c].kind # "empty"})
           single == \A r \in DOMAIN sheet.rows : filled(r) <= 1
           headers == {r \in DOMAIN sheet.rows : IF single THEN filled(r) = 1 ELSE filled(r) >= 2}
<1>1. EncabezadoIdx(sheet)
        = IF headers = {} THEN 0 ELSE CHOOSE r \in headers : \A q \in headers : r <= q
  BY DEF EncabezadoIdx
<1>2. headers \subseteq Nat
  BY LenProperties DEF HojaLibro
<1>3. headers # {} => \E r \in headers : \A q \in headers : r <= q
  <2> HIDE DEF headers
  <2> QED BY <1>2, LeastNumber
<1>4. headers \subseteq DOMAIN sheet.rows
  OBVIOUS
<1> HIDE DEF headers
<1> QED BY <1>1, <1>3, <1>4

(* The columns of a sheet are numbers, and finitely many. *)
LEMMA ItemCellsFinite ==
  ASSUME NEW book \in Seq(HojaLibro), NEW s \in DOMAIN book
  PROVE  IsFiniteSet(ItemCells(book, s)) /\ ItemCells(book, s) \in SUBSET Nat
<1> DEFINE sheet == book[s]
           h == EncabezadoIdx(sheet)
<1>1. sheet \in HojaLibro
  BY ElementOfSeq, LenProperties
<1>2. CASE h = 0
  BY <1>2, FS_EmptySet DEF ItemCells
<1>3. CASE h # 0
  <2>1. h \in DOMAIN sheet.rows /\ sheet.rows \in Seq(Seq(CeldaLibro))
    BY <1>1, <1>3, HeaderIsRow DEF HojaLibro
  <2>2. sheet.rows[h] \in Seq(CeldaLibro)
    <3> HIDE DEF h, sheet
    <3> QED BY <2>1, ElementOfSeq, LenProperties
  <2>3. Len(sheet.rows[h]) \in Nat /\ DOMAIN sheet.rows[h] = 1 .. Len(sheet.rows[h])
    BY <2>2, LenProperties
  <2>4. IsFiniteSet(DOMAIN sheet.rows[h])
    BY <2>3, FS_Interval
  <2>5. ItemCells(book, s) \subseteq DOMAIN sheet.rows[h]
    BY <1>3 DEF ItemCells
  <2> QED BY <2>3, <2>4, <2>5, FS_Subset
<1> QED BY <1>2, <1>3

(* A hint is a type, or the type is detected. *)
LEMMA DetectedIsType ==
  ASSUME NEW hint \in Type \cup {"none"}, NEW cells
  PROVE  DetectedType(hint, cells) \in Type
BY DEF DetectedType, Type, Select

HasFields(item) == {"id", "prompt", "type", "props"} \subseteq DOMAIN item /\ item.type \in Type

(* The items of a sheet: one per column, each with the place it comes from. *)
LEMMA SectionFacts ==
  ASSUME NEW book \in Seq(HojaLibro), NEW s \in DOMAIN book
  PROVE  LET section == ProposedSection(book, s) IN
         /\ \E S : section \in Seq(S)
         /\ Len(section) \in Nat /\ DOMAIN section = 1 .. Len(section)
         /\ \A k \in 1 .. Len(section) :
              /\ HasFields(section[k])
              /\ section[k].id[1] = s /\ section[k].id = <<s, section[k].id[2]>>
              /\ section[k].source = [sheet |-> book[s].name, column |-> section[k].id[2],
                                      row |-> EncabezadoIdx(book[s]) + 1]
         /\ \A k, m \in 1 .. Len(section) : section[k].id = section[m].id => k = m
<1> DEFINE columns == InOrder(ItemCells(book, s))
           n == Cardinality(ItemCells(book, s))
           section == ProposedSection(book, s)
<1>1. /\ n \in Nat /\ DOMAIN columns = 1 .. n
      /\ \A k \in 1 .. n : columns[k] \in ItemCells(book, s)
      /\ \A k, m \in 1 .. n : columns[k] = columns[m] => k = m
  BY ItemCellsFinite, InOrderFacts
<1>2. section = [k \in 1 .. n |-> ProposedItem(book, s, columns[k])]
  BY <1>1 DEF ProposedSection, ItemCells
<1>3. \A c : /\ ProposedItem(book, s, c).id = <<s, c>>
             /\ ProposedItem(book, s, c).source = [sheet |-> book[s].name, column |-> c,
                                                  row |-> EncabezadoIdx(book[s]) + 1]
  BY DEF ProposedItem
<1>4. ASSUME NEW c \in ItemCells(book, s) PROVE HasFields(ProposedItem(book, s, c))
  <2> DEFINE h == EncabezadoIdx(book[s])
             head == book[s].rows[h][c]
             cells == [r \in 1 .. Len(book[s].rows) - h |-> book[s].rows[h + r][c]]
  <2>1. book[s] \in HojaLibro
    BY ElementOfSeq, LenProperties
  <2>2. h # 0 /\ c \in DOMAIN book[s].rows[h]
    BY DEF ItemCells
  <2>3. h \in DOMAIN book[s].rows /\ book[s].rows \in Seq(Seq(CeldaLibro))
    BY <2>1, <2>2, HeaderIsRow DEF HojaLibro
  <2>4. book[s].rows[h] \in Seq(CeldaLibro)
    <3> HIDE DEF h
    <3> QED BY <2>3, ElementOfSeq, LenProperties
  <2>5. head \in CeldaLibro
    <3> HIDE DEF h
    <3> QED BY <2>2, <2>4, ElementOfSeq, LenProperties
  <2>6. head.hint \in Type \cup {"none"}
    <3> HIDE DEF h, head
    <3> QED BY <2>5 DEF CeldaLibro
  <2>7. DetectedType(head.hint, cells) \in Type
    <3> HIDE DEF cells, head
    <3> QED BY <2>6, DetectedIsType
  <2>8. ProposedItem(book, s, c).type = DetectedType(head.hint, cells)
    BY DEF ProposedItem
  <2> QED BY <2>7, <2>8 DEF HasFields, ProposedItem
<1> HIDE DEF columns, n, section
<1>5. section \in Seq({section[k] : k \in 1 .. n})
  BY <1>1, <1>2, SeqDef
<1>6. Len(section) = n
  BY <1>1, <1>2, <1>5, LenProperties
<1>7. \A k \in 1 .. n : section[k] = ProposedItem(book, s, columns[k])
  BY <1>2
<1>8. \A k \in 1 .. n : section[k].id = <<s, columns[k]>>
  BY <1>3, <1>7
<1>9. \A k \in 1 .. n : /\ HasFields(section[k])
                        /\ section[k].id[1] = s /\ section[k].id[2] = columns[k]
                        /\ section[k].id = <<s, section[k].id[2]>>
                        /\ section[k].source = [sheet |-> book[s].name, column |-> columns[k],
                                                row |-> EncabezadoIdx(book[s]) + 1]
  BY <1>1, <1>3, <1>4, <1>7, <1>8
<1>10. \A k, m \in 1 .. n : section[k].id = section[m].id => k = m
  BY <1>1, <1>8
<1>11. \E S : section \in Seq(S)
  BY <1>5
<1>12. \A k \in 1 .. n : section[k].id = <<s, section[k].id[2]>>
  BY <1>9
<1>13. Len(section) \in Nat /\ DOMAIN section = 1 .. Len(section)
  BY <1>1, <1>2, <1>6
<1>14. \A k \in 1 .. Len(section) :
         /\ HasFields(section[k])
         /\ section[k].id[1] = s /\ section[k].id = <<s, section[k].id[2]>>
  BY <1>6, <1>9, <1>12
<1>15. \A k \in 1 .. Len(section) :
         section[k].source = [sheet |-> book[s].name, column |-> section[k].id[2],
                              row |-> EncabezadoIdx(book[s]) + 1]
  BY <1>6, <1>9
<1>16. \A k, m \in 1 .. Len(section) : section[k].id = section[m].id => k = m
  BY <1>6, <1>10
<1> QED BY <1>11, <1>13, <1>14, <1>15, <1>16, Zenon DEF section

-----------------------------------------------------------------------------
(* The proposal and the definition, beside the workbook they are of.         *)

Shape(sections) ==
  /\ \E S : sections \in Seq(S)
  /\ \A s \in DOMAIN sections : \E S : sections[s] \in Seq(S)
  /\ \A s \in DOMAIN sections : \A i \in DOMAIN sections[s] : HasFields(sections[s][i])
  /\ \A s, t \in DOMAIN sections : \A i \in DOMAIN sections[s], j \in DOMAIN sections[t] :
       sections[s][i].id = sections[t][j].id => s = t /\ i = j

(* Where an item of a workbook comes from. *)
PlaceIn(book, id) ==
  [sheet |-> book[id[1]].name, column |-> id[2], row |-> EncabezadoIdx(book[id[1]]) + 1]

(* What the parser proposes of a workbook: items that differ, each from its place. *)
LEMMA BookFacts ==
  ASSUME NEW book \in Seq(HojaLibro)
  PROVE  LET sections == ProponerImport(book) IN
         /\ Shape(sections)
         /\ \A s \in DOMAIN sections : \A i \in DOMAIN sections[s] :
              /\ sections[s][i].source = PlaceIn(book, sections[s][i].id)
              /\ sections[s][i].id[1] \in DOMAIN book
              /\ sections[s][i].id = <<sections[s][i].id[1], sections[s][i].id[2]>>
<1> DEFINE K == {s \in DOMAIN book : ProposedSection(book, s) # << >>}
           sheets == InOrder(K)
           n == Cardinality(K)
           sections == ProponerImport(book)
<1>1. K \in SUBSET Nat /\ IsFiniteSet(K)
  <2>1. Len(book) \in Nat /\ DOMAIN book = 1 .. Len(book)
    BY LenProperties
  <2>2. IsFiniteSet(DOMAIN book) /\ K \subseteq DOMAIN book
    BY <2>1, FS_Interval
  <2> QED BY <2>1, <2>2, FS_Subset
<1>2. /\ n \in Nat /\ DOMAIN sheets = 1 .. n
      /\ \A k \in 1 .. n : sheets[k] \in K
      /\ \A k, m \in 1 .. n : sheets[k] = sheets[m] => k = m
  <2> HIDE DEF K
  <2> QED BY <1>1, InOrderFacts
<1>3. sections = [k \in 1 .. n |-> ProposedSection(book, sheets[k])]
  BY <1>2 DEF ProponerImport
<1>4. \A k \in 1 .. n : sheets[k] \in DOMAIN book
  BY <1>2
<1> HIDE DEF K, sheets, n, sections
<1>5. /\ DOMAIN sections = 1 .. n
      /\ \A k \in 1 .. n : sections[k] = ProposedSection(book, sheets[k])
      /\ sections \in Seq({sections[k] : k \in 1 .. n})
  BY <1>2, <1>3, SeqDef
<1>6. ASSUME NEW k \in 1 .. n
      PROVE  LET section == sections[k] IN
             /\ \E S : section \in Seq(S)
             /\ Len(section) \in Nat /\ DOMAIN section = 1 .. Len(section)
             /\ \A i \in 1 .. Len(section) :
                  /\ HasFields(section[i])
                  /\ section[i].id[1] = sheets[k]
                  /\ section[i].id = <<section[i].id[1], section[i].id[2]>>
                  /\ section[i].source = PlaceIn(book, section[i].id)
             /\ \A i, j \in 1 .. Len(section) : section[i].id = section[j].id => i = j
  <2> DEFINE s == sheets[k]
             section == sections[k]
  <2>1. s \in DOMAIN book /\ section = ProposedSection(book, s)
    BY <1>4, <1>5
  <2> HIDE DEF s, section
  <2>2. /\ \E S : section \in Seq(S)
        /\ Len(section) \in Nat /\ DOMAIN section = 1 .. Len(section)
        /\ \A i \in 1 .. Len(section) :
             /\ HasFields(section[i])
             /\ section[i].id[1] = s /\ section[i].id = <<s, section[i].id[2]>>
             /\ section[i].source = [sheet |-> book[s].name, column |-> section[i].id[2],
                                     row |-> EncabezadoIdx(book[s]) + 1]
        /\ \A i, j \in 1 .. Len(section) : section[i].id = section[j].id => i = j
    BY <2>1, SectionFacts
  <2>3. \A i \in 1 .. Len(section) : section[i].source = PlaceIn(book, section[i].id)
    BY <2>2 DEF PlaceIn
  <2> QED BY <2>2, <2>3 DEF s, section
<1>7. ASSUME NEW k \in 1 .. n, NEW m \in 1 .. n, NEW i \in DOMAIN sections[k],
             NEW j \in DOMAIN sections[m], sections[k][i].id = sections[m][j].id
      PROVE  k = m /\ i = j
  <2>1. sheets[k] = sections[k][i].id[1] /\ sheets[m] = sections[m][j].id[1]
    BY <1>6
  <2>2. k = m
    BY <1>2, <1>7, <2>1
  <2>3. sections[k][i].id = sections[k][j].id /\ j \in DOMAIN sections[k]
    BY <1>7, <2>2
  <2> QED BY <1>6, <2>2, <2>3
<1>8. Shape(sections)
  BY <1>5, <1>6, <1>7 DEF Shape
<1>9. ASSUME NEW s \in DOMAIN sections, NEW i \in DOMAIN sections[s]
      PROVE  /\ sections[s][i].source = PlaceIn(book, sections[s][i].id)
             /\ sections[s][i].id[1] \in DOMAIN book
             /\ sections[s][i].id = <<sections[s][i].id[1], sections[s][i].id[2]>>
  <2>1. s \in 1 .. n
    BY <1>5
  <2>2. i \in 1 .. Len(sections[s])
    BY <1>6, <2>1
  <2>3. /\ sections[s][i].source = PlaceIn(book, sections[s][i].id)
        /\ sections[s][i].id[1] = sheets[s]
        /\ sections[s][i].id = <<sections[s][i].id[1], sections[s][i].id[2]>>
    BY <1>6, <2>1, <2>2
  <2> QED BY <1>4, <2>1, <2>3
<1> QED BY <1>8, <1>9 DEF sections

FromBook(sections, workbook) ==
  LET book == ProponerImport(workbook) IN
  /\ Shape(sections)
  /\ Len(sections) = Len(book)
  /\ \A s \in DOMAIN book :
       /\ Len(sections[s]) <= Len(book[s])
       /\ Len(sections[s]) = Len(book[s]) =>
            \A i \in DOMAIN book[s] : sections[s][i].id = book[s][i].id

(* Where the counts agree, each item is written below its own header. *)
LEMMA PairedWithItsPlace ==
  ASSUME libro \in Seq(HojaLibro), FromBook(definition, libro),
         Emparejado(definition, ProponerImport(libro)), NEW item \in ItemsOf(definition)
  PROVE  /\ Destino(definition, ProponerImport(libro), item.id) = Home(item.id)
         /\ item.id[1] \in DOMAIN libro /\ item.id = <<item.id[1], item.id[2]>>
<1> DEFINE book == ProponerImport(libro)
           From(n) == \E i \in DOMAIN definition[n] : definition[n][i].id = item.id
           s == CHOOSE n \in DOMAIN definition : From(n)
           k == CHOOSE i \in DOMAIN definition[s] : definition[s][i].id = item.id
<1>1. \E n \in DOMAIN definition : From(n)
  BY DEF ItemsOf
<1>2. s \in DOMAIN definition /\ From(s)
  BY <1>1
<1>3. k \in DOMAIN definition[s] /\ definition[s][k].id = item.id
  BY <1>2
<1>4. Destino(definition, book, item.id) = book[s][k].source
  BY DEF Destino
<1>5. Shape(book)
      /\ \A t \in DOMAIN book : \A i \in DOMAIN book[t] :
           /\ book[t][i].source = PlaceIn(libro, book[t][i].id)
           /\ book[t][i].id[1] \in DOMAIN libro
           /\ book[t][i].id = <<book[t][i].id[1], book[t][i].id[2]>>
  BY BookFacts
<1> HIDE DEF book, s, k
<1>6. DOMAIN definition = DOMAIN book
  <2>1. Len(definition) = Len(book)
    BY DEF Emparejado, book
  <2>2. PICK S, T : definition \in Seq(S) /\ book \in Seq(T)
    BY <1>5 DEF FromBook, Shape
  <2> QED BY <2>1, <2>2, LenProperties
<1>7. Len(definition[s]) = Len(book[s])
  BY <1>2 DEF Emparejado, book
<1>8. DOMAIN definition[s] = DOMAIN book[s]
  <2>1. \E S : definition[s] \in Seq(S)
    BY <1>2 DEF FromBook, Shape
  <2>2. \E T : book[s] \in Seq(T)
    BY <1>2, <1>5, <1>6 DEF Shape
  <2>3. PICK S, T : definition[s] \in Seq(S) /\ book[s] \in Seq(T)
    BY <2>1, <2>2
  <2> QED BY <1>7, <2>3, LenProperties
<1>9. book[s][k].id = definition[s][k].id
  BY <1>2, <1>3, <1>6, <1>7, <1>8 DEF FromBook, book
<1>10. /\ book[s][k].source = PlaceIn(libro, item.id) /\ item.id[1] \in DOMAIN libro
       /\ item.id = <<item.id[1], item.id[2]>>
  BY <1>2, <1>3, <1>5, <1>6, <1>8, <1>9
<1> QED BY <1>4, <1>10 DEF PlaceIn, Home, book

-----------------------------------------------------------------------------
(* The wizard edits the proposal.                                           *)

Without(s, i) == SubSeq(s, 1, i - 1) \o SubSeq(s, i + 1, Len(s))

(* A sequence without one of its elements. *)
LEMMA WithoutOne ==
  ASSUME NEW S, NEW s \in Seq(S), NEW i \in DOMAIN s
  PROVE  /\ Without(s, i) \in Seq(S)
         /\ Len(s) \in Nat /\ Len(Without(s, i)) = Len(s) - 1
         /\ DOMAIN s = 1 .. Len(s) /\ DOMAIN Without(s, i) = 1 .. Len(s) - 1
         /\ \A j \in 1 .. Len(s) - 1 :
              Without(s, i)[j] = IF j < i THEN s[j] ELSE s[j + 1]
<1> DEFINE t == Without(s, i)
           a == SubSeq(s, 1, i - 1)
           b == SubSeq(s, i + 1, Len(s))
           n == Len(s)
<1>1. n \in Nat /\ DOMAIN s = 1 .. n /\ i \in 1 .. n
  BY LenProperties
<1>2. \A j \in 1 .. n : s[j] \in S
  BY ElementOfSeq
<1>3. a \in Seq(S) /\ Len(a) = i - 1 /\ \A j \in 1 .. i - 1 : a[j] = s[j]
  <2> HIDE DEF n
  <2>1. \A j \in 1 .. i - 1 : s[j] \in S
    BY <1>1, <1>2
  <2>2. 1 \in 1 .. n + 1 /\ i - 1 \in 0 .. n
    BY <1>1
  <2> QED BY <1>1, <2>1, <2>2, SubSeqProperties DEF n
<1>4. b \in Seq(S) /\ Len(b) = n - i /\ \A j \in 1 .. n - i : b[j] = s[i + j]
  <2> HIDE DEF n
  <2>1. \A j \in i + 1 .. n : s[j] \in S
    BY <1>1, <1>2
  <2> DEFINE p == i + 1
  <2>2. p \in Int /\ n \in Int /\ \A j \in p .. n : s[j] \in S
    BY <1>1, <2>1
  <2>3. b = SubSeq(s, p, n)
    BY DEF n
  <2> HIDE DEF b, p
  <2>4. b \in Seq(S) /\ Len(b) = (IF p <= n THEN n - p + 1 ELSE 0)
        /\ \A j \in 1 .. n - p + 1 : b[j] = s[p + j - 1]
    BY <2>2, <2>3, SubSeqProperties
  <2>5. b \in Seq(S) /\ Len(b) = (IF i + 1 <= n THEN n - (i + 1) + 1 ELSE 0)
        /\ \A j \in 1 .. n - (i + 1) + 1 : b[j] = s[i + 1 + j - 1]
    BY <2>4 DEF p
  <2>6. Len(b) = n - i
    BY <1>1, <2>5
  <2>7. ASSUME NEW j \in 1 .. n - i PROVE b[j] = s[i + j]
    <3>1. j \in 1 .. n - (i + 1) + 1 /\ i + 1 + j - 1 = i + j
      BY <1>1
    <3> HIDE DEF b
    <3>2. b[j] = s[i + 1 + j - 1]
      BY <2>5, <3>1
    <3> QED BY <3>1, <3>2
  <2> QED BY <2>5, <2>6, <2>7
<1> HIDE DEF a, b, n, t
<1>5. t = a \o b
  BY DEF a, b, n, t, Without
<1>6. /\ t \in Seq(S) /\ Len(t) = Len(a) + Len(b)
      /\ \A j \in 1 .. Len(a) + Len(b) : t[j] = IF j <= Len(a) THEN a[j] ELSE b[j - Len(a)]
  <2>1. a \in Seq(S) /\ b \in Seq(S)
    BY <1>3, <1>4
  <2>2. /\ a \o b \in Seq(S) /\ Len(a \o b) = Len(a) + Len(b)
        /\ \A j \in 1 .. Len(a) + Len(b) :
             (a \o b)[j] = IF j <= Len(a) THEN a[j] ELSE b[j - Len(a)]
    BY <2>1, ConcatProperties, Zenon
  <2> QED BY <1>5, <2>2
<1>7. Len(t) = n - 1 /\ DOMAIN t = 1 .. n - 1
  BY <1>1, <1>3, <1>4, <1>6, LenProperties
<1>8. ASSUME NEW j \in 1 .. n - 1 PROVE t[j] = IF j < i THEN s[j] ELSE s[j + 1]
  <2>1. CASE j < i
    <3>1. t[j] = a[j] /\ j \in 1 .. i - 1
      BY <1>1, <1>3, <1>4, <1>6, <2>1
    <3> QED BY <1>3, <2>1, <3>1
  <2>2. CASE ~(j < i)
    <3>1. ~(j <= Len(a)) /\ j \in 1 .. Len(a) + Len(b) /\ Len(a) = i - 1
      BY <1>1, <1>3, <1>4, <2>2
    <3> DEFINE m == j - (i - 1)
    <3>2. t[j] = b[j - Len(a)]
      BY <1>6, <3>1
    <3>3. m \in 1 .. n - i /\ i + m = j + 1 /\ j - Len(a) = m
      BY <1>1, <2>2, <3>1
    <3> HIDE DEF m
    <3>4. b[m] = s[i + m]
      BY <1>4, <3>3
    <3> QED BY <2>2, <3>2, <3>3, <3>4
  <2> QED BY <2>1, <2>2
<1> QED BY <1>1, <1>6, <1>7, <1>8 DEF n, t

(* What the wizard may leave of a section: items of its own, changed or not. *)
LeftOf(old, u) ==
  /\ \E S : u \in Seq(S)
  /\ Len(u) <= Len(old)
  /\ Len(u) = Len(old) => \A i \in DOMAIN u : u[i].id = old[i].id
  /\ \A i \in DOMAIN u : HasFields(u[i]) /\ \E k \in DOMAIN old : u[i].id = old[k].id
  /\ \A i, j \in DOMAIN u : u[i].id = u[j].id => i = j

(* One section is replaced by some of its own items. *)
LEMMA SectionReplaced ==
  ASSUME NEW sections, NEW workbook, FromBook(sections, workbook),
         workbook \in Seq(HojaLibro),
         NEW s \in DOMAIN sections, NEW u, LeftOf(sections[s], u)
  PROVE  FromBook([sections EXCEPT ![s] = u], workbook)
<1> DEFINE book == ProponerImport(workbook)
           new == [sections EXCEPT ![s] = u]
<1>1. /\ Shape(sections) /\ Len(sections) = Len(book)
      /\ \A t \in DOMAIN book :
           /\ Len(sections[t]) <= Len(book[t])
           /\ Len(sections[t]) = Len(book[t]) =>
                \A i \in DOMAIN book[t] : sections[t][i].id = book[t][i].id
  BY DEF FromBook
<1>2. Shape(book)
  BY BookFacts
<1> HIDE DEF book
<1>3. PICK S : sections \in Seq(S)
  BY <1>1 DEF Shape
<1>4. PICK T : book \in Seq(T)
  BY <1>2 DEF Shape
<1>5. DOMAIN sections = DOMAIN book /\ DOMAIN sections = 1 .. Len(sections)
  BY <1>1, <1>3, <1>4, LenProperties
<1>6. /\ new \in Seq(S \cup {u}) /\ Len(new) = Len(sections) /\ DOMAIN new = DOMAIN sections
      /\ new[s] = u /\ \A t \in DOMAIN sections \ {s} : new[t] = sections[t]
  <2>1. sections \in Seq(S \cup {u}) /\ u \in S \cup {u} /\ s \in 1 .. Len(sections)
    BY <1>3, <1>5, SeqDef, LenProperties, ElementOfSeq
  <2>2. new \in Seq(S \cup {u}) /\ Len(new) = Len(sections)
    BY <2>1, ExceptSeq
  <2> QED BY <1>5, <2>2
<1> HIDE DEF new
<1>7. ASSUME NEW t \in DOMAIN new PROVE \E R : new[t] \in Seq(R)
  <2>1. CASE t = s
    BY <1>6, <2>1 DEF LeftOf
  <2>2. CASE t # s
    <3>1. new[t] = sections[t] /\ t \in DOMAIN sections
      BY <1>6, <2>2
    <3> QED BY <1>1, <3>1 DEF Shape
  <2> QED BY <2>1, <2>2
<1>8. ASSUME NEW t \in DOMAIN new, NEW i \in DOMAIN new[t] PROVE HasFields(new[t][i])
  <2>1. CASE t = s
    BY <1>6, <2>1 DEF LeftOf
  <2>2. CASE t # s
    <3>1. new[t] = sections[t] /\ t \in DOMAIN sections
      BY <1>6, <2>2
    <3> QED BY <1>1, <3>1 DEF Shape
  <2> QED BY <2>1, <2>2
<1>9. \A t \in DOMAIN new : \A i \in DOMAIN new[t] :
        \E k \in DOMAIN sections[t] : new[t][i].id = sections[t][k].id
  <2> TAKE t \in DOMAIN new
  <2>1. CASE t = s
    BY <1>6, <2>1 DEF LeftOf
  <2>2. CASE t # s
    BY <1>6, <2>2
  <2> QED BY <2>1, <2>2
<1>10. ASSUME NEW t \in DOMAIN new, NEW r \in DOMAIN new, NEW i \in DOMAIN new[t],
             NEW j \in DOMAIN new[r], new[t][i].id = new[r][j].id
      PROVE  t = r /\ i = j
  <2>1. PICK k \in DOMAIN sections[t] : new[t][i].id = sections[t][k].id
    BY <1>9
  <2>2. PICK m \in DOMAIN sections[r] : new[r][j].id = sections[r][m].id
    BY <1>9
  <2>3. t = r
    <3>1. sections[t][k].id = sections[r][m].id /\ t \in DOMAIN sections /\ r \in DOMAIN sections
      BY <1>6, <1>10, <2>1, <2>2
    <3> QED BY <1>1, <2>1, <2>2, <3>1 DEF Shape
  <2>4. CASE t = s
    BY <1>6, <1>10, <2>3, <2>4 DEF LeftOf
  <2>5. CASE t # s
    BY <1>1, <1>6, <1>10, <2>3, <2>5 DEF Shape
  <2> QED BY <2>3, <2>4, <2>5
<1>11. Shape(new)
  BY <1>6, <1>7, <1>8, <1>10 DEF Shape
<1>12. ASSUME NEW t \in DOMAIN book
       PROVE  /\ Len(new[t]) <= Len(book[t])
              /\ Len(new[t]) = Len(book[t]) =>
                   \A i \in DOMAIN book[t] : new[t][i].id = book[t][i].id
  <2>1. CASE t # s
    BY <1>1, <1>5, <1>6, <2>1
  <2>2. CASE t = s
    <3>1. PICK P : sections[s] \in Seq(P)
      BY <1>1 DEF Shape
    <3>2. PICK Q : book[s] \in Seq(Q)
      BY <1>2, <1>5 DEF Shape
    <3>3. PICK R : u \in Seq(R)
      BY DEF LeftOf
    <3>4. /\ Len(sections[s]) \in Nat /\ Len(book[s]) \in Nat /\ Len(u) \in Nat
          /\ DOMAIN book[s] = 1 .. Len(book[s]) /\ DOMAIN u = 1 .. Len(u)
      BY <3>1, <3>2, <3>3, LenProperties
    <3>5. Len(sections[s]) <= Len(book[s])
      BY <1>1, <2>2
    <3>6. Len(u) <= Len(sections[s]) /\ Len(u) <= Len(book[s])
      BY <3>4, <3>5 DEF LeftOf
    <3>7. ASSUME Len(u) = Len(book[s]), NEW i \in DOMAIN book[s]
          PROVE  u[i].id = book[s][i].id
      <4>1. Len(sections[s]) = Len(book[s]) /\ Len(u) = Len(sections[s]) /\ i \in DOMAIN u
        BY <3>4, <3>5, <3>6, <3>7
      <4>2. u[i].id = sections[s][i].id
        BY <4>1 DEF LeftOf
      <4>3. sections[s][i].id = book[s][i].id
        BY <1>1, <2>2, <4>1
      <4> QED BY <4>2, <4>3
    <3> QED BY <1>6, <2>2, <3>6, <3>7
  <2> QED BY <2>1, <2>2
<1>13. Len(new) = Len(book)
  BY <1>1, <1>6
<1> QED BY <1>11, <1>12, <1>13 DEF FromBook, new, book

(* An item that is changed keeps its place. *)
LEMMA ItemReplaced ==
  ASSUME NEW sections, NEW workbook, FromBook(sections, workbook),
         workbook \in Seq(HojaLibro),
         NEW s \in DOMAIN sections, NEW i \in DOMAIN sections[s],
         NEW e, HasFields(e), e.id = sections[s][i].id
  PROVE  FromBook([sections EXCEPT ![s] = [sections[s] EXCEPT ![i] = e]], workbook)
<1> DEFINE old == sections[s]
           u == [old EXCEPT ![i] = e]
<1>1. Shape(sections)
  BY DEF FromBook
<1>2. PICK S : old \in Seq(S)
  BY <1>1 DEF Shape
<1>3. /\ \A j \in DOMAIN old : HasFields(old[j])
      /\ \A j, k \in DOMAIN old : old[j].id = old[k].id => j = k
  BY <1>1 DEF Shape
<1> HIDE DEF old
<1>4. /\ u \in Seq(S \cup {e}) /\ Len(u) = Len(old) /\ DOMAIN u = DOMAIN old
      /\ u[i] = e /\ \A j \in DOMAIN old \ {i} : u[j] = old[j]
  <2>1. /\ old \in Seq(S \cup {e}) /\ e \in S \cup {e} /\ i \in 1 .. Len(old)
    BY <1>2, SeqDef, LenProperties, ElementOfSeq DEF old
  <2>2. u \in Seq(S \cup {e}) /\ Len(u) = Len(old)
    BY <2>1, ExceptSeq
  <2> QED BY <2>2 DEF old
<1>5. Len(old) \in Nat
  BY <1>2, LenProperties
<1> HIDE DEF u
<1>6. \A j \in DOMAIN u : u[j].id = old[j].id /\ HasFields(u[j])
  BY <1>3, <1>4 DEF old
<1>7. LeftOf(old, u)
  BY <1>3, <1>4, <1>5, <1>6 DEF LeftOf
<1>8. LeftOf(sections[s], [sections[s] EXCEPT ![i] = e])
  BY <1>7 DEF old, u
<1> QED BY <1>8, SectionReplaced

(* An item that is removed leaves the section shorter than its sheet. *)
LEMMA ItemRemoved ==
  ASSUME NEW sections, NEW workbook, FromBook(sections, workbook),
         workbook \in Seq(HojaLibro),
         NEW s \in DOMAIN sections, NEW i \in DOMAIN sections[s]
  PROVE  FromBook([sections EXCEPT ![s] = Without(sections[s], i)], workbook)
<1> DEFINE old == sections[s]
           u == Without(old, i)
<1>1. Shape(sections)
  BY DEF FromBook
<1>2. PICK S : old \in Seq(S)
  BY <1>1 DEF Shape
<1>3. /\ \A j \in DOMAIN old : HasFields(old[j])
      /\ \A j, k \in DOMAIN old : old[j].id = old[k].id => j = k
  BY <1>1 DEF Shape
<1>4. /\ u \in Seq(S) /\ Len(old) \in Nat /\ Len(u) = Len(old) - 1
      /\ DOMAIN old = 1 .. Len(old) /\ DOMAIN u = 1 .. Len(old) - 1
      /\ \A j \in DOMAIN u : u[j] = IF j < i THEN old[j] ELSE old[j + 1]
  <2>1. i \in DOMAIN old
    OBVIOUS
  <2> HIDE DEF old
  <2>2. /\ Without(old, i) \in Seq(S)
        /\ Len(old) \in Nat /\ Len(Without(old, i)) = Len(old) - 1
        /\ DOMAIN old = 1 .. Len(old) /\ DOMAIN Without(old, i) = 1 .. Len(old) - 1
        /\ \A j \in 1 .. Len(old) - 1 :
             Without(old, i)[j] = IF j < i THEN old[j] ELSE old[j + 1]
    BY <1>2, <2>1, WithoutOne
  <2> QED BY <2>2
<1> DEFINE from(j) == IF j < i THEN j ELSE j + 1
<1>5. i \in DOMAIN old
  OBVIOUS
<1> HIDE DEF old, u
<1>6. ASSUME NEW j \in DOMAIN u PROVE from(j) \in DOMAIN old /\ u[j] = old[from(j)]
  <2>1. i \in 1 .. Len(old) /\ j \in 1 .. Len(old) - 1 /\ Len(old) \in Nat
    BY <1>4, <1>5
  <2>2. from(j) \in 1 .. Len(old)
    BY <2>1
  <2>3. u[j] = old[from(j)]
    BY <1>4
  <2> QED BY <1>4, <2>2, <2>3
<1>7. ASSUME NEW j \in DOMAIN u, NEW k \in DOMAIN u, from(j) = from(k) PROVE j = k
  <2>1. i \in 1 .. Len(old) /\ j \in 1 .. Len(old) - 1 /\ k \in 1 .. Len(old) - 1
       /\ Len(old) \in Nat
    BY <1>4, <1>5
  <2>2. i \in Int /\ j \in Int /\ k \in Int
    BY <2>1
  <2> QED BY <1>7, <2>2
<1> HIDE DEF from
<1>8. LeftOf(old, u)
  <2>1. Len(u) <= Len(old) /\ Len(u) # Len(old)
    BY <1>4
  <2>2. \A j \in DOMAIN u : HasFields(u[j]) /\ \E k \in DOMAIN old : u[j].id = old[k].id
    BY <1>3, <1>6
  <2>3. \A j, k \in DOMAIN u : u[j].id = u[k].id => j = k
    <3> TAKE j, k \in DOMAIN u
    <3> HAVE u[j].id = u[k].id
    <3>1. /\ from(j) \in DOMAIN old /\ u[j] = old[from(j)]
          /\ from(k) \in DOMAIN old /\ u[k] = old[from(k)]
      BY <1>6
    <3>2. from(j) = from(k)
      BY <1>3, <3>1
    <3> QED BY <1>7, <3>2
  <2> QED BY <1>4, <2>1, <2>2, <2>3 DEF LeftOf
<1>9. LeftOf(sections[s], Without(sections[s], i))
  BY <1>8 DEF old, u
<1> QED BY <1>9, SectionReplaced

(* What is published has the items of the proposal at their places. *)
LEMMA PublishedFromBook ==
  ASSUME NEW sections, NEW workbook, FromBook(sections, workbook),
         workbook \in Seq(HojaLibro)
  PROVE  FromBook(PropuestaADefinicion(sections), workbook)
<1> DEFINE new == PropuestaADefinicion(sections)
           Slim(item) == [f \in {"id", "prompt", "type", "props"} |-> item[f]]
<1>1. Shape(sections)
  BY DEF FromBook
<1>2. /\ DOMAIN new = DOMAIN sections
      /\ \A s \in DOMAIN sections : new[s] = [i \in DOMAIN sections[s] |-> Slim(sections[s][i])]
  BY DEF PropuestaADefinicion
<1>3. \A item : Slim(item).id = item.id /\ Slim(item).type = item.type
                /\ DOMAIN Slim(item) = {"id", "prompt", "type", "props"}
  OBVIOUS
<1>4. new = [s \in DOMAIN sections |-> new[s]]
  BY DEF PropuestaADefinicion
<1> HIDE DEF new, Slim
<1>5. PICK S : sections \in Seq(S)
  BY <1>1 DEF Shape
<1>6. Len(sections) \in Nat /\ DOMAIN sections = 1 .. Len(sections)
  BY <1>5, LenProperties
<1>7. new \in Seq({new[s] : s \in DOMAIN sections}) /\ Len(new) = Len(sections)
  <2>1. new \in [1 .. Len(sections) -> {new[s] : s \in DOMAIN sections}]
    BY <1>4, <1>6
  <2> QED BY <1>6, <2>1, SeqDef, LenProperties
<1>8. ASSUME NEW s \in DOMAIN sections
      PROVE  /\ \E R : new[s] \in Seq(R)
             /\ Len(new[s]) = Len(sections[s]) /\ DOMAIN new[s] = DOMAIN sections[s]
             /\ \A i \in DOMAIN sections[s] : /\ new[s][i].id = sections[s][i].id
                                              /\ HasFields(new[s][i])
  <2> DEFINE old == sections[s]
             R == {Slim(old[i]) : i \in DOMAIN old}
  <2>1. PICK P : old \in Seq(P)
    BY <1>1 DEF Shape
  <2>2. \A i \in DOMAIN old : HasFields(old[i])
    BY <1>1 DEF Shape
  <2>3. new[s] = [i \in DOMAIN old |-> Slim(old[i])]
    BY <1>2
  <2> HIDE DEF old
  <2>4. Len(old) \in Nat /\ DOMAIN old = 1 .. Len(old)
    BY <2>1, LenProperties
  <2>5. new[s] \in [1 .. Len(old) -> R]
    BY <2>3, <2>4
  <2>6. new[s] \in Seq(R) /\ Len(new[s]) = Len(old)
    <3> HIDE DEF R
    <3> QED BY <2>4, <2>5, SeqDef, LenProperties
  <2>7. \A i \in DOMAIN old : new[s][i] = Slim(old[i])
    BY <2>3
  <2>8. \A i \in DOMAIN old : new[s][i].id = old[i].id /\ HasFields(new[s][i])
    BY <1>3, <2>2, <2>7 DEF HasFields
  <2>9. DOMAIN new[s] = DOMAIN old
    BY <2>3
  <2>10. \E Q : new[s] \in Seq(Q)
    BY <2>6
  <2> QED BY <2>6, <2>8, <2>9, <2>10 DEF old
<1>9. \A s \in DOMAIN new : /\ \E R : new[s] \in Seq(R)
                            /\ \A i \in DOMAIN new[s] : HasFields(new[s][i])
  BY <1>2, <1>8
<1>10. ASSUME NEW s \in DOMAIN new, NEW t \in DOMAIN new, NEW i \in DOMAIN new[s],
              NEW j \in DOMAIN new[t], new[s][i].id = new[t][j].id
       PROVE  s = t /\ i = j
  <2>1. s \in DOMAIN sections /\ t \in DOMAIN sections
    BY <1>2
  <2>2. i \in DOMAIN sections[s] /\ j \in DOMAIN sections[t]
    BY <1>8, <2>1
  <2>3. sections[s][i].id = sections[t][j].id
    BY <1>8, <1>10, <2>1, <2>2
  <2> QED BY <1>1, <2>1, <2>2, <2>3 DEF Shape
<1>11. Shape(new)
  BY <1>7, <1>9, <1>10 DEF Shape
<1> DEFINE book == ProponerImport(workbook)
<1>12. /\ Len(sections) = Len(book)
       /\ \A s \in DOMAIN book :
            /\ Len(sections[s]) <= Len(book[s])
            /\ Len(sections[s]) = Len(book[s]) =>
                 \A i \in DOMAIN book[s] : sections[s][i].id = book[s][i].id
  BY DEF FromBook
<1>13. Shape(book)
  BY BookFacts
<1> HIDE DEF book
<1>14. DOMAIN book = DOMAIN sections
  <2>1. PICK T : book \in Seq(T)
    BY <1>13 DEF Shape
  <2> QED BY <1>6, <1>12, <2>1, LenProperties
<1>15. ASSUME NEW s \in DOMAIN book
       PROVE  /\ Len(new[s]) <= Len(book[s])
              /\ Len(new[s]) = Len(book[s]) =>
                   \A i \in DOMAIN book[s] : new[s][i].id = book[s][i].id
  <2>1. s \in DOMAIN sections
    BY <1>14
  <2>2. Len(new[s]) = Len(sections[s]) /\ DOMAIN new[s] = DOMAIN sections[s]
    BY <1>8, <2>1
  <2>3. ASSUME Len(new[s]) = Len(book[s]), NEW i \in DOMAIN book[s]
        PROVE  new[s][i].id = book[s][i].id
    <3>1. PICK P, T : sections[s] \in Seq(P) /\ book[s] \in Seq(T)
      BY <1>1, <1>13, <2>1 DEF Shape
    <3>2. DOMAIN book[s] = DOMAIN sections[s]
      BY <2>2, <2>3, <3>1, LenProperties
    <3> QED BY <1>8, <1>12, <2>1, <2>2, <2>3, <3>2
  <2> QED BY <1>12, <2>2, <2>3
<1> QED BY <1>7, <1>11, <1>12, <1>15 DEF FromBook, new, book

(* What the parser proposes is of its workbook. *)
LEMMA ProposedFromBook ==
  ASSUME NEW workbook \in Seq(HojaLibro)
  PROVE  FromBook(ProponerImport(workbook), workbook)
<1> DEFINE book == ProponerImport(workbook)
<1>1. Shape(book)
  BY BookFacts
<1> HIDE DEF book
<1>2. \A s \in DOMAIN book : Len(book[s]) \in Nat
  BY <1>1, LenProperties DEF Shape
<1>3. \A s \in DOMAIN book : Len(book[s]) <= Len(book[s])
  BY <1>2
<1> QED BY <1>1, <1>3 DEF FromBook, book

-----------------------------------------------------------------------------
(* Values, through their columns and back.                                   *)

(* What a control gives and is not empty, or nothing. *)
Good(item, v) == v = NoValue \/ (v \in Typed(item) /\ ~Vacio(v))

(* Values of different forms differ. *)
LEMMA Forms ==
  /\ NoValue.form = "none" /\ Blank.form = "blank"
  /\ \A form, text : OfText(form, text).form = form
  /\ \A form, n : OfNumber(form, n).form = form /\ OfNumber(form, n).number = n
  /\ \A S : OfList(S).form = "list"
<1> DEFINE blank == ""
<1>1. /\ NoValue = Value("none", blank, 0, {}) /\ Blank = Value("blank", blank, 0, {})
      /\ \A form, n : OfNumber(form, n) = Value(form, blank, n, {})
      /\ \A S : OfList(S) = Value("list", blank, 0, S)
      /\ \A form, text : OfText(form, text) = Value(form, text, 0, {})
  BY DEF NoValue, Blank, OfText, OfNumber, OfList
<1> HIDE DEF blank
<1>2. \A form, text, n, S : /\ Value(form, text, n, S).form = form
                            /\ Value(form, text, n, S).number = n
  BY DEF Value
<1> QED BY <1>1, <1>2

(* A value is the same when it comes back from its columns. *)
LEMMA RoundTrip ==
  ASSUME NEW item, item.type \in Type, NEW v, Good(item, v)
  PROVE  /\ CampoDesdeColumnas(item, ColumnasDesdeValor(item, v)) = v
         /\ CampoDesdeColumnas(item, Fetched(ColumnasDesdeValor(item, v))) = v
         /\ v # NoValue => Contestado(v) /\ Serializable(item, v)
<1>1. v = NoValue \/ (v \in Typed(item) /\ ~Vacio(v))
  BY DEF Good
<1> USE DEF CampoDesdeColumnas, ColumnasDesdeValor, Fetched, Contestado, Serializable
<1>2. CASE v = NoValue
  BY <1>2, Forms DEF Type, Textual
<1>3. CASE v # NoValue
  <2>1. v \in Typed(item) /\ v.form # "blank" /\ v # OfList({})
    BY <1>1, <1>3 DEF Vacio
  <2>2. CASE item.type = "ok_nok_na"
    <3>1. v.form = "mark"
      BY <2>1, <2>2, Forms DEF Typed
    <3> QED BY <1>3, <2>1, <2>2, <3>1
  <2>3. CASE item.type = "text"
    <3>1. v.form = "plain"
      BY <2>1, <2>3, Forms DEF Typed
    <3> QED BY <1>3, <2>1, <2>3, <3>1 DEF Textual
  <2>4. CASE item.type = "numeric"
    <3>1. PICK n \in Numero : v = OfNumber("number", n)
      BY <2>1, <2>4, Forms DEF Typed
    <3> QED BY <1>3, <2>1, <2>4, <3>1, Forms
  <2>5. CASE item.type = "date"
    <3>1. v.form = "date"
      BY <2>1, <2>5, Forms DEF Typed
    <3> QED BY <1>3, <2>1, <2>5, <3>1, Forms DEF Textual
  <2>6. CASE item.type = "time"
    <3>1. v.form = "time"
      BY <2>1, <2>6, Forms DEF Typed
    <3> QED BY <1>3, <2>1, <2>6, <3>1, Forms DEF Textual
  <2>7. CASE item.type = "select_single"
    <3>1. v.form = "plain"
      BY <2>1, <2>7, Forms DEF Typed
    <3> QED BY <1>3, <2>1, <2>7, <3>1, Forms DEF Textual
  <2>8. CASE item.type = "select_multiple"
    <3>1. v.form = "list"
      BY <2>1, <2>8, Forms DEF Typed
    <3> QED BY <1>3, <2>1, <2>8, <3>1, Forms
  <2>9. CASE item.type = "photo"
    <3>1. v = Marker /\ v.form = "photo"
      BY <1>3, <2>1, <2>9, Forms DEF Typed, Marker
    <3> QED BY <1>3, <2>1, <2>9, <3>1, Forms DEF Textual
  <2> QED BY <2>2, <2>3, <2>4, <2>5, <2>6, <2>7, <2>8, <2>9 DEF Type
<1> QED BY <1>2, <1>3

(* Nothing is kept as empty columns. *)
LEMMA NothingKept ==
  ASSUME NEW item
  PROVE  ColumnasDesdeValor(item, NoValue) = NoColumns
BY Forms DEF ColumnasDesdeValor, NoColumns, Textual

-----------------------------------------------------------------------------
(* The inductive invariant.                                                  *)

AnswersInv ==
  /\ campo = [id \in DOMAIN campo |-> campo[id]]
  /\ DOMAIN draft = DOMAIN campo
  /\ DOMAIN campo \subseteq {item.id : item \in ItemsOf(definition)}
  /\ \A item \in ItemsOf(definition) : item.id \in DOMAIN campo =>
       /\ Good(item, campo[item.id])
       /\ draft[item.id] = ColumnasDesdeValor(item, campo[item.id])
       /\ item.type = "photo" /\ campo[item.id] # NoValue => item.id \in DOMAIN photoOf

StageInv ==
  /\ stage \in {"none", "review", "capture", "sent"}
  /\ stage # "none" => libro \in Seq(HojaLibro) /\ FromBook(proposal, libro)
  /\ stage \in {"capture", "sent"} => FromBook(definition, libro)
  /\ stage \in {"none", "review"} =>
       definition = << >> /\ campo = << >> /\ draft = << >> /\ document = NoneAsked
  /\ stage = "sent" => stored = draft

DocumentInv ==
  /\ document = [side \in {"device", "server"} |-> document[side]]
  /\ \A side \in {"device", "server"} : document[side] \in {NotAsked, Rellenar(campo)}

WorkbookInv == AnswersInv /\ StageInv /\ DocumentInv

(* The items of a definition have a type and differ in their ids. *)
LEMMA DefinitionItems ==
  ASSUME StageInv
  PROVE  /\ \A item \in ItemsOf(definition) : item.type \in Type
         /\ \A i, j \in ItemsOf(definition) : i.id = j.id => i = j
<1>1. CASE stage \in {"none", "review"}
  <2>1. ItemsOf(definition) = {}
    BY <1>1 DEF StageInv, ItemsOf
  <2> QED BY <2>1
<1>2. CASE stage \in {"capture", "sent"}
  <2>1. Shape(definition)
    BY <1>2 DEF StageInv, FromBook
  <2>2. ASSUME NEW item \in ItemsOf(definition) PROVE item.type \in Type
    BY <2>1 DEF Shape, ItemsOf, HasFields
  <2>3. ASSUME NEW i \in ItemsOf(definition), NEW j \in ItemsOf(definition), i.id = j.id
        PROVE  i = j
    <3>1. PICK s \in DOMAIN definition : \E k \in DOMAIN definition[s] : i = definition[s][k]
      BY DEF ItemsOf
    <3>2. PICK k \in DOMAIN definition[s] : i = definition[s][k]
      BY <3>1
    <3>3. PICK t \in DOMAIN definition : \E m \in DOMAIN definition[t] : j = definition[t][m]
      BY DEF ItemsOf
    <3>4. PICK m \in DOMAIN definition[t] : j = definition[t][m]
      BY <3>3
    <3>5. s = t /\ k = m
      BY <2>1, <2>3, <3>2, <3>4 DEF Shape
    <3> QED BY <3>2, <3>4, <3>5
  <2> QED BY <2>2, <2>3
<1> QED BY <1>1, <1>2 DEF StageInv

(* What is read back from the columns of the answers is the answers. *)
LEMMA ReadBack ==
  ASSUME AnswersInv, StageInv
  PROVE  /\ [id \in DOMAIN draft |->
               CampoDesdeColumnas(CHOOSE i \in ItemsOf(definition) : i.id = id, draft[id])]
              = campo
         /\ [id \in DOMAIN draft |->
               CampoDesdeColumnas(CHOOSE i \in ItemsOf(definition) : i.id = id,
                                  Fetched(draft[id]))]
              = campo
<1> DEFINE Of(id) == CHOOSE i \in ItemsOf(definition) : i.id = id
<1>1. ASSUME NEW id \in DOMAIN draft
      PROVE  /\ CampoDesdeColumnas(Of(id), draft[id]) = campo[id]
             /\ CampoDesdeColumnas(Of(id), Fetched(draft[id])) = campo[id]
  <2>1. id \in DOMAIN campo /\ \E i \in ItemsOf(definition) : i.id = id
    BY DEF AnswersInv
  <2>2. Of(id) \in ItemsOf(definition) /\ Of(id).id = id
    BY <2>1
  <2> HIDE DEF Of
  <2>3. Of(id).type \in Type
    BY <2>2, DefinitionItems
  <2>4. /\ Good(Of(id), campo[id])
        /\ draft[id] = ColumnasDesdeValor(Of(id), campo[id])
    BY <2>1, <2>2 DEF AnswersInv
  <2> QED BY <2>3, <2>4, RoundTrip
<1> HIDE DEF Of
<1>2. /\ [id \in DOMAIN draft |-> CampoDesdeColumnas(Of(id), draft[id])] = campo
      /\ [id \in DOMAIN draft |-> CampoDesdeColumnas(Of(id), Fetched(draft[id]))] = campo
  <2>1. campo = [id \in DOMAIN draft |-> campo[id]]
    BY DEF AnswersInv
  <2> QED BY <1>1, <2>1
<1> QED BY <1>2 DEF Of

(* A document is of the answers, the definition, the photos and the workbook. *)
LEMMA DocumentStays ==
  ASSUME UNCHANGED <<campo, definition, photoOf, libro>>
  PROVE  Rellenar(campo)' = Rellenar(campo)
BY DEF Rellenar, Rellenables, Omitidas, Evidencias

Answered == {i \in ItemsOf(definition) : i.id \in DOMAIN campo /\ Contestado(campo[i.id])}

(* What a document is made of: the answers that can be written. *)
LEMMA WrittenAreAnswered ==
  ASSUME AnswersInv, StageInv
  PROVE  /\ Rellenables(campo) \subseteq Answered
         /\ \A item \in Answered : /\ campo[item.id] = Campo(campo, item)
                                   /\ item \in Rellenables(campo) \/ Lost(item)
<1>1. \A item \in ItemsOf(definition) : Contestado(Campo(campo, item)) => item \in Answered
  BY DEF Answered, Campo, Contestado
<1>2. ASSUME NEW item \in Answered
      PROVE  /\ campo[item.id] = Campo(campo, item)
             /\ item \in Rellenables(campo) \/ Lost(item)
  <2> DEFINE v == campo[item.id]
  <2>1. item \in ItemsOf(definition) /\ item.id \in DOMAIN campo /\ Contestado(v)
    BY DEF Answered
  <2>2. v = Campo(campo, item)
    BY <2>1 DEF Campo
  <2>3. Good(item, v) /\ item.type \in Type /\ v # NoValue
    BY <2>1, DefinitionItems DEF AnswersInv, Contestado
  <2> HIDE DEF v
  <2>4. Serializable(item, v)
    BY <2>3, RoundTrip
  <2>5. CASE v = OfNumber("number", 0)
    BY <2>2, <2>5 DEF Lost, v
  <2>6. CASE v # OfNumber("number", 0)
    <3>1. ~Falsy(Campo(campo, item))
      BY <2>2, <2>3, <2>6 DEF Falsy
    <3>2. Contestado(Campo(campo, item)) /\ Serializable(item, Campo(campo, item))
      BY <2>1, <2>2, <2>4 DEF v
    <3> QED BY <2>1, <2>2, <3>1, <3>2 DEF Rellenables, v
  <2> QED BY <2>2, <2>5, <2>6 DEF v
<1> QED BY <1>1, <1>2 DEF Rellenables

(* A document that is made of the answers carries them. *)
LEMMA DocumentIsRight ==
  ASSUME AnswersInv, libro \in Seq(HojaLibro), FromBook(definition, libro), StageInv,
         Rellenar(campo).result = "ok"
  PROVE  /\ \A item \in Answered :
              \/ /\ Home(item.id) \in DOMAIN Rellenar(campo).cells
                 /\ Rellenar(campo).cells[Home(item.id)] = campo[item.id]
              \/ Lost(item)
         /\ DOMAIN Rellenar(campo).cells \subseteq {Home(item.id) : item \in Answered}
         /\ {i.id : i \in {j \in Answered : j.type = "photo"}}
              = {e.item : e \in Rellenar(campo).evidence}
<1> DEFINE book == ProponerImport(libro)
           written == Rellenables(campo)
           cellOf(item) == Destino(definition, book, item.id)
           sheets == {libro[s].name : s \in {t \in DOMAIN libro : ~libro[t].padded}}
           cells == {c \in {cellOf(item) : item \in written} : c.sheet # "Evidencias"}
           writtenTo(c) == CHOOSE item \in written :
                        /\ cellOf(item) = c
                        /\ \A other \in written : cellOf(other) = c => other.id[1] <= item.id[1]
           refused == \/ ~Emparejado(definition, book)
                      \/ \E item \in written : cellOf(item).sheet \notin sheets
           content == [c \in cells |-> Campo(campo, writtenTo(c))]
<1>1. Rellenar(campo) = IF refused THEN Refused
                        ELSE [result |-> "ok", cells |-> content,
                              evidence |-> Evidencias(campo), omitted |-> Omitidas(campo)]
  BY DEF Rellenar
<1>2. Refused.result # "ok"
  BY DEF Refused, NotAsked
<1> HIDE DEF refused, content
<1>3. ~refused /\ Rellenar(campo).cells = content /\ Rellenar(campo).evidence = Evidencias(campo)
  BY <1>1, <1>2
<1>4. Emparejado(definition, book)
  BY <1>3 DEF refused
<1>5. /\ written \subseteq ItemsOf(definition)
      /\ \A item \in ItemsOf(definition) : /\ cellOf(item) = Home(item.id)
                                           /\ item.id[1] \in DOMAIN libro
                                           /\ item.id = <<item.id[1], item.id[2]>>
  <2>1. written \subseteq ItemsOf(definition)
    BY DEF Rellenables
  <2> QED BY <2>1, <1>4, PairedWithItsPlace
<1>6. /\ written \subseteq Answered
      /\ \A item \in Answered : /\ item \in ItemsOf(definition)
                                /\ campo[item.id] = Campo(campo, item)
                                /\ item \in written \/ Lost(item)
  BY WrittenAreAnswered DEF Answered
<1>7. DOMAIN content = cells /\ \A c \in cells : content[c] = Campo(campo, writtenTo(c))
  BY DEF content
<1> HIDE DEF written, cellOf, book, sheets
<1>8. ASSUME NEW item \in Answered
      PROVE  \/ Home(item.id) \in cells /\ content[Home(item.id)] = campo[item.id]
             \/ Lost(item)
  <2> SUFFICES ASSUME ~Lost(item)
               PROVE  Home(item.id) \in cells /\ content[Home(item.id)] = campo[item.id]
    OBVIOUS
  <2> DEFINE c == Home(item.id)
             s == item.id[1]
  <2>1. item \in written /\ item \in ItemsOf(definition) /\ cellOf(item) = c
    BY <1>5, <1>6
  <2>2. /\ libro[s].name # "Evidencias"
        /\ \A t \in DOMAIN libro \ {s} : libro[t].name # libro[s].name
    BY DEF Lost
  <2>3. c.sheet = libro[s].name /\ c.column = item.id[2]
    BY DEF Home
  <2>4. c \in cells
    BY <2>1, <2>2, <2>3
  <2>5. ASSUME NEW other \in written, cellOf(other) = c PROVE other = item
    <3>1. /\ other \in ItemsOf(definition) /\ c = Home(other.id)
          /\ other.id[1] \in DOMAIN libro /\ other.id = <<other.id[1], other.id[2]>>
          /\ item.id = <<item.id[1], item.id[2]>>
      BY <1>5, <2>1, <2>5
    <3>2. c.sheet = libro[other.id[1]].name /\ c.column = other.id[2]
      BY <3>1 DEF Home
    <3>3. other.id[1] = item.id[1] /\ other.id[2] = item.id[2]
      BY <2>2, <2>3, <3>1, <3>2
    <3>4. other.id = item.id
      BY <3>1, <3>3
    <3> QED BY <2>1, <3>1, <3>4, DefinitionItems
  <2>6. item.id[1] <= item.id[1]
    <3>1. item.id[1] \in Nat
      BY <1>5, <2>1, LenProperties
    <3> QED BY <3>1
  <2> HIDE DEF c
  <2>7. writtenTo(c) = item
    <3>1. \A other \in written : cellOf(other) = c => other.id[1] <= item.id[1]
      BY <2>5, <2>6
    <3>2. cellOf(writtenTo(c)) = c /\ writtenTo(c) \in written
      BY <2>1, <3>1
    <3> QED BY <2>5, <3>2
  <2> HIDE DEF writtenTo, cells
  <2> QED BY <1>6, <1>7, <2>4, <2>7 DEF c
<1>9. cells \subseteq {Home(item.id) : item \in Answered}
  BY <1>5, <1>6
<1>10. {i.id : i \in {j \in Answered : j.type = "photo"}} = {e.item : e \in Evidencias(campo)}
  <2> DEFINE photos == {j \in Answered : j.type = "photo"}
             kept == {j \in ItemsOf(definition) : /\ j.type = "photo" /\ Contestado(Campo(campo, j))
                                                  /\ j.id \in DOMAIN photoOf}
  <2>1. photos = kept
    <3>1. ASSUME NEW j \in photos PROVE j \in kept
      <4>1. j \in ItemsOf(definition) /\ j.id \in DOMAIN campo /\ Contestado(campo[j.id])
        BY DEF Answered
      <4>2. campo[j.id] # NoValue /\ Campo(campo, j) = campo[j.id]
        BY <4>1 DEF Contestado, Campo
      <4>3. j.id \in DOMAIN photoOf
        BY <4>1, <4>2 DEF AnswersInv
      <4> QED BY <4>1, <4>2, <4>3
    <3>2. ASSUME NEW j \in kept PROVE j \in photos
      BY DEF Answered, Campo, Contestado
    <3> QED BY <3>1, <3>2
  <2>2. Evidencias(campo) = {[item |-> i.id, embedded |-> photoOf[i.id]] : i \in kept}
    BY DEF Evidencias
  <2> HIDE DEF photos, kept
  <2>3. {e.item : e \in Evidencias(campo)} = {i.id : i \in kept}
    <3> DEFINE of(i) == [item |-> i.id, embedded |-> photoOf[i.id]]
    <3>1. \A i : of(i).item = i.id
      OBVIOUS
    <3>2. Evidencias(campo) = {of(i) : i \in kept}
      BY <2>2
    <3> HIDE DEF of
    <3> QED BY <3>1, <3>2
  <2> QED BY <2>1, <2>3 DEF photos
<1> HIDE DEF cells, writtenTo
<1> QED BY <1>3, <1>7, <1>8, <1>9, <1>10

(* The invariant says what the property says. *)
LEMMA WorkbookInvIsRight ==
  ASSUME WorkbookInv
  PROVE  DocumentCarriesTheAnswers
<1> DEFINE asked == {side \in DOMAIN document : document[side] # NotAsked}
<1>1. DOMAIN document = {"device", "server"}
  BY DEF WorkbookInv, DocumentInv
<1>2. \A side \in asked : document[side] = Rellenar(campo)
  BY <1>1 DEF WorkbookInv, DocumentInv
<1>3. CASE stage \in {"none", "review"}
  <2>1. document = NoneAsked
    BY <1>3 DEF WorkbookInv, StageInv
  <2>2. asked = {}
    BY <1>1, <2>1 DEF NoneAsked
  <2>3. asked # {"device", "server"}
    <3>1. "device" \in {"device", "server"}
      OBVIOUS
    <3>2. "device" \notin asked
      BY <2>2
    <3> HIDE DEF asked
    <3> QED BY <3>1, <3>2
  <2> QED BY <2>2, <2>3 DEF DocumentCarriesTheAnswers
<1>4. CASE stage \in {"capture", "sent"}
  <2>1. libro \in Seq(HojaLibro) /\ FromBook(definition, libro)
    BY <1>4 DEF WorkbookInv, StageInv
  <2>2. ASSUME NEW side \in asked, document[side].result = "ok"
        PROVE  /\ \A item \in Answered :
                    \/ /\ Home(item.id) \in DOMAIN document[side].cells
                       /\ document[side].cells[Home(item.id)] = campo[item.id]
                    \/ Lost(item)
               /\ DOMAIN document[side].cells \subseteq {Home(item.id) : item \in Answered}
               /\ {i.id : i \in {j \in Answered : j.type = "photo"}}
                    = {e.item : e \in document[side].evidence}
    <3>1. document[side] = Rellenar(campo)
      BY <1>2
    <3> QED BY <2>1, <2>2, <3>1, DocumentIsRight DEF WorkbookInv
  <2>3. asked = {"device", "server"} => document["device"] = document["server"]
    BY <1>2
  <2> QED BY <2>2, <2>3 DEF DocumentCarriesTheAnswers, Answered
<1> QED BY <1>3, <1>4 DEF WorkbookInv, StageInv

(* An answer, or its removal, is kept in its columns. *)
LEMMA ResponderKeeps ==
  ASSUME WorkbookInv, NEW item \in ItemsOf(definition), NEW typed \in Typed(item),
         Responder(item, typed)
  PROVE  AnswersInv'
<1> DEFINE v == IF Vacio(typed) THEN NoValue ELSE typed
           id == item.id
<1>1. Good(item, v) /\ Good(item, NoValue)
  BY DEF Good
<1>2. ColumnasDesdeValor(item, NoValue) = NoColumns
  BY NothingKept
<1>3. /\ definition' = definition
      /\ \/ /\ item.type # "photo" /\ campo' = Put(campo, id, v)
            /\ draft' = Put(draft, id, ColumnasDesdeValor(item, v)) /\ photoOf' = photoOf
         \/ /\ campo' = Put(campo, id, v)
            /\ draft' = Put(draft, id, ColumnasDesdeValor(item, v))
            /\ \E small \in BOOLEAN : photoOf' = Put(photoOf, id, small)
         \/ /\ campo' = Put(campo, id, NoValue) /\ draft' = Put(draft, id, NoColumns)
            /\ photoOf' = Drop(photoOf, id)
  BY DEF Responder
<1> HIDE DEF v
<1>4. PICK w : /\ Good(item, w)
               /\ campo' = Put(campo, id, w)
               /\ draft' = Put(draft, id, ColumnasDesdeValor(item, w))
               /\ item.type = "photo" /\ w # NoValue => id \in DOMAIN photoOf'
               /\ DOMAIN photoOf \ {id} \subseteq DOMAIN photoOf'
  <2>1. CASE item.type # "photo" /\ campo' = Put(campo, id, v)
             /\ draft' = Put(draft, id, ColumnasDesdeValor(item, v)) /\ photoOf' = photoOf
    BY <1>1, <2>1
  <2>2. CASE /\ campo' = Put(campo, id, v)
             /\ draft' = Put(draft, id, ColumnasDesdeValor(item, v))
             /\ \E small \in BOOLEAN : photoOf' = Put(photoOf, id, small)
    <3>1. DOMAIN photoOf' = DOMAIN photoOf \cup {id}
      BY <2>2 DEF Put
    <3> QED BY <1>1, <2>2, <3>1
  <2>3. CASE /\ campo' = Put(campo, id, NoValue) /\ draft' = Put(draft, id, NoColumns)
             /\ photoOf' = Drop(photoOf, id)
    <3>1. DOMAIN photoOf' = DOMAIN photoOf \ {id}
      BY <2>3 DEF Drop
    <3> QED BY <1>1, <1>2, <2>3, <3>1
  <2> QED BY <1>3, <2>1, <2>2, <2>3
<1>5. /\ DOMAIN campo' = DOMAIN campo \cup {id} /\ DOMAIN draft' = DOMAIN draft \cup {id}
      /\ campo'[id] = w /\ draft'[id] = ColumnasDesdeValor(item, w)
      /\ \A k \in DOMAIN campo \ {id} : campo'[k] = campo[k]
      /\ \A k \in DOMAIN draft \ {id} : draft'[k] = draft[k]
      /\ campo' = [k \in DOMAIN campo' |-> campo'[k]]
  BY <1>4 DEF Put
<1>6. /\ DOMAIN draft = DOMAIN campo
      /\ DOMAIN campo \subseteq {i.id : i \in ItemsOf(definition)}
      /\ \A i \in ItemsOf(definition) : i.id \in DOMAIN campo =>
           /\ Good(i, campo[i.id])
           /\ draft[i.id] = ColumnasDesdeValor(i, campo[i.id])
           /\ i.type = "photo" /\ campo[i.id] # NoValue => i.id \in DOMAIN photoOf
  BY DEF WorkbookInv, AnswersInv
<1>7. \A i \in ItemsOf(definition) : i.id = id => i = item
  BY DefinitionItems DEF WorkbookInv
<1>8. ASSUME NEW i \in ItemsOf(definition), i.id \in DOMAIN campo'
      PROVE  /\ Good(i, campo'[i.id])
             /\ draft'[i.id] = ColumnasDesdeValor(i, campo'[i.id])
             /\ i.type = "photo" /\ campo'[i.id] # NoValue => i.id \in DOMAIN photoOf'
  <2>1. CASE i.id = id
    <3>1. i = item
      BY <1>7, <2>1
    <3> QED BY <1>4, <1>5, <3>1
  <2>2. CASE i.id # id
    <3>1. i.id \in DOMAIN campo /\ campo'[i.id] = campo[i.id] /\ draft'[i.id] = draft[i.id]
      BY <1>5, <1>6, <1>8, <2>2
    <3> QED BY <1>4, <1>6, <2>2, <3>1
  <2> QED BY <2>1, <2>2
<1>9. DOMAIN draft' = DOMAIN campo' /\ DOMAIN campo' \subseteq {i.id : i \in ItemsOf(definition)}
  BY <1>5, <1>6
<1> HIDE DEF id
<1> QED BY <1>3, <1>5, <1>8, <1>9 DEF AnswersInv

(* The steps that leave the answers and what they are of alone keep them. *)
LEMMA AnswersStay ==
  ASSUME AnswersInv, UNCHANGED <<definition, campo, draft, photoOf>>
  PROVE  AnswersInv'
BY DEF AnswersInv

(* An edit of the wizard is counted, and leaves all but the proposal alone. *)
LEMMA EditIsChange ==
  ASSUME EditarPropuesta
  PROVE  Change
<1>1. PICK s \in DOMAIN proposal : \E i \in DOMAIN proposal[s] :
        \/ QuitarItem(s, i)
        \/ \E type \in Type : CambiarTipo(s, i, type)
        \/ CambiarRequerido(s, i)
        \/ \E limits \in {<<a, b>> : a, b \in Numero} : CambiarLimites(s, i, limits)
  BY DEF EditarPropuesta
<1>2. PICK i \in DOMAIN proposal[s] :
        \/ QuitarItem(s, i)
        \/ \E type \in Type : CambiarTipo(s, i, type)
        \/ CambiarRequerido(s, i)
        \/ \E limits \in {<<a, b>> : a, b \in Numero} : CambiarLimites(s, i, limits)
  BY <1>1
<1>3. CASE QuitarItem(s, i)
  BY <1>3 DEF QuitarItem
<1>4. ASSUME NEW type \in Type, CambiarTipo(s, i, type) PROVE Change
  BY <1>4 DEF CambiarTipo
<1>5. CASE CambiarRequerido(s, i)
  BY <1>5 DEF CambiarRequerido
<1>6. ASSUME NEW limits, CambiarLimites(s, i, limits) PROVE Change
  BY <1>6 DEF CambiarLimites
<1> QED BY <1>2, <1>3, <1>4, <1>5, <1>6

(* Whatever is edited, the proposal stays one of its workbook. *)
LEMMA EditKeepsTheBook ==
  ASSUME libro \in Seq(HojaLibro), FromBook(proposal, libro), EditarPropuesta
  PROVE  FromBook(proposal', libro)
<1>1. PICK s \in DOMAIN proposal : \E i \in DOMAIN proposal[s] :
        \/ QuitarItem(s, i)
        \/ \E type \in Type : CambiarTipo(s, i, type)
        \/ CambiarRequerido(s, i)
        \/ \E limits \in {<<a, b>> : a, b \in Numero} : CambiarLimites(s, i, limits)
  BY DEF EditarPropuesta
<1>2. PICK i \in DOMAIN proposal[s] :
        \/ QuitarItem(s, i)
        \/ \E type \in Type : CambiarTipo(s, i, type)
        \/ CambiarRequerido(s, i)
        \/ \E limits \in {<<a, b>> : a, b \in Numero} : CambiarLimites(s, i, limits)
  BY <1>1
<1> DEFINE item == proposal[s][i]
           Changed(e) == [proposal EXCEPT ![s] = [proposal[s] EXCEPT ![i] = e]]
<1>3. HasFields(item)
  BY DEF FromBook, Shape
<1>4. CASE QuitarItem(s, i)
  <2>1. proposal' = [proposal EXCEPT ![s] = Without(proposal[s], i)]
    BY <1>4 DEF QuitarItem, Without
  <2> QED BY <2>1, ItemRemoved
<1>5. ASSUME NEW type \in Type, CambiarTipo(s, i, type) PROVE FromBook(proposal', libro)
  <2> DEFINE props == [required |-> item.props.required, limits |-> << >>,
                       options |-> IF type \in Select THEN item.props.options ELSE {}]
             e == [[item EXCEPT !.type = type] EXCEPT !.props = props]
  <2>1. proposal' = Changed(e)
    BY <1>5 DEF CambiarTipo
  <2>2. HasFields(e) /\ e.id = item.id
    BY <1>3 DEF HasFields
  <2> HIDE DEF e
  <2> QED BY <2>1, <2>2, ItemReplaced
<1>6. CASE CambiarRequerido(s, i)
  <2> DEFINE e == [item EXCEPT !.props.required = ~@]
  <2>1. proposal' = Changed(e)
    BY <1>6 DEF CambiarRequerido
  <2>2. HasFields(e) /\ e.id = item.id
    BY <1>3 DEF HasFields
  <2> HIDE DEF e
  <2> QED BY <2>1, <2>2, ItemReplaced
<1>7. ASSUME NEW limits, CambiarLimites(s, i, limits) PROVE FromBook(proposal', libro)
  <2> DEFINE e == [item EXCEPT !.props.limits = limits]
  <2>1. proposal' = Changed(e)
    BY <1>7 DEF CambiarLimites
  <2>2. HasFields(e) /\ e.id = item.id
    BY <1>3 DEF HasFields
  <2> HIDE DEF e
  <2> QED BY <2>1, <2>2, ItemReplaced
<1> QED BY <1>2, <1>4, <1>5, <1>6, <1>7

(* Each step keeps the invariant. *)
LEMMA WorkbookInductive ==
  ASSUME WorkbookInv, [WorkbookNext]_bookVars
  PROVE  WorkbookInv'
<1> USE DEF WorkbookInv
<1>1. ASSUME NEW b \in SampleBook, LeerLibro(b) PROVE WorkbookInv'
  <2>1. b \in Seq(HojaLibro)
    BY WorkbookAssumption
  <2>2. FromBook(proposal', libro')
    BY <1>1, <2>1, ProposedFromBook DEF LeerLibro
  <2>3. AnswersInv'
    BY <1>1, AnswersStay DEF LeerLibro, captureVars
  <2>4. StageInv'
    BY <1>1, <2>1, <2>2 DEF LeerLibro, StageInv, captureVars
  <2>5. document' = NoneAsked
    BY <1>1 DEF LeerLibro, StageInv
  <2>6. DocumentInv'
    BY <2>5 DEF DocumentInv, NoneAsked
  <2> QED BY <2>3, <2>4, <2>6
<1>2. CASE EditarPropuesta
  <2>1. /\ stage = "review" /\ document = NoneAsked
        /\ UNCHANGED <<stage, libro, definition, captureVars, document>>
    <3>1. Change
      BY <1>2, EditIsChange
    <3> QED BY <3>1 DEF Change, StageInv
  <2>2. FromBook(proposal', libro')
    BY <1>2, <2>1, EditKeepsTheBook DEF StageInv
  <2>3. AnswersInv'
    BY <2>1, AnswersStay DEF captureVars
  <2>4. StageInv'
    BY <2>1, <2>2 DEF StageInv, captureVars
  <2>5. DocumentInv'
    BY <2>1 DEF DocumentInv, NoneAsked
  <2> QED BY <2>3, <2>4, <2>5
<1>3. CASE PublicarRevision
  <2>1. /\ stage = "review" /\ document = NoneAsked /\ campo = << >> /\ draft = << >>
        /\ stage' = "capture"
        /\ UNCHANGED <<libro, proposal, captureVars, document>>
        /\ definition' = PropuestaADefinicion(proposal)
    BY <1>3 DEF PublicarRevision, StageInv
  <2>2. libro \in Seq(HojaLibro) /\ FromBook(proposal, libro)
    BY <2>1 DEF StageInv
  <2>3. FromBook(definition', libro')
    BY <2>1, <2>2, PublishedFromBook
  <2>4. AnswersInv'
    <3>1. DOMAIN campo = {} /\ campo' = campo /\ draft' = draft
      BY <2>1 DEF captureVars
    <3> QED BY <3>1 DEF AnswersInv
  <2>5. StageInv'
    BY <2>1, <2>2, <2>3 DEF StageInv
  <2>6. DocumentInv'
    BY <2>1 DEF DocumentInv, NoneAsked
  <2> QED BY <2>4, <2>5, <2>6
<1>4. ASSUME NEW item \in ItemsOf(definition), NEW v \in Typed(item), Responder(item, v)
      PROVE  WorkbookInv'
  <2>1. AnswersInv'
    BY <1>4, ResponderKeeps
  <2>2. stage = "capture" /\ UNCHANGED <<stage, libro, proposal, definition, stored>>
        /\ document' = NoneAsked
    BY <1>4 DEF Responder
  <2>3. StageInv'
    BY <2>2 DEF StageInv
  <2>4. DocumentInv'
    BY <2>2 DEF DocumentInv, NoneAsked
  <2> QED BY <2>1, <2>3, <2>4
<1>5. CASE Reabrir
  <2>1. campo' = campo
    BY <1>5, ReadBack DEF Reabrir
  <2>2. UNCHANGED <<stage, libro, proposal, definition, draft, photoOf, stored, document>>
    BY <1>5 DEF Reabrir
  <2>3. AnswersInv'
    BY <2>1, <2>2, AnswersStay
  <2>4. StageInv'
    BY <2>1, <2>2 DEF StageInv
  <2>5. Rellenar(campo)' = Rellenar(campo)
    BY <2>1, <2>2, DocumentStays
  <2>6. DocumentInv'
    BY <2>2, <2>5 DEF DocumentInv
  <2> QED BY <2>3, <2>4, <2>6
<1>6. CASE ExportarDocumento
  <2>1. stage = "capture" /\ UNCHANGED <<stage, libro, proposal, definition, captureVars>>
        /\ document' = [document EXCEPT !.device = Rellenar(campo)]
    BY <1>6 DEF ExportarDocumento
  <2>2. AnswersInv'
    BY <2>1, AnswersStay DEF captureVars
  <2>3. StageInv'
    BY <2>1 DEF StageInv, captureVars
  <2>4. Rellenar(campo)' = Rellenar(campo)
    BY <2>1, DocumentStays DEF captureVars
  <2>5. DocumentInv'
    BY <2>1, <2>4 DEF DocumentInv
  <2> QED BY <2>2, <2>3, <2>5
<1>7. CASE Enviar
  <2>1. /\ stage = "capture" /\ stage' = "sent" /\ stored' = draft
        /\ UNCHANGED <<libro, proposal, definition, campo, draft, photoOf, document>>
    BY <1>7 DEF Enviar
  <2>2. AnswersInv'
    BY <2>1, AnswersStay
  <2>3. StageInv'
    BY <2>1 DEF StageInv
  <2>4. Rellenar(campo)' = Rellenar(campo)
    BY <2>1, DocumentStays
  <2>5. DocumentInv'
    BY <2>1, <2>4 DEF DocumentInv
  <2> QED BY <2>2, <2>3, <2>5
<1>8. CASE Exportar
  <2>1. stage = "sent" /\ UNCHANGED <<stage, libro, proposal, definition, captureVars>>
        /\ document' = [document EXCEPT !.server = Rellenar(CamposDe)]
    BY <1>8 DEF Exportar
  <2>2. stored = draft
    BY <2>1 DEF StageInv
  <2>3. CamposDe = campo
    BY <2>2, ReadBack DEF CamposDe
  <2>4. AnswersInv'
    BY <2>1, AnswersStay DEF captureVars
  <2>5. StageInv'
    BY <2>1 DEF StageInv, captureVars
  <2>6. Rellenar(campo)' = Rellenar(campo)
    BY <2>1, DocumentStays DEF captureVars
  <2>7. document' = [document EXCEPT !.server = Rellenar(campo)]
    BY <2>1, <2>3
  <2>8. DocumentInv'
    BY <2>6, <2>7 DEF DocumentInv
  <2> QED BY <2>4, <2>5, <2>8
<1>9. CASE UNCHANGED bookVars
  <2>1. Rellenar(campo)' = Rellenar(campo)
    BY <1>9, DocumentStays DEF bookVars
  <2>2. DocumentInv'
    BY <1>9, <2>1 DEF DocumentInv, bookVars
  <2>3. AnswersInv'
    BY <1>9, AnswersStay DEF bookVars
  <2>4. StageInv'
    BY <1>9 DEF StageInv, bookVars
  <2> QED BY <2>2, <2>3, <2>4
<1> QED BY <1>1, <1>2, <1>3, <1>4, <1>5, <1>6, <1>7, <1>8, <1>9 DEF WorkbookNext

(* A document carries each answer below the header its field came from and   *)
(* nothing else, but for the losses that Lost names, and both sides make the *)
(* same one.                                                                 *)
THEOREM DocumentsCarryTheAnswers == WorkbookSpec => []DocumentCarriesTheAnswers
<1>1. WorkbookInit => WorkbookInv
  BY DEF WorkbookInit, WorkbookInv, AnswersInv, StageInv, DocumentInv, NoneAsked, ItemsOf
<1>2. WorkbookInv /\ [WorkbookNext]_bookVars => WorkbookInv'
  BY WorkbookInductive
<1>3. WorkbookInv => DocumentCarriesTheAnswers
  BY WorkbookInvIsRight
<1> QED BY <1>1, <1>2, <1>3, PTL DEF WorkbookSpec

=============================================================================
