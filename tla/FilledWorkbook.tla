---------------------------- MODULE FilledWorkbook ----------------------------
(***************************************************************************)
(* From a workbook to a template and back: the parser that proposes the    *)
(* fields (shared/src/xlsx/import.ts), the definition made of them, the    *)
(* answers as they are validated, kept in columns and read back, and the   *)
(* same workbook filled in with them, by the device and by the server.     *)
(*                                                                         *)
(* A cell is what escolta.ts makes of it: a kind, a text and a number (of  *)
(* a date, the day).  A value has a form and a content.  Of the content    *)
(* only what the parser and the validation tell apart is kept.             *)
(***************************************************************************)
EXTENDS Integers, Sequences, FiniteSets

CONSTANTS SampleBook,    \* workbooks: sequences of sheets [name, padded, rows]
          Numero, Dia,   \* numbers and days that are typed in
          MaxColumna,    \* MAX_COLUMNA
          UmbralSelect,  \* UMBRAL_SELECT
          MaxChanges,    \* bound of the instance: edits in the wizard
          MaxAnswers     \* bound of the instance: answers given

Type == {"ok_nok_na", "text", "numeric", "date", "time", "select_single", "select_multiple",
         "photo"}
Select == {"select_single", "select_multiple"}

\* leerCuadricula: each cell with the parts of a list and the hint of a header.
CeldaLibro == [kind : STRING, text : STRING, number : Int, parts : SUBSET STRING,
               hint : Type \cup {"none"}]
HojaLibro == [name : STRING, padded : BOOLEAN, rows : Seq(Seq(CeldaLibro))]

ASSUME WorkbookAssumption ==
  /\ SampleBook \subseteq Seq(HojaLibro)
  /\ Numero \subseteq Int /\ Dia \subseteq Int
  /\ {MaxColumna, UmbralSelect, MaxChanges, MaxAnswers} \subseteq Nat

VARIABLES
  stage,      \* of the template: none, review, capture, sent
  libro,      \* the workbook, the same bytes on both sides
  proposal,   \* the proposal as the wizard left it
  definition, \* of the published revision
  campo,      \* respuestas of the store: the value of each item answered
  draft,      \* table responses of the device: the columns of each item
  photoOf,    \* attachments of the responses: whether each is small
  stored,     \* inspection_response on the server
  document,   \* the last document of each side, of the answers that stand
  changes, given

bookVars == <<stage, libro, proposal, definition, campo, draft, photoOf, stored, document,
              changes, given>>
captureVars == <<campo, draft, photoOf, stored>>

----------------------------------------------------------------------------
(* The parser                                                              *)

EncabezadoIdx(sheet) ==
  LET filled(r) == Cardinality({c \in DOMAIN sheet.rows[r] : sheet.rows[r][c].kind # "empty"})
      single == \A r \in DOMAIN sheet.rows : filled(r) <= 1
      headers == {r \in DOMAIN sheet.rows : IF single THEN filled(r) = 1 ELSE filled(r) >= 2} IN
  IF headers = {} THEN 0 ELSE CHOOSE r \in headers : \A q \in headers : r <= q

Filled(cells) == {cells[i] : i \in {j \in DOMAIN cells : cells[j].kind # "empty"}}
Parts(cells) == UNION {c.parts : c \in Filled(cells)}
Texts(cells) == {c.text : c \in Filled(cells)}

\* esListaCandidata: simple tokens, from 2 to UMBRAL_SELECT.
Candidate(cells) ==
  /\ \A c \in Filled(cells) : c.kind \in {"word", "mark", "date", "time"}
  /\ Cardinality(Texts(cells)) \in 2 .. UmbralSelect

DetectedType(hint, cells) ==
  LET kinds == {c.kind : c \in Filled(cells)} IN
  CASE hint = "select_single" -> IF Texts(cells) = {} THEN "text" ELSE hint
    [] hint = "select_multiple" -> IF Parts(cells) = {} THEN "text" ELSE hint
    [] hint \in Type \ Select -> hint
    [] hint = "none" ->
         CASE kinds = {"number"} -> "numeric"
           [] kinds = {"date"} -> "date"
           [] kinds = {"time"} -> "time"
           [] kinds = {"mark"} -> "ok_nok_na"
           [] "list" \in kinds /\ Parts(cells) # {} -> "select_multiple"
           [] OTHER -> IF Candidate(cells) THEN "select_single" ELSE "text"

\* propsNumericas, minMaxDe: no limits when all the samples are the same.
Limits(S) ==
  IF Cardinality(S) < 2 THEN << >>
  ELSE <<CHOOSE n \in S : \A m \in S : n <= m, CHOOSE n \in S : \A m \in S : n >= m>>

\* detectarCampo and propsOperativas.
DetectedProps(prompt, hint, cells) ==
  LET type == DetectedType(hint, cells)
      of(kind) == {c.number : c \in {d \in Filled(cells) : d.kind = kind}} IN
  [required |-> cells # << >> /\ \A i \in DOMAIN cells : cells[i].kind # "empty",
   limits |-> CASE type = "numeric" /\ prompt = "temperatura" -> <<-10, 45>>
                [] type = "numeric" /\ prompt # "temperatura" -> Limits(of("number"))
                [] type = "date" -> Limits(of("date"))
                [] OTHER -> << >>,
   options |-> CASE type = "select_single" -> Texts(cells)
                 [] type = "select_multiple" -> Parts(cells)
                 [] OTHER -> {}]

\* The item of a column.  Its id is drawn at random: here, where it came from.
ProposedItem(book, s, c) ==
  LET sheet == book[s]
      h == EncabezadoIdx(sheet)
      head == sheet.rows[h][c]
      cells == [r \in 1 .. Len(sheet.rows) - h |-> sheet.rows[h + r][c]] IN
  [id |-> <<s, c>>, prompt |-> head.text,
   type |-> DetectedType(head.hint, cells), props |-> DetectedProps(head.text, head.hint, cells),
   source |-> [sheet |-> sheet.name, column |-> c, row |-> h + 1]]

\* Columns and sheets are gone through in their order.
InOrder(K) == [n \in 1 .. Cardinality(K) |-> CHOOSE k \in K : Cardinality({m \in K : m < k}) = n - 1]

ProposedSection(book, s) ==
  LET sheet == book[s]
      h == EncabezadoIdx(sheet)
      columns == InOrder(IF h = 0 THEN {}
                         ELSE {c \in DOMAIN sheet.rows[h] :
                                 sheet.rows[h][c].kind # "empty" /\ c <= MaxColumna}) IN
  [k \in DOMAIN columns |-> ProposedItem(book, s, columns[k])]

\* A section is the sequence of its items; a sheet without any is none.
ProponerImport(book) ==
  LET sheets == InOrder({s \in DOMAIN book : ProposedSection(book, s) # << >>}) IN
  [k \in DOMAIN sheets |-> ProposedSection(book, sheets[k])]

----------------------------------------------------------------------------
(* The definition                                                          *)

ItemsOf(sections) == UNION {{sections[s][i] : i \in DOMAIN sections[s]} : s \in DOMAIN sections}

\* FIELD_PROPS_SCHEMA.
ValidProps(type, p) ==
  /\ p.limits # << >> => type \in {"numeric", "date"} /\ p.limits[1] <= p.limits[2]
  /\ type \in Select <=> p.options # {}

\* propuestaADefinicion refuses what is empty or invalid.
Acceptable(sections) ==
  /\ ItemsOf(sections) # {}
  /\ \A item \in ItemsOf(sections) : ValidProps(item.type, item.props)

PropuestaADefinicion(sections) ==
  [s \in DOMAIN sections |->
     [i \in DOMAIN sections[s] |->
        [f \in {"id", "prompt", "type", "props"} |-> sections[s][i][f]]]]

----------------------------------------------------------------------------
(* Values                                                                  *)

Value(form, text, number, list) == [form |-> form, text |-> text, number |-> number, list |-> list]
NoValue == Value("none", "", 0, {})
Blank == Value("blank", "", 0, {})
OfText(form, text) == Value(form, text, 0, {})
OfNumber(form, n) == Value(form, "", n, {})
OfList(S) == Value("list", "", 0, S)
Marker == OfText("photo", "capturada")

Textual == {"blank", "mark", "plain", "date", "time", "photo"}

\* What the control of each type can give; erasing gives an empty one.
Typed(item) ==
  CASE item.type = "ok_nok_na" -> {OfText("mark", t) : t \in {"ok", "nok"}}
    [] item.type = "text" -> {OfText("plain", "t"), Blank}
    [] item.type = "numeric" -> {OfNumber("number", n) : n \in Numero} \cup {Blank}
    [] item.type = "date" -> {OfNumber("date", d) : d \in Dia} \cup {Blank}
    [] item.type = "time" -> {OfText("time", "t"), Blank}
    [] item.type = "select_single" -> {OfText("plain", o) : o \in item.props.options} \cup {Blank}
    [] item.type = "select_multiple" -> {OfList(S) : S \in SUBSET item.props.options}
    [] item.type = "photo" -> {Marker, NoValue}

Vacio(v) == v.form \in {"none", "blank"} \/ v = OfList({})
Within(n, limits) == limits # << >> => limits[1] <= n /\ n <= limits[2]

ValidateValorCampo(item, v) ==
  CASE Vacio(v) -> ~item.props.required
    [] ~Vacio(v) ->
         CASE item.type = "ok_nok_na" -> v.form = "mark"
           [] item.type = "text" -> v.form \in Textual
           [] item.type = "numeric" -> v.form = "number" /\ Within(v.number, item.props.limits)
           [] item.type = "date" -> v.form = "date" /\ Within(v.number, item.props.limits)
           [] item.type = "time" -> v.form = "time"
           [] item.type = "select_single" -> v.form \in Textual /\ v.text \in item.props.options
           [] item.type = "select_multiple" -> v.form = "list" /\ v.list \subseteq item.props.options
           [] item.type = "photo" -> v.form \in Textual

NoColumns == [ok |-> NoValue, text |-> NoValue, number |-> NoValue, json |-> NoValue]

ColumnasDesdeValor(item, v) ==
  [ok |-> IF item.type = "ok_nok_na" /\ v.form = "mark" THEN v ELSE NoValue,
   text |-> IF item.type \in {"text", "photo"} /\ v.form \in Textual THEN v ELSE NoValue,
   number |-> IF item.type = "numeric" /\ v.form = "number" THEN v ELSE NoValue,
   json |-> IF \/ item.type \in {"date", "time", "select_single"} /\ v.form \in Textual
               \/ item.type = "select_multiple" /\ v.form = "list"
            THEN v ELSE NoValue]

\* The driver gives a numeric column as text.
Fetched(row) ==
  [row EXCEPT !.number = IF @.form = "number" THEN OfNumber("digits", @.number) ELSE @]

CampoDesdeColumnas(item, row) ==
  CASE item.type = "ok_nok_na" -> row.ok
    [] item.type = "numeric" -> IF row.number = NoValue THEN NoValue
                                ELSE OfNumber("number", row.number.number)
    [] item.type = "photo" -> IF row.text = Marker THEN Marker ELSE NoValue
    [] item.type = "select_multiple" -> IF row.json.form = "list" THEN row.json ELSE NoValue
    [] item.type = "text" -> row.text
    [] item.type \in {"date", "time", "select_single"} ->
         IF row.json.form \in Textual THEN row.json ELSE row.text

Contestado(v) == v # NoValue /\ v # OfList({})

----------------------------------------------------------------------------
(* The document                                                            *)

Campo(values, item) == IF item.id \in DOMAIN values THEN values[item.id] ELSE NoValue

\* What !valor is true of: null and also the number zero.
Falsy(v) == v = NoValue \/ v = OfNumber("number", 0)

\* serializarValorCampo gives null for a value that is not of the type.
Serializable(item, v) ==
  CASE item.type = "ok_nok_na" -> v.form = "mark"
    [] item.type = "numeric" -> v.form = "number"
    [] item.type = "date" -> v.form = "date"
    [] item.type = "time" -> v.form = "time"
    [] item.type = "select_multiple" -> v.form = "list"
    [] item.type \in {"text", "select_single", "photo"} -> v.form \in Textual \ {"blank"}

\* construirRespuestas.
Rellenables(values) ==
  {item \in ItemsOf(definition) :
     /\ ~Falsy(Campo(values, item)) /\ Contestado(Campo(values, item))
     /\ Serializable(item, Campo(values, item))}
Omitidas(values) ==
  {item.id : item \in
     {i \in ItemsOf(definition) : ~Falsy(Campo(values, i)) /\ Contestado(Campo(values, i))}
       \ Rellenables(values)}

\* Mutant: the items of a section are not counted.
MutEmparejado(sections, book) ==
  /\ Len(sections) = Len(book)
  /\ \A s \in DOMAIN sections : Len(sections[s]) <= Len(book[s])

\* emparejarItemsConOrigen: by position, when the counts agree ...
Emparejado(sections, book) ==
  /\ Len(sections) = Len(book)
  /\ \A s \in DOMAIN sections : Len(sections[s]) = Len(book[s])

\* ... whatever the items are.
Destino(sections, book, id) ==
  LET s == CHOOSE n \in DOMAIN sections : \E i \in DOMAIN sections[n] : sections[n][i].id = id
      k == CHOOSE i \in DOMAIN sections[s] : sections[s][i].id = id IN
  book[s][k].source

\* construirEvidencias, evidenciasDe: small ones are embedded.
Evidencias(values) ==
  {[item |-> i.id, embedded |-> photoOf[i.id]] :
     i \in {j \in ItemsOf(definition) : /\ j.type = "photo" /\ Contestado(Campo(values, j))
                                        /\ j.id \in DOMAIN photoOf}}

NotAsked == [result |-> "none", cells |-> << >>, evidence |-> {}, omitted |-> {}]
Refused == [NotAsked EXCEPT !.result = "error"]

\* rellenarOriginal: escribirLibro looks the sheet up by its name, which the
\* parser has trimmed: of two sheets with one name so trimmed, the later fields
\* are written over the earlier.  The sheet of the evidence replaces one of its name.
Rellenar(values) ==
  LET book == ProponerImport(libro)
      written == Rellenables(values)
      cellOf(item) == Destino(definition, book, item.id)
      sheets == {libro[s].name : s \in {t \in DOMAIN libro : ~libro[t].padded}}
      cells == {c \in {cellOf(item) : item \in written} : c.sheet # "Evidencias"}
      last(c) == CHOOSE item \in written :
                   /\ cellOf(item) = c
                   /\ \A other \in written : cellOf(other) = c => other.id[1] <= item.id[1] IN
  IF \/ ~Emparejado(definition, book)
     \/ \E item \in written : cellOf(item).sheet \notin sheets
  THEN Refused
  ELSE [result |-> "ok",
        cells |-> [c \in cells |-> Campo(values, last(c))],
        evidence |-> Evidencias(values),
        omitted |-> Omitidas(values)]

----------------------------------------------------------------------------
(* Steps                                                                   *)

NoneAsked == [device |-> NotAsked, server |-> NotAsked]

WorkbookInit ==
  /\ stage = "none"
  /\ libro = << >> /\ proposal = << >> /\ definition = << >>
  /\ campo = << >> /\ draft = << >> /\ photoOf = << >> /\ stored = << >>
  /\ document = NoneAsked
  /\ changes = 0 /\ given = 0

LeerLibro(b) ==
  /\ stage = "none"
  /\ ProponerImport(b) # << >>
  /\ \A item \in ItemsOf(ProponerImport(b)) : ValidProps(item.type, item.props)
  /\ stage' = "review"
  /\ libro' = b /\ proposal' = ProponerImport(b)
  /\ UNCHANGED <<definition, captureVars, document, changes, given>>

Change ==
  /\ stage = "review" /\ changes < MaxChanges
  /\ changes' = changes + 1
  /\ UNCHANGED <<stage, libro, definition, captureVars, document, given>>

QuitarItem(s, i) ==
  /\ Change
  /\ proposal' = [proposal EXCEPT ![s] = SubSeq(@, 1, i - 1) \o SubSeq(@, i + 1, Len(@))]

\* The options stay from one list to the other, the rest goes.
CambiarTipo(s, i, type) ==
  /\ Change
  /\ proposal' = [proposal EXCEPT ![s][i].type = type,
                    ![s][i].props = [required |-> @.required, limits |-> << >>,
                                     options |-> IF type \in Select THEN @.options ELSE {}]]

CambiarRequerido(s, i) ==
  /\ Change
  /\ proposal' = [proposal EXCEPT ![s][i].props.required = ~@]

CambiarLimites(s, i, limits) ==
  /\ Change
  /\ proposal[s][i].type = "numeric"
  /\ proposal' = [proposal EXCEPT ![s][i].props.limits = limits]

EditarPropuesta ==
  \E s \in DOMAIN proposal : \E i \in DOMAIN proposal[s] :
    \/ QuitarItem(s, i)
    \/ \E type \in Type : CambiarTipo(s, i, type)
    \/ CambiarRequerido(s, i)
    \/ \E limits \in {<<a, b>> : a, b \in Numero} : CambiarLimites(s, i, limits)

PublicarRevision ==
  /\ stage = "review" /\ Acceptable(proposal)
  /\ stage' = "capture"
  /\ definition' = PropuestaADefinicion(proposal)
  /\ UNCHANGED <<libro, proposal, captureVars, document, changes, given>>

Put(f, key, value) == [k \in DOMAIN f \cup {key} |-> IF k = key THEN value ELSE f[k]]
Drop(f, key) == [k \in DOMAIN f \ {key} |-> f[k]]

\* responderCampo: a value that is not valid is not written.  A photo that
\* cannot be compressed leaves the item unanswered.
Responder(item, typed) ==
  LET v == IF Vacio(typed) THEN NoValue ELSE typed IN
  /\ stage = "capture" /\ given < MaxAnswers
  /\ ValidateValorCampo(item, typed)
  /\ given' = given + 1
  /\ \/ /\ item.type # "photo"
        /\ campo' = Put(campo, item.id, v)
        /\ draft' = Put(draft, item.id, ColumnasDesdeValor(item, v))
        /\ UNCHANGED photoOf
     \/ /\ item.type = "photo" /\ v # NoValue
        /\ campo' = Put(campo, item.id, v)
        /\ draft' = Put(draft, item.id, ColumnasDesdeValor(item, v))
        /\ \E small \in BOOLEAN : photoOf' = Put(photoOf, item.id, small)
     \/ /\ item.type = "photo"
        /\ campo' = Put(campo, item.id, NoValue)
        /\ draft' = Put(draft, item.id, NoColumns)
        /\ photoOf' = Drop(photoOf, item.id)
  /\ document' = NoneAsked
  /\ UNCHANGED <<stage, libro, proposal, definition, stored, changes>>

\* entrar: the answers of the draft are restored from its columns.
Reabrir ==
  /\ stage = "capture"
  /\ campo' = [id \in DOMAIN draft |->
                 CampoDesdeColumnas(CHOOSE i \in ItemsOf(definition) : i.id = id, draft[id])]
  /\ UNCHANGED <<stage, libro, proposal, definition, draft, photoOf, stored, document, changes, given>>

\* exportarDocumento, with the original in the cache.
ExportarDocumento ==
  /\ stage = "capture"
  /\ document' = [document EXCEPT !.device = Rellenar(campo)]
  /\ UNCHANGED <<stage, libro, proposal, definition, captureVars, changes, given>>

\* erroresDeEnvio: the whole form is validated again.  The inspection arrives
\* with all of its records.
Enviar ==
  /\ stage = "capture"
  /\ \A item \in ItemsOf(definition) : ValidateValorCampo(item, Campo(campo, item))
  /\ stage' = "sent" /\ stored' = draft
  /\ UNCHANGED <<libro, proposal, definition, campo, draft, photoOf, document, changes, given>>

\* camposDe.
CamposDe ==
  [id \in DOMAIN stored |->
     CampoDesdeColumnas(CHOOSE i \in ItemsOf(definition) : i.id = id, Fetched(stored[id]))]

Exportar ==
  /\ stage = "sent"
  /\ document' = [document EXCEPT !.server = Rellenar(CamposDe)]
  /\ UNCHANGED <<stage, libro, proposal, definition, captureVars, changes, given>>

WorkbookNext ==
  \/ \E b \in SampleBook : LeerLibro(b)
  \/ EditarPropuesta
  \/ PublicarRevision
  \/ \E item \in ItemsOf(definition) : \E v \in Typed(item) : Responder(item, v)
  \/ Reabrir \/ ExportarDocumento
  \/ Enviar \/ Exportar

WorkbookSpec == WorkbookInit /\ [][WorkbookNext]_bookVars

----------------------------------------------------------------------------
\* Where the answer to an item belongs: the first row below its own header.
Home(id) ==
  [sheet |-> libro[id[1]].name, column |-> id[2], row |-> EncabezadoIdx(libro[id[1]]) + 1]

\* What the documents are known to lose: a zero, the sheet of the evidence, and
\* sheets whose names differ by the spaces around them alone.
Lost(item) ==
  LET s == item.id[1] IN
  \/ campo[item.id] = OfNumber("number", 0)
  \/ libro[s].name = "Evidencias"
  \/ \E t \in DOMAIN libro \ {s} : libro[t].name = libro[s].name

\* FR-019, FR-044: a document that is made has each answer below the header
\* that its field came from and nothing else, whatever was edited in the wizard
\* and whether the answers come from the screen, the draft or the server, and
\* the device and the server make the same one, or both refuse.
DocumentCarriesTheAnswers ==
  LET answered == {i \in ItemsOf(definition) : i.id \in DOMAIN campo /\ Contestado(campo[i.id])}
      asked == {side \in DOMAIN document : document[side] # NotAsked} IN
  /\ \A side \in asked : document[side].result = "ok" =>
       /\ \A item \in answered :
            \/ /\ Home(item.id) \in DOMAIN document[side].cells
               /\ document[side].cells[Home(item.id)] = campo[item.id]
            \/ Lost(item)
       /\ DOMAIN document[side].cells \subseteq {Home(item.id) : item \in answered}
       /\ {i.id : i \in {j \in answered : j.type = "photo"}}
            = {e.item : e \in document[side].evidence}
  /\ asked = {"device", "server"} => document["device"] = document["server"]
=============================================================================
