----------------------------- MODULE MCBackOffice -----------------------------
(***************************************************************************)
(* The templates on the server, the wizard that makes one of a workbook,   *)
(* the workbook filled in again, and the panel of the inspections.  They   *)
(* share no variable, so that a behaviour is of one of them and the states *)
(* are the sum of theirs.                                                  *)
(***************************************************************************)
EXTENDS TemplateCatalog, ImportWizard, DashboardScreen, FilledWorkbook, TLC

VARIABLE side

\* Load = Tx, Filter = Workbook = Definition.
Symmetry == Permutations(Definition) \cup Permutations(Tx)

Cell(kind, text, number, parts, hint) ==
  [kind |-> kind, text |-> text, number |-> number, parts |-> parts, hint |-> hint]
Empty == Cell("empty", "", 0, {}, "none")
Title(text, hint) == Cell("free", text, 0, {text}, hint)
Txt(kind, text) == Cell(kind, text, 0, {text}, "none")
Num(kind, n) == Cell(kind, ToString(n), n, {ToString(n)}, "none")
Sheet(name, rows) == [name |-> name, padded |-> FALSE, rows |-> rows]

\* A title above the header, a column of each kind; a sheet of one column.
Shift == << Sheet("Turno", << <<Title("titulo", "none"), Empty, Empty, Empty>>,
                              <<Title("temperatura", "none"), Title("foto", "photo"), Empty,
                                Title("estado", "none")>>,
                              <<Num("number", 18), Empty, Empty, Txt("mark", "OK")>>,
                              <<Num("number", 22), Empty, Empty, Empty>> >>),
            Sheet("Notas", << <<Title("nota", "none")>>, <<Empty>>, <<Txt("free", "n")>> >>) >>

\* Lists, dates and hours; a blank sheet; the sheet of a document exported before.
Lists == << Sheet("Listas", << <<Title("turno", "none"), Title("riesgos", "none")>>,
                               <<Txt("word", "dia"), Cell("list", "a; b", 0, {"a", "b"}, "none")>>,
                               <<Txt("word", "noche"), Empty>> >>),
            Sheet("Vacia", << <<Empty, Empty>> >>),
            Sheet("Fechas", << <<Title("dia", "date"), Title("hora", "none"), Title("m", "none")>>,
                               <<Num("date", 1), Txt("time", "t"), Num("number", 0)>>,
                               <<Num("date", 3), Empty, Num("number", 5)>>,
                               <<Empty, Txt("time", "u"), Empty>> >>),
            Sheet("Evidencias", << <<Title("item", "text"), Title("mime", "select_multiple")>> >>) >>

\* The name of the sheet ends in a space.
Padded == << [Sheet("Acta", << <<Title("uno", "none"), Title("dos", "none")>> >>)
                EXCEPT !.padded = TRUE] >>

\* The names of the sheets differ by a space.
Twins == Padded \o << Sheet("Acta", << <<Title("tres", "none"), Title("cuatro", "none")>> >>) >>

Headless == << Sheet("Nada", << <<Empty>> >>) >>

MCNumero == {-15, 0, 20}
MCSampleBook == {Shift, Lists, Padded, Twins, Headless}

MCInit ==
  /\ CatalogInit /\ WizardInit /\ DashboardInit /\ WorkbookInit
  /\ side \in {"catalog", "wizard", "panel", "workbook"}
  /\ side # "catalog" => device.admin

MCNext ==
  \/ side = "catalog" /\ CatalogNext /\ UNCHANGED <<wizardVars, dashboardVars, bookVars, side>>
  \/ side = "wizard" /\ WizardNext /\ UNCHANGED <<catalogVars, dashboardVars, bookVars, side>>
  \/ side = "panel" /\ DashboardNext /\ UNCHANGED <<catalogVars, wizardVars, bookVars, side>>
  \/ side = "workbook" /\ WorkbookNext /\ UNCHANGED <<catalogVars, wizardVars, dashboardVars, side>>

MCSpec == MCInit /\ [][MCNext]_<<catalogVars, wizardVars, dashboardVars, bookVars, side>>
=============================================================================
