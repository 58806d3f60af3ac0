---------------------------- MODULE DashboardScreen ----------------------------
(***************************************************************************)
(* The dashboard of the supervisor on the device (Dashboard.tsx).  Every   *)
(* change of filter, focus, signal and tick of 30 s starts a load; a load  *)
(* is three requests, the list of inspections shown as soon as it answers, *)
(* the summary and the findings when all three have.  Nothing cancels a    *)
(* load nor compares the one that answers with the last one asked.         *)
(*                                                                         *)
(* A filter stands for period, site, severity and author; what an answer   *)
(* holds, for the filter it was asked with.                                *)
(***************************************************************************)
EXTENDS Naturals, FiniteSets

CONSTANTS Filter, Row, Load, NoFilter, NoRow,
          MaxLoads,   \* bound of the instance: loads ever started
          MaxClicks   \* bound of the instance: clicks on the rows and on the ZIP

ASSUME DashboardAssumption == NoFilter \notin Filter /\ NoRow \notin Row
                                /\ {MaxLoads, MaxClicks} \subseteq Nat

VARIABLES
  filter,     \* periodo, faena, sevFiltro, autor
  loads,      \* the calls of cargar in progress
  started,    \* calls so far
  lista,      \* inspecciones and errorInspecciones
  datos,      \* summary and hallazgos
  errorCarga,
  cargando,
  reviews,    \* detail requests in progress, by row
  detalle,    \* detalleInspeccion
  lote,       \* the ZIP of the period
  clicks,
  last,       \* history: the row whose detail was asked for last
  overtaken,  \* history: parts of the screen that an older answer took back
  silent      \* history: the last load got no answer, and says nothing

loadVars == <<filter, loads, started, lista, datos, errorCarga, cargando, silent>>
rowVars == <<reviews, detalle, last>>
dashboardVars == <<loadVars, rowVars, lote, clicks, overtaken>>

NoLoad == [number |-> 0, filter |-> NoFilter, list |-> "done", rest |-> "done"]

DashboardInit ==
  /\ filter \in Filter
  /\ loads = [l \in Load |-> NoLoad]
  /\ started = 0
  /\ lista = [of |-> NoFilter, error |-> FALSE, number |-> 0]
  /\ datos = [of |-> NoFilter, number |-> 0]
  /\ errorCarga = FALSE /\ cargando = FALSE
  /\ reviews = {} /\ last = NoRow
  /\ detalle = [fase |-> "inactivo", row |-> NoRow]
  /\ lote = [fase |-> "inactivo", alcance |-> NoFilter]
  /\ clicks = 0
  /\ overtaken = {} /\ silent = FALSE

----------------------------------------------------------------------------
(* cargar                                                                  *)

Cargar(l, f) ==
  /\ loads[l] = NoLoad
  /\ started < MaxLoads /\ started' = started + 1
  /\ loads' = [loads EXCEPT ![l] = [number |-> started + 1, filter |-> f,
                                    list |-> "asked", rest |-> "asked"]]
  /\ cargando' = TRUE
  /\ errorCarga' = FALSE
  /\ silent' = FALSE

\* The effect runs on the first render and starts the interval.
Open(l) ==
  /\ started = 0
  /\ Cargar(l, filter)
  /\ UNCHANGED <<filter, lista, datos, rowVars, lote, clicks, overtaken>>

\* Mutant: the effect does not depend on the filter.
MutChangeFilter(l, f) ==
  /\ started > 0 /\ f # filter
  /\ filter' = f
  /\ UNCHANGED <<loads, started, cargando, errorCarga, silent, lista, datos, rowVars, lote,
                 clicks, overtaken>>

\* The effect runs again with the new filter.
ChangeFilter(l, f) ==
  /\ started > 0 /\ f # filter
  /\ filter' = f
  /\ Cargar(l, f)
  /\ UNCHANGED <<lista, datos, rowVars, lote, clicks, overtaken>>

\* The interval, the focus of the window, the signal.
Again(l) ==
  /\ started > 0
  /\ Cargar(l, filter)
  /\ UNCHANGED <<filter, lista, datos, rowVars, lote, clicks, overtaken>>

\* Whether this answer takes back a part of the screen that a later load set,
\* or is that of the last load.
Overtake(part, shown, number) ==
  overtaken' = IF number < shown THEN overtaken \cup {part}
               ELSE IF number = started THEN overtaken \ {part}
               ELSE overtaken

Settle(l, field, value) ==
  LET q == [loads[l] EXCEPT ![field] = value] IN
  loads' = [loads EXCEPT ![l] = IF q.list = "done" /\ q.rest = "done" THEN NoLoad ELSE q]

\* The list has a branch of its own, which never rejects.
ListAnswers(l, ok) ==
  /\ loads[l].list = "asked"
  /\ lista' = [of |-> IF ok THEN loads[l].filter ELSE NoFilter, error |-> ~ok,
               number |-> loads[l].number]
  /\ Overtake("lista", lista.number, loads[l].number)
  /\ Settle(l, "list", "done")
  /\ UNCHANGED <<filter, started, datos, errorCarga, cargando, silent, rowVars, lote, clicks>>

\* The three have answered: setDatos, and the finally.
AllAnswer(l) ==
  /\ loads[l].rest = "asked" /\ loads[l].list = "done"
  /\ datos' = [of |-> loads[l].filter, number |-> loads[l].number]
  /\ Overtake("datos", datos.number, loads[l].number)
  /\ cargando' = FALSE
  /\ Settle(l, "rest", "done")
  /\ UNCHANGED <<filter, started, lista, errorCarga, silent, rowVars, lote, clicks>>

\* The first rejection of the Promise.all, whether the list has answered or
\* not.  One with no answer of the server (status 0) is not shown.
SomeFails(l, answered) ==
  /\ loads[l].rest = "asked"
  /\ errorCarga' = (answered \/ errorCarga)
  /\ silent' = IF loads[l].number = started THEN ~answered ELSE silent
  /\ cargando' = FALSE
  /\ Settle(l, "rest", "done")
  /\ UNCHANGED <<filter, started, lista, datos, rowVars, lote, clicks, overtaken>>

----------------------------------------------------------------------------
(* revisar, and its panel                                                  *)

Click == clicks < MaxClicks /\ clicks' = clicks + 1

\* The button is disabled only while its own row is the one that loads.
Revisar(i) ==
  /\ Click
  /\ lista.of # NoFilter
  /\ detalle # [fase |-> "cargando", row |-> i]
  /\ detalle' = [fase |-> "cargando", row |-> i]
  /\ reviews' = reviews \cup {i}
  /\ last' = i
  /\ overtaken' = IF reviews = {} THEN overtaken \ {"detalle"} ELSE overtaken \cup {"detalle"}
  /\ UNCHANGED <<loadVars, lote>>

ReviewAnswers(i, ok) ==
  /\ i \in reviews
  /\ reviews' = reviews \ {i}
  /\ detalle' = [fase |-> IF ok THEN "ok" ELSE "error", row |-> i]
  /\ UNCHANGED <<loadVars, last, lote, clicks, overtaken>>

\* A detail that is still on its way opens the panel again.
Cerrar ==
  /\ detalle.fase # "inactivo"
  /\ detalle' = [fase |-> "inactivo", row |-> NoRow]
  /\ UNCHANGED <<loadVars, reviews, last, lote, clicks, overtaken>>

----------------------------------------------------------------------------
(* exportarLote: the filter is that of the click, and its notice says so    *)

ExportarLote ==
  /\ Click
  /\ lote.fase # "trabajando"
  /\ lote' = [fase |-> "trabajando", alcance |-> filter]
  /\ UNCHANGED <<loadVars, rowVars, overtaken>>

LoteAnswers(ok) ==
  /\ lote.fase = "trabajando"
  /\ lote' = [lote EXCEPT !.fase = IF ok THEN "ok" ELSE "error"]
  /\ UNCHANGED <<loadVars, rowVars, clicks, overtaken>>

----------------------------------------------------------------------------
Loading ==
  \E l \in Load :
    \/ Open(l) \/ Again(l) \/ AllAnswer(l)
    \/ \E f \in Filter : ChangeFilter(l, f)
    \/ \E ok \in BOOLEAN : ListAnswers(l, ok) \/ SomeFails(l, ok)

Clicking ==
  \/ \E i \in Row : Revisar(i) \/ \E ok \in BOOLEAN : ReviewAnswers(i, ok)
  \/ Cerrar \/ ExportarLote
  \/ \E ok \in BOOLEAN : LoteAnswers(ok)

DashboardNext == Loading \/ Clicking

DashboardSpec == DashboardInit /\ [][DashboardNext]_dashboardVars

----------------------------------------------------------------------------
\* FR-041: once nothing is on its way, the list and the figures are those of
\* the filter on the screen, or the screen says that they could not be read,
\* and the panel shows the row that was asked for last; unless an answer
\* overtook a later one, or the last load had no answer at all.
ScreenIsOfTheFilter ==
  /\ started > 0 /\ loads = [l \in Load |-> NoLoad] =>
       /\ lista.of = filter \/ lista.error \/ "lista" \in overtaken
       /\ datos.of = filter \/ errorCarga \/ silent \/ "datos" \in overtaken
  /\ reviews = {} /\ detalle.fase # "inactivo" =>
       detalle.row = last \/ "detalle" \in overtaken
=============================================================================
