------------------------------- MODULE PanelDrill -------------------------------
(***************************************************************************)
(* From a point or a row of a panel to the traces and logs behind it       *)
(* (src/ui/host/src/dashboards): what a panel lets the reader click        *)
(* (panel-handlers.ts), the selection it makes of a row or of a bucket     *)
(* (panels/rows.ts, panels/interaction.ts), the drill that comes of it     *)
(* (drill-state.ts) and the drawer that lists, opens and returns           *)
(* (drill.tsx).  Times are whole steps of the result's interval's clock.   *)
(***************************************************************************)
EXTENDS Integers, FiniteSets

CONSTANTS Panels,      \* records: viz, drill ("none" where there is none), click
          Windows,     \* pairs: a result covers from..to
          Widths,      \* of the result's interval
          Values, NoValue,   \* of the first dimension, and of the variable it sets
          Traces, NoTrace,
          MaxSpan      \* the longest drill: 30 days

VARIABLE drawer

drawerVars == <<drawer>>

NoTarget == [kind |-> "none"]

(***************************************************************************)
(* Rows and selections                                                     *)
(***************************************************************************)
\* Which buckets a result has: those that reach into its window.
Buckets(d) == {b \in d.window[1] - d.width + 1..d.window[2] - 1 : b + d.width > d.window[1]}

\* A row has the start of its bucket, or no time at all.
Rows(d) == [time : {NoValue} \cup Buckets(d), value : Values, trace : Traces \cup {NoTrace}]

rowModel(row) == [time |-> row.time, value |-> row.value, trace_id |-> row.trace]

pointSelection(time, value) == [time |-> time, value |-> value, trace_id |-> NoTrace]

(***************************************************************************)
(* panelHandlers                                                           *)
(***************************************************************************)
ChartKinds == {"timeseries", "bar", "heatmap", "state_timeline", "service_map"}

Tables == {"table", "logs", "traces"}

onSelect(panel) == panel.click /\ (panel.viz = "service_map" \/ panel.drill = "none")

hasTrace(rows) == \E row \in rows : row.trace # NoTrace

onPoint(panel, rows) ==
  panel.viz = "service_map" \/ panel.click \/ panel.drill # "none" \/ hasTrace(rows)

\* The rows of logs and traces hand the table no onSelect: only their service cells select.
Selects(panel) == onSelect(panel) /\ panel.viz \notin {"logs", "traces"}

rowInteractive(panel, rows, row) ==
  \/ Selects(panel)
  \/ onPoint(panel, rows) /\ (panel.click \/ panel.drill # "none" \/ row.trace # NoTrace)

(***************************************************************************)
(* makeDrill                                                               *)
(***************************************************************************)
Clip(window, from, to) ==
  <<IF from > window[1] THEN from ELSE window[1], IF to < window[2] THEN to ELSE window[2]>>

Narrowed(d, selection) ==
  IF selection.time = NoValue \/ selection.trace_id # NoTrace THEN d.window
  ELSE Clip(d.window, selection.time, selection.time + d.width)

parseDrill(target) ==
  IF /\ target.span[1] < target.span[2] /\ target.window[1] < target.window[2]
     /\ target.window[2] - target.window[1] <= MaxSpan
     /\ target.span[1] >= target.window[1] /\ target.span[2] <= target.window[2]
  THEN target ELSE NoTarget

makeDrill(d, selection) ==
  IF d.panel.drill = "none" /\ d.panel.viz # "service_map" /\ selection.trace_id = NoTrace THEN NoTarget
  ELSE parseDrill(
    [kind |-> IF selection.trace_id # NoTrace \/ d.panel.viz = "service_map" THEN "traces" ELSE d.panel.drill,
     span |-> Narrowed(d, selection), window |-> d.window,
     value |-> selection.value, trace_id |-> selection.trace_id])

(***************************************************************************)
(* The drawer: its target, the list it came from and whether that list has *)
(* been answered.                                                          *)
(***************************************************************************)
DrawerInit ==
  \E panel \in Panels, window \in Windows, width \in Widths :
    drawer = [panel |-> panel, window |-> window, width |-> width, target |-> NoTarget,
              from |-> NoTarget, variable |-> NoValue, listed |-> FALSE]

drillSelection(d, selection) ==
  LET target == makeDrill(d, selection)
  IN IF target = NoTarget THEN d
     ELSE [d EXCEPT !.target = target, !.from = target, !.listed = FALSE,
             !.variable = IF d.panel.click /\ selection.value # NoValue THEN selection.value ELSE @]

Selected(d, value) == IF Selects(d.panel) THEN [d EXCEPT !.variable = value] ELSE d

\* A row takes the reader to its drill and sets its variable; the link of its trace
\* stops at the drill.
activate(rows, row) ==
  /\ drawer.panel.viz \in Tables /\ rowInteractive(drawer.panel, rows, row)
  /\ drawer' = Selected(IF onPoint(drawer.panel, rows) THEN drillSelection(drawer, rowModel(row)) ELSE drawer,
                        row.value)

traceLink(rows, row) ==
  /\ drawer.panel.viz \in Tables /\ row.trace # NoTrace /\ onPoint(drawer.panel, rows)
  /\ drawer' = drillSelection(drawer, rowModel(row))

point(bucket, value) ==
  /\ drawer.panel.viz \in ChartKinds \ {"service_map"} /\ onPoint(drawer.panel, {})
  /\ drawer' = Selected(drillSelection(drawer, pointSelection(bucket, value)), value)

service(value) ==
  /\ drawer.panel.viz = "service_map"
  /\ drawer' = Selected(drillSelection(drawer, pointSelection(NoValue, value)), value)

Listing(target) == target # NoTarget /\ target.trace_id = NoTrace

exemplarsAnswer ==
  /\ Listing(drawer.target) /\ ~drawer.listed
  /\ drawer' = [drawer EXCEPT !.listed = TRUE]

openTrace(trace) ==
  /\ drawer.listed /\ Listing(drawer.target) /\ drawer.target.kind # "logs"
  /\ drawer' = [drawer EXCEPT !.target.trace_id = trace]

backToTraces ==
  /\ drawer.target # NoTarget /\ ~Listing(drawer.target)
  /\ drawer' = [drawer EXCEPT !.target.trace_id = NoTrace]

close ==
  /\ drawer.target # NoTarget
  /\ drawer' = [drawer EXCEPT !.target = NoTarget, !.from = NoTarget]

DrawerNext ==
  \/ \E row \in Rows(drawer) :
       LET rows == {row} IN activate(rows, row) \/ traceLink(rows, row)
  \/ \E value \in Values :
       \/ service(value)
       \/ \E bucket \in Buckets(drawer) : point(bucket, value)
  \/ \E trace \in Traces : openTrace(trace)
  \/ exemplarsAnswer \/ backToTraces \/ close

(***************************************************************************)
(* Whatever bucket a chart draws, the first one cut by the window's start  *)
(* and the last one by its end included, opens a drill that lies in the    *)
(* bucket and in the window and is not empty (drill-state.ts:89-128).      *)
(***************************************************************************)
BucketsOpen ==
  drawer.panel.drill # "none" =>
    \A bucket \in Buckets(drawer) :
      LET target == makeDrill(drawer, pointSelection(bucket, NoValue))
      IN /\ target # NoTarget
         /\ target.span[1] < target.span[2]
         /\ drawer.window[1] <= target.span[1] /\ target.span[2] <= drawer.window[2]
         /\ bucket <= target.span[1] /\ target.span[2] <= bucket + drawer.width

(***************************************************************************)
(* Back from a trace is the list it was opened from: the same span and the *)
(* same selection.                                                         *)
(***************************************************************************)
BackIsTheList ==
  Listing(drawer.target) =>
    drawer.target = [drawer.from EXCEPT !.trace_id = NoTrace]

(***************************************************************************)
(* A row of a table that says it can be clicked, by its pointer and its    *)
(* place in the tab order, does something when it is.                      *)
(***************************************************************************)
InteractiveActs ==
  drawer.panel.viz = "table" => \A row \in Rows(drawer) :
    rowInteractive(drawer.panel, {row}, row) =>
      \/ Selects(drawer.panel)
      \/ makeDrill(drawer, rowModel(row)) # NoTarget
=============================================================================
