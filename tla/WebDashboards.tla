--------------------------- MODULE WebDashboards -----------------------------
(***************************************************************************)
(* The dashboards of the web app: the edits of one, the view its address   *)
(* holds, its variables, the results of its panels, the card of a panel,   *)
(* what its points and rows open, the dialog that saves one, and two       *)
(* readers of a panel, the service map and the keyboard on a chart.  They  *)
(* are put together here to share a run; a behaviour is one of a single    *)
(* part, and v1, ... are its variables.  Card, drill and dialog are small  *)
(* instances.                                                              *)
(***************************************************************************)
EXTENDS Integers, Sequences, FiniteSets, TLC

CONSTANT Parts        \* the parts that a run takes

CONSTANTS
  MaxVersion, MaxCalls,                           \* edits
  Ranges, Spans, OpenPanels, MaxHistory,          \* view
  Variables, Values, Times, MaxReads, All,        \* bar
  Panels, BusyGroup, Retries,                     \* results
  Maps, Widths, Inline,                           \* map
  Charts, Interval                                \* reader

CONSTANTS  \* values that stand for nothing, and those of the small instance
  NoTime, NoSpan, NoPanel, NoValue, NoLayout, NoService, NoPoint, NoRange,
  NoAnswer, NoTrace, a0, b0, x0, y0, s0, t0, b1, b2,
  i0, j0                  \* two that nothing tells apart

\* A time is none, a relative range, or a pair of instants.
Time == {NoTime} \cup {Ranges[i] : i \in DOMAIN Ranges} \cup Int \X Int

ASSUME RangesAssumption == Ranges # <<>> /\ DOMAIN Ranges = 1 .. Len(Ranges) /\ Len(Ranges) \in Nat

ASSUME SpansAssumption == Spans \subseteq Int \X Int /\ NoSpan \notin Time

ASSUME ChartsAssumption ==
  /\ Interval \in Nat \ {0} /\ NoPoint \notin Nat \X Nat
  /\ \A r \in Charts :
       /\ r.points \subseteq Nat \X Nat /\ IsFiniteSet(r.points)
       /\ r.from \in Nat /\ r.to \in Nat /\ r.from < r.to
       /\ \A p \in r.points : r.from < p[2] + Interval /\ p[2] < r.to

ASSUME VariablesAssumption == \A v \in Variables : v.multi \in BOOLEAN /\ v.all \in BOOLEAN

VARIABLES part, v1, v2, v3, v4, v5

vars == <<part, v1, v2, v3, v4, v5>>

\* Values for the run.
Variable(kind, multi, all, default, options) ==
  [kind |-> kind, multi |-> multi, all |-> all, default |-> default, options |-> options]

MCVariables ==
  {Variable("query", TRUE, TRUE, NoValue, <<>>), Variable("custom", FALSE, FALSE, NoValue, <<a0, b0>>)}

MCRanges == <<x0, y0>>
MCSpans == {<<10, 20>>, <<12, 15>>}

Chart(points, from, to) == [points |-> points, from |-> from, to |-> to]

\* The first bucket of a window may begin before it (bucket.go:43).
MCCharts ==
  {Chart({<<1, 2>>, <<1, 4>>, <<1, 6>>, <<2, 2>>, <<2, 6>>}, 2, 8),
   Chart({<<1, 2>>, <<1, 4>>, <<1, 6>>, <<2, 4>>}, 3, 8), Chart({<<2, 2>>, <<2, 4>>}, 2, 5), Chart({}, 1, 4)}

Graph(nodes, edges) == [nodes |-> nodes, edges |-> edges]

MCMaps ==
  {Graph(1 :> "ok" @@ 2 :> "ok", {<<1, 2>>}), Graph(1 :> "bad" @@ 2 :> "ok", {<<1, 2>>}),
   Graph(1 :> "ok" @@ 2 :> "ok" @@ 3 :> "ok" @@ 4 :> "ok", {<<1, 2>>}),
   Graph(1 :> "ok", {<<1, 2>>, <<2, 3>>})}

Row(service, body) == [service |-> service, body |-> body]

MCFrames == {<<Row(s0, x0), Row(s0, y0), Row(s0, x0)>>, <<Row(s0, x0), Row(t0, x0)>>,
             <<[service |-> s0, n |-> 1], [service |-> s0, n |-> 2]>>}

Result(status, busy, error, request, frame) ==
  [status |-> status, busy |-> busy, error |-> error, request |-> request, frame |-> frame]

MCResults ==
  {Result("ok", FALSE, FALSE, FALSE, f) : f \in MCFrames}
    \cup {Result("ok", FALSE, TRUE, rq, f) : rq \in BOOLEAN,
            f \in {g \in MCFrames : "body" \in DOMAIN g[1]}}
    \cup {Result("ok", TRUE, TRUE, TRUE, <<Row(s0, x0), Row(s0, y0), Row(s0, x0)>>),
          Result("empty", FALSE, FALSE, FALSE, <<>>),
          Result("error", TRUE, TRUE, TRUE, <<>>), Result("invalid", FALSE, TRUE, FALSE, <<>>)}
    \cup {Result("error", FALSE, TRUE, rq, <<>>) : rq \in BOOLEAN}

MCPanels == [viz : {"table", "logs", "traces", "timeseries", "service_map"},
             drill : {"none", "traces", "logs"}, click : BOOLEAN]

Edits    == INSTANCE DashboardEdits WITH versions <- v1, page <- v2, editor <- v3, drawer <- v4,
              calls <- v5
View     == INSTANCE DashboardView WITH Panels <- OpenPanels, page <- v1
Bar      == INSTANCE DashboardVariables WITH vars <- v1
Batches  == INSTANCE PanelResults WITH panels <- v1
Map      == INSTANCE ServiceMap WITH Frames <- Maps, frame <- v1, map <- v2
Reader   == INSTANCE ChartKeyboard WITH Results <- Charts, reader <- v1
Card     == INSTANCE PanelCard WITH Results <- MCResults, Viz <- {"logs", "acting", "plain"},
              Page <- 1, Beat <- 2, MaxAge <- 2, NoResult <- NoAnswer,
              card <- v1
Drill    == INSTANCE PanelDrill WITH Panels <- MCPanels, Windows <- {<<0, 3>>, <<1, 4>>},
              Widths <- {1, 2}, Values <- {a0}, Traces <- {t0}, MaxSpan <- 3,
              drawer <- v1
Save     == INSTANCE SaveDialog WITH Dialogs <- {i0, j0}, Boards <- {b1, b2}, NoBoard <- NoPanel,
              MaxPresses <- 2, MaxElsewhere <- 1,
              boards <- v1, dialogs <- v2

\* No layout, and no key of one, is the value for none.
ASSUME MapsAssumption ==
  \A f \in Maps :
    LET model == Map!serviceMapModel(f)
        key == Map!structure(model)
    IN NoLayout # key /\ NoLayout # [key |-> key, model |-> model]

\* Each part sets its own variables; the rest are off.
Init ==
  /\ part \in Parts
  /\ \/ part = "edits" /\ Edits!EditsInit
     \/ /\ v3 = "off" /\ v4 = "off" /\ v5 = "off"
        /\ \/ part = "map" /\ Map!MapInit
           \/ part = "save" /\ Save!SaveInit
     \/ /\ v2 = "off" /\ v3 = "off" /\ v4 = "off" /\ v5 = "off"
        /\ \/ part = "view" /\ View!ViewInit
           \/ part = "bar" /\ Bar!VariablesInit
           \/ part = "results" /\ Batches!PanelsInit
           \/ part = "reader" /\ Reader!KeyboardInit
           \/ part = "card" /\ Card!CardInit
           \/ part = "drill" /\ Drill!DrawerInit

Next ==
  \/ part = "edits" /\ Edits!EditsNext /\ UNCHANGED part
  \/ part = "map" /\ Map!MapNext /\ UNCHANGED <<part, v3, v4, v5>>
  \/ part = "view" /\ View!ViewNext /\ UNCHANGED <<part, v2, v3, v4, v5>>
  \/ part = "bar" /\ Bar!VariablesNext /\ UNCHANGED <<part, v2, v3, v4, v5>>
  \/ part = "results" /\ Batches!PanelsNext /\ UNCHANGED <<part, v2, v3, v4, v5>>
  \/ part = "reader" /\ Reader!KeyboardNext /\ UNCHANGED <<part, v2, v3, v4, v5>>
  \/ part = "card" /\ Card!CardNext /\ UNCHANGED <<part, v2, v3, v4, v5>>
  \/ part = "drill" /\ Drill!DrawerNext /\ UNCHANGED <<part, v2, v3, v4, v5>>
  \/ part = "save" /\ Save!SaveNext /\ UNCHANGED <<part, v3, v4, v5>>

Spec == Init /\ [][Next]_vars

DashboardsSymmetry == Permutations({i0, j0})

(***************************************************************************)
(* The dashboard shown is the one on the server and in the address: a      *)
(* restore is confirmed by the drawer that asked for it, and no older read *)
(* of the record undoes it or a panel's save, but for what nothing orders, *)
(* a panel editor's "Load latest" and a save of the grid answered late; a  *)
(* zoom comes back; the variable bar shows the values the panels are asked *)
(* with; a visible panel is asked, and a refresh sent, but for one that a  *)
(* retry with nothing left to send holds (history.tsx, dashboards/page.tsx,*)
(* use-variables.ts, use-panel-results.ts).                                *)
(***************************************************************************)
DashboardIsCurrent ==
  /\ part = "edits" => Edits!OneRestore /\ Edits!ReadsKeepAnswer /\ Edits!ConfirmsItsRestore
  /\ part = "view" => View!ZoomComesBack
  /\ part = "bar" => Bar!BarSaysWhatRuns /\ Bar!PlaceholdersNeverAsk
  /\ part = "results" => Batches!VisibleAsked

(***************************************************************************)
(* What the page points at is there: the map draws what it has laid out,   *)
(* where the reader's view is of it, and the keyboard's range and          *)
(* highlight are on the chart (service-map.tsx, chart-keyboard.tsx).       *)
(***************************************************************************)
PointersHold ==
  /\ part = "map" => Map!DrawnIsLaidOut /\ Map!FitFollows
  /\ part = "reader" => Reader!RangeHolds /\ Reader!HighlightOnChart

(***************************************************************************)
(* A panel says how current and complete its result is, offers a remedy    *)
(* for every failure, and opens what was pointed at: the rows, the bucket, *)
(* the trace; the map lists the services without calls in rows that fit    *)
(* it; and what is told of a press of Save is what became of the panel     *)
(* (panel-card.tsx, table.tsx, drill.tsx, service-map-layout.ts,           *)
(* save-dialog.tsx).                                                       *)
(***************************************************************************)
PanelsTell ==
  /\ part = "card" => Card!AgeIsTold /\ Card!OpenRowsWereOpened /\ Card!FailureHasARemedy
                        /\ Card!FoldingKeepsRowsApart /\ Card!SeveritiesAgree
  /\ part = "drill" => Drill!BucketsOpen /\ Drill!BackIsTheList /\ Drill!InteractiveActs
  /\ part = "map" => Map!IsolatedWrapped
  /\ part = "save" => Save!SavesTell

\* No saved edit is lost to a draft that was open, no frame to a failed refresh,
\* no drag opens a service, and a refresh leaves the reader of a chart at the point
\* (grid.tsx, use-panel-results.ts, service-map.tsx, chart-keyboard.tsx).
NothingMovesUnasked ==
  /\ [][part = "edits" => Edits!NoEditLost]_vars
  /\ [][part = "results" => Batches!FramesKept]_vars
  /\ [][part = "map" => Map!DragOpensNothing]_vars
  /\ [][part = "reader" => Reader!RefreshKeepsPoint]_vars
=============================================================================
