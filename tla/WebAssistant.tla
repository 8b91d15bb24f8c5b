---------------------------- MODULE WebAssistant -----------------------------
(***************************************************************************)
(* The assistant's pane of the web app, the drawing of the panels and      *)
(* traces that its answers and the pages show, and the tools that evaluate *)
(* the assistant.  They share no state: a behaviour is one of a single     *)
(* part, and v1, ... are its variables.  The parameters of the pane's      *)
(* parts are constants here; the drawing and the tools are small           *)
(* instances.                                                              *)
(***************************************************************************)
EXTENDS Integers, Sequences, FiniteSets, TLC

CONSTANT Parts        \* the parts that a run takes

CONSTANTS
  Threads, Stored, MaxLoads, MaxRuns,                              \* chat
  Views, Conns, MaxAcquire, MaxReconnect,                          \* mcp
  MaxQuestion,                                                     \* scroll
  Fragments, Alone, Choices, Brushed, MaxQueries, MaxMessages,     \* fragment
  PanelIds, Paths, Forms, MaxCalls                                 \* receipt

CONSTANTS  \* values that stand for nothing, and those of the small instances
  NoThread, NoConn, NoPanel, NoSpan, NoProcess, Stale, Unknown, NoJob, NoTool,
  Rest, null,
  x0, y0, m0, n0, A, B,
  i0, j0                \* two that nothing tells apart

ASSUME ViewsAssumption == IsFiniteSet(Views) /\ NoConn \notin Conns

VARIABLES part, v1, v2, v3, v4, v5

vars == <<part, v1, v2, v3, v4, v5>>

Chat     == INSTANCE ChatSession WITH chat <- v1, loads <- v2, runs <- v3, known <- v4, rail <- v5
Mcp      == INSTANCE McpFrames WITH Frames <- Views,
              frame <- v1, conn <- v2, shared <- v3, promise <- v4, html <- v5
Scroll   == INSTANCE ChatScroll WITH scroll <- v1
Fragment == INSTANCE FragmentView WITH Panels <- Alone, Filters <- Choices, Own <- "own",
              Spans <- Brushed, fragment <- v1, screen <- v2
Receipt  == INSTANCE BuildReceipt WITH Tools <- {"preview_panels", "create_dashboard", "edit_dashboard"},
              board <- v1, turnCalls <- v2
Saves    == INSTANCE BuildReceipt WITH Tools <- {"edit_dashboard"}, Forms <- {x0}, MaxCalls <- 3,
              board <- v1, turnCalls <- v2
Ledger   == INSTANCE CostLedger WITH Processes <- {i0, j0}, Runs <- {i0, j0, n0}, NoRun <- NoJob,
              Costs <- {2}, Cap <- 3, FirstEstimate <- 1, Reserve <- 2, MaxSteps <- 1,
              disk <- v1, lock <- v2, proc <- v3, server <- v4
Evals    == INSTANCE EvalRuns WITH Tools <- {x0, y0}, Boards <- {A, B}, MaxVersion <- 2,
              Ids <- {i0, j0}, New <- n0, Contents <- {x0, y0}, Grids <- {1, 2}, Metas <- {m0},
              Served <- x0 :> y0 @@ y0 :> y0, MaxChecks <- 2,
              agent <- v1, client <- v2, edit <- v1, run <- v2
Data     == INSTANCE PanelFrames WITH Names <- {i0, j0, Rest}, OtherName <- Rest, NoValue <- null,
              Slots <- 1, CapPercent <- 60, Capacity <- 2, MaxX <- 3, MaxValue <- 2, MaxRows <- 3,
              rows <- v1
Plot     == INSTANCE ChartDrawing WITH Units <- {"count", "ms", "ns", "bytes"},
              NoValue <- null,
              Values <- {-700, 45, 130000}, Heights <- {40, 640}, MaxSeries <- 2, GaugeMax <- 3,
              MaxLimits <- 3, Services <- {"a"}, InScope <- {[service |-> "a", ns |-> "x"]},
              Spaces <- {"x", ""}, From <- 2, To <- 6, MaxAnomalies <- 2, MaxDeploys <- 1,
              LegendWidths <- {<<>>, <<60, 60>>}, RowNames <- 7,
              Sizes <- {[width |-> 130, height |-> 60], [width |-> 400, height |-> 150]},
              drawing <- v1, chart <- v2, annotated <- v1
Trace    == INSTANCE TraceView WITH Count <- 3, NoSpan <- 0, Starts <- {0, 1}, Durations <- {1},
              AxisWidths <- {5},
              trace <- v1

\* Each part sets its own variables; the rest are off.
Init ==
  /\ part \in Parts
  /\ \/ part = "chat" /\ Chat!ChatInit
     \/ part = "mcp" /\ Mcp!McpInit
     \/ v5 = "off" /\ part = "ledger" /\ Ledger!LedgerInit
     \/ /\ v3 = "off" /\ v4 = "off" /\ v5 = "off"
        /\ \/ part = "fragment" /\ Fragment!FragmentInit
           \/ part = "receipt" /\ Receipt!ReceiptInit
           \/ part = "saves" /\ Saves!ReceiptInit
           \/ part = "stream" /\ Evals!StreamInit
           \/ part = "score" /\ Evals!ScoreInit
           \/ part = "axes" /\ Plot!AxesInit
     \/ /\ v2 = "off" /\ v3 = "off" /\ v4 = "off" /\ v5 = "off"
        /\ \/ part = "scroll" /\ Scroll!ScrollInit
           \/ part = "frames" /\ Data!FramesInit
           \/ part = "marks" /\ Plot!AnnotationsInit
           \/ part = "trace" /\ Trace!TraceInit

Next ==
  \/ part = "chat" /\ Chat!ChatNext /\ UNCHANGED part
  \/ part = "mcp" /\ Mcp!McpNext /\ UNCHANGED part
  \/ part = "ledger" /\ Ledger!LedgerNext /\ UNCHANGED <<part, v5>>
  \/ part = "fragment" /\ Fragment!FragmentNext /\ UNCHANGED <<part, v3, v4, v5>>
  \/ part = "receipt" /\ Receipt!ReceiptNext /\ UNCHANGED <<part, v3, v4, v5>>
  \/ part = "saves" /\ Saves!ReceiptNext /\ UNCHANGED <<part, v3, v4, v5>>
  \/ part = "stream" /\ Evals!StreamNext /\ UNCHANGED <<part, v3, v4, v5>>
  \/ part = "score" /\ Evals!ScoreNext /\ UNCHANGED <<part, v3, v4, v5>>
  \/ part = "axes" /\ Plot!AxesNext /\ UNCHANGED <<part, v3, v4, v5>>
  \/ part = "scroll" /\ Scroll!ScrollNext /\ UNCHANGED <<part, v2, v3, v4, v5>>
  \/ part = "frames" /\ Data!FramesNext /\ UNCHANGED <<part, v2, v3, v4, v5>>
  \/ part = "marks" /\ Plot!AnnotationsNext /\ UNCHANGED <<part, v2, v3, v4, v5>>
  \/ part = "trace" /\ Trace!TraceNext /\ UNCHANGED <<part, v2, v3, v4, v5>>

Spec == Init /\ [][Next]_vars

AssistantSymmetry == Permutations({i0, j0})

(***************************************************************************)
(* The assistant's pane tells the truth about its thread: the transcript,  *)
(* the run and the views of it are those of the thread shown and of what   *)
(* was last asked, whatever is answered late (app.tsx, mcp-app-frame.tsx,  *)
(* fragment-view.tsx).                                                     *)
(***************************************************************************)
PaneFollowsThread ==
  /\ part = "chat" => Chat!ShownIsCurrent /\ Chat!RunningIsHeard
  /\ part = "mcp" => Mcp!ReferencesExact /\ Mcp!OneConnection
  /\ part = "fragment" => Fragment!ShownIsAsked /\ Fragment!AloneOnWholeScreen

\* Only the reader moves the conversation or asks again: no event that the page
\* caused itself lets go of the question or repeats a query (chat-scroll.ts,
\* fragment-view.tsx).
OnlyTheReaderActs ==
  /\ [][part = "scroll" => Scroll!OnlyReaderReleases]_vars
  /\ [][part = "fragment" => Fragment!OneQueryPerBrush]_vars

(***************************************************************************)
(* A drawing leaves nothing of its frame out without counting it, and puts *)
(* every value where its axis says and every label where it can be read    *)
(* (frame.ts, series.ts, compile.ts, annotations.ts, trace/waterfall.tsx). *)
(***************************************************************************)
DrawingsHoldTheirFrame ==
  /\ part = "frames" => Data!CountsConserved /\ Data!HiddenCounted /\ Data!RowsDrawn
                          /\ Data!RunsExact /\ Data!HeatOrdered /\ Data!HeadlineAgrees
  /\ part = "axes" => Plot!AxisHolds /\ Plot!TicksReadApart /\ Plot!EndLabelsPlaced /\ Plot!GaugeAgrees
  /\ part = "marks" => Plot!EpisodesAreTheUnion /\ Plot!LabelsKeepTheirRow /\ Plot!RowsDrawnOrCounted
  /\ part = "trace" => Trace!EverySpanListed /\ Trace!FramesApart

(***************************************************************************)
(* What is put on record is what happened: the receipt of a build names    *)
(* what its calls changed and nothing they put back, and the ledger of an  *)
(* evaluation agrees with what the provider billed and the cap holds,      *)
(* crashes and concurrent invocations included (dashboard-receipt.ts,      *)
(* transport.ts, judge.ts).                                                *)
(***************************************************************************)
RecordsAreTrue ==
  /\ part = "receipt" => Receipt!NetChangesTell /\ Receipt!ReceiptTellsTheTurn
  /\ part = "saves" => Saves!NetChangesTell /\ Saves!ReceiptTellsTheTurn
  /\ part = "ledger" => Ledger!LedgerTrue /\ Ledger!OverrunIsOnePrompt

(***************************************************************************)
(* The evaluation is fair: a run is credited with what its calls did and   *)
(* nothing else, an edit passes only if all it was not asked for stayed,   *)
(* and a run passes only on what its panels showed (dashboard-eval's       *)
(* main.ts, transport.ts and score.ts).                                    *)
(***************************************************************************)
EvaluationIsFair ==
  /\ part = "stream" => Evals!CreditedWithWhatItDid
  /\ part = "score" => Evals!EditJudged /\ Evals!OneCheckEach
=============================================================================
