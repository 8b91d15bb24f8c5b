------------------------------ MODULE ChartDrawing -----------------------------
(***************************************************************************)
(* What a chart draws beside its series (src/ui/panels).  First its value  *)
(* axis, end labels and gauge: units.ts, thresholds.ts, compile.ts and the *)
(* part of the canvas that draws them (echart-canvas.tsx).  A time series  *)
(* is drawn from its frame for a nominal height; a row of annotation       *)
(* labels may take some of it; the plot the chart library leaves is        *)
(* smaller again, and each time the axis is recomputed from the bounds it  *)
(* already has.  A value is a whole number of the smallest part of its     *)
(* unit (PerMs, one byte, one hundredth).  Then the deploys and anomalies  *)
(* over it (withAnnotations, annotations.ts) and the rows of a state       *)
(* timeline, which their labels may push out (analysis.ts): the steps are  *)
(* the annotations the server answers with and the panel's changes of      *)
(* size, at times 2, 4, ... so that the odd ones lie between.  Colours,    *)
(* fonts and wording are left out; text is only as wide as it measures.    *)
(***************************************************************************)
EXTENDS Integers, Sequences, FiniteSets
LOCAL INSTANCE SequencesExt
LOCAL INSTANCE FiniteSetsExt

CONSTANTS Units, Values, NoValue, Heights, MaxSeries,
          GaugeMax,    \* gauge values are 0..GaugeMax, its thresholds too
          MaxLimits    \* thresholds of a gauge

CONSTANTS Services,      \* services of the panel's scope, and others
          InScope,       \* [service, ns] of the panel's annotation scope
          Spaces,        \* namespaces an annotation names, or ""
          From, To,      \* the panel's window
          MaxAnomalies, MaxDeploys,
          Sizes,         \* [width, height] of the panel
          LegendWidths,  \* widths of its legend entries
          RowNames       \* rows of a state timeline

VARIABLES drawing,   \* what the panel shows: its frame, style, unit and height
          chart,     \* what is on the canvas: the axis and the labels, or the gauge
          annotated  \* annotations and size of a panel

axisVars == <<drawing, chart>>

Nothing == [viz |-> "none"]

AxesInit == drawing = Nothing /\ chart = Nothing

CeilDiv(a, b) == -((-a) \div b)
Least(S, bound) == Min({s \in S : s >= bound})
Magnitude(v) == IF v < 0 THEN -v ELSE v

(***************************************************************************)
(* units.ts: the axis                                                      *)
(***************************************************************************)
Steps125 == {k * 10^e : k \in {1, 2, 5}, e \in 0..8}

IsDuration(unit) == unit \in {"ms", "s", "ns"}

\* Parts of one millisecond in which values of the unit are counted here.
PerMs(unit) == CASE unit = "ns" -> 1000000 [] unit = "ms" -> 100 [] unit = "s" -> 1

\* The steps of niceStep that a 32-bit number holds: 1, 2 and 5 times a power of ten;
\* of a binary unit, of which a thousand are one of the next; or of a unit of time.
NiceSteps(unit) ==
  IF unit = "bytes"
  THEN {k * 1024^power : k \in {s \in Steps125 : s < 1000}, power \in 0..2}
  ELSE IF IsDuration(unit)
  THEN {s \in Steps125 : s < PerMs(unit)} \cup
       {n * base * PerMs(unit) : n \in {1, 2, 5},
          base \in {b \in {1, 10, 100, 1000, 10000, 60000, 600000, 3600000, 36000000} : b <= 400000000 \div PerMs(unit)}}
  ELSE Steps125

niceStep(target, unit) == Least(NiceSteps(unit), target)

\* About one tick per 70 pixels, both ends included.
valueAxisTicks(pixels) == Max({3, Min({10, (pixels + 35) \div 70})}) - 1

valueAxis(low, high, unit, pixels) ==
  LET min == Min({0, low})
      max == IF Max({0, high}) = min THEN min + 1 ELSE Max({0, high})
      ticks == valueAxisTicks(pixels)
      first == niceStep(CeilDiv(max - min, ticks), unit)
      Fits(step) == CeilDiv(max, step) - (min \div step) <= ticks
      interval == Min({step \in NiceSteps(unit) : step >= first /\ Fits(step)})
  IN [min |-> (min \div interval) * interval, max |-> CeilDiv(max, interval) * interval,
      interval |-> interval, splitNumber |-> ticks, unit |-> unit]

adaptValueAxis(axis, pixels) == valueAxis(axis.min, axis.max, axis.unit, pixels)

\* A step of hundredths of the size, and a value rounded to them.
InHundredths(step, size) ==
  IF size % 100 = 0 THEN step % (size \div 100) = 0 ELSE ((step % size) * 100) % size = 0
Hundredths(v, size) ==
  IF size % 100 = 0 THEN (v + size \div 200) \div (size \div 100)
  ELSE (v \div size) * 100 + ((v % size) * 100 + size \div 2) \div size

\* The unit the ticks print in: the largest the axis reaches that reads in two decimals.
tickSize(axis) ==
  LET sizes == CASE axis.unit = "bytes" -> {1024, 1024^2}
                 [] IsDuration(axis.unit) -> {ms * PerMs(axis.unit) : ms \in
                      {s \in {1, 1000, 60000, 3600000} : s <= 2000000000 \div PerMs(axis.unit)}}
                 [] OTHER -> {}
      extent == Max({Magnitude(axis.min), Magnitude(axis.max)})
      fit == {s \in sizes : extent >= s /\ InHundredths(axis.interval, s)}
  IN IF fit # {} THEN Max(fit)
     ELSE CASE axis.unit = "bytes" -> 1 [] IsDuration(axis.unit) -> PerMs(axis.unit) [] OTHER -> 100

\* Below one the number keeps three digits, and a tick has no more.
formatAxis(axis, v) ==
  IF Magnitude(v) < tickSize(axis) THEN <<"exact", v>>
  ELSE <<"hundredths", Hundredths(v, tickSize(axis))>>

(***************************************************************************)
(* thresholds.ts and the gauge of compile.ts                               *)
(***************************************************************************)
Statuses == {"ok", "warn", "bad"}
rank(s) == CASE s = "ok" -> 0 [] s = "warn" -> 1 [] s = "bad" -> 2

thresholdDirection(limits) ==
  LET ordered == SortSeq(limits, LAMBDA s, t : rank(s.status) < rank(t.status))
      best == Head(ordered)
      worst == Last(ordered)
  IN IF rank(worst.status) > rank(best.status) /\ worst.value < best.value THEN "higher" ELSE "lower"

statusFor(v, limits, better) ==
  LET worse == IF better = "none" THEN thresholdDirection(limits) ELSE better
      crossed == {t \in Range(limits) : IF worse = "lower" THEN v >= t.value ELSE v <= t.value}
  IN IF v = NoValue \/ limits = <<>> THEN "none"
     ELSE CHOOSE s \in {"ok"} \cup {t.status : t \in crossed} :
            \A t \in crossed : rank(t.status) <= rank(s)

\* The gauge's range is 1..GaugeMax - 1; values are doubled, so a midpoint is whole.
GaugeFrom == 2
GaugeTo == 2 * (GaugeMax - 1)

gaugeBands(limits, better) ==
  LET Clamped(t) == Min({GaugeTo, Max({GaugeFrom, t.value})})
      edges == SetToSortSeq({GaugeFrom, GaugeTo} \cup {Clamped(t) : t \in Range(limits)}, <)
      Status(i) == LET s == statusFor((edges[i] + edges[i + 1]) \div 2, limits, better)
                   IN IF s = "none" THEN "ok" ELSE s
      Band(bands, i) ==
        IF bands # <<>> /\ Last(bands).status = Status(i)
        THEN [bands EXCEPT ![Len(bands)].end = edges[i + 1]]
        ELSE Append(bands, [end |-> edges[i + 1], status |-> Status(i)])
  IN FoldLeft(Band, <<>>, [i \in 1..(Len(edges) - 1) |-> i])

gaugeOption(limits, better, v) ==
  [viz |-> "gauge", bands |-> gaugeBands(limits, better), fill |-> statusFor(v, limits, better),
   marker |-> Min({GaugeTo, Max({GaugeFrom, IF v = NoValue THEN GaugeFrom ELSE v})})]

drawGauge(v, better) ==
  /\ drawing = Nothing
  /\ drawing' = [viz |-> "gauge", value |-> v, better |-> better, limits |-> <<>>]
  /\ chart' = gaugeOption(<<>>, better, v)

\* The panel's author adds a threshold.
addThreshold(value, status) ==
  /\ drawing.viz = "gauge" /\ Len(drawing.limits) < MaxLimits
  /\ LET limits == Append(drawing.limits, [value |-> value, status |-> status])
     IN /\ drawing' = [drawing EXCEPT !.limits = limits]
        /\ chart' = gaugeOption(limits, drawing.better, drawing.value)

(***************************************************************************)
(* The time series of compile.ts                                           *)
(***************************************************************************)
Points(frame) == {frame[s][t] : s \in DOMAIN frame, t \in 1..2} \ {NoValue}

StackAt(frame, t, positive) ==
  FoldLeft(LAMBDA sum, s : LET v == s[t]
                           IN IF v # NoValue /\ (v > 0) = positive THEN sum + v ELSE sum, 0, frame)

timeseriesBounds(frame, style, unit, height) ==
  LET values == {0} \cup Points(frame)
                  \cup IF style = "stacked" THEN {StackAt(frame, t, p) : t \in 1..2, p \in BOOLEAN} ELSE {}
  IN valueAxis(Min(values), Max(values), unit, height)

LabelHeight == 16
Half == LabelHeight \div 2

direct(frame, style) == Len(frame) \in 2..6 /\ style = "line"

\* Labels are placed in the series' order, each as near as possible to the end of
\* its line and clear of those before it; one without a free slot is not shown.
layoutEndLabels(frame, shown, axis, height) ==
  LET LastOf(s) == IF s[2] # NoValue THEN s[2] ELSE s[1]
      Desired(v) == height - (height * ((v - axis.min) \div Max({1, axis.interval \div 20}))) \div
                              Max({1, (axis.max - axis.min) \div Max({1, axis.interval \div 20})})
      Clear(y, placed) == /\ y - Half >= 0 /\ y + Half <= height
                          /\ \A p \in Range(placed) \ {NoValue} : Magnitude(p - y) >= LabelHeight
      Slots(d, placed) ==
        {y \in {Max({Half, Min({height - Half, d})})}
               \cup {p - LabelHeight : p \in Range(placed) \ {NoValue}}
               \cup {p + LabelHeight : p \in Range(placed) \ {NoValue}} : Clear(y, placed)}
      Place(placed, i) ==
        LET v == LastOf(frame[i])
            d == Desired(v)
        IN Append(placed, IF i \notin shown \/ v = NoValue \/ Slots(d, placed) = {} THEN NoValue
                          ELSE CHOOSE y \in Slots(d, placed) :
                                 \A z \in Slots(d, placed) : Magnitude(y - d) <= Magnitude(z - d))
  IN FoldLeft(Place, <<>>, [i \in DOMAIN frame |-> i])

timeseriesOption(d, height) ==
  LET axis == timeseriesBounds(d.frame, d.style, d.unit, height)
      shown == IF direct(d.frame, d.style) THEN 1..Min({Len(d.frame), height \div LabelHeight}) ELSE {}
  IN [viz |-> "timeseries", stage |-> "nominal", axis |-> axis, height |-> height, shown |-> shown,
      labels |-> layoutEndLabels(d.frame, shown, axis, height)]

Draw(d) == drawing' = d /\ chart' = timeseriesOption(d, d.height)

drawSeries(s, style, unit, height) ==
  /\ drawing = Nothing
  /\ Draw([viz |-> "timeseries", frame |-> <<s>>, style |-> style, unit |-> unit, height |-> height])

\* A refresh brings one more series.
addSeries(s) ==
  /\ drawing.viz = "timeseries" /\ Len(drawing.frame) < MaxSeries
  /\ Draw([drawing EXCEPT !.frame = Append(@, s)])

resize(height) == drawing.viz = "timeseries" /\ Draw([drawing EXCEPT !.height = height])

Readapted(stage, height) ==
  [chart EXCEPT !.stage = stage, !.height = height, !.axis = adaptValueAxis(chart.axis, height)]

\* withAnnotations reserves a row of labels above the plot.
AnnotationRow == 18
reserveRow ==
  /\ chart.viz = "timeseries" /\ chart.stage = "nominal" /\ chart.height > AnnotationRow
  /\ chart' = Readapted("annotated", chart.height - AnnotationRow)
  /\ UNCHANGED drawing

\* apply: the plot the library leaves once the axis labels are inside the grid.
applyNative(height) ==
  /\ chart.viz = "timeseries" /\ chart.stage # "native" /\ height <= chart.height
  /\ LET adapted == Readapted("native", height)
         axis == IF adapted.axis.splitNumber # chart.axis.splitNumber
                      \/ adapted.axis.interval # chart.axis.interval
                 THEN adapted.axis ELSE chart.axis
     IN chart' = [adapted EXCEPT !.axis = axis,
                                 !.labels = layoutEndLabels(drawing.frame, {i \in chart.shown : chart.labels[i] # NoValue},
                                                            axis, height)]
  /\ UNCHANGED drawing

Cells2 == [1..2 -> Values \cup {NoValue}]

AxesNext ==
  \/ \E s \in Cells2, style \in {"line", "stacked"}, unit \in Units, h \in Heights :
       drawSeries(s, style, unit, h)
  \/ \E s \in Cells2 : addSeries(s)
  \/ \E h \in Heights : resize(h)
  \/ reserveRow
  \/ \E h \in {h - 10 : h \in Heights} \cup Heights : applyNative(h)
  \/ \E v \in {2 * n : n \in 0..GaugeMax} \cup {NoValue}, better \in {"none", "lower", "higher"} : drawGauge(v, better)
  \/ \E n \in 0..GaugeMax, s \in Statuses : addThreshold(2 * n, s)

(***************************************************************************)
(* Properties                                                              *)
(***************************************************************************)

\* Whatever is recomputed from rounded bounds, after a row of labels or the native plot
\* took some of the height, the axis holds every point and every stack, ends on ticks
\* and has no more of them than its pixels have room for (units.ts, valueAxis).
AxisHolds ==
  chart.viz = "timeseries" =>
    LET axis == chart.axis
        stacks == IF drawing.style = "stacked" THEN {StackAt(drawing.frame, t, p) : t \in 1..2, p \in BOOLEAN} ELSE {}
    IN /\ \A v \in Points(drawing.frame) \cup stacks : axis.min <= v /\ v <= axis.max
       /\ axis.min % axis.interval = 0 /\ axis.max % axis.interval = 0
       /\ (axis.max - axis.min) \div axis.interval <= valueAxisTicks(chart.height)

\* No two ticks of an axis print alike, whichever unit formatAxis picks for them.
TicksReadApart ==
  chart.viz = "timeseries" =>
    LET axis == chart.axis
        ticks == {axis.min + k * axis.interval : k \in 0..((axis.max - axis.min) \div axis.interval)}
    IN Cardinality({formatAxis(axis, v) : v \in ticks}) = Cardinality(ticks)

\* The labels at the ends of the lines overlap neither each other nor the edge of the
\* plot they were laid out for, and one that is left to the legend had no room at all.
EndLabelsPlaced ==
  chart.viz = "timeseries" /\ chart.stage # "annotated" =>
    LET At(i) == chart.labels[i]
        placed == {i \in DOMAIN chart.labels : At(i) # NoValue}
        Empty(i) == drawing.frame[i] = [t \in 1..2 |-> NoValue]
    IN /\ \A i \in placed : At(i) - Half >= 0 /\ At(i) + Half <= chart.height
       /\ \A i, j \in placed : i # j => Magnitude(At(i) - At(j)) >= LabelHeight
       /\ chart.stage = "nominal" => \A i \in chart.shown \ placed :
            Empty(i) \/ \A y \in Half..(chart.height - Half) :
                         \E j \in placed \cap 1..(i - 1) : Magnitude(At(j) - y) < LabelHeight

\* Off a threshold, the band under the gauge's marker has the status its value is shown
\* with ("the gauge and the stat card can never disagree"), and bands change status.
GaugeAgrees ==
  chart.viz = "gauge" =>
    LET bands == chart.bands
        Lower(i) == IF i = 1 THEN GaugeFrom ELSE bands[i - 1].end
        Limits == {t.value : t \in Range(drawing.limits)}
        StatusAt(v) == statusFor(v, drawing.limits, drawing.better)
    IN /\ bands[Len(bands)].end = GaugeTo
       /\ \A i \in DOMAIN bands : \A v \in (Lower(i) + 1)..(bands[i].end - 1) :
            v \in Limits \/ StatusAt(v) \in {bands[i].status, "none"}
       /\ \A i \in 2..Len(bands) : bands[i].status # bands[i - 1].status

-----------------------------------------------------------------------------
(* Deploys, anomalies and the rows of a state timeline.                   *)

annotationVars == <<annotated>>

Instants == {2 * n : n \in 0..((To + 2) \div 2)}
Windows == {w \in [from : Instants, to : Instants, service : Services, ns : Spaces] : w.from < w.to}
DeploysSeen == [at : Instants, service : Services, ns : Spaces]

AnnotationsInit ==
  annotated \in [viz : {"timeseries", "state_timeline"}, scoped : BOOLEAN, size : Sizes,
                 legend : LegendWidths, anomalies : {<<>>}, deploys : {<<>>}]

anomalyRaised(w) ==
  /\ Len(annotated.anomalies) < MaxAnomalies
  /\ annotated' = [annotated EXCEPT !.anomalies = Append(@, w)]

deployed(d) ==
  /\ Len(annotated.deploys) < MaxDeploys
  /\ annotated' = [annotated EXCEPT !.deploys = Append(@, d)]

resized(size) == size # annotated.size /\ annotated' = [annotated EXCEPT !.size = size]

AnnotationsNext ==
  \/ \E w \in Windows : anomalyRaised(w)
  \/ \E d \in DeploysSeen : deployed(d)
  \/ \E size \in Sizes : resized(size)

\* A service-level annotation without a namespace matches unless the scope names one.
matches(a) ==
  \E s \in InScope : s.service = a.service /\ (s.ns = a.ns \/ (a.ns = "" /\ ~annotated.scoped))

deployLines == SelectSeq(annotated.deploys, LAMBDA d : matches(d) /\ d.at >= From /\ d.at < To)

shownWindows ==
  SortSeq(SelectSeq(annotated.anomalies, LAMBDA w : matches(w) /\ w.to > From /\ w.from < To),
          LAMBDA v, w : v.from < w.from)

\* Windows that meet become one episode.
episodes ==
  LET Join(joined, w) ==
        LET start == Max({From, w.from})
            end == Min({To, w.to})
        IN IF joined # <<>> /\ start <= Last(joined).to
           THEN [joined EXCEPT ![Len(joined)] = [@ EXCEPT !.to = Max({@, end}), !.count = @ + 1]]
           ELSE Append(joined, [from |-> start, to |-> end, count |-> 1])
  IN FoldLeft(Join, <<>>, shownWindows)

(***************************************************************************)
(* The row of labels: it shares the legend's row where all of them fit,    *)
(* else it takes 18 pixels above the plot and drops those that do not fit. *)
(***************************************************************************)
Gap == 12
DeployWidth == 40
AnomalyWidth == 42
AxisBudget == 72

legendUsed ==
  LET Entry(used, entry) ==
        IF used.full \/ (used.width > 0 /\ used.width + 6 + 15 + entry > annotated.size.width)
        THEN [used EXCEPT !.full = TRUE]
        ELSE [used EXCEPT !.width = @ + (IF @ > 0 THEN 6 ELSE 0) + 15 + entry]
  IN FoldLeft(Entry, [width |-> 0, full |-> FALSE], annotated.legend).width

candidates == (IF episodes = <<>> THEN <<>> ELSE <<AnomalyWidth>>) \o [i \in DOMAIN deployLines |-> DeployWidth]

rowBudget == annotated.size.width - 16 - legendUsed - Gap

share ==
  annotated.legend # <<>> /\ FoldLeft(LAMBDA n, w : n + w + Gap, 0, candidates) <= rowBudget

labelBudget == IF share THEN rowBudget ELSE Max({1, annotated.size.width - 16 - 8 - AxisBudget})

labels ==
  LET Fit(kept, w) == IF kept.width + w + Gap > labelBudget THEN kept
                      ELSE [width |-> kept.width + w + Gap, list |-> Append(kept.list, w)]
  IN FoldLeft(Fit, [width |-> 0, list |-> <<>>], candidates).list

\* Where each label ends, counted from the right edge of the panel.
chips ==
  LET Chip(put, w) == [right |-> put.right + w + Gap, list |-> Append(put.list, [right |-> put.right, width |-> w])]
  IN FoldLeft(Chip, [right |-> 16, list |-> <<>>], labels).list

(***************************************************************************)
(* A state timeline draws as many rows as fit, counts the rest in a note,  *)
(* and loses rows again to the labels.                                     *)
(***************************************************************************)
Capacity(height) == Max({1, height \div 16})

drawnRows == Min({RowNames, Capacity(annotated.size.height - 54)})

timelineRows ==
  LET bottom == IF drawnRows < RowNames THEN 24 ELSE 8
      top == 8 + (IF labels # <<>> /\ ~share THEN 18 ELSE 0)
      capacity == Capacity(annotated.size.height - top - bottom - 22)
      before == RowNames - drawnRows
  IN IF annotated.viz = "state_timeline" /\ drawnRows > capacity
     THEN [rows |-> capacity, note |-> drawnRows - capacity + before]
     ELSE [rows |-> drawnRows, note |-> before]

(***************************************************************************)
(* Properties                                                              *)
(***************************************************************************)

\* "Union connected windows in time order, so their alpha never stacks": between any
\* two instants at most one episode is painted, exactly where a window in scope is,
\* and every window is counted in one of them (annotations.ts).
EpisodesAreTheUnion ==
  /\ \A t \in {2 * n + 1 : n \in (From \div 2)..((To - 1) \div 2)} :
       Cardinality({i \in DOMAIN episodes : episodes[i].from < t /\ t < episodes[i].to})
         = (IF \E w \in Range(annotated.anomalies) : matches(w) /\ w.from < t /\ t < w.to THEN 1 ELSE 0)
  /\ \A i \in 2..Len(episodes) : episodes[i - 1].to < episodes[i].from
  /\ FoldLeft(LAMBDA n, e : n + e.count, 0, episodes) = Len(shownWindows)

\* The labels stand side by side, clear of the legend whose row they share, and inside
\* the plot otherwise; a label is dropped only from a row that is theirs alone.
LabelsKeepTheirRow ==
  LET Left(c) == annotated.size.width - c.right - c.width
  IN /\ \A i \in 2..Len(chips) : chips[i].right >= chips[i - 1].right + chips[i - 1].width
     /\ share => Len(labels) = Len(candidates) /\ \A c \in Range(chips) : Left(c) >= legendUsed
     /\ ~share => \A c \in Range(chips) : Left(c) >= 8

\* Every row of a state timeline is drawn or counted in its note, whether it was left
\* out for the height or for the labels, and something is always drawn.
RowsDrawnOrCounted ==
  timelineRows.rows + timelineRows.note = RowNames /\ timelineRows.rows >= 1
=============================================================================
