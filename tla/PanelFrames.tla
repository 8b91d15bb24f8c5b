----------------------------- MODULE PanelFrames -----------------------------
(***************************************************************************)
(* What the charts make of a frame (src/ui/panels): series and bars        *)
(* (frame.ts, series.ts, compile.ts), histograms, heatmaps and state       *)
(* timelines (analysis.ts, heat-scale.ts) and the headline number.  The    *)
(* functions are pure; the only steps are the rows that arrive.  A row     *)
(* has two keys and a measure: x is the time, the bucket or the category,  *)
(* y the second dimension; the server groups by them, so no two rows have  *)
(* both alike.  Names, labels and colours are left out but for Other.      *)
(***************************************************************************)
EXTENDS Integers, Sequences, FiniteSets
LOCAL INSTANCE SequencesExt
LOCAL INSTANCE FiniteSetsExt

CONSTANTS Names,       \* values of the second dimension
          OtherName,   \* the group the server sums the rest in
          NoValue,     \* null
          Slots,       \* the chart's colour slots (6)
          CapPercent,  \* the heat scale's percentile (99)
          Capacity,    \* rows of a state timeline that fit the panel
          MaxX, MaxValue, MaxRows   \* bounds

VARIABLE rows

frameVars == <<rows>>

Cells == (0..MaxValue) \cup {NoValue}

FramesInit == rows = <<>>

RowArrives(x, y, v) ==
  /\ Len(rows) < MaxRows /\ \A r \in Range(rows) : r.x # x \/ r.y # y
  /\ rows' = Append(rows, [x |-> x, y |-> y, v |-> v])

FramesNext == \E x \in 1..MaxX, y \in Names, v \in Cells : RowArrives(x, y, v)

(***************************************************************************)
(* frame.ts                                                                *)
(***************************************************************************)
Distinct(s) == FoldLeft(LAMBDA seen, e : IF e \in Range(seen) THEN seen ELSE Append(seen, e), <<>>, s)

Column(rs, key) == [i \in DOMAIN rs |-> rs[i][key]]

Present(vs) == SelectSeq(vs, LAMBDA v : v # NoValue)

Sum(vs) == FoldLeft(LAMBDA a, b : a + b, 0, vs)

sumPresent(vs) == IF Present(vs) = <<>> THEN NoValue ELSE Sum(Present(vs))

\* One series per name, in the order the names first appear.
toSeries(rs) ==
  LET names == Distinct(Column(rs, "y"))
  IN [i \in DOMAIN names |->
        [name |-> names[i], points |-> SelectSeq(rs, LAMBDA r : r.y = names[i])]]

toCategories(rs) ==
  LET categories == Distinct(Column(rs, "x"))
      groups == Distinct(Column(rs, "y"))
      Value(c, g) == LET at == {i \in DOMAIN rs : rs[i].x = c /\ rs[i].y = g}
                     IN IF at = {} THEN NoValue ELSE rs[Max(at)].v
  IN [categories |-> categories,
      series |-> [g \in DOMAIN groups |->
        [name |-> groups[g], values |-> [c \in DOMAIN categories |-> Value(categories[c], groups[g])]]]]

\* The mean is a fraction: what is reduced is a pair of a sum and a count.
reduce(vs, reducer) ==
  LET present == Present(vs)
  IN IF present = <<>> THEN NoValue
     ELSE CASE reducer = "last" -> <<Last(present), 1>>
            [] reducer = "min" -> <<Min(Range(present)), 1>>
            [] reducer = "max" -> <<Max(Range(present)), 1>>
            [] reducer = "sum" -> <<Sum(present), 1>>
            [] OTHER -> <<Sum(present), Len(present)>>

\* totals is <<>>, or the server's one value for the whole window.
statValue(rs, totals, reducer) ==
  IF reducer = "window" /\ totals # <<>>
  THEN IF totals[1] = NoValue THEN NoValue ELSE <<totals[1], 1>>
  ELSE reduce(Column(rs, "v"), reducer)

(***************************************************************************)
(* series.ts: lines past the slots are left out and counted; counts that   *)
(* can be added are summed into Other instead.                             *)
(***************************************************************************)
isOtherSeries(name) == name = OtherName

seriesLimit(top) == IF top = 0 THEN Slots ELSE Min({Slots, top})

FirstOf(s, n) == SubSeq(s, 1, Min({n, Len(s)}))

visibleSeries(names, top) ==
  LET named == SelectSeq(names, LAMBDA n : ~isOtherSeries(n))
      hidden == Len(named) - seriesLimit(top)
  IN [shown |-> FirstOf(named, seriesLimit(top)) \o SelectSeq(names, isOtherSeries),
      hidden |-> IF hidden > 0 THEN hidden ELSE 0]

\* Mutant of seriesGroups: what exceeds the limit is left out.
seriesShown(names, top) ==
  LET kept == FirstOf(SelectSeq(names, LAMBDA n : ~isOtherSeries(n)), seriesLimit(top))
  IN [i \in DOMAIN kept |-> [name |-> kept[i], items |-> {kept[i]}]]

seriesGroups(names, top) ==
  LET named == SelectSeq(names, LAMBDA n : ~isOtherSeries(n))
      kept == FirstOf(named, seriesLimit(top))
      other == Range(names) \ Range(kept)
  IN [i \in DOMAIN kept |-> [name |-> kept[i], items |-> {kept[i]}]]
       \o (IF other = {} THEN <<>> ELSE <<[name |-> OtherName, items |-> other]>>)

\* The period before is drawn for the series that are shown, Other with Other.
previousSeries(current, previous, top) ==
  SelectSeq(visibleSeries(previous, top).shown,
            LAMBDA n : n \in Range(visibleSeries(current, top).shown))

(***************************************************************************)
(* analysis.ts                                                             *)
(***************************************************************************)
histogram(rs, top) ==
  LET buckets == SetToSortSeq(Range(Column(rs, "x")), <)
      groups == seriesGroups(Distinct(Column(rs, "y")), top)
      Bar(b, g) == sumPresent(Column(SelectSeq(rs, LAMBDA r : r.x = b /\ r.y \in g.items), "v"))
  IN [i \in DOMAIN groups |->
        [name |-> groups[i].name,
         data |-> [b \in DOMAIN buckets |->
                     LET bar == Bar(buckets[b], groups[i]) IN IF bar = NoValue THEN 0 ELSE bar]]]

\* Nearest rank over the cells that count something.
heatCap(rs) ==
  LET counts == SortSeq(SelectSeq(Column(rs, "v"), LAMBDA v : v # NoValue /\ v # 0), <)
      rank == (Len(counts) * CapPercent + 99) \div 100
  IN IF counts = <<>> THEN 1 ELSE counts[Max({1, rank})]

\* floor(log(count) / log(cap) * 6), in whole numbers.
heatStep(count, cap) ==
  IF count <= 1 THEN 0
  ELSE IF count >= cap THEN 6
  ELSE Max({k \in 0..6 : cap^k <= count^6})

\* Thresholds put 1 among the warnings and anything above among the bad.
stateOf(v) == IF v = NoValue THEN "unknown" ELSE IF v = 0 THEN "ok" ELSE IF v = 1 THEN "warn" ELSE "bad"

stateNames(rs) == FirstOf(Distinct(Column(rs, "y")), Capacity)

stateBuckets(rs) ==
  LET shown == SelectSeq(rs, LAMBDA r : r.y \in Range(stateNames(rs)))
  IN [i \in DOMAIN shown |-> [row |-> CHOOSE n \in DOMAIN stateNames(rs) : stateNames(rs)[n] = shown[i].y,
                              from |-> shown[i].x, to |-> shown[i].x + 1, state |-> stateOf(shown[i].v)]]

\* Touching buckets of one row and state become one run.
mergeStateRuns(buckets) ==
  LET Before(a, b) == a.row < b.row \/ (a.row = b.row /\ a.from < b.from)
      Touches(a, b) == a.row = b.row /\ a.state = b.state /\ a.to = b.from
      Merge(runs, b) ==
        IF runs # <<>> /\ Touches(Last(runs), b)
        THEN [runs EXCEPT ![Len(runs)].to = b.to]
        ELSE Append(runs, b)
  IN FoldLeft(Merge, <<>>, SortSeq(buckets, Before))

(***************************************************************************)
(* Properties                                                              *)
(***************************************************************************)
Tops == 0..(Slots + 1)

\* No count is lost or shown twice: the bars of a histogram add up to the counts of
\* the frame whatever the panel's limit folds into Other (series.ts, seriesGroups).
CountsConserved ==
  \A top \in Tops :
    LET bars == histogram(rows, top)
    IN /\ Sum([i \in DOMAIN bars |-> Sum(bars[i].data)]) = Sum(Present(Column(rows, "v")))
       /\ Len(bars) <= seriesLimit(top) + 1

\* Lines are left out, never summed, and every one left out is counted in the note
\* under the chart; a line of the period before has a line it belongs to.
HiddenCounted ==
  \A top \in Tops :
    LET names == Distinct(Column(rows, "y"))
        visible == visibleSeries(names, top)
        Named(s) == Cardinality(Range(s) \ {OtherName})
    IN /\ Named(visible.shown) + visible.hidden = Named(names)
       /\ Cardinality(Range(visible.shown)) = Len(visible.shown)
       /\ OtherName \in Range(names) => OtherName \in Range(visible.shown)
       /\ \A n \in 0..Len(rows) :
            Range(previousSeries(Distinct(Column(SubSeq(rows, 1, n), "y")), names, top))
              \subseteq Range(visibleSeries(Distinct(Column(SubSeq(rows, 1, n), "y")), top).shown)

\* Every row is drawn where its keys say, once: as a point of its line, in the
\* frame's order, and as the bar of its category and group.
RowsDrawn ==
  LET lines == toSeries(rows)
      bars == toCategories(rows)
  IN /\ Sum([i \in DOMAIN lines |-> Len(lines[i].points)]) = Len(rows)
     /\ \A i \in DOMAIN lines : \A r \in Range(lines[i].points) : r.y = lines[i].name
     /\ \A r \in Range(rows) : \E s \in DOMAIN bars.series, c \in DOMAIN bars.categories :
          bars.series[s].name = r.y /\ bars.categories[c] = r.x /\ bars.series[s].values[c] = r.v

\* A state timeline shows at every instant of a row exactly the state of its bucket,
\* and a change of state is the only place where two runs meet.
RunsExact ==
  LET runs == mergeStateRuns(stateBuckets(rows))
      Covers(run, b) == run.row = b.row /\ run.from <= b.from /\ b.to <= run.to
  IN /\ \A b \in Range(stateBuckets(rows)) :
          /\ Cardinality({i \in DOMAIN runs : Covers(runs[i], b)}) = 1
          /\ \A i \in DOMAIN runs : Covers(runs[i], b) => runs[i].state = b.state
     /\ Sum([i \in DOMAIN runs |-> runs[i].to - runs[i].from]) = Len(stateBuckets(rows))
     /\ \A i, j \in DOMAIN runs :
          runs[i].row = runs[j].row /\ runs[i].to = runs[j].from => runs[i].state # runs[j].state

\* A cell with more in it is never painted lighter, an empty one of the scale's
\* range is the lightest, and what is at the cap or above is the darkest.
HeatOrdered ==
  LET cap == heatCap(rows)
  IN \A r, s \in Range(rows) :
       r.v # NoValue /\ s.v # NoValue /\ r.v <= s.v =>
         /\ heatStep(r.v, cap) <= heatStep(s.v, cap)
         /\ s.v >= cap /\ s.v > 1 => heatStep(s.v, cap) = 6

\* The headline number is the server's total of the window where the panel asks for
\* it and it came; a sum agrees with the bars of the same counts, and any other
\* reduction lies between the smallest and the largest value shown (panels.test.ts:98).
HeadlineAgrees ==
  LET present == Range(Present(Column(rows, "v")))
      bars == histogram(rows, 0)
  IN \A reducer \in {"window", "last", "min", "max", "sum", "mean"},
        totals \in {<<>>} \cup {<<v>> : v \in Cells} :
       LET stat == statValue(rows, totals, reducer)
       IN IF reducer = "window" /\ totals # <<>>
          THEN stat = (IF totals[1] = NoValue THEN NoValue ELSE <<totals[1], 1>>)
          ELSE IF present = {} THEN stat = NoValue
          ELSE IF reducer = "sum"
          THEN stat = <<Sum([i \in DOMAIN bars |-> Sum(bars[i].data)]), 1>>
          ELSE Min(present) * stat[2] <= stat[1] /\ stat[1] <= Max(present) * stat[2]
=============================================================================
