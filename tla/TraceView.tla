------------------------------- MODULE TraceView -------------------------------
(***************************************************************************)
(* One trace (src/ui/host/src/dashboards/trace): the spans as a waterfall  *)
(* (waterfall.tsx) and as a flame graph (detail.tsx), and the details of a *)
(* picked span, read when it is picked (span-details.tsx).  What arrives   *)
(* may be any set of spans: parents missing, a span its own parent,        *)
(* parents in a cycle, children that start before their parent.            *)
(***************************************************************************)
EXTENDS Integers, Sequences, FiniteSets
LOCAL INSTANCE SequencesExt
LOCAL INSTANCE FiniteSetsExt

CONSTANTS Count,       \* spans of the trace, in the order they were read
          NoSpan,      \* none of them is picked
          Starts, Durations,
          AxisWidths   \* of the flame graph's time axis, in label widths

VARIABLE trace

traceVars == <<trace>>

Spans == 1..Count
None == 0
Missing == Count + 1   \* a parent that was not read

Parent(t, s) == IF s \in Spans THEN t.parent[s] ELSE None
Start(t, s) == t.start[s]
End(t, s) == t.start[s] + t.duration[s]

\* A stable sort, as that of the browser.
SortedBy(set, Before(_, _)) ==
  SetToSortSeq(set, LAMBDA a, b : Before(a, b) \/ (~Before(b, a) /\ a < b))

(***************************************************************************)
(* spanTree                                                                *)
(***************************************************************************)
Hung(t, s) == Parent(t, s) \in Spans \ {s}

byStart(t, set) == SortedBy(set, LAMBDA a, b : Start(t, a) < Start(t, b))

Children(t, s) == byStart(t, {c \in Spans : Hung(t, c) /\ Parent(t, c) = s})

At(spans, depth) == [i \in DOMAIN spans |-> [span |-> spans[i], depth |-> depth]]

SpansOf(rows) == {rows[i].span : i \in DOMAIN rows}

\* The next span of the stack is listed, and its children go on top; one that
\* is listed already is dropped.  A span is put on the stack once for its parent.
Popped(t, walk) ==
  IF walk.stack = <<>> THEN walk
  ELSE LET next == Head(walk.stack)
       IN IF next.span \in SpansOf(walk.out) THEN [walk EXCEPT !.stack = Tail(@)]
          ELSE [stack |-> At(Children(t, next.span), next.depth + 1) \o Tail(walk.stack),
                out |-> Append(walk.out, next)]

Walk(t, stack, out) ==
  FoldLeft(LAMBDA walk, step : Popped(t, walk), [stack |-> stack, out |-> out],
           [step \in 1..Len(stack) + Count |-> step]).out

\* The spans of parent cycles follow the trees, in the order they were read.
spanTree(t) ==
  LET trees == Walk(t, At(byStart(t, {s \in Spans : ~Hung(t, s)}), 0), <<>>)
  IN FoldLeft(LAMBDA out, s : IF s \in SpansOf(out) THEN out ELSE Walk(t, At(<<s>>, 0), out),
              trees, [s \in 1..Count |-> s])

(***************************************************************************)
(* flameModel                                                              *)
(***************************************************************************)
Above(t, s, k) ==
  LET up[i \in 0..k] == IF i = 0 THEN s
                        ELSE Parent(t, up[i - 1])
  IN [i \in 0..k |-> up[i]]

\* Steps up to a span without a parent that was read, or to one already passed:
\* the span asked about is passed first, so one below a cycle counts its own step.
depth(t, s) ==
  Min({k \in 0..Count :
        LET up == Above(t, s, k)
        IN \/ Parent(t, up[k]) \notin Spans
           \/ \E i \in 0..k - 1 : up[i] = up[k]})

Lanes(t, d) ==
  FoldLeft(LAMBDA placed, s :
             LET ends == [l \in {placed[x] : x \in DOMAIN placed} |->
                            Max({End(t, x) : x \in {y \in DOMAIN placed : placed[y] = l}})]
                 free == {l \in DOMAIN ends : ends[l] <= Start(t, s)}
                 lane == IF free = {} THEN Cardinality(DOMAIN ends) ELSE Min(free)
             IN [x \in DOMAIN placed \cup {s} |-> IF x = s THEN lane ELSE placed[x]],
           [x \in {} |-> 0],
           SortedBy({s \in Spans : depth(t, s) = d},
                    LAMBDA a, b : \/ Start(t, a) < Start(t, b)
                                  \/ Start(t, a) = Start(t, b) /\ t.duration[a] > t.duration[b]))

LaneCount(t, d) ==
  LET lanes == Lanes(t, d) IN Cardinality({lanes[s] : s \in DOMAIN lanes})

laneOffset(t, d) ==
  LET above == {depth(t, s) : s \in Spans} \cap 0..d - 1
  IN FoldSet(LAMBDA e, n : n + LaneCount(t, e), 0, above)

lane(t, s) == laneOffset(t, depth(t, s)) + Lanes(t, depth(t, s))[s]

\* Fewer ticks where five labels, the end ones inside the axis, would touch.
tickPositions(width) ==
  LET Fits(parts) == 2 * width >= 3 * parts
  IN IF Fits(4) THEN {0, 25, 50, 75, 100} ELSE IF Fits(2) THEN {0, 50, 100} ELSE {0, 100}

(***************************************************************************)
(* The page of the trace                                                   *)
(***************************************************************************)
TraceInit ==
  \E parent \in [Spans -> Spans \cup {None, Missing}], start \in [Spans -> Starts],
     duration \in [Spans -> Durations], axis \in AxisWidths :
    trace = [parent |-> parent, start |-> start, duration |-> duration, axis |-> axis,
             view |-> "waterfall", picked |-> NoSpan, extras |-> "none"]

setView(view) ==
  /\ view # trace.view
  /\ trace' = [trace EXCEPT !.view = view]

\* What was read of a span once is kept; a read left behind is dropped.
setPicked(s) ==
  /\ s # trace.picked
  /\ \E extras \in {"reading", "read"} : trace' = [trace EXCEPT !.picked = s, !.extras = extras]

onClose ==
  /\ trace.picked # NoSpan
  /\ trace' = [trace EXCEPT !.picked = NoSpan, !.extras = "none"]

spanExtras(answer) ==
  /\ trace.extras = "reading"
  /\ trace' = [trace EXCEPT !.extras = answer]

TraceNext ==
  \/ \E view \in {"waterfall", "flame"} : setView(view)
  \/ \E s \in Spans : setPicked(s)
  \/ onClose
  \/ \E answer \in {"read", "failed"} : spanExtras(answer)

(***************************************************************************)
(* The waterfall lists every span of the trace once, a span whose parent   *)
(* was read somewhere below that parent and one step deeper; only spans of *)
(* a parent cycle, or below one, may start a tree of their own             *)
(* (waterfall.tsx:7-36).                                                   *)
(***************************************************************************)
InCycle(t, s) == \E k \in 1..Count : Above(t, s, k)[k] = s
OnCycle(t, s) == \E k \in 0..Count : LET up == Above(t, s, k)[k] IN up \in Spans /\ InCycle(t, up)

EverySpanListed ==
  trace.view = "waterfall" =>
    LET rows == spanTree(trace)
    IN /\ Len(rows) = Count /\ SpansOf(rows) = Spans
       /\ \A i \in 1..Count :
            LET s == rows[i].span
            IN IF Hung(trace, s)
               THEN \/ \E j \in 1..i - 1 : /\ rows[j].span = Parent(trace, s)
                                           /\ rows[i].depth = rows[j].depth + 1
                    \/ rows[i].depth = 0 /\ OnCycle(trace, s)
               ELSE rows[i].depth = 0

(***************************************************************************)
(* In the flame graph the spans of a lane never overlap, and a span lies   *)
(* below its parent, that of a cycle included, unless it is in the cycle   *)
(* itself (detail.tsx:125-138); the labels of its axis leave each other    *)
(* room (detail.tsx:43-47).                                                *)
(***************************************************************************)
FramesApart ==
  trace.view = "flame" =>
    LET lanes == [s \in Spans |-> lane(trace, s)]
        ticks == tickPositions(trace.axis)
    IN /\ \A a, b \in Spans : a # b /\ lanes[a] = lanes[b] =>
             End(trace, a) <= Start(trace, b) \/ End(trace, b) <= Start(trace, a)
       /\ \A s \in Spans : Hung(trace, s) /\ ~InCycle(trace, s) => lanes[Parent(trace, s)] < lanes[s]
       /\ Cardinality(ticks) > 2 =>
             2 * trace.axis >= 3 * (Cardinality(ticks) - 1)
=============================================================================
