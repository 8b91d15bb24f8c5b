----------------------------- MODULE ChartKeyboard -----------------------------
(***************************************************************************)
(* Reading a chart from the keyboard: src/ui/host/src/dashboards/          *)
(* chart-keyboard.tsx, the parts of echart-canvas.tsx that it drives, and  *)
(* the points of panels/keyboard.ts.  A point is known by its series and   *)
(* its bucket, never by its place in the frame, so that a refresh under    *)
(* the reader keeps the point.  A handler is followed by the effects of    *)
(* the render it causes.  Announcements and the pixels are left out.       *)
(***************************************************************************)
EXTENDS Integers, FiniteSetsExt

CONSTANTS Results,     \* [points : set of <<series, bucket>>, from, to : the window]
          NoPoint, NoRange, Interval

VARIABLE reader

readerVars == <<reader>>

Before(p, q) == p[1] < q[1] \/ (p[1] = q[1] /\ p[2] <= q[2])
First(S) == CHOOSE p \in S : \A q \in S : Before(p, q)

\* Points are only laid out while the chart has the keyboard.
points(k) == IF k.active THEN k.result.points ELSE {}

pointWindow(p, result) == [from |-> p[2], to |-> Min({p[2] + Interval, result.to})]

Peers(p, S) == {q \in S : q[1] = p[1]}

Distance(p, q) == IF p[2] < q[2] THEN q[2] - p[2] ELSE p[2] - q[2]

\* The nearest in time, the earlier in the frame's order of two as near.
Nearest(p, S) ==
  First({q \in S : \A r \in S : Distance(q, p) <= Distance(r, p)})

\* The selected point, or the one nearest to where it was, in its series if that is left.
current(k) ==
  LET all == points(k)
      saved == k.saved
      candidates == IF saved = NoPoint \/ Peers(saved, all) = {} THEN all ELSE Peers(saved, all)
  IN IF all = {} THEN NoPoint
     ELSE IF k.selected = NoPoint THEN First(all)
     ELSE IF k.selected \in all THEN k.selected
     ELSE IF saved = NoPoint THEN First(all) ELSE Nearest(saved, candidates)

Selected(k, p) == [k EXCEPT !.saved = p, !.selected = p]

(***************************************************************************)
(* The effects of a render, in their order.                                *)
(***************************************************************************)
\* A point is remembered once it is on the chart; one whose series has left is let go.
Followed(k) ==
  LET now == current(k)
      gone == k.saved # NoPoint /\ Peers(k.saved, points(k)) = {}
  IN IF now # NoPoint /\ (k.selected = NoPoint \/ gone) THEN Selected(k, now)
     ELSE IF now # NoPoint /\ k.selected \in points(k) THEN [k EXCEPT !.saved = now]
     ELSE k

Lit(k, now) == IF k.focused THEN [k EXCEPT !.highlighted = now] ELSE k

\* A range that the window no longer holds is given up.
Held(k) ==
  IF k.pending # NoRange /\ (k.pending.from < k.result.from \/ k.pending.to > k.result.to)
  THEN [k EXCEPT !.pending = NoRange]
  ELSE k

Painted(k) ==
  [k EXCEPT !.brush = IF k.pending = NoRange THEN NoRange
                      ELSE [from |-> k.pending.from, to |-> k.pending.to]]

Effects(k) == Painted(Held(Lit(Followed(k), current(k))))

Becomes(k) == reader' = Effects(k)

KeyboardInit ==
  \E r \in Results :
    reader = [result |-> r, active |-> FALSE, focused |-> FALSE, pointer |-> FALSE, inside |-> FALSE,
              selected |-> NoPoint, saved |-> NoPoint, pending |-> NoRange,
              highlighted |-> NoPoint, brush |-> NoRange, zoomed |-> NoRange]

refreshed(r) == r # reader.result /\ Becomes([reader EXCEPT !.result = r])

\* choose: the range grows from the bucket it was begun at to the one chosen.
Extended(k, next) ==
  LET from == current(k)
      anchor == IF k.pending = NoRange THEN pointWindow(from, k.result) ELSE k.pending.window
      to == pointWindow(next, k.result)
      low == Max({k.result.from, Min({anchor.from, to.from})})
      high == Min({k.result.to, Max({anchor.to, to.to})})
  IN IF low < high
     THEN [k EXCEPT !.pending = [window |-> anchor, from |-> low, to |-> high]]
     ELSE k

choose(next, extend) == Becomes(Selected(IF extend THEN Extended(reader, next) ELSE reader, next))

\* The first key after a click only takes the keyboard back.
takeKeyboard ==
  /\ reader.inside /\ ~reader.focused
  /\ Becomes([reader EXCEPT !.pointer = FALSE, !.focused = TRUE, !.active = TRUE])

\* Left and right, with Shift to select a range.
movePoint(left, extend) ==
  /\ reader.inside /\ reader.focused /\ current(reader) # NoPoint
  /\ LET peers == Peers(current(reader), points(reader))
         beyond == {p \in peers : IF left THEN p[2] < current(reader)[2] ELSE p[2] > current(reader)[2]}
     IN choose(IF beyond = {} THEN current(reader)
               ELSE CHOOSE p \in beyond : \A q \in beyond : Distance(p, current(reader)) <= Distance(q, current(reader)),
               extend)

\* Up and down: the same bucket of the next series, or the nearest.
moveSeries(up) ==
  /\ reader.inside /\ reader.focused /\ current(reader) # NoPoint
  /\ LET series == {p[1] : p \in points(reader)}
         at == current(reader)[1]
         beyond == {s \in series : IF up THEN s < at ELSE s > at}
         to == IF beyond = {} THEN at ELSE IF up THEN Max(beyond) ELSE Min(beyond)
     IN choose(Nearest(current(reader), {p \in points(reader) : p[1] = to}), FALSE)

\* Home and End.
moveEnd(last) ==
  /\ reader.inside /\ reader.focused /\ current(reader) # NoPoint
  /\ LET peers == Peers(current(reader), points(reader))
     IN choose(CHOOSE p \in peers : \A q \in peers : IF last THEN q[2] <= p[2] ELSE p[2] <= q[2], FALSE)

\* Escape gives up a range first, and only then the chart.
escape ==
  /\ reader.inside
  /\ IF reader.pending # NoRange THEN Becomes([reader EXCEPT !.pending = NoRange])
     ELSE Becomes([reader EXCEPT !.inside = FALSE, !.focused = FALSE, !.active = FALSE, !.highlighted = NoPoint])

focus ==
  /\ ~reader.inside
  /\ IF reader.pointer THEN reader' = [reader EXCEPT !.inside = TRUE]
     ELSE Becomes([reader EXCEPT !.inside = TRUE, !.active = TRUE, !.focused = TRUE])

\* Tab out: leaving the chart and its buttons.
blur ==
  /\ reader.inside
  /\ Becomes([reader EXCEPT !.inside = FALSE, !.pointer = FALSE, !.focused = FALSE, !.active = FALSE,
                            !.pending = NoRange, !.highlighted = NoPoint])

pointerDown ==
  /\ Becomes([reader EXCEPT !.pointer = TRUE, !.inside = TRUE, !.focused = FALSE, !.active = FALSE,
                            !.highlighted = IF reader.focused THEN NoPoint ELSE @])

\* "Zoom to range" on the bar.
zoomToRange ==
  /\ reader.pending # NoRange
  /\ Becomes([reader EXCEPT !.zoomed = reader.brush, !.pending = NoRange])

\* A mouse brush zooms by itself and takes a keyboard range away.
brushEnd(from, to) ==
  /\ from < to
  /\ Becomes([reader EXCEPT !.zoomed = [from |-> from, to |-> to], !.pending = NoRange])

KeyboardNext ==
  \/ \E r \in Results : refreshed(r)
  \/ takeKeyboard \/ escape \/ focus \/ blur \/ pointerDown \/ zoomToRange
  \/ \E left, extend \in BOOLEAN : movePoint(left, extend)
  \/ \E b \in BOOLEAN : moveSeries(b) \/ moveEnd(b)
  \/ \E r \in Results : brushEnd(r.from, r.to)

(***************************************************************************)
(* Properties                                                              *)
(***************************************************************************)

\* A range waiting to be zoomed to lies in the window on the screen, still reaches
\* through the end of the bucket it was begun at and is the one painted over the chart,
\* though refreshes move the window and take its points away.
RangeHolds ==
  LET range == reader.pending
  IN IF range = NoRange THEN reader.brush = NoRange
     ELSE /\ reader.result.from <= range.from /\ range.from < range.to /\ range.to <= reader.result.to
          /\ range.from < range.window.to /\ range.window.to <= range.to
          /\ reader.brush = [from |-> range.from, to |-> range.to]

\* A chart points at something only while it has the keyboard, and then at a point that
\* is on it: never at an index of the frame before.
HighlightOnChart ==
  IF reader.focused THEN reader.highlighted = current(reader) /\ reader.active
  ELSE reader.highlighted = NoPoint

\* A refresh that keeps the selected bucket keeps the selection, and one that keeps its
\* series never moves it to another (chart-keyboard.tsx, pointIdentity).
RefreshKeepsPoint ==
  reader'.result # reader.result /\ reader.focused /\ current(reader) \in {reader.selected} \ {NoPoint} =>
    /\ current(reader) \in reader'.result.points => current(reader') = current(reader)
    /\ Peers(current(reader), reader'.result.points) # {} => current(reader')[1] = current(reader)[1]
=============================================================================
