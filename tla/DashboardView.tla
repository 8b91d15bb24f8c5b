----------------------------- MODULE DashboardView -----------------------------
(***************************************************************************)
(* The view of a dashboard that its address holds                          *)
(* (src/ui/host/src/dashboards/page.tsx): the time, the panel shown alone, *)
(* the drill, the edit mode and the comparison, in the browser's history;  *)
(* with the brushed zoom over it and the ranges being selected on charts,  *)
(* which pause the refresh.  An address is asked for at once and rendered  *)
(* a moment later; the reader acts on what is rendered.                    *)
(***************************************************************************)
EXTENDS Integers, Sequences

CONSTANTS Ranges,      \* relative ranges, the last one the widest: a sequence
          Spans,       \* absolute times, as pairs
          NoTime,      \* no time in the address: the dashboard's own, Ranges[1]
          NoSpan,
          Panels,      \* every panel a version of the dashboard may have
          NoPanel,
          MaxHistory   \* entries of the browser's history

VARIABLE page

viewVars == <<page>>

INSTANCE BrushZoom

Blank == [time |-> NoTime, view |-> NoPanel, drill |-> NoPanel, edit |-> FALSE, compare |-> FALSE]

ViewInit ==
  page = [history |-> <<Blank>>, at |-> 1, shown |-> Blank, brush |-> Unzoomed,
          panels |-> Panels, ranges |-> {}]

Address(p) == p.history[p.at]
Settled == page.shown = Address(page)

\* A link with nothing new leaves the history alone.
Push(p, url) ==
  IF url = Address(p) THEN p
  ELSE [p EXCEPT !.history = Append(SubSeq(@, 1, p.at), url), !.at = p.at + 1]

Replace(p, url) == [p EXCEPT !.history[p.at] = url]

CanPush == page.at < MaxHistory

Render ==
  /\ ~Settled
  /\ page' = [page EXCEPT !.shown = Address(page),
                          !.brush = Rendered(@, page.shown.time, Address(page).time)]

(***************************************************************************)
(* The time                                                                *)
(***************************************************************************)
onSearch(p, time) == Push(p, [p.shown EXCEPT !.time = time])

reset(p) == [p EXCEPT !.brush = Unzoomed]

pickTime(time) ==
  /\ Settled /\ CanPush
  /\ page' = onSearch(reset(page), time)

effectiveTime(time) == IF time = NoTime THEN Ranges[1] ELSE time

Relative(time) == \E i \in DOMAIN Ranges : Ranges[i] = time

Wider(time) ==
  IF ~Relative(time) THEN <<time[1] - 1, time[2] + 1>>
  ELSE IF time = Ranges[Len(Ranges)] THEN time
  ELSE Ranges[1 + CHOOSE i \in DOMAIN Ranges : Ranges[i] = time]

zoomOut ==
  /\ Settled /\ CanPush
  /\ page' = onSearch(page, Wider(effectiveTime(page.shown.time)))

zoom(span) ==
  /\ Settled /\ CanPush /\ Zooms(page.brush, page.shown.time, span)
  /\ page' = [onSearch(page, span) EXCEPT !.brush = Zoomed(@, page.shown.time, span)]

resetZoom ==
  /\ Settled /\ CanPush /\ page.brush.zoomed
  /\ \E time \in page.brush.restore : page' = onSearch(reset(page), time)

\* Back and Forward, one entry at a time.
browse(to) ==
  /\ Settled /\ to \in DOMAIN page.history /\ to \in {page.at - 1, page.at + 1}
  /\ page' = [page EXCEPT !.at = to]

(***************************************************************************)
(* What is open                                                            *)
(***************************************************************************)
edit ==
  /\ Settled /\ CanPush
  /\ page' = Push(page, [page.shown EXCEPT !.edit = ~@])

compare ==
  /\ Settled
  /\ page' = Replace(page, [page.shown EXCEPT !.compare = ~@])

onView(panel) ==
  /\ Settled /\ CanPush /\ panel \in page.panels
  /\ page' = Push(page, [page.shown EXCEPT !.view = panel])

closeView ==
  /\ Settled /\ page.shown.view # NoPanel
  /\ page' = Replace(page, [page.shown EXCEPT !.view = NoPanel])

drillInto(panel) ==
  /\ Settled /\ CanPush /\ panel \in page.panels \cup {NoPanel}
  /\ page' = Push(page, [page.shown EXCEPT !.drill = panel])

\* A restored version may lack the panel that is open: the address forgets it.
restored(panels) ==
  LET Kept(panel) == IF panel \in panels THEN panel ELSE NoPanel
      url == [page.shown EXCEPT !.view = Kept(@), !.drill = Kept(@)]
  IN /\ Settled
     /\ page' = [Replace(page, url) EXCEPT !.panels = panels, !.ranges = @ \cap panels]

\* The layout editor's removal; the chart gives its range up as it unmounts.
removePanel(panel) ==
  /\ Settled /\ page.shown.edit /\ panel \in page.panels
  /\ page' = [page EXCEPT !.panels = @ \ {panel}, !.ranges = @ \ {panel}]

(***************************************************************************)
(* Ranges selected from the keyboard; the refresh waits for all of them.   *)
(***************************************************************************)
rangePending(panel, pending) ==
  /\ panel \in page.panels /\ pending # (panel \in page.ranges)
  /\ page' = [page EXCEPT !.ranges = IF pending THEN @ \cup {panel} ELSE @ \ {panel}]

ViewNext ==
  \/ Render
  \/ \E i \in DOMAIN Ranges : pickTime(Ranges[i])
  \/ \E span \in Spans : pickTime(span) \/ zoom(span)
  \/ zoomOut \/ resetZoom \/ edit \/ compare \/ closeView
  \/ \E to \in 1..MaxHistory : browse(to)
  \/ \E panel \in Panels : onView(panel) \/ drillInto(panel) \/ removePanel(panel)
  \/ drillInto(NoPanel)
  \/ \E panels \in SUBSET Panels : restored(panels)
  \/ \E panel \in Panels, pending \in BOOLEAN : rangePending(panel, pending)

(***************************************************************************)
(* The way back from a zoom is the time before its first brush, however    *)
(* many brushes followed and whatever else was opened, edited or compared  *)
(* meanwhile: every entry of the history since then holds a brushed time.  *)
(* Any other way to change the time - a range picked, a wider one, a step  *)
(* back or forward - ends the zoom, so that its button never jumps to a    *)
(* time the reader has already left (use-brush-zoom.ts:12-19).             *)
(***************************************************************************)
ZoomComesBack ==
  Settled /\ page.brush.zoomed =>
    \E i \in 1..page.at - 1 :
      /\ page.brush.restore = {page.history[i].time}
      /\ \A j \in i + 1..page.at : page.history[j].time \in Spans
=============================================================================
