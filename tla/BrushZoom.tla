------------------------------- MODULE BrushZoom -------------------------------
(***************************************************************************)
(* src/ui/host/src/dashboards/use-brush-zoom.ts: the memory of a page      *)
(* whose charts zoom its time.  The page owns the time - a dashboard in    *)
(* its address, a fragment in its state - and hears of a zoom by a call.   *)
(* restore holds the one time a zoom would come back to, or nothing.       *)
(***************************************************************************)
CONSTANT NoSpan

Unzoomed == [last |-> NoSpan, restore |-> {}, zoomed |-> FALSE]

\* Mutant of Rendered: a time chosen elsewhere does not end the zoom.
RenderedZoomed(brush, old, new) == IF old = new THEN brush ELSE [brush EXCEPT !.last = NoSpan]

\* The render after the time changed from old to new: a time that was not brushed
\* forgets what a zoom would come back to.
Rendered(brush, old, new) ==
  IF old = new THEN brush
  ELSE IF brush.last # new THEN Unzoomed
  ELSE [brush EXCEPT !.last = NoSpan]

\* Charts of one group brush together: every one of them reports the same span.
Zooms(brush, time, span) == time # span /\ brush.last # span

Zoomed(brush, time, span) ==
  [last |-> span, zoomed |-> TRUE,
   restore |-> IF brush.restore = {} THEN {time} ELSE brush.restore]
=============================================================================
