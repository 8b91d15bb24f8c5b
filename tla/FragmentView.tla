------------------------------ MODULE FragmentView ------------------------------
(***************************************************************************)
(* The panels an answer in the chat shows                                  *)
(* (src/ui/host/src/dashboards/fragment-view.tsx, mcp-apps/panel-app.tsx): *)
(* a view in a sandboxed frame that asks its host for new results when the *)
(* reader filters, zooms or picks a point, and for the whole screen when a *)
(* panel is opened.  Answers arrive in any order; the messages between the *)
(* view and its host keep theirs.                                          *)
(***************************************************************************)
EXTENDS Naturals, Sequences, FiniteSets

CONSTANTS Fragments,   \* results the host hands to the view
          Panels, NoPanel,
          Filters,     \* choices of the variables
          Own, Spans,  \* the time a fragment comes with, times brushed on a chart
          NoSpan,
          MaxQueries,  \* queries made and results received
          MaxMessages  \* messages on their way to the view

VARIABLES fragment, screen

fragmentVars == <<fragment, screen>>

INSTANCE BrushZoom

FirstFilter == CHOOSE f \in Filters : TRUE

\* What the results answer: a fragment's panels, under a filter, at a time.
Asked(f) == [of |-> f.of, vars |-> f.vars, time |-> f.time]

Received(of, generation, calls) ==
  [of |-> of, shown |-> [of |-> of, vars |-> FirstFilter, time |-> Own],
   vars |-> FirstFilter, time |-> Own, rendered |-> Own, brush |-> Unzoomed,
   pending |-> FALSE, stale |-> FALSE, target |-> NoPanel, generation |-> generation, calls |-> calls]

FragmentInit ==
  /\ fragment \in {Received(of, 0, {}) : of \in Fragments}
  /\ screen = [view |-> NoPanel, seen |-> "inline", host |-> "inline", toHost |-> <<>>, toView |-> <<>>]

Settled == fragment.rendered = fragment.time

Render ==
  /\ ~Settled
  /\ fragment' = [fragment EXCEPT !.rendered = fragment.time,
                                  !.brush = Rendered(@, fragment.rendered, fragment.time)]
  /\ UNCHANGED screen

\* The host sends another result: whatever was asked about the last one is dropped.
receive(of) ==
  /\ of # fragment.of /\ fragment.generation < MaxQueries
  /\ fragment' = Received(of, fragment.generation + 1, fragment.calls)
  /\ screen' = [screen EXCEPT !.view = NoPanel]

(***************************************************************************)
(* Queries: the newest one decides.                                        *)
(***************************************************************************)
query(f, vars, time) ==
  LET next == [f EXCEPT !.vars = vars, !.time = time, !.target = NoPanel,
                        !.pending = TRUE, !.stale = TRUE, !.generation = @ + 1]
  IN [next EXCEPT !.calls = @ \cup {[generation |-> next.generation, asked |-> Asked(next)]}]

CanAsk == fragment.generation < MaxQueries

setVariable(vars) ==
  /\ Settled /\ CanAsk
  /\ fragment' = query(fragment, vars, fragment.time)
  /\ UNCHANGED screen

\* Every chart of the group reports the brush; the second one may do so before the
\* page has rendered the first one's time.
zoom(span) ==
  /\ CanAsk
  /\ Settled \/ fragment.brush.last = span
  /\ Zooms(fragment.brush, fragment.rendered, span)
  /\ fragment' = [query(fragment, fragment.vars, span) EXCEPT
                    !.brush = Zoomed(@, fragment.rendered, span)]
  /\ UNCHANGED screen

resetZoom ==
  /\ Settled /\ CanAsk
  /\ \E time \in fragment.brush.restore :
       fragment' = [query(fragment, fragment.vars, time) EXCEPT !.brush = Unzoomed]
  /\ UNCHANGED screen

\* A panel whose points filter a variable asks again; the drill opens either way.
point(panel, vars) ==
  /\ Settled /\ (vars = fragment.vars \/ CanAsk)
  /\ LET f == IF vars = fragment.vars THEN fragment ELSE query(fragment, vars, fragment.time)
     IN fragment' = [f EXCEPT !.target = panel]
  /\ UNCHANGED screen

closeDrill ==
  /\ fragment.target # NoPanel
  /\ fragment' = [fragment EXCEPT !.target = NoPanel]
  /\ UNCHANGED screen

Dropped(call) == [fragment EXCEPT !.calls = @ \ {call}]

\* Mutant of Answer: an answer to an earlier question is shown too.
AnswerAny(call, ok) ==
  /\ fragment' = IF ok THEN [Dropped(call) EXCEPT !.shown = call.asked, !.stale = FALSE, !.pending = FALSE]
                 ELSE [Dropped(call) EXCEPT !.pending = FALSE]
  /\ UNCHANGED screen

Answer(call, ok) ==
  /\ fragment' =
       IF call.generation # fragment.generation THEN Dropped(call)
       ELSE IF ok THEN [Dropped(call) EXCEPT !.shown = call.asked, !.stale = FALSE, !.pending = FALSE]
       ELSE [Dropped(call) EXCEPT !.pending = FALSE]
  /\ UNCHANGED screen

(***************************************************************************)
(* The whole screen: the host changes the mode, tells the view so, and then *)
(* answers its request.                                                    *)
(***************************************************************************)
Quiet == screen.toHost = <<>>

openView(panel) ==
  /\ Quiet
  /\ screen' = [screen EXCEPT !.toHost = Append(@, [mode |-> "fullscreen", panel |-> panel])]
  /\ UNCHANGED fragment

closeView ==
  /\ screen.view # NoPanel
  /\ screen' = [screen EXCEPT !.view = NoPanel,
                              !.toHost = Append(@, [mode |-> "inline", panel |-> NoPanel])]
  /\ UNCHANGED fragment

requestDisplayMode ==
  /\ screen.toHost # <<>> /\ Len(screen.toView) + 2 <= MaxMessages
  /\ LET request == Head(screen.toHost)
     IN screen' = [screen EXCEPT !.toHost = Tail(@), !.host = request.mode,
                     !.toView = @ \o <<[kind |-> "mode", mode |-> request.mode, panel |-> NoPanel],
                                       [kind |-> "answer", mode |-> request.mode, panel |-> request.panel]>>]
  /\ UNCHANGED fragment

\* Escape and the close button of the host's own page.
hostCloses ==
  /\ screen.host = "fullscreen" /\ Len(screen.toView) < MaxMessages
  /\ screen' = [screen EXCEPT !.host = "inline",
                  !.toView = Append(@, [kind |-> "mode", mode |-> "inline", panel |-> NoPanel])]
  /\ UNCHANGED fragment

hear ==
  /\ screen.toView # <<>>
  /\ LET message == Head(screen.toView)
         heard == [screen EXCEPT !.toView = Tail(@)]
     IN screen' =
          IF message.kind = "mode"
          THEN [heard EXCEPT !.seen = message.mode,
                  !.view = IF screen.seen = "fullscreen" /\ message.mode = "inline" THEN NoPanel ELSE @]
          ELSE IF message.mode = "fullscreen" THEN [heard EXCEPT !.view = message.panel]
          ELSE heard
  /\ UNCHANGED fragment

FragmentNext ==
  \/ Render \/ resetZoom \/ closeDrill \/ closeView \/ requestDisplayMode \/ hostCloses \/ hear
  \/ \E of \in Fragments : receive(of)
  \/ \E vars \in Filters : setVariable(vars)
  \/ \E span \in Spans : zoom(span)
  \/ \E panel \in Panels : openView(panel) \/ \E vars \in Filters : point(panel, vars)
  \/ \E call \in fragment.calls, ok \in BOOLEAN : Answer(call, ok)

(***************************************************************************)
(* Results that do not answer what the filters and the time now say are    *)
(* marked stale for as long as they are shown, however many queries        *)
(* overtook each other, failed or were left behind by a new fragment; and  *)
(* the view waits exactly while the newest query is out                    *)
(* (fragment-view.tsx:93-104).                                             *)
(***************************************************************************)
ShownIsAsked ==
  /\ fragment.shown # Asked(fragment) => fragment.stale
  /\ fragment.pending <=> \E call \in fragment.calls : call.generation = fragment.generation
  /\ fragment.pending => fragment.stale

\* One brush is one query, however many charts of the group report it.
OneQueryPerBrush ==
  ~Settled /\ fragment'.of = fragment.of => fragment'.generation = fragment.generation

(***************************************************************************)
(* Once every message is heard, a panel is shown alone only while the host *)
(* gives the view the whole screen: closing from either side, and opening  *)
(* again at once, leave no panel covering a view that is back in the chat  *)
(* (fragment-view.tsx:40-53, mcp-app-frame.tsx:166-169, 280-284).          *)
(***************************************************************************)
AloneOnWholeScreen ==
  screen.toHost = <<>> /\ screen.toView = <<>> /\ screen.view # NoPanel
    => screen.host = "fullscreen"
=============================================================================
