----------------------------- MODULE ChatScroll -----------------------------
(***************************************************************************)
(* Where the conversation pane stands: useTurnAnchor (chat-scroll.ts).     *)
(* The latest turn is anchored at its question until the reader scrolls;   *)
(* after that the message the reader looks at stays where it is.  Offsets  *)
(* are abstracted to what the pane shows; the browser's rendering steps    *)
(* are kept: scroll events of a frame come before its layout, and the      *)
(* resize observers after it, before anything else can run.                *)
(***************************************************************************)
EXTENDS Naturals

CONSTANT MaxQuestion   \* bound: turns of the conversation

VARIABLE scroll

scrollVars == <<scroll>>

(***************************************************************************)
(* question is the question of the last render; 0 is an empty thread.      *)
(* at: "question" (the latest one, at its inset), "reader" (the captured   *)
(* message where the reader put it), "end", or "moved" (by the reader, or  *)
(* by a layout that no alignment followed).  own: scrollTop is the         *)
(* programmaticTop.  event: a scroll event is queued.  byReader: the       *)
(* reader scrolled since the last event (a history variable).              *)
(***************************************************************************)
Detached == [pane |-> FALSE, question |-> 0, anchored |-> TRUE, dragging |-> FALSE,
             captured |-> FALSE, at |-> "moved", own |-> FALSE, event |-> FALSE,
             byReader |-> FALSE]

ScrollInit == scroll = Detached

MovedTo(s, place) == [s EXCEPT !.at = place, !.own = TRUE, !.event = @ \/ s.at # place]

captureAnchor(s) == [s EXCEPT !.captured = TRUE, !.at = IF @ = "question" THEN @ ELSE "reader"]

align(s) ==
  IF ~s.pane THEN s
  ELSE IF s.anchored THEN (IF s.question = 0 THEN s ELSE MovedTo(s, "question"))
  ELSE captureAnchor(IF s.captured THEN MovedTo(s, s.at) ELSE s)

release(s) == captureAnchor([s EXCEPT !.anchored = FALSE])

\* The ref callback: the conversation is mounted, or React replaces its node.
scrollRef ==
  \E there \in BOOLEAN :
    scroll' = align([Detached EXCEPT !.pane = there, !.question = scroll.question])

\* Every render aligns; one with a new question anchors it, whatever was held.
Render ==
  \E q \in {scroll.question, scroll.question + 1} :
    /\ scroll.pane /\ q <= MaxQuestion
    /\ scroll' = align(IF q = scroll.question THEN scroll
                       ELSE [scroll EXCEPT !.question = q, !.anchored = TRUE,
                                           !.captured = FALSE])

\* A frame's layout: content grew or shrank, which may clamp scrollTop and
\* queue an event; the observers then align, in the same frame.
LayoutChanges ==
  /\ scroll.pane /\ scroll.question # 0
  /\ \E clamped \in BOOLEAN :
       scroll' = align([scroll EXCEPT !.own = @ /\ ~clamped, !.event = @ \/ clamped])

\* Wheel, touch and the scroll keys release before the pane has moved.
ReaderScrolls ==
  /\ scroll.pane
  /\ scroll' = [release(scroll) EXCEPT !.at = "moved", !.own = FALSE, !.event = TRUE,
                                       !.byReader = TRUE]

\* Dragging the scrollbar: only the scroll event tells.
PointerDown ==
  /\ scroll.pane
  /\ scroll' = [scroll EXCEPT !.dragging = TRUE]

PointerUp == scroll' = [scroll EXCEPT !.dragging = FALSE]

DragScrolls ==
  /\ scroll.pane /\ scroll.dragging
  /\ scroll' = [scroll EXCEPT !.at = "moved", !.own = FALSE, !.event = TRUE, !.byReader = TRUE]

\* Mutant of onScroll: a scroll the pane made itself counts as the reader's.
onAnyScroll ==
  /\ scroll.event
  /\ LET moved == IF scroll.dragging THEN release(scroll) ELSE scroll
     IN scroll' = [(IF moved.anchored THEN moved ELSE captureAnchor(moved))
                   EXCEPT !.event = FALSE, !.byReader = FALSE]

onScroll ==
  /\ scroll.event
  /\ LET moved == IF scroll.dragging /\ ~scroll.own THEN release(scroll) ELSE scroll
     IN scroll' = [(IF moved.anchored THEN moved ELSE captureAnchor(moved))
                   EXCEPT !.event = FALSE, !.byReader = FALSE]

jumpToLatest ==
  /\ scroll.pane
  /\ scroll' = captureAnchor([MovedTo(scroll, "end") EXCEPT !.anchored = FALSE])

ScrollNext ==
  \/ scrollRef \/ Render \/ LayoutChanges \/ onScroll
  \/ ReaderScrolls \/ PointerDown \/ PointerUp \/ DragScrolls \/ jumpToLatest

(***************************************************************************)
(* Properties                                                              *)
(***************************************************************************)
\* Only the reader lets go of the question: a scroll event that the pane's own
\* alignment or a clamped scrollTop caused never does, not even while a pointer
\* is held down in the pane (chat-scroll.ts, the comment on useTurnAnchor).
OnlyReaderReleases ==
  scroll.anchored /\ ~scroll'.anchored =>
    scroll.byReader \/ scroll'.byReader \/ jumpToLatest
=============================================================================
