------------------------------ MODULE ServiceMap ------------------------------
(***************************************************************************)
(* The service map (src/ui/panels/rollups.ts and                           *)
(* src/ui/host/src/dashboards/viz/service-map*.ts): the graph made of a    *)
(* frame, its layout - at once for a small graph, by a worker for a large  *)
(* one - and the reader's view of it, which follows the fitted one until   *)
(* it is moved.  Layout is Dagre's: a layout is known by the topology it   *)
(* is of.  A view is the fitted one of a layout and a size, the overview   *)
(* of the same, or wherever the reader moved it.                           *)
(***************************************************************************)
EXTENDS Integers, Sequences, FiniteSets
LOCAL INSTANCE SequencesExt
LOCAL INSTANCE FiniteSetsExt

CONSTANTS Frames,      \* [nodes : service -> health, edges : pairs of services]
          Widths,      \* widths of the panel
          Inline,      \* services that are laid out at once (60)
          NoLayout, NoService

VARIABLES frame,    \* the result the panel shows
          map       \* the map's own state

mapVars == <<frame, map>>

Known(f) == DOMAIN f.nodes \cup UNION {{e[1], e[2]} : e \in f.edges}

\* Both ends of an edge are nodes, whether the frame has their health or not.
serviceMapModel(f) ==
  [nodes |-> [s \in Known(f) |-> IF s \in DOMAIN f.nodes THEN f.nodes[s] ELSE "unknown"],
   edges |-> f.edges]

\* What a layout depends on: never the health.
structure(model) == [nodes |-> DOMAIN model.nodes, edges |-> model.edges]

Model == serviceMapModel(frame)

\* fitServiceMap draws the layout with the current model, or the one it was laid out for.
Drawn == IF map.cached = NoLayout THEN NoLayout
         ELSE IF map.cached.key = structure(Model) THEN Model ELSE map.cached.model

Fitted(key, width) == <<"fitted", key, width>>
Overview(key, width) == <<"overview", key, width>>
Moved == <<"moved">>
Unlaid == <<"fitted", NoLayout, 0>>

(***************************************************************************)
(* Cards without edges are wrapped into rows under the graph.              *)
(***************************************************************************)
cardWidth(s) == 10 * s
Spacing == 12

RowWidth(row) == FoldLeft(LAMBDA w, s : w + cardWidth(s), 0, row) + (Len(row) - 1) * Spacing

isolated(model) ==
  SetToSortSeq({s \in DOMAIN model.nodes : \A e \in model.edges : s # e[1] /\ s # e[2]}, <)

wrapIsolated(model, width) ==
  LET available == Max({1, width - 24})
      Put(rows, s) ==
        IF rows # <<>> /\ RowWidth(Last(rows)) + Spacing + cardWidth(s) <= available
        THEN [rows EXCEPT ![Len(rows)] = Append(@, s)]
        ELSE Append(rows, <<s>>)
  IN FoldLeft(Put, <<>>, isolated(model))

\* Mutant of Refit: only a new topology moves the view.
RefitNew(m, key) ==
  LET fit == Fitted(key, m.width)
  IN IF key = NoLayout THEN [m EXCEPT !.previousFit = fit]
     ELSE [m EXCEPT !.view = IF key # m.fittedKey THEN fit ELSE @, !.fittedKey = key, !.previousFit = fit]

(***************************************************************************)
(* The layout effect, and the one that keeps the fitted view.              *)
(***************************************************************************)
\* A layout or a size that differs moves the view with it: to a new topology always,
\* else only where the reader has not moved it.
Refit(m, key) ==
  LET fit == Fitted(key, m.width)
  IN IF key = NoLayout THEN [m EXCEPT !.previousFit = fit]
     ELSE [m EXCEPT !.view = IF key # m.fittedKey \/ @ = m.previousFit THEN fit ELSE @,
                    !.fittedKey = key, !.previousFit = fit]

CachedKey(m) == IF m.cached = NoLayout THEN NoLayout ELSE m.cached.key

\* The worker of the layout before is terminated with it.
Layout(m, model) ==
  LET key == structure(model)
      clear == [m EXCEPT !.error = FALSE, !.worker = NoLayout]
      laid == [key |-> key, model |-> model]
  IN IF Cardinality(DOMAIN model.nodes) <= Inline
     THEN {Refit([clear EXCEPT !.cached = laid], key)}
     ELSE {[clear EXCEPT !.worker = laid], [clear EXCEPT !.error = TRUE]}

MapInit ==
  /\ frame \in Frames
  /\ \E width \in Widths :
       \E m \in Layout([width |-> width, cached |-> NoLayout, worker |-> NoLayout, error |-> FALSE,
                        view |-> Unlaid, fittedKey |-> NoLayout, previousFit |-> Unlaid,
                        hover |-> NoService, drag |-> "none", suppress |-> FALSE, opened |-> FALSE],
                       serviceMapModel(frame)) : map = m

refresh(f) ==
  /\ frame' = f
  /\ IF structure(serviceMapModel(f)) = structure(Model) THEN map' = map
     ELSE map' \in Layout(map, serviceMapModel(f))

workerAnswers ==
  /\ map.worker # NoLayout
  /\ map' = Refit([map EXCEPT !.worker = NoLayout, !.cached = map.worker], map.worker.key)
  /\ UNCHANGED frame

workerFails ==
  /\ map.worker # NoLayout
  /\ map' = [map EXCEPT !.worker = NoLayout, !.error = TRUE]
  /\ UNCHANGED frame

resize(width) ==
  /\ width # map.width
  /\ map' = Refit([map EXCEPT !.width = width], CachedKey(map))
  /\ UNCHANGED frame

(***************************************************************************)
(* The reader                                                              *)
(***************************************************************************)
Fit(m) == Fitted(CachedKey(m), m.width)

\* A map that does not fit toggles between its fitted view and the overview.
fit(needsOverview) ==
  /\ map.cached # NoLayout
  /\ map' = [map EXCEPT !.view = IF @[1] = "overview" \/ ~needsOverview THEN Fit(map)
                                 ELSE Overview(CachedKey(map), map.width)]
  /\ UNCHANGED frame

wheel(back) ==
  /\ map.cached # NoLayout /\ ~map.error
  /\ map' = [map EXCEPT !.view = IF back THEN Fit(map) ELSE Moved]
  /\ UNCHANGED frame

pointerDown ==
  /\ map.drag = "none"
  /\ map' = [map EXCEPT !.suppress = FALSE, !.drag = "held", !.opened = FALSE]
  /\ UNCHANGED frame

pointerMove ==
  /\ map.drag # "none"
  /\ map' = [map EXCEPT !.drag = "moved", !.view = Moved]
  /\ UNCHANGED frame

pointerCancel ==
  /\ map.drag # "none"
  /\ map' = [map EXCEPT !.drag = "none", !.suppress = FALSE]
  /\ UNCHANGED frame

Select(m) == IF m.suppress THEN [m EXCEPT !.suppress = FALSE] ELSE [m EXCEPT !.opened = TRUE]

\* The click that follows goes to the card the pointer was pressed on, or to none.
pointerUp(onCard) ==
  /\ map.drag # "none"
  /\ LET released == [map EXCEPT !.suppress = (map.drag = "moved"), !.drag = "none"]
     IN map' = IF onCard THEN Select(released) ELSE released
  /\ UNCHANGED frame

enter ==
  /\ map.cached # NoLayout /\ map.drag = "none"
  /\ map' = Select([map EXCEPT !.suppress = FALSE])
  /\ UNCHANGED frame

hover(s) ==
  /\ Drawn # NoLayout /\ s \in DOMAIN Drawn.nodes \cup {NoService}
  /\ map' = [map EXCEPT !.hover = s]
  /\ UNCHANGED frame

MapNext ==
  \/ \E f \in Frames : refresh(f)
  \/ workerAnswers \/ workerFails
  \/ \E width \in Widths : resize(width)
  \/ \E b \in BOOLEAN : fit(b) \/ wheel(b) \/ pointerUp(b)
  \/ pointerDown \/ pointerMove \/ pointerCancel \/ enter
  \/ \E s \in UNION {Known(f) : f \in Frames} \cup {NoService} : hover(s)

(***************************************************************************)
(* Properties                                                              *)
(***************************************************************************)

\* What is drawn always has a place: the layout on the canvas is of the very topology
\* that is drawn on it, however refreshes, workers and failures follow each other, and
\* once nothing is under way it is the current result (service-map.tsx, the effect on
\* structure.key).
DrawnIsLaidOut ==
  /\ Drawn # NoLayout => map.cached.key = structure(Drawn)
  /\ map.worker # NoLayout => map.worker.key = structure(Model)
  /\ map.worker = NoLayout /\ ~map.error => map.cached # NoLayout /\ Drawn = Model

\* Isolated services are each in one row, in order, and a row runs over the panel's
\* width only where a single card is wider.
IsolatedWrapped ==
  LET rows == wrapIsolated(Model, map.width)
  IN /\ FlattenSeq(rows) = isolated(Model)
     /\ \A i \in DOMAIN rows : RowWidth(rows[i]) <= Max({1, map.width - 24}) \/ Len(rows[i]) = 1

\* A fitted view is the fit of what is drawn: neither a new layout nor a new size
\* leaves the reader with the fit of an older one.
FitFollows ==
  map.cached # NoLayout /\ map.view[1] = "fitted" => map.view = Fit(map)

\* Dragging the map never opens the service under the pointer.
DragOpensNothing ==
  ~map.opened /\ map'.opened => map.drag # "moved"
=============================================================================
