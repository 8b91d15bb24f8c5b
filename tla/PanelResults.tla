---------------------------- MODULE PanelResults ----------------------------
(***************************************************************************)
(* What a dashboard shows in its panels: usePanelResults                   *)
(* (dashboards/use-panel-results.ts), with refreshDashboard (refresh.ts),  *)
(* queryPanels (api.ts), the retry policy and the result classification.   *)
(* One query per key (dashboard, spec, time and variables) streams a batch *)
(* of panels; panels that scroll into view, a manual refresh and a retry   *)
(* wait for it.  The query cache is a library, modelled from how the hook  *)
(* uses it: a key that is left aborts its fetch, and a failed fetch is     *)
(* repeated a few times.  Effects run with the render that causes them.    *)
(***************************************************************************)
EXTENDS Naturals, FiniteSets

CONSTANTS Panels,     \* the panels of the dashboard (none of them text)
          BusyGroup,  \* busyGroup: panels turned away rerun this many at a time
          Retries     \* retryPanelQuery: repeats of a failed fetch

VARIABLE panels

panelVars == <<panels>>

\* What a panel answers in a batch; "busy" was not run, and "request" is an
\* error it may be asked again about, its own or that of the whole request.
Answers == {"ok", "error", "request", "busy"}

\* frame: "new" is of the batch in flight or the last one, "old" of one before.
Blank == [frame |-> "none", note |-> "none"]

Nothing == [p \in Panels |-> "none"]

\* sent: the panels of the batch, busy those of them that were turned away before;
\* todo: asked for by the request under way, which is of a group or the first.
NoFetch == [on |-> FALSE, sent |-> {}, busy |-> {}, todo |-> {}, later |-> {}, group |-> {},
            got |-> Nothing, tries |-> 0]

(***************************************************************************)
(* Keys are told apart from the one that is shown only: kept and requested *)
(* say whether they are `here', of the key shown, and a retry queued under *)
(* a key that is left is dropped at once.  data is the last batch that     *)
(* settled under the key, as the panels that had a frame in it; a cached   *)
(* batch is all frames or all errors.  The header with which a refresh the *)
(* user asked for passes over results the server keeps is left out.  held  *)
(* is read by the property alone: a queued retry that had nothing left to  *)
(* send kept a queued refresh from its batch's end.                        *)
(***************************************************************************)
PanelsOff ==
  [visible |-> Panels, fetch |-> NoFetch, data |-> {},
   kept |-> [here |-> TRUE, seen |-> FALSE, results |-> [p \in Panels |-> Blank]],
   requested |-> [here |-> TRUE, ids |-> {}],
   lazy |-> {}, queuedRefresh |-> FALSE,
   queuedRetry |-> {}, held |-> FALSE]

\* The snapshot the hook returns.
results(s) == IF s.kept.here THEN s.kept.results ELSE [p \in Panels |-> Blank]

knownEmpty(s) == s.visible = {} /\ s.kept.here /\ s.kept.seen

RequestError(s, p) == results(s)[p].note = "request"

attempted(s) == IF s.requested.here THEN s.requested.ids ELSE {}

(***************************************************************************)
(* merge: an error keeps the frame it finds.  Batches are numbered as they *)
(* land, and the query's data counts only while its number is above the    *)
(* one that was received last: `newer'.                                    *)
(***************************************************************************)
MergeOne(r, answer, age) ==
  CASE answer = "none" -> r
    [] answer = "ok" -> [frame |-> age, note |-> "none"]
    [] OTHER -> [r EXCEPT !.note = answer]

Frames(ids) == [p \in Panels |-> IF p \in ids THEN "ok" ELSE "none"]

merge(s, data, newer, age, failed, note) ==
  LET fresh == IF newer THEN data ELSE Nothing
  IN [s EXCEPT !.kept =
       [here |-> TRUE, seen |-> newer \/ (s.kept.here /\ s.kept.seen),
        results |-> [p \in Panels |->
          MergeOne(MergeOne(results(s)[p], fresh[p], age),
                   IF p \in failed THEN note ELSE "none", age)]]]

(***************************************************************************)
(* queryFn.  A refresh asks for the panels in view, all when none is; those *)
(* that were turned away come after the rest, a group at a time.           *)
(***************************************************************************)
Aged(r) == IF r.frame = "new" THEN [r EXCEPT !.frame = "old"] ELSE r

Send(s, tries) ==
  LET batch == IF s.lazy # {} THEN s.lazy ELSE IF s.visible = {} THEN Panels ELSE s.visible
      busy == {p \in batch : results(s)[p].note = "busy"}
  IN [s EXCEPT
        !.requested = [here |-> TRUE, ids |-> attempted(s) \cup batch],
        !.held = FALSE,
        !.fetch = [NoFetch EXCEPT !.on = TRUE, !.sent = batch, !.busy = busy,
                                  !.todo = batch \ busy, !.later = busy, !.tries = tries]]

Start(s) ==
  IF knownEmpty(s) /\ s.lazy = {}
  THEN [s EXCEPT !.data = {}]
  ELSE Send([s EXCEPT !.kept.results = [p \in Panels |-> Aged(@[p])]], 0)

(***************************************************************************)
(* The effects: what is asked for next once nothing is being fetched.      *)
(***************************************************************************)
\* A panel turned away and out of view is no longer attempted.
Forget(s) ==
  [s EXCEPT !.requested.ids =
     IF ~s.requested.here THEN @
     ELSE {p \in @ : results(s)[p].note # "busy" \/ p \in s.visible}]

missing(s) ==
  {p \in s.visible \ attempted(s) : results(s)[p] = Blank \/ results(s)[p].note = "busy"}

\* Panels in view that never loaded under this key.
FetchLazy(s) ==
  IF s.fetch.on \/ s.queuedRefresh \/ s.lazy # {} \/ missing(s) = {} THEN s
  ELSE Start([s EXCEPT !.lazy = missing(s)])

RunRefresh(s) ==
  LET taken == [s EXCEPT !.queuedRefresh = FALSE, !.lazy = {}, !.held = FALSE]
  IN IF knownEmpty(s) THEN taken ELSE Start(taken)

\* A queued retry goes before a queued refresh, even one with nothing left to send.
Effects(s) ==
  LET taken == [s EXCEPT !.queuedRetry = {}]
      again == {p \in s.queuedRetry : RequestError(s, p)}
  IN IF s.fetch.on THEN s
     ELSE IF s.queuedRetry # {} THEN (IF again # {} THEN Start([taken EXCEPT !.lazy = again])
                        ELSE FetchLazy([taken EXCEPT !.held = s.queuedRefresh]))
     ELSE IF s.queuedRefresh THEN RunRefresh(taken) ELSE FetchLazy(taken)

PanelsInit == panels = Start(PanelsOff)

(***************************************************************************)
(* The batch in flight                                                     *)
(***************************************************************************)
\* A result streams in: it is shown at once.
partial(p, answer) ==
  /\ panels.fetch.on /\ p \in panels.fetch.todo
  /\ panels' = Forget(merge([panels EXCEPT !.fetch.todo = @ \ {p}, !.fetch.got[p] = answer],
                            [Nothing EXCEPT ![p] = answer], TRUE, "new", {}, "none"))

Unlanded(f) == {p \in f.sent : f.got[p] = "none"}

GroupTurnedAway == \E p \in panels.fetch.group : panels.fetch.got[p] = "busy"

\* A stream ends, though it left panels out, and the next group is asked for.
NextGroup ==
  /\ panels.fetch.on /\ panels.fetch.later # {} /\ ~GroupTurnedAway
  /\ \E g \in SUBSET panels.fetch.later :
       /\ g # {} /\ (g = panels.fetch.later \/ Cardinality(g) = BusyGroup)
       /\ Cardinality(g) <= BusyGroup
       /\ panels' = [panels EXCEPT !.fetch.todo = g, !.fetch.later = @ \ g,
                                   !.fetch.group = g]

\* The last stream ends.  A panel left out is an error, but for those of the groups.
BatchEnds ==
  /\ panels.fetch.on /\ (panels.fetch.later = {} \/ GroupTurnedAway)
  /\ LET f == panels.fetch
         answers == [p \in Panels |-> IF p \in Unlanded(f) \ f.busy THEN "request" ELSE f.got[p]]
         settled == [panels EXCEPT !.fetch = NoFetch, !.lazy = {},
                            !.data = {p \in Panels : answers[p] = "ok"}]
     IN panels' = Effects(Forget(merge(settled, answers, TRUE, "new", {}, "none")))

\* A request fails or its stream breaks: the query repeats the batch, or gives up;
\* at once on a timeout and on what the request itself was refused for.  What may
\* be asked again about, 408 and 429 among them, is a request error.
BatchFails ==
  /\ panels.fetch.on
  /\ LET f == panels.fetch
         settled == [panels EXCEPT !.fetch = NoFetch, !.lazy = {}]
     IN \/ /\ f.tries < Retries
           /\ panels' = Send(panels, f.tries + 1)
        \/ \E note \in {"request", "error"} :
             panels' = Effects(Forget(merge(settled, Frames(panels.data), FALSE, "old", Unlanded(f), note)))

(***************************************************************************)
(* The reader and the clock                                                *)
(***************************************************************************)
refetchInterval ==
  /\ ~panels.fetch.on /\ ~knownEmpty(panels)
  /\ panels' = Start(panels)

refetch ==
  /\ ~knownEmpty(panels)
  /\ panels' = IF ~panels.fetch.on THEN Start(panels)
               ELSE [panels EXCEPT !.queuedRefresh = @ \/ panels.lazy # {}]

\* The Retry of a panel that is not being fetched.
retry(p) ==
  /\ RequestError(panels, p) /\ p \notin Unlanded(panels.fetch)
  /\ panels' = IF ~panels.fetch.on THEN Start([panels EXCEPT !.lazy = {p}])
               ELSE [panels EXCEPT !.queuedRetry = @ \cup {p}]

onVisible ==
  \E ids \in SUBSET Panels :
    /\ ids # panels.visible
    /\ panels' = LET s == Forget([panels EXCEPT !.visible = ids])
                 IN IF knownEmpty(s) # knownEmpty(panels) THEN Effects(s) ELSE FetchLazy(s)

\* A new time, variable or spec: the fetch of the old key is aborted.  If the
\* new one was shown before, what is kept and was asked for under it is here
\* again, and its last batch may still be in the cache, stale or not.
Changed(back) ==
  LET Again(held) == ~held /\ back
  IN [panels EXCEPT !.fetch = NoFetch, !.lazy = {}, !.data = {},
                    !.kept.here = Again(@), !.requested.here = Again(@),
                    !.queuedRetry = {}]

ChangeKey ==
  \/ \E back \in BOOLEAN : panels' = Effects(Start(Changed(back)))
  \/ \E stale \in BOOLEAN, data \in {{}, Panels} :
       LET s == [Changed(TRUE) EXCEPT !.data = data]
           errors == IF s.kept.here THEN {} ELSE Panels \ data
           shown == Forget(merge(s, Frames(data), ~s.kept.here, "old", errors, "request"))
       IN panels' = Effects(IF stale THEN Start(shown) ELSE shown)

PanelsNext ==
  \/ \E p \in Panels, answer \in Answers : partial(p, answer)
  \/ NextGroup \/ BatchEnds \/ BatchFails
  \/ refetchInterval \/ refetch \/ onVisible \/ ChangeKey
  \/ \E p \in Panels : retry(p)

(***************************************************************************)
(* Properties                                                              *)
(***************************************************************************)
Sends(s) == s.fetch.on /\ s.fetch.got = Nothing /\ s.fetch.tries = 0

\* A frame that is shown goes away, or falls back to an older one, by nothing but
\* a change of the key: not by an error, by a panel turned away, by a stream
\* that breaks after it sent some results, or by the data of the batch before
\* (use-panel-results.ts, merge).
FramesKept ==
  (\E p \in Panels :
     LET was == results(panels)[p].frame
         now == results(panels')[p].frame
     IN \/ was # "none" /\ now = "none"
        \/ was = "new" /\ now = "old" /\ ~Sends(panels'))
    => ChangeKey

(***************************************************************************)
(* Once nothing is fetched every panel in view has a result or was asked   *)
(* for under this key, and no refresh is left queued, whatever scrolled,   *)
(* failed or was queued during the batch; but for a batch at whose end the *)
(* queued retry had nothing left to send: the refresh pressed during it    *)
(* then waits for the next batch (use-panel-results.ts:41-42).             *)
(***************************************************************************)
VisibleAsked ==
  ~panels.fetch.on /\ ~panels.held =>
    /\ ~panels.queuedRefresh
    /\ \A p \in panels.visible : p \in attempted(panels) \/ results(panels)[p] # Blank
=============================================================================
