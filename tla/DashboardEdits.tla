--------------------------- MODULE DashboardEdits ---------------------------
(***************************************************************************)
(* Everything on a dashboard's page that writes the dashboard: the layout  *)
(* and panel actions of the grid (dashboards/grid.tsx), the panel editor   *)
(* (panel-editor.tsx), the version history (history.tsx), and the page     *)
(* that holds their record (page.tsx).  The record comes from a query      *)
(* cache that any of them writes and that reads of the server refresh at   *)
(* any time.  A save names the version it was drawn over and is refused    *)
(* when that is no longer the latest; a restore names none.  The server is *)
(* modelled from these calls, as is a second person who saves.  Three      *)
(* fields are read by the properties alone: floor, the version of the last *)
(* restore or panel save that was answered; behind, an answer that nothing *)
(* orders put the page below it; asked, a restore was asked for since the  *)
(* drawer was opened or another version was chosen.                        *)
(***************************************************************************)
EXTENDS Naturals, Sequences, FiniteSets

CONSTANTS MaxVersion,   \* bound: versions of the dashboard
          MaxCalls      \* bound: requests in flight at a time

(***************************************************************************)
(* A spec is the set of edits its panels contain and the set that the rest *)
(* of it contains; an edit is the number of the version that made it.      *)
(***************************************************************************)
VARIABLES
  versions,   \* the server's: a sequence of specs; the last one is current
  page,       \* the page: version of its record, editing, the layout draft
  editor,     \* the panel editor's dialog
  drawer,     \* the history drawer
  calls       \* requests in flight

editsVars == <<versions, page, editor, drawer, calls>>

NoEditor == [open |-> FALSE, base |-> 0, saving |-> FALSE,
             conflict |-> "none", replaced |-> FALSE]

EditsInit ==
  /\ versions = <<[panels |-> {1}, rest |-> {1}]>>
  /\ page = [version |-> 1, editing |-> FALSE, dirty |-> FALSE, conflict |-> FALSE, floor |-> 1,
             behind |-> FALSE]
  /\ editor = NoEditor
  /\ drawer = [open |-> FALSE, submitting |-> FALSE, success |-> FALSE, asked |-> FALSE]
  /\ calls = {}

Spec(v) == versions[v]

NoSpec == [panels |-> {}, rest |-> {}]

\* own: the dialog or the drawer session that made the call is still there.
Call(kind, by, base, spec) ==
  [kind |-> kind, by |-> by, base |-> base, spec |-> spec, own |-> TRUE,
   answer |-> "pending", got |-> 0]

Sends(call) == Cardinality(calls) < MaxCalls /\ calls' = calls \cup {call}

Disowned(by) == {IF c.by = by THEN [c EXCEPT !.own = FALSE] ELSE c : c \in calls}

\* The record the page renders is replaced: a new spec resets the layout draft.
Shows(v) ==
  [page EXCEPT !.version = v, !.dirty = @ /\ v = page.version, !.behind = FALSE]

ShowsUnordered(v) == [Shows(v) EXCEPT !.behind = v < page.floor]

(***************************************************************************)
(* The page and the grid.  The dialog and the drawer cover the page.       *)
(***************************************************************************)
Uncovered == ~editor.open /\ ~drawer.open

\* A read of the record: on focus, or after the query was invalidated.  A
\* query fetches once at a time.
Refetch ==
  /\ \A c \in calls : c.kind # "get"
  /\ Sends(Call("get", "page", 0, NoSpec))
  /\ UNCHANGED <<versions, page, editor, drawer>>

\* Leaving the edit mode resets what the last mutations reported.
edit ==
  /\ Uncovered
  /\ page' = [page EXCEPT !.editing = ~@, !.conflict = FALSE]
  /\ calls' = IF page.editing THEN Disowned("grid") ELSE calls
  /\ UNCHANGED <<versions, editor, drawer>>

\* The end of a drag or a resize, on a wide screen in the edit mode.
changeLayout ==
  /\ Uncovered /\ page.editing /\ ~page.dirty
  /\ page' = [page EXCEPT !.dirty = TRUE]
  /\ UNCHANGED <<versions, editor, drawer, calls>>

\* Save layout; Duplicate and Remove, which take an unsaved layout along, or
\* send an operation for the server to apply.
GridSaves ==
  /\ Uncovered /\ page.editing
  /\ Sends(IF page.dirty
           THEN Call("replace", "grid", page.version, Spec(page.version))
           ELSE Call("patch", "grid", page.version, NoSpec))
  /\ UNCHANGED <<versions, page, editor, drawer>>

\* "Load latest" under the grid's conflict leaves the edit mode and reads again.
loadLatest ==
  /\ Uncovered /\ page.editing /\ page.conflict
  /\ page' = [page EXCEPT !.conflict = FALSE, !.editing = FALSE]
  /\ calls' = {c \in Disowned("grid") : c.kind # "get"} \cup {Call("get", "page", 0, NoSpec)}
  /\ UNCHANGED <<versions, editor, drawer>>

(***************************************************************************)
(* The panel editor                                                        *)
(***************************************************************************)
\* It captures the spec and the version it opens with.
OpenEditor ==
  /\ Uncovered
  /\ editor' = [NoEditor EXCEPT !.open = TRUE, !.base = page.version]
  /\ UNCHANGED <<versions, page, drawer, calls>>

\* Escape, the close button and Cancel, after the draft was given up if there is one.
onClose ==
  /\ editor.open
  /\ editor' = NoEditor /\ calls' = Disowned("editor")
  /\ UNCHANGED <<versions, page, drawer>>

\* An unsaved layout of the page goes along, unless the latest version was loaded:
\* the panels are those the editor opened with, the rest is what the page shows.
withLayout == [panels |-> Spec(editor.base).panels, rest |-> Spec(page.version).rest]

SavesLayout == page.editing /\ page.dirty /\ ~editor.replaced

\* Mutant of save: the panels the editor opened with replace those of the latest version.
saveOverLatest ==
  /\ editor.open /\ ~editor.saving
  /\ Sends(Call("replace", "editor", page.version, withLayout))
  /\ editor' = [editor EXCEPT !.saving = TRUE]
  /\ UNCHANGED <<versions, page, drawer>>

save ==
  /\ editor.open /\ ~editor.saving
  /\ Sends(IF SavesLayout
           THEN Call("replace", "editor", editor.base, withLayout)
           ELSE Call("patch", "editor", editor.base, NoSpec))
  /\ editor' = [editor EXCEPT !.saving = TRUE]
  /\ UNCHANGED <<versions, page, drawer>>

reload ==
  /\ editor.open /\ editor.conflict = "stale"
  /\ Sends(Call("reload", "editor", 0, NoSpec))
  /\ editor' = [editor EXCEPT !.conflict = "loading"]
  /\ UNCHANGED <<versions, page, drawer>>

(***************************************************************************)
(* The history drawer                                                      *)
(***************************************************************************)
OpenHistory ==
  /\ Uncovered
  /\ drawer' = [drawer EXCEPT !.open = TRUE]
  /\ UNCHANGED <<versions, page, editor, calls>>

\* resetFeedback: closing the drawer, or choosing a version, starts a new
\* generation, and what an earlier one asked for is not reported in it.
resetFeedback(open) ==
  /\ drawer.open
  /\ drawer' = [drawer EXCEPT !.open = open, !.success = FALSE, !.asked = FALSE]
  /\ calls' = Disowned("drawer")
  /\ UNCHANGED <<versions, page, editor>>

\* Restoring the current version, or one with the same spec, is not offered.
submit(v) ==
  /\ drawer.open /\ ~drawer.submitting
  /\ v \in DOMAIN versions /\ v # page.version /\ Spec(v) # Spec(page.version)
  /\ Sends(Call("restore", "drawer", v, NoSpec))
  /\ drawer' = [drawer EXCEPT !.submitting = TRUE, !.success = FALSE, !.asked = TRUE]
  /\ UNCHANGED <<versions, page, editor>>

(***************************************************************************)
(* The server                                                              *)
(***************************************************************************)
Current == Len(versions)

Answer(c, a, v) ==
  calls' = (calls \ {c}) \cup {[c EXCEPT !.answer = a, !.got = v, !.base = 0, !.spec = NoSpec]}

Writes(spec) == Current < MaxVersion /\ versions' = Append(versions, spec)

Edited(spec) == [spec EXCEPT !.panels = @ \cup {Current + 1}]

ServeRead(c) ==
  /\ c.kind \in {"get", "reload"}
  /\ Answer(c, "ok", Current)
  /\ UNCHANGED versions

ServeSave(c) ==
  /\ c.kind \in {"replace", "patch"}
  /\ IF c.base = Current
     THEN Writes(Edited(IF c.kind = "replace" THEN c.spec ELSE Spec(Current))) /\ Answer(c, "ok", Current + 1)
     ELSE Answer(c, "conflict", 0) /\ UNCHANGED versions

ServeRestore(c) ==
  /\ c.kind = "restore"
  /\ Writes(Spec(c.base)) /\ Answer(c, "ok", Current + 1)

ServeCall(c) ==
  /\ c.answer = "pending"
  /\ ServeRead(c) \/ ServeSave(c) \/ ServeRestore(c)
  /\ UNCHANGED <<page, editor, drawer>>

\* Refused for another reason, or lost, before it was served or after.
CallFails(c) ==
  /\ c.answer # "failed"
  /\ Answer(c, "failed", 0)
  /\ UNCHANGED <<versions, page, editor, drawer>>

\* Somebody else, or the assistant, saves.
OtherSaves ==
  /\ Writes([Edited(Spec(Current)) EXCEPT !.rest = @ \cup {Current + 1}])
  /\ UNCHANGED <<page, editor, drawer, calls>>

(***************************************************************************)
(* Answers                                                                 *)
(***************************************************************************)
Ok(c) == c.answer = "ok"

\* cancelQueries drops the reads of the record under way.
Cancelled(cs) == {c \in cs : c.kind # "get"}

ReceiveGet(c) ==
  /\ c.kind = "get"
  /\ page' = IF Ok(c) THEN Shows(c.got) ELSE page
  /\ calls' = calls \ {c}
  /\ UNCHANGED <<editor, drawer>>

ReceiveGridSave(c) ==
  /\ c.by = "grid"
  /\ page' = IF Ok(c) THEN ShowsUnordered(c.got)
             ELSE [page EXCEPT !.conflict = @ \/ (c.answer = "conflict" /\ c.own)]
  /\ calls' = calls \ {c}
  /\ UNCHANGED <<editor, drawer>>

\* A save that succeeds closes the dialog that is open, its own or a later one.
ReceiveEditorSave(c) ==
  /\ c.by = "editor" /\ c.kind # "reload"
  /\ IF Ok(c)
     THEN /\ page' = [Shows(c.got) EXCEPT !.floor = c.got]
          /\ editor' = NoEditor
          /\ calls' = {IF d.by = "editor" THEN [d EXCEPT !.own = FALSE] ELSE d : d \in Cancelled(calls \ {c})}
     ELSE /\ editor' = IF ~c.own THEN editor
                       ELSE [editor EXCEPT !.saving = FALSE,
                               !.conflict = IF c.answer = "conflict" THEN "stale" ELSE @]
          /\ calls' = calls \ {c}
          /\ UNCHANGED page
  /\ UNCHANGED drawer

\* Nothing cancels it: not the dialog's closing, nor the answer to a restore.
ReceiveReload(c) ==
  /\ c.kind = "reload"
  /\ page' = IF Ok(c) THEN ShowsUnordered(c.got) ELSE page
  /\ editor' = IF ~c.own THEN editor
               ELSE IF Ok(c) THEN [editor EXCEPT !.base = c.got, !.replaced = TRUE,
                                                 !.conflict = "none"]
               ELSE [editor EXCEPT !.conflict = "stale"]
  /\ calls' = calls \ {c}
  /\ UNCHANGED drawer

ReceiveRestore(c) ==
  /\ c.kind = "restore"
  /\ page' = IF Ok(c) THEN [Shows(c.got) EXCEPT !.floor = c.got] ELSE page
  /\ drawer' = [drawer EXCEPT !.submitting = FALSE,
                              !.success = @ \/ (Ok(c) /\ c.own /\ drawer.open)]
  /\ calls' = IF Ok(c) THEN Cancelled(calls \ {c}) ELSE calls \ {c}
  /\ UNCHANGED editor

ReceiveCall(c) ==
  /\ c.answer # "pending"
  /\ \/ ReceiveGet(c) \/ ReceiveGridSave(c) \/ ReceiveEditorSave(c)
     \/ ReceiveReload(c) \/ ReceiveRestore(c)
  /\ UNCHANGED versions

EditsNext ==
  \/ Refetch \/ edit \/ changeLayout \/ GridSaves \/ loadLatest
  \/ OpenEditor \/ onClose \/ save \/ reload
  \/ OpenHistory \/ \E open \in BOOLEAN : resetFeedback(open)
  \/ \E v \in 1..MaxVersion : submit(v)
  \/ OtherSaves
  \/ \E c \in calls : ServeCall(c) \/ CallFails(c) \/ ReceiveCall(c)

(***************************************************************************)
(* Properties                                                              *)
(***************************************************************************)
Keeps(after, before) == before.panels \subseteq after.panels /\ before.rest \subseteq after.rest

\* "A background refresh cannot silently rebase a draft over another edit"
\* (grid.tsx): a version that a save makes holds every edit of the one before,
\* whoever saved, refreshed or restored while the draft was open.  Only a
\* restore takes edits away.
NoEditLost ==
  versions' # versions =>
    \/ Keeps(versions'[Current + 1], Spec(Current))
    \/ \E c \in calls : ServeRestore(c)

\* One restore at a time: not from two clicks in one render, nor from closing the
\* drawer and opening it again during the request (history.tsx, submitting).
OneRestore ==
  /\ Cardinality({c \in calls : c.kind = "restore"}) <= 1
  /\ drawer.submitting <=> \E c \in calls : c.kind = "restore"

(***************************************************************************)
(* No read of the record that was under way when a restore or a panel save *)
(* was answered puts the page back to an older version than that answer:   *)
(* only what is not cancelled then may, a panel editor's "Load latest"     *)
(* (panel-editor.tsx:98-99) and a save of the grid that is answered late.  *)
(***************************************************************************)
ReadsKeepAnswer ==
  /\ \A c \in calls : c.kind = "get" /\ Ok(c) => c.got >= page.floor
  /\ page.version < page.floor => page.behind

\* The drawer confirms only a restore it asked for since it was opened or another
\* version was chosen (history.tsx:42, feedbackGeneration), never while one is out.
ConfirmsItsRestore == drawer.success => drawer.open /\ drawer.asked /\ ~drawer.submitting
=============================================================================
