------------------------------ MODULE WebPages -------------------------------
(***************************************************************************)
(* The pages of the web app beside the dashboards.  They share no state,   *)
(* so a behaviour is one of a single page: `part' says which, and v1, ...  *)
(* are its variables.  The parameters of a page are constants here under   *)
(* its own names for them; the Builder and the landing page's replay and   *)
(* clips are small instances.                                              *)
(***************************************************************************)
EXTENDS Integers, Sequences, FiniteSets, TLC

CONSTANT Parts        \* the pages that a run takes

CONSTANTS  \* the gate, the settings and the alerts
  Accounts, MaxWire,
  Agents, MaxTokens, Endpoints, Spaces,
  Rules, Contents, New, MaxRev, MaxTests, MaxWrites

CONSTANTS  \* the searches and the editor
  Queries, Long, Statements, Windows, MaxCalls,
  Filters, NoFilters, Fields,
  Texts, Reports, MaxBatch, MaxEchoes

CONSTANTS  \* values that stand for nothing, and those of the small instance
  NoOne, NoAgent, NoData, NoRule, NoAlerts, NoText, NoSpan,
  NoFilter, Final, a0, b0, c0,
  x0, y0                \* two that nothing tells apart

\* The Builder opens on a query that the text editor can hold; no query is SQL.
ASSUME QueriesAssumption ==
  /\ \E q \in Queries : q \notin Long
  /\ Queries \cap Statements = {} /\ NoText \notin Queries \cup Statements

ASSUME RevisionsAssumption == MaxRev \in Nat

\* A mark and a fix-it of a report end where they start or behind it: at the
\* end of the text they may be empty (fanql/lexer.go).
IsSpan(s) == s = [start |-> s.start, end |-> s.end] /\ s.start \in Int /\ s.end \in Int /\ s.start <= s.end

ASSUME ReportsAssumption ==
  \A r \in Reports : \A i \in r.problems \cup r.notices :
    /\ i.span # NoSpan => IsSpan(i.span)
    /\ \A f \in i.fixes : f = [span |-> f.span, size |-> f.size] /\ IsSpan(f.span) /\ f.size \in Int

VARIABLES part, v1, v2, v3, v4

vars == <<part, v1, v2, v3, v4>>

\* Values for the run.
Endpoint(scheme, port, path) == [scheme |-> scheme, port |-> port, path |-> path]

MCEndpoints == {Endpoint("http", "443", FALSE), Endpoint("https", "none", TRUE)}

MCTexts == [id : {x0, y0}, len : 4..5]

Item(start, end, sizes) ==
  [span |-> [start |-> start, end |-> end],
   fixes |-> {[span |-> [start |-> start, end |-> end], size |-> k] : k \in sizes}]

Global(fixes) == [span |-> NoSpan, fixes |-> fixes]

MCReports ==
  {[problems |-> {Item(0, 1, {}), Item(2, 3, {0, 2}), Item(4, 5, {1})}, notices |-> {Global({})}],
   [problems |-> {Global({[span |-> [start |-> 0, end |-> 1], size |-> 2]}),
                  Item(1, 2, {}), Item(4, 4, {})},
    notices |-> {Item(2, 3, {2})}]}

Gate     == INSTANCE SignIn WITH gate <- v1, wire <- v2, server <- v3
Settings == INSTANCE SettingsPage WITH Blank <- Spaces, server <- v1, cache <- v2, page <- v3
Alerts   == INSTANCE AlertsPage WITH NoList <- NoAlerts,
              server <- v1, list <- v2, page <- v3, calls <- v4
Explore  == INSTANCE ExplorePage WITH page <- v1, calls <- v2
Search   == INSTANCE SearchPage WITH search <- v1, searching <- v2
Builder  == INSTANCE QueryBuilder WITH Filters <- {a0, b0, c0}, Chips <- {c0}, Everywhere <- {a0, c0},
              builder <- v1
Text     == INSTANCE FanqlEditor WITH ed <- v1
Media    == INSTANCE LandingMedia WITH Duration <- 5, WINDOW <- 3, Beat <- 2, Late <- 1,
              MaxElapsed <- 14, MaxTasks <- 3, Length <- 3, Short <- 1, Slack <- 1, MaxMarks <- 2,
              Samples <- <<[at |-> 1, value |-> 7], [at |-> 3, value |-> 9], [at |-> 4, value |-> 8]>>,
              Files <- <<"dark", "light">>, Takes <- {x0, y0}, NoFile <- NoText,
              replay <- v1, video <- v1, clip <- v1, media <- v1

\* Each part sets its own variables; the rest are off.
Init ==
  /\ part \in Parts
  /\ \/ part = "alerts" /\ Alerts!AlertsInit
     \/ /\ v4 = "off"
        /\ \/ part = "gate" /\ Gate!SignInInit
           \/ part = "settings" /\ Settings!SettingsInit
     \/ /\ v3 = "off" /\ v4 = "off"
        /\ \/ part = "explore" /\ Explore!ExploreInit
           \/ part = "search" /\ Search!SearchInit
     \/ /\ v2 = "off" /\ v3 = "off" /\ v4 = "off"
        /\ \/ part = "builder" /\ Builder!BuilderInit
           \/ part = "text" /\ Text!EditorInit
           \/ part = "replay" /\ Media!ReplayInit
           \/ part = "video" /\ Media!VideoInit
           \/ part = "clip" /\ Media!ClipInit
           \/ part = "upload" /\ Media!MediaInit

Next ==
  \/ part = "alerts" /\ Alerts!AlertsNext /\ UNCHANGED part
  \/ part = "gate" /\ Gate!SignInNext /\ UNCHANGED <<part, v4>>
  \/ part = "settings" /\ Settings!SettingsNext /\ UNCHANGED <<part, v4>>
  \/ part = "explore" /\ Explore!ExploreNext /\ UNCHANGED <<part, v3, v4>>
  \/ part = "search" /\ Search!SearchNext /\ UNCHANGED <<part, v3, v4>>
  \/ part = "builder" /\ Builder!BuilderNext /\ UNCHANGED <<part, v2, v3, v4>>
  \/ part = "text" /\ Text!EditorNext /\ UNCHANGED <<part, v2, v3, v4>>
  \/ part = "replay" /\ Media!ReplayNext /\ UNCHANGED <<part, v2, v3, v4>>
  \/ part = "video" /\ Media!VideoNext /\ UNCHANGED <<part, v2, v3, v4>>
  \/ part = "clip" /\ Media!ClipNext /\ UNCHANGED <<part, v2, v3, v4>>
  \/ part = "upload" /\ Media!MediaNext /\ UNCHANGED <<part, v2, v3, v4>>

Spec == Init /\ [][Next]_vars

PagesSymmetry == Permutations({x0, y0})

(***************************************************************************)
(* What a page holds in memory agrees with what the control plane said     *)
(* last: forms that wait for it, the token shown and the settings read     *)
(* beside it, the alert rules after a write.  A read that was under way    *)
(* before a write does not deny it, and an answer for a dialog that was    *)
(* closed changes nothing; a read of the settings begun during the write   *)
(* is excepted (auth.tsx, settings.tsx, alerts/page.tsx).                  *)
(***************************************************************************)
PageAgreesWithServer ==
  /\ part = "gate" => Gate!FormBusy
  /\ part = "settings" => Settings!SettingsAreTrue
  /\ part = "alerts" => Alerts!AnswersFollowWrites

(***************************************************************************)
(* Address, editors and results of a page tell the same story after any    *)
(* sequence of edits, runs, Back and Forward: in Explore one query and one *)
(* window, but after a Back to an entry with nothing to run, in the search *)
(* the fields and the text (explore/page.tsx, search-page.tsx).            *)
(***************************************************************************)
PageAgreesWithAddress ==
  /\ part = "explore" => Explore!ExploreRunning /\ Explore!OneQuery
  /\ part = "search" => Search!SearchFollowsFields

\* Text that a page puts back, and fix-its the server offers, neither take away
\* what was typed nor mark other code than they did (fanql-editor.tsx).
EditorKeepsText == part = "text" => Text!TypingIsKept /\ Text!KeptSpansHold

(***************************************************************************)
(* What the landing page plays is what was measured and recorded: only     *)
(* watched time moves the replay, the clip is that of the theme, a cut     *)
(* clip keeps all that is not idle, and a published one is stored          *)
(* (throughput-replay.ts, product-video.ts, clip-timeline.mjs,             *)
(* upload-clips.mjs).                                                      *)
(***************************************************************************)
MediaIsHonest ==
  /\ part = "replay" =>
       Media!OnlyWatchedTimeCounts /\ Media!ReplayFollowsThePage /\ Media!FramesAreMeasured
  /\ part = "video" => Media!ClipSeenIsTheThemes
  /\ part = "clip" => Media!ClipKeepsTheStory /\ Media!FreezesInOrder
  /\ part = "upload" => Media!PublishedIsStored

(***************************************************************************)
(* What a person has entered stands through the steps that others take:    *)
(* typed text against a late render, the filter rows against an edit of    *)
(* another row, the session against late answers (fanql-editor.tsx,        *)
(* builder.tsx, auth.tsx); but for a text of the page's own put in between *)
(* two edits, and the one draft of the filter rows.                        *)
(***************************************************************************)
EntriesStand ==
  /\ [][part = "text" => Text!NeverRewinds]_vars
  /\ [][part = "builder" => Builder!RowsKeepOrder]_vars
  /\ [][part = "gate" => Gate!OnlyExpiry]_vars
=============================================================================
