----------------------------- MODULE ExplorePage -----------------------------
(***************************************************************************)
(* The Explore page: ExplorePage (src/ui/host/src/explore/page.tsx).  One  *)
(* FanQL query has two views, its text and the Builder's structure, which  *)
(* the server translates both ways; SQL is a third, separate editor.  The  *)
(* URL keeps the entry that was run.  `page' is the component's state and  *)
(* refs with the URL; `calls' the requests it still listens to: aborting a *)
(* request takes it out of the set.                                        *)
(* A query and the text it prints as are one value: the source text, its   *)
(* parse and its print are told apart only by where they are held.  The    *)
(* chart kind, which travels with the query, and the problems and messages *)
(* of a request that failed are left out.  Two fields of `page' are read   *)
(* by the property alone: drafted, an editor may hold more than the entry, *)
(* and adrift, the address moved and no run was begun for it.              *)
(***************************************************************************)
EXTENDS Naturals, FiniteSets

CONSTANTS Queries,     \* FanQL queries
          Long,        \* those whose print the text editor cannot hold
          Statements,  \* SQL statements
          NoText,
          Windows,     \* time windows
          MaxCalls     \* bound: requests listened to at a time

VARIABLES page, calls

exploreVars == <<page, calls>>

NoRun == [source |-> NoText, window |-> NoText]

kindOf(tab) == IF tab = "sql" THEN "sql" ELSE "query"

kindOfSource(s) == IF s \in Statements THEN "sql" ELSE "query"

\* What is in the editor of the tab shown.
Editor(p) == IF p.tab = "sql" THEN p.sql ELSE p.text

readOnlyText(p) == p.formatted \in Long

\* The entry of the address that a source belongs to.
Entry(s) == IF kindOfSource(s) = "sql" THEN page.url.sql ELSE page.url.q

ExploreCall(op, of, window, mode) ==
  [op |-> op, of |-> of, window |-> window, mode |-> mode]

RunOps == {"parse", "query"}

(***************************************************************************)
(* execute(): an empty source runs nothing, and leaves a run under way     *)
(* alone; any other takes its place.  A `direct' run sends the Builder's   *)
(* query without parsing, and records the entry at once; SQL is never      *)
(* parsed.  The window is that of the render that called execute().        *)
(***************************************************************************)
record(p, source) ==
  IF kindOfSource(source) = "sql" THEN [p EXCEPT !.url.sql = source] ELSE [p EXCEPT !.url.q = source]

Begun(p, window) ==
  [p EXCEPT !.running = TRUE, !.refused = FALSE, !.adrift = window # p.url.window]

ExecutePage(p, source, direct, window) ==
  IF source = NoText THEN p
  ELSE IF direct THEN record([Begun(p, window) EXCEPT !.parsed = NoText], source)
  ELSE IF source \in Statements THEN record(Begun(p, window), source)
  ELSE Begun(p, window)

ExecuteCalls(cs, source, direct, window) ==
  IF source = NoText THEN cs
  ELSE {c \in cs : c.op \notin RunOps}
         \cup {ExploreCall(IF direct \/ source \in Statements THEN "query" ELSE "parse",
                           source, window, "run")}

execute(p, cs, source, direct, window) ==
  /\ page' = ExecutePage(p, source, direct, window)
  /\ calls' = ExecuteCalls(cs, source, direct, window)

(***************************************************************************)
(* Printing the Builder's query.  One print is listened to at a time; the  *)
(* edit's timer is part of it.  "adopt" makes the print the text, "show"   *)
(* leaves the text as the person wrote it, "run" adopts and then runs.     *)
(***************************************************************************)
WithoutFormat(cs) == {c \in cs : c.op # "format"}

format(cs, query, mode, window) ==
  WithoutFormat(cs) \cup {ExploreCall("format", query, window, mode)}

cancelFormat(p) == [p EXCEPT !.timer = NoText]

ReceiveFormat(c) ==
  /\ c.op = "format"
  /\ LET shown == [page EXCEPT !.formatted = c.of, !.formatFailed = FALSE]
         adopted == IF c.mode = "show" THEN shown ELSE [shown EXCEPT !.text = c.of]
         rest == calls \ {c}
     IN IF c.mode = "run" /\ page.tab = "builder"
        THEN execute(adopted, rest, c.of, c.of \in Long, c.window)
        ELSE page' = adopted /\ calls' = rest

FormatFails(c) ==
  /\ c.op = "format"
  /\ page' = [page EXCEPT !.formatFailed = TRUE]
  /\ calls' = calls \ {c}

\* A Builder edit is printed a quarter of a second after the last one.
edit(q) ==
  /\ page.tab = "builder" /\ page.built # NoText /\ page.built # q
  /\ page' = [page EXCEPT !.built = q, !.timer = q, !.drafted = TRUE]
  /\ UNCHANGED calls

EditPrinted ==
  /\ page.timer # NoText
  /\ page' = cancelFormat(page)
  /\ calls' = format(calls, page.timer, "adopt", NoText)

runBuilder(p, cs) ==
  /\ page' = [cancelFormat(p) EXCEPT !.drafted = TRUE]
  /\ calls' = format(cs, p.built, "run", p.url.window)

(***************************************************************************)
(* The tabs.  Opening the Builder on text it has not parsed waits for the  *)
(* parse before it shows the tab; nothing cancels that request.            *)
(***************************************************************************)
starter == CHOOSE q \in Queries \ Long : TRUE

OpenBuilder(p, query) == [cancelFormat(p) EXCEPT !.built = query, !.tab = "builder"]

openBuilder ==
  /\ page.tab # "builder"
  /\ \/ /\ readOnlyText(page) /\ page.built # NoText
        /\ page' = [page EXCEPT !.tab = "builder"]
        /\ UNCHANGED calls
     \/ /\ ~(readOnlyText(page) /\ page.built # NoText)
        /\ page.text = NoText \/ page.parsed = page.text
        /\ LET query == IF page.text = NoText THEN starter ELSE page.parsed IN
             /\ page' = OpenBuilder(page, query)
             /\ calls' = format(calls, query, "show", NoText)
     \/ /\ ~(readOnlyText(page) /\ page.built # NoText)
        /\ page.text # NoText /\ page.parsed # page.text
        /\ calls' = calls \cup {ExploreCall("open", page.text, NoText, "show")}
        /\ UNCHANGED page

ReceiveOpen(c) ==
  /\ c.op = "open"
  /\ page' = [OpenBuilder(page, c.of) EXCEPT !.parsed = c.of]
  /\ calls' = format(calls \ {c}, c.of, "show", NoText)

OpenFails(c) ==
  /\ c.op = "open"
  /\ calls' = calls \ {c}
  /\ UNCHANGED page

\* Leaving the Builder prints any pending edit before the text is shown.
openTab(tab) ==
  /\ tab # "builder" /\ page.tab # tab
  /\ LET pending == page.tab = "builder" /\ page.built # NoText /\ page.timer # NoText IN
       /\ page' = [(IF pending THEN cancelFormat(page) ELSE page) EXCEPT !.tab = tab]
       /\ calls' = IF pending THEN format(calls, page.built, "adopt", NoText) ELSE calls

(***************************************************************************)
(* The editors                                                             *)
(***************************************************************************)
TypeQuery(q) ==
  /\ page.tab = "query" /\ ~readOnlyText(page) /\ page.text # q
  /\ page' = [cancelFormat(page) EXCEPT !.text = q, !.formatted = NoText, !.drafted = TRUE]
  /\ calls' = WithoutFormat(calls)

TypeSql(s) ==
  /\ page.tab = "sql" /\ page.sql # s
  /\ page' = [page EXCEPT !.sql = s, !.drafted = TRUE]
  /\ UNCHANGED calls

\* What the text cannot carry is run as the Builder holds it.
Direct(p) == readOnlyText(p) /\ p.built # NoText

pressRun ==
  IF page.tab = "builder"
  THEN /\ page.built # NoText /\ ~page.formatFailed
       /\ runBuilder(page, calls)
  ELSE /\ Editor(page) # NoText
       /\ execute(page, calls, Editor(page), page.tab = "query" /\ Direct(page), page.url.window)

(***************************************************************************)
(* Navigation.  A window from the range menu reruns what is in the editor; *)
(* Back and Forward show and run the entry, never the draft.  A navigation *)
(* and the effect it causes are one step.                                  *)
(***************************************************************************)
rerun(p, cs) ==
  IF p.tab = "builder" /\ p.built # NoText
  THEN runBuilder(p, cs)
  ELSE execute(p, cs, Editor(p), p.tab # "sql" /\ Direct(p), p.url.window)

pickWindow(w) ==
  /\ w # page.url.window
  /\ rerun([page EXCEPT !.url.window = w, !.adrift = TRUE], calls)

\* Another query, another statement or another window: each is an entry of its own.
Entries ==
  {[page.url EXCEPT !.q = q] : q \in Queries \cup {NoText}}
    \cup {[page.url EXCEPT !.sql = s] : s \in Statements \cup {NoText}}
    \cup {[page.url EXCEPT !.window = w] : w \in Windows}

Restored(entry, tab) ==
  [cancelFormat(page) EXCEPT !.tab = tab, !.url = entry, !.formatted = NoText,
     !.text = entry.q, !.sql = entry.sql, !.adrift = TRUE,
     !.drafted = page.running /\ NoText = IF tab = "sql" THEN entry.sql ELSE entry.q]

\* Mutant of BackForward: a print under way is not cancelled.
BackForwardPrinting(entry, tab) ==
  /\ tab = "builder" => page.built # NoText
  /\ entry # page.url
  /\ execute(Restored(entry, tab), calls, Editor(Restored(entry, tab)), FALSE, entry.window)

BackForward(entry, tab) ==
  /\ tab = "builder" => page.built # NoText
  /\ entry # page.url
  /\ execute(Restored(entry, tab), WithoutFormat(calls), Editor(Restored(entry, tab)), FALSE, entry.window)

(***************************************************************************)
(* A run's answers.                                                        *)
(***************************************************************************)
ReceiveParse(c) ==
  /\ c.op = "parse"
  /\ page' = record([page EXCEPT !.parsed = c.of,
                                 !.built = IF page.tab = "builder" THEN c.of ELSE @], c.of)
  /\ calls' = (calls \ {c}) \cup {[c EXCEPT !.op = "query"]}

Sent(c) == [source |-> c.of, window |-> c.window]

ReceiveResult(c) ==
  /\ c.op = "query"
  /\ page' = [page EXCEPT !.running = FALSE, !.run = Sent(c)]
  /\ calls' = calls \ {c}

\* Refused or failed: the last result stays, marked.
RunFails(c) ==
  /\ c.op \in RunOps
  /\ page' = [page EXCEPT !.running = FALSE, !.refused = TRUE]
  /\ calls' = calls \ {c}

EmptyEntry(w) == [q |-> NoText, sql |-> NoText, window |-> w]

ExploreInit ==
  \E q \in Queries \cup {NoText}, w \in Windows :
    /\ page = [tab |-> "query", url |-> [EmptyEntry(w) EXCEPT !.q = q],
               text |-> q, sql |-> NoText, parsed |-> NoText, built |-> NoText,
               formatted |-> NoText, formatFailed |-> FALSE, timer |-> NoText,
               running |-> q # NoText, run |-> NoRun, refused |-> FALSE,
               drafted |-> FALSE, adrift |-> FALSE]
    /\ calls = IF q = NoText THEN {} ELSE {ExploreCall("parse", q, w, "run")}

ExplorePerson ==
  /\ Cardinality(calls) < MaxCalls
  /\ \/ openBuilder \/ pressRun
     \/ \E q \in Queries : edit(q)
     \/ \E tab \in {"query", "sql"} : openTab(tab)
     \/ \E q \in (Queries \ Long) \cup {NoText} : TypeQuery(q)
     \/ \E s \in Statements \cup {NoText} : TypeSql(s)
     \/ \E w \in Windows : pickWindow(w)
     \/ \E entry \in Entries, tab \in {"query", "builder", "sql"} : BackForward(entry, tab)

ExploreAnswers ==
  \/ EditPrinted
  \/ \E c \in calls : ReceiveFormat(c) \/ FormatFails(c) \/ ReceiveOpen(c)
                        \/ OpenFails(c) \/ ReceiveParse(c) \/ ReceiveResult(c) \/ RunFails(c)

ExploreNext == ExplorePerson \/ ExploreAnswers

\* The page is busy exactly while the one run it listens to is under way: a run
\* superseded by another, an edit or a navigation is not waited for.
Under == {c \in calls : c.op \in RunOps}

ExploreRunning == Cardinality(Under) <= 1 /\ (page.running <=> Under # {})

(***************************************************************************)
(* The address, the result below it and the run under way are of one query *)
(* and one window, but for a run that failed and is marked so; and from    *)
(* Back, Forward or the opening of the page until the person drafts, so is *)
(* the text in the editors, whatever prints and parses come in late        *)
(* (page.tsx:273).  Outside it is an address that moved with nothing to    *)
(* run, for which execute() leaves an older run to end and to record       *)
(* itself.                                                                 *)
(***************************************************************************)
OneQuery ==
  /\ ~page.adrift =>
       /\ \A c \in Under : c.window = page.url.window /\ (c.op = "query" => c.of = Entry(c.of))
       /\ ~page.running /\ ~page.refused /\ page.run # NoRun =>
            page.run = [source |-> Entry(page.run.source), window |-> page.url.window]
  /\ ~page.drafted =>
       /\ page.text = page.url.q /\ page.sql = page.url.sql
       /\ \A c \in Under : c.of = Entry(c.of)
=============================================================================
