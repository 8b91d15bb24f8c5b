# Fanout in TLA+

Fanout is a single-process observability store: it receives OTLP exports, commits them as directories of
Parquet files, keeps summaries of them in a DuckDB cache, and answers dashboards, queries and alerts; a web
app shows them and an assistant builds dashboards. This directory holds TLA+ models of the parts that decide
whether telemetry is lost, counted twice, read while it is being deleted, left out of a summary or not
answered at all, and whether the web app shows what the server knows; the TLC instances that check them; and
TLAPS proofs of what matters most. Go paths below are relative to `src/internal/`, the others to `src/`.

To check a run: `tlc -config <cfg> <module>`, with the module and configuration `PROJECT.json` names for it;
to prove: `tlapm <Module>Proofs.tla`.

## The system

```
 OTLP export ─▶ ingest ─▶ Writer.Submit ─▶ runner ─▶ commit workers ─▶ Repository.Commit
                              (queue, byte ledger)        (retries)          │ stamp, rename, fsync
                                                                             ▼
 maintenance loop ── recover · collect · prune · compact ──▶ batch directories + in-memory catalog
                                                                             │ pin, snapshot
 rollup workers ── bounds, window, summaries + progress ◀────────────────────┤
                                                                             ▼
 dashboards ─▶ result cache ─▶ read admission ─▶ DuckDB reads (catalog snapshot or summaries)
 alert engine, anomaly detector ─▶ read the summaries;   SQLite ─▶ accounts, dashboards, rules, threads

 browser: gate ─▶ shell ─▶ Explore · dashboards · alerts · settings · assistant ─▶ HTTP API, MCP views
 beside it: scripts that evaluate the assistant, the landing page and the scripts that cut its clips
```

| Component | State | Operations | Hard behaviour | Model |
|---|---|---|---|---|
| Ingest writer, `telemetry/store/writer.go` | submission queue, byte ledger, groups, jobs, one CAS word per submission | Submit, gather, dispatch, claim, commit with retries, shutdown | abandon/claim/fail races, retries of commits that may have published, shutdown with blocked callers | `IngestWriter` |
| Parquet catalog, `telemetry/parquet.go`, `retire.go`, `store/compaction.go`, `store/repository.go` | directories, replaces lists, marker, catalog, epochs, retirements | commit, merge and replace, recover, prune, collect, pin and capture, open | crashes between any two file operations, failed fsyncs, retries meeting compaction, deletion under readers | `ParquetCatalog`, `TelemetryTable` |
| Read admission, `query/admission.go`, `exec.go` | slots, two queues, lifetime tickets | acquire, release, wake, admit, close, flights | grant against end of context, refreshes joining each other's flights, starvation between classes | `ReadAdmission` |
| Result cache, `query/result_cache.go` | entries, LRU, one flight per key | lookup, join, detach, cancel, publish, evict, close | departures, no-cache callers, stale-while-revalidate, late runs | `ResultCache` |
| Rollups and horizon, `engine/duck.go`, `store/repository.go` | stamps, attempts, watermarks, resume point, summaries | reserve, finish, service and edge passes, rewind, recreate | attempts ending out of order, windows cut into passes, restarts with the clock moved back | `DashboardRollups` |
| Sign-in, `ui/host/src/auth.tsx`, `auth-session.ts` | mode of the gate, codes, session, requests under way | set-up, codes, sign-in, expiry, sign-out | answers lost or late, a session that ends under a form | `SignIn` |
| Assistant pane, `ui/host/src/app.tsx`, `rail.tsx`, `chat-scroll.ts` | thread of the route, draft, loads, runs, scroll anchor | open, run, abort, rename, delete, scroll | loads and runs of a thread that was left, scroll events the page caused itself | `ChatSession`, `ChatScroll` |
| Views in a chat, `ui/host/src/mcp-app-frame.tsx`, `dashboards/fragment-view.tsx` | one shared connection, its holders, reconnects; results and the whole screen | acquire, release, lose, reconnect; brush, filter, open | a connection that dies while others take it, answers out of order | `McpFrames`, `FragmentView`, `BrushZoom` |
| Receipt of a build, `ui/host/src/dashboard-receipt.ts` | calls and results of a turn | call, result | a change made and undone in one turn, unreadable results | `BuildReceipt` |
| Explore and search pages, `ui/host/src/explore/`, `fanql-editor/` | query in three views, address, run under way, draft rows, marks and fix-its | type, run, translate, Back, save | answers of abandoned runs, edits while a fix-it is offered, saves from two windows | `ExplorePage`, `SearchPage`, `QueryBuilder`, `FanqlEditor`, `SaveDialog` |
| Dashboard page, `ui/host/src/dashboards/` | record and versions, editor, history, address, variables, batches of results | edit, save, restore, zoom, refresh, retry | reads older than a save, a second editor, batches that fail in part | `DashboardEdits`, `DashboardView`, `DashboardVariables`, `PanelResults` |
| Panels, `ui/panels/`, `ui/host/src/dashboards/viz/`, `trace/` | frames, axes, marks, map view, chart reader, drill, trace | arrive, resize, move, point, open | pure drawing over any frame, refresh under the reader | `PanelCard`, `PanelDrill`, `PanelFrames`, `ChartDrawing`, `ChartKeyboard`, `ServiceMap`, `TraceView` |
| Settings and alert rules, `ui/host/src/settings.tsx`, `alerts/page.tsx` | cached reads, mutations, forms | rotate, disconnect; edit, toggle, test, delete | a poll older than the write it lands after | `SettingsPage`, `AlertsPage` |
| Evaluation of the assistant, `scripts/dashboard-eval/` | ledger file and lock, runs, judged edits | meter, reserve, settle; stream, credit; compare | processes that end anywhere, streams that break, spends in doubt | `CostLedger`, `EvalRuns` |
| Landing page, `site/src/components/landing/`, `site/scripts/` | replay clock, clip, segments, stored files | play, hide, theme; cut; upload | time that passes unwatched, uploads that fail between two files | `LandingMedia` |
| Ingest admission, `store/admission.go` | token bucket, rates, receipt | admit, tick, consume | refusal windows meeting retries | not modelled |
| Compaction selection, `compaction_debt.go` | inventory by window, debt | select, count, cap | debt that refuses ingest must be reclaimable | not modelled |
| Batch read cache, `engine/batch_cache.go` | per-batch contributions | refresh, transfer, retract | contributions changing owner while the catalog swaps | not modelled |
| Alert engine, detector, `alert/`, `intelligence/` | rules, alert rows, findings | tick, notify, hand over | rule edits against a tick, notifications out of order | not modelled |
| Accounts, dashboards, assistant, settings (server) | SQLite rows | versioned updates | one transaction each | not modelled |
| FanQL, query compiler, OTLP conversion, Parquet encoding, API, MCP | none shared | pure translation | no state to interleave | not modelled |

`PROJECT.json` lists the components with their files, and under `hazards` each place where this code can go
wrong in a way a test hardly reaches, with the property that watches it or the reason none does.

How the modelled parts meet: `IngestWriter` treats `Repository.Commit` as an environment that may fail
before it writes, after it renamed, or not at all; `ParquetCatalog` models what happens inside and takes
the writer's retries as its environment; `DashboardRollups` looks at the same commits once more, for the
stamps only. `ReadAdmission` leaves open what the result cache holds; `ResultCache` leaves open how long
a run waits for admission. A module of the web app holds the server's side of its requests as a free choice
of what is answered, when, and whether at all; `DashboardView` and `FragmentView` both use `BrushZoom`, as
the pages use the hook. Each interface is a free choice on both sides, so that no module depends on an
assumption the other does not allow.

## The modules

### IngestWriter

One submission per export with its caller, a runner and commit workers. `state` is the CAS word:
`Abandon`, `Fail` and `Claim` each move it out of `"queued"`, and whoever loses does nothing. `ledger` is
`inFlightBytes`; `Charged` says which submissions it should be the bytes of. `Receive`, `Gather`,
`GatherEnds`, `Drain`, `Dispatch` are the two loops of `enqueueSubmissions`; `Finish`, `Stop`, `FinalDrain`
and `GraceExpires` the shutdown of `Run`. A commit attempt may publish its directory and fail afterwards; the
retry adopts it by ID. `published` holds what directories contain; whether their entries are durable is
`ParquetCatalog`'s question, since a retry that finds its batch published answers without an fsync.

### ParquetCatalog and TelemetryTable

The file system (directories, unsynced entries, pruned marks, replaces lists, the merge's stage, the
marker), the store's memory (catalog, retirements and their epochs, publish gate) and three kinds of
process: commits, one maintenance thread, readers that pin, capture and then open files with no lock.
`acked` is what was acknowledged and `fsynced` the part of it whose own attempt synced the collection.
`Crash` keeps what an fsync made durable and any subset of the rest. `TelemetryTable` is what all of it
promises: a table whose rows appear once, are acknowledged only when readable, and after a restart hold
every acknowledged row that retention had not chosen and none it had removed. The refinement counts, for
every commit, the live batches that hold its rows.

Free choices that cover the code's policy: the group a merge takes, the batches a retention cutoff covers,
the order in which retired directories are deleted. `removeRetiredBatch` renames before it erases, so
leaving the namespace and being erased is one step. `PruneMark` assumes that no commit of rows already
older than the retention period is under way.

### ReadAdmission

Two classes share the slots. A dashboard refresh is a batch with a lifetime ticket; each panel is answered
from the cache, joins another refresh's flight, or starts its own, which passes the batch's local limit
and then the global queue. `Asks` says which keys a refresh asks for. Panel demand does not change while
`wake` grants, so its loop is translated as the prefix of each queue it serves (`InteractiveGrants`,
`PanelGrants`). Every request the program makes has weight one, and the branch of `acquire` for a foreign
context has no caller; both are left out.

### ResultCache

Callers, runs and entries; `c.mu` sections are steps, everything else can happen between them. `keep` is
decided before the lock is taken to publish, so a finished run whose last caller leaves in between is
still stored. A caller may join a run that is already cancelled and is then answered with its
cancellation, as `TestResultCacheKeepsCancelledFlightUntilItExits` expects. Sizes are abstracted to a free
choice of how many old entries a store evicts. `got` is a history variable: the window of the result a
caller was answered with.

### DashboardRollups

`Begin`, `Rename`, `Succeed` and `FailAttempt` are one commit attempt; `IsHorizon` is the stamp below the
oldest attempt under way. A pass is two steps: it reads the bounds, then captures the catalog and commits.
Commits and failures fall between them; after the capture nothing else can change what the pass reads or
writes, since the write gate is exclusive. `CommitEdge` either completes its window or stores the window's
end, the minutes left and the place to resume. `Rewind` and `Recreate` are the two forms of a restart.

Left out: peer and messaging edges (the same transactions, other joins), retention, which only removes
rows, compaction, which keeps row stamps, and the opt-in skip to the latest stamp, which abandons a backlog
on purpose and would falsify `ServiceComplete` by design. The watermark held in memory is the stored one.
After a crash a batch that was not answered but left a directory counts as dropped: its exporter sends the
rows again under a new ID. A batch of which every attempt failed after the rename, with nothing published
since start-up, is summarised only after the next publication or restart; `RollupsCatchUp` is therefore
about acknowledged batches.

### The web app

Twenty-eight modules, one per component of the browser's side, in one style: a React component's state and refs
are the fields of one record variable (`page`, `gate`, `editor`, ...), requests under way a set or a record
of their own, and an action is a handler together with the effects that run with the render it causes.
Sending a request, its effect on the server and its answer are separate steps; an answer may come late, in
another order, or never. Aborting a request takes it out of what is listened to. Queries of the cache library
(TanStack Query), the agent and MCP clients, the chart and layout libraries are modelled from how the
components use them and marked external in the map. Where the code is a pure function (`PanelFrames`,
`ChartDrawing`, the judging in `EvalRuns`, `LandingMedia`'s clip), the steps are the inputs that arrive and
the properties compare the function with a reference definition over all small inputs. Pixels, wording,
colours and layout are left out unless a property is about them.

| Module | State and actions |
|---|---|
| `SignIn` | `gate` the gate's state, `wire` its requests, `server` the accounts, codes and sessions; a request is served and answered apart |
| `ChatSession` | `chat` the thread shown, `loads`, `runs`, `known` the thread list, `rail` the dialogs; a run of a thread that was left is aborted and unheard |
| `McpFrames` | `frame` per view, `conn` the connections, `shared` the one held with its count, `promise`, `html`; timers close and reconnect |
| `ChatScroll` | `scroll`: anchor, offset, pending scroll event; a frame is scroll events, layout, then observers |
| `FragmentView` | `fragment` and `screen`: queries asked and answered, the zoom's memory, the panel on the whole screen |
| `BuildReceipt` | `board`, `turnCalls`: the receipt is recomputed from the calls after each |
| `ExplorePage`, `SearchPage` | `page` or `search` with the address, `calls` or `searching` the runs listened to; Back and Forward restore an entry |
| `QueryBuilder` | `builder`: rows, the draft with its place, chips |
| `FanqlEditor` | `ed`: document, echoes of the page not yet rendered, spans mapped through edits, completions |
| `SaveDialog` | `boards` with versions, `dialogs`: read, name the panel apart, save over the version read |
| `DashboardEdits` | `versions` on the server, `page` the cached record, `editor`, `drawer`, `calls` |
| `DashboardView` | `page`: history, address asked for and rendered, ranges being selected |
| `DashboardVariables` | `vars`: choices of the address, options read for them, placeholders while reading |
| `PanelResults` | `panels`: one batch under way, queued panels, retries, frames kept |
| `PanelCard`, `PanelDrill` | `card` result, age, folded columns, open rows; `drawer` the selection and the list behind it |
| `PanelFrames`, `ChartDrawing` | rows, drawings and annotations that arrive; the drawing is a function of them |
| `ChartKeyboard`, `ServiceMap` | `reader` the point by series and bucket; `map` the layout and the reader's view of it |
| `TraceView` | `trace`: any forest, cycle or orphan of spans as waterfall and flame graph |
| `SettingsPage`, `AlertsPage` | `server`, the cached read, `page` the forms, `calls` under way |
| `CostLedger` | `disk`, `lock`, `proc` each process, `server` what was billed |
| `EvalRuns` | the run and the client's events; an edit and the dashboard that came of it |
| `LandingMedia` | four parts: the replay's clock, the video, a cut clip, the uploads |

Three modules compose these for the runs and the proofs: `WebAssistant` (the pane, its views, the tools that
evaluate it, and the frames, axes, marks and traces a panel draws), `WebPages` (sign-in, settings, alert rules,
Explore, search, the builder, the editor, and the landing page's media) and `WebDashboards` (a dashboard's page,
the service map, the keyboard, a panel's card and drill, and the save dialog). The parts of a composition share
no state, so `part` says whose behaviour it is and `v1`..`v5` are that part's variables; a property is the
conjunction of what the parts promise. What the proofs speak of for every value (threads, connections, accounts,
texts, panels, variables, ...) are constants of the composition; the parts that are only checked are
instantiated with small sets there. One pair of values of each composition is symmetric in all its parts.

In the map of `PROJECT.json` a helper that stands for a part of a function is covered by that function's entry.

## The runs

| Run | Bounds | What it shows |
|---|---|---|
| `writer_safety` | 3 exports (one above the budget and the group ceiling), 2 workers, queue and job channel of 1, 2 attempts | ledger exact, at most one oversized export over budget, acknowledged means in a published directory, dropped means never written, nothing written twice |
| `writer_live` | 2 exports, 1 worker, unbounded ledger | every Submit returns; a cancelled writer stops |
| `catalog_crash` | 3 raw batches, 2 outputs (two generations), 1 reader, 1 crash, 1 attempt per commit | rows counted once, pinned files exist, rows whose own commit synced them durable, pruned rows hidden, refinement of `TelemetryTable` |
| `catalog_retry` | 2 raw batches, 1 output, 1 reader, 2 attempts, no crash | no orphaned directory through retries; retired directories are deleted |
| `catalog_unsynced` | 2 raw batches, 1 output, 2 attempts, failed commit syncs | a finding, see below |
| `catalog_recompacted` | 3 raw batches, 2 outputs, 2 attempts | a finding, see below |
| `admission` | a refresh of two panels and one of a panel they share, which keep coming, 2 readers, 2 slots, panel queue 1 | capacity kept, no lost wakeup, interactive first, both classes leave their queue, every ticket returns |
| `cache` | 2 lookups and 1 whole refresh of 1 query, 3 runs, clock 0..1, lifetimes 0..2 | one run per key, abandoned runs cancelled, no-cache answers fresh, stored results never regress, everyone who stays is answered |
| `rollups` | a call and its parent two minutes apart, 3 stamps, chunk 2, gap 1, sub-window 1, 1 crash | no visible row at or below a watermark is missing from the summaries; acknowledged rows are reached |
| `web_assistant` | 3 threads and 2 runs; 2 views on 3 connections; 2 fragments; 2 calls per turn, 3 where a panel is added, removed and added again; 2 evaluating processes that can outspend a cap of 3; 2 tools and dashboards; 3 spans, 3 axis values, 2 anomalies and a deploy | the pane, its views and its receipt are those of the thread shown; only the reader moves the conversation; the receipt and the ledger record what happened; the evaluation is fair; drawings hold their frame |
| `web_pages` | 2 accounts, 2 tokens, 1 rule with 2 writes, 2 queries and windows, 3 filters, texts of 4 or 5 code points, a clip of 3 ticks with up to 2 frozen intervals | pages agree with the server and with the address; entries stand; fix-its mark what they did; the media are honest |
| `web_dashboards` | 3 versions, 2 calls, 2 panels, 3 history entries, 4 graphs, 4 charts, 3 rows, 2 dialogs over 2 dashboards | the dashboard is current; what is pointed at is there; panels say how current they are and open what was pointed at; nothing moves unasked |

Why the bounds are enough. The writer needs two submissions in a group and one outside it to tell a leak
of one's bytes from another's, and a second worker for claims to collide. The catalog needs a merge of a
merge, hence three batches and two outputs; one reader suffices because readers do not interact except
through the smallest pinned epoch, and one crash because the state found by a start-up is already any the
first crash could leave. Admission needs refreshes that wait on each other's flights and one more request
than slots. Three runs per key is one more than can be registered at once. A rollup needs two attempts to end
out of order and a third stamp past both; the window cut in two needs two minutes. The rollup model was also
run with three spans and three stamps and with two spans and four stamps, without a violation. In the web app
the races are between one write and one read older than it, so two requests of each kind and two values to
tell them apart show every order; a third would repeat one. The pure functions are run over every input of
their size.

The catalog's faults are split over two passing runs on purpose. With retries and crashes and collection
failures together, the findings and disagreements below would mask everything else, so `catalog_crash` takes
one attempt per commit and no failed root or collection fsync, and `catalog_retry` takes retries over a single
merge with no crash; each configuration lists its `Faults`. That the rows a commit synced itself stay durable
next to commits that are retried as well is `FsyncedIsKept`, for any number of attempts.

`CHECK_DEADLOCK FALSE` stands in the writer's configurations, where a stopped writer has nothing left to do,
and in those of the web app, where a bounded number of requests, presses or calls runs out.

### Findings

`catalog_unsynced` has a counterexample for `site/src/content/docs/docs/concepts/storage.mdx:48-49`
("acknowledgement occurs only after publication and parent-directory fsync complete") and
`telemetry/store/writer.go:172`. A commit whose rename succeeded and whose fsync failed is in the catalog; its
retry returns success from `alreadyPublished` with no fsync (`telemetry/parquet.go:271-273`, `384`), and the
acknowledged batch is not durable. What the code does keep is checked and proved apart: an acknowledged export
is in a published directory (`AcknowledgedIsStored`), and one whose own attempt synced stays durable
(`FsyncedStaysDurable`).

`catalog_recompacted` has a counterexample for `telemetry/parquet.go:268-270`, which says a retried commit of
a compacted batch is published. Once the first output has itself been merged and deleted, nothing names the
batch any more, and the retry writes its rows a second time.

### Known disagreements

Met while modelling, confirmed by TLC on variants of the instances above, and not kept as runs. In the catalog:

* `telemetry/retire.go:129-132` says removals are durable before an output is removed. The unsynced flag is
  local to a pass: one whose last fsync failed has dropped its retirements, the next deletes the output
  without a sync, and a power loss may keep the input alone, so rows retention removed are served again.
* The marker's removal is not durable when its root fsync fails (`telemetry/store/compaction.go:639-655`).
  After a crash the marker returns, names an output retention has deleted since, and the replacement is
  completed or rolled back a second time.
* Where a rename may survive on neither side, a rollback (`telemetry/parquet.go:418-500`) may put back inputs
  that are marked by a refused retention swap, or that a deletion whose fsync failed has listed again.

The hypotheses of `ParquetCatalogProofs` name these failures. `Tolerated` (the files a query holds, and that no
directory is orphaned) is any failure at all while no power is lost; with power losses it leaves out a failed
root sync and, where a rename can vanish, a refused retention swap and a failed collection sync. `Ordered`
(that synced rows stay durable, with `Tolerated`) leaves out a failed root or collection sync, and `Reliable`
(everything else about rows) besides those a retried commit where the sync of a commit can fail, and a refused
retention swap where a rename can vanish. On instances with two crashes, two commits and one output TLC refutes
`PrunedStaysHidden` after a failed root sync and after a failed collection sync, and `catalog_recompacted` shows
rows counted twice with `commitSync` and two attempts, so these exclusions are needed; for
`{"vanish", "pruneRefused"}` it found no counterexample there, and the exclusion is the proof's.

In the web app, where a comment or a test beside the code says more than the code does in some order of
events, the run's property states the part that holds, and names its exception in the model's own terms:

* `ui/host/src/app.tsx:130-132` wants a draft whose run did not finish to be asked of the server. A run that
  was left is no longer heard, so its thread stays a draft and opens empty.
* `ui/host/src/settings.tsx:170-174` cancels a read in flight before a rotation, so that the page does not
  offer to issue the token just issued. A read that the window's focus starts during the rotation is not
  cancelled and lands after it with the settings of before. `SettingsAreTrue` holds the cached settings to the
  server's but for such a read (`late`), until the next read is answered.
* `ui/host/src/explore/page.tsx:273` keeps one query in address, results and editors. After Back to an entry with
  nothing to run, the older run goes on and shows itself under the address it is not of; `OneQuery` excepts
  that (`adrift`), until the next run.
* `ui/host/src/explore/page.tsx:30-32` calls text and Builder two views of one query. An edit of the Builder
  while a run of the text is being parsed is replaced by the answer, but the timer that prints it still runs;
  and an "open" answered late opens the Builder on an older text. `OneQuery` speaks of the text in the editors
  until the person drafts, and not of the Builder's rows.
* `explore/builder.tsx:87` keeps a row without a usable value; a second such row replaces it, and `EntriesStand`
  speaks of one.
* `ui/host/src/fanql-editor/fanql-editor.tsx:163-169` skips what the page echoes back. A text the page sets of
  its own while reports of typing are under way rewinds what was typed since; `EntriesStand` excepts a
  re-render behind such a text.
* `ui/host/src/dashboards/panel-editor.tsx:98-99`: "Load latest" is not cancelled by a save or a restore, and
  a late save of the grid is not ordered either; both may put the page below the last version answered.
  `ReadsKeepAnswer` covers every other read, and these two only as `behind`, until the page shows another
  version. A late panel save closes whichever editor is open by then.
* `ui/host/src/dashboards/use-panel-results.ts:41-42` says a refresh pressed during a partial batch runs once
  that batch settles. When what settles next is a retry with nothing left to send, it does not, and the
  refresh waits for the next batch; `VisibleAsked` excepts that (`held`) alone.
* A dashboard or panel save whose answer was lost and that is pressed again adds it twice
  (`explore/save-dialog.tsx`): `SavesTell` counts what each press did.

### Fairness

* Writer: goroutines run, commits return, and the grace timer fires; callers need not give up.
* Catalog: the maintenance loop's timers always fire again, queries have deadlines, an fsync returns, and a
  publication that is possible again and again succeeds in the end (strong fairness on it alone).
* Admission: a started read ends within its timeout, and each refresh's goroutines run. One condition for
  all goroutines of a refresh asks less than the scheduler gives. Panels progress only with two slots or
  more: on a one-slot pool a steady stream of interactive reads starves them, and the code lets it.
* Result cache: a caller's and a run's own steps are taken; every run has a timeout.
* Rollups: attempts end. Passes may fail, so starting and committing have strong fairness: a pass that
  could commit again and again does so in the end, as memory pressure narrows what it takes on.
* Web app: safety only. A browser owes nobody a step: a tab may sleep and a request hang, and what must
  happen eventually there hangs on the reader.

## The proofs

The proof modules assume only the named assumptions on constants (`WriterAssumption`, `CatalogAssumption`,
`AdmissionAssumption`, `CacheAssumption`, `RollupAssumption`, and those of the web compositions below), which
TLC evaluates on its instances; the catalog's theorems have a hypothesis more, `Tolerated`, `Ordered` or
`Reliable`, which say what may fail (see Known disagreements); all three hold of the instance of
`catalog_crash`.

* `IngestWriterProofs`: `TypeCorrect`, `AcknowledgedStored`, `NeverWrittenTwice`, `DroppedNeverWritten`,
  `LedgerAlwaysExact`, `OverBudgetByOneExport`. None of these is inductive alone: a commit may overwrite
  nothing only because claims are private. So `CommitInv` adds `JobsPrivate` (no two workers share a
  submission or an ID), `DirectoryIsJob` (a directory under a worker's ID holds exactly its job) and
  `OnlyClaimed` (what is held or published was claimed); `EnteredInv` says that only a caller past the queue
  can lose its submission to someone else. For the ledger, `Books` says that every step either leaves what is
  charged alone, charges one export that was admitted, or releases a part of what is charged together with its
  bytes; the sums are compared through the cardinality of the charged bytes, so that finite-set theorems do
  the arithmetic. That at most one export is over budget needs no more than the guard and exactness.
* `ParquetCatalogProofs`, for any number of batches, outputs, readers, attempts and crashes. Under
  `Tolerated`: `CatalogTypes`, `PinnedFilesKept`, `LiveBatchesOnDisk`, `NothingOrphaned`, from `CatalogInv`.
  That a pinned file survives rests on three facts at once: what is retired is not live (`LiveInv`), a
  retirement holding a captured file is no older than the capturing pin (`ReaderInv`), and what a collection
  deletes is older than every pin, through all its steps (`DueInv`). That nothing retired becomes live again
  needs the marker: its output is named nowhere else until it is published (`MarkerInv`, `FreshInv`) and,
  where a rename can vanish, what a rollback puts back is listed by no other output, marked by nobody and not
  retired (`RollbackInv`). `NamespaceInv` says whose every directory is: live, retired, or an input of the
  pending compaction.

  Under `Tolerated` and `Ordered`: `FsyncedIsKept`. What is retired a restart leaves out (`CoverInv`), because
  outputs are never deleted before the inputs they list (`EpochInv`), and a row whose commit synced has a
  durable holder that no restart leaves out (`FsyncedInv`); together with what may be published, merged and
  chosen for deletion they are `KeptInv`. It needs no assumption on retries.

  Under `Reliable`: `RowsCounted`, `AcknowledgedIsReadable`, `PrunedIsGone`, and `CatalogIsATable`, the
  refinement of `TelemetryTable`. What queries read is not inductive: a crash changes what is live, and which
  batches come back depends on the disk. `RowsInv` therefore speaks of the batches held, `Held`: those live
  now, those a restart would list however the power loss turns out, and the two sides of the pending
  compaction, which are the only ones that may share a row (`HeldInv`). What a commit has not yet renamed left
  no trace (`UnbegunInv`), what was acknowledged was synced (`AnsweredInv`), and retention records its marks
  before it takes anything out of the catalog (`ExpiryInv`). `RowsInv` keeps answered rows on disk but not in
  view: `ViewInv` adds that a record of replacement names an output that is there (`RecordInv`) and that a
  swap moves all inputs or none (`SwapInv`). From the three, `SeenInv` gives each row zero or one live copy,
  and `TableStep` takes every action to one of `TelemetryTable` or to a stutter.
* `ReadAdmissionProofs`: `SlotsNeverOversubscribed`, `NoWakeupLost`, `InteractiveGoesFirst`, for every pool
  and number of readers. The core is `WakeKeeps`, about the prefixes a wake takes from both queues, and the
  fact that a panel enqueued behind interactive reads may lower their room but never raise it. `NothingLeaks`
  (the definition `CountersExact`), `AcceptedNeverReenters` (`AcceptedKeepsTicket`), `ClosedKeepsNothing`
  (`ClosedReturnsTicket`) and `StateIsTyped` state what no run checks any more. Their invariant is `BookInv`:
  the queues hold each waiter once and no one else, the slot counters are the cardinalities of the sets of
  holders (`SlotBooks`); a batch has its ticket exactly while its response is open or a flight of it is
  unfinished, and its counters are those of its flights (`TicketInv`). The second conjunct rests on a panel
  still to be looked up having no flight yet (`PendingInv`); from it follows that `TakeReference` never
  reserves again and that `DropReference` never returns a ticket: `Close` or `ReleaseFlight` does.
* `ResultCacheProofs`: `RunsNeverDuplicated`, `NoCacheNeverStale`, `StoredNeverRegresses`. `CacheInv` ties a
  registered flight to a run under way with its key, and every waiting caller to runs that either cover its
  arrival or that it will not accept. `AbandonedIsCancelled` and `OthersKeepTheirRun` (the definition
  `OnlyAbandonedCancelled`) say that a run is cancelled when its last caller leaves and only then, background
  runs and results that will be stored excepted. `WaitersInv` makes a run's `waiters` the cardinality of the
  set of callers that wait for it; a step either leaves a run's set and count alone, adds one caller to both,
  takes one from both, or starts the run with one.
* `DashboardRollupsProofs`: `TypeCorrect`, `ServiceNeverMisses`, `EdgesNeverMissed`. `RollupInv` says that
  every stamp at or below a watermark, an unfinished window's end or a pass's horizon is settled: no attempt
  under way holds it and none to come will. For the edges it adds `ResumePoint`: the calls inside an
  unfinished window are linked or their minute is still stored. Chunk, gap and sub-window are arbitrary.
* `WebAssistantProofs`: `AssistantInvariant`, `PaneIsKept` (the run's property `PaneFollowsThread`) and
  `ReaderActs` (`OnlyTheReaderActs`), for any threads, finitely many views, any connections, fragments, panels
  and bounds. `ChatInv`: the pane, the run that is listened to and every load that may still change the pane
  are of the session's thread; a step that changes the thread first lets go of all three. `McpInv`: a
  connection that is opening or open is the one promised, one that is open the shared one; its listeners are
  exactly the views that use it, `refs` counts them and the releases under way, and it is waited for, used or
  about to be closed. `ScrollInv`: a scroll event on its way while the question is anchored was caused by the
  page, which knows it for its own, or by the reader. `FragmentInv`: queries carry generations, the only one
  that may still be shown was asked for what the fragment shows now, and what is shown is of the last question
  or marked stale; for the whole screen, an answer that opens it is behind the message that said "fullscreen",
  and a view whose host is back in the chat knows or is about to be told. Assumed: the views are finitely many
  and no connection is the value for none (`ViewsAssumption`).
* `WebPagesProofs`: `PagesInvariant`, `ServerIsAgreedWith`, `AddressIsKept`, `TextIsKept`,
  `TypingNeverRewinds`, `SessionIsKept`. `GateInv`: at most one form's request is out and `busy` says so; none
  is sent, and nobody is signed in, before the session was read. `SettingsInv`: a token on the screen is the
  server's, and an answer on its way that disagrees with the server was asked for during a write, whose end
  reads again. `AlertsInv`: a list on its way is as new as the last write that was answered, and a test that
  would be shown has its window open, alone. A read that may deny a token just issued began during a write and
  says so (`late`). `ExploreInv` and `SearchInv`: at most one run is listened to, and it, the result and,
  until the person drafts, the text in the editors are of the entry and the window in the address. `TextInv`:
  the page's echoes end with the texts it has not rendered yet, in their order, so a rendered echo is found
  before what was typed since, unless the page has put a text of its own in between; what a fix-it does to the
  other spans is a shift by its own change of length (`Moved`), so kept marks stay on their code. Assumed: the
  Builder opens on a query the text editor holds (`QueriesAssumption`), revisions are counted
  (`RevisionsAssumption`), and what the server reports are spans that end where they start or behind it
  (`ReportsAssumption`; an empty one marks the end of the text, `fanql/lexer.go`).
* `WebDashboardsProofs`: `DashboardsInvariant`, `DashboardIsKept`, `PointersAreHeld`, `NothingMoves`.
  `EditsInv` says that a read of the record that is still waited for is not below the last version answered,
  that the page is below it only where an answer nothing orders put it there (`behind`), that the drawer
  confirms a restore only after it asked for one (`asked`), and that a request that replaces the spec carries
  the spec of the version it names, so one that the server accepts cannot take an edit away; what needs an
  argument is the panel editor beside an unsaved layout, and `DraftInv` says that such a layout was drawn over
  the version the editor opened with, since whatever else the page shows drops it. `ViewInv`: while a zoom can
  come back, the entry it began at is in the history before the present one and all since are brushed ones; a
  time the brush does not know ends the zoom when it is rendered, and not before, which is why the invariant
  speaks of the address and of what is rendered apart. `BarInv`: what is read for a key was read with it, so
  values resolved from the bar are those the panels were asked with. `ResultsInv`: with no batch and no
  refresh under way, what is in view was attempted or shows something, a queue of panels belongs to a batch,
  and a refresh waits without one only behind an empty retry (`Heeded`). `MapInv`: a fitted view is the fit of
  the layout and width there now, and the layout under way, or there, is of the frame. `ReaderInv`: the point
  that was selected is the one a refresh looks for (`Remembered`), and a pending range lies in the window and
  still reaches through the bucket it was begun at; that a nearest point exists is the least-number principle
  (`Least`), proved from the minimal element of a set of finite sets, since induction is out of reach.
  Assumed: there is a relative range to fall back on (`RangesAssumption`); a brushed time is a pair of
  instants (`SpansAssumption`); a result's window is not empty, and its buckets overlap it
  (`ChartsAssumption`: the first may begin before it, `query/bucket.go` aligns starts to the interval); a
  variable says whether it takes several values (`VariablesAssumption`); and the value for no layout is none
  of a graph's (`MapsAssumption`).

### Only model-checked

* Everything under fairness: the prover has neither `ENABLED` nor the leads-to rules these need.
* `RecordsAreTrue`: the ledger's spend and a receipt's net changes are folds over the calls so far, and their
  value for every sequence takes an induction over data. `EvaluationIsFair` likewise: the longest common order
  of two lists of panels, and selections from a list of calls.
* `EntriesStand` as a whole: that the builder's rows keep their order compares selections from two
  sequences, again an induction. Its other two parts are `TypingNeverRewinds` and `SessionIsKept`.
* `PanelsTell`, `DrawingsHoldTheirFrame` and `MediaIsHonest`, which compare a pure function (rows of a table,
  ticks, labels, lanes of a trace, the rows of services without calls, a clip's segments) with a reference
  definition for every input of a size: most are folds, and what is wrong with one shows on three rows.

### Not modelled, and why

* Ingest admission, compaction selection and debt, the alert engine, the detector and the batch read cache
  keep state and are the next to model; their hazards are listed without a property.
* What SQLite keeps (accounts, dashboards, threads, settings) changes in single transactions; the races are on
  the browser's side of them, where they are modelled.
* Translations without shared state: FanQL and the query compiler, OTLP conversion, Parquet encoding and
  merging, read models, HTTP and MCP handlers. Their tests give inputs and outputs; a checker adds little.
* Pure output: the site, styles, generated code, the offline verify tool, which reads and never runs beside
  the store.

## What is left

The folds of the properties that are only model-checked, once a prover with induction over data is at hand;
whether retention's marks survive a refused swap together with a vanishing rename (the one exclusion of
`Reliable` without a counterexample), and models of ingest admission, compaction debt and the alert engine.
