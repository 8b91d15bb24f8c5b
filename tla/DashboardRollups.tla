-------------------------- MODULE DashboardRollups --------------------------
(***************************************************************************)
(* The dashboard rollups and the publication horizon they follow:          *)
(* src/internal/engine/duck.go, with the stamps of                         *)
(* src/internal/telemetry/store/repository.go.                             *)
(*                                                                         *)
(* Every commit attempt reserves a stamp larger than any before it, and    *)
(* its rows carry that stamp.  Attempts end in any order, so a rollup may  *)
(* read only up to the horizon, the stamp before the oldest attempt under  *)
(* way.  A service pass takes the rows stamped in a window after its       *)
(* watermark and recomputes the summary of every minute they touch; an     *)
(* edge pass does the same for the calls between spans, a few minutes of   *)
(* span start time per transaction, and stores where to resume.  Each pass *)
(* commits its summaries with its progress, and the progress survives a    *)
(* restart although the stamps of failed attempts do not: the clock may    *)
(* have moved back, and stamps be used again.                              *)
(*                                                                         *)
(* Abstractions.  A batch is one span: its minute of start time and its    *)
(* parent are constants.  A summary is the set of spans it counts, so a    *)
(* recomputed minute forgets and counts again exactly the spans of that    *)
(* minute in the pass's snapshot.  Peer and messaging edges, retention and *)
(* compaction are left out: rows keep their stamps when they are merged.   *)
(***************************************************************************)
EXTENDS Integers, FiniteSets

CONSTANTS
  Span,        \* batches, one span each
  Minute,      \* Minute[s]: the minute span s starts in
  Parent,      \* Parent[s]: the span that called s, or NoSpan
  NoSpan,
  Chunk,       \* rollupChunkNanos: stamps one pass covers at most
  Gap,         \* edgeArrivalGap: how late a parent may arrive
  SubWindow,   \* edgeStartChunkNanos: minutes one edge pass covers at most
  MaxStamp,    \* bound: the last stamp
  MaxCrashes   \* bound: crashes of the process

ASSUME RollupAssumption ==
  /\ Minute \in [Span -> Nat \ {0}]
  /\ Parent \in [Span -> Span \cup {NoSpan}]
  /\ NoSpan \notin Span
  /\ Chunk \in Nat \ {0} /\ Gap \in Nat /\ SubWindow \in Nat \ {0}
  /\ MaxStamp \in Nat /\ MaxCrashes \in Nat

Stamp == 1..MaxStamp
Stamp0 == 0..MaxStamp     \* 0: no stamp
Rollup == {"service", "edge"}

VARIABLES
  \* Repository, in memory.
  lastStamp, lastPublished, minimumStamp,
  attempt,     \* the stamp of each batch's attempt in inFlight, 0 for none
  \* The batch directories.
  stamp,       \* the stamp of each batch in the catalog, 0 outside it
  synced,      \* batches whose directory entry is durable
  client,      \* what the exporter of each batch was told
  \* The rollup cache database.
  watermark,   \* rollup_state: how far each rollup has read
  cursor, subWindow, \* rollup_state: where an unfinished edge window resumes
  buckets,     \* read_edge_buckets: minutes of it still to recompute
  counted,     \* service_rollup: spans in the service summaries
  linked,      \* edge_rollup: spans whose call from their parent is counted
  \* The pass holding the write gate, with the bounds it has read.
  pass, crashes

repository == <<lastStamp, lastPublished, minimumStamp, attempt>>
directories == <<stamp, synced, client>>
cache == <<watermark, cursor, subWindow, buckets, counted, linked>>
vars == <<repository, directories, cache, pass, crashes>>

NoPass == [rollup |-> "none", horizon |-> 0, minimum |-> 0]

Init ==
  /\ lastStamp = 0 /\ lastPublished = 0 /\ minimumStamp = 0
  /\ attempt = [s \in Span |-> 0]
  /\ stamp = [s \in Span |-> 0]
  /\ synced = {}
  /\ client = [s \in Span |-> "waiting"]
  /\ watermark = [r \in Rollup |-> 0]
  /\ cursor = 0 /\ subWindow = 0 /\ buckets = {}
  /\ counted = {} /\ linked = {}
  /\ pass = NoPass
  /\ crashes = 0

Later(a, b) == IF a < b THEN b ELSE a
Earlier(a, b) == IF a < b THEN a ELSE b

-----------------------------------------------------------------------------
(* Commits.                                                                *)

\* beginPublication: strictly increasing, whatever the clock reads.
Reserved(now) == Later(now, lastStamp + 1)

\* beginPublication.  Every attempt of the writer's retries calls it again.
Begin(s) ==
  /\ client[s] = "waiting" /\ attempt[s] = 0
  /\ \E now \in Stamp :
       /\ Reserved(now) <= MaxStamp
       /\ lastStamp' = Reserved(now)
       /\ attempt' = [attempt EXCEPT ![s] = Reserved(now)]
       /\ minimumStamp' = IF minimumStamp = 0 THEN Reserved(now) ELSE minimumStamp
  /\ UNCHANGED <<lastPublished, directories, cache, pass, crashes>>

\* CommitBatch's rename: the rows are visible, their attempt is not over.
Rename(s) ==
  /\ attempt[s] # 0 /\ stamp[s] = 0
  /\ stamp' = [stamp EXCEPT ![s] = attempt[s]]
  /\ UNCHANGED <<repository, synced, client, cache, pass, crashes>>

\* finishPublication of an attempt that succeeded: it synced the directory
\* it renamed, or adopted the one an earlier attempt left, with its stamp.
Succeed(s) ==
  /\ attempt[s] # 0 /\ stamp[s] # 0
  /\ lastPublished' = Later(lastPublished, stamp[s])
  /\ minimumStamp' = IF minimumStamp = 0 \/ stamp[s] < minimumStamp
                     THEN stamp[s] ELSE minimumStamp
  /\ attempt' = [attempt EXCEPT ![s] = 0]
  /\ synced' = IF stamp[s] = attempt[s] THEN synced \cup {s} ELSE synced
  /\ client' = [client EXCEPT ![s] = "acked"]
  /\ UNCHANGED <<lastStamp, stamp, cache, pass, crashes>>

\* finishPublication of an attempt that failed, before the rename or in the
\* fsync after it.  The writer retries the batch or drops it.
FailAttempt(s) ==
  /\ attempt[s] # 0
  /\ attempt' = [attempt EXCEPT ![s] = 0]
  /\ \E told \in {"waiting", "dropped"} : client' = [client EXCEPT ![s] = told]
  /\ UNCHANGED <<lastStamp, lastPublished, minimumStamp, stamp, synced, cache,
                 pass, crashes>>

-----------------------------------------------------------------------------
(* Passes.  A pass is two steps: it reads the bounds, then captures the    *)
(* catalog and commits.  Commits and failures fall between them; after the *)
(* capture nothing else can change what the pass reads or writes, as the   *)
(* write gate is its own until it commits.                                 *)

\* Mutant of IsHorizon: what has been reserved is taken for finished.
IsHorizonReserved(h) == h = lastStamp

\* PublicationBounds: the largest stamp below every attempt under way.
IsHorizon(h) ==
  /\ h <= lastStamp
  /\ \A s \in Span : attempt[s] # 0 => h < attempt[s]
  /\ h = lastStamp \/ \E s \in Span : attempt[s] = h + 1

\* refreshServiceRollup, refreshEdgeRollupPass up to BeginTx: the write gate,
\* the bounds, and the two returns with nothing to do.
StartPass(r) ==
  /\ pass.rollup = "none"
  /\ lastPublished # 0
  /\ \E h \in Stamp0 :
       /\ IsHorizon(h)
       /\ h > watermark[r]
       /\ pass' = [rollup |-> r, horizon |-> h, minimum |-> minimumStamp]
  /\ UNCHANGED <<repository, directories, cache, crashes>>

\* Any error or the end of the context: the transaction is rolled back.
Abort ==
  /\ pass.rollup # "none"
  /\ pass' = NoPass
  /\ UNCHANGED <<repository, directories, cache, crashes>>

\* rollupWindow.
WindowStart(last) ==
  IF last = 0 /\ pass.minimum > 0 THEN pass.minimum - 1 ELSE last
WindowEnd(last, size) == Earlier(pass.horizon, WindowStart(last) + size)

\* bindRollupSnapshot: the catalog, the rows of attempts under way included.
Snapshot == {s \in Span : stamp[s] # 0}

\* Rows of the snapshot stamped in (lo, hi].
Stamped(lo, hi) == {s \in Snapshot : lo < stamp[s] /\ stamp[s] <= hi}

\* The spans of the snapshot that start in the given minutes.
StartingIn(minutes) == {s \in Snapshot : Minute[s] \in minutes}

\* DELETE of the given minutes from a summary, then INSERT of its new spans.
Replace(summary, minutes, spans) ==
  {s \in summary : Minute[s] \notin minutes} \cup spans

\* The rest of refreshServiceRollup.  Memory pressure narrows the chunk.
CommitService ==
  /\ pass.rollup = "service"
  /\ \E size \in 1..Chunk :
       LET end == WindowEnd(watermark["service"], size)
           affected == {Minute[s] : s \in Stamped(WindowStart(watermark["service"]), end)}
       IN /\ counted' = Replace(counted, affected, StartingIn(affected))
          /\ watermark' = [watermark EXCEPT !["service"] = end]
  /\ pass' = NoPass
  /\ UNCHANGED <<repository, directories, cursor, subWindow, buckets, linked, crashes>>

\* edgePassBucketsSelectSQL: the rows that arrived, and recent children of
\* parents that did.
Affected(lo, hi) ==
  Stamped(lo, hi)
    \cup {c \in Stamped(lo - Gap, lo) : Parent[c] \in Stamped(lo, hi)}

\* insertEdgeRollup: children whose parent the snapshot holds.
Called(spans) == {c \in spans : Parent[c] \in Snapshot}

Resuming == cursor > 0 /\ subWindow > watermark["edge"]

\* A window's end and the minutes left of it: those stored by the pass that
\* ran out of budget, or those of a new window.
EdgeEnd == IF Resuming THEN subWindow ELSE WindowEnd(watermark["edge"], Chunk)
EdgeMinutes ==
  IF Resuming
  THEN buckets
  ELSE {Minute[s] : s \in Affected(WindowStart(watermark["edge"]), EdgeEnd)}

\* No minute of the window is left: the watermark advances and the resume
\* point is cleared with it.
CompleteWindow ==
  /\ watermark' = [watermark EXCEPT !["edge"] = EdgeEnd]
  /\ cursor' = 0 /\ subWindow' = 0 /\ buckets' = {}

\* Mutant of YieldWindow: the place to resume is not stored.
YieldForgetting(hi) ==
  /\ subWindow' = EdgeEnd
  /\ buckets' = {b \in EdgeMinutes : b >= hi}
  /\ UNCHANGED <<cursor, watermark>>

\* Minutes from hi on are left: they are stored with their window and the
\* place to resume, and the watermark stays.
YieldWindow(hi) ==
  /\ cursor' = hi /\ subWindow' = EdgeEnd
  /\ buckets' = {b \in EdgeMinutes : b >= hi}
  /\ UNCHANGED watermark

\* The window's first and last minutes, and the end of the sub-window that
\* this pass recomputes: dense minutes make it narrower.
IsSubWindow(first, last, hi) ==
  LET lo == Later(first, cursor)
  IN /\ \A b \in EdgeMinutes : first <= b /\ b <= last
     /\ hi \in (lo + 1)..Earlier(lo + SubWindow, last + 1)

\* The rest of refreshEdgeRollupPass, maxEdgeSubWindowsPerPass being 1.
CommitEdge ==
  /\ pass.rollup = "edge"
  /\ \/ EdgeMinutes = {} /\ CompleteWindow /\ UNCHANGED linked
     \/ \E first, last \in EdgeMinutes : \E hi \in (first + 1)..(last + 1) :
          LET minutes == {b \in EdgeMinutes : b >= cursor /\ b < hi}
          IN /\ IsSubWindow(first, last, hi)
             /\ linked' = Replace(linked, minutes, Called(StartingIn(minutes)))
             /\ IF hi <= last THEN YieldWindow(hi) ELSE CompleteWindow
  /\ pass' = NoPass
  /\ UNCHANGED <<repository, directories, counted, crashes>>

-----------------------------------------------------------------------------
(* A crash, and the restart after it.                                      *)

\* Repository.Open: the bounds are those of the directories found.
IsHighest(h, found) ==
  /\ \A s \in Span : found[s] <= h
  /\ h = 0 \/ \E s \in Span : found[s] = h
IsLowest(l, found) ==
  /\ \A s \in Span : found[s] # 0 => l <= found[s]
  /\ \E s \in Span : found[s] = l
  /\ l = 0 => \A s \in Span : found[s] = 0

\* Mutant of Rewind: progress is restored as it was stored.
RewindNothing(horizon) ==
  UNCHANGED <<watermark, cursor, subWindow, buckets>>

\* loadRollupWatermarks: progress past the horizon covers no rows, and its
\* stamps may be reserved again.
Rewind(horizon) ==
  /\ watermark' = [r \in Rollup |-> Earlier(watermark[r], horizon)]
  /\ IF subWindow > horizon
     THEN cursor' = 0 /\ subWindow' = 0 /\ buckets' = {}
     ELSE UNCHANGED <<cursor, subWindow, buckets>>

\* CreateCacheTables after an upgrade: the summaries go with their progress.
Recreate ==
  /\ counted' = {} /\ linked' = {}
  /\ watermark' = [r \in Rollup |-> 0]
  /\ cursor' = 0 /\ subWindow' = 0
  /\ buckets' \in {buckets, {}}

\* Unsynced directories may be lost.  A batch that was not answered is sent
\* again as another one; the first stays dropped if its directory is there.
Crash ==
  /\ crashes < MaxCrashes
  /\ \E lost \in SUBSET {s \in Span : stamp[s] # 0 /\ s \notin synced} :
     \E high, low \in Stamp0 :
       LET found == [s \in Span |-> IF s \in lost THEN 0 ELSE stamp[s]]
       IN /\ IsHighest(high, found) /\ IsLowest(low, found)
          /\ stamp' = found
          /\ client' = [s \in Span |-> IF client[s] = "waiting" /\ found[s] # 0
                                       THEN "dropped" ELSE client[s]]
          /\ lastStamp' = high /\ lastPublished' = high /\ minimumStamp' = low
          /\ \/ Rewind(high) /\ UNCHANGED <<counted, linked>>
             \/ Recreate
  /\ attempt' = [s \in Span |-> 0]
  /\ pass' = NoPass
  /\ crashes' = crashes + 1
  /\ UNCHANGED synced

\* Bounded: no batch is left to send, and every pass has nothing to do.
Stopped ==
  /\ \A s \in Span : attempt[s] = 0
  /\ pass.rollup = "none"
  /\ UNCHANGED vars

Commit(s) == Begin(s) \/ Rename(s) \/ Succeed(s) \/ FailAttempt(s)

Next ==
  \/ \E s \in Span : Commit(s)
  \/ \E r \in Rollup : StartPass(r)
  \/ Abort \/ CommitService \/ CommitEdge
  \/ Crash
  \/ Stopped

Spec == Init /\ [][Next]_vars

\* Attempts end, and a rollup runs on every tick of its worker.  Passes fail,
\* but one that could commit again and again does so in the end: its context
\* is the worker's, and memory pressure narrows what it takes on.
Fairness ==
  /\ \A s \in Span : WF_vars(Succeed(s) \/ FailAttempt(s))
  /\ \A r \in Rollup : SF_vars(StartPass(r))
  /\ SF_vars(CommitService) /\ SF_vars(CommitEdge)

FairSpec == Spec /\ Fairness

-----------------------------------------------------------------------------
(* Properties.                                                             *)

TypeOK ==
  /\ lastStamp \in Stamp0 /\ lastPublished \in Stamp0 /\ minimumStamp \in Stamp0
  /\ attempt \in [Span -> Stamp0]
  /\ stamp \in [Span -> Stamp0]
  /\ synced \subseteq Span
  /\ client \in [Span -> {"waiting", "acked", "dropped"}]
  /\ watermark \in [Rollup -> Stamp0]
  /\ cursor \in Nat /\ subWindow \in Stamp0
  /\ buckets \subseteq Nat
  /\ counted \subseteq Span /\ linked \subseteq Span
  /\ pass \in [rollup : Rollup \cup {"none"}, horizon : Stamp0, minimum : Stamp0]
  /\ crashes \in 0..MaxCrashes

\* No visible row at or below the service watermark is missing from its
\* summary, whatever order attempts end in, whichever fail after their
\* rename, and wherever the process restarts: later passes never look back.
ServiceComplete ==
  \A s \in Span :
    stamp[s] # 0 /\ stamp[s] <= watermark["service"] => s \in counted

\* The call of c is visible up to stamp h, its parent at most Gap behind it.
CallWithin(c, h) ==
  /\ Parent[c] # NoSpan
  /\ stamp[c] # 0 /\ stamp[c] <= h
  /\ stamp[Parent[c]] # 0 /\ stamp[Parent[c]] <= h
  /\ stamp[Parent[c]] - stamp[c] <= Gap

\* A call whose two spans are visible at or below the edge watermark is in
\* the edge summary, unless its parent arrived later than the gap: also when
\* the window that held them took several passes, and a restart between.
EdgesComplete ==
  \A c \in Span : CallWithin(c, watermark["edge"]) => c \in linked

\* Every acknowledged batch that stays visible is reached by both rollups,
\* however far behind they are and however often passes run out of budget
\* or fail.
RollupsCatchUp ==
  \A s \in Span, r \in Rollup :
    (client[s] = "acked" /\ stamp[s] # 0)
      ~> (stamp[s] = 0 \/ watermark[r] >= stamp[s])

-----------------------------------------------------------------------------
(* A small instance: spans called by their minutes, and a call between two *)
(* that start some minutes apart.                                          *)

MCMinute == [s \in Span |-> s]
MCParent == [s \in Span |-> IF s = 1 THEN NoSpan ELSE 1]
=============================================================================
