--------------------------- MODULE ParquetCatalog ---------------------------
(***************************************************************************)
(* The batch catalog of Fanout's telemetry repository: the directories in  *)
(* parquet/batches, the in-memory catalog queries read, and everything     *)
(* that moves a batch through both (telemetry/parquet.go and retire.go,    *)
(* store/compaction.go and repository.go, and the maintenance passes of    *)
(* engine/duck.go).                                                        *)
(*                                                                         *)
(* Three kinds of process share it.  Commits publish one raw batch each    *)
(* and are retried by the ingest writer.  One maintenance thread recovers, *)
(* collects, prunes and compacts, each under compactionMu.  Readers pin an *)
(* epoch, capture the catalog and open its files without a lock.  A crash  *)
(* keeps only what an fsync made durable, and any subset of the rest.      *)
(*                                                                         *)
(* Abstractions.  A batch is its ID; the rows of a raw batch are the batch *)
(* itself, and a merged batch holds a set of them.  Which group compaction *)
(* chooses, and which batches the retention cutoff covers, is free.        *)
(* Staging directories of commits are not kept: no reader sees them, and   *)
(* startup wipes them.  Leaving the namespace and being erased is one step *)
(* (removeRetiredBatch renames before it erases).                          *)
(***************************************************************************)
EXTENDS Naturals, FiniteSets, TLC

CONSTANTS
    Raw,            \* batches the ingest writer commits
    Outs,           \* compaction outputs, each a fresh ID
    Readers,        \* queries
    None,           \* no batch, no marker
    Faults,         \* which kinds of failure may happen, see FaultKinds
    MaxAttempts,    \* bound: commit attempts for one raw batch
    MaxCrashes,     \* bound: crashes of the process
    MaxPrune        \* bound: batches one prune publication removes

\* What may fail.  commit: preparing a batch or waiting for the gate.
\* commitSync, publishSync, rootSync, collectSync: that fsync.
\* publishRefused, pruneRefused: the query layer refuses the swap.  merge: a
\* merge.  remove: deleting a directory.  vanish: after a crash a rename
\* across directories survives on neither side.
FaultKinds ==
    {"commit", "commitSync", "publishSync", "rootSync", "collectSync",
     "publishRefused", "pruneRefused", "merge", "remove", "vanish"}

ASSUME CatalogAssumption ==
    /\ Raw \cap Outs = {}
    /\ None \notin Raw \cup Outs \cup [out : Outs, inputs : SUBSET (Raw \cup Outs)]
    /\ Faults \subseteq FaultKinds
    /\ MaxAttempts \in Nat \ {0}
    /\ MaxCrashes \in Nat
    /\ MaxPrune \in Nat \ {0}

Ids == Raw \cup Outs

VARIABLES
    \* The file system.
    present,      \* IDs with a directory in batches/
    unsynced,     \* IDs whose last appearance or removal is not yet durable
    marked,       \* IDs whose directory carries the pruned file
    lists,        \* the replaces list inside each output
    rows,         \* the raw batches whose rows each output holds
    stage,        \* the output in root/compaction, or None
    marker,       \* COMPACTION.json: [out, inputs], or None
    savedMarker,  \* what a crash may bring back for COMPACTION.json
    \* The store's memory.
    phase,        \* "down", "opening" or "serving"
    catalog,      \* p.batches: the IDs queries read
    replacedBy,   \* p.replacedBy: the output recorded as listing an ID
    retiring,     \* p.retiring: batches retired at an epoch, not yet deleted
    epoch,        \* p.epoch
    gate,         \* the committer holding publishGate, or None
    \* Processes.
    commit,       \* each raw batch's commit
    attempts,     \* commit attempts begun
    reader,       \* each reader's pin and captured catalog
    task,         \* the maintenance thread
    crashes,
    \* History: what was promised.
    acked,        \* raw batches whose commit returned success
    fsynced,      \* those of them whose own attempt made the rename durable
    expiring,     \* rows of batches retention marked
    hidden        \* rows of batches retention removed from the catalog

files == <<present, unsynced, marked, lists, rows, stage, marker, savedMarker>>
memory == <<phase, catalog, replacedBy, retiring, epoch, gate>>
history == <<acked, fsynced, expiring, hidden>>
vars == <<files, memory, commit, attempts, reader, task, crashes, history>>

Markers == [out : Outs, inputs : SUBSET Ids] \cup {None}

NoTask == [pass |-> "none", job |-> "none", at |-> "start",
           ids |-> {}, due |-> {}, gone |-> {}, dirty |-> FALSE]
NoReader == [at |-> "idle", epoch |-> 0, snap |-> {}]

-----------------------------------------------------------------------------
(* Batches and their rows.                                                 *)

RowsIn(id) == IF id \in Raw THEN {id} ELSE rows[id]
RowsOf(S) == UNION {RowsIn(id) : id \in S}

RetiringIds == UNION {r.ids : r \in retiring}

\* retire.go published: live, retired but not yet deleted, or listed.
Published(id) ==
    \/ id \in catalog
    \/ id \in RetiringIds
    \/ replacedBy[id] # None

\* retire.go retireLocked: the retirement is stamped with the epoch readers
\* may have pinned, and later readers pin the next one.
Retire(S) ==
    IF S = {}
    THEN UNCHANGED <<retiring, epoch>>
    ELSE /\ retiring' = retiring \cup {[epoch |-> epoch, ids |-> S]}
         /\ epoch' = epoch + 1

\* Mutant of Due: a reader pinned at the retirement's own epoch is ignored.
DueAtPinnedEpoch ==
    {r \in retiring :
        /\ r.epoch < epoch
        /\ \A q \in Readers : reader[q].at # "idle" => r.epoch <= reader[q].epoch}

\* Mutant of Due: the newest retirement is never old enough.
DueExceptNewest ==
    {r \in retiring :
        /\ r.epoch + 1 < epoch
        /\ \A q \in Readers : reader[q].at # "idle" => r.epoch < reader[q].epoch}

\* The retirements CollectRetired may delete: older than every pinned epoch.
Due ==
    {r \in retiring :
        /\ r.epoch < epoch
        /\ \A q \in Readers : reader[q].at # "idle" => r.epoch < reader[q].epoch}

\* Mutant of RetiredAtLoad: only retention's marks are read.
MarkedAtLoad == {id \in present : id \in marked}

\* The directories loadBatches leaves out of the catalog: marked by
\* retention, or listed by an output that is present.
RetiredAtLoad ==
    {id \in present : id \in marked \/ \E o \in present \cap Outs : id \in lists[o]}

-----------------------------------------------------------------------------
(* The maintenance thread runs jobs in the order of its passes.            *)

\* Startup, the hourly pass and the compaction cycle, and what each runs
\* after a job that succeeded or failed.  Nothing follows a failed recovery.
FollowingJob(pass, job, ok) ==
    CASE pass = "open"   -> IF job = "recover" THEN "collect" ELSE "none"
      [] pass = "hourly" -> CASE job = "recover" -> IF ok THEN "collect" ELSE "none"
                              [] job = "collect" -> "prune"
                              [] job = "prune"   -> "compact"
                              [] OTHER           -> "none"
      [] pass = "cycle"  -> CASE job = "recover" -> IF ok THEN "compact" ELSE "none"
                              [] job = "compact" -> "collect"
                              [] OTHER           -> "none"

\* A failure while opening closes the store; the process exits.
EndJob(ok) ==
    LET next == FollowingJob(task.pass, task.job, ok)
    IN IF task.pass = "open" /\ ~ok
       THEN /\ phase' = "down"
            /\ task' = NoTask
       ELSE /\ phase' = IF task.pass = "open" /\ next = "none" THEN "serving" ELSE phase
            /\ task' = IF next = "none" THEN NoTask
                       ELSE [NoTask EXCEPT !.pass = task.pass, !.job = next]

At(job, at) == task.job = job /\ task.at = at

StartPass(pass) ==
    /\ phase = "serving"
    /\ task = NoTask
    /\ task' = [NoTask EXCEPT !.pass = pass, !.job = "recover"]
    /\ UNCHANGED <<files, memory, commit, attempts, reader, crashes, history>>

-----------------------------------------------------------------------------
(* Commits: CommitBatch.                                                   *)

\* The ingest writer retries a failed commit this often.
AttemptsLeft(r) == attempts[r] < MaxAttempts

AttemptOver(r) == IF AttemptsLeft(r) THEN "idle" ELSE "failed"

\* The first alreadyPublished check.  A directory found in the namespace is
\* validated instead of being staged anew; either way the gate comes next.
CommitBegin(r) ==
    /\ phase = "serving"
    /\ commit[r] = "idle"
    /\ AttemptsLeft(r)
    /\ attempts' = [attempts EXCEPT ![r] = @ + 1]
    /\ IF Published(r)
       THEN /\ commit' = [commit EXCEPT ![r] = "done"]
            /\ acked' = acked \cup {r}
       ELSE /\ commit' = [commit EXCEPT ![r] = "prepared"]
            /\ UNCHANGED acked
    /\ UNCHANGED <<files, memory, reader, task, crashes, fsynced, expiring, hidden>>

\* Encoding fails, or commitPublishWait passes before the gate is free.
CommitFail(r) ==
    /\ "commit" \in Faults
    /\ commit[r] = "prepared"
    /\ commit' = [commit EXCEPT ![r] = AttemptOver(r)]
    /\ UNCHANGED <<files, memory, attempts, reader, task, crashes, history>>

\* Under the gate: checked again, then renamed into the namespace (or
\* adopted where it stands) and put in the catalog before the fsync.
CommitPublish(r) ==
    /\ commit[r] = "prepared"
    /\ gate = None
    /\ IF Published(r)
       THEN /\ commit' = [commit EXCEPT ![r] = "done"]
            /\ acked' = acked \cup {r}
            /\ UNCHANGED <<present, unsynced, catalog, gate>>
       ELSE /\ commit' = [commit EXCEPT ![r] = "syncing"]
            /\ present' = present \cup {r}
            /\ unsynced' = IF r \in present THEN unsynced ELSE unsynced \cup {r}
            /\ catalog' = catalog \cup {r}
            /\ gate' = r
            /\ UNCHANGED acked
    /\ UNCHANGED <<marked, lists, rows, stage, marker, savedMarker, phase, replacedBy,
                   retiring, epoch, attempts, reader, task, crashes, fsynced, expiring, hidden>>

\* fsync of the batch directory, and the gate released.
CommitSynced(r) ==
    /\ commit[r] = "syncing"
    /\ commit' = [commit EXCEPT ![r] = "done"]
    /\ unsynced' = {}
    /\ acked' = acked \cup {r}
    /\ fsynced' = fsynced \cup {r}
    /\ gate' = None
    /\ UNCHANGED <<present, marked, lists, rows, stage, marker, savedMarker, phase, catalog,
                   replacedBy, retiring, epoch, attempts, reader, task, crashes, expiring, hidden>>

\* The fsync fails: the renamed batch stays in the catalog, unacknowledged.
CommitSyncFail(r) ==
    /\ "commitSync" \in Faults
    /\ commit[r] = "syncing"
    /\ commit' = [commit EXCEPT ![r] = AttemptOver(r)]
    /\ gate' = None
    /\ UNCHANGED <<files, phase, catalog, replacedBy, retiring, epoch, attempts,
                   reader, task, crashes, history>>

-----------------------------------------------------------------------------
(* Readers: Pin, then BatchMetadata, then Unpin.                           *)

Pin(q) ==
    /\ phase = "serving"
    /\ reader[q].at = "idle"
    /\ reader' = [reader EXCEPT ![q] = [at |-> "pinned", epoch |-> epoch, snap |-> {}]]
    /\ UNCHANGED <<files, memory, commit, attempts, task, crashes, history>>

Capture(q) ==
    /\ reader[q].at = "pinned"
    /\ reader' = [reader EXCEPT ![q].at = "reading", ![q].snap = catalog]
    /\ UNCHANGED <<files, memory, commit, attempts, task, crashes, history>>

Unpin(q) ==
    /\ reader[q].at = "reading"
    /\ reader' = [reader EXCEPT ![q] = NoReader]
    /\ UNCHANGED <<files, memory, commit, attempts, task, crashes, history>>

-----------------------------------------------------------------------------
(* Recovery of a pending compaction, and the replacement it completes.     *)

RecoverNothing ==
    /\ At("recover", "start")
    /\ marker = None
    /\ EndJob(TRUE)
    \* Startup then drops leftover staging and syncs the root.
    /\ IF task.pass = "open"
       THEN /\ stage' = None
            /\ savedMarker' = marker
       ELSE UNCHANGED <<stage, savedMarker>>
    /\ UNCHANGED <<present, unsynced, marked, lists, rows, marker, catalog, replacedBy,
                   retiring, epoch, gate, commit, attempts, reader, crashes, history>>

OutputExists == marker.out = stage \/ marker.out \in present

RecoverResume ==
    /\ At("recover", "start")
    /\ marker # None
    /\ OutputExists
    /\ task' = [task EXCEPT !.at = "publish"]
    /\ UNCHANGED <<files, memory, commit, attempts, reader, crashes, history>>

\* RestoreRetiredInputs: the output vanished, so its inputs are queryable
\* again.
RecoverRestore ==
    /\ At("recover", "start")
    /\ marker # None
    /\ ~OutputExists
    /\ marker.inputs \subseteq present
    /\ gate = None
    /\ catalog' = catalog \cup marker.inputs
    /\ replacedBy' = [id \in Ids |-> IF id \in marker.inputs /\ replacedBy[id] = marker.out
                                     THEN None ELSE replacedBy[id]]
    /\ task' = [task EXCEPT !.at = "unmark"]
    /\ UNCHANGED <<files, phase, retiring, epoch, gate, commit, attempts, reader, crashes, history>>

\* An input is missing too: the marker stays, and startup refuses.
RecoverRefused ==
    /\ At("recover", "start")
    /\ marker # None
    /\ ~OutputExists
    /\ ~(marker.inputs \subseteq present)
    /\ EndJob(FALSE)
    /\ UNCHANGED <<files, catalog, replacedBy, retiring, epoch, gate, commit, attempts, reader,
                   crashes, history>>

\* The body of PublishReplacement: the replaces list is written while the
\* output is staged, the rename publishes it, and the catalog follows
\* whether or not the fsync succeeds.
SwapReplacement ==
    /\ gate = None
    /\ lists' = IF stage = marker.out THEN [lists EXCEPT ![marker.out] = marker.inputs] ELSE lists
    /\ present' = present \cup {marker.out}
    /\ stage' = IF stage = marker.out THEN None ELSE stage
    /\ catalog' = (catalog \ marker.inputs) \cup {marker.out}
    /\ replacedBy' = [id \in Ids |-> IF id \in marker.inputs THEN marker.out ELSE replacedBy[id]]
    /\ UNCHANGED <<marked, rows, marker, savedMarker, gate, commit, attempts, reader, crashes, history>>

\* Mutant of PublishReplacement: only inputs still in the catalog are retired.
PublishRetiringLive ==
    /\ task.at = "publish"
    /\ SwapReplacement
    /\ unsynced' = {}
    /\ Retire(marker.inputs \cap catalog)
    /\ task' = [task EXCEPT !.at = "unmark"]
    /\ UNCHANGED phase

\* The output is durable: what the swap removed is retired, and so is an
\* input an earlier, unsynced attempt removed but left on disk.
PublishReplacement ==
    /\ task.at = "publish"
    /\ SwapReplacement
    /\ unsynced' = {}
    /\ Retire(marker.inputs \cap (catalog \cup present))
    /\ task' = [task EXCEPT !.at = "unmark"]
    /\ UNCHANGED phase

\* Mutant of PublishUnsynced: the inputs are retired though the output may
\* not survive.
PublishUnsyncedRetiring ==
    /\ "publishSync" \in Faults
    /\ task.at = "publish"
    /\ SwapReplacement
    /\ unsynced' = IF marker.out \in present THEN unsynced ELSE unsynced \cup {marker.out}
    /\ Retire(marker.inputs \cap (catalog \cup present))
    /\ EndJob(FALSE)

\* The fsync failed: nothing is retired and the marker stays.
PublishUnsynced ==
    /\ "publishSync" \in Faults
    /\ task.at = "publish"
    /\ SwapReplacement
    /\ unsynced' = IF marker.out \in present THEN unsynced ELSE unsynced \cup {marker.out}
    /\ UNCHANGED <<retiring, epoch>>
    /\ EndJob(FALSE)

\* The query layer could not admit the swap in time: nothing moves.
PublishRefused ==
    /\ "publishRefused" \in Faults
    /\ task.at = "publish"
    /\ EndJob(FALSE)
    /\ UNCHANGED <<files, catalog, replacedBy, retiring, epoch, gate, commit, attempts, reader,
                   crashes, history>>

\* The marker is removed, then the root is synced, and the job goes on: a
\* recovery to its end, a compaction pass to its next group.  A failed sync
\* ends the job, and the next one finds no marker.
Unmark(ok) ==
    /\ ok \/ "rootSync" \in Faults
    /\ task.at = "unmark"
    /\ marker' = None
    /\ savedMarker' = IF ok THEN None ELSE savedMarker
    /\ IF ok
       THEN /\ task' = [NoTask EXCEPT !.pass = task.pass, !.job = task.job]
            /\ UNCHANGED phase
       ELSE EndJob(FALSE)
    /\ UNCHANGED <<present, unsynced, marked, lists, rows, stage, catalog, replacedBy, retiring,
                   epoch, gate, commit, attempts, reader, crashes, history>>

-----------------------------------------------------------------------------
(* Compaction: compactParquet, and completeCompaction as above.            *)

\* The merge reads the files of two or more live batches into a stage.
Merge(S, o) ==
    /\ At("compact", "start")
    /\ S \subseteq catalog
    /\ Cardinality(S) >= 2
    /\ rows[o] = {}
    /\ stage' = o
    /\ rows' = [rows EXCEPT ![o] = RowsOf(S)]
    /\ task' = [task EXCEPT !.at = "merged", !.ids = S]
    /\ UNCHANGED <<present, unsynced, marked, lists, marker, savedMarker, memory, commit,
                   attempts, reader, crashes, history>>

\* A merge that fails, or is preempted by ingest debt, removes its stage.
MergeFail ==
    /\ "merge" \in Faults
    /\ At("compact", "merged")
    /\ rows' = [rows EXCEPT ![stage] = {}]
    /\ stage' = None
    /\ EndJob(FALSE)
    /\ UNCHANGED <<present, unsynced, marked, lists, marker, savedMarker, catalog, replacedBy,
                   retiring, epoch, gate, commit, attempts, reader, crashes, history>>

\* The marker is durable before the output may be published; if the root
\* sync fails the stage goes and the marker is left behind.
WriteMarker(ok) ==
    /\ ok \/ "rootSync" \in Faults
    /\ At("compact", "merged")
    /\ marker' = [out |-> stage, inputs |-> task.ids]
    /\ savedMarker' = IF ok THEN marker' ELSE savedMarker
    /\ stage' = IF ok THEN stage ELSE None
    /\ IF ok
       THEN /\ task' = [task EXCEPT !.at = "publish"]
            /\ UNCHANGED phase
       ELSE EndJob(FALSE)
    /\ UNCHANGED <<present, unsynced, marked, lists, rows, catalog, replacedBy, retiring,
                   epoch, gate, commit, attempts, reader, crashes, history>>

CompactNothing ==
    /\ At("compact", "start")
    /\ EndJob(TRUE)
    /\ UNCHANGED <<files, catalog, replacedBy, retiring, epoch, gate, commit, attempts, reader,
                   crashes, history>>

-----------------------------------------------------------------------------
(* Retention: PruneBefore.                                                 *)

\* Mutant of PruneMark: the pruned file is not written.
PruneUnmarked(id) ==
    /\ At("prune", "start")
    /\ Cardinality(task.ids) < MaxPrune
    /\ id \in catalog \ task.ids
    /\ \A r \in RowsIn(id) : commit[r] \in {"done", "failed"}
    /\ expiring' = expiring \cup RowsIn(id)
    /\ task' = [task EXCEPT !.ids = @ \cup {id}]
    /\ UNCHANGED <<files, memory, commit, attempts, reader, crashes, acked, fsynced, hidden>>

\* A candidate's directory is marked pruned, durably.  Its rows are older
\* than the retention period, so no commit of them is still under way.
PruneMark(id) ==
    /\ At("prune", "start")
    /\ Cardinality(task.ids) < MaxPrune
    /\ id \in catalog \ task.ids
    /\ \A r \in RowsIn(id) : commit[r] \in {"done", "failed"}
    /\ marked' = marked \cup {id}
    /\ expiring' = expiring \cup RowsIn(id)
    /\ task' = [task EXCEPT !.ids = @ \cup {id}]
    /\ UNCHANGED <<present, unsynced, lists, rows, stage, marker, savedMarker, memory,
                   commit, attempts, reader, crashes, acked, fsynced, hidden>>

\* Marked batches leave the catalog and are retired, under the gate; the
\* pass then looks for more.
PruneSwap ==
    /\ At("prune", "start")
    /\ task.ids # {}
    /\ gate = None
    /\ catalog' = catalog \ task.ids
    /\ hidden' = hidden \cup RowsOf(task.ids)
    /\ Retire(task.ids)
    /\ task' = [task EXCEPT !.ids = {}]
    /\ UNCHANGED <<files, phase, replacedBy, gate, commit, attempts, reader, crashes, acked, fsynced, expiring>>

\* Nothing is old enough, or the swap is refused: marked batches stay listed.
PruneNothing ==
    /\ At("prune", "start")
    /\ task.ids # {} => "pruneRefused" \in Faults
    /\ EndJob(task.ids = {})
    /\ UNCHANGED <<files, catalog, replacedBy, retiring, epoch, gate, commit, attempts, reader,
                   crashes, history>>

-----------------------------------------------------------------------------
(* Deletion: CollectRetired.                                               *)

CollectBegin ==
    /\ At("collect", "start")
    /\ task' = [task EXCEPT !.at = "removing", !.due = Due]
    /\ UNCHANGED <<files, memory, commit, attempts, reader, crashes, history>>

\* A retirement all of whose directories this pass has removed.
Removed(r) == r.ids \subseteq task.gone

\* Mutant of ListsReplaced: no removal waits for an earlier one to be durable.
ListsNothing(id) == FALSE

\* retire.go listsReplaced: an output whose replaces list is on record.
ListsReplaced(id) == \E i \in Ids : replacedBy[i] = id

\* Retirements go in publication order, and in one retirement a batch goes
\* after those it replaced.  Before an output goes, earlier removals are
\* made durable.  Its record is forgotten with it.
RemoveRetired(id) ==
    /\ At("collect", "removing")
    /\ \E r \in task.due :
          /\ id \in r.ids \ task.gone
          /\ \A s \in task.due : s.epoch < r.epoch => Removed(s)
          /\ id \in Outs => lists[id] \cap r.ids \subseteq task.gone
    /\ present' = present \ {id}
    /\ LET settled == IF task.dirty /\ ListsReplaced(id) THEN {} ELSE unsynced
       IN unsynced' = IF id \in present THEN settled \cup {id} ELSE settled
    /\ replacedBy' = [i \in Ids |-> IF replacedBy[i] = id THEN None ELSE replacedBy[i]]
    /\ task' = [task EXCEPT !.gone = @ \cup {id}, !.dirty = TRUE]
    /\ UNCHANGED <<marked, lists, rows, stage, marker, savedMarker, phase, catalog, retiring,
                   epoch, gate, commit, attempts, reader, crashes, history>>

\* The pass stops at its first failure, syncs if it removed anything, and
\* drops the retirements it finished, whether or not that sync succeeded.
CollectEnd(ok, synced) ==
    /\ IF ok THEN \A r \in task.due : Removed(r) ELSE "remove" \in Faults
    /\ synced \/ (task.dirty /\ "collectSync" \in Faults)
    /\ At("collect", "removing")
    /\ retiring' = {r \in retiring : r \notin task.due \/ ~Removed(r)}
    /\ unsynced' = IF synced /\ task.dirty THEN {} ELSE unsynced
    /\ EndJob(ok /\ synced)
    /\ UNCHANGED <<present, marked, lists, rows, stage, marker, savedMarker, catalog, replacedBy,
                   epoch, gate, commit, attempts, reader, crashes, history>>

-----------------------------------------------------------------------------
(* Crash and startup.                                                      *)

\* Power is lost: each unsynced entry is there or not, and so is the last
\* change of the marker.  An output whose rename is lost is back in its
\* stage, unless it vanished.  Callers of unfinished commits see an error.
Crash ==
    /\ crashes < MaxCrashes
    /\ crashes' = crashes + 1
    /\ \E kept \in SUBSET unsynced :
          /\ present' = (present \ unsynced) \cup kept
          /\ LET undone == {o \in (present \cap unsynced \cap Outs) \ kept :
                                 marker # None /\ o = marker.out}
             IN IF undone = {} THEN stage' = stage
                ELSE stage' \in undone \cup (IF "vanish" \in Faults THEN {None} ELSE {})
    /\ unsynced' = {}
    /\ marker' \in {marker, savedMarker}
    /\ savedMarker' = marker'
    /\ phase' = "down"
    /\ catalog' = {}
    /\ replacedBy' = [id \in Ids |-> None]
    /\ retiring' = {}
    /\ epoch' = 0
    /\ gate' = None
    /\ commit' = [r \in Raw |-> IF commit[r] # "done" /\ attempts[r] > 0 THEN "failed" ELSE commit[r]]
    /\ reader' = [q \in Readers |-> NoReader]
    /\ task' = NoTask
    /\ UNCHANGED <<marked, lists, rows, attempts, history>>

\* OpenParquetStore: the namespace is synced with the schema batch, then
\* loaded; what an output lists or retention marked is only retired.
OpenStore ==
    /\ phase = "down"
    /\ phase' = "opening"
    /\ unsynced' = {}
    /\ replacedBy' \in [Ids -> Outs \cup {None}]
    /\ \A id \in Ids :
          LET listers == {o \in present \cap Outs : id \in lists[o]}
          IN IF listers = {} THEN replacedBy'[id] = None ELSE replacedBy'[id] \in listers
    /\ catalog' = present \ RetiredAtLoad
    /\ retiring' = IF RetiredAtLoad = {} THEN {} ELSE {[epoch |-> 0, ids |-> RetiredAtLoad]}
    /\ epoch' = IF RetiredAtLoad = {} THEN 0 ELSE 1
    /\ task' = [NoTask EXCEPT !.pass = "open", !.job = "recover"]
    /\ UNCHANGED <<present, marked, lists, rows, stage, marker, savedMarker, gate, commit,
                   attempts, reader, crashes, history>>

-----------------------------------------------------------------------------
Init ==
    /\ present = {} /\ unsynced = {} /\ marked = {}
    /\ lists = [o \in Outs |-> {}]
    /\ rows = [o \in Outs |-> {}]
    /\ stage = None /\ marker = None /\ savedMarker = None
    /\ phase = "down"
    /\ catalog = {} /\ retiring = {} /\ epoch = 0 /\ gate = None
    /\ replacedBy = [id \in Ids |-> None]
    /\ commit = [r \in Raw |-> "idle"]
    /\ attempts = [r \in Raw |-> 0]
    /\ reader = [q \in Readers |-> NoReader]
    /\ task = NoTask
    /\ crashes = 0
    /\ acked = {} /\ fsynced = {} /\ expiring = {} /\ hidden = {}

Commits == \E r \in Raw :
    \/ CommitBegin(r) \/ CommitFail(r) \/ CommitPublish(r)
    \/ CommitSynced(r) \/ CommitSyncFail(r)

Reads == \E q \in Readers : Pin(q) \/ Capture(q) \/ Unpin(q)

Recover == RecoverNothing \/ RecoverResume \/ RecoverRestore \/ RecoverRefused

Replace ==
    \/ PublishReplacement \/ PublishUnsynced \/ PublishRefused
    \/ \E ok \in BOOLEAN : Unmark(ok)

Compact ==
    \/ \E S \in SUBSET catalog, o \in Outs : Merge(S, o)
    \/ MergeFail \/ CompactNothing
    \/ \E ok \in BOOLEAN : WriteMarker(ok)

Prune == PruneSwap \/ PruneNothing \/ \E id \in Ids : PruneMark(id)

Collect ==
    \/ CollectBegin
    \/ \E id \in Ids : RemoveRetired(id)
    \/ \E ok, synced \in BOOLEAN : CollectEnd(ok, synced)

Maintenance ==
    \/ \E pass \in {"hourly", "cycle"} : StartPass(pass)
    \/ Recover \/ Replace \/ Compact \/ Prune \/ Collect

Next == Commits \/ Reads \/ Maintenance \/ Crash \/ OpenStore

Spec == Init /\ [][Next]_vars

-----------------------------------------------------------------------------
(* Properties.                                                             *)

Retirements == [epoch : Nat, ids : SUBSET Ids]
Passes == {"none", "open", "hourly", "cycle"}
Jobs == {"none", "recover", "compact", "collect", "prune"}
Places == {"start", "publish", "unmark", "merged", "removing"}
Tasks == [pass : Passes, job : Jobs, at : Places, ids : SUBSET Ids,
          due : SUBSET Retirements, gone : SUBSET Ids, dirty : BOOLEAN]

\* Every variable keeps its shape.
TypeOK ==
    /\ present \subseteq Ids /\ unsynced \subseteq Ids /\ marked \subseteq Ids
    /\ lists \in [Outs -> SUBSET Ids]
    /\ rows \in [Outs -> SUBSET Raw]
    /\ stage \in Outs \cup {None}
    /\ marker \in Markers /\ savedMarker \in Markers
    /\ phase \in {"down", "opening", "serving"}
    /\ catalog \subseteq Ids
    /\ replacedBy \in [Ids -> Outs \cup {None}]
    /\ retiring \subseteq Retirements
    /\ epoch \in Nat
    /\ gate \in Raw \cup {None}
    /\ commit \in [Raw -> {"idle", "prepared", "syncing", "done", "failed"}]
    /\ attempts \in [Raw -> 0..MaxAttempts]
    /\ reader \in [Readers -> [at : {"idle", "pinned", "reading"}, epoch : Nat, snap : SUBSET Ids]]
    /\ task \in Tasks
    /\ crashes \in 0..MaxCrashes
    /\ acked \subseteq Raw /\ fsynced \subseteq acked
    /\ expiring \subseteq Raw /\ hidden \subseteq Raw

Visible == RowsOf(catalog)

\* A query names only files that exist: every batch of the catalog has its
\* directory, whatever collection, recovery and retention did.
CatalogOnDisk == phase = "serving" => catalog \subseteq present

\* No row is read twice: no two live batches hold rows of the same commit,
\* through retries, merges, rollbacks and restarts.
RowsCountedOnce ==
    phase = "serving" =>
        \A i, j \in catalog : i # j => RowsIn(i) \cap RowsIn(j) = {}

\* A pinned reader never loses an open input: every batch it captured keeps
\* its directory until it unpins, though compaction or retention retired it.
PinnedFilesExist == \A q \in Readers : reader[q].snap \subseteq present

\* An acknowledged batch is readable whenever the store serves, directly or
\* in a merged output, unless retention marked it.
AcknowledgedVisible == phase = "serving" => acked \ expiring \subseteq Visible

\* What retention removed never comes back, across crashes that interrupt
\* its deletion.
PrunedStaysHidden == phase = "serving" => hidden \cap Visible = {}

\* The documentation's promise (concepts/storage.mdx, "acknowledgement occurs
\* only after publication and parent-directory fsync complete"): acknowledged
\* rows sit in a directory whose place in the namespace is durable.  The code
\* does not keep it: a retry that finds its batch published by an attempt
\* whose fsync failed is acknowledged without one.
AcknowledgedDurable == acked \ expiring \subseteq RowsOf(present \ unsynced)

\* What the code keeps: rows acknowledged by an attempt that synced the
\* directory itself stay in a durable directory -- their own, then the
\* outputs' that replace it -- in every phase, through merges, publications
\* whose fsync fails, deletions, power losses and a startup refused for a
\* pending compaction, until retention marks them.
FsyncedStaysDurable == fsynced \ expiring \subseteq RowsOf(present \ unsynced)

\* No directory is orphaned: each one is live, awaits deletion, or is held
\* by an output the pending marker will retire it for.
NamespaceAccounted ==
    phase = "serving" => \A id \in present : Published(id)

\* The catalog, its files and their merges implement a plain table of rows,
\* read through the catalog while the store serves.
Table == INSTANCE TelemetryTable WITH
    serving <- phase = "serving",
    copies <- [r \in Raw |-> IF phase = "serving"
                             THEN Cardinality({id \in catalog : r \in RowsIn(id)}) ELSE 0]

ImplementsTable == Table!TableSpec

\* Directories compaction or retention retired are deleted in the end, once
\* the readers that captured them have left.
RetiredIsDeleted ==
    \A id \in Ids : id \in RetiringIds ~> (id \notin present \/ phase # "serving")

-----------------------------------------------------------------------------
(* Fairness: the maintenance loop's timers always fire again and its steps *)
(* finish; queries have deadlines; an fsync under the gate returns; and a  *)
(* publication whose fsync failed is retried by each pass, so one that is  *)
(* possible again and again succeeds in the end.                           *)

Fairness ==
    /\ WF_vars(Maintenance)
    /\ WF_vars(OpenStore)
    /\ SF_vars(PublishReplacement)
    /\ \A q \in Readers : WF_vars(Capture(q) \/ Unpin(q))
    /\ \A r \in Raw : WF_vars(CommitSynced(r) \/ CommitSyncFail(r))

FairSpec == Spec /\ Fairness

-----------------------------------------------------------------------------
\* For TLC: raw batches and readers are interchangeable, and so are output
\* IDs.  No definition names one of them, so it is sound for the invariants
\* and the table; the run of RetiredIsDeleted goes without it.
Symmetry == Permutations(Raw) \cup Permutations(Outs) \cup Permutations(Readers)

=============================================================================
