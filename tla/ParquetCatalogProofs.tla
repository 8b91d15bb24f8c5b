------------------------ MODULE ParquetCatalogProofs ------------------------
(***************************************************************************)
(* What the batch catalog promises for any number of batches, outputs,     *)
(* readers, attempts and crashes: the files a query captured exist until   *)
(* it leaves, no directory is orphaned, rows a commit synced stay durable, *)
(* no row is counted twice, answered rows are readable, what retention     *)
(* removed stays away, and the whole implements the plain table of         *)
(* TelemetryTable.  The first two rest on CatalogInv, the third on KeptInv *)
(* besides, the others on RowsInv and ViewInv.                             *)
(***************************************************************************)
EXTENDS ParquetCatalog, FiniteSetTheorems, TLAPS

\* The failures under which the promise about open files is kept: any, while
\* no power is lost.  After a power loss a marker that a failed root sync
\* brings back, and a rollback of inputs that retention had marked or that a
\* lost removal lists again, put a retired batch back into the catalog.
Tolerated ==
  \/ MaxCrashes = 0
  \/ /\ "rootSync" \notin Faults
     /\ "vanish" \in Faults => Faults \cap {"pruneRefused", "collectSync"} = {}

-----------------------------------------------------------------------------
(* The inductive invariant, part by part.                                  *)

Listed == UNION {lists[o] : o \in Outs}

\* IDs the store knows of in any way; the next merge takes another one.
Used == present \cup unsynced \cup catalog \cup marked \cup RetiringIds \cup Listed
          \cup (IF marker = None THEN {} ELSE {marker.out} \cup marker.inputs)

\* Where the maintenance thread can be, and what that says of the marker.
TaskInv ==
  /\ task.job # "none" => task.pass # "none"
  /\ task.pass = "open" <=> phase = "opening"
  /\ task.job # "none" /\ task.pass # "open" => phase = "serving"
  /\ task.job \in {"compact", "prune"} => task.pass # "open"
  /\ task.at \in {"publish", "unmark"} => marker # None /\ task.job \in {"recover", "compact"}
  /\ task.at = "publish" => OutputExists
  /\ task.at = "merged" => task.job = "compact" /\ stage \in Outs
  /\ task.at = "removing" <=> task.job = "collect" /\ task.at # "start"
  /\ task.at # "removing" => task.due = {}
  /\ task.job = "compact" /\ task.at \in {"start", "merged"} => marker = None
  /\ task.job = "prune" => marker = None /\ task.at = "start" /\ task.ids \subseteq catalog
  /\ task.job = "collect" /\ task.pass # "cycle" => marker = None

\* A commit under way was begun and belongs to a serving store, and so does
\* a reader.
ServingInv ==
  /\ \A r \in Raw : commit[r] # "idle" => attempts[r] > 0
  /\ phase # "serving" =>
       /\ \A q \in Readers : reader[q] = NoReader
       /\ \A r \in Raw : commit[r] \notin {"prepared", "syncing"}

\* An output is named once: every used one holds rows, a new merge's does not
\* collide.
FreshInv ==
  /\ \A o \in Outs : o \in Used => rows[o] # {}
  /\ task.at = "merged" =>
       stage \notin Used /\ rows[stage] # {} /\ task.ids \subseteq catalog

\* The pending compaction's output is nowhere but in its stage or its place.
MarkerInv ==
  /\ MaxCrashes # 0 => savedMarker = marker
  /\ marker # None =>
       /\ marker.out \notin RetiringIds \cup marked \cup Listed \cup marker.inputs
       /\ MaxCrashes # 0 /\ "vanish" \notin Faults => OutputExists
       /\ MaxCrashes = 0 =>
            phase = "serving" /\ (OutputExists \/ marker.inputs \subseteq catalog)

\* What is retired is not live, and what is live is on disk.
LiveInv == RetiringIds \cap catalog = {} /\ catalog \subseteq present

\* A retirement that holds a file some reader captured is no older than the
\* reader's pin.
ReaderInv ==
  \A q \in Readers :
    /\ reader[q].epoch <= epoch
    /\ reader[q].at # "reading" => reader[q].snap = {}
    /\ reader[q].snap \subseteq present
    /\ \A r \in retiring : r.ids \cap reader[q].snap # {} => reader[q].epoch <= r.epoch

\* A collection deletes retirements older than every pin.
DueInv ==
  /\ task.due \subseteq retiring
  /\ \A r \in task.due :
       /\ r.epoch < epoch
       /\ \A q \in Readers : reader[q].at # "idle" => r.epoch < reader[q].epoch

\* What a rollback needs when a rename may vanish: what the marker's inputs
\* hold is marked by nobody, and listed by nobody else.
MarkedOver == \A r \in Raw \cap marked : commit[r] \in {"done", "failed"}
MarksApart ==
  /\ marked \cap catalog \subseteq (IF task.job = "prune" THEN task.ids ELSE {})
  /\ marker # None => marker.inputs \cap marked = {}
Outputs == (present \cup unsynced) \cap Outs
ListsApart ==
  /\ \A o1, o2 \in Outputs : o1 # o2 => lists[o1] \cap lists[o2] = {}
  /\ \A o \in present \cap Outs : lists[o] \cap catalog = {}
  /\ phase # "down" =>
       \A o \in present \cap Outs : \A id \in lists[o] : replacedBy[id] = o
  /\ unsynced \subseteq present \/ (task.at = "removing" /\ task.dirty)
InputsApart ==
  marker # None =>
    /\ \A o \in Outputs \ {marker.out} : lists[o] \cap marker.inputs = {}
    /\ marker.out \in Outputs => lists[marker.out] = marker.inputs
    /\ ~OutputExists => marker.inputs \cap RetiringIds = {} /\ marker.out \notin unsynced
\* Every change of a list or a mark that a restart could meet is durable.
Ordered == Faults \cap {"rootSync", "collectSync"} = {}
RollbackInv ==
  /\ MarkedOver
  /\ "pruneRefused" \notin Faults => MarksApart
  /\ Ordered => ListsApart /\ InputsApart

\* Whatever has a directory is live, retired, or an input of the pending
\* compaction; what a collection has removed is still retired and is gone.
NamespaceInv ==
  /\ task.at # "removing" => task.gone = {}
  /\ task.gone \subseteq RetiringIds /\ task.gone \cap present = {}
  /\ phase # "down" =>
       \A id \in present :
         \/ id \in catalog \cup RetiringIds
         \/ marker # None /\ id \in marker.inputs /\ replacedBy[id] = marker.out
  /\ task.at = "unmark" => marker.inputs \cap present \subseteq catalog \cup RetiringIds

CatalogInv ==
  /\ TypeOK /\ TaskInv /\ ServingInv /\ FreshInv /\ MarkerInv /\ LiveInv
  /\ ReaderInv /\ DueInv /\ RollbackInv /\ NamespaceInv

-----------------------------------------------------------------------------
(* Types and the maintenance thread.                                       *)

\* What the end of a job leaves: the next job of the pass, at its start.
Ended(ok) ==
  /\ task' \in Tasks /\ task'.at = "start" /\ task'.ids = {} /\ task'.due = {}
  /\ task'.gone = {}
  /\ phase' = phase \/ (phase = "opening" /\ phase' \in {"down", "serving"})
  /\ task'.pass = "open" <=> phase' = "opening"
  /\ task'.job # "none" => task'.pass # "none" /\ task'.pass = task.pass /\ phase' = phase
  /\ task'.job \in {"compact", "prune"} => task'.pass # "open"
  /\ task'.job \notin {"recover"}
  /\ task'.job = "prune" => task.job = "collect" /\ task.pass = "hourly"
  /\ task'.job = "compact" => task.job = "prune" \/ (task.job = "recover" /\ ok)
  /\ task'.job = "collect" /\ task.pass # "cycle" => task.job = "recover" /\ ok

LEMMA NoTaskType == NoTask \in Tasks
  BY DEF NoTask, Tasks, Passes, Jobs, Places, Retirements

LEMMA JobEnds ==
  ASSUME TypeOK, TaskInv, task.job # "none", NEW ok \in BOOLEAN, EndJob(ok)
  PROVE  Ended(ok)
<1> DEFINE next == FollowingJob(task.pass, task.job, ok)
<1>t. /\ task \in Tasks /\ phase \in {"down", "opening", "serving"}
      /\ task.pass \in {"open", "hourly", "cycle"}
      /\ task.pass = "open" <=> phase = "opening"
  BY DEF TypeOK, TaskInv, Tasks, Passes, Jobs, Places
<1>1. /\ next \in {"none", "collect", "prune", "compact"}
      /\ next = "prune" => task.job = "collect" /\ task.pass = "hourly"
      /\ next = "compact" => /\ task.job = "prune" \/ (task.job = "recover" /\ ok)
                             /\ task.pass # "open"
      /\ next = "collect" /\ task.pass = "hourly" => task.job = "recover" /\ ok
      /\ next = "collect" /\ task.pass = "open" => task.job = "recover"
  BY <1>t DEF FollowingJob
<1> DEFINE then == [NoTask EXCEPT !.pass = task.pass, !.job = next]
<1>2. /\ then \in Tasks /\ then.at = "start" /\ then.ids = {} /\ then.due = {} /\ then.gone = {}
      /\ then.pass = task.pass /\ then.job = next
  BY <1>1, <1>t DEF NoTask, Tasks, Passes, Jobs, Places, Retirements
<1>3. /\ NoTask \in Tasks /\ NoTask.at = "start" /\ NoTask.ids = {} /\ NoTask.due = {}
      /\ NoTask.gone = {}
      /\ NoTask.pass = "none" /\ NoTask.job = "none"
  BY NoTaskType DEF NoTask
<1>4. IF task.pass = "open" /\ ~ok
      THEN phase' = "down" /\ task' = NoTask
      ELSE /\ phase' = IF task.pass = "open" /\ next = "none" THEN "serving" ELSE phase
           /\ task' = IF next = "none" THEN NoTask ELSE then
  BY DEF EndJob
<1> HIDE DEF next, then
<1> QED  BY <1>1, <1>2, <1>3, <1>4, <1>t DEF Ended

LEMMA TypeParts ==
  TypeOK => /\ task \in Tasks /\ task.ids \subseteq Ids /\ task.due \subseteq Retirements
            /\ task.gone \subseteq Ids
            /\ \A r \in retiring : r.epoch \in Nat /\ r.ids \subseteq Ids
            /\ \A q \in Readers : reader[q].epoch \in Nat /\ reader[q].snap \subseteq Ids
            /\ \A id \in Ids : RowsIn(id) \subseteq Raw
  BY DEF TypeOK, Tasks, Passes, Jobs, Places, Retirements, RowsIn, Ids

LEMMA RetireType ==
  ASSUME TypeOK, NEW S, S \subseteq Ids, Retire(S)
  PROVE  retiring' \subseteq Retirements /\ epoch' \in Nat
<1>1. [epoch |-> epoch, ids |-> S] \in Retirements /\ epoch \in Nat
      /\ retiring \subseteq Retirements
  BY DEF TypeOK, Retirements
<1> QED  BY <1>1 DEF Retire

LEMMA SwapType ==
  ASSUME TypeOK, marker # None, SwapReplacement
  PROVE  /\ present' \subseteq Ids /\ lists' \in [Outs -> SUBSET Ids]
         /\ stage' \in Outs \cup {None} /\ catalog' \subseteq Ids
         /\ replacedBy' \in [Ids -> Outs \cup {None}]
         /\ marker.out \in Outs /\ marker.inputs \subseteq Ids
<1>1. /\ marker.out \in Outs /\ marker.inputs \subseteq Ids /\ marker.out \in Ids
      /\ present \subseteq Ids /\ catalog \subseteq Ids /\ lists \in [Outs -> SUBSET Ids]
      /\ stage \in Outs \cup {None} /\ replacedBy \in [Ids -> Outs \cup {None}]
  BY DEF TypeOK, Markers, Ids
<1> QED  BY <1>1 DEF SwapReplacement

LEMMA NextType ==
  ASSUME TypeOK, TaskInv, [Next]_vars
  PROVE  TypeOK'
<1> USE TypeParts
<1>e. \A ok \in BOOLEAN :
        task.job # "none" /\ EndJob(ok)
          => /\ task' \in Tasks
             /\ phase' \in {"down", "opening", "serving"}
  BY JobEnds DEF Ended, TypeOK
<1>p. \A S \in SUBSET Ids : RowsOf(S) \subseteq Raw
  BY DEF RowsOf
<1>n. NoTask \in Tasks
  BY NoTaskType
<1>1. ASSUME NEW r \in Raw,
             \/ CommitBegin(r) \/ CommitFail(r) \/ CommitPublish(r)
             \/ CommitSynced(r) \/ CommitSyncFail(r)
      PROVE  TypeOK'
  <2>0. r \in Ids /\ AttemptOver(r) \in {"idle", "failed"}
    BY DEF Ids, AttemptOver
  <2>1. CASE CommitBegin(r)
    <3>1. attempts[r] \in Nat /\ attempts[r] + 1 \in 0..MaxAttempts
      BY <2>1, CatalogAssumption DEF CommitBegin, AttemptsLeft, TypeOK
    <3>2. attempts' \in [Raw -> 0..MaxAttempts]
      BY <2>1, <3>1 DEF CommitBegin, TypeOK
    <3>3. /\ commit' \in [Raw -> {"idle", "prepared", "syncing", "done", "failed"}]
          /\ acked' \subseteq Raw
      BY <2>1 DEF CommitBegin, TypeOK
    <3> QED  BY <2>1, <3>2, <3>3 DEF CommitBegin, TypeOK, files, memory
  <2>2. CASE CommitFail(r)
    BY <2>2, <2>0 DEF CommitFail, TypeOK, files, memory, history
  <2>3. CASE CommitPublish(r)
    BY <2>3, <2>0 DEF CommitPublish, TypeOK
  <2>4. CASE CommitSynced(r)
    BY <2>4, <2>0 DEF CommitSynced, TypeOK
  <2>5. CASE CommitSyncFail(r)
    BY <2>5, <2>0 DEF CommitSyncFail, TypeOK, files, history
  <2> QED  BY <1>1, <2>1, <2>2, <2>3, <2>4, <2>5
<1>2. ASSUME Reads PROVE TypeOK'
  BY <1>2 DEF Reads, Pin, Capture, Unpin, NoReader, TypeOK, files, memory, history
<1>3. ASSUME NEW pass \in {"hourly", "cycle"}, StartPass(pass) PROVE TypeOK'
  <2>1. task' \in Tasks
    BY <1>3, <1>n DEF StartPass, Tasks, Passes, Jobs
  <2> QED  BY <1>3, <2>1 DEF StartPass, TypeOK, files, memory, history
<1>4. ASSUME Recover PROVE TypeOK'
  <2>1. CASE RecoverNothing
    <3>1. task.job # "none" /\ EndJob(TRUE)
      BY <2>1 DEF RecoverNothing, At
    <3>2. stage' \in Outs \cup {None} /\ savedMarker' \in Markers
      BY <2>1 DEF RecoverNothing, TypeOK
    <3>3. task' \in Tasks /\ phase' \in {"down", "opening", "serving"}
      BY <3>1, <1>e
    <3> QED  BY <2>1, <3>2, <3>3 DEF RecoverNothing, TypeOK, history
  <2>2. CASE RecoverResume
    <3>1. task' \in Tasks
      BY <2>2 DEF RecoverResume, Tasks, Places
    <3> QED  BY <2>2, <3>1 DEF RecoverResume, TypeOK, files, memory, history
  <2>3. CASE RecoverRestore
    <3>1. task' \in Tasks
      BY <2>3 DEF RecoverRestore, Tasks, Places
    <3> QED  BY <2>3, <3>1 DEF RecoverRestore, TypeOK, Markers, files, history
  <2>4. CASE RecoverRefused
    BY <2>4, <1>e DEF RecoverRefused, At, TypeOK, files, history
  <2> QED  BY <1>4, <2>1, <2>2, <2>3, <2>4 DEF Recover
<1>5. ASSUME Replace PROVE TypeOK'
  <2>1. CASE PublishReplacement
    <3>1. marker # None
      BY <2>1 DEF PublishReplacement, TaskInv
    <3>2. retiring' \subseteq Retirements /\ epoch' \in Nat
      BY <2>1, <3>1, SwapType, RetireType DEF PublishReplacement
    <3>3. task' \in Tasks
      BY <2>1 DEF PublishReplacement, Tasks, Places
    <3> QED  BY <2>1, <3>1, <3>2, <3>3, SwapType
             DEF PublishReplacement, SwapReplacement, TypeOK, history
  <2>2. CASE PublishUnsynced
    <3>1. marker # None /\ task.job # "none"
      BY <2>2 DEF PublishUnsynced, TaskInv
    <3>2. task' \in Tasks /\ phase' \in {"down", "opening", "serving"}
      BY <2>2, <3>1, <1>e DEF PublishUnsynced
    <3>3. unsynced' \subseteq Ids
      BY <2>2, <3>1, SwapType DEF PublishUnsynced, TypeOK, Ids
    <3> QED  BY <2>2, <3>1, <3>2, <3>3, SwapType
             DEF PublishUnsynced, SwapReplacement, TypeOK, history
  <2>3. CASE PublishRefused
    BY <2>3, <1>e DEF PublishRefused, TaskInv, TypeOK, files, history
  <2>4. ASSUME NEW ok \in BOOLEAN, Unmark(ok) PROVE TypeOK'
    <3>1. task' \in Tasks /\ phase' \in {"down", "opening", "serving"}
      <4>1. [NoTask EXCEPT !.pass = task.pass, !.job = task.job] \in Tasks
        BY <1>n DEF Tasks
      <4> QED  BY <2>4, <4>1, <1>e DEF Unmark, TaskInv, TypeOK
    <3>2. marker' \in Markers /\ savedMarker' \in Markers
      BY <2>4 DEF Unmark, TypeOK, Markers
    <3> QED  BY <2>4, <3>1, <3>2 DEF Unmark, TypeOK, history
  <2> QED  BY <1>5, <2>1, <2>2, <2>3, <2>4 DEF Replace
<1>6. ASSUME Compact PROVE TypeOK'
  <2>1. ASSUME NEW S \in SUBSET catalog, NEW o \in Outs, Merge(S, o) PROVE TypeOK'
    <3>1. task' \in Tasks
      BY <2>1 DEF Merge, Tasks, Places, TypeOK
    <3>2. rows' \in [Outs -> SUBSET Raw] /\ stage' \in Outs \cup {None}
      BY <2>1, <1>p DEF Merge, TypeOK
    <3> QED  BY <2>1, <3>1, <3>2 DEF Merge, TypeOK, memory, history
  <2>2. CASE MergeFail
    BY <2>2, <1>e DEF MergeFail, At, TypeOK, history
  <2>3. CASE CompactNothing
    BY <2>3, <1>e DEF CompactNothing, At, TypeOK, files, history
  <2>4. ASSUME NEW ok \in BOOLEAN, WriteMarker(ok) PROVE TypeOK'
    <3>1. task' \in Tasks /\ phase' \in {"down", "opening", "serving"}
      <4>1. [task EXCEPT !.at = "publish"] \in Tasks
        BY DEF Tasks, Places
      <4> QED  BY <2>4, <4>1, <1>e DEF WriteMarker, At, TypeOK
    <3>2. marker' \in Markers /\ savedMarker' \in Markers /\ stage' \in Outs \cup {None}
      BY <2>4 DEF WriteMarker, At, TaskInv, TypeOK, Markers
    <3> QED  BY <2>4, <3>1, <3>2 DEF WriteMarker, TypeOK, history
  <2> QED  BY <1>6, <2>1, <2>2, <2>3, <2>4 DEF Compact
<1>7. ASSUME Prune PROVE TypeOK'
  <2>1. CASE PruneSwap
    <3>1. retiring' \subseteq Retirements /\ epoch' \in Nat /\ RowsOf(task.ids) \subseteq Raw
      BY <2>1, <1>p, RetireType DEF PruneSwap
    <3>2. task' \in Tasks
      BY <2>1 DEF PruneSwap, Tasks
    <3> QED  BY <2>1, <3>1, <3>2 DEF PruneSwap, TypeOK, files
  <2>2. CASE PruneNothing
    BY <2>2, <1>e DEF PruneNothing, At, TypeOK, files, history
  <2>3. ASSUME NEW id \in Ids, PruneMark(id) PROVE TypeOK'
    <3>1. task' \in Tasks
      BY <2>3 DEF PruneMark, Tasks
    <3>2. marked' \subseteq Ids /\ expiring' \subseteq Raw
      BY <2>3 DEF PruneMark, TypeOK
    <3> QED  BY <2>3, <3>1, <3>2 DEF PruneMark, TypeOK, memory
  <2> QED  BY <1>7, <2>1, <2>2, <2>3 DEF Prune
<1>8. ASSUME Collect PROVE TypeOK'
  <2>1. CASE CollectBegin
    <3>1. task' \in Tasks
      BY <2>1 DEF CollectBegin, Due, Tasks, Places, TypeOK
    <3> QED  BY <2>1, <3>1 DEF CollectBegin, TypeOK, files, memory, history
  <2>2. ASSUME NEW id \in Ids, RemoveRetired(id) PROVE TypeOK'
    <3>1. task' \in Tasks
      BY <2>2 DEF RemoveRetired, Tasks
    <3>2. /\ present' \subseteq Ids /\ unsynced' \subseteq Ids
          /\ replacedBy' \in [Ids -> Outs \cup {None}]
      BY <2>2 DEF RemoveRetired, TypeOK
    <3> QED  BY <2>2, <3>1, <3>2 DEF RemoveRetired, TypeOK, history
  <2>3. ASSUME NEW ok \in BOOLEAN, NEW synced \in BOOLEAN, CollectEnd(ok, synced) PROVE TypeOK'
    <3>1. (ok /\ synced) \in BOOLEAN  OBVIOUS
    <3> QED  BY <2>3, <3>1, <1>e DEF CollectEnd, At, TypeOK, history
  <2> QED  BY <1>8, <2>1, <2>2, <2>3 DEF Collect
<1>9. ASSUME Crash PROVE TypeOK'
  <2>1. /\ present' \subseteq Ids /\ unsynced' \subseteq Ids
        /\ stage' \in Outs \cup {None}
    BY <1>9 DEF Crash, TypeOK
  <2>2. crashes' \in 0..MaxCrashes
    BY <1>9, CatalogAssumption DEF Crash, TypeOK
  <2>3. /\ catalog' \subseteq Ids /\ replacedBy' \in [Ids -> Outs \cup {None}]
        /\ retiring' \subseteq Retirements /\ epoch' \in Nat /\ gate' \in Raw \cup {None}
        /\ commit' \in [Raw -> {"idle", "prepared", "syncing", "done", "failed"}]
        /\ phase' \in {"down", "opening", "serving"}
    BY <1>9 DEF Crash, TypeOK
  <2>4. reader' \in [Readers -> [at : {"idle", "pinned", "reading"}, epoch : Nat, snap : SUBSET Ids]]
    BY <1>9 DEF Crash, NoReader
  <2>5. task' \in Tasks /\ marker' \in Markers /\ savedMarker' \in Markers
    BY <1>9, <1>n DEF Crash, TypeOK
  <2> QED  BY <1>9, <2>1, <2>2, <2>3, <2>4, <2>5 DEF Crash, TypeOK, history
<1>10. ASSUME OpenStore PROVE TypeOK'
  <2>1. RetiredAtLoad \subseteq Ids /\ [epoch |-> 0, ids |-> RetiredAtLoad] \in Retirements
    BY DEF RetiredAtLoad, Retirements, TypeOK
  <2>2. retiring' \subseteq Retirements /\ epoch' \in Nat
    BY <1>10, <2>1 DEF OpenStore
  <2>3. task' \in Tasks
    BY <1>10, <1>n DEF OpenStore, Tasks, Passes, Jobs
  <2>4. catalog' \subseteq Ids /\ unsynced' \subseteq Ids
    BY <1>10 DEF OpenStore, TypeOK
  <2> QED  BY <1>10, <2>2, <2>3, <2>4
           DEF OpenStore, TypeOK, history
<1>11. ASSUME UNCHANGED vars PROVE TypeOK'
  BY <1>11 DEF vars, files, memory, history, TypeOK
<1> QED  BY <1>1, <1>2, <1>3, <1>4, <1>5, <1>6, <1>7, <1>8, <1>9, <1>10, <1>11
         DEF Next, Maintenance, Commits

(* A commit or a reader leaves the maintenance thread where it is.         *)
LEMMA OthersStayOut ==
  ASSUME Commits \/ Reads
  PROVE  /\ UNCHANGED <<task, phase, marker, savedMarker, stage, marked, lists, rows,
                        replacedBy, retiring, epoch>>
         /\ catalog \subseteq catalog' /\ present \subseteq present'
  BY DEF Commits, CommitBegin, CommitFail, CommitPublish, CommitSynced, CommitSyncFail,
         Reads, Pin, Capture, Unpin, files, memory

(* Whatever ends a job leaves the thread at the start of the next one, and *)
(* only a recovery that found no marker lets a compaction, a pruning or a  *)
(* collection of the hourly pass follow.                                   *)
LEMMA TaskAfterJob ==
  ASSUME TypeOK, TaskInv, task.job # "none", NEW ok \in BOOLEAN, EndJob(ok),
         marker = None => marker' = None,
         task.job = "recover" /\ ok => marker = None
  PROVE  TaskInv'
<1>1. Ended(ok) /\ task.pass # "none"
  BY JobEnds DEF TaskInv
<1>2. task'.job \in Jobs /\ task.pass \in Passes
  BY <1>1 DEF Ended, Tasks, TypeOK
<1>3. task'.job \in {"compact", "prune"} => marker' = None
  BY <1>1 DEF Ended, TaskInv
<1>4. task'.job = "collect" /\ task'.pass # "cycle" => marker' = None
  BY <1>1 DEF Ended, TaskInv
<1>5. task'.at = "start" /\ task'.ids = {} /\ task'.due = {}
  BY <1>1 DEF Ended
<1> QED  BY <1>1, <1>3, <1>4, <1>5 DEF Ended, TaskInv

LEMMA NextTask ==
  ASSUME TypeOK, TaskInv, [Next]_vars
  PROVE  TaskInv'
<1>1. ASSUME Commits \/ Reads PROVE TaskInv'
  BY <1>1, OthersStayOut DEF TaskInv, OutputExists
<1>2. ASSUME NEW pass \in {"hourly", "cycle"}, StartPass(pass) PROVE TaskInv'
  BY <1>2 DEF StartPass, NoTask, TaskInv, files, memory
<1>3. ASSUME Recover PROVE TaskInv'
  <2>1. CASE RecoverNothing
    BY <2>1, TaskAfterJob DEF RecoverNothing, At
  <2>2. CASE RecoverResume
    BY <2>2 DEF RecoverResume, At, TaskInv, OutputExists, files, memory, TypeOK, Tasks
  <2>3. CASE RecoverRestore
    BY <2>3 DEF RecoverRestore, At, TaskInv, files, TypeOK, Tasks
  <2>4. CASE RecoverRefused
    BY <2>4, TaskAfterJob DEF RecoverRefused, At, files
  <2> QED  BY <1>3, <2>1, <2>2, <2>3, <2>4 DEF Recover
<1>4. ASSUME Replace PROVE TaskInv'
  <2>0. SwapReplacement => marker' = marker
    BY DEF SwapReplacement
  <2>1. CASE PublishReplacement
    BY <2>1, <2>0 DEF PublishReplacement, TaskInv, TypeOK, Tasks
  <2>2. CASE PublishUnsynced
    <3>1. task.job # "none" /\ EndJob(FALSE)
      BY <2>2 DEF PublishUnsynced, TaskInv
    <3> QED  BY <2>2, <3>1, <2>0, TaskAfterJob DEF PublishUnsynced
  <2>3. CASE PublishRefused
    <3>1. task.job # "none" /\ EndJob(FALSE)
      BY <2>3 DEF PublishRefused, TaskInv
    <3> QED  BY <2>3, <3>1, TaskAfterJob DEF PublishRefused, files
  <2>4. CASE Unmark(TRUE)
    BY <2>4 DEF Unmark, TaskInv, NoTask, TypeOK, Tasks
  <2>5. CASE Unmark(FALSE)
    <3>1. task.job # "none" /\ EndJob(FALSE) /\ marker' = None
      BY <2>5 DEF Unmark, TaskInv
    <3> QED  BY <3>1, TaskAfterJob
  <2> QED  BY <1>4, <2>1, <2>2, <2>3, <2>4, <2>5 DEF Replace
<1>5. ASSUME Compact PROVE TaskInv'
  <2>1. ASSUME NEW S \in SUBSET catalog, NEW o \in Outs, Merge(S, o) PROVE TaskInv'
    BY <2>1 DEF Merge, At, TaskInv, memory, TypeOK, Tasks
  <2>2. CASE MergeFail
    BY <2>2, TaskAfterJob DEF MergeFail, At
  <2>3. CASE CompactNothing
    BY <2>3, TaskAfterJob DEF CompactNothing, At, files
  <2>4. CASE WriteMarker(TRUE)
    <3>1. /\ task' = [task EXCEPT !.at = "publish"] /\ task.job = "compact"
          /\ UNCHANGED <<phase, present, stage, catalog>>
          /\ marker' = [out |-> stage, inputs |-> task.ids]
      BY <2>4 DEF WriteMarker, At
    <3>2. marker' # None
      <4>1. [out |-> stage, inputs |-> task.ids] \in [out : Outs, inputs : SUBSET (Raw \cup Outs)]
        BY <2>4, TypeParts DEF WriteMarker, At, TaskInv, Ids
      <4> QED  BY <3>1, <4>1, CatalogAssumption
    <3> QED  BY <3>1, <3>2 DEF TaskInv, OutputExists, TypeOK, Tasks
  <2>5. CASE WriteMarker(FALSE)
    <3>1. task.job = "compact" /\ EndJob(FALSE)
      BY <2>5 DEF WriteMarker, At
    <3>2. Ended(FALSE) /\ task.pass # "open"
      BY <3>1, JobEnds DEF TaskInv
    <3> QED  BY <3>1, <3>2 DEF Ended, TaskInv
  <2> QED  BY <1>5, <2>1, <2>2, <2>3, <2>4, <2>5 DEF Compact
<1>6. ASSUME Prune PROVE TaskInv'
  <2>1. CASE PruneSwap
    BY <2>1 DEF PruneSwap, At, TaskInv, files, TypeOK, Tasks
  <2>2. CASE PruneNothing
    <3>1. task.job # "none" /\ task.job # "recover" /\ EndJob(task.ids = {})
      BY <2>2 DEF PruneNothing, At
    <3> QED  BY <2>2, <3>1, TaskAfterJob DEF PruneNothing, files
  <2>3. ASSUME NEW id \in Ids, PruneMark(id) PROVE TaskInv'
    BY <2>3 DEF PruneMark, At, TaskInv, memory, TypeOK, Tasks
  <2> QED  BY <1>6, <2>1, <2>2, <2>3 DEF Prune
<1>7. ASSUME Collect PROVE TaskInv'
  <2>1. CASE CollectBegin
    BY <2>1 DEF CollectBegin, At, TaskInv, files, memory, TypeOK, Tasks
  <2>2. ASSUME NEW id \in Ids, RemoveRetired(id) PROVE TaskInv'
    BY <2>2 DEF RemoveRetired, At, TaskInv, TypeOK, Tasks
  <2>3. ASSUME NEW ok \in BOOLEAN, NEW synced \in BOOLEAN, CollectEnd(ok, synced) PROVE TaskInv'
    <3>1. task.job # "none" /\ task.job # "recover" /\ EndJob(ok /\ synced) /\ marker' = marker
      BY <2>3 DEF CollectEnd, At
    <3>2. (ok /\ synced) \in BOOLEAN  OBVIOUS
    <3> QED  BY <3>1, <3>2, TaskAfterJob
  <2> QED  BY <1>7, <2>1, <2>2, <2>3 DEF Collect
<1>8. ASSUME Crash PROVE TaskInv'
  BY <1>8 DEF Crash, NoTask, TaskInv
<1>9. ASSUME OpenStore PROVE TaskInv'
  BY <1>9 DEF OpenStore, NoTask, TaskInv
<1>10. ASSUME UNCHANGED vars PROVE TaskInv'
  BY <1>10 DEF vars, files, memory, TaskInv, OutputExists
<1> QED  BY <1>1, <1>2, <1>3, <1>4, <1>5, <1>6, <1>7, <1>8, <1>9, <1>10 DEF Next, Maintenance

(* The maintenance thread touches neither readers nor commits, and never   *)
(* ends the service.                                                       *)
LEMMA MaintenanceFrame ==
  ASSUME TypeOK, TaskInv, Maintenance
  PROVE  UNCHANGED <<reader, commit, attempts>> /\ (phase = "serving" => phase' = "serving")
<1>1. \A ok \in BOOLEAN :
        task.job # "none" /\ EndJob(ok) => (phase = "serving" => phase' = "serving")
  BY JobEnds DEF Ended
<1>2. CASE \E pass \in {"hourly", "cycle"} : StartPass(pass)
  BY <1>2 DEF StartPass, memory
<1>3. CASE Recover
  BY <1>3, <1>1 DEF Recover, RecoverNothing, RecoverResume, RecoverRestore, RecoverRefused,
                    At, memory
<1>4. CASE Replace
  <2>1. task.job # "none"  BY <1>4 DEF Replace, PublishReplacement, PublishUnsynced,
                               PublishRefused, Unmark, TaskInv
  <2> QED  BY <1>4, <2>1, <1>1 DEF Replace, PublishReplacement, PublishUnsynced,
               PublishRefused, Unmark, SwapReplacement
<1>5. CASE Compact
  BY <1>5, <1>1 DEF Compact, Merge, MergeFail, CompactNothing, WriteMarker, At, memory
<1>6. CASE Prune
  BY <1>6, <1>1 DEF Prune, PruneSwap, PruneNothing, PruneMark, At, memory
<1>7. CASE Collect
  <2>1. \A ok, synced \in BOOLEAN : (ok /\ synced) \in BOOLEAN  OBVIOUS
  <2> QED  BY <1>7, <2>1, <1>1 DEF Collect, CollectBegin, RemoveRetired, CollectEnd, At, memory
<1> QED  BY <1>2, <1>3, <1>4, <1>5, <1>6, <1>7 DEF Maintenance

LEMMA NextServing ==
  ASSUME TypeOK, TaskInv, ServingInv, [Next]_vars
  PROVE  ServingInv'
<1>t. \A r \in Raw : attempts[r] \in Nat
  BY DEF TypeOK
<1>1. ASSUME NEW r \in Raw,
             \/ CommitBegin(r) \/ CommitFail(r) \/ CommitPublish(r)
             \/ CommitSynced(r) \/ CommitSyncFail(r)
      PROVE  ServingInv'
  <2>1. phase' = phase /\ reader' = reader
    BY <1>1, OthersStayOut DEF Commits, CommitBegin, CommitFail, CommitPublish, CommitSynced,
          CommitSyncFail
  <2>2. /\ commit[r] # "idle" => attempts[r] > 0
        /\ phase # "serving" => commit[r] \notin {"prepared", "syncing"}
    BY DEF ServingInv
  <2>3. CASE CommitBegin(r)
    <3>1. attempts' = [attempts EXCEPT ![r] = @ + 1] /\ phase = "serving"
      BY <2>3 DEF CommitBegin
    <3>2. attempts'[r] > 0 /\ \A s \in Raw \ {r} : attempts'[s] = attempts[s]
      BY <3>1, <1>t DEF TypeOK
    <3>3. \A s \in Raw \ {r} : commit'[s] = commit[s]
      BY <2>3 DEF CommitBegin, TypeOK
    <3> QED  BY <3>1, <3>2, <3>3, <2>1 DEF ServingInv
  <2>4. CASE ~CommitBegin(r)
    <3>1. /\ attempts' = attempts /\ commit[r] \in {"prepared", "syncing"}
          /\ \A s \in Raw \ {r} : commit'[s] = commit[s]
      BY <1>1, <2>4 DEF CommitFail, CommitPublish, CommitSynced, CommitSyncFail, TypeOK
    <3> QED  BY <3>1, <2>1, <2>2 DEF ServingInv
  <2> QED  BY <2>3, <2>4
<1>2. CASE Reads
  BY <1>2 DEF Reads, Pin, Capture, Unpin, NoReader, ServingInv, memory
<1>3. CASE Maintenance
  BY <1>3, MaintenanceFrame DEF ServingInv
<1>4. CASE Crash
  <2>1. \A r \in Raw : commit'[r] = IF commit[r] # "done" /\ attempts[r] > 0
                                     THEN "failed" ELSE commit[r]
    BY <1>4 DEF Crash
  <2> QED  BY <1>4, <2>1 DEF Crash, ServingInv
<1>5. CASE OpenStore
  BY <1>5 DEF OpenStore, ServingInv
<1>6. CASE UNCHANGED vars
  BY <1>6 DEF vars, memory, ServingInv
<1> QED  BY <1>1, <1>2, <1>3, <1>4, <1>5, <1>6 DEF Next, Commits

-----------------------------------------------------------------------------
(* Names in use.                                                           *)

LEMMA RetireIds ==
  ASSUME NEW S, Retire(S)
  PROVE  RetiringIds' = RetiringIds \cup S
<1>1. CASE S = {}
  BY <1>1 DEF Retire, RetiringIds
<1>2. CASE S # {}
  <2> DEFINE new == [epoch |-> epoch, ids |-> S]
  <2>1. retiring' = retiring \cup {new} /\ new.ids = S
    BY <1>2 DEF Retire
  <2> HIDE DEF new
  <2>2. \A id : id \in RetiringIds' <=> \E r \in retiring \cup {new} : id \in r.ids
    BY <2>1 DEF RetiringIds
  <2>3. \A id : id \in RetiringIds <=> \E r \in retiring : id \in r.ids
    BY DEF RetiringIds
  <2> QED  BY <2>1, <2>2, <2>3
<1> QED  BY <1>1, <1>2

LEMMA UsedByRunning ==
  ASSUME marker # None
  PROVE  marker.out \in Used /\ marker.inputs \subseteq Used
  BY DEF Used

\* Commits that have renamed their batch into the namespace.
Renamed == {r \in Raw : commit[r] = "syncing"}

(* Apart from a batch the writer commits and the output of the merge whose *)
(* marker is written, no step names anything new.                          *)
LEMMA UsedGrows ==
  ASSUME TypeOK, TaskInv, MarkerInv, DueInv, [Next]_vars,
         \A ok \in BOOLEAN : ~WriteMarker(ok)
  PROVE  Used' \subseteq Used \cup Renamed' /\ Renamed' \subseteq Raw
<1> USE TypeParts
<1>l. lists' = lists => Listed' = Listed
  BY DEF Listed
<1>r. retiring' = retiring => RetiringIds' = RetiringIds
  BY DEF RetiringIds
<1>s. Crash => savedMarker = marker
  BY CatalogAssumption DEF Crash, MarkerInv, TypeOK
<1>1. ASSUME Commits PROVE Used' \subseteq Used \cup Renamed'
  <2>1. \A r \in Raw : CommitPublish(r) /\ present' # present => r \in Renamed'
    BY DEF CommitPublish, Renamed, TypeOK
  <2>2. \A r \in Raw : CommitPublish(r) /\ present' = present => Used' \subseteq Used \cup Renamed'
    BY <1>l, <1>r DEF CommitPublish, Renamed, TypeOK, Used
  <2> QED  BY <1>1, <2>1, <2>2, <1>l, <1>r DEF Commits, CommitBegin, CommitFail, CommitPublish,
       CommitSynced, CommitSyncFail, files, memory, Used
<1>2. ASSUME Reads PROVE Used' \subseteq Used
  BY <1>2, <1>l, <1>r DEF Reads, Pin, Capture, Unpin, files, memory, Used
<1>3. ASSUME NEW pass \in {"hourly", "cycle"}, StartPass(pass) PROVE Used' \subseteq Used
  BY <1>3, <1>l, <1>r DEF StartPass, files, memory, Used
<1>4. ASSUME Recover PROVE Used' \subseteq Used
  BY <1>4, <1>l, <1>r DEF Recover, RecoverNothing, RecoverResume, RecoverRestore,
       RecoverRefused, files, memory, Used
<1>5. ASSUME Replace PROVE Used' \subseteq Used
  <2>1. CASE PublishReplacement \/ PublishUnsynced
    <3>1. marker # None /\ marker' = marker /\ marked' = marked
      BY <2>1 DEF PublishReplacement, PublishUnsynced, SwapReplacement, TaskInv
    <3>2. marker.out \in Used /\ marker.inputs \subseteq Used
      BY <3>1, UsedByRunning
    <3>3. /\ present' \subseteq present \cup {marker.out}
          /\ catalog' \subseteq catalog \cup {marker.out}
          /\ unsynced' \subseteq unsynced \cup {marker.out}
      BY <2>1 DEF PublishReplacement, PublishUnsynced, SwapReplacement
    <3>4. Listed' \subseteq Listed \cup marker.inputs
      <4>1. \A o \in Outs : lists'[o] \subseteq lists[o] \cup marker.inputs
        BY <2>1 DEF PublishReplacement, PublishUnsynced, SwapReplacement, TypeOK
      <4> QED  BY <4>1 DEF Listed
    <3>5. RetiringIds' \subseteq RetiringIds \cup marker.inputs
      <4>1. Retire(marker.inputs \cap (catalog \cup present))
              => RetiringIds' = RetiringIds \cup (marker.inputs \cap (catalog \cup present))
        BY RetireIds
      <4> QED  BY <2>1, <4>1, <1>r DEF PublishReplacement, PublishUnsynced
    <3> QED  BY <3>1, <3>2, <3>3, <3>4, <3>5 DEF Used
  <2>2. CASE PublishRefused
    BY <2>2, <1>l, <1>r DEF PublishRefused, files, Used
  <2>3. ASSUME NEW ok \in BOOLEAN, Unmark(ok) PROVE Used' \subseteq Used
    BY <2>3, <1>l, <1>r DEF Unmark, Used
  <2> QED  BY <1>5, <2>1, <2>2, <2>3 DEF Replace
<1>6. ASSUME Compact PROVE Used' \subseteq Used
  BY <1>6, <1>l, <1>r DEF Compact, Merge, MergeFail, CompactNothing, files, memory, Used
<1>7. ASSUME Prune PROVE Used' \subseteq Used
  <2>1. CASE PruneSwap
    <3>1. RetiringIds' = RetiringIds \cup task.ids /\ task.ids \subseteq catalog
      BY <2>1, RetireIds DEF PruneSwap, At, TaskInv
    <3> QED  BY <2>1, <3>1, <1>l DEF PruneSwap, files, Used
  <2>2. CASE PruneNothing
    BY <2>2, <1>l, <1>r DEF PruneNothing, files, Used
  <2>3. ASSUME NEW id \in Ids, PruneMark(id) PROVE Used' \subseteq Used
    BY <2>3, <1>l, <1>r DEF PruneMark, memory, Used
  <2> QED  BY <1>7, <2>1, <2>2, <2>3 DEF Prune
<1>8. ASSUME Collect PROVE Used' \subseteq Used
  <2>1. CASE CollectBegin
    BY <2>1, <1>l, <1>r DEF CollectBegin, files, memory, Used
  <2>2. ASSUME NEW id \in Ids, RemoveRetired(id) PROVE Used' \subseteq Used
    <3>1. id \in RetiringIds
      BY <2>2 DEF RemoveRetired, DueInv, RetiringIds
    <3> QED  BY <2>2, <3>1, <1>l, <1>r DEF RemoveRetired, Used
  <2>3. ASSUME NEW ok \in BOOLEAN, NEW synced \in BOOLEAN, CollectEnd(ok, synced)
        PROVE  Used' \subseteq Used
    <3>1. RetiringIds' \subseteq RetiringIds
      BY <2>3 DEF CollectEnd, RetiringIds
    <3> QED  BY <2>3, <3>1, <1>l DEF CollectEnd, Used
  <2> QED  BY <1>8, <2>1, <2>2, <2>3 DEF Collect
<1>9. ASSUME Crash PROVE Used' \subseteq Used
  <2>1. RetiringIds' = {} /\ marker' = marker /\ present' \subseteq present \cup unsynced
    BY <1>9, <1>s DEF Crash, RetiringIds
  <2> QED  BY <1>9, <2>1, <1>l DEF Crash, Used
<1>10. ASSUME OpenStore PROVE Used' \subseteq Used
  <2>1. RetiringIds' \subseteq present /\ catalog' \subseteq present
    BY <1>10 DEF OpenStore, RetiringIds, RetiredAtLoad
  <2> QED  BY <1>10, <2>1, <1>l DEF OpenStore, Used
<1>11. ASSUME UNCHANGED vars PROVE Used' \subseteq Used
  BY <1>11, <1>l, <1>r DEF vars, files, memory, Used
<1>12. Renamed' \subseteq Raw
  BY DEF Renamed
<1> QED  BY <1>1, <1>2, <1>3, <1>4, <1>5, <1>6, <1>7, <1>8, <1>9, <1>10, <1>11, <1>12
         DEF Next, Maintenance

(* Between a merge and its marker nothing touches the stage, and only that *)
(* merge and its failure touch the rows of an output.                      *)
LEMMA MergeUndisturbed ==
  ASSUME TypeOK, TaskInv, [Next]_vars, ~MergeFail,
         \A S \in SUBSET catalog, o \in Outs : ~Merge(S, o)
  PROVE  /\ rows' = rows
         /\ task'.at = "merged" => task' = task /\ stage' = stage /\ catalog \subseteq catalog'
<1> USE TypeParts
<1>e. \A ok \in BOOLEAN : task.job # "none" /\ EndJob(ok) => task'.at = "start"
  BY JobEnds DEF Ended
<1>n. NoTask.at = "start"
  BY DEF NoTask
<1>1. ASSUME Commits \/ Reads PROVE rows' = rows /\ UNCHANGED <<task, stage>> /\ catalog \subseteq catalog'
  BY <1>1, OthersStayOut
<1>2. ASSUME NEW pass \in {"hourly", "cycle"}, StartPass(pass)
      PROVE  rows' = rows /\ task'.at = "start"
  BY <1>2, <1>n DEF StartPass, files, NoTask
<1>3. ASSUME Recover PROVE rows' = rows /\ task'.at # "merged"
  BY <1>3, <1>e DEF Recover, RecoverNothing, RecoverResume, RecoverRestore, RecoverRefused,
       At, files, Tasks
<1>4. ASSUME Replace PROVE rows' = rows /\ task'.at # "merged"
  <2>1. task.job # "none"
    BY <1>4 DEF Replace, PublishReplacement, PublishUnsynced, PublishRefused, Unmark, TaskInv
  <2> QED  BY <1>4, <2>1, <1>e DEF Replace, PublishReplacement, PublishUnsynced, PublishRefused,
       Unmark, SwapReplacement, NoTask, files, Tasks
<1>5. ASSUME Compact PROVE rows' = rows /\ task'.at # "merged"
  BY <1>5, <1>e DEF Compact, CompactNothing, WriteMarker, At, files, Tasks
<1>6. ASSUME Prune PROVE rows' = rows /\ task'.at # "merged"
  BY <1>6, <1>e DEF Prune, PruneSwap, PruneNothing, PruneMark, At, files, Tasks
<1>7. ASSUME Collect PROVE rows' = rows /\ task'.at # "merged"
  <2>1. \A ok, synced \in BOOLEAN : (ok /\ synced) \in BOOLEAN  OBVIOUS
  <2> QED  BY <1>7, <2>1, <1>e DEF Collect, CollectBegin, RemoveRetired, CollectEnd, At, files, Tasks
<1>8. ASSUME Crash \/ OpenStore PROVE rows' = rows /\ task'.at # "merged"
  <2>1. CASE Crash
    BY <2>1, <1>n DEF Crash
  <2>2. CASE OpenStore
    BY <2>2, <1>n DEF OpenStore, NoTask
  <2> QED  BY <1>8, <2>1, <2>2
<1>9. CASE UNCHANGED vars
  BY <1>9 DEF vars, files, memory
<1> QED  BY <1>1, <1>2, <1>3, <1>4, <1>5, <1>6, <1>7, <1>8, <1>9 DEF Next, Maintenance

LEMMA NextFresh ==
  ASSUME TypeOK, TaskInv, FreshInv, MarkerInv, DueInv, [Next]_vars
  PROVE  FreshInv'
<1>f. \A o \in Outs : o \in Used => rows[o] # {}
  BY DEF FreshInv
<1>d. Outs \cap Raw = {} /\ rows \in [Outs -> SUBSET Raw]
  BY CatalogAssumption DEF TypeOK
<1>1. ASSUME NEW S \in SUBSET catalog, NEW o \in Outs, Merge(S, o) PROVE FreshInv'
  <2>1. Used' \subseteq Used \cup Raw
    BY <1>1, UsedGrows DEF Merge, WriteMarker, At
  <2>2. RowsOf(S) # {}
    <3>1. PICK id \in S : TRUE
      BY <1>1, FS_EmptySet DEF Merge
    <3>2. id \in Ids /\ id \in Used
      BY <3>1 DEF Used, TypeOK
    <3>3. RowsIn(id) # {}
      BY <3>2, <1>f DEF RowsIn, Ids
    <3> QED  BY <3>1, <3>3 DEF RowsOf
  <2>3. o \notin Used
    BY <1>1, <1>f DEF Merge
  <2>4. /\ stage' = o /\ rows' = [rows EXCEPT ![o] = RowsOf(S)] /\ task'.ids = S
        /\ catalog' = catalog
    BY <1>1, TypeParts DEF Merge, memory, Tasks
  <2>5. rows'[o] = RowsOf(S) /\ \A x \in Outs \ {o} : rows'[x] = rows[x]
    BY <2>4, <1>d
  <2> QED  BY <2>1, <2>2, <2>3, <2>4, <2>5, <1>f, <1>d DEF FreshInv
<1>2. ASSUME MergeFail PROVE FreshInv'
  <2>1. Used' \subseteq Used \cup Raw
    <3>1. marker' = marker /\ rows' # rows
      <4>1. rows[stage] # {} /\ rows' = [rows EXCEPT ![stage] = {}] /\ stage \in Outs
        BY <1>2 DEF MergeFail, At, FreshInv, TaskInv
      <4> QED  BY <1>2, <4>1, <1>d DEF MergeFail
    <3>2. \A ok \in BOOLEAN : ~WriteMarker(ok)
      BY <3>1 DEF WriteMarker
    <3> QED  BY <3>2, UsedGrows
  <2>2. stage \notin Used /\ stage \in Outs
    BY <1>2 DEF MergeFail, At, FreshInv, TaskInv
  <2>3. task'.at = "start"
    BY <1>2, JobEnds DEF MergeFail, At, Ended
  <2>4. \A x \in Outs \ {stage} : rows'[x] = rows[x]
    BY <1>2, <1>d DEF MergeFail
  <2> QED  BY <2>1, <2>2, <2>3, <2>4, <1>f, <1>d DEF FreshInv
<1>3. ASSUME NEW ok \in BOOLEAN, WriteMarker(ok) PROVE FreshInv'
  <2>1. /\ marker' = [out |-> stage, inputs |-> task.ids]
        /\ UNCHANGED <<present, unsynced, marked, lists, rows, catalog, retiring>>
    BY <1>3 DEF WriteMarker
  <2>0. task'.at # "merged"
    BY <1>3, TypeParts, JobEnds DEF WriteMarker, At, Ended, Tasks
  <2>2. stage \notin Used /\ stage \in Outs /\ rows[stage] # {} /\ task.ids \subseteq catalog
    BY <1>3 DEF WriteMarker, At, FreshInv, TaskInv
  <2>3. Used' \subseteq Used \cup {stage}
    <3>1. Listed' = Listed /\ RetiringIds' = RetiringIds
      BY <2>1 DEF Listed, RetiringIds
    <3> QED  BY <2>1, <2>2, <3>1 DEF Used
  <2> QED  BY <2>0, <2>1, <2>2, <2>3, <1>f DEF FreshInv
<1>4. ASSUME ~MergeFail, \A S \in SUBSET catalog, o \in Outs : ~Merge(S, o),
             \A ok \in BOOLEAN : ~WriteMarker(ok)
      PROVE  FreshInv'
  <2>1. Used' \subseteq Used \cup Raw
    BY <1>4, UsedGrows
  <2>2. /\ rows' = rows
        /\ task'.at = "merged" => task' = task /\ stage' = stage /\ catalog \subseteq catalog'
    BY <1>4, MergeUndisturbed
  <2>3. task.at = "merged" => stage \in Outs
    BY DEF TaskInv
  <2> QED  BY <2>1, <2>2, <2>3, <1>f, <1>d DEF FreshInv
<1> QED  BY <1>1, <1>2, <1>3, <1>4

-----------------------------------------------------------------------------
(* The marker, the live batches, the retirements and the readers.          *)

(* What a publication adds to the lists comes from the marker.             *)
LEMMA SwapLists ==
  ASSUME TypeOK, TaskInv, task.at = "publish", SwapReplacement
  PROVE  /\ marker # None /\ marker.out \in Outs /\ marker' = marker
         /\ Listed' \subseteq Listed \cup marker.inputs
         /\ present' = present \cup {marker.out}
         /\ catalog' = (catalog \ marker.inputs) \cup {marker.out}
<1>1. marker # None /\ marker.out \in Outs /\ marker' = marker
  BY SwapType DEF TaskInv, SwapReplacement
<1>2. \A o \in Outs : lists'[o] \subseteq lists[o] \cup marker.inputs
  BY DEF SwapReplacement, TypeOK
<1> QED  BY <1>1, <1>2 DEF SwapReplacement, Listed

(* The publication retires inputs, and nothing else.                       *)
LEMMA PublishRetires ==
  ASSUME PublishReplacement
  PROVE  /\ RetiringIds' \subseteq RetiringIds \cup marker.inputs
         /\ \E S : Retire(S)
<1> DEFINE S == marker.inputs \cap (catalog \cup present)
<1>1. Retire(S) /\ S \subseteq marker.inputs
  BY DEF PublishReplacement
<1> HIDE DEF S
<1> QED  BY <1>1, RetireIds

(* The retirements change at a swap, which adds one of the present epoch,  *)
(* at the end of a collection, which drops some, and at a restart.         *)
LEMMA RetiringSteps ==
  ASSUME TypeOK, Commits \/ Reads \/ Maintenance \/ UNCHANGED vars
  PROVE  \/ retiring' \subseteq retiring /\ epoch' = epoch
         \/ \E S : Retire(S)
<1>1. CASE Commits \/ Reads
  BY <1>1, OthersStayOut
<1>2. CASE \E pass \in {"hourly", "cycle"} : StartPass(pass)
  BY <1>2 DEF StartPass, memory
<1>3. CASE Recover
  BY <1>3 DEF Recover, RecoverNothing, RecoverResume, RecoverRestore, RecoverRefused, memory
<1>4. CASE Replace
  <2>1. CASE PublishReplacement
    BY <2>1, PublishRetires
  <2>2. CASE ~PublishReplacement
    BY <1>4, <2>2 DEF Replace, PublishUnsynced, PublishRefused, Unmark
  <2> QED  BY <2>1, <2>2
<1>5. CASE Compact
  BY <1>5 DEF Compact, Merge, MergeFail, CompactNothing, WriteMarker, memory
<1>6. CASE Prune
  BY <1>6 DEF Prune, PruneSwap, PruneNothing, PruneMark, memory
<1>7. CASE Collect
  BY <1>7 DEF Collect, CollectBegin, RemoveRetired, CollectEnd, memory
<1>8. CASE UNCHANGED vars
  BY <1>8 DEF vars, memory
<1> QED  BY <1>1, <1>2, <1>3, <1>4, <1>5, <1>6, <1>7, <1>8 DEF Maintenance

(* Only a collection and a power loss take a directory away.               *)
LEMMA PresentSteps ==
  ASSUME TypeOK, Commits \/ Reads \/ Maintenance \/ OpenStore \/ UNCHANGED vars,
         \A id \in Ids : ~RemoveRetired(id)
  PROVE  present \subseteq present'
<1>1. CASE Commits \/ Reads
  BY <1>1, OthersStayOut
<1>2. CASE \E pass \in {"hourly", "cycle"} : StartPass(pass)
  BY <1>2 DEF StartPass, files
<1>3. CASE Recover
  BY <1>3 DEF Recover, RecoverNothing, RecoverResume, RecoverRestore, RecoverRefused, files
<1>4. CASE Replace
  BY <1>4 DEF Replace, PublishReplacement, PublishUnsynced, SwapReplacement, PublishRefused,
              Unmark, files
<1>5. CASE Compact
  BY <1>5 DEF Compact, Merge, MergeFail, CompactNothing, WriteMarker, files
<1>6. CASE Prune
  BY <1>6 DEF Prune, PruneSwap, PruneNothing, PruneMark, files
<1>7. CASE Collect
  BY <1>7 DEF Collect, CollectBegin, CollectEnd, files
<1>8. CASE OpenStore
  BY <1>8 DEF OpenStore
<1>9. CASE UNCHANGED vars
  BY <1>9 DEF vars, files
<1> QED  BY <1>1, <1>2, <1>3, <1>4, <1>5, <1>6, <1>7, <1>8, <1>9 DEF Maintenance

LEMMA NextDue ==
  ASSUME TypeOK, TaskInv, DueInv, [Next]_vars
  PROVE  DueInv'
<1> USE TypeParts
<1>0. TaskInv'
  BY NextTask
<1>1. CASE Commits
  <2>1. UNCHANGED <<task, retiring, epoch, reader>>
    BY <1>1, OthersStayOut DEF Commits, CommitBegin, CommitFail, CommitPublish, CommitSynced,
          CommitSyncFail
  <2> QED  BY <2>1 DEF DueInv
<1>2. ASSUME NEW q \in Readers, Pin(q) \/ Capture(q) \/ Unpin(q) PROVE DueInv'
  <2>1. UNCHANGED <<task, retiring, epoch>>
    BY <1>2, OthersStayOut DEF Reads
  <2>2. \A p \in Readers : reader'[p].at # "idle"
          => reader'[p].epoch = epoch \/ (reader[p].at # "idle" /\ reader'[p].epoch = reader[p].epoch)
    <3>1. DOMAIN reader = Readers
      BY DEF TypeOK
    <3>2. CASE Pin(q)
      BY <3>1, <3>2 DEF Pin
    <3>3. CASE Capture(q)
      BY <3>1, <3>3 DEF Capture
    <3>4. CASE Unpin(q)
      BY <3>1, <3>4 DEF Unpin, NoReader
    <3> QED  BY ONLY <1>2, <3>2, <3>3, <3>4
  <2> QED  BY <2>1, <2>2 DEF DueInv
<1>3. CASE CollectBegin
  <2>1. task'.due = Due /\ UNCHANGED <<retiring, epoch, reader>>
    BY <1>3 DEF CollectBegin, memory, Tasks
  <2> QED  BY <2>1 DEF DueInv, Due
<1>4. ASSUME NEW id \in Ids, RemoveRetired(id) PROVE DueInv'
  <2>1. task'.due = task.due /\ UNCHANGED <<retiring, epoch, reader>>
    BY <1>4 DEF RemoveRetired, Tasks
  <2> QED  BY <2>1 DEF DueInv
<1>5. CASE UNCHANGED vars
  BY <1>5 DEF vars, memory, DueInv
<1>6. ASSUME task'.at # "removing" PROVE DueInv'
  BY <1>0, <1>6 DEF TaskInv, DueInv
<1>e. \A ok \in BOOLEAN : task.job # "none" /\ EndJob(ok) => task'.at = "start"
  BY JobEnds DEF Ended
<1>7. ASSUME NEW pass \in {"hourly", "cycle"}, StartPass(pass) PROVE task'.at # "removing"
  BY <1>7 DEF StartPass, NoTask
<1>8. ASSUME Recover PROVE task'.at # "removing"
  BY <1>8, <1>e DEF Recover, RecoverNothing, RecoverResume, RecoverRestore, RecoverRefused,
       At, Tasks
<1>9. ASSUME Replace PROVE task'.at # "removing"
  <2>1. task.job # "none"
    BY <1>9 DEF Replace, PublishReplacement, PublishUnsynced, PublishRefused, Unmark, TaskInv
  <2> QED  BY <1>9, <2>1, <1>e DEF Replace, PublishReplacement, PublishUnsynced,
               PublishRefused, Unmark, NoTask, Tasks
<1>10. ASSUME Compact PROVE task'.at # "removing"
  BY <1>10, <1>e DEF Compact, Merge, MergeFail, CompactNothing, WriteMarker, At, Tasks
<1>11. ASSUME Prune PROVE task'.at # "removing"
  BY <1>11, <1>e DEF Prune, PruneSwap, PruneNothing, PruneMark, At, Tasks
<1>12. ASSUME NEW ok \in BOOLEAN, NEW synced \in BOOLEAN, CollectEnd(ok, synced)
       PROVE  task'.at # "removing"
  <2>1. (ok /\ synced) \in BOOLEAN  OBVIOUS
  <2> QED  BY <1>12, <2>1, <1>e DEF CollectEnd, At
<1>13. ASSUME Crash \/ OpenStore PROVE task'.at # "removing"
  <2>1. NoTask.at = "start"
    BY DEF NoTask
  <2>2. CASE Crash
    BY <2>1, <2>2 DEF Crash
  <2>3. CASE OpenStore
    BY <2>1, <2>3 DEF OpenStore, NoTask
  <2> QED  BY <1>13, <2>2, <2>3
<1> QED  BY <1>1, <1>2, <1>3, <1>4, <1>5, <1>6, <1>7, <1>8, <1>9, <1>10, <1>11, <1>12, <1>13
         DEF Next, Maintenance, Collect, Reads

(* Steps other than those of merges, publications, retention, collections  *)
(* and restarts leave everything the marker's promise is about alone.      *)
LEMMA NextMarker ==
  ASSUME Tolerated, TypeOK, TaskInv, FreshInv, MarkerInv, DueInv, [Next]_vars
  PROVE  MarkerInv'
<1> USE TypeParts
<1> DEFINE Clear == /\ marker.out \notin RetiringIds' \cup marked' \cup Listed'
                    /\ MaxCrashes # 0 /\ "vanish" \notin Faults => OutputExists'
                    /\ MaxCrashes = 0 =>
                         phase' = "serving" /\ (OutputExists' \/ marker.inputs \subseteq catalog')
<1>h. ASSUME MaxCrashes # 0 => savedMarker' = marker', marker' # None => marker' = marker /\ Clear
      PROVE  MarkerInv'
  BY <1>h DEF MarkerInv
<1>l. lists' = lists => Listed' = Listed
  BY DEF Listed
<1>r. retiring' = retiring => RetiringIds' = RetiringIds
  BY DEF RetiringIds
<1>m. /\ MaxCrashes # 0 => savedMarker = marker
      /\ marker # None => /\ marker.out \in Outs
                          /\ marker.out \notin RetiringIds \cup marked \cup Listed \cup marker.inputs
                          /\ MaxCrashes # 0 /\ "vanish" \notin Faults => OutputExists
                          /\ MaxCrashes = 0 =>
                               phase = "serving" /\ (OutputExists \/ marker.inputs \subseteq catalog)
  BY DEF MarkerInv, TypeOK, Markers
<1>p. Commits \/ Reads \/ Maintenance => (phase = "serving" => phase' = "serving")
  BY MaintenanceFrame, OthersStayOut
\* Everything the promise reads is as it was, or grew.
<1>k. ASSUME savedMarker' = savedMarker, marker' = marker, lists' = lists, retiring' = retiring,
             marked' = marked, stage' = stage, present \subseteq present', catalog \subseteq catalog',
             phase = "serving" => phase' = "serving"
      PROVE  MarkerInv'
  <2>1. OutputExists => OutputExists'
    BY <1>k DEF OutputExists
  <2> HIDE DEF Clear
  <2>2. marker # None => Clear
    BY <2>1, <1>k, <1>m, <1>l, <1>r DEF Clear
  <2> QED  BY <2>2, <1>k, <1>m, <1>h
\* Without a marker there is nothing to promise.
<1>n. ASSUME MaxCrashes # 0 => savedMarker' = None, marker' = None PROVE MarkerInv'
  BY <1>n DEF MarkerInv
<1> HIDE DEF Clear
<1>1. CASE Commits \/ Reads
  BY <1>1, <1>k, <1>p, OthersStayOut
<1>2. ASSUME NEW pass \in {"hourly", "cycle"}, StartPass(pass) PROVE MarkerInv'
  BY <1>2, <1>k DEF StartPass, files, memory
<1>3. CASE Recover
  <2>0. phase = "serving" => phase' = "serving"
    BY <1>3, <1>p DEF Maintenance
  <2>1. CASE RecoverNothing
    BY <2>1, <1>n, <1>m DEF RecoverNothing
  <2>2. CASE ~RecoverNothing
    BY <1>3, <2>0, <2>2, <1>k DEF Recover, RecoverResume, RecoverRestore, RecoverRefused,
       files, memory
  <2> QED  BY <2>1, <2>2
<1>4. CASE Replace
  <2>0. phase = "serving" => phase' = "serving"
    BY <1>4, <1>p DEF Maintenance
  <2>1. CASE PublishReplacement \/ PublishUnsynced
    <3>1. /\ task.at = "publish" /\ SwapReplacement /\ UNCHANGED <<marked, savedMarker>>
      BY <2>1 DEF PublishReplacement, PublishUnsynced, SwapReplacement
    <3>2. RetiringIds' \subseteq RetiringIds \cup marker.inputs
      BY <2>1, <1>r, PublishRetires DEF PublishUnsynced
    <3>3. OutputExists'
      BY <3>1, SwapLists DEF OutputExists
    <3>4. Clear
      BY <2>0, <3>1, <3>2, <3>3, <1>m, SwapLists DEF Clear
    <3> QED  BY <3>1, <3>4, <1>h, <1>m, SwapLists
  <2>2. CASE PublishRefused
    BY <2>0, <2>2, <1>k DEF PublishRefused, files
  <2>3. ASSUME NEW ok \in BOOLEAN, Unmark(ok) PROVE MarkerInv'
    BY <2>3, <1>n, <1>m DEF Unmark, Tolerated
  <2> QED  BY <1>4, <2>1, <2>2, <2>3 DEF Replace
<1>5. CASE Compact
  <2>0. phase = "serving" => phase' = "serving"
    BY <1>5, <1>p DEF Maintenance
  <2>1. ASSUME NEW S \in SUBSET catalog, NEW o \in Outs, Merge(S, o) PROVE MarkerInv'
    BY <2>1, <1>n, <1>m DEF Merge, At, TaskInv
  <2>2. CASE MergeFail
    BY <2>2, <1>n, <1>m DEF MergeFail, At, TaskInv
  <2>3. CASE CompactNothing
    BY <2>0, <2>3, <1>k DEF CompactNothing, files
  <2>4. ASSUME NEW ok \in BOOLEAN, WriteMarker(ok) PROVE MarkerInv'
    <3>1. /\ marker' = [out |-> stage, inputs |-> task.ids]
          /\ MaxCrashes # 0 => savedMarker' = marker' /\ stage' = stage
          /\ UNCHANGED <<marked, lists, retiring, catalog>>
          /\ task.job = "compact"
      BY <2>4 DEF WriteMarker, Tolerated, At
    <3>2. stage \notin Used /\ task.ids \subseteq catalog
      BY <2>4 DEF WriteMarker, At, FreshInv
    <3>3. stage \notin RetiringIds' \cup marked' \cup Listed' \cup task.ids
      BY <3>1, <3>2, <1>l, <1>r DEF Used
    <3>4. marker'.out = stage /\ marker'.inputs = task.ids
      BY <3>1
    <3>5. MaxCrashes # 0 => OutputExists'
      BY <3>1, <3>4 DEF OutputExists
    <3>6. phase' = "serving"
      BY <2>0, <3>1 DEF TaskInv
    <3> QED  BY <3>1, <3>2, <3>3, <3>4, <3>5, <3>6 DEF MarkerInv
  <2> QED  BY <1>5, <2>1, <2>2, <2>3, <2>4 DEF Compact
<1>6. CASE Prune
  BY <1>6, <1>n, <1>m DEF Prune, PruneSwap, PruneNothing, PruneMark, At, TaskInv, files, memory
<1>7. CASE Collect
  <2>1. CASE CollectBegin
    BY <2>1, <1>k DEF CollectBegin, files, memory
  <2>2. ASSUME NEW id \in Ids, RemoveRetired(id) PROVE MarkerInv'
    <3>1. id \in RetiringIds
      BY <2>2 DEF RemoveRetired, DueInv, RetiringIds
    <3>2. /\ UNCHANGED <<marker, savedMarker, lists, retiring, marked, stage>>
          /\ present' = present \ {id} /\ UNCHANGED <<phase, catalog>>
      BY <2>2 DEF RemoveRetired
    <3>3. marker # None /\ OutputExists => OutputExists'
      BY <3>1, <3>2, <1>m DEF OutputExists
    <3>4. marker # None => Clear
      BY <3>2, <3>3, <1>m, <1>l, <1>r DEF Clear
    <3> QED  BY <3>2, <3>4, <1>h, <1>m
  <2>3. ASSUME NEW ok \in BOOLEAN, NEW synced \in BOOLEAN, CollectEnd(ok, synced)
        PROVE  MarkerInv'
    <3>1. /\ UNCHANGED <<marker, savedMarker, lists, marked, stage, present, catalog>>
          /\ RetiringIds' \subseteq RetiringIds
      BY <2>3 DEF CollectEnd, RetiringIds
    <3>2. OutputExists => OutputExists'
      BY <3>1 DEF OutputExists
    <3>4. phase = "serving" => phase' = "serving"
      BY <1>7, <1>p DEF Maintenance
    <3>3. marker # None => Clear
      BY <3>1, <3>2, <3>4, <1>m, <1>l DEF Clear
    <3> QED  BY <3>1, <3>3, <1>h, <1>m
  <2> QED  BY <1>7, <2>1, <2>2, <2>3 DEF Collect
<1>8. CASE Crash
  <2>0. MaxCrashes # 0
    BY <1>8, CatalogAssumption DEF Crash, TypeOK
  <2>1. /\ marker' = marker /\ savedMarker' = marker' /\ UNCHANGED <<marked, lists>>
        /\ RetiringIds' = {}
    BY <1>8, <1>m, <2>0 DEF Crash, RetiringIds
  <2>2. ASSUME marker # None, OutputExists, "vanish" \notin Faults PROVE OutputExists'
    <3>1. PICK kept \in SUBSET unsynced :
            /\ present' = (present \ unsynced) \cup kept
            /\ LET undone == {o \in (present \cap unsynced \cap Outs) \ kept : 
                                marker # None /\ o = marker.out}
               IN IF undone = {} THEN stage' = stage
                  ELSE stage' \in undone \cup (IF "vanish" \in Faults THEN {None} ELSE {})
      BY <1>8 DEF Crash
    <3> DEFINE lost == marker.out \in (present \cap unsynced) \ kept
    <3>2. CASE lost
      <4>1. stage' = marker.out
        BY <3>1, <3>2, <2>2, <1>m
      <4> QED  BY <4>1, <2>1 DEF OutputExists
    <3>3. CASE ~lost
      <4>1. stage' = stage /\ (marker.out \in present => marker.out \in present')
        BY <3>1, <3>3, <2>2, <1>m
      <4> QED  BY <4>1, <2>1, <2>2 DEF OutputExists
    <3> QED  BY <3>2, <3>3
  <2>3. marker # None => Clear
    BY <2>0, <2>1, <2>2, <1>m, <1>l DEF Clear
  <2> QED  BY <2>1, <2>3, <1>h
<1>9. CASE OpenStore
  <2>1. UNCHANGED <<marker, savedMarker, lists, marked, stage, present>>
    BY <1>9 DEF OpenStore
  <2>0. phase # "serving"
    BY <1>9 DEF OpenStore
  <2>2. RetiringIds' \subseteq marked \cup Listed
    BY <1>9 DEF OpenStore, RetiringIds, RetiredAtLoad, Listed
  <2>3. OutputExists => OutputExists'
    BY <2>1 DEF OutputExists
  <2>4. marker # None => Clear
    BY <2>0, <2>1, <2>2, <2>3, <1>m, <1>l DEF Clear
  <2> QED  BY <2>1, <2>4, <1>h, <1>m
<1>10. CASE UNCHANGED vars
  BY <1>10, <1>k DEF vars, files, memory
<1> QED  BY <1>1, <1>2, <1>3, <1>4, <1>5, <1>6, <1>7, <1>8, <1>9, <1>10 DEF Next, Maintenance

(* What a rollback puts back is on disk and awaits no deletion.            *)
LEMMA RestoreSafe ==
  ASSUME Tolerated, MarkerInv, LiveInv, RollbackInv, RecoverRestore
  PROVE  marker.inputs \cap RetiringIds = {} /\ marker.inputs \subseteq present
<1>1. marker # None /\ ~OutputExists /\ marker.inputs \subseteq present
  BY DEF RecoverRestore
<1>2. CASE MaxCrashes = 0
  BY <1>1, <1>2 DEF MarkerInv, LiveInv
<1>3. CASE MaxCrashes # 0
  BY <1>1, <1>3 DEF Tolerated, Ordered, MarkerInv, RollbackInv, InputsApart
<1> QED  BY <1>2, <1>3

LEMMA NextLive ==
  ASSUME Tolerated, TypeOK, TaskInv, MarkerInv, LiveInv, DueInv, RollbackInv, [Next]_vars
  PROVE  LiveInv'
<1> USE TypeParts
<1>r. retiring' = retiring => RetiringIds' = RetiringIds
  BY DEF RetiringIds
<1>l. RetiringIds \cap catalog = {} /\ catalog \subseteq present
  BY DEF LiveInv
<1>k. ASSUME UNCHANGED <<catalog, present, retiring>> PROVE LiveInv'
  BY <1>k, <1>r, <1>l DEF LiveInv
<1>1. CASE Commits
  BY <1>1, <1>r, <1>l DEF Commits, CommitBegin, CommitFail, CommitPublish, CommitSynced,
       CommitSyncFail, Published, files, memory, LiveInv
<1>2. CASE Reads
  BY <1>2, <1>k DEF Reads, Pin, Capture, Unpin, files, memory
<1>3. CASE \E pass \in {"hourly", "cycle"} : StartPass(pass)
  BY <1>3, <1>k DEF StartPass, files, memory
<1>4. CASE Recover
  <2>1. CASE RecoverRestore
    <3>1. catalog' = catalog \cup marker.inputs /\ UNCHANGED <<present, retiring>>
      BY <2>1 DEF RecoverRestore, files
    <3> QED  BY <2>1, <3>1, <1>r, <1>l, RestoreSafe DEF LiveInv
  <2>2. CASE ~RecoverRestore
    BY <1>4, <2>2, <1>k DEF Recover, RecoverNothing, RecoverResume, RecoverRefused, files, memory
  <2> QED  BY <2>1, <2>2
<1>5. CASE Replace
  <2>1. CASE PublishReplacement \/ PublishUnsynced
    <3>1. task.at = "publish" /\ SwapReplacement
      BY <2>1 DEF PublishReplacement, PublishUnsynced
    <3>2. RetiringIds' \subseteq RetiringIds \cup marker.inputs
      BY <2>1, <1>r, PublishRetires DEF PublishUnsynced
    <3>3. marker.out \notin RetiringIds \cup marker.inputs
      BY <3>1, SwapLists DEF MarkerInv
    <3> QED  BY <3>1, <3>2, <3>3, <1>l, SwapLists DEF LiveInv
  <2>2. CASE ~(PublishReplacement \/ PublishUnsynced)
    BY <1>5, <2>2, <1>k DEF Replace, PublishRefused, Unmark, files
  <2> QED  BY <2>1, <2>2
<1>6. CASE Compact
  BY <1>6, <1>k DEF Compact, Merge, MergeFail, CompactNothing, WriteMarker, files, memory
<1>7. CASE Prune
  <2>1. CASE PruneSwap
    <3>1. RetiringIds' = RetiringIds \cup task.ids
      BY <2>1, RetireIds DEF PruneSwap
    <3> QED  BY <2>1, <3>1, <1>l DEF PruneSwap, files, LiveInv
  <2>2. CASE ~PruneSwap
    BY <1>7, <2>2, <1>k DEF Prune, PruneNothing, PruneMark, files, memory
  <2> QED  BY <2>1, <2>2
<1>8. CASE Collect
  <2>1. CASE CollectBegin
    BY <2>1, <1>k DEF CollectBegin, files, memory
  <2>2. ASSUME NEW id \in Ids, RemoveRetired(id) PROVE LiveInv'
    <3>1. id \in RetiringIds
      BY <2>2 DEF RemoveRetired, DueInv, RetiringIds
    <3> QED  BY <2>2, <3>1, <1>r, <1>l DEF RemoveRetired, LiveInv
  <2>3. ASSUME NEW ok \in BOOLEAN, NEW synced \in BOOLEAN, CollectEnd(ok, synced)
        PROVE  LiveInv'
    <3>1. RetiringIds' \subseteq RetiringIds
      BY <2>3 DEF CollectEnd, RetiringIds
    <3> QED  BY <2>3, <3>1, <1>l DEF CollectEnd, LiveInv
  <2> QED  BY <1>8, <2>1, <2>2, <2>3 DEF Collect
<1>9. CASE Crash
  BY <1>9 DEF Crash, LiveInv
<1>10. CASE OpenStore
  <2>1. RetiringIds' \subseteq RetiredAtLoad
    BY <1>10 DEF OpenStore, RetiringIds
  <2> QED  BY <1>10, <2>1 DEF OpenStore, LiveInv
<1>11. CASE UNCHANGED vars
  BY <1>11, <1>k DEF vars, files, memory
<1> QED  BY <1>1, <1>2, <1>3, <1>4, <1>5, <1>6, <1>7, <1>8, <1>9, <1>10, <1>11
         DEF Next, Maintenance

(* No reader loses a file it captured: the retirement that holds it is not *)
(* older than the reader, so it is not due.                                *)
LEMMA NextReader ==
  ASSUME TypeOK, TaskInv, ServingInv, LiveInv, DueInv, ReaderInv, [Next]_vars
  PROVE  ReaderInv'
<1> USE TypeParts
<1>t. epoch \in Nat /\ \A q \in Readers : reader[q].at \in {"idle", "pinned", "reading"}
  BY DEF TypeOK
\* Readers stand still, retirements only drop or gain one of this epoch.
<1>k. ASSUME reader' = reader,
             (retiring' \subseteq retiring /\ epoch' = epoch) \/ \E S : Retire(S),
             \A q \in Readers : reader[q].snap \subseteq present'
      PROVE  ReaderInv'
  <2>1. CASE retiring' \subseteq retiring /\ epoch' = epoch
    BY <1>k, <2>1 DEF ReaderInv
  <2>2. ASSUME NEW S, Retire(S), S # {} PROVE ReaderInv'
    <3>1. epoch' = epoch + 1 /\ retiring' = retiring \cup {[epoch |-> epoch, ids |-> S]}
      BY <2>2 DEF Retire
    <3>2. \A q \in Readers : reader[q].epoch <= epoch
      BY DEF ReaderInv
    <3>3. \A q \in Readers, r \in retiring' :
            r.ids \cap reader[q].snap # {} => reader[q].epoch <= r.epoch
      BY <3>1, <3>2 DEF ReaderInv
    <3>4. \A q \in Readers : reader[q].epoch <= epoch'
      BY <3>1, <3>2, <1>t
    <3> QED  BY <1>k, <3>3, <3>4 DEF ReaderInv
  <2>3. CASE Retire({})
    BY <1>k, <2>3 DEF Retire, ReaderInv
  <2> QED  BY <1>k, <2>1, <2>2, <2>3
<1>s. \A q \in Readers : reader[q].snap \subseteq present
  BY DEF ReaderInv
<1>1. CASE Commits
  <2>1. reader' = reader /\ present \subseteq present'
    BY <1>1, OthersStayOut DEF Commits, CommitBegin, CommitFail, CommitPublish, CommitSynced,
          CommitSyncFail
  <2> QED  BY <1>1, <2>1, <1>k, <1>s, RetiringSteps
<1>2. ASSUME NEW q \in Readers, Pin(q) \/ Capture(q) \/ Unpin(q) PROVE ReaderInv'
  <2>1. UNCHANGED <<retiring, epoch, present>>
    BY <1>2 DEF Pin, Capture, Unpin, files, memory
  <2>2. \A p \in Readers \ {q} : reader'[p] = reader[p]
    BY <1>2 DEF Pin, Capture, Unpin, TypeOK
  <2>3. CASE Pin(q)
    <3>1. reader'[q].epoch = epoch /\ reader'[q].snap = {} /\ reader'[q].at = "pinned"
      BY <2>3 DEF Pin, TypeOK
    <3> QED  BY <2>1, <2>2, <3>1, <1>t DEF ReaderInv
  <2>4. CASE Capture(q)
    <3>1. /\ reader'[q].epoch = reader[q].epoch /\ reader'[q].snap = catalog
          /\ reader'[q].at = "reading"
      BY <2>4 DEF Capture, TypeOK
    <3>2. \A r \in retiring : r.ids \cap catalog = {}
      BY DEF LiveInv, RetiringIds
    <3> QED  BY <2>1, <2>2, <3>1, <3>2 DEF ReaderInv, LiveInv
  <2>5. CASE Unpin(q)
    <3>1. reader'[q].epoch = 0 /\ reader'[q].snap = {} /\ reader'[q].at = "idle"
      BY <2>5 DEF Unpin, NoReader, TypeOK
    <3> QED  BY <2>1, <2>2, <3>1, <1>t DEF ReaderInv
  <2> QED  BY <1>2, <2>3, <2>4, <2>5
<1>3. ASSUME Maintenance PROVE ReaderInv'
  <2>1. reader' = reader /\ ((retiring' \subseteq retiring /\ epoch' = epoch) \/ \E S : Retire(S))
    BY <1>3, MaintenanceFrame, RetiringSteps
  <2>2. ASSUME NEW id \in Ids, RemoveRetired(id), NEW q \in Readers PROVE id \notin reader[q].snap
    <3>1. PICK r \in task.due : id \in r.ids
      BY <2>2 DEF RemoveRetired
    <3>2. r \in retiring /\ r.epoch \in Nat
          /\ (reader[q].at # "idle" => r.epoch < reader[q].epoch)
      BY <3>1 DEF DueInv
    <3>3. reader[q].snap # {} => reader[q].at # "idle"
      BY DEF ReaderInv
    <3> QED  BY <3>1, <3>2, <3>3 DEF ReaderInv
  <2>3. \A q \in Readers : reader[q].snap \subseteq present'
    <3>1. ASSUME NEW id \in Ids, RemoveRetired(id)
          PROVE  \A q \in Readers : reader[q].snap \subseteq present'
      BY <3>1, <2>2, <1>s DEF RemoveRetired
    <3>2. ASSUME \A id \in Ids : ~RemoveRetired(id)
          PROVE  present \subseteq present'
      BY <1>3, <3>2, PresentSteps
    <3> QED  BY <3>1, <3>2, <1>s
  <2> QED  BY <2>1, <2>3, <1>k
<1>4. CASE Crash
  BY <1>4 DEF Crash, NoReader, ReaderInv
<1>5. CASE OpenStore
  <2>1. \A q \in Readers : reader'[q].epoch = 0 /\ reader'[q].snap = {} /\ reader'[q].at = "idle"
    BY <1>5 DEF OpenStore, ServingInv, NoReader
  <2>2. epoch' \in Nat
    BY <1>5 DEF OpenStore
  <2> QED  BY <2>1, <2>2 DEF ReaderInv
<1>6. CASE UNCHANGED vars
  BY <1>6, <1>k, <1>s DEF vars, files, memory
<1> QED  BY <1>1, <1>2, <1>3, <1>4, <1>5, <1>6 DEF Next, Reads

(* No step lists or marks a batch of a commit under way, and with no swap  *)
(* refused only a pruning under way leaves a live batch marked.            *)
LEMMA NextMarks ==
  ASSUME TypeOK, TaskInv, MarkerInv, FreshInv, RollbackInv, [Next]_vars
  PROVE  MarkedOver' /\ ("pruneRefused" \notin Faults => MarksApart')
<1> USE TypeParts
<1>o. MarkedOver
  BY DEF RollbackInv
<1>1. MarkedOver'
  <2>1. ASSUME NEW r \in Raw, NEW s \in Raw, commit[s] \in {"done", "failed"},
               \/ CommitBegin(r) \/ CommitFail(r) \/ CommitPublish(r)
               \/ CommitSynced(r) \/ CommitSyncFail(r)
        PROVE  commit'[s] = commit[s]
    BY <2>1 DEF CommitBegin, CommitFail, CommitPublish, CommitSynced, CommitSyncFail, TypeOK
  <2>2. CASE Commits
    BY <2>1, <2>2, <1>o, OthersStayOut DEF Commits, MarkedOver
  <2>3. CASE Reads
    BY <2>3, <1>o DEF Reads, Pin, Capture, Unpin, files, MarkedOver
  <2>4. ASSUME NEW id \in Ids, PruneMark(id) PROVE MarkedOver'
    <3>1. id \in Raw => commit[id] \in {"done", "failed"}
      BY <2>4 DEF PruneMark, RowsIn
    <3> QED  BY <2>4, <3>1, <1>o DEF PruneMark, MarkedOver
  <2>5. ASSUME Maintenance, \A id \in Ids : ~PruneMark(id) PROVE MarkedOver'
    <3>1. UNCHANGED <<commit, attempts>>
      BY <2>5, MaintenanceFrame
    <3>2. marked' = marked
      BY <2>5 DEF Maintenance, StartPass, Recover, RecoverNothing, RecoverResume, RecoverRestore,
         RecoverRefused, Replace, PublishReplacement, PublishUnsynced, PublishRefused,
         SwapReplacement, Unmark, Compact, Merge, MergeFail, CompactNothing, WriteMarker, Prune,
         PruneSwap, PruneNothing, Collect, CollectBegin, RemoveRetired, CollectEnd, files
    <3> QED  BY <3>1, <3>2, <1>o DEF MarkedOver
  <2>6. CASE Crash
    <3>1. \A r \in Raw : commit[r] \in {"done", "failed"} => commit'[r] \in {"done", "failed"}
      BY <2>6 DEF Crash
    <3> QED  BY <2>6, <3>1, <1>o DEF Crash, MarkedOver
  <2>7. CASE OpenStore
    BY <2>7, <1>o DEF OpenStore, MarkedOver
  <2>8. CASE UNCHANGED vars
    BY <2>8, <1>o DEF vars, files, MarkedOver
  <2> QED  BY <2>2, <2>3, <2>4, <2>5, <2>6, <2>7, <2>8 DEF Next
<1> SUFFICES ASSUME "pruneRefused" \notin Faults
             PROVE  MarksApart'
  BY <1>1
<1>a. /\ marked \cap catalog \subseteq (IF task.job = "prune" THEN task.ids ELSE {})
      /\ marker # None => marker.inputs \cap marked = {} /\ marker.out \notin marked
  BY DEF RollbackInv, MarksApart, MarkerInv
\* No live batch was marked, and none is.
<1>k. ASSUME marked' = marked, task.job # "prune", marker' # None => marker' = marker,
             catalog' \cap marked \subseteq catalog
      PROVE  MarksApart'
  BY <1>k, <1>a DEF MarksApart
<1>2. ASSUME NEW r \in Raw,
             \/ CommitBegin(r) \/ CommitFail(r) \/ CommitPublish(r)
             \/ CommitSynced(r) \/ CommitSyncFail(r)
      PROVE  MarksApart'
  <2>1. UNCHANGED <<task, marker, marked>>
    BY <1>2, OthersStayOut DEF Commits
  <2>2. r \notin marked
    BY <1>2, <1>o DEF CommitBegin, CommitFail, CommitPublish, CommitSynced, CommitSyncFail,
       MarkedOver
  <2>3. catalog' \subseteq catalog \cup {r}
    BY <1>2 DEF CommitBegin, CommitFail, CommitPublish, CommitSynced, CommitSyncFail, memory
  <2> QED  BY <2>1, <2>2, <2>3, <1>a DEF MarksApart
<1>3. CASE Reads
  BY <1>3, <1>a DEF Reads, Pin, Capture, Unpin, files, memory, MarksApart
<1>4. ASSUME NEW pass \in {"hourly", "cycle"}, StartPass(pass) PROVE MarksApart'
  BY <1>4, <1>k DEF StartPass, NoTask, files, memory
<1>5. CASE Recover
  BY <1>5, <1>k, <1>a DEF Recover, RecoverNothing, RecoverResume, RecoverRestore, RecoverRefused,
     At, files, memory
<1>6. CASE Replace
  <2>1. CASE PublishReplacement \/ PublishUnsynced
    <3>1. task.at = "publish" /\ SwapReplacement
      BY <2>1 DEF PublishReplacement, PublishUnsynced
    <3> QED  BY <3>1, <1>k, <1>a, SwapLists DEF SwapReplacement, TaskInv
  <2>2. CASE PublishRefused \/ \E ok \in BOOLEAN : Unmark(ok)
    BY <2>2, <1>k DEF PublishRefused, Unmark, TaskInv, files
  <2> QED  BY <1>6, <2>1, <2>2 DEF Replace
<1>7. CASE Compact
  <2>1. ASSUME NEW ok \in BOOLEAN, WriteMarker(ok) PROVE MarksApart'
    <3>1. /\ marker' = [out |-> stage, inputs |-> task.ids] /\ UNCHANGED <<marked, catalog>>
          /\ task.ids \subseteq catalog /\ task.job = "compact"
      BY <2>1 DEF WriteMarker, At, FreshInv
    <3> QED  BY <3>1, <1>a DEF MarksApart
  <2>2. CASE \A ok \in BOOLEAN : ~WriteMarker(ok)
    BY <1>7, <2>2, <1>k DEF Compact, Merge, MergeFail, CompactNothing, At, files, memory
  <2> QED  BY <2>1, <2>2
<1>8. CASE PruneSwap
  BY <1>8, <1>a DEF PruneSwap, At, TaskInv, files, MarksApart
<1>9. CASE PruneNothing
  BY <1>9, <1>a DEF PruneNothing, At, TaskInv, files, MarksApart
<1>10. ASSUME NEW id \in Ids, PruneMark(id) PROVE MarksApart'
  <2>1. /\ marked' = marked \cup {id} /\ task'.ids = task.ids \cup {id}
        /\ task'.job = "prune" /\ task.job = "prune" /\ catalog' = catalog
        /\ marker' = None
    BY <1>10 DEF PruneMark, At, memory, Tasks, TaskInv
  <2> QED  BY <2>1, <1>a DEF MarksApart
<1>11. CASE Collect
  BY <1>11, <1>k DEF Collect, CollectBegin, RemoveRetired, CollectEnd, At, files, memory
<1>12. CASE Crash
  <2>1. marker' = marker
    BY <1>12, CatalogAssumption DEF Crash, TypeOK, MarkerInv
  <2> QED  BY <1>12, <2>1, <1>a DEF Crash, MarksApart
<1>13. CASE OpenStore
  BY <1>13, <1>a DEF OpenStore, RetiredAtLoad, MarksApart
<1>14. CASE UNCHANGED vars
  BY <1>14, <1>a DEF vars, files, memory, MarksApart
<1> QED  BY <1>2, <1>3, <1>4, <1>5, <1>6, <1>7, <1>8, <1>9, <1>10, <1>11, <1>12, <1>13, <1>14
         DEF Next, Commits, Maintenance, Prune

(* What a rollback needs is kept: no step lists or retires what the        *)
(* pending marker would put back.                                          *)
LEMMA NextRollback ==
  ASSUME Tolerated, TypeOK, TaskInv, ServingInv, FreshInv, MarkerInv, DueInv, RollbackInv,
         [Next]_vars
  PROVE  RollbackInv'
<1> USE TypeParts
<1> DEFINE Apart == ListsApart /\ InputsApart
<1> SUFFICES ASSUME Ordered
             PROVE  Apart'
  BY NextMarks DEF RollbackInv
<1>f. Faults \cap {"collectSync", "rootSync"} = {}
  BY DEF Ordered
<1>a. ListsApart /\ InputsApart
  BY DEF RollbackInv
<1>u. task.at # "removing" => unsynced \subseteq present
  BY <1>a DEF ListsApart
<1>r. retiring' = retiring => RetiringIds' = RetiringIds
  BY DEF RetiringIds
<1>m. marker # None => marker.out \in Outs /\ marker.inputs \subseteq Ids
                       /\ marker.out \notin RetiringIds \cup marked \cup Listed \cup marker.inputs
  BY DEF MarkerInv, TypeOK, Markers
<1>n. None \notin Outs /\ Raw \cap Outs = {} /\ lists \in [Outs -> SUBSET Ids]
  BY CatalogAssumption DEF TypeOK
\* Nothing the promise reads has changed.
<1>k. ASSUME UNCHANGED <<present, unsynced, lists, catalog, replacedBy, retiring>>,
             phase' # "down" => phase # "down",
             unsynced \subseteq present,
             marker' # None => marker' = marker /\ stage' = stage
      PROVE  Apart'
  <2>2. Outputs' = Outputs /\ RetiringIds' = RetiringIds
    BY <1>k DEF Outputs, RetiringIds
  <2>3. ListsApart'
    BY <1>k, <2>2, <1>a DEF ListsApart
  <2>4. marker' # None => (OutputExists <=> OutputExists')
    BY <1>k DEF OutputExists
  <2>5. InputsApart'
    BY <1>k, <2>2, <2>4, <1>a DEF InputsApart
  <2> QED  BY <2>3, <2>5
<1>e. \A ok \in BOOLEAN : task.job # "none" /\ EndJob(ok) => (phase' # "down" => phase # "down")
  BY JobEnds DEF Ended
<1>1. ASSUME NEW r \in Raw,
             \/ CommitBegin(r) \/ CommitFail(r) \/ CommitPublish(r)
             \/ CommitSynced(r) \/ CommitSyncFail(r)
      PROVE  Apart'
  <2>0. /\ UNCHANGED <<task, phase, marker, stage, lists, replacedBy, retiring>>
        /\ r \in Ids \ Outs
    BY <1>1, <1>n, OthersStayOut DEF Commits, Ids
  <2>2. \/ UNCHANGED <<present, unsynced, catalog>>
        \/ UNCHANGED <<present, catalog>> /\ unsynced' = {}
        \/ /\ ~Published(r) /\ phase = "serving"
           /\ present' = present \cup {r} /\ catalog' = catalog \cup {r}
           /\ unsynced' \subseteq unsynced \cup {r}
    BY <1>1 DEF CommitBegin, CommitFail, CommitPublish, CommitSynced, CommitSyncFail,
                files, memory, ServingInv
  <2>4. Outputs' \subseteq Outputs
    BY <2>0, <2>2 DEF Outputs
  <2>5. ListsApart'
    <3>1. \A o \in present' \cap Outs : o \in present /\ lists[o] \cap catalog' = {}
      BY <2>0, <2>2, <1>a, <1>n DEF ListsApart, Published
    <3>2. unsynced' \subseteq present' \/ (task.at = "removing" /\ task.dirty)
      BY <2>2, <1>a DEF ListsApart
    <3> QED  BY <2>0, <2>4, <3>1, <3>2, <1>a DEF ListsApart
  <2>6. InputsApart'
    <3>1. marker # None => (OutputExists' <=> OutputExists)
      BY <2>0, <2>2, <1>m DEF OutputExists
    <3>2. marker # None /\ marker.out \notin unsynced => marker.out \notin unsynced'
      BY <2>0, <2>2, <1>m
    <3> QED  BY <2>0, <2>4, <3>1, <3>2, <1>r, <1>a DEF InputsApart
  <2> QED  BY <2>5, <2>6
<1>2. ASSUME UNCHANGED <<files, memory, task>> PROVE Apart'
  <2>1. UNCHANGED <<present, unsynced, lists, catalog, replacedBy, retiring,
                    phase, marker, stage, task>>
    BY <1>2 DEF files, memory
  <2>2. Outputs' = Outputs /\ RetiringIds' = RetiringIds /\ OutputExists' = OutputExists
    BY <2>1 DEF Outputs, RetiringIds, OutputExists
  <2> QED  BY <2>1, <2>2, <1>a DEF ListsApart, InputsApart
<1>3. CASE Reads
  BY <1>2, <1>3 DEF Reads, Pin, Capture, Unpin
<1>4. ASSUME NEW pass \in {"hourly", "cycle"}, StartPass(pass) PROVE Apart'
  <2>1. task.job = "none" /\ task.at = "start"
    BY <1>4 DEF StartPass, NoTask
  <2> QED  BY <2>1, <1>4, <1>k, <1>u DEF StartPass, files, memory
<1>5. CASE RecoverNothing
  BY <1>5, <1>k, <1>u, <1>e DEF RecoverNothing, At
<1>6. CASE RecoverResume
  BY <1>6, <1>k, <1>u DEF RecoverResume, At, files, memory
<1>7. CASE RecoverRefused
  BY <1>7, <1>k, <1>u, <1>e DEF RecoverRefused, At, files
<1>8. CASE RecoverRestore
  <2>1. /\ catalog' = catalog \cup marker.inputs /\ marker # None
        /\ UNCHANGED <<present, unsynced, lists, retiring, phase, marker, stage>>
        /\ ~OutputExists /\ task.job = "recover" /\ task.at = "start"
        /\ \A id \in Ids : replacedBy[id] # marker.out => replacedBy'[id] = replacedBy[id]
    BY <1>8 DEF RecoverRestore, At, files
  <2>3. Outputs' = Outputs /\ RetiringIds' = RetiringIds /\ OutputExists' = OutputExists
    BY <2>1 DEF Outputs, RetiringIds, OutputExists
  <2>4. marker.out \notin present
    BY <2>1 DEF OutputExists
  <2>5. ListsApart'
    <3>1. \A o \in present \cap Outs : o # marker.out /\ o \in Outputs /\ lists[o] \subseteq Ids
      BY <2>4, <1>n DEF Outputs
    <3> QED  BY <2>1, <2>3, <3>1, <1>a, <1>u DEF ListsApart, InputsApart
  <2>6. InputsApart'
    BY <2>1, <2>3, <1>a DEF InputsApart
  <2> QED  BY <2>5, <2>6
<1>9. CASE PublishReplacement \/ PublishUnsynced
  <2>1. task.at = "publish" /\ SwapReplacement
    BY <1>9 DEF PublishReplacement, PublishUnsynced
  <2>2. /\ marker # None /\ marker' = marker /\ OutputExists
        /\ present' = present \cup {marker.out}
        /\ catalog' = (catalog \ marker.inputs) \cup {marker.out}
        /\ task.job \in {"recover", "compact"}
    BY <2>1, SwapLists DEF SwapReplacement, TaskInv
  <2>3. lists'[marker.out] = marker.inputs /\ \A o \in Outs \ {marker.out} : lists'[o] = lists[o]
    <3>1. CASE stage = marker.out
      BY <2>1, <3>1, <1>m, <1>n, <2>2 DEF SwapReplacement
    <3>2. CASE stage # marker.out
      <4>1. marker.out \in Outputs
        BY <2>2, <3>2, <1>m DEF OutputExists, Outputs
      <4> QED  BY <2>1, <2>2, <3>2, <4>1, <1>a DEF SwapReplacement, InputsApart
    <3> QED  BY <3>1, <3>2
  <2>4. \A id \in Ids : replacedBy'[id] = IF id \in marker.inputs THEN marker.out ELSE replacedBy[id]
    BY <2>1 DEF SwapReplacement
  <2>5. unsynced' \subseteq unsynced \cup {marker.out} /\ (phase' # "down" => phase # "down")
    BY <1>9, <2>2, <1>e DEF PublishReplacement, PublishUnsynced
  <2>6. Outputs' \subseteq Outputs \cup {marker.out}
    BY <2>2, <2>5 DEF Outputs
  <2>8. ListsApart'
    <3>1. \A o \in Outputs \ {marker.out} :
             lists'[o] = lists[o] /\ lists[o] \cap marker.inputs = {} /\ o \in Outs
      BY <2>2, <2>3, <1>a DEF InputsApart, Outputs
    <3>2. \A o \in (present' \cap Outs) \ {marker.out} :
             o \in Outputs /\ o \in present /\ marker.out \notin lists[o]
      BY <2>2, <1>m DEF Outputs, Listed
    <3>3. \A o1, o2 \in Outputs' : o1 # o2 => lists'[o1] \cap lists'[o2] = {}
      BY <2>3, <2>6, <3>1, <1>a DEF ListsApart
    <3>4. \A o \in present' \cap Outs : lists'[o] \cap catalog' = {}
      BY <2>2, <2>3, <3>1, <3>2, <1>a, <1>m DEF ListsApart
    <3>5. phase' # "down" => \A o \in present' \cap Outs : \A id \in lists'[o] : replacedBy'[id] = o
      <4>1. ASSUME phase' # "down", NEW o \in present' \cap Outs, NEW id \in lists'[o]
            PROVE  replacedBy'[id] = o
        <5>1. CASE o = marker.out
          BY <5>1, <4>1, <2>3, <2>4, <1>m, <2>2
        <5>2. CASE o # marker.out
          <6>1. id \in lists[o] /\ id \notin marker.inputs /\ o \in present /\ id \in Ids
            BY <5>2, <4>1, <3>1, <3>2, <1>n
          <6> QED  BY <6>1, <4>1, <2>4, <2>5, <1>a DEF ListsApart
        <5> QED  BY <5>1, <5>2
      <4> QED  BY <4>1
    <3>6. unsynced' \subseteq present'
      BY <2>1, <2>2, <2>5, <1>u
    <3> QED  BY <3>3, <3>4, <3>5, <3>6 DEF ListsApart
  <2>9. InputsApart'
    <3>1. OutputExists'
      BY <2>2 DEF OutputExists
    <3>2. \A o \in Outputs' \ {marker.out} : lists'[o] \cap marker.inputs = {}
      BY <2>2, <2>3, <2>6, <1>a DEF InputsApart, Outputs
    <3> QED  BY <2>2, <2>3, <3>1, <3>2, <1>a DEF InputsApart
  <2> QED  BY <2>8, <2>9
<1>10. CASE PublishRefused
  BY <1>10, <1>k, <1>u, <1>e DEF PublishRefused, TaskInv, files
<1>11. ASSUME NEW ok \in BOOLEAN, Unmark(ok) PROVE Apart'
  BY <1>11, <1>f, <1>k, <1>u DEF Unmark, TaskInv
<1>12. ASSUME NEW S \in SUBSET catalog, NEW o \in Outs, Merge(S, o) PROVE Apart'
  BY <1>12, <1>k, <1>u DEF Merge, At, TaskInv, memory
<1>13. CASE MergeFail
  BY <1>13, <1>k, <1>u, <1>e DEF MergeFail, At, TaskInv
<1>14. CASE CompactNothing
  BY <1>14, <1>k, <1>u, <1>e DEF CompactNothing, At, files

<1>15. ASSUME NEW ok \in BOOLEAN, WriteMarker(ok) PROVE Apart'
  <2>1. /\ marker' = [out |-> stage, inputs |-> task.ids] /\ stage' = stage
        /\ UNCHANGED <<present, unsynced, lists, catalog, replacedBy, retiring, phase>>
        /\ task.at = "merged" /\ task.job = "compact"
    BY <1>15, <1>f DEF WriteMarker, At
  <2>2. stage \notin Used /\ task.ids \subseteq catalog
    BY <2>1 DEF FreshInv
  <2>3. marker'.out = stage /\ marker'.inputs = task.ids
    BY <2>1
  <2>4. unsynced \subseteq present
    BY <2>1, <1>u
  <2>5. Outputs' = Outputs /\ stage \notin Outputs
    BY <2>1, <2>2 DEF Outputs, Used
  <2>6. ListsApart'
    BY <2>1, <2>4, <2>5, <1>a DEF ListsApart
  <2>7. OutputExists'
    BY <2>1, <2>3 DEF OutputExists
  <2>8. \A o \in Outputs : lists[o] \cap task.ids = {}
    BY <2>2, <2>4, <1>a DEF ListsApart, Outputs
  <2>9. InputsApart'
    BY <2>1, <2>2, <2>3, <2>4, <2>5, <2>7, <2>8 DEF InputsApart
  <2> QED  BY <2>6, <2>9
<1>16. CASE PruneSwap
  <2>1. /\ catalog' \subseteq catalog /\ marker = None /\ marker' = marker
        /\ UNCHANGED <<present, unsynced, lists, replacedBy, phase>> /\ task.at = "start"
    BY <1>16 DEF PruneSwap, At, files, TaskInv
  <2>2. Outputs' = Outputs
    BY <2>1 DEF Outputs
  <2> QED  BY <2>1, <2>2, <1>a, <1>u DEF ListsApart, InputsApart
<1>17. CASE PruneNothing
  BY <1>17, <1>k, <1>u, <1>e DEF PruneNothing, At, files
<1>18. ASSUME NEW id \in Ids, PruneMark(id) PROVE Apart'
  BY <1>18, <1>k, <1>u DEF PruneMark, At, memory
<1>19. CASE CollectBegin
  BY <1>19, <1>k, <1>u DEF CollectBegin, At, files, memory
<1>20. ASSUME NEW id \in Ids, RemoveRetired(id) PROVE Apart'
  <2>1. /\ id \in RetiringIds /\ id \in task.due \cup Ids
        /\ present' = present \ {id} /\ unsynced' \subseteq unsynced \cup {id}
        /\ (id \notin present => unsynced' \subseteq unsynced)
        /\ UNCHANGED <<lists, catalog, retiring, phase, marker, stage>>
        /\ task'.at = "removing" /\ task'.dirty /\ task.job = "collect"
        /\ \A i \in Ids : replacedBy'[i] = IF replacedBy[i] = id THEN None ELSE replacedBy[i]
    BY <1>20 DEF RemoveRetired, DueInv, RetiringIds, At, Tasks
  <2>2. Outputs' \subseteq Outputs
    BY <2>1 DEF Outputs
  <2>4. ListsApart'
    <3>1. \A o \in present' \cap Outs : o \in present /\ o # id /\ lists[o] \subseteq Ids
      BY <2>1, <1>n
    <3> QED  BY <2>1, <2>2, <3>1, <1>a DEF ListsApart
  <2>5. InputsApart'
    <3>1. marker # None => marker.out # id
      BY <2>1, <1>m
    <3>2. marker # None => (OutputExists' <=> OutputExists)
      BY <2>1, <3>1 DEF OutputExists
    <3> QED  BY <2>1, <2>2, <3>1, <3>2, <1>r, <1>a DEF InputsApart
  <2> QED  BY <2>4, <2>5
<1>21. ASSUME NEW ok \in BOOLEAN, NEW synced \in BOOLEAN, CollectEnd(ok, synced) PROVE Apart'
  <2>1. /\ UNCHANGED <<present, lists, catalog, replacedBy, marker, stage>>
        /\ unsynced' \subseteq unsynced /\ task.job = "collect"
        /\ (~task.dirty \/ unsynced' = {})
    BY <1>21, <1>f DEF CollectEnd, At
  <2>2. phase' # "down" => phase # "down"
    <3>1. (ok /\ synced) \in BOOLEAN  OBVIOUS
    <3> QED  BY <1>21, <2>1, <3>1, <1>e DEF CollectEnd
  <2>3. Outputs' \subseteq Outputs /\ RetiringIds' \subseteq RetiringIds
        /\ OutputExists' = OutputExists /\ unsynced' \subseteq present'
    <3>1. RetiringIds' \subseteq RetiringIds
      BY <1>21 DEF CollectEnd, RetiringIds
    <3> QED  BY <2>1, <3>1, <1>a DEF Outputs, OutputExists, ListsApart
  <2>5. ListsApart'
    BY <2>1, <2>2, <2>3, <1>a DEF ListsApart
  <2>6. InputsApart'
    BY <2>1, <2>3, <1>a DEF InputsApart
  <2> QED  BY <2>5, <2>6
<1>22. CASE Crash
  <2>1. /\ present' \subseteq present \cup unsynced /\ unsynced' = {} /\ catalog' = {}
        /\ UNCHANGED lists /\ phase' = "down" /\ marker' = marker
        /\ RetiringIds' = {}
    BY <1>22, CatalogAssumption DEF Crash, RetiringIds, MarkerInv, TypeOK
  <2>2. Outputs' \subseteq Outputs
    BY <2>1 DEF Outputs
  <2> QED  BY <2>1, <2>2, <1>a DEF ListsApart, InputsApart
<1>23. CASE OpenStore
  <2>1. /\ UNCHANGED <<present, lists, stage, marker>> /\ unsynced' = {}
        /\ catalog' = present \ RetiredAtLoad
        /\ RetiringIds' \subseteq RetiredAtLoad
    BY <1>23 DEF OpenStore, RetiringIds
  <2>2. Outputs' \subseteq Outputs /\ OutputExists' = OutputExists
        /\ present \cap Outs \subseteq Outputs
    BY <2>1 DEF Outputs, OutputExists
  <2>3. \A o \in present \cap Outs : \A id \in lists[o] : replacedBy'[id] = o
    <3>1. ASSUME NEW o \in present \cap Outs, NEW id \in lists[o] PROVE replacedBy'[id] = o
      <4>1. {p \in present \cap Outs : id \in lists[p]} = {o}
        BY <3>1, <2>2, <1>a DEF ListsApart
      <4>2. id \in Ids
        BY <1>n
      <4> QED  BY <1>23, <4>1, <4>2 DEF OpenStore
    <3> QED  BY <3>1
  <2>5. ListsApart'
    <3>1. \A o \in present \cap Outs : lists[o] \cap catalog' = {}
      BY <2>1 DEF RetiredAtLoad
    <3> QED  BY <2>1, <2>2, <2>3, <3>1, <1>a DEF ListsApart
  <2>6. InputsApart'
    <3>1. marker # None /\ ~OutputExists => marker.inputs \cap RetiredAtLoad = {}
      <4>1. marker # None /\ ~OutputExists => marker.inputs \cap marked = {}
        BY <1>23 DEF OpenStore, MarkerInv, Tolerated, RollbackInv, MarksApart
      <4> QED  BY <2>2, <4>1, <1>a DEF InputsApart, RetiredAtLoad, OutputExists
    <3> QED  BY <2>1, <2>2, <3>1, <1>a DEF InputsApart
  <2> QED  BY <2>5, <2>6
<1>24. CASE UNCHANGED vars
  BY <1>2, <1>24 DEF vars
<1> QED  BY <1>1, <1>3, <1>4, <1>5, <1>6, <1>7, <1>8, <1>9, <1>10, <1>11, <1>12, <1>13, <1>14,
            <1>15, <1>16, <1>17, <1>18, <1>19, <1>20, <1>21, <1>22, <1>23, <1>24
         DEF Next, Commits, Maintenance, Recover, Replace, Compact, Prune, Collect

(* No directory is left without a name: it leaves the catalog for a        *)
(* retirement or for the pending compaction's inputs, and a retirement is  *)
(* dropped only when its directories are gone.                             *)
LEMMA NextNamespace ==
  ASSUME TypeOK, TaskInv, MarkerInv, DueInv, NamespaceInv, [Next]_vars
  PROVE  NamespaceInv'
<1> USE TypeParts
<1>r. retiring' = retiring => RetiringIds' = RetiringIds
  BY DEF RetiringIds
<1>a. /\ task.at # "removing" => task.gone = {}
      /\ task.gone \subseteq RetiringIds /\ task.gone \cap present = {}
  BY DEF NamespaceInv
<1>b. ASSUME phase # "down", NEW id \in present
      PROVE  \/ id \in catalog \cup RetiringIds
             \/ marker # None /\ id \in marker.inputs /\ replacedBy[id] = marker.out
  BY <1>b DEF NamespaceInv
<1>u. task.at = "unmark" => marker.inputs \cap present \subseteq catalog \cup RetiringIds
  BY DEF NamespaceInv
<1>e. \A ok \in BOOLEAN : task.job # "none" /\ EndJob(ok) =>
        /\ task'.at = "start" /\ task'.gone = {}
        /\ phase' # "down" => phase # "down"
  BY JobEnds DEF Ended
\* The directories and their names are as they were.
<1>k. ASSUME UNCHANGED <<present, catalog, retiring, replacedBy>>, marker' = marker \/ marker = None,
             phase' # "down" => phase # "down", task'.at \notin {"removing", "unmark"},
             task'.gone = {}
      PROVE  NamespaceInv'
  BY <1>k, <1>r, <1>b DEF NamespaceInv
<1>1. CASE Commits
  <2>1. /\ UNCHANGED <<task, phase, marker, replacedBy, retiring>>
        /\ catalog \subseteq catalog' /\ RetiringIds' = RetiringIds
    BY <1>1, <1>r, OthersStayOut
  <2>2. /\ present' \ present \subseteq catalog'
        /\ (present' \ present) \cap RetiringIds = {}
    BY <1>1 DEF Commits, CommitBegin, CommitFail, CommitPublish, CommitSynced, CommitSyncFail,
       Published, files
  <2> QED  BY <2>1, <2>2, <1>a, <1>b, <1>u DEF NamespaceInv
<1>2. ASSUME UNCHANGED <<files, memory, task>> PROVE NamespaceInv'
  <2>1. UNCHANGED <<present, catalog, retiring, replacedBy, marker, phase, task>>
    BY <1>2 DEF files, memory
  <2> QED  BY <2>1, <1>r, <1>a, <1>b, <1>u DEF NamespaceInv
<1>3. CASE Reads
  BY <1>2, <1>3 DEF Reads, Pin, Capture, Unpin
<1>4. ASSUME NEW pass \in {"hourly", "cycle"}, StartPass(pass) PROVE NamespaceInv'
  BY <1>4, <1>k DEF StartPass, NoTask, files, memory
<1>5. CASE Recover
  <2>1. CASE RecoverNothing
    BY <2>1, <1>k, <1>e DEF RecoverNothing, At
  <2>2. CASE RecoverResume
    <3>1. task'.at = "publish" /\ task'.gone = task.gone
      BY <2>2 DEF RecoverResume, Tasks
    <3> QED  BY <2>2, <3>1, <1>k, <1>a DEF RecoverResume, At, files, memory
  <2>3. CASE RecoverRefused
    BY <2>3, <1>k, <1>e DEF RecoverRefused, At, files
  <2>4. CASE RecoverRestore
    <3>1. /\ UNCHANGED <<present, retiring, phase, marker>> /\ catalog' = catalog \cup marker.inputs
          /\ task'.at = "unmark" /\ task'.gone = {}
      BY <2>4, <1>a DEF RecoverRestore, At, files, Tasks
    <3> QED  BY <3>1, <1>r, <1>b DEF NamespaceInv
  <2> QED  BY <1>5, <2>1, <2>2, <2>3, <2>4 DEF Recover
<1>6. CASE PublishReplacement \/ PublishUnsynced
  <2>1. task.at = "publish" /\ SwapReplacement /\ task.job # "none" /\ task.gone = {}
    BY <1>6, <1>a DEF PublishReplacement, PublishUnsynced, TaskInv
  <2>2. /\ marker # None /\ marker' = marker /\ present' = present \cup {marker.out}
        /\ catalog' = (catalog \ marker.inputs) \cup {marker.out}
    BY <2>1, SwapLists
  <2>3. \A id \in Ids : replacedBy'[id] = IF id \in marker.inputs THEN marker.out ELSE replacedBy[id]
    BY <2>1 DEF SwapReplacement
  <2>4. present \subseteq Ids
    BY DEF TypeOK
  <2>5. ASSUME RetiringIds \subseteq RetiringIds', phase' # "down" => phase # "down"
        PROVE  phase' # "down" =>
                 \A id \in present' :
                   \/ id \in catalog' \cup RetiringIds'
                   \/ marker' # None /\ id \in marker'.inputs /\ replacedBy'[id] = marker'.out
    BY <2>2, <2>3, <2>4, <2>5, <1>b
  <2>6. CASE PublishReplacement
    <3> DEFINE S == marker.inputs \cap (catalog \cup present)
    <3>1. RetiringIds' = RetiringIds \cup S
      <4>1. Retire(S)
        BY <2>6 DEF PublishReplacement
      <4> QED  BY <4>1, RetireIds
    <3>2. task'.at = "unmark" /\ task'.gone = {} /\ phase' = phase
      BY <2>6, <2>1 DEF PublishReplacement, Tasks
    <3>3. marker.inputs \cap present' \subseteq catalog' \cup RetiringIds'
      BY <2>2, <3>1
    <3> QED  BY <2>2, <2>5, <3>1, <3>2, <3>3 DEF NamespaceInv
  <2>7. CASE PublishUnsynced
    <3>1. retiring' = retiring /\ task'.at = "start" /\ task'.gone = {}
          /\ (phase' # "down" => phase # "down")
      BY <2>7, <2>1, <1>e DEF PublishUnsynced
    <3> QED  BY <2>5, <3>1, <1>r DEF NamespaceInv
  <2> QED  BY <1>6, <2>6, <2>7
<1>7. CASE PublishRefused
  BY <1>7, <1>k, <1>e DEF PublishRefused, TaskInv, files
<1>8. ASSUME NEW ok \in BOOLEAN, Unmark(ok) PROVE NamespaceInv'
  <2>1. /\ UNCHANGED <<present, catalog, retiring>> /\ task'.at = "start" /\ task'.gone = {}
        /\ (phase' # "down" => phase # "down")
    <3>1. task.job # "none" /\ NoTask.at = "start" /\ NoTask.gone = {}
      BY <1>8 DEF Unmark, TaskInv, NoTask
    <3>2. [NoTask EXCEPT !.pass = task.pass, !.job = task.job].at = "start"
          /\ [NoTask EXCEPT !.pass = task.pass, !.job = task.job].gone = {}
      BY DEF NoTask
    <3> QED  BY <1>8, <3>1, <3>2, <1>e DEF Unmark
  <2>2. phase # "down" => present \subseteq catalog \cup RetiringIds
    BY <1>8, <1>b, <1>u DEF Unmark
  <2> QED  BY <2>1, <2>2, <1>r DEF NamespaceInv
<1>9. CASE Compact
  <2>1. ASSUME NEW S \in SUBSET catalog, NEW o \in Outs, Merge(S, o) PROVE NamespaceInv'
    <3>1. task'.at = "merged" /\ task'.gone = {}
      BY <2>1, <1>a DEF Merge, At, Tasks
    <3> QED  BY <2>1, <3>1, <1>k DEF Merge, memory
  <2>2. CASE MergeFail
    BY <2>2, <1>k, <1>e DEF MergeFail, At
  <2>3. CASE CompactNothing
    BY <2>3, <1>k, <1>e DEF CompactNothing, At, files
  <2>4. ASSUME NEW ok \in BOOLEAN, WriteMarker(ok) PROVE NamespaceInv'
    <3>1. task'.at \in {"start", "publish"} /\ task'.gone = {} /\ (phase' # "down" => phase # "down")
      <4>1. [task EXCEPT !.at = "publish"].at = "publish"
            /\ [task EXCEPT !.at = "publish"].gone = task.gone
        BY DEF Tasks
      <4> QED  BY <2>4, <4>1, <1>a, <1>e DEF WriteMarker, At
    <3>2. marker = None /\ UNCHANGED <<present, catalog, retiring, replacedBy>>
      BY <2>4 DEF WriteMarker, At, TaskInv
    <3> QED  BY <3>1, <3>2, <1>k
  <2> QED  BY <1>9, <2>1, <2>2, <2>3, <2>4 DEF Compact
<1>10. CASE Prune
  <2>1. CASE PruneSwap
    <3>1. RetiringIds' = RetiringIds \cup task.ids /\ catalog' = catalog \ task.ids
          /\ UNCHANGED <<present, marker, replacedBy, phase>>
      BY <2>1, RetireIds DEF PruneSwap, files
    <3>2. task'.at = "start" /\ task'.gone = {}
      BY <2>1, <1>a DEF PruneSwap, At, Tasks
    <3> QED  BY <3>1, <3>2, <1>b DEF NamespaceInv
  <2>2. CASE PruneNothing
    BY <2>2, <1>k, <1>e DEF PruneNothing, At, files
  <2>3. ASSUME NEW id \in Ids, PruneMark(id) PROVE NamespaceInv'
    <3>1. task'.at = "start" /\ task'.gone = {}
      BY <2>3, <1>a DEF PruneMark, At, Tasks
    <3> QED  BY <2>3, <3>1, <1>k DEF PruneMark, memory
  <2> QED  BY <1>10, <2>1, <2>2, <2>3 DEF Prune
<1>11. CASE CollectBegin
  <2>1. task'.gone = {} /\ task'.at = "removing"
    BY <1>11, <1>a DEF CollectBegin, At, Tasks
  <2> QED  BY <1>11, <2>1, <1>r, <1>b DEF CollectBegin, files, memory, NamespaceInv
<1>12. ASSUME NEW id \in Ids, RemoveRetired(id) PROVE NamespaceInv'
  <2>1. /\ id \in RetiringIds /\ present' = present \ {id}
        /\ UNCHANGED <<catalog, retiring, phase, marker>>
        /\ task'.at = "removing" /\ task'.gone = task.gone \cup {id}
        /\ \A i \in Ids : replacedBy'[i] = IF replacedBy[i] = id THEN None ELSE replacedBy[i]
    BY <1>12 DEF RemoveRetired, DueInv, RetiringIds, At, Tasks
  <2>2. marker # None => marker.out # id
    BY <2>1 DEF MarkerInv
  <2>3. present \subseteq Ids
    BY DEF TypeOK
  <2> QED  BY <2>1, <2>2, <2>3, <1>a, <1>b, <1>r DEF NamespaceInv
<1>13. ASSUME NEW ok \in BOOLEAN, NEW synced \in BOOLEAN, CollectEnd(ok, synced) PROVE NamespaceInv'
  <2>1. (ok /\ synced) \in BOOLEAN  OBVIOUS
  <2>2. /\ UNCHANGED <<present, catalog, marker, replacedBy>>
        /\ task'.at = "start" /\ task'.gone = {} /\ (phase' # "down" => phase # "down")
    BY <1>13, <2>1, <1>e DEF CollectEnd, At
  <2>3. RetiringIds \subseteq RetiringIds' \cup task.gone
    BY <1>13 DEF CollectEnd, RetiringIds, Removed
  <2> QED  BY <2>2, <2>3, <1>a, <1>b DEF NamespaceInv
<1>14. CASE Crash
  BY <1>14 DEF Crash, NoTask, NamespaceInv
<1>15. CASE OpenStore
  <2>1. RetiringIds' = RetiredAtLoad
    <3>1. CASE RetiredAtLoad = {}
      BY <1>15, <3>1 DEF OpenStore, RetiringIds
    <3>2. CASE RetiredAtLoad # {}
      <4> DEFINE new == [epoch |-> 0, ids |-> RetiredAtLoad]
      <4>1. retiring' = {new} /\ new.ids = RetiredAtLoad
        BY <1>15, <3>2 DEF OpenStore
      <4> HIDE DEF new
      <4>2. \A id : id \in RetiringIds' <=> id \in new.ids
        BY <4>1 DEF RetiringIds
      <4> QED  BY <4>1, <4>2
    <3> QED  BY <3>1, <3>2
  <2>2. task'.at = "start" /\ task'.gone = {} /\ present' = present
        /\ catalog' = present \ RetiredAtLoad
    BY <1>15 DEF OpenStore, NoTask
  <2> QED  BY <2>1, <2>2 DEF NamespaceInv
<1>16. CASE UNCHANGED vars
  BY <1>2, <1>16 DEF vars
<1> QED  BY <1>1, <1>3, <1>4, <1>5, <1>6, <1>7, <1>8, <1>9, <1>10, <1>11, <1>12, <1>13, <1>14,
            <1>15, <1>16
         DEF Next, Maintenance, Replace, Collect

-----------------------------------------------------------------------------
(* Rows: the invariant behind what queries count and what an answer        *)
(* promises.                                                               *)

\* The failures under which no row is lost or counted twice.  With a commit
\* retried after a failed fsync the catalog answers for a directory that is
\* not durable, and may answer for it twice.
Reliable ==
  /\ Ordered
  /\ "vanish" \in Faults => "pruneRefused" \notin Faults
  /\ "commitSync" \in Faults => MaxAttempts = 1

\* A restart leaves the batch out, whatever a power loss keeps.
Covered(id) == id \in marked \/ \E o \in (present \ unsynced) \cap Outs : id \in lists[o]

\* What is read now, or after a power loss, or once the pending compaction
\* is completed or rolled back.
Standing == catalog \cup {id \in present \cup unsynced : ~Covered(id)}
Pending == IF marker = None THEN {} ELSE {marker.out} \cup marker.inputs
Held == Standing \cup Pending

\* Two batches of which the pending compaction keeps one.
Alternatives(i, j) ==
  marker # None /\ (\/ i = marker.out /\ j \in marker.inputs
                    \/ j = marker.out /\ i \in marker.inputs)

\* Retirements are ordered by epoch, and a batch is never retired after an
\* output that lists it.
EpochInv ==
  /\ \A r \in retiring : r.epoch < epoch
  /\ \A r, s \in retiring : r.epoch = s.epoch => r = s
  /\ \A r, s \in retiring : \A o \in r.ids \cap present \cap Outs :
       lists[o] \cap s.ids # {} => s.epoch <= r.epoch
  /\ \A r \in task.due, s \in retiring : s.epoch < r.epoch => s \in task.due
  /\ \A o \in Outs : o \notin lists[o]

\* What is retired stays out after a power loss; an output not yet durable is
\* the pending one, and one that may come back lists nothing durable.
CoverInv ==
  /\ \A id \in RetiringIds \cap present : Covered(id)
  /\ \A o \in unsynced \cap Outs :
       IF o \in present THEN marker # None /\ o = marker.out /\ task.at # "unmark"
       ELSE lists[o] \cap (present \ unsynced) = {}

\* A commit at its fsync is in the catalog and holds the gate.
GateInv == \A r \in Raw : commit[r] = "syncing" => gate = r /\ r \in catalog

\* An output holds what its inputs hold.
MergedInv ==
  /\ marker # None => rows[marker.out] = RowsOf(marker.inputs)
  /\ task.at = "merged" => rows[stage] = RowsOf(task.ids)

\* Retention takes out what it has marked.
ChosenInv == task.job = "prune" => task.ids \subseteq marked

\* A row whose commit synced is in a durable directory no restart leaves out.
FsyncedInv ==
  \A r \in fsynced \ expiring :
    \E id \in present \ unsynced : ~Covered(id) /\ r \in RowsIn(id)

KeptInv == EpochInv /\ CoverInv /\ GateInv /\ MergedInv /\ ChosenInv /\ FsyncedInv

\* A commit that has not reached its rename left no trace.
UnbegunInv ==
  \A r \in Raw :
    commit[r] \in {"idle", "prepared"} =>
      /\ r \notin Used \cup hidden /\ replacedBy[r] = None
      /\ \A o \in Outs : r \notin rows[o]

\* No row is held twice, but for the two sides of the pending compaction.
HeldInv ==
  /\ \A i, j \in Held : i # j => RowsIn(i) \cap RowsIn(j) = {} \/ Alternatives(i, j)
  /\ task.at = "unmark" => marker.out \notin Standing \/ marker.inputs \cap Standing = {}

\* Retention's marks are recorded before what they mark leaves the catalog.
ExpiryInv ==
  /\ RowsOf(marked) \subseteq expiring
  /\ hidden \cap RowsOf(Held) = {}

\* No answer came without its fsync.
AnsweredInv == acked = fsynced

RowsInv == KeptInv /\ UnbegunInv /\ HeldInv /\ ExpiryInv /\ AnsweredInv

LEMMA ReliableIsTolerated ==
  Reliable => Tolerated /\ Ordered
  BY DEF Reliable, Tolerated, Ordered

(* What a step of a commit can be when no retry meets a failed fsync.      *)
LEMMA CommitCases ==
  ASSUME Reliable, TypeOK, ServingInv, UnbegunInv, NEW r \in Raw,
         \/ CommitBegin(r) \/ CommitFail(r) \/ CommitPublish(r)
         \/ CommitSynced(r) \/ CommitSyncFail(r)
  PROVE  /\ UNCHANGED <<task, phase, marker, savedMarker, stage, marked, lists, rows, replacedBy,
                        retiring, epoch, expiring, hidden>>
         /\ \A s \in Raw \ {r} : commit'[s] = commit[s]
         /\ \/ /\ commit[r] \in {"idle", "prepared"} /\ commit'[r] \in {"idle", "prepared", "failed"}
               /\ UNCHANGED <<present, unsynced, catalog, gate, acked>>
            \/ /\ commit[r] = "prepared" /\ commit'[r] = "syncing" /\ gate = None /\ gate' = r
               /\ present' = present \cup {r} /\ unsynced' = unsynced \cup {r}
               /\ catalog' = catalog \cup {r} /\ acked' = acked
            \/ /\ commit[r] = "syncing" /\ commit'[r] = "done" /\ gate' = None
               /\ unsynced' = {} /\ acked' = acked \cup {r} /\ UNCHANGED <<present, catalog>>
            \/ /\ commit[r] = "syncing" /\ commit'[r] = "failed" /\ gate' = None
               /\ UNCHANGED <<present, unsynced, catalog, acked>>
<1>1. UNCHANGED <<task, phase, marker, savedMarker, stage, marked, lists, rows, replacedBy,
                  retiring, epoch, expiring, hidden>>
  BY DEF CommitBegin, CommitFail, CommitPublish, CommitSynced, CommitSyncFail, files, memory, history
<1>2. \A s \in Raw \ {r} : commit'[s] = commit[s]
  BY DEF CommitBegin, CommitFail, CommitPublish, CommitSynced, CommitSyncFail, TypeOK
<1>3. commit[r] \in {"idle", "prepared"} => ~Published(r) /\ r \notin present
  BY DEF UnbegunInv, Published, Used
<1>4. CASE CommitBegin(r)
  BY <1>1, <1>2, <1>3, <1>4 DEF CommitBegin, files, memory, TypeOK
<1>5. CASE CommitFail(r)
  BY <1>1, <1>2, <1>5 DEF CommitFail, AttemptOver, files, memory, history, TypeOK
<1>6. CASE CommitPublish(r)
  BY <1>1, <1>2, <1>3, <1>6 DEF CommitPublish, TypeOK
<1>7. CASE CommitSynced(r)
  BY <1>1, <1>2, <1>7 DEF CommitSynced, TypeOK
<1>8. CASE CommitSyncFail(r)
  <2>1. MaxAttempts = 1 /\ attempts[r] \in 0..MaxAttempts /\ attempts[r] > 0
    BY <1>8 DEF CommitSyncFail, Reliable, ServingInv, TypeOK
  <2>2. AttemptOver(r) = "failed"
    BY <2>1 DEF AttemptOver, AttemptsLeft
  <2> QED  BY <1>1, <1>2, <1>8, <2>2 DEF CommitSyncFail, files, history, TypeOK
<1> QED  BY <1>4, <1>5, <1>6, <1>7, <1>8

(* Names in use keep their rows.                                           *)
LEMMA RowsKept ==
  ASSUME TypeOK, TaskInv, FreshInv, [Next]_vars
  PROVE  \A id \in Used : RowsIn(id)' = RowsIn(id)
<1>1. \A id \in Used \ Raw : rows'[id] = rows[id]
  <2>0. Used \ Raw \subseteq Outs
    BY DEF Used, TypeOK, Ids, RetiringIds, Retirements, Listed, Markers
  <2>1. CASE MergeFail
    <3>1. stage \notin Used /\ stage \in Outs
      BY <2>1 DEF MergeFail, At, FreshInv, TaskInv
    <3> QED  BY <2>0, <2>1, <3>1 DEF MergeFail, TypeOK
  <2>2. ASSUME NEW S \in SUBSET catalog, NEW o \in Outs, Merge(S, o)
        PROVE  \A id \in Used \ Raw : rows'[id] = rows[id]
    <3>1. o \notin Used
      BY <2>2 DEF Merge, FreshInv
    <3> QED  BY <2>0, <2>2, <3>1 DEF Merge, TypeOK
  <2>3. ASSUME ~MergeFail, \A S \in SUBSET catalog, o \in Outs : ~Merge(S, o)
        PROVE  rows' = rows
    BY <2>3, MergeUndisturbed
  <2> QED  BY <2>1, <2>2, <2>3
<1> QED  BY <1>1 DEF RowsIn

LEMMA RowsOfKept ==
  ASSUME TypeOK, TaskInv, FreshInv, [Next]_vars, NEW S, S \subseteq Used
  PROVE  UNION {RowsIn(id)' : id \in S} = RowsOf(S)
  BY RowsKept DEF RowsOf

(* A commit holds the gate from its rename to its fsync, and no swap of    *)
(* the catalog passes it.                                                  *)
LEMMA GateFrame ==
  ASSUME Maintenance
  PROVE  gate' = gate /\ (gate # None => catalog' = catalog)
<1>1. CASE \E pass \in {"hourly", "cycle"} : StartPass(pass)
  BY <1>1 DEF StartPass, memory
<1>2. CASE Recover
  BY <1>2 DEF Recover, RecoverNothing, RecoverResume, RecoverRestore, RecoverRefused, memory
<1>3. CASE Replace
  BY <1>3 DEF Replace, PublishReplacement, PublishUnsynced, PublishRefused, SwapReplacement, Unmark
<1>4. CASE Compact
  BY <1>4 DEF Compact, Merge, MergeFail, CompactNothing, WriteMarker, memory
<1>5. CASE Prune
  BY <1>5 DEF Prune, PruneSwap, PruneNothing, PruneMark, memory
<1>6. CASE Collect
  BY <1>6 DEF Collect, CollectBegin, RemoveRetired, CollectEnd, memory
<1> QED  BY <1>1, <1>2, <1>3, <1>4, <1>5, <1>6 DEF Maintenance

LEMMA MarkerStays ==
  ASSUME TypeOK, TaskInv, marker' = marker, NEW ok \in BOOLEAN
  PROVE  ~WriteMarker(ok)
<1> SUFFICES ASSUME WriteMarker(ok) PROVE FALSE
  OBVIOUS
<1>1. marker = None /\ marker' = [out |-> stage, inputs |-> task.ids] /\ stage \in Outs
  BY DEF WriteMarker, At, TaskInv
<1>2. task.ids \in SUBSET Ids
  BY TypeParts
<1>3. marker' \in [out : Outs, inputs : SUBSET (Raw \cup Outs)]
  BY <1>1, <1>2 DEF Ids
<1> QED  BY <1>1, <1>3, CatalogAssumption

(* The marker appears with its stage, and what it names was in use.        *)
LEMMA MarkerWritten ==
  ASSUME TypeOK, TaskInv, FreshInv, NEW ok \in BOOLEAN, WriteMarker(ok)
  PROVE  /\ marker = None /\ marker' # None /\ task.ids \subseteq catalog
         /\ marker'.out = stage /\ marker'.inputs = task.ids /\ stage \in Outs \ Used
         /\ UNCHANGED <<present, unsynced, marked, lists, rows, catalog, replacedBy, retiring,
                        epoch, gate, commit, attempts, history>>
         /\ Used' = Used \cup {stage}
<1>1. /\ marker = None /\ marker' = [out |-> stage, inputs |-> task.ids] /\ stage \in Outs \ Used
      /\ task.ids \subseteq catalog
  BY DEF WriteMarker, At, TaskInv, FreshInv
<1>2. marker' # None
  BY <1>1, MarkerStays
<1>3. UNCHANGED <<present, unsynced, marked, lists, rows, catalog, replacedBy, retiring,
                  epoch, gate, commit, attempts, history>>
  BY DEF WriteMarker
<1>4. marker'.out = stage /\ marker'.inputs = task.ids
  BY <1>1
<1>5. Used' = present \cup unsynced \cup catalog \cup marked \cup RetiringIds \cup Listed
              \cup {stage} \cup task.ids
  BY <1>2, <1>3, <1>4 DEF Used, Listed, RetiringIds
<1>6. Used' = Used \cup {stage}
  BY <1>1, <1>5 DEF Used
<1> QED  BY <1>1, <1>2, <1>3, <1>4, <1>6

(* A record is changed by a publication, forgotten, or read at startup.    *)
LEMMA RecordSteps ==
  ASSUME TypeOK, TaskInv, [Next]_vars, NEW id \in Ids
  PROVE  \/ replacedBy'[id] \in {replacedBy[id], None}
         \/ /\ PublishReplacement \/ PublishUnsynced
            /\ marker # None /\ id \in marker.inputs /\ replacedBy'[id] = marker.out
         \/ OpenStore /\ replacedBy'[id] \in {o \in present \cap Outs : id \in lists[o]}
<1>1. CASE Commits \/ Reads
  BY <1>1, OthersStayOut
<1>2. CASE \E pass \in {"hourly", "cycle"} : StartPass(pass)
  BY <1>2 DEF StartPass, memory
<1>3. CASE Recover
  BY <1>3 DEF Recover, RecoverNothing, RecoverResume, RecoverRestore, RecoverRefused, memory
<1>4. CASE Replace
  BY <1>4 DEF Replace, PublishReplacement, PublishUnsynced, SwapReplacement, PublishRefused, Unmark,
              TaskInv
<1>5. CASE Compact
  BY <1>5 DEF Compact, Merge, MergeFail, CompactNothing, WriteMarker, memory
<1>6. CASE Prune
  BY <1>6 DEF Prune, PruneSwap, PruneNothing, PruneMark, memory
<1>7. CASE Collect
  BY <1>7 DEF Collect, CollectBegin, RemoveRetired, CollectEnd, memory
<1>8. CASE Crash
  BY <1>8 DEF Crash
<1>9. CASE OpenStore
  <2> DEFINE listers == {o \in present \cap Outs : id \in lists[o]}
  <2>1. IF listers = {} THEN replacedBy'[id] = None ELSE replacedBy'[id] \in listers
    BY <1>9 DEF OpenStore
  <2> QED  BY <1>9, <2>1
<1>10. CASE UNCHANGED vars
  BY <1>10 DEF vars, memory
<1> QED  BY <1>1, <1>2, <1>3, <1>4, <1>5, <1>6, <1>7, <1>8, <1>9, <1>10 DEF Next, Maintenance

(* Only the swap of a pruning hides rows.                                  *)
LEMMA HiddenSteps ==
  ASSUME [Next]_vars
  PROVE  hidden' = hidden \/ PruneSwap
<1>1. CASE Commits
  BY <1>1 DEF Commits, CommitBegin, CommitFail, CommitPublish, CommitSynced, CommitSyncFail, history
<1>2. CASE Reads
  BY <1>2 DEF Reads, Pin, Capture, Unpin, history
<1>3. CASE Recover
  BY <1>3 DEF Recover, RecoverNothing, RecoverResume, RecoverRestore, RecoverRefused, history
<1>4. CASE Replace
  BY <1>4 DEF Replace, PublishReplacement, PublishUnsynced, SwapReplacement, PublishRefused, Unmark,
              history
<1>5. CASE Compact
  BY <1>5 DEF Compact, Merge, MergeFail, CompactNothing, WriteMarker, history
<1>6. CASE Prune
  BY <1>6 DEF Prune, PruneSwap, PruneNothing, PruneMark, history
<1>7. CASE Collect
  BY <1>7 DEF Collect, CollectBegin, RemoveRetired, CollectEnd, history
<1>8. CASE \E pass \in {"hourly", "cycle"} : StartPass(pass)
  BY <1>8 DEF StartPass, history
<1>9. CASE Crash \/ OpenStore \/ UNCHANGED vars
  BY <1>9 DEF Crash, OpenStore, vars, history
<1> QED  BY <1>1, <1>2, <1>3, <1>4, <1>5, <1>6, <1>7, <1>8, <1>9 DEF Next, Maintenance

LEMMA UnbegunRows ==
  ASSUME UnbegunInv, NEW S, S \subseteq Used, S \subseteq Ids, NEW r \in Raw,
         commit[r] \in {"idle", "prepared"}
  PROVE  r \notin RowsOf(S)
  BY DEF UnbegunInv, RowsOf, RowsIn, Ids

LEMMA NextUnbegun ==
  ASSUME Reliable, TypeOK, TaskInv, ServingInv, FreshInv, MarkerInv, DueInv, UnbegunInv, [Next]_vars
  PROVE  UnbegunInv'
<1>1. ASSUME NEW s \in Raw, commit'[s] \in {"idle", "prepared"}
      PROVE  commit[s] \in {"idle", "prepared"}
  <2>1. ASSUME NEW r \in Raw,
               \/ CommitBegin(r) \/ CommitFail(r) \/ CommitPublish(r)
               \/ CommitSynced(r) \/ CommitSyncFail(r)
        PROVE  commit[s] \in {"idle", "prepared"}
    BY <1>1, <2>1, CommitCases
  <2>2. CASE Crash
    BY <1>1, <2>2 DEF Crash, TypeOK
  <2>3. CASE Reads \/ Maintenance \/ OpenStore \/ UNCHANGED vars
    BY <1>1, <2>3, MaintenanceFrame DEF Reads, Pin, Capture, Unpin, OpenStore, vars
  <2> QED  BY <2>1, <2>2, <2>3 DEF Next, Commits
<1>2. ASSUME NEW s \in Raw, commit'[s] \in {"idle", "prepared"}
      PROVE  s \notin Used'
  <2>1. s \notin Used
    BY <1>1, <1>2 DEF UnbegunInv
  <2>2. ASSUME NEW ok \in BOOLEAN, WriteMarker(ok) PROVE s \notin Used'
    BY <2>1, <2>2, MarkerWritten, CatalogAssumption
  <2>3. CASE \A ok \in BOOLEAN : ~WriteMarker(ok)
    BY <1>2, <2>1, <2>3, UsedGrows DEF Renamed
  <2> QED  BY <2>2, <2>3
<1>3. ASSUME NEW s \in Raw, commit'[s] \in {"idle", "prepared"}
      PROVE  s \notin hidden'
  <2>1. s \notin hidden
    BY <1>1, <1>3 DEF UnbegunInv
  <2>2. CASE PruneSwap
    <3>1. hidden' = hidden \cup RowsOf(task.ids) /\ task.ids \subseteq catalog
      BY <2>2 DEF PruneSwap, At, TaskInv
    <3>2. s \notin RowsOf(task.ids)
      BY <1>1, <1>3, <3>1, UnbegunRows DEF Used, TypeOK
    <3> QED  BY <2>1, <3>1, <3>2
  <2> QED  BY <2>1, <2>2, HiddenSteps
<1>4. ASSUME NEW s \in Raw, commit'[s] \in {"idle", "prepared"}
      PROVE  replacedBy'[s] = None
  <2>1. replacedBy[s] = None /\ s \notin Used /\ s \in Ids
    BY <1>1, <1>4 DEF UnbegunInv, Ids
  <2> QED  BY <2>1, RecordSteps DEF Used, Listed
<1>5. ASSUME NEW s \in Raw, commit'[s] \in {"idle", "prepared"}, NEW o \in Outs
      PROVE  s \notin rows'[o]
  <2>1. s \notin rows[o]
    BY <1>1, <1>5 DEF UnbegunInv
  <2>2. CASE MergeFail
    BY <2>1, <2>2 DEF MergeFail, TypeOK
  <2>3. ASSUME NEW S \in SUBSET catalog, NEW p \in Outs, Merge(S, p)
        PROVE  s \notin rows'[o]
    <3>1. s \notin RowsOf(S)
      BY <1>1, <1>5, UnbegunRows DEF Used, TypeOK
    <3> QED  BY <2>1, <2>3, <3>1 DEF Merge, TypeOK
  <2> QED  BY <2>1, <2>2, <2>3, MergeUndisturbed
<1> QED  BY <1>2, <1>3, <1>4, <1>5 DEF UnbegunInv

(* The gate is held from the rename to the end of the fsync.               *)
LEMMA NextGate ==
  ASSUME TypeOK, TaskInv, ServingInv, GateInv, [Next]_vars
  PROVE  GateInv'
<1> SUFFICES ASSUME NEW s \in Raw, commit'[s] = "syncing"
             PROVE  gate' = s /\ s \in catalog'
  BY DEF GateInv
<1>0. s # None
  BY CatalogAssumption
<1>1. ASSUME NEW r \in Raw, CommitPublish(r) PROVE gate' = s /\ s \in catalog'
  BY <1>0, <1>1 DEF GateInv, CommitPublish, TypeOK
<1>2. ASSUME NEW r \in Raw, CommitBegin(r) \/ CommitFail(r)
      PROVE  gate' = s /\ s \in catalog'
  BY <1>2 DEF GateInv, CommitBegin, CommitFail, AttemptOver, files, memory, TypeOK
<1>3. ASSUME NEW r \in Raw, CommitSynced(r) \/ CommitSyncFail(r)
      PROVE  gate' = s /\ s \in catalog'
  BY <1>3 DEF GateInv, CommitSynced, CommitSyncFail, AttemptOver, TypeOK
<1>4. CASE Maintenance
  BY <1>0, <1>4, MaintenanceFrame, GateFrame DEF GateInv
<1>5. CASE Reads \/ UNCHANGED vars
  BY <1>5 DEF GateInv, Reads, Pin, Capture, Unpin, vars, memory
<1>6. CASE Crash
  BY <1>6 DEF Crash, ServingInv, TypeOK
<1>7. CASE OpenStore
  BY <1>7 DEF OpenStore, ServingInv
<1> QED  BY <1>1, <1>2, <1>3, <1>4, <1>5, <1>6, <1>7 DEF Next, Commits

(* Only a publication changes a list or adds an output to the namespace.   *)
LEMMA OutputSteps ==
  ASSUME TypeOK, TaskInv, [Next]_vars, ~PublishReplacement, ~PublishUnsynced
  PROVE  lists' = lists /\ (~Crash => present' \cap Outs \subseteq present)
<1>1. CASE Commits
  BY <1>1, CatalogAssumption DEF Commits, CommitBegin, CommitFail, CommitPublish, CommitSynced,
     CommitSyncFail, files
<1>2. CASE Reads
  BY <1>2 DEF Reads, Pin, Capture, Unpin, files
<1>3. CASE Recover
  BY <1>3 DEF Recover, RecoverNothing, RecoverResume, RecoverRestore, RecoverRefused, files
<1>4. CASE Replace
  BY <1>4 DEF Replace, PublishRefused, Unmark, files
<1>5. CASE Compact
  BY <1>5 DEF Compact, Merge, MergeFail, CompactNothing, WriteMarker, files
<1>6. CASE Prune
  BY <1>6 DEF Prune, PruneSwap, PruneNothing, PruneMark, files
<1>7. CASE Collect
  BY <1>7 DEF Collect, CollectBegin, RemoveRetired, CollectEnd, files
<1>8. CASE \E pass \in {"hourly", "cycle"} : StartPass(pass)
  BY <1>8 DEF StartPass, files
<1>9. CASE Crash
  BY <1>9 DEF Crash
<1>10. CASE OpenStore \/ UNCHANGED vars
  BY <1>10 DEF OpenStore, vars, files
<1> QED  BY <1>1, <1>2, <1>3, <1>4, <1>5, <1>6, <1>7, <1>8, <1>9, <1>10 DEF Next, Maintenance

(* What a publication does to the output's list and place.                 *)
LEMMA PublishLists ==
  ASSUME TypeOK, TaskInv, PublishReplacement \/ PublishUnsynced
  PROVE  /\ task.at = "publish" /\ SwapReplacement
         /\ marker # None /\ marker' = marker /\ marker.out \in Outs
         /\ present' = present \cup {marker.out}
         /\ catalog' = (catalog \ marker.inputs) \cup {marker.out}
         /\ \A o \in Outs \ {marker.out} : lists'[o] = lists[o]
         /\ lists'[marker.out] = IF stage = marker.out THEN marker.inputs ELSE lists[marker.out]
         /\ UNCHANGED <<marked, rows, savedMarker, gate, commit, crashes, history>>
<1>1. task.at = "publish" /\ SwapReplacement
  BY DEF PublishReplacement, PublishUnsynced
<1>2. /\ marker # None /\ marker.out \in Outs /\ marker' = marker
      /\ present' = present \cup {marker.out}
      /\ catalog' = (catalog \ marker.inputs) \cup {marker.out}
  BY <1>1, SwapLists
<1> QED  BY <1>1, <1>2 DEF SwapReplacement, TypeOK

(* The steps within a collection and beside it.                            *)
LEMMA RemovingSteps ==
  ASSUME TypeOK, TaskInv, [Next]_vars, task'.at = "removing"
  PROVE  \/ CollectBegin
         \/ \E id \in Ids : RemoveRetired(id)
         \/ (Commits \/ Reads \/ UNCHANGED vars) /\ UNCHANGED <<task, retiring>>
<1> USE TypeParts
<1>1. CASE Commits \/ Reads
  BY <1>1, OthersStayOut
<1>2. CASE UNCHANGED vars
  BY <1>2 DEF vars, memory
<1>e. \A ok \in BOOLEAN : task.job # "none" /\ EndJob(ok) => task'.at = "start"
  BY JobEnds DEF Ended
<1>3. ~(\E pass \in {"hourly", "cycle"} : StartPass(pass))
  BY DEF StartPass, NoTask
<1>4. ~Recover
  BY <1>e DEF Recover, RecoverNothing, RecoverResume, RecoverRestore, RecoverRefused, At, Tasks
<1>5. ~Replace
  <2>1. Replace => task.job # "none"
    BY DEF Replace, PublishReplacement, PublishUnsynced, PublishRefused, Unmark, TaskInv
  <2> QED  BY <2>1, <1>e DEF Replace, PublishReplacement, PublishUnsynced,
               PublishRefused, Unmark, NoTask, Tasks
<1>6. ~Compact
  BY <1>e DEF Compact, Merge, MergeFail, CompactNothing, WriteMarker, At, Tasks
<1>7. ~Prune
  BY <1>e DEF Prune, PruneSwap, PruneNothing, PruneMark, At, Tasks
<1>8. \A ok, synced \in BOOLEAN : ~CollectEnd(ok, synced)
  <2>1. \A ok, synced \in BOOLEAN : (ok /\ synced) \in BOOLEAN  OBVIOUS
  <2> QED  BY <2>1, <1>e DEF CollectEnd, At
<1>9. ~Crash /\ ~OpenStore
  <2>1. ~Crash
    BY DEF Crash, NoTask
  <2>2. ~OpenStore
    BY DEF OpenStore, NoTask
  <2> QED  BY <2>1, <2>2
<1> QED  BY <1>1, <1>2, <1>3, <1>4, <1>5, <1>6, <1>7, <1>8, <1>9 DEF Next, Maintenance, Collect

LEMMA NextEpoch ==
  ASSUME Ordered, CatalogInv, EpochInv, [Next]_vars
  PROVE  EpochInv'
<1> USE TypeParts
<1>t. /\ TypeOK /\ TaskInv /\ retiring \subseteq Retirements /\ epoch \in Nat
      /\ \A r \in retiring : r.epoch \in Nat
  BY DEF CatalogInv, TypeOK, Retirements
<1>a. ListsApart /\ InputsApart
  BY DEF CatalogInv, RollbackInv
<1>m. marker # None => marker.out \notin RetiringIds \cup marker.inputs
  BY DEF CatalogInv, MarkerInv
<1>i. \A r \in retiring : r.ids \subseteq RetiringIds
  BY DEF RetiringIds
<1>1. (\A o \in Outs : o \notin lists[o])'
  <2>1. CASE PublishReplacement \/ PublishUnsynced
    BY <2>1, <1>t, <1>m, PublishLists DEF EpochInv
  <2>2. CASE ~PublishReplacement /\ ~PublishUnsynced
    BY <2>2, <1>t, OutputSteps DEF EpochInv
  <2> QED  BY <2>1, <2>2
<1>2. CASE Crash
  <2>1. retiring' = {} /\ task'.due = {}
    BY <1>2 DEF Crash, NoTask
  <2> QED  BY <2>1, <1>1 DEF EpochInv
<1>3. CASE OpenStore
  <2>1. retiring' = {} \/ (retiring' = {[epoch |-> 0, ids |-> RetiredAtLoad]} /\ epoch' = 1)
    BY <1>3 DEF OpenStore
  <2>2. task'.due = {}
    BY <1>3 DEF OpenStore, NoTask
  <2> QED  BY <2>1, <2>2, <1>1 DEF EpochInv
<1>4. CASE Commits \/ Reads \/ Maintenance \/ UNCHANGED vars
  <2>1. /\ \A r \in retiring' : r.epoch < epoch'
        /\ \A r, s \in retiring' : r.epoch = s.epoch => r = s
    <3>1. CASE retiring' \subseteq retiring /\ epoch' = epoch
      BY <3>1 DEF EpochInv
    <3>2. ASSUME NEW S, Retire(S)
          PROVE  /\ \A r \in retiring' : r.epoch < epoch'
                 /\ \A r, s \in retiring' : r.epoch = s.epoch => r = s
      BY <3>2, <1>t DEF Retire, EpochInv
    <3> QED  BY <1>4, <3>1, <3>2, <1>t, RetiringSteps
  <2>2. ASSUME NEW r \in task'.due, NEW s \in retiring', s.epoch < r.epoch
        PROVE  s \in task'.due
    <3>0. task'.at = "removing"
      BY <2>2, <1>t, NextTask DEF TaskInv
    <3>1. CASE CollectBegin
      <4>1. task'.due = Due /\ retiring' = retiring
        BY <3>1, <1>t DEF CollectBegin, memory, Tasks
      <4>2. r \in retiring /\ r.epoch < epoch
            /\ \A q \in Readers : reader[q].at # "idle" => r.epoch < reader[q].epoch
        BY <2>2, <4>1 DEF Due
      <4>3. \A q \in Readers : reader[q].epoch \in Nat
        BY <1>t DEF TypeOK
      <4>4. s.epoch < epoch
            /\ \A q \in Readers : reader[q].at # "idle" => s.epoch < reader[q].epoch
        BY <2>2, <4>1, <4>2, <4>3, <1>t
      <4> QED  BY <4>1, <4>4 DEF Due
    <3>2. ASSUME NEW id \in Ids, RemoveRetired(id) PROVE s \in task'.due
      <4>1. task'.due = task.due /\ retiring' = retiring
        BY <3>2, <1>t DEF RemoveRetired, Tasks
      <4> QED  BY <4>1, <2>2 DEF EpochInv
    <3>3. CASE UNCHANGED <<task, retiring>>
      BY <2>2, <3>3 DEF EpochInv
    <3> QED  BY <3>0, <3>1, <3>2, <3>3, <1>t, RemovingSteps
  <2>3. ASSUME NEW r \in retiring', NEW s \in retiring',
               NEW o \in r.ids \cap present' \cap Outs, lists'[o] \cap s.ids # {}
        PROVE  s.epoch <= r.epoch
    <3>1. ASSUME r \in retiring, s \in retiring, o \in present, lists'[o] = lists[o]
          PROVE  s.epoch <= r.epoch
      BY <2>3, <3>1 DEF EpochInv
    <3>2. ASSUME NEW S, Retire(S), o \in present, lists'[o] = lists[o],
                 \A p \in present \cap Outs : p \in RetiringIds => lists[p] \cap S = {}
          PROVE  s.epoch <= r.epoch
      <4>1. CASE S = {}
        BY <4>1, <3>1, <3>2 DEF Retire
      <4>2. CASE S # {}
        <5> DEFINE new == [epoch |-> epoch, ids |-> S]
        <5>1. retiring' = retiring \cup {new} /\ new.epoch = epoch /\ new.ids = S
          BY <3>2, <4>2 DEF Retire
        <5> HIDE DEF new
        <5>2. CASE s \in retiring /\ r \in retiring
          BY <5>2, <3>1, <3>2
        <5>3. CASE s \in retiring /\ r = new
          BY <5>1, <5>3, <1>t DEF EpochInv
        <5>4. CASE s = new /\ r = new
          BY <5>4, <5>1, <1>t
        <5>5. CASE s = new /\ r \in retiring
          BY <5>5, <5>1, <3>2, <2>3, <1>i
        <5> QED  BY <5>1, <5>2, <5>3, <5>4, <5>5
      <4> QED  BY <4>1, <4>2
    <3>3. CASE PublishReplacement
      <4> DEFINE S == marker.inputs \cap (catalog \cup present)
      <4>1. Retire(S) /\ S \subseteq marker.inputs
        BY <3>3 DEF PublishReplacement
      <4>2. marker # None /\ present' = present \cup {marker.out}
            /\ \A p \in Outs \ {marker.out} : lists'[p] = lists[p]
        BY <3>3, <1>t, PublishLists
      <4> HIDE DEF S
      <4>3. RetiringIds' = RetiringIds \cup S /\ r.ids \subseteq RetiringIds'
        BY <4>1, RetireIds DEF RetiringIds
      <4>4. o # marker.out
        BY <4>1, <4>2, <4>3, <1>m
      <4>5. \A p \in present \cap Outs : p \in RetiringIds => lists[p] \cap S = {}
        BY <4>1, <4>2, <1>a, <1>m DEF InputsApart, Outputs
      <4> QED  BY <4>1, <4>2, <4>4, <4>5, <3>2
    <3>4. CASE PublishUnsynced
      <4>1. marker # None /\ present' = present \cup {marker.out}
            /\ \A p \in Outs \ {marker.out} : lists'[p] = lists[p]
        BY <3>4, <1>t, PublishLists
      <4>2. retiring' = retiring
        BY <3>4 DEF PublishUnsynced
      <4>3. o # marker.out
        BY <4>1, <4>2, <1>m, <1>i
      <4> QED  BY <4>1, <4>2, <4>3, <3>1
    <3>5. CASE PruneSwap
      <4>1. Retire(task.ids) /\ task.ids \subseteq catalog /\ UNCHANGED <<present, lists>>
        BY <3>5, <1>t DEF PruneSwap, At, TaskInv, files
      <4>2. \A p \in present \cap Outs : p \in RetiringIds => lists[p] \cap task.ids = {}
        BY <4>1, <1>a DEF ListsApart
      <4> QED  BY <4>1, <4>2, <3>2
    <3>6. CASE ~PublishReplacement /\ ~PublishUnsynced /\ ~PruneSwap
      <4>0. ~Crash \/ retiring' = {}
        BY DEF Crash
      <4>1. lists' = lists /\ o \in present
        BY <3>6, <1>t, <4>0, <2>3, OutputSteps
      <4>2. retiring' \subseteq retiring
        <5>1. CASE Commits \/ Reads
          BY <5>1, OthersStayOut
        <5>2. CASE Recover \/ (\E pass \in {"hourly", "cycle"} : StartPass(pass))
          BY <5>2 DEF StartPass, Recover, RecoverNothing, RecoverResume, RecoverRestore,
             RecoverRefused, memory
        <5>3. CASE Replace
          BY <5>3, <3>6 DEF Replace, PublishRefused, Unmark
        <5>4. CASE Compact
          BY <5>4 DEF Compact, Merge, MergeFail, CompactNothing, WriteMarker, memory
        <5>5. CASE Prune
          BY <5>5, <3>6 DEF Prune, PruneNothing, PruneMark, memory
        <5>6. CASE Collect
          BY <5>6 DEF Collect, CollectBegin, RemoveRetired, CollectEnd, memory
        <5>7. CASE UNCHANGED vars
          BY <5>7 DEF vars, memory
        <5> QED  BY <1>4, <5>1, <5>2, <5>3, <5>4, <5>5, <5>6, <5>7 DEF Maintenance
      <4> QED  BY <4>1, <4>2, <3>1
    <3> QED  BY <3>3, <3>4, <3>5, <3>6
  <2> QED  BY <2>1, <2>2, <2>3, <1>1 DEF EpochInv
<1> QED  BY <1>2, <1>3, <1>4 DEF Next

(* What is durable stays so until a collection removes it, and no mark is  *)
(* ever taken back.                                                        *)
LEMMA DurableSteps ==
  ASSUME TypeOK, TaskInv, [Next]_vars
  PROVE  /\ marked \subseteq marked'
         /\ \A id \in present \ unsynced : id \in present' \ unsynced' \/ RemoveRetired(id)
<1>1. CASE Commits
  BY <1>1 DEF Commits, CommitBegin, CommitFail, CommitPublish, CommitSynced, CommitSyncFail, files
<1>2. CASE Reads
  BY <1>2 DEF Reads, Pin, Capture, Unpin, files
<1>3. CASE Recover
  BY <1>3 DEF Recover, RecoverNothing, RecoverResume, RecoverRestore, RecoverRefused, files
<1>4. CASE Replace
  BY <1>4, PublishLists DEF Replace, PublishReplacement, PublishUnsynced, PublishRefused, Unmark, files
<1>5. CASE Compact
  BY <1>5 DEF Compact, Merge, MergeFail, CompactNothing, WriteMarker, files
<1>6. CASE Prune
  BY <1>6 DEF Prune, PruneSwap, PruneNothing, PruneMark, files
<1>7. ASSUME NEW x \in Ids, RemoveRetired(x)
      PROVE  /\ marked' = marked
             /\ \A id \in (present \ unsynced) \ {x} : id \in present' \ unsynced'
  BY <1>7 DEF RemoveRetired
<1>8. CASE CollectBegin \/ \E ok, synced \in BOOLEAN : CollectEnd(ok, synced)
  BY <1>8 DEF CollectBegin, CollectEnd, files
<1>9. CASE \E pass \in {"hourly", "cycle"} : StartPass(pass)
  BY <1>9 DEF StartPass, files
<1>10. CASE Crash \/ OpenStore \/ UNCHANGED vars
  BY <1>10 DEF Crash, OpenStore, vars, files
<1> QED  BY <1>1, <1>2, <1>3, <1>4, <1>5, <1>6, <1>7, <1>8, <1>9, <1>10
         DEF Next, Maintenance, Collect

(* An output is removed only after everything it replaced, and durably so: *)
(* no power loss brings back an input without the output that covers it.   *)
LEMMA RemovalOrder ==
  ASSUME Ordered, CatalogInv, EpochInv, NEW id \in present \cap Outs, RemoveRetired(id)
  PROVE  lists[id] \cap (present' \cup unsynced') = {}
<1> USE TypeParts
<1>t. TypeOK /\ TaskInv
  BY DEF CatalogInv
<1>d. phase # "down"
  BY <1>t DEF RemoveRetired, At, TaskInv
<1>a. ListsApart /\ task.gone \cap present = {} /\ task.due \subseteq retiring
  BY DEF CatalogInv, RollbackInv, NamespaceInv, DueInv
<1>1. PICK r \in task.due : /\ id \in r.ids \ task.gone
                            /\ \A s \in task.due : s.epoch < r.epoch => Removed(s)
                            /\ lists[id] \cap r.ids \subseteq task.gone
  BY DEF RemoveRetired
<1>2. r \in retiring /\ id \in RetiringIds
  BY <1>1, <1>a DEF RetiringIds
<1>3. \A x \in lists[id] : replacedBy[x] = id /\ x # id /\ x \notin catalog
  BY <1>a, <1>d DEF ListsApart, EpochInv
<1>4. lists[id] \cap present = {}
  <2> SUFFICES ASSUME NEW x \in lists[id] \cap present PROVE FALSE
    OBVIOUS
  <2>1. x \in RetiringIds
    <3>1. marker # None => marker.out # id
      BY <1>2 DEF CatalogInv, MarkerInv
    <3> QED  BY <3>1, <1>3, <1>d DEF CatalogInv, NamespaceInv
  <2>2. PICK s \in retiring : x \in s.ids
    BY <2>1 DEF RetiringIds
  <2>3. s.epoch <= r.epoch
    BY <2>2, <1>1, <1>2 DEF EpochInv
  <2>4. x \notin task.gone
    BY <1>a
  <2>5. s.epoch \in Nat /\ r.epoch \in Nat
    BY <1>t, <1>2, <2>2 DEF TypeOK, Retirements
  <2>6. CASE s.epoch = r.epoch
    BY <2>6, <2>2, <2>4, <1>1, <1>2 DEF EpochInv
  <2>7. CASE s.epoch < r.epoch
    <3>1. s \in task.due
      BY <2>2, <2>7, <1>1 DEF EpochInv
    <3> QED  BY <3>1, <2>7, <2>2, <2>4, <1>1 DEF Removed
  <2> QED  BY <2>3, <2>5, <2>6, <2>7
<1>5. lists[id] \cap unsynced' = {}
  <2> SUFFICES ASSUME lists[id] # {} PROVE lists[id] \cap unsynced' = {}
    OBVIOUS
  <2>1. ListsReplaced(id)
    <3>1. lists[id] \subseteq Ids
      BY <1>t DEF TypeOK
    <3> QED  BY <3>1, <1>3 DEF ListsReplaced
  <2>2. unsynced' = (IF task.dirty THEN {} ELSE unsynced) \cup {id}
    BY <2>1 DEF RemoveRetired
  <2>3. ~task.dirty => unsynced \subseteq present
    BY <1>a DEF ListsApart
  <2> QED  BY <2>2, <2>3, <1>3, <1>4
<1>6. present' \subseteq present
  BY DEF RemoveRetired
<1> QED  BY <1>4, <1>5, <1>6

(* What a restart leaves out, it leaves out from then on.                  *)
LEMMA CoverKept ==
  ASSUME Ordered, CatalogInv, EpochInv, [Next]_vars, NEW x \in present' \cup unsynced', Covered(x)
  PROVE  Covered(x)'
<1>t. TypeOK /\ TaskInv
  BY DEF CatalogInv
<1>1. CASE x \in marked
  BY <1>1, <1>t, DurableSteps DEF Covered
<1>2. ASSUME NEW o \in (present \ unsynced) \cap Outs, x \in lists[o]
      PROVE  Covered(x)'
  <2>1. ~RemoveRetired(o)
    BY <1>2, RemovalOrder
  <2>2. o \in (present' \ unsynced') \cap Outs
    BY <2>1, <1>t, DurableSteps
  <2>3. lists'[o] = lists[o]
    <3>1. CASE PublishReplacement \/ PublishUnsynced
      <4>1. o = marker.out => lists[o] = marker.inputs
        BY <3>1, <1>t, PublishLists DEF CatalogInv, RollbackInv, InputsApart, Outputs
      <4> QED  BY <3>1, <4>1, <1>t, PublishLists
    <3> QED  BY <3>1, <1>t, OutputSteps
  <2> QED  BY <2>2, <2>3, <1>2 DEF Covered
<1> QED  BY <1>1, <1>2 DEF Covered

\* The steps that move the maintenance thread or a reader and nothing else
\* a query or a restart could see.
Quiet ==
  \/ Reads \/ (\E pass \in {"hourly", "cycle"} : StartPass(pass))
  \/ RecoverNothing \/ RecoverResume \/ RecoverRefused \/ PublishRefused
  \/ CompactNothing \/ PruneNothing \/ CollectBegin \/ UNCHANGED vars

LEMMA QuietSteps ==
  ASSUME TypeOK, TaskInv, Quiet
  PROVE  /\ UNCHANGED <<present, unsynced, marked, lists, rows, marker, catalog, replacedBy,
                        retiring, epoch, gate, commit, acked, fsynced, expiring, hidden>>
         /\ \/ task' = task
            \/ task'.at \notin {"merged", "unmark"} /\ (task'.job = "prune" => task'.ids = {})
<1> USE TypeParts
<1>e. \A ok \in BOOLEAN : task.job # "none" /\ EndJob(ok) => task'.at = "start" /\ task'.ids = {}
  BY JobEnds DEF Ended
<1>1. CASE Reads
  BY <1>1 DEF Reads, Pin, Capture, Unpin, files, memory, history
<1>2. CASE \E pass \in {"hourly", "cycle"} : StartPass(pass)
  BY <1>2 DEF StartPass, NoTask, files, memory, history
<1>3. CASE RecoverNothing
  BY <1>3, <1>e DEF RecoverNothing, At, history
<1>4. CASE RecoverResume
  BY <1>4 DEF RecoverResume, At, files, memory, history, Tasks
<1>5. CASE RecoverRefused
  BY <1>5, <1>e DEF RecoverRefused, At, files, history
<1>6. CASE PublishRefused
  BY <1>6, <1>e DEF PublishRefused, TaskInv, files, history
<1>7. CASE CompactNothing
  BY <1>7, <1>e DEF CompactNothing, At, files, history
<1>8. CASE PruneNothing
  BY <1>8, <1>e DEF PruneNothing, At, files, history
<1>9. CASE CollectBegin
  BY <1>9 DEF CollectBegin, At, files, memory, history, Tasks
<1>10. CASE UNCHANGED vars
  BY <1>10 DEF vars, files, memory, history
<1> QED  BY <1>1, <1>2, <1>3, <1>4, <1>5, <1>6, <1>7, <1>8, <1>9, <1>10 DEF Quiet

(* The output a publication leaves in place lists the marker's inputs.     *)
LEMMA PublishedLists ==
  ASSUME Ordered, CatalogInv, PublishReplacement \/ PublishUnsynced
  PROVE  /\ lists'[marker.out] = marker.inputs
         /\ \A o \in Outputs : lists'[o] = lists[o]
<1>t. TypeOK /\ TaskInv
  BY DEF CatalogInv
<1>1. marker.out \in Outputs => lists[marker.out] = marker.inputs
  BY <1>t, PublishLists DEF CatalogInv, RollbackInv, InputsApart
<1>2. lists'[marker.out] = marker.inputs
  <2>1. stage # marker.out => marker.out \in present
    BY <1>t, PublishLists DEF TaskInv, OutputExists
  <2> QED  BY <1>t, <1>1, <2>1, PublishLists DEF Outputs
<1> QED  BY <1>t, <1>1, <1>2, PublishLists DEF Outputs

LEMMA LoadRetires ==
  ASSUME OpenStore
  PROVE  RetiringIds' = RetiredAtLoad
<1>1. CASE RetiredAtLoad = {}
  BY <1>1 DEF OpenStore, RetiringIds
<1>2. CASE RetiredAtLoad # {}
  <2> DEFINE new == [epoch |-> 0, ids |-> RetiredAtLoad]
  <2>1. retiring' = {new} /\ new.ids = RetiredAtLoad
    BY <1>2 DEF OpenStore
  <2> HIDE DEF new
  <2>2. \A id : id \in RetiringIds' <=> id \in new.ids
    BY <2>1 DEF RetiringIds
  <2> QED  BY <2>1, <2>2
<1> QED  BY <1>1, <1>2

LEMMA NextCover ==
  ASSUME Ordered, CatalogInv, KeptInv, [Next]_vars
  PROVE  CoverInv'
<1> USE TypeParts
<1>t. /\ TypeOK /\ TaskInv /\ ServingInv /\ EpochInv /\ CoverInv /\ ChosenInv
  BY DEF CatalogInv, KeptInv
<1>m. marker # None => marker.out \notin RetiringIds \cup Listed
  BY DEF CatalogInv, MarkerInv
<1>r. retiring' = retiring => RetiringIds' = RetiringIds
  BY DEF RetiringIds
<1>k. \A x \in present' : Covered(x) => Covered(x)'
  BY <1>t, CoverKept
<1>c. \A id \in RetiringIds \cap present : Covered(id)
  BY <1>t DEF CoverInv
<1>o. \A o \in unsynced \cap Outs :
        /\ o \in present => marker # None /\ o = marker.out /\ task.at # "unmark"
        /\ o \notin present => lists[o] \cap (present \ unsynced) = {}
  BY <1>t DEF CoverInv
\* A directory retired before the step.
<1>1. ASSUME RetiringIds' \cap present' \subseteq RetiringIds \cap present,
             \A o \in unsynced' \cap Outs :
               IF o \in present' THEN marker' # None /\ o = marker'.out /\ task'.at # "unmark"
               ELSE lists'[o] \cap (present' \ unsynced') = {}
      PROVE  CoverInv'
  BY <1>1, <1>k, <1>c DEF CoverInv
<1>2. CASE Quiet
  <2>1. UNCHANGED <<present, unsynced, lists, marker, retiring>>
        /\ (task' = task \/ task'.at # "unmark")
    BY <1>2, <1>t, QuietSteps
  <2> QED  BY <2>1, <1>r, <1>1, <1>o
<1>3. ASSUME NEW r \in Raw,
             \/ CommitBegin(r) \/ CommitFail(r) \/ CommitPublish(r)
             \/ CommitSynced(r) \/ CommitSyncFail(r)
      PROVE  CoverInv'
  <2>1. UNCHANGED <<task, marker, lists, retiring>>
    BY <1>3 DEF CommitBegin, CommitFail, CommitPublish, CommitSynced, CommitSyncFail, files, memory
  <2>2. CASE UNCHANGED <<present, unsynced>>
    BY <2>1, <2>2, <1>r, <1>1, <1>o
  <2>3. CASE CommitSynced(r)
    BY <2>1, <2>3, <1>r, <1>1 DEF CommitSynced
  <2>4. CASE CommitPublish(r) /\ ~Published(r)
    <3>1. /\ present' = present \cup {r} /\ r \notin RetiringIds
          /\ unsynced' = IF r \in present THEN unsynced ELSE unsynced \cup {r}
      BY <2>4 DEF CommitPublish, Published
    <3>2. present' \ unsynced' \subseteq present \ unsynced /\ r \notin Outs
      BY <3>1, CatalogAssumption
    <3> QED  BY <2>1, <3>1, <3>2, <1>r, <1>1, <1>o
  <2> QED  BY <1>3, <2>2, <2>3, <2>4 DEF CommitBegin, CommitFail, CommitPublish, CommitSyncFail, files
<1>4. CASE RecoverRestore
  <2>1. UNCHANGED <<present, unsynced, lists, marker, retiring>> /\ marker.out \notin present
    BY <1>4 DEF RecoverRestore, OutputExists, files
  <2> QED  BY <2>1, <1>r, <1>1, <1>o
<1>5. CASE PublishReplacement
  <2> DEFINE S == marker.inputs \cap (catalog \cup present)
  <2>1. Retire(S) /\ unsynced' = {} /\ S \subseteq marker.inputs
    BY <1>5 DEF PublishReplacement
  <2> HIDE DEF S
  <2>2. RetiringIds' = RetiringIds \cup S
    BY <2>1, RetireIds
  <2>3. /\ marker.out \in Outs /\ present' = present \cup {marker.out}
        /\ lists'[marker.out] = marker.inputs /\ marker # None
    BY <1>5, <1>t, PublishLists, PublishedLists
  <2>4. \A id \in marker.inputs : Covered(id)'
    BY <2>1, <2>3 DEF Covered
  <2>5. \A id \in RetiringIds' \cap present' : Covered(id)'
    BY <2>1, <2>2, <2>3, <2>4, <1>m, <1>k, <1>c
  <2> QED  BY <2>1, <2>5 DEF CoverInv
<1>6. CASE PublishUnsynced
  <2>1. /\ retiring' = retiring
        /\ unsynced' = IF marker.out \in present THEN unsynced ELSE unsynced \cup {marker.out}
    BY <1>6 DEF PublishUnsynced
  <2>2. /\ marker # None /\ marker' = marker /\ present' = present \cup {marker.out}
        /\ \A o \in Outs \ {marker.out} : lists'[o] = lists[o]
    BY <1>6, <1>t, PublishLists
  <2>3. task'.at = "start"
    BY <1>6, <1>t, JobEnds DEF PublishUnsynced, TaskInv, Ended
  <2>4. RetiringIds' \cap present' \subseteq RetiringIds \cap present
    BY <2>1, <2>2, <1>m, <1>r
  <2>5. ASSUME NEW o \in unsynced' \cap Outs
        PROVE  IF o \in present' THEN marker' # None /\ o = marker'.out /\ task'.at # "unmark"
               ELSE lists'[o] \cap (present' \ unsynced') = {}
    <3>1. CASE o = marker.out
      BY <3>1, <2>2, <2>3
    <3>2. CASE o # marker.out
      <4>1. o \in unsynced /\ o \notin present /\ lists'[o] = lists[o]
        BY <3>2, <2>1, <2>2, <1>o
      <4>2. present' \ unsynced' \subseteq present \ unsynced
        BY <2>1, <2>2
      <4> QED  BY <3>2, <4>1, <4>2, <2>2, <1>o
    <3> QED  BY <3>1, <3>2
  <2> QED  BY <2>4, <2>5, <1>1
<1>7. ASSUME NEW ok \in BOOLEAN, Unmark(ok) PROVE CoverInv'
  <2>1. UNCHANGED <<present, unsynced, lists, retiring>> /\ task.at = "unmark"
    BY <1>7 DEF Unmark
  <2> QED  BY <2>1, <1>r, <1>1, <1>o
<1>8. CASE MergeFail \/ \E S \in SUBSET catalog, o \in Outs : Merge(S, o)
  <2>1. UNCHANGED <<present, unsynced, lists, marker, retiring>> /\ marker = None
    BY <1>8, <1>t DEF MergeFail, Merge, memory, At, TaskInv
  <2> QED  BY <2>1, <1>r, <1>1, <1>o
<1>9. ASSUME NEW ok \in BOOLEAN, WriteMarker(ok) PROVE CoverInv'
  <2>1. UNCHANGED <<present, unsynced, lists, retiring>> /\ marker = None
    BY <1>9, <1>t DEF WriteMarker, At, TaskInv
  <2> QED  BY <2>1, <1>r, <1>1, <1>o
<1>10. CASE PruneSwap
  <2>1. RetiringIds' = RetiringIds \cup task.ids /\ task.ids \subseteq marked
        /\ UNCHANGED <<present, unsynced, lists, marked, marker>>
    BY <1>10, <1>t, RetireIds DEF PruneSwap, At, ChosenInv, files
  <2>2. task'.at = "start"
    BY <1>10 DEF PruneSwap, At, Tasks
  <2>3. \A id \in RetiringIds' \cap present' : Covered(id)'
    BY <2>1, <1>k, <1>c DEF Covered
  <2> QED  BY <2>1, <2>2, <2>3, <1>o DEF CoverInv
<1>11. ASSUME NEW id \in Ids, PruneMark(id) PROVE CoverInv'
  <2>1. UNCHANGED <<present, unsynced, lists, marker, retiring>> /\ task'.at = "start"
    BY <1>11 DEF PruneMark, memory, At, Tasks
  <2> QED  BY <2>1, <1>r, <1>1, <1>o
<1>12. ASSUME NEW id \in Ids, RemoveRetired(id) PROVE CoverInv'
  <2>1. /\ UNCHANGED <<lists, marker, retiring>> /\ task'.at = "removing"
        /\ present' = present \ {id} /\ id \in RetiringIds
        /\ unsynced' \subseteq unsynced \cup ({id} \cap present)
        /\ unsynced' \subseteq {id} \/ unsynced \subseteq unsynced'
    BY <1>12, <1>t DEF RemoveRetired, At, Tasks, CatalogInv, DueInv, RetiringIds
  <2>2. ASSUME NEW o \in unsynced' \cap Outs
        PROVE  IF o \in present' THEN marker' # None /\ o = marker'.out /\ task'.at # "unmark"
               ELSE lists'[o] \cap (present' \ unsynced') = {}
    <3>1. CASE o = id /\ id \in present
      BY <3>1, <2>1, <1>12, <1>t, RemovalOrder
    <3>2. CASE o \in unsynced /\ unsynced \subseteq unsynced'
      <4>1. o = id => o \notin present
        BY <3>2, <2>1, <1>m, <1>o
      <4> QED  BY <3>2, <4>1, <2>1, <1>o
    <3>3. CASE o = id /\ o \notin present
      <4>1. o \in unsynced /\ lists[o] \cap (present \ unsynced) = {}
        BY <2>1, <3>3, <1>o
      <4>2. unsynced \subseteq unsynced'
        BY <2>1, <3>3, <1>12, <4>1 DEF RemoveRetired
      <4> QED  BY <4>1, <4>2, <2>1, <3>3
    <3> QED  BY <3>1, <3>2, <3>3, <2>1
  <2> QED  BY <2>1, <2>2, <1>1, <1>r
<1>13. ASSUME NEW ok \in BOOLEAN, NEW synced \in BOOLEAN, CollectEnd(ok, synced) PROVE CoverInv'
  <2>1. (ok /\ synced) \in BOOLEAN  OBVIOUS
  <2>2. /\ UNCHANGED <<present, lists, marker>> /\ (unsynced' = {} \/ unsynced' = unsynced)
        /\ RetiringIds' \subseteq RetiringIds
    BY <1>13 DEF CollectEnd, RetiringIds
  <2>3. task'.at = "start"
    BY <1>13, <1>t, <2>1, JobEnds DEF CollectEnd, At, Ended
  <2> QED  BY <2>2, <2>3, <1>1, <1>o
<1>14. CASE Crash
  BY <1>14 DEF Crash, CoverInv, RetiringIds
<1>15. CASE OpenStore
  <2>1. \A id \in RetiredAtLoad : Covered(id)'
    BY <1>15 DEF OpenStore, RetiredAtLoad, Covered
  <2> QED  BY <1>15, <2>1, LoadRetires DEF OpenStore, CoverInv
<1> QED  BY <1>2, <1>3, <1>4, <1>5, <1>6, <1>7, <1>8, <1>9, <1>10, <1>11, <1>12, <1>13, <1>14, <1>15
         DEF Next, Commits, Maintenance, Recover, Replace, Compact, Prune, Collect, Quiet

(* The marker is written by a merge, removed once settled, and kept by a   *)
(* power loss.                                                             *)
LEMMA MarkerSteps ==
  ASSUME TypeOK, TaskInv, MarkerInv, [Next]_vars
  PROVE  \/ marker' = marker
         \/ \E ok \in BOOLEAN : WriteMarker(ok) \/ Unmark(ok)
<1>1. CASE Quiet
  BY <1>1, QuietSteps
<1>2. CASE Commits
  BY <1>2, OthersStayOut
<1>3. CASE RecoverRestore \/ MergeFail \/ \E S \in SUBSET catalog, o \in Outs : Merge(S, o)
  BY <1>3 DEF RecoverRestore, MergeFail, Merge, files
<1>4. CASE PublishReplacement \/ PublishUnsynced
  BY <1>4, PublishLists
<1>5. CASE PruneSwap \/ \E id \in Ids : PruneMark(id)
  BY <1>5 DEF PruneSwap, PruneMark, files
<1>6. CASE \/ \E id \in Ids : RemoveRetired(id)
           \/ \E ok, synced \in BOOLEAN : CollectEnd(ok, synced)
  BY <1>6 DEF RemoveRetired, CollectEnd
<1>7. CASE Crash
  BY <1>7, CatalogAssumption DEF Crash, MarkerInv, TypeOK
<1>8. CASE OpenStore
  BY <1>8 DEF OpenStore
<1> QED  BY <1>1, <1>2, <1>3, <1>4, <1>5, <1>6, <1>7, <1>8
         DEF Next, Maintenance, Recover, Replace, Compact, Prune, Collect, Quiet

(* Which directories and live names a step can add.                        *)
LEMMA NamesSteps ==
  ASSUME TypeOK, TaskInv, [Next]_vars, NEW x \in Ids
  PROVE  /\ x \in present' \cup unsynced' =>
              \/ x \in present \cup unsynced
              \/ x \in Raw /\ CommitPublish(x)
              \/ marker # None /\ x = marker.out /\ (PublishReplacement \/ PublishUnsynced)
         /\ x \in catalog' =>
              \/ x \in catalog
              \/ x \in Raw /\ CommitPublish(x)
              \/ marker # None /\ x = marker.out /\ (PublishReplacement \/ PublishUnsynced)
              \/ x \in marker.inputs /\ marker # None /\ RecoverRestore
              \/ OpenStore /\ x \in present \ RetiredAtLoad
<1>1. CASE Quiet
  BY <1>1, QuietSteps
<1>2. CASE Commits
  BY <1>2 DEF Commits, CommitBegin, CommitFail, CommitPublish, CommitSynced, CommitSyncFail,
     files, memory
<1>3. CASE RecoverRestore
  BY <1>3 DEF RecoverRestore, files
<1>4. CASE PublishReplacement \/ PublishUnsynced
  BY <1>4, PublishLists DEF PublishReplacement, PublishUnsynced
<1>5. CASE \E ok \in BOOLEAN : Unmark(ok) \/ WriteMarker(ok)
  BY <1>5 DEF Unmark, WriteMarker
<1>6. CASE MergeFail \/ \E S \in SUBSET catalog, o \in Outs : Merge(S, o)
  BY <1>6 DEF MergeFail, Merge, memory
<1>7. CASE PruneSwap \/ \E id \in Ids : PruneMark(id)
  BY <1>7 DEF PruneSwap, PruneMark, files, memory
<1>8. CASE \/ \E id \in Ids : RemoveRetired(id)
           \/ \E ok, synced \in BOOLEAN : CollectEnd(ok, synced)
  BY <1>8 DEF RemoveRetired, CollectEnd
<1>9. CASE Crash \/ OpenStore
  BY <1>9 DEF Crash, OpenStore
<1> QED  BY <1>1, <1>2, <1>3, <1>4, <1>5, <1>6, <1>7, <1>8, <1>9
         DEF Next, Maintenance, Recover, Replace, Compact, Prune, Collect, Quiet

(* Nothing comes to stand but a commit's batch and the two sides of the    *)
(* pending compaction.                                                     *)
LEMMA StandingGrows ==
  ASSUME Reliable, CatalogInv, RowsInv, [Next]_vars, NEW x \in Standing'
  PROVE  \/ x \in Standing
         \/ x \in Raw /\ CommitPublish(x)
         \/ marker # None /\ x = marker.out /\ (PublishReplacement \/ PublishUnsynced)
         \/ x \in marker.inputs /\ marker # None /\ RecoverRestore
<1>t. /\ TypeOK /\ TaskInv /\ Ordered /\ EpochInv /\ TypeOK'
  BY ReliableIsTolerated, NextType DEF CatalogInv, RowsInv, KeptInv
<1>i. x \in Ids
  BY <1>t DEF Standing, TypeOK
<1>1. CASE x \in catalog'
  <2>1. ASSUME x \in present \ RetiredAtLoad PROVE x \in Standing
    BY <2>1 DEF RetiredAtLoad, Standing, Covered
  <2> QED  BY <1>1, <1>t, <1>i, <2>1, NamesSteps DEF Standing
<1>2. CASE x \in present' \cup unsynced' /\ ~Covered(x)'
  <2>1. ~Covered(x)
    BY <1>2, <1>t, CoverKept
  <2> QED  BY <1>2, <1>t, <1>i, <2>1, NamesSteps DEF Standing
<1>3. x \in catalog' \/ (x \in present' \cup unsynced' /\ ~Covered(x)')
  BY DEF Standing
<1> QED  BY <1>1, <1>2, <1>3

LEMMA HeldIsUsed ==
  Held \subseteq Used
  BY DEF Held, Standing, Pending, Used

LEMMA HeldGrows ==
  ASSUME Reliable, CatalogInv, RowsInv, [Next]_vars, NEW x \in Held',
         \A ok \in BOOLEAN : ~WriteMarker(ok)
  PROVE  x \in Held \/ (x \in Raw /\ CommitPublish(x))
<1>t. TypeOK /\ TaskInv /\ MarkerInv
  BY DEF CatalogInv
<1>1. marker' \in {marker, None}
  BY <1>t, MarkerSteps DEF Unmark
<1>2. CASE x \in Standing'
  BY <1>2, StandingGrows DEF Held, Pending
<1>3. CASE x \in Pending'
  BY <1>1, <1>3 DEF Held, Pending
<1> QED  BY <1>2, <1>3 DEF Held

(* A commit's batch shares its row with nothing the store knows of.        *)
LEMMA CommitApart ==
  ASSUME UnbegunInv, TypeOK, NEW r \in Raw, CommitPublish(r), NEW S, S \subseteq Used, S \subseteq Ids
  PROVE  r \notin RowsOf(S) /\ r \notin Used /\ r \notin hidden
  BY UnbegunRows DEF CommitPublish, UnbegunInv

LEMMA UsedIds ==
  ASSUME TypeOK
  PROVE  Used \subseteq Ids
  BY DEF TypeOK, Used, Ids, RetiringIds, Retirements, Listed, Markers

LEMMA NextHeldApart ==
  ASSUME Reliable, CatalogInv, RowsInv, [Next]_vars, NEW i \in Held', NEW j \in Held', i # j
  PROVE  RowsIn(i)' \cap RowsIn(j)' = {} \/ Alternatives(i, j)'
<1>t. /\ TypeOK /\ TaskInv /\ FreshInv /\ MarkerInv /\ UnbegunInv /\ HeldInv /\ MergedInv
  BY DEF CatalogInv, RowsInv, KeptInv
<1>h. /\ Held \subseteq Used /\ Used \subseteq Ids
      /\ \A x \in Used : RowsIn(x)' = RowsIn(x)
  BY <1>t, HeldIsUsed, UsedIds, RowsKept
<1>a. \A x, y \in Held : x # y => RowsIn(x) \cap RowsIn(y) = {} \/ Alternatives(x, y)
  BY <1>t DEF HeldInv
<1>1. ASSUME NEW ok \in BOOLEAN, WriteMarker(ok)
      PROVE  RowsIn(i)' \cap RowsIn(j)' = {} \/ Alternatives(i, j)'
  <2>0. PICK o \in Outs, S \in SUBSET catalog : o = stage /\ S = task.ids
    BY <1>1, <1>t, MarkerWritten
  <2>1. /\ marker = None /\ marker' # None /\ marker'.out = o /\ marker'.inputs = S /\ o \notin Used
        /\ UNCHANGED <<present, unsynced, marked, lists, rows, catalog>>
    BY <1>1, <1>t, <2>0, MarkerWritten
  <2>2. Standing' = Standing /\ Held = Standing
    BY <2>1 DEF Standing, Covered, Held, Pending
  <2>3. Held' = Held \cup {o} /\ S \subseteq Held
    BY <2>0, <2>1, <2>2 DEF Held, Pending, Standing
  <2>4. \A x, y \in Held : x # y => RowsIn(x) \cap RowsIn(y) = {}
    BY <1>a, <2>1 DEF Alternatives
  <2>5. RowsIn(o)' = RowsOf(S)
    <3>1. task.at = "merged" /\ o \notin Raw
      BY <1>1, CatalogAssumption DEF WriteMarker, At
    <3> QED  BY <3>1, <2>0, <2>1, <1>t DEF MergedInv, RowsIn
  <2>6. ASSUME NEW x \in Held, x \notin S PROVE RowsIn(x)' \cap RowsIn(o)' = {}
    <3>1. \A y \in S : RowsIn(x) \cap RowsIn(y) = {}
      BY <2>3, <2>4, <2>6
    <3>2. RowsIn(x) \cap RowsOf(S) = {}
      BY <3>1 DEF RowsOf
    <3> QED  BY <3>2, <2>5, <1>h
  <2>7. \A x \in S : Alternatives(x, o)' /\ Alternatives(o, x)'
    BY <2>1 DEF Alternatives
  <2>8. CASE i = o \/ j = o
    BY <2>3, <2>6, <2>7, <2>8
  <2>9. CASE i \in Held /\ j \in Held
    BY <2>4, <2>9, <1>h
  <2> QED  BY <2>3, <2>8, <2>9
<1>2. CASE \A ok \in BOOLEAN : ~WriteMarker(ok)
  <2>1. ASSUME NEW r \in Raw, CommitPublish(r), NEW x \in Held, x # r
        PROVE  RowsIn(x)' \cap RowsIn(r)' = {} /\ RowsIn(r)' \cap RowsIn(x)' = {}
    <3>1. r \notin RowsOf({x}) /\ RowsOf({x}) = RowsIn(x)
      BY <2>1, <1>t, <1>h, CommitApart DEF RowsOf
    <3>2. RowsIn(r)' = {r}
      BY DEF RowsIn
    <3> QED  BY <3>1, <3>2, <1>h, <2>1
  <2>2. \A r, s \in Raw : CommitPublish(r) /\ CommitPublish(s) => r = s
    BY <1>t DEF CommitPublish, TypeOK
  <2>0. /\ i \in Held \/ (i \in Raw /\ CommitPublish(i))
        /\ j \in Held \/ (j \in Raw /\ CommitPublish(j))
    BY <1>2, HeldGrows
  <2>3. CASE (i \in Raw /\ CommitPublish(i)) \/ (j \in Raw /\ CommitPublish(j))
    BY <2>0, <2>1, <2>2, <2>3
  <2>4. CASE i \in Held /\ j \in Held
    <3>1. RowsIn(i)' = RowsIn(i) /\ RowsIn(j)' = RowsIn(j)
      BY <1>h, <2>4
    <3>2. CASE marker' = marker
      BY <1>a, <2>4, <3>1, <3>2 DEF Alternatives
    <3>3. ASSUME NEW ok \in BOOLEAN, Unmark(ok)
          PROVE  RowsIn(i)' \cap RowsIn(j)' = {}
      <4>1. Held' = Standing
        BY <3>3 DEF Unmark, Held, Pending, Standing, Covered
      <4>2. marker.out \notin Standing \/ marker.inputs \cap Standing = {}
        BY <3>3, <1>t DEF Unmark, HeldInv
      <4>3. ~Alternatives(i, j)
        BY <4>1, <4>2 DEF Alternatives
      <4> QED  BY <1>a, <2>4, <3>1, <4>3
    <3> QED  BY <1>2, <1>t, <3>2, <3>3, MarkerSteps
  <2> QED  BY <2>0, <2>3, <2>4
<1> QED  BY <1>1, <1>2

(* An output holds what its inputs hold, from the merge on.                *)
LEMMA NextMerged ==
  ASSUME CatalogInv, MergedInv, [Next]_vars
  PROVE  MergedInv'
<1> USE TypeParts
<1>t. TypeOK /\ TaskInv /\ FreshInv /\ MarkerInv /\ MergedInv
  BY DEF CatalogInv
<1>h. \A x \in Used : RowsIn(x)' = RowsIn(x)
  BY <1>t, RowsKept
<1>s. rows' = rows => \A S : UNION {RowsIn(x)' : x \in S} = RowsOf(S)
  BY DEF RowsOf, RowsIn
<1>2. (marker # None => rows[marker.out] = RowsOf(marker.inputs))'
  <2>1. CASE marker' = marker /\ marker # None
    <3>1. PICK o \in Used \cap Outs, S \in SUBSET Used : o = marker.out /\ S = marker.inputs
      BY <2>1, <1>t, UsedByRunning DEF TypeOK, Markers
    <3>2. RowsIn(o) = rows[o] /\ RowsIn(o)' = rows'[o]
      BY <3>1, CatalogAssumption DEF RowsIn
    <3>3. UNION {RowsIn(x)' : x \in S} = RowsOf(S)
      BY <1>h DEF RowsOf
    <3>4. rows'[o] = RowsOf(S)
      BY <2>1, <3>1, <3>2, <1>h, <1>t DEF MergedInv
    <3> QED  BY <2>1, <3>1, <3>3, <3>4 DEF RowsOf
  <2>2. ASSUME NEW ok \in BOOLEAN, WriteMarker(ok)
        PROVE  rows'[marker'.out] = RowsOf(marker.inputs)'
    <3>1. marker'.out = stage /\ marker'.inputs = task.ids /\ rows' = rows
      BY <2>2, <1>t, MarkerWritten
    <3>2. rows[stage] = RowsOf(task.ids)
      BY <2>2, <1>t DEF WriteMarker, At, MergedInv
    <3> QED  BY <3>1, <3>2, <1>s DEF RowsOf
  <2>3. \A ok \in BOOLEAN : Unmark(ok) => marker' = None
    BY DEF Unmark
  <2> QED  BY <2>1, <2>2, <2>3, <1>t, MarkerSteps
<1>3. (task.at = "merged" => rows[stage] = RowsOf(task.ids))'
  <2>1. CASE MergeFail
    BY <2>1, <1>t, JobEnds DEF MergeFail, At, Ended
  <2>2. ASSUME NEW S \in SUBSET catalog, NEW o \in Outs, Merge(S, o)
        PROVE  rows'[stage'] = RowsOf(task.ids)'
    <3>1. rows'[o] = RowsOf(S) /\ stage' = o /\ task'.ids = S
      BY <2>2, <1>t DEF Merge, TypeOK, Tasks
    <3>2. UNION {RowsIn(x)' : x \in S} = RowsOf(S)
      BY <1>h DEF RowsOf, Used
    <3> QED  BY <3>1, <3>2 DEF RowsOf
  <2>3. CASE ~MergeFail /\ \A S \in SUBSET catalog, o \in Outs : ~Merge(S, o)
    <3>1. rows' = rows /\ (task'.at = "merged" => task' = task /\ stage' = stage)
      BY <2>3, <1>t, MergeUndisturbed
    <3> QED  BY <3>1, <1>s, <1>t DEF MergedInv, RowsOf
  <2> QED  BY <2>1, <2>2, <2>3
<1> QED  BY <1>2, <1>3 DEF MergedInv

LEMMA NextHeld ==
  ASSUME Reliable, CatalogInv, RowsInv, [Next]_vars
  PROVE  HeldInv'
<1> USE TypeParts
<1>t. /\ TypeOK /\ TaskInv /\ FreshInv /\ MarkerInv /\ LiveInv /\ Ordered
      /\ UnbegunInv /\ HeldInv /\ RollbackInv
  BY ReliableIsTolerated DEF CatalogInv, RowsInv, KeptInv
<1>1. \A i, j \in Held' : i # j => RowsIn(i)' \cap RowsIn(j)' = {} \/ Alternatives(i, j)'
  BY NextHeldApart
<1>2. (task.at = "unmark" =>
         marker.out \notin Standing \/ marker.inputs \cap Standing = {})'
  <2>1. CASE PublishReplacement
    <3>1. unsynced' = {}
      BY <2>1 DEF PublishReplacement
    <3>2. /\ marker # None /\ marker' = marker /\ marker.out \in Outs
          /\ present' = present \cup {marker.out} /\ lists'[marker.out] = marker.inputs
          /\ catalog' = (catalog \ marker.inputs) \cup {marker.out}
      BY <2>1, <1>t, PublishLists, PublishedLists
    <3>3. marker.out \notin marker.inputs
      BY <3>2, <1>t DEF MarkerInv
    <3>4. \A x \in marker.inputs : Covered(x)'
      BY <3>1, <3>2 DEF Covered
    <3> QED  BY <3>2, <3>3, <3>4 DEF Standing
  <2>2. CASE RecoverRestore
    <3>1. marker # None /\ ~OutputExists /\ catalog' = catalog \cup marker.inputs
          /\ UNCHANGED <<present, unsynced, marker>>
      BY <2>2 DEF RecoverRestore, files
    <3>2. marker.out \notin present \cup unsynced \cup catalog \cup marker.inputs
      BY <3>1, <1>t DEF OutputExists, RollbackInv, InputsApart, MarkerInv, LiveInv
    <3> QED  BY <3>1, <3>2 DEF Standing
  <2>3. ASSUME task' = task, marker' = marker, task.at = "unmark",
               ~PublishReplacement, ~PublishUnsynced, ~RecoverRestore
        PROVE  marker'.out \notin Standing' \/ marker'.inputs \cap Standing' = {}
    <3>1. marker.out \in Used /\ marker.inputs \subseteq Used
      BY <2>3, <1>t, UsedByRunning DEF TaskInv
    <3>2. \A r \in Raw : CommitPublish(r) => r \notin Used
      BY <1>t DEF UnbegunInv, CommitPublish
    <3>3. marker.out \notin Standing \/ marker.inputs \cap Standing = {}
      BY <2>3, <1>t DEF HeldInv
    <3> QED  BY <2>3, <3>1, <3>2, <3>3, StandingGrows
  <2>e. \A ok \in BOOLEAN : task.job # "none" /\ EndJob(ok) => task'.at = "start"
    BY <1>t, JobEnds DEF Ended
  <2>4. ASSUME Quiet, task'.at = "unmark"
        PROVE  marker'.out \notin Standing' \/ marker'.inputs \cap Standing' = {}
    <3>1. /\ task' = task /\ task.at = "unmark"
          /\ UNCHANGED <<present, unsynced, marked, lists, marker, catalog>>
      BY <2>4, <1>t, QuietSteps
    <3>2. Standing' = Standing
      BY <3>1 DEF Standing, Covered
    <3> QED  BY <3>1, <3>2, <1>t DEF HeldInv
  <2>5. ASSUME Commits, task'.at = "unmark"
        PROVE  marker'.out \notin Standing' \/ marker'.inputs \cap Standing' = {}
    <3>1. task' = task /\ marker' = marker
      BY <2>5, OthersStayOut
    <3> QED  BY <2>1, <2>2, <2>3, <2>5, <3>1 DEF PublishReplacement, PublishUnsynced
  <2>6. PublishUnsynced => task'.at # "unmark"
    BY <2>e, <1>t DEF PublishUnsynced, TaskInv
  <2>7. \A ok \in BOOLEAN : Unmark(ok) => task'.at # "unmark"
    BY <2>e, <1>t DEF Unmark, TaskInv, NoTask
  <2>8. MergeFail \/ (\E S \in SUBSET catalog, o \in Outs : Merge(S, o)) => task'.at # "unmark"
    BY <2>e, <1>t DEF MergeFail, Merge, At, Tasks
  <2>9. \A ok \in BOOLEAN : WriteMarker(ok) => task'.at # "unmark"
    BY <2>e, <1>t DEF WriteMarker, At, Tasks
  <2>10. PruneSwap \/ (\E id \in Ids : PruneMark(id)) => task'.at # "unmark"
    BY <1>t DEF PruneSwap, PruneMark, At, Tasks
  <2>11. \A id \in Ids : RemoveRetired(id) => task'.at # "unmark"
    BY <1>t DEF RemoveRetired, At, Tasks
  <2>12. \A ok, synced \in BOOLEAN : CollectEnd(ok, synced) => task'.at # "unmark"
    <3>1. \A ok, synced \in BOOLEAN : (ok /\ synced) \in BOOLEAN  OBVIOUS
    <3> QED  BY <3>1, <2>e DEF CollectEnd, At
  <2>13. Crash => task'.at # "unmark"
    BY DEF Crash, NoTask
  <2>14. OpenStore => task'.at # "unmark"
    BY DEF OpenStore, NoTask
  <2> QED  BY <2>1, <2>2, <2>4, <2>5, <2>6, <2>7, <2>8, <2>9, <2>10, <2>11, <2>12, <2>13, <2>14
           DEF Next, Maintenance, Recover, Replace, Compact, Prune, Collect, Quiet
<1> QED  BY <1>1, <1>2 DEF HeldInv

(* Marks and promises of expiry are written together.                      *)
LEMMA ExpirySteps ==
  ASSUME [Next]_vars, \A id \in Ids : ~PruneMark(id)
  PROVE  UNCHANGED <<marked, expiring>>
<1>1. CASE Quiet \/ Commits
  BY <1>1 DEF Quiet, Reads, Pin, Capture, Unpin, StartPass, RecoverNothing, RecoverResume,
     RecoverRefused, PublishRefused, CompactNothing, PruneNothing, CollectBegin, vars,
     Commits, CommitBegin, CommitFail, CommitPublish, CommitSynced, CommitSyncFail, files, history
<1>2. CASE RecoverRestore \/ PublishReplacement \/ PublishUnsynced
  BY <1>2 DEF RecoverRestore, PublishReplacement, PublishUnsynced, SwapReplacement, files, history
<1>3. CASE \E ok \in BOOLEAN : Unmark(ok) \/ WriteMarker(ok)
  BY <1>3 DEF Unmark, WriteMarker, history
<1>4. CASE MergeFail \/ \E S \in SUBSET catalog, o \in Outs : Merge(S, o)
  BY <1>4 DEF MergeFail, Merge, history
<1>5. CASE PruneSwap
  BY <1>5 DEF PruneSwap, files
<1>6. CASE \/ \E id \in Ids : RemoveRetired(id)
           \/ \E ok, synced \in BOOLEAN : CollectEnd(ok, synced)
  BY <1>6 DEF RemoveRetired, CollectEnd, history
<1>7. CASE Crash \/ OpenStore
  BY <1>7 DEF Crash, OpenStore, history
<1> QED  BY <1>1, <1>2, <1>3, <1>4, <1>5, <1>6, <1>7
         DEF Next, Maintenance, Recover, Replace, Compact, Prune, Collect, Quiet

(* A pruning begins with nothing chosen.                                   *)
LEMMA PruneChoices ==
  ASSUME TypeOK, TaskInv, [Next]_vars, task'.job = "prune"
  PROVE  task'.ids = {} \/ task' = task \/ \E id \in Ids : PruneMark(id)
<1> USE TypeParts
<1>e. \A ok \in BOOLEAN : task.job # "none" /\ EndJob(ok) => task'.ids = {}
  BY JobEnds DEF Ended
<1>1. CASE Quiet
  BY <1>1, QuietSteps
<1>2. CASE Commits
  BY <1>2, OthersStayOut
<1>3. ~RecoverRestore
  BY DEF RecoverRestore, At, Tasks
<1>4. ~PublishReplacement
  BY DEF PublishReplacement, TaskInv, Tasks
<1>5. PublishUnsynced => task'.ids = {}
  BY <1>e DEF PublishUnsynced, TaskInv
<1>6. \A ok \in BOOLEAN : Unmark(ok) => task'.ids = {}
  BY <1>e DEF Unmark, TaskInv, NoTask
<1>7. MergeFail => task'.ids = {}
  BY <1>e DEF MergeFail, At
<1>8. \A S \in SUBSET catalog, o \in Outs : ~Merge(S, o)
  BY DEF Merge, At, Tasks
<1>9. \A ok \in BOOLEAN : WriteMarker(ok) => task'.ids = {}
  BY <1>e DEF WriteMarker, At, Tasks
<1>10. PruneSwap => task'.ids = {}
  BY DEF PruneSwap, Tasks
<1>11. \A id \in Ids : ~RemoveRetired(id)
  BY DEF RemoveRetired, At, Tasks
<1>12. \A ok, synced \in BOOLEAN : CollectEnd(ok, synced) => task'.ids = {}
  <2>1. \A ok, synced \in BOOLEAN : (ok /\ synced) \in BOOLEAN  OBVIOUS
  <2> QED  BY <2>1, <1>e DEF CollectEnd, At
<1>13. ~Crash
  BY DEF Crash, NoTask
<1>14. ~OpenStore
  BY DEF OpenStore, NoTask
<1> QED  BY <1>1, <1>2, <1>3, <1>4, <1>5, <1>6, <1>7, <1>8, <1>9, <1>10, <1>11, <1>12, <1>13, <1>14
         DEF Next, Maintenance, Recover, Replace, Compact, Prune, Collect, Quiet

LEMMA NextChosen ==
  ASSUME TypeOK, TaskInv, ChosenInv, [Next]_vars
  PROVE  ChosenInv'
<1> USE TypeParts
<1>1. CASE \E id \in Ids : PruneMark(id)
  BY <1>1 DEF ChosenInv, PruneMark, At, Tasks
<1>2. CASE \A id \in Ids : ~PruneMark(id)
  BY <1>2, PruneChoices, ExpirySteps DEF ChosenInv
<1> QED  BY <1>1, <1>2

LEMMA NextExpiry ==
  ASSUME Reliable, CatalogInv, RowsInv, [Next]_vars
  PROVE  ExpiryInv'
<1> USE TypeParts
<1>t. /\ TypeOK /\ TaskInv /\ FreshInv /\ MarkerInv /\ MergedInv /\ ChosenInv
      /\ UnbegunInv /\ HeldInv /\ ExpiryInv
  BY DEF CatalogInv, RowsInv, KeptInv
<1>h. /\ Held \subseteq Used /\ Used \subseteq Ids /\ marked \subseteq Used /\ catalog \subseteq Used
      /\ \A x \in Used : RowsIn(x)' = RowsIn(x)
  BY <1>t, HeldIsUsed, UsedIds, RowsKept DEF Used
<1>n. \A x \in Held : hidden \cap RowsIn(x) = {}
  BY <1>t DEF ExpiryInv, RowsOf
<1>2. (RowsOf(marked) \subseteq expiring)'
  <2>1. UNION {RowsIn(x)' : x \in marked} = RowsOf(marked) /\ RowsOf(marked) \subseteq expiring
    BY <1>h, <1>t DEF RowsOf, ExpiryInv
  <2>2. ASSUME NEW id \in Ids, PruneMark(id)
        PROVE  UNION {RowsIn(x)' : x \in marked'} \subseteq expiring'
    <3>1. /\ marked' = marked \cup {id} /\ expiring' = expiring \cup RowsIn(id) /\ id \in Used
      BY <2>2, <1>h DEF PruneMark
    <3> QED  BY <2>1, <3>1, <1>h
  <2> QED  BY <2>1, <2>2, ExpirySteps DEF RowsOf
<1>3. ASSUME NEW x \in Held' PROVE hidden' \cap RowsIn(x)' = {}
  <2>1. CASE PruneSwap
    <3> DEFINE S == task.ids
    <3>1. /\ marker = None /\ S \subseteq catalog /\ S \subseteq marked
          /\ catalog' = catalog \ S /\ hidden' = hidden \cup RowsOf(S)
          /\ UNCHANGED <<present, unsynced, marked, lists, marker>>
      BY <2>1, <1>t DEF PruneSwap, At, TaskInv, ChosenInv, files
    <3> HIDE DEF S
    <3>2. x \in Held \ S /\ S \subseteq Held
      BY <3>1 DEF Held, Pending, Standing, Covered
    <3>3. \A y \in S : RowsIn(x) \cap RowsIn(y) = {}
      BY <3>1, <3>2, <1>t DEF HeldInv, Alternatives
    <3>4. RowsIn(x) \cap RowsOf(S) = {}
      BY <3>3 DEF RowsOf
    <3> QED  BY <3>1, <3>2, <3>4, <1>h, <1>n
  <2>2. ASSUME ~PruneSwap, NEW ok \in BOOLEAN, WriteMarker(ok)
        PROVE  hidden' \cap RowsIn(x)' = {}
    <3>1. PICK o \in Outs, S \in SUBSET catalog : o = stage /\ S = task.ids
      BY <2>2, <1>t, MarkerWritten
    <3>2. /\ marker = None /\ marker' # None /\ marker'.out = o /\ marker'.inputs = S
          /\ UNCHANGED <<present, unsynced, marked, lists, rows, catalog, hidden>>
      BY <2>2, <3>1, <1>t, MarkerWritten DEF history
    <3>3. Held' = Held \cup {o} /\ S \subseteq Held
      BY <3>2 DEF Held, Pending, Standing, Covered
    <3>4. RowsIn(o)' = RowsOf(S)
      <4>1. task.at = "merged" /\ o \notin Raw
        BY <2>2, CatalogAssumption DEF WriteMarker, At
      <4> QED  BY <4>1, <3>1, <3>2, <1>t DEF MergedInv, RowsIn
    <3>5. hidden \cap RowsOf(S) = {}
      BY <3>3, <1>n DEF RowsOf
    <3> QED  BY <3>2, <3>3, <3>4, <3>5, <1>h, <1>n
  <2>3. CASE ~PruneSwap /\ \A ok \in BOOLEAN : ~WriteMarker(ok)
    <3>1. hidden' = hidden
      BY <2>3, HiddenSteps
    <3>2. CASE x \in Held
      BY <3>1, <3>2, <1>h, <1>n
    <3>3. CASE x \in Raw /\ CommitPublish(x)
      BY <3>1, <3>3, <1>t DEF UnbegunInv, CommitPublish, RowsIn
    <3> QED  BY <2>3, <3>2, <3>3, HeldGrows
  <2> QED  BY <2>1, <2>2, <2>3
<1>4. (hidden \cap RowsOf(Held) = {})'
  BY <1>3 DEF RowsOf
<1> QED  BY <1>2, <1>4 DEF ExpiryInv

(* A directory in force is superseded durably, or by retention's mark.     *)
LEMMA NewlyCovered ==
  ASSUME Ordered, CatalogInv, KeptInv, [Next]_vars,
         NEW y \in present \ unsynced, ~Covered(y), Covered(y)'
  PROVE  \/ PruneMark(y)
         \/ /\ marker # None /\ marker' = marker /\ y \in marker.inputs
            /\ marker.out \in present' \ unsynced'
<1>t. /\ TypeOK /\ TaskInv /\ MarkerInv /\ EpochInv /\ CoverInv
  BY DEF CatalogInv, KeptInv
<1>i. marker # None /\ marker.out \in Outputs => lists[marker.out] = marker.inputs
  BY <1>t DEF CatalogInv, RollbackInv, InputsApart
<1>1. CASE y \in marked'
  <2>1. ASSUME NEW id \in Ids, PruneMark(id) PROVE id = y
    BY <1>1, <2>1 DEF PruneMark, Covered
  <2>2. y \in Ids /\ y \notin marked
    BY <1>t DEF TypeOK, Covered
  <2> QED  BY <1>1, <2>1, <2>2, ExpirySteps
<1>2. ASSUME NEW o \in (present' \ unsynced') \cap Outs, y \in lists'[o]
      PROVE  /\ marker # None /\ marker' = marker /\ y \in marker.inputs
             /\ marker.out \in present' \ unsynced'
  <2>1. CASE PublishReplacement \/ PublishUnsynced
    <3>1. /\ marker # None /\ marker' = marker /\ present' = present \cup {marker.out}
          /\ lists'[marker.out] = marker.inputs
          /\ \A p \in Outs \ {marker.out} : lists'[p] = lists[p]
      BY <2>1, <1>t, PublishLists, PublishedLists
    <3>2. CASE o = marker.out
      BY <1>2, <3>1, <3>2
    <3>3. CASE o # marker.out
      <4>1. o \in present /\ y \in lists[o]
        BY <1>2, <3>1, <3>3
      <4>2. o \in unsynced
        BY <4>1 DEF Covered
      <4> QED  BY <3>3, <4>1, <4>2, <1>t DEF CoverInv
    <3> QED  BY <3>2, <3>3
  <2>2. CASE ~PublishReplacement /\ ~PublishUnsynced
    <3>1. y \in lists[o] /\ o \in present \cup unsynced
      BY <1>2, <2>2, <1>t, OutputSteps DEF Crash
    <3>2. o \in unsynced
      BY <3>1, <1>2 DEF Covered
    <3>3. o \in present /\ marker # None /\ o = marker.out /\ task.at # "unmark"
      BY <3>1, <3>2, <1>t DEF CoverInv
    <3>4. y \in marker.inputs
      BY <3>1, <3>3, <1>i DEF Outputs
    <3>5. marker' = marker
      <4>1. \A ok \in BOOLEAN : ~Unmark(ok) /\ ~WriteMarker(ok)
        BY <3>3, <1>t DEF Unmark, WriteMarker, At, TaskInv
      <4> QED  BY <4>1, <1>t, MarkerSteps
    <3> QED  BY <1>2, <3>3, <3>4, <3>5
  <2> QED  BY <2>1, <2>2
<1> QED  BY <1>1, <1>2 DEF Covered

(* Only a commit is answered.                                              *)
LEMMA AckedSteps ==
  ASSUME TypeOK, TaskInv, [Next]_vars, ~Commits
  PROVE  acked' = acked /\ fsynced' = fsynced
<1>1. CASE Quiet
  BY <1>1, QuietSteps
<1>2. CASE RecoverRestore \/ PublishReplacement \/ PublishUnsynced
  BY <1>2 DEF RecoverRestore, PublishReplacement, PublishUnsynced, SwapReplacement, history
<1>3. CASE \E ok \in BOOLEAN : Unmark(ok) \/ WriteMarker(ok)
  BY <1>3 DEF Unmark, WriteMarker, history
<1>4. CASE MergeFail \/ \E S \in SUBSET catalog, o \in Outs : Merge(S, o)
  BY <1>4 DEF MergeFail, Merge, history
<1>5. CASE PruneSwap \/ \E id \in Ids : PruneMark(id)
  BY <1>5 DEF PruneSwap, PruneMark
<1>6. CASE \/ \E id \in Ids : RemoveRetired(id)
           \/ \E ok, synced \in BOOLEAN : CollectEnd(ok, synced)
  BY <1>6 DEF RemoveRetired, CollectEnd, history
<1>7. CASE Crash \/ OpenStore
  BY <1>7 DEF Crash, OpenStore, history
<1> QED  BY <1>1, <1>2, <1>3, <1>4, <1>5, <1>6, <1>7
         DEF Next, Maintenance, Recover, Replace, Compact, Prune, Collect, Quiet

LEMMA NextFsynced ==
  ASSUME Tolerated, Ordered, CatalogInv, KeptInv, [Next]_vars
  PROVE  FsyncedInv'
<1>t. /\ TypeOK /\ TaskInv /\ FreshInv /\ MarkerInv /\ DueInv /\ LiveInv /\ ServingInv
      /\ GateInv /\ CoverInv /\ MergedInv /\ FsyncedInv
  BY DEF CatalogInv, KeptInv
<1>h. present \subseteq Used /\ \A x \in Used : RowsIn(x)' = RowsIn(x)
  BY <1>t, RowsKept DEF Used
<1>x. expiring \subseteq expiring'
  <2>1. \A id \in Ids : PruneMark(id) => expiring \subseteq expiring'
    BY DEF PruneMark
  <2> QED  BY <2>1, ExpirySteps
<1>1. ASSUME NEW r \in fsynced' \ expiring', r \in fsynced
      PROVE  \E id \in present' \ unsynced' : ~Covered(id)' /\ r \in RowsIn(id)'
  <2>1. PICK y \in present \ unsynced : ~Covered(y) /\ r \in RowsIn(y)
    BY <1>1, <1>x, <1>t DEF FsyncedInv
  <2>2. ~RemoveRetired(y)
    <3>1. RemoveRetired(y) => y \in RetiringIds
      BY <1>t DEF RemoveRetired, DueInv, RetiringIds
    <3> QED  BY <2>1, <3>1, <1>t DEF CoverInv
  <2>3. y \in present' \ unsynced' /\ r \in RowsIn(y)'
    BY <2>1, <2>2, <1>t, <1>h, DurableSteps
  <2>4. CASE ~Covered(y)'
    BY <2>3, <2>4
  <2>5. CASE PruneMark(y)
    BY <1>1, <2>1, <2>5 DEF PruneMark
  <2>6. CASE /\ marker # None /\ marker' = marker /\ y \in marker.inputs
             /\ marker.out \in present' \ unsynced'
    <3>1. PICK o \in Outs : o = marker.out /\ o \in Used
      BY <2>6, <1>t, UsedByRunning DEF TypeOK, Markers
    <3>2. ~Covered(o)'
      <4>1. MarkerInv'
        BY <1>t, NextMarker
      <4>2. o \notin marked' /\ o \notin Listed'
        BY <2>6, <3>1, <4>1 DEF MarkerInv
      <4> QED  BY <4>2 DEF Covered, Listed
    <3>3. r \in rows[o]
      BY <2>1, <2>6, <3>1, <1>t DEF MergedInv, RowsOf
    <3>4. r \in RowsIn(o)'
      BY <3>1, <3>3, <1>h, CatalogAssumption DEF RowsIn
    <3> QED  BY <2>6, <3>1, <3>2, <3>4
  <2> QED  BY <2>1, <2>4, <2>5, <2>6, NewlyCovered
<1>2. ASSUME NEW r \in fsynced' \ expiring', r \notin fsynced
      PROVE  \E id \in present' \ unsynced' : ~Covered(id)' /\ r \in RowsIn(id)'
  <2>1. PICK s \in Raw : CommitSynced(s)
    BY <1>2, <1>t, AckedSteps DEF Commits, CommitBegin, CommitFail, CommitPublish, CommitSyncFail, history
  <2>2. /\ r = s /\ commit[r] = "syncing" /\ unsynced' = {}
        /\ UNCHANGED <<present, catalog, marked, lists>>
    BY <1>2, <2>1 DEF CommitSynced
  <2>3. r \in catalog /\ r \in present /\ r \in Raw
    BY <2>1, <2>2, <1>t DEF GateInv, LiveInv
  <2>4. r \notin marked /\ \A o \in present \cap Outs : r \notin lists[o]
    BY <2>2, <2>3, <1>t DEF CatalogInv, RollbackInv, MarkedOver, ListsApart
  <2>5. ~Covered(r)'
    BY <2>2, <2>4 DEF Covered
  <2>6. r \in RowsIn(r)'
    BY <2>3 DEF RowsIn
  <2> QED  BY <2>2, <2>3, <2>5, <2>6
<1> QED  BY <1>1, <1>2 DEF FsyncedInv

(* What a retry may forget aside, a synced row is kept.                    *)
LEMMA NextKeptInv ==
  ASSUME Tolerated, Ordered, CatalogInv, KeptInv, [Next]_vars
  PROVE  KeptInv'
<1>1. EpochInv' /\ CoverInv'
  BY NextEpoch, NextCover DEF KeptInv
<1>2. GateInv' /\ ChosenInv'
  BY NextGate, NextChosen DEF CatalogInv, KeptInv
<1>3. MergedInv' /\ FsyncedInv'
  BY NextMerged, NextFsynced DEF KeptInv
<1> QED  BY <1>1, <1>2, <1>3 DEF KeptInv

(* Where no retry meets a failed fsync, no answer comes without one.       *)
LEMMA NextAnswered ==
  ASSUME Reliable, CatalogInv, RowsInv, [Next]_vars
  PROVE  AnsweredInv'
<1>t. /\ TypeOK /\ TaskInv /\ UnbegunInv /\ AnsweredInv
  BY DEF CatalogInv, RowsInv, KeptInv
<1>1. ASSUME NEW r \in Raw, CommitBegin(r) \/ CommitPublish(r)
      PROVE  AnsweredInv'
  <2>1. ~Published(r)
    BY <1>1, <1>t DEF CommitBegin, CommitPublish, UnbegunInv, Published, Used
  <2> QED  BY <1>1, <1>t, <2>1 DEF CommitBegin, CommitPublish, AnsweredInv
<1>2. ASSUME NEW r \in Raw, CommitFail(r) \/ CommitSynced(r) \/ CommitSyncFail(r)
      PROVE  AnsweredInv'
  BY <1>2, <1>t DEF CommitFail, CommitSynced, CommitSyncFail, AnsweredInv, history
<1>3. CASE ~Commits
  BY <1>3, <1>t, AckedSteps DEF AnsweredInv
<1> QED  BY <1>1, <1>2, <1>3 DEF Commits

-----------------------------------------------------------------------------
(* The catalog as a table of rows: what a query sees, step by step.        *)

\* A record names an output that is there, and the pending one only once
\* the swap has put it in the catalog.
RecordInv ==
  /\ \A id \in Ids : replacedBy[id] # None => replacedBy[id] \in present
  /\ marker # None => \A id \in Ids : replacedBy[id] = marker.out => marker.out \in catalog

\* While the store serves, a pending compaction has its output, and the
\* swap moves all of its inputs or none.
SwapInv ==
  phase = "serving" /\ marker # None =>
    /\ OutputExists
    /\ \/ marker.inputs \subseteq catalog
       \/ marker.out \in catalog /\ marker.inputs \cap catalog = {}

(* A batch leaves the catalog by a swap or with the process.               *)
LEMMA LiveSteps ==
  ASSUME TypeOK, TaskInv, [Next]_vars, NEW x \in catalog
  PROVE  \/ x \in catalog'
         \/ PruneSwap /\ x \in task.ids
         \/ (PublishReplacement \/ PublishUnsynced) /\ x \in marker.inputs
         \/ Crash \/ OpenStore
<1>1. CASE Quiet
  BY <1>1, QuietSteps
<1>2. CASE Commits
  BY <1>2, OthersStayOut
<1>3. CASE RecoverRestore \/ MergeFail \/ \E S \in SUBSET catalog, o \in Outs : Merge(S, o)
  BY <1>3 DEF RecoverRestore, MergeFail, Merge, memory
<1>4. CASE PublishReplacement \/ PublishUnsynced
  BY <1>4, PublishLists
<1>5. CASE \E ok \in BOOLEAN : Unmark(ok) \/ WriteMarker(ok)
  BY <1>5 DEF Unmark, WriteMarker
<1>6. CASE PruneSwap \/ \E id \in Ids : PruneMark(id)
  BY <1>6 DEF PruneSwap, PruneMark, memory
<1>7. CASE \/ \E id \in Ids : RemoveRetired(id)
           \/ \E ok, synced \in BOOLEAN : CollectEnd(ok, synced)
  BY <1>7 DEF RemoveRetired, CollectEnd
<1> QED  BY <1>1, <1>2, <1>3, <1>4, <1>5, <1>6, <1>7
         DEF Next, Maintenance, Recover, Replace, Compact, Prune, Collect, Quiet

LEMMA NextRecord ==
  ASSUME TypeOK, TaskInv, FreshInv, MarkerInv, RecordInv, [Next]_vars
  PROVE  RecordInv'
<1> USE TypeParts
<1>1. ASSUME NEW id \in Ids, replacedBy'[id] # None
      PROVE  replacedBy'[id] \in present'
  <2>1. CASE Crash
    BY <1>1, <2>1 DEF Crash
  <2>2. ASSUME NEW x \in Ids, RemoveRetired(x) PROVE replacedBy'[id] \in present'
    BY <1>1, <2>2 DEF RemoveRetired, RecordInv
  <2>3. CASE ~Crash /\ \A x \in Ids : ~RemoveRetired(x)
    <3>1. present \subseteq present'
      BY <2>3, PresentSteps DEF Next
    <3>2. PublishReplacement \/ PublishUnsynced => marker.out \in present'
      BY PublishLists
    <3> QED  BY <1>1, <3>1, <3>2, RecordSteps DEF RecordInv
  <2> QED  BY <2>1, <2>2, <2>3
<1>2. ASSUME marker' # None, NEW id \in Ids, replacedBy'[id] = marker'.out
      PROVE  marker'.out \in catalog'
  <2>1. ASSUME NEW ok \in BOOLEAN, WriteMarker(ok) PROVE FALSE
    <3>1. marker'.out \in Outs \ Used /\ replacedBy' = replacedBy
      BY <2>1, MarkerWritten
    <3>2. replacedBy[id] \in present
      BY <1>2, <3>1, CatalogAssumption DEF RecordInv
    <3> QED  BY <1>2, <3>1, <3>2 DEF Used
  <2>2. CASE marker' = marker
    <3>0. marker.out \in Outs /\ marker.out # None
      BY <1>2, <2>2, CatalogAssumption DEF TypeOK, Markers
    <3>1. CASE Crash
      BY <1>2, <2>2, <3>0, <3>1 DEF Crash
    <3>2. CASE OpenStore
      <4>1. marker.out \in present
        BY <1>2, <2>2, <3>0, <3>2, RecordSteps DEF OpenStore, RecordInv,
           PublishReplacement, PublishUnsynced, TaskInv
      <4>2. marker.out \notin RetiredAtLoad
        BY <1>2, <2>2 DEF MarkerInv, RetiredAtLoad, Listed
      <4> QED  BY <2>2, <3>2, <4>1, <4>2 DEF OpenStore
    <3>3. CASE PublishReplacement \/ PublishUnsynced
      BY <2>2, <3>3, PublishLists
    <3>4. CASE ~Crash /\ ~OpenStore /\ ~PublishReplacement /\ ~PublishUnsynced
      <4>1. marker.out \in catalog
        BY <1>2, <2>2, <3>0, <3>4, RecordSteps DEF RecordInv
      <4>2. ~PruneSwap
        BY <1>2, <2>2 DEF PruneSwap, At, TaskInv
      <4> QED  BY <2>2, <3>4, <4>1, <4>2, LiveSteps
    <3> QED  BY <3>1, <3>2, <3>3, <3>4
  <2>3. \A ok \in BOOLEAN : ~Unmark(ok)
    BY <1>2 DEF Unmark
  <2> QED  BY <2>1, <2>2, <2>3, MarkerSteps
<1> QED  BY <1>1, <1>2 DEF RecordInv

(* The store begins to serve with no compaction pending.                   *)
LEMMA ServingBegins ==
  ASSUME TypeOK, TaskInv, [Next]_vars, phase' = "serving", phase # "serving"
  PROVE  marker' = None
<1>f. \A ok \in BOOLEAN : task.job = "recover" => ~EndJob(ok)
  BY DEF EndJob, FollowingJob, TaskInv
<1>1. CASE Commits \/ Reads
  BY <1>1, OthersStayOut
<1>2. CASE \E pass \in {"hourly", "cycle"} : StartPass(pass)
  BY <1>2 DEF StartPass
<1>3. CASE Recover
  BY <1>3, <1>f DEF Recover, RecoverNothing, RecoverResume, RecoverRestore, RecoverRefused, At, memory
<1>4. CASE Replace
  BY <1>4 DEF Replace, PublishReplacement, PublishUnsynced, PublishRefused, Unmark, EndJob,
              FollowingJob, TaskInv
<1>5. CASE Compact \/ Prune
  BY <1>5 DEF Compact, Merge, MergeFail, CompactNothing, WriteMarker, Prune, PruneSwap, PruneNothing,
              PruneMark, At, TaskInv, EndJob, memory
<1>6. CASE Collect
  BY <1>6 DEF Collect, CollectBegin, RemoveRetired, CollectEnd, At, TaskInv, EndJob, files, memory
<1>7. CASE Crash \/ OpenStore \/ UNCHANGED vars
  BY <1>7 DEF Crash, OpenStore, vars, memory
<1> QED  BY <1>1, <1>2, <1>3, <1>4, <1>5, <1>6, <1>7 DEF Next, Maintenance

(* A pending output stays where it is but for its publication and a power  *)
(* loss.                                                                   *)
LEMMA OutputStays ==
  ASSUME TypeOK, TaskInv, MarkerInv, DueInv, [Next]_vars, ~Crash, marker # None, marker' = marker,
         OutputExists
  PROVE  OutputExists'
<1>1. CASE PublishReplacement \/ PublishUnsynced
  BY <1>1, PublishLists DEF OutputExists
<1>2. ASSUME NEW id \in Ids, RemoveRetired(id) PROVE OutputExists'
  <2>1. id \in RetiringIds /\ present' = present \ {id} /\ stage' = stage
    BY <1>2 DEF RemoveRetired, DueInv, RetiringIds
  <2> QED  BY <2>1 DEF OutputExists, MarkerInv
<1>3. CASE ~PublishReplacement /\ ~PublishUnsynced /\ \A id \in Ids : ~RemoveRetired(id)
  <2>1. present \subseteq present'
    BY <1>3, PresentSteps DEF Next
  <2>2. stage' = stage
    <3>1. CASE Commits \/ Reads
      BY <3>1, OthersStayOut
    <3>2. CASE Recover \/ \E pass \in {"hourly", "cycle"} : StartPass(pass)
      BY <3>2 DEF StartPass, Recover, RecoverNothing, RecoverResume, RecoverRestore, RecoverRefused, files
    <3>3. CASE Replace
      BY <3>3, <1>3 DEF Replace, PublishRefused, Unmark, files
    <3>4. CASE Compact
      BY <3>4 DEF Compact, Merge, MergeFail, CompactNothing, WriteMarker, At, TaskInv, files
    <3>5. CASE Prune \/ Collect
      BY <3>5, <1>3 DEF Prune, PruneSwap, PruneNothing, PruneMark, Collect, CollectBegin,
         CollectEnd, files
    <3>6. CASE OpenStore \/ UNCHANGED vars
      BY <3>6 DEF OpenStore, vars, files
    <3> QED  BY <3>1, <3>2, <3>3, <3>4, <3>5, <3>6 DEF Next, Maintenance
  <2> QED  BY <2>1, <2>2 DEF OutputExists
<1> QED  BY <1>1, <1>2, <1>3

LEMMA NextSwap ==
  ASSUME Ordered, TypeOK, TaskInv, FreshInv, MarkerInv, DueInv, UnbegunInv, SwapInv, [Next]_vars
  PROVE  SwapInv'
<1> SUFFICES ASSUME phase' = "serving", marker' # None
             PROVE  /\ OutputExists'
                    /\ \/ marker'.inputs \subseteq catalog'
                       \/ marker'.out \in catalog' /\ marker'.inputs \cap catalog' = {}
  BY DEF SwapInv
<1>0. phase = "serving" /\ ~Crash /\ ~OpenStore
  BY ServingBegins DEF Crash, OpenStore
<1>1. ASSUME NEW ok \in BOOLEAN, WriteMarker(ok)
      PROVE  OutputExists' /\ marker'.inputs \subseteq catalog'
  <2>1. ok
    BY <1>1 DEF WriteMarker, Ordered
  <2>2. marker'.out = stage /\ stage' = stage /\ marker'.inputs \subseteq catalog'
    BY <1>1, <2>1, MarkerWritten DEF WriteMarker
  <2> QED  BY <2>2 DEF OutputExists
<1>2. CASE marker' = marker
  <2>1. OutputExists'
    BY <1>0, <1>2, OutputStays DEF SwapInv
  <2>2. marker.inputs \subseteq catalog \/ (marker.out \in catalog /\ marker.inputs \cap catalog = {})
    BY <1>0, <1>2 DEF SwapInv
  <2>3. marker.out \in Used /\ marker.inputs \subseteq Used /\ Used \subseteq Ids
        /\ marker.out \notin marker.inputs
    BY <1>2, UsedByRunning, UsedIds DEF MarkerInv
  <2>4. ~PruneSwap
    BY <1>2 DEF PruneSwap, At, TaskInv
  <2>5. CASE PublishReplacement \/ PublishUnsynced
    BY <1>2, <2>1, <2>3, <2>5, PublishLists
  <2>6. CASE ~PublishReplacement /\ ~PublishUnsynced
    <3>1. catalog \subseteq catalog'
      BY <1>0, <2>4, <2>6, LiveSteps
    <3>2. ~RecoverRestore
      BY <1>0, <1>2 DEF RecoverRestore, SwapInv
    <3>3. \A r \in Raw : CommitPublish(r) => r \notin Used
      BY DEF CommitPublish, UnbegunInv
    <3>4. \A x \in marker.inputs : x \in catalog' => x \in catalog
      BY <1>0, <2>3, <2>6, <3>2, <3>3, NamesSteps
    <3> QED  BY <1>2, <2>1, <2>2, <3>1, <3>4
  <2> QED  BY <2>5, <2>6
<1>3. \A ok \in BOOLEAN : ~Unmark(ok)
  BY DEF Unmark
<1> QED  BY <1>1, <1>2, <1>3, MarkerSteps

-----------------------------------------------------------------------------
(* The refinement: each step is one of the table's, or changes nothing a   *)
(* query sees.                                                             *)

ViewInv == RecordInv /\ SwapInv

Copies == [r \in Raw |-> IF phase = "serving"
                         THEN Cardinality({id \in catalog : r \in RowsIn(id)}) ELSE 0]

Seen(r) == phase = "serving" /\ r \in Visible

\* What a query reads is each row's one copy, every answered row that is
\* not to expire, and none that retention removed.
SeenInv ==
  /\ Copies = [r \in Raw |-> IF Seen(r) THEN 1 ELSE 0]
  /\ phase = "serving" => acked \ expiring \subseteq Visible
  /\ hidden \cap Visible = {}

LEMMA LiveApart ==
  ASSUME Reliable, CatalogInv, RowsInv, NEW i \in catalog, NEW j \in catalog, i # j
  PROVE  RowsIn(i) \cap RowsIn(j) = {}
<1>1. RowsIn(i) \cap RowsIn(j) = {} \/ Alternatives(i, j)
  BY DEF RowsInv, HeldInv, Held, Standing
<1>2. ASSUME marker # None, marker.out \in catalog
      PROVE  marker.inputs \cap catalog = {}
  <2>1. marker.out \in present \cap Outs
    BY <1>2 DEF CatalogInv, LiveInv, TypeOK, Markers
  <2> QED  BY <1>2, <2>1, ReliableIsTolerated DEF CatalogInv, RollbackInv, ListsApart,
           InputsApart, Outputs
<1> QED  BY <1>1, <1>2 DEF Alternatives

(* A row that is seen is seen once.                                        *)
LEMMA CopiesSeen ==
  ASSUME Reliable, CatalogInv, RowsInv
  PROVE  Copies = [r \in Raw |-> IF Seen(r) THEN 1 ELSE 0]
<1> SUFFICES ASSUME NEW r \in Raw, phase = "serving"
             PROVE  Cardinality({id \in catalog : r \in RowsIn(id)}) = IF r \in Visible THEN 1 ELSE 0
  BY DEF Copies, Seen
<1> DEFINE H == {id \in catalog : r \in RowsIn(id)}
<1>1. CASE r \in Visible
  <2>1. PICK id \in catalog : r \in RowsIn(id)
    BY <1>1 DEF Visible, RowsOf
  <2>2. \A j \in catalog : r \in RowsIn(j) => j = id
    BY <2>1, LiveApart
  <2>3. H = {id}
    BY <2>1, <2>2
  <2> QED  BY <1>1, <2>3, FS_Singleton
<1>2. CASE r \notin Visible
  <2>1. H = {}
    BY <1>2 DEF Visible, RowsOf
  <2> QED  BY <1>2, <2>1, FS_EmptySet
<1> QED  BY <1>1, <1>2

(* An answered row is readable whenever the store serves.                  *)
LEMMA AckedSeen ==
  ASSUME Reliable, CatalogInv, RowsInv, ViewInv
  PROVE  /\ phase = "serving" => acked \ expiring \subseteq Visible
         /\ hidden \cap Visible = {}
<1>1. ASSUME phase = "serving", NEW r \in acked \ expiring PROVE r \in Visible
  <2>1. PICK y \in present : ~Covered(y) /\ r \in RowsIn(y)
    BY DEF RowsInv, KeptInv, AnsweredInv, FsyncedInv
  <2>2. CASE y \in catalog
    BY <2>1, <2>2 DEF Visible, RowsOf
  <2>3. CASE marker # None /\ y \in marker.inputs /\ replacedBy[y] = marker.out
    <3>1. marker.out \in catalog /\ marker.out \notin Raw
      BY <2>3, CatalogAssumption DEF ViewInv, RecordInv, CatalogInv, TypeOK, Markers
    <3>2. r \in RowsIn(marker.out)
      BY <2>1, <2>3, <3>1 DEF RowsInv, KeptInv, MergedInv, RowsOf, RowsIn
    <3> QED  BY <3>1, <3>2 DEF Visible, RowsOf
  <2>4. y \notin RetiringIds
    BY <2>1 DEF RowsInv, KeptInv, CoverInv
  <2> QED  BY <1>1, <2>2, <2>3, <2>4 DEF CatalogInv, NamespaceInv
<1>2. hidden \cap Visible = {}
  BY DEF RowsInv, ExpiryInv, Held, Standing, RowsOf, Visible
<1> QED  BY <1>1, <1>2

(* While the store serves, a publication moves rows and changes none.      *)
LEMMA PublishSeen ==
  ASSUME Reliable, CatalogInv, RowsInv, ViewInv, [Next]_vars, phase = "serving",
         PublishReplacement \/ PublishUnsynced
  PROVE  Visible' = Visible
<1>t. TypeOK /\ TaskInv /\ FreshInv
  BY DEF CatalogInv
<1>1. /\ marker # None /\ catalog' = (catalog \ marker.inputs) \cup {marker.out}
      /\ rows' = rows /\ marker.out \in Outs \ Raw
  BY <1>t, PublishLists, CatalogAssumption
<1>2. RowsIn(marker.out) = RowsOf(marker.inputs)
  BY <1>1 DEF RowsInv, KeptInv, MergedInv, RowsIn
<1>3. Visible' = RowsOf(catalog')
  BY <1>1 DEF Visible, RowsOf, RowsIn
<1>4. CASE marker.inputs \subseteq catalog
  <2>1. RowsOf(catalog') = RowsOf(catalog \ marker.inputs) \cup RowsIn(marker.out)
    BY <1>1 DEF RowsOf
  <2>2. RowsOf(catalog) = RowsOf(catalog \ marker.inputs) \cup RowsOf(marker.inputs)
    BY <1>4 DEF RowsOf
  <2> QED  BY <1>2, <1>3, <2>1, <2>2 DEF Visible
<1>5. CASE marker.out \in catalog /\ marker.inputs \cap catalog = {}
  <2>1. catalog' = catalog
    BY <1>1, <1>5
  <2> QED  BY <1>3, <2>1 DEF Visible
<1> QED  BY <1>1, <1>4, <1>5 DEF ViewInv, SwapInv

(* What is seen changes with a commit's rename and with retention's swap.  *)
LEMMA SeenSteps ==
  ASSUME Reliable, CatalogInv, RowsInv, ViewInv, [Next]_vars, phase = "serving", phase' = "serving",
         ~PruneSwap, \A r \in Raw : ~CommitPublish(r)
  PROVE  Visible' = Visible
<1>t. TypeOK /\ TaskInv /\ FreshInv
  BY DEF CatalogInv
<1>1. CASE PublishReplacement \/ PublishUnsynced
  BY <1>1, PublishSeen
<1>2. CASE ~PublishReplacement /\ ~PublishUnsynced
  <2>0. ~Crash /\ ~OpenStore /\ ~RecoverRestore
    BY DEF Crash, OpenStore, RecoverRestore, ViewInv, SwapInv
  <2>1. catalog \subseteq catalog'
    BY <1>2, <1>t, <2>0, LiveSteps
  <2>2. catalog' \subseteq Ids
    BY <1>t, NextType DEF TypeOK
  <2>3. catalog' \subseteq catalog
    BY <1>2, <1>t, <2>0, <2>2, NamesSteps
  <2>4. catalog \subseteq Used
    BY DEF Used
  <2>5. UNION {RowsIn(id)' : id \in catalog} = RowsOf(catalog)
    BY <1>t, <2>4, RowsOfKept
  <2> QED  BY <2>1, <2>3, <2>5 DEF Visible, RowsOf
<1> QED  BY <1>1, <1>2

-----------------------------------------------------------------------------
(* The theorems.                                                           *)

LEMMA InitCatalogInv ==
  ASSUME Init
  PROVE  CatalogInv
<1>1. TypeOK
  <2>1. NoTask \in Tasks
    BY NoTaskType
  <2>2. \A q \in Readers : NoReader \in [at : {"idle", "pinned", "reading"}, epoch : Nat, snap : SUBSET Ids]
    BY DEF NoReader
  <2>3. 0 \in 0..MaxAttempts /\ 0 \in 0..MaxCrashes
    BY CatalogAssumption
  <2> QED  BY <2>1, <2>2, <2>3 DEF Init, TypeOK, Markers
<1>2. RetiringIds = {} /\ Listed = {}
  BY DEF Init, RetiringIds, Listed
<1>3. TaskInv
  BY DEF Init, TaskInv, NoTask
<1>4. ServingInv
  BY DEF Init, ServingInv
<1>5. FreshInv
  BY <1>2 DEF Init, FreshInv, Used, NoTask
<1>6. MarkerInv /\ LiveInv
  BY <1>2 DEF Init, MarkerInv, LiveInv
<1>7. ReaderInv
  BY DEF Init, ReaderInv, NoReader
<1>8. DueInv
  BY DEF Init, DueInv, NoTask
<1>9. RollbackInv
  BY DEF Init, RollbackInv, MarkedOver, MarksApart, ListsApart, InputsApart, Outputs
<1>10. NamespaceInv
  BY DEF Init, NamespaceInv, NoTask
<1> QED  BY <1>1, <1>3, <1>4, <1>5, <1>6, <1>7, <1>8, <1>9, <1>10 DEF CatalogInv

LEMMA NextCatalogInv ==
  ASSUME Tolerated, CatalogInv, [Next]_vars
  PROVE  CatalogInv'
<1> USE DEF CatalogInv
<1>1. TypeOK' /\ TaskInv'
  BY NextType, NextTask
<1>2. ServingInv'
  BY NextServing
<1>3. FreshInv' /\ MarkerInv'
  BY NextFresh, NextMarker
<1>4. LiveInv'
  BY NextLive
<1>5. ReaderInv'
  BY NextReader
<1>6. DueInv'
  BY NextDue
<1>7. RollbackInv'
  BY NextRollback
<1>8. NamespaceInv'
  BY NextNamespace
<1> QED  BY <1>1, <1>2, <1>3, <1>4, <1>5, <1>6, <1>7, <1>8

LEMMA CatalogInvAlways ==
  ASSUME Tolerated
  PROVE  Spec => []CatalogInv
<1>1. CatalogInv /\ [Next]_vars => CatalogInv'
  BY NextCatalogInv
<1>2. Init => CatalogInv
  BY InitCatalogInv
<1> QED  BY <1>1, <1>2, PTL DEF Spec

(* Every variable keeps its shape.                                         *)
THEOREM CatalogTypes ==
  ASSUME Tolerated
  PROVE  Spec => []TypeOK
<1>1. CatalogInv => TypeOK
  BY DEF CatalogInv
<1> QED  BY <1>1, CatalogInvAlways, PTL

(* CollectRetired deletes no file a query captured before it unpinned,     *)
(* though compaction, a rollback, retention or a restart moved the batch   *)
(* under it.                                                               *)
THEOREM PinnedFilesKept ==
  ASSUME Tolerated
  PROVE  Spec => []PinnedFilesExist
<1>1. CatalogInv => PinnedFilesExist
  BY DEF CatalogInv, ReaderInv, PinnedFilesExist
<1> QED  BY <1>1, CatalogInvAlways, PTL

(* Every batch of the catalog has its directory: neither a collection nor  *)
(* a rollback leaves a live name without files.                            *)
THEOREM LiveBatchesOnDisk ==
  ASSUME Tolerated
  PROVE  Spec => []CatalogOnDisk
<1>1. CatalogInv => CatalogOnDisk
  BY DEF CatalogInv, LiveInv, CatalogOnDisk
<1> QED  BY <1>1, CatalogInvAlways, PTL

(* No directory is orphaned: it is live, awaits its deletion, or is held   *)
(* by the pending compaction, whatever failed and was retried.             *)
THEOREM NothingOrphaned ==
  ASSUME Tolerated
  PROVE  Spec => []NamespaceAccounted
<1>1. CatalogInv => NamespaceAccounted
  <2> SUFFICES ASSUME CatalogInv, phase = "serving", NEW id \in present
               PROVE  Published(id)
    BY DEF NamespaceAccounted
  <2>1. CASE id \in catalog \cup RetiringIds
    BY <2>1 DEF Published
  <2>2. CASE marker # None /\ id \in marker.inputs /\ replacedBy[id] = marker.out
    BY <2>2, CatalogAssumption DEF CatalogInv, TypeOK, Markers, Published
  <2> QED  BY <2>1, <2>2 DEF CatalogInv, NamespaceInv
<1> QED  BY <1>1, CatalogInvAlways, PTL

LEMMA InitRowsInv ==
  ASSUME Init
  PROVE  RowsInv
<1>1. RetiringIds = {} /\ Listed = {} /\ Held = {}
  BY DEF Init, RetiringIds, Listed, Held, Standing, Pending
<1>2. UnbegunInv
  BY <1>1, CatalogAssumption DEF Init, UnbegunInv, Used, Ids
<1>3. EpochInv /\ CoverInv
  BY <1>1 DEF Init, EpochInv, CoverInv, NoTask
<1>4. HeldInv /\ ExpiryInv /\ AnsweredInv
  BY <1>1 DEF Init, HeldInv, ExpiryInv, AnsweredInv, RowsOf, NoTask
<1>5. GateInv /\ MergedInv /\ ChosenInv /\ FsyncedInv
  BY <1>1 DEF Init, GateInv, MergedInv, ChosenInv, FsyncedInv, NoTask
<1> QED  BY <1>2, <1>3, <1>4, <1>5 DEF RowsInv, KeptInv

LEMMA NextRowsInv ==
  ASSUME Reliable, CatalogInv, RowsInv, [Next]_vars
  PROVE  RowsInv'
<1>1. UnbegunInv'
  BY NextUnbegun DEF CatalogInv, RowsInv
<1>2. KeptInv'
  BY NextKeptInv, ReliableIsTolerated DEF RowsInv
<1>3. HeldInv' /\ ExpiryInv' /\ AnsweredInv'
  BY NextHeld, NextExpiry, NextAnswered
<1> QED  BY <1>1, <1>2, <1>3 DEF RowsInv

LEMMA RowsInvAlways ==
  ASSUME Reliable
  PROVE  Spec => [](CatalogInv /\ RowsInv)
<1>1. CatalogInv /\ RowsInv /\ [Next]_vars => (CatalogInv /\ RowsInv)'
  BY NextCatalogInv, NextRowsInv, ReliableIsTolerated
<1>2. Init => CatalogInv /\ RowsInv
  BY InitCatalogInv, InitRowsInv
<1> QED  BY <1>1, <1>2, PTL DEF Spec

LEMMA InitViewInv ==
  Init => ViewInv
  BY DEF Init, ViewInv, RecordInv, SwapInv

LEMMA ViewInvAlways ==
  ASSUME Reliable
  PROVE  Spec => [](CatalogInv /\ RowsInv /\ ViewInv)
<1>1. CatalogInv /\ RowsInv /\ ViewInv /\ [Next]_vars => ViewInv'
  BY NextRecord, NextSwap, ReliableIsTolerated DEF CatalogInv, RowsInv, ViewInv
<1> QED  BY <1>1, InitViewInv, RowsInvAlways, PTL DEF Spec

(* Nothing is promised or chosen while the store does not serve.           *)
LEMMA QuietHistory ==
  ASSUME Reliable, CatalogInv, RowsInv, [Next]_vars, phase # "serving"
  PROVE  UNCHANGED <<acked, expiring, hidden>>
<1>t. TypeOK /\ TaskInv /\ ServingInv /\ UnbegunInv
  BY DEF CatalogInv, RowsInv, KeptInv
<1>1. CASE Commits
  BY <1>1, <1>t, CommitCases DEF Commits, ServingInv
<1>2. CASE ~Commits
  <2>1. \A id \in Ids : ~PruneMark(id)
    BY <1>t DEF PruneMark, At, TaskInv
  <2>2. ~PruneSwap
    BY <1>t DEF PruneSwap, At, TaskInv
  <2> QED  BY <1>2, <1>t, <2>1, <2>2, AckedSteps, ExpirySteps, HiddenSteps
<1> QED  BY <1>1, <1>2

(* Each step of the catalog is a step of the table, or one that no query   *)
(* and no promise can tell.                                                *)
LEMMA TableStep ==
  ASSUME Reliable, CatalogInv, RowsInv, ViewInv, SeenInv, SeenInv', [Next]_vars
  PROVE  [Table!TableNext]_(Table!tableVars)
<1>t. /\ TypeOK /\ TaskInv /\ FreshInv /\ ServingInv /\ UnbegunInv /\ HeldInv /\ ExpiryInv
      /\ GateInv /\ ChosenInv /\ TypeOK'
  BY NextType DEF CatalogInv, RowsInv, KeptInv
<1>c. Copies = [r \in Raw |-> IF Seen(r) THEN 1 ELSE 0]
  BY DEF SeenInv
<1>d. Copies' = [r \in Raw |-> IF Seen(r)' THEN 1 ELSE 0]
  BY DEF SeenInv
<1>v. Visible \subseteq Raw /\ Visible' \subseteq Raw
  BY <1>t DEF Visible, RowsOf, RowsIn, TypeOK, Ids
\* Nothing a query sees has changed.
<1>k. ASSUME Visible' = Visible \/ phase # "serving", (phase' = "serving") = (phase = "serving"),
             UNCHANGED <<acked, expiring, hidden>>
      PROVE  UNCHANGED Table!tableVars
  <2>1. \A r \in Raw : Seen(r)' <=> Seen(r)
    BY <1>k DEF Seen
  <2>2. Copies' = Copies
    BY <2>1, <1>c, <1>d
  <2> QED  BY <1>k, <2>2 DEF Table!tableVars, Copies
<1>1. CASE phase' # "serving"
  <2>1. \A r \in Raw : ~Seen(r)'
    BY <1>1 DEF Seen
  <2>2. Copies' = [r \in Raw |-> 0]
    BY <2>1, <1>d
  <2>3. CASE phase = "serving"
    <3>1. Crash
      <4>1. phase' # phase
        BY <1>1, <2>3
      <4> QED  BY <2>3, <4>1, <1>t, MaintenanceFrame DEF Next, Reads, Pin, Capture, Unpin, OpenStore, vars,
               memory, Commits, CommitBegin, CommitFail, CommitPublish, CommitSynced, CommitSyncFail
    <3>2. UNCHANGED <<acked, expiring, hidden>>
      BY <3>1 DEF Crash, history
    <3>3. Table!Stop
      BY <1>1, <2>2, <3>2 DEF Table!Stop, Table!NoRows, Copies
    <3> QED  BY <3>3 DEF Table!TableNext
  <2>4. CASE phase # "serving"
    BY <1>1, <2>4, <1>k, QuietHistory
  <2> QED  BY <2>3, <2>4
<1>2. CASE phase # "serving" /\ phase' = "serving"
  <2>1. UNCHANGED <<acked, expiring, hidden>>
    BY <1>2, QuietHistory
  <2>2. acked' \ expiring' \subseteq Visible' /\ hidden' \cap Visible' = {}
    BY <1>2 DEF SeenInv
  <2>3. Copies' = [r \in Raw |-> IF r \in Visible' THEN 1 ELSE 0]
    BY <1>2, <1>d DEF Seen
  <2>4. Table!Restart
    <3>1. Visible' \in SUBSET (Raw \ hidden) /\ acked \ expiring \subseteq Visible'
      BY <1>v, <2>1, <2>2
    <3> QED  BY <1>2, <2>1, <2>3, <3>1 DEF Table!Restart, Copies
  <2> QED  BY <2>4 DEF Table!TableNext
<1>3. CASE phase = "serving" /\ phase' = "serving"
  <2>c. /\ Copies = [r \in Raw |-> IF r \in Visible THEN 1 ELSE 0]
        /\ Copies' = [r \in Raw |-> IF r \in Visible' THEN 1 ELSE 0]
    BY <1>3, <1>c, <1>d DEF Seen
  <2>1. ASSUME NEW r \in Raw, CommitPublish(r) PROVE Table!Publish(r)
    <3>1. /\ catalog' = catalog \cup {r} /\ rows' = rows
          /\ UNCHANGED <<acked, expiring, hidden>>
      <4>1. commit[r] = "prepared" /\ commit'[r] \in {"syncing", "done"}
        BY <2>1, <1>t DEF CommitPublish, TypeOK
      <4> QED  BY <2>1, <4>1, <1>t, CommitCases
    <3>2. r \notin Visible /\ r \notin hidden
      BY <2>1, <1>t, UsedIds, CommitApart DEF Visible, Used
    <3>3. Visible' = Visible \cup {r}
      BY <3>1 DEF Visible, RowsOf, RowsIn
    <3>4. Copies[r] = 0 /\ Copies' = [Copies EXCEPT ![r] = 1]
      BY <2>c, <3>2, <3>3
    <3> QED  BY <1>3, <3>1, <3>2, <3>4 DEF Table!Publish, Copies
  <2>2. CASE PruneSwap
    <3> DEFINE S == RowsOf(task.ids)
    <3>1. /\ task.ids \subseteq catalog /\ task.ids \subseteq marked
          /\ catalog' = catalog \ task.ids /\ hidden' = hidden \cup S
          /\ UNCHANGED <<rows, acked, expiring>>
      BY <2>2, <1>t DEF PruneSwap, At, TaskInv, ChosenInv, files
    <3>2. S \subseteq expiring /\ S \in SUBSET Raw
      BY <3>1, <1>t DEF ExpiryInv, RowsOf, TypeOK
    <3>3. \A i \in catalog \ task.ids, j \in task.ids : RowsIn(i) \cap RowsIn(j) = {}
      BY <3>1, LiveApart
    <3>4. Visible' = RowsOf(catalog \ task.ids)
      BY <3>1 DEF Visible, RowsOf, RowsIn
    <3>5. RowsOf(catalog \ task.ids) = Visible \ S
      BY <3>1, <3>3 DEF Visible, RowsOf
    <3> HIDE DEF S
    <3>6. Copies' = [r \in Raw |-> IF r \in S THEN 0 ELSE Copies[r]]
      BY <2>c, <3>4, <3>5
    <3>7. Table!Expire(S)
      BY <1>3, <3>1, <3>2, <3>6 DEF Table!Expire, Copies
    <3> QED  BY <3>2, <3>7 DEF Table!TableNext
  <2>3. ASSUME ~PruneSwap, \A r \in Raw : ~CommitPublish(r)
        PROVE  [Table!TableNext]_(Table!tableVars)
    <3>1. Visible' = Visible /\ hidden' = hidden
      BY <1>3, <2>3, SeenSteps, HiddenSteps
    <3>2. Copies' = Copies
      BY <2>c, <3>1
    <3>3. ASSUME NEW id \in Ids, PruneMark(id) PROVE \E S \in SUBSET Raw : Table!Choose(S)
      <4>1. /\ id \in catalog /\ expiring' = expiring \cup RowsIn(id) /\ acked' = acked
        BY <3>3 DEF PruneMark
      <4>2. RowsIn(id) \subseteq Visible
        BY <4>1 DEF Visible, RowsOf
      <4>3. \A r \in RowsIn(id) : Copies[r] = 1
        BY <2>c, <4>2, <1>v
      <4>4. Table!Choose(RowsIn(id))
        BY <1>3, <3>1, <3>2, <4>1, <4>3 DEF Table!Choose, Copies
      <4> QED  BY <4>2, <4>4, <1>v
    <3>4. ASSUME NEW r \in Raw, CommitSynced(r) PROVE Table!Acknowledge(r)
      <4>1. r \in catalog /\ acked' = acked \cup {r} /\ expiring' = expiring
        BY <3>4, <1>t DEF CommitSynced, GateInv
      <4>2. Copies[r] = 1
        BY <2>c, <4>1 DEF Visible, RowsOf, RowsIn
      <4> QED  BY <1>3, <3>1, <3>2, <4>1, <4>2 DEF Table!Acknowledge, Copies
    <3>5. CASE (\A id \in Ids : ~PruneMark(id)) /\ \A r \in Raw : ~CommitSynced(r)
      <4>1. expiring' = expiring
        BY <3>5, ExpirySteps
      <4>2. acked' = acked
        <5>1. ASSUME NEW r \in Raw, CommitBegin(r) \/ CommitFail(r) \/ CommitSyncFail(r)
              PROVE  acked' = acked
          <6>1. commit[r] # "syncing" \/ CommitSyncFail(r)
            BY <5>1 DEF CommitBegin, CommitFail
          <6> QED  BY <5>1, <6>1, <1>t, CommitCases DEF CommitSyncFail, history
        <5> QED  BY <2>3, <3>5, <5>1, <1>t, AckedSteps DEF Commits
      <4> QED  BY <1>3, <3>1, <4>1, <4>2, <1>k
    <3> QED  BY <3>3, <3>4, <3>5 DEF Table!TableNext
  <2> QED  BY <2>1, <2>2, <2>3 DEF Table!TableNext
<1> QED  BY <1>1, <1>2, <1>3

(* No row is read twice: no two live batches hold rows of one commit,      *)
(* though a merge, its rollback or a restart was interrupted anywhere.     *)
THEOREM RowsCounted ==
  ASSUME Reliable
  PROVE  Spec => []RowsCountedOnce
<1>1. CatalogInv /\ RowsInv => RowsCountedOnce
  BY LiveApart DEF RowsCountedOnce
<1> QED  BY <1>1, RowsInvAlways, PTL

(* CommitBatch's fsync keeps what it promises: the rows of a commit that   *)
(* synced its directory before it was answered are in a directory whose    *)
(* place is durable, in every phase and until retention marks them.  The   *)
(* hypothesis lets commits fail at their fsync and be retried; a retry     *)
(* answered by alreadyPublished alone is not among the rows promised.      *)
THEOREM FsyncedIsKept ==
  ASSUME Tolerated, Ordered
  PROVE  Spec => []FsyncedStaysDurable
<1>1. Init => CatalogInv /\ KeptInv
  BY InitCatalogInv, InitRowsInv DEF RowsInv
<1>2. CatalogInv /\ KeptInv /\ [Next]_vars => (CatalogInv /\ KeptInv)'
  BY NextCatalogInv, NextKeptInv
<1>3. CatalogInv /\ KeptInv => FsyncedStaysDurable
  BY DEF KeptInv, FsyncedInv, FsyncedStaysDurable, RowsOf
<1> QED  BY <1>1, <1>2, <1>3, PTL DEF Spec

(* An answered row is readable whenever the store serves, from its own     *)
(* batch or from the output that took its place, unless retention marked   *)
(* it.                                                                     *)
THEOREM AcknowledgedIsReadable ==
  ASSUME Reliable
  PROVE  Spec => []AcknowledgedVisible
<1>1. CatalogInv /\ RowsInv /\ ViewInv => AcknowledgedVisible
  BY AckedSeen DEF AcknowledgedVisible
<1> QED  BY <1>1, ViewInvAlways, PTL

(* What PruneBefore removed from the catalog no restart, rollback or merge *)
(* puts back.                                                              *)
THEOREM PrunedIsGone ==
  ASSUME Reliable
  PROVE  Spec => []PrunedStaysHidden
<1>1. CatalogInv /\ RowsInv => PrunedStaysHidden
  BY DEF RowsInv, ExpiryInv, Held, Standing, RowsOf, Visible, PrunedStaysHidden
<1> QED  BY <1>1, RowsInvAlways, PTL

(* The catalog, its files, merges and recoveries implement a plain table:  *)
(* a commit appears at once and one time, an answer is kept, and only      *)
(* retention takes rows away.                                              *)
THEOREM CatalogIsATable ==
  ASSUME Reliable
  PROVE  Spec => ImplementsTable
<1>1. Init => Table!TableInit
  BY DEF Init, Table!TableInit, Table!NoRows
<1>2. CatalogInv /\ RowsInv /\ ViewInv => SeenInv
  BY CopiesSeen, AckedSeen DEF SeenInv
<1>3. CatalogInv /\ RowsInv /\ ViewInv /\ SeenInv /\ SeenInv' /\ [Next]_vars
      => [Table!TableNext]_(Table!tableVars)
  BY TableStep
<1> QED  BY <1>1, <1>2, <1>3, ViewInvAlways, PTL DEF Spec, ImplementsTable, Table!TableSpec

=============================================================================
