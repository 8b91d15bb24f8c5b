------------------------- MODULE ResultCacheProofs -------------------------
(* Proofs about ResultCache, for every set of requests and keys. *)
EXTENDS ResultCache, FiniteSetTheorems, TLAPS

USE DEF storeVars

RunRecord ==
  [phase : {"free", "queued", "started", "returned"}, key : Key \cup {None},
   stamp : Nat, waiters : Int, detached : BOOLEAN, background : BOOLEAN,
   cancelled : BOOLEAN, result : {"none", "kept", "value", "error"}]
CallerRecord ==
  [at : {"idle", "arrived", "waiting", "answered", "left"},
   key : Key \cup {None}, stamp : Nat, bypass : BOOLEAN, waits : SUBSET Run,
   accept : BOOLEAN, got : Nat \cup {None}]

CacheTypes ==
  /\ ttl \in Nat /\ now \in Nat
  /\ entries \in [Key -> Nat \cup {None}]
  /\ flights \in [Key -> Run \cup {None}]
  /\ run \in [Run -> RunRecord]
  /\ caller \in [Caller -> CallerRecord]

RunsKeyed == \A r \in Running : run[r].key \in Key

(* The name of a run somebody waits for is not given to another, and what  *)
(* a no-cache caller accepted, delivered or not, covers its arrival.       *)
GoodCaller(c) ==
  LET q == caller[c]
  IN  /\ q.at \in {"arrived", "waiting"} /\ c \notin Refresher => q.key \in Key
      /\ q.waits \subseteq Running
      /\ q.at # "waiting" => q.waits = {}
      /\ q.at = "arrived" => q.got = None
      /\ q.got # None => q.bypass
      /\ q.bypass /\ q.accept =>
           /\ \A r \in q.waits : run[r].stamp >= q.stamp
           /\ q.got # None => q.got >= q.stamp
      /\ q.at = "answered" /\ q.got # None => q.got >= q.stamp

RunInv == CacheTypes /\ RunsKeyed /\ OneRunPerKey
CacheInv == RunInv /\ \A c \in Caller : GoodCaller(c)

-----------------------------------------------------------------------------

(* One run per key leaves a name for the next run. *)
LEMMA ARunIsLeft ==
  ASSUME RunInv
  PROVE  NewRun \in Run /\ run[NewRun].phase = "free"
<1>1. \E r \in Run : run[r].phase = "free"
  <2> SUFFICES ASSUME \A r \in Run : run[r].phase # "free"
               PROVE  FALSE
    OBVIOUS
  <2> DEFINE key == [r \in Run |-> run[r].key]
  <2>1. \A r \in Run : run[r].key \in Key /\ flights[run[r].key] = r
    BY DEF RunInv, RunsKeyed, OneRunPerKey, Running
  <2>2. key \in Injection(Run, Key)
    BY <2>1 DEF Injection, IsInjective
  <2>3. Cardinality(Run) <= Cardinality(Key)
    BY <2>2, FS_Injection, CacheAssumption
  <2>4. Cardinality(Run) \in Nat /\ Cardinality(Key) \in Nat
    BY FS_CardinalityType, CacheAssumption
  <2> QED  BY <2>3, <2>4, CacheAssumption
<1> QED  BY <1>1 DEF NewRun

(* Joining and leaving a run change neither what it is nor its window. *)
LEMMA JoinKeeps ==
  ASSUME NEW f \in RunRecord, NEW c
  PROVE  /\ Join(f, c) \in RunRecord
         /\ Join(f, c).phase = f.phase
         /\ Join(f, c).key = f.key /\ Join(f, c).stamp = f.stamp
<1> DEFINE w == f.waiters + 1
           d == f.detached \/ (ttl > 0 /\ ~caller[c].bypass)
<1>1. w \in Int
  BY DEF RunRecord
<1>2. d \in BOOLEAN
  OBVIOUS
<1>3. Join(f, c) = [f EXCEPT !.waiters = w, !.detached = d]
  BY DEF Join
<1> HIDE DEF w, d
<1> QED  BY <1>1, <1>2, <1>3 DEF RunRecord

LEMMA DropKeeps ==
  ASSUME NEW f \in RunRecord
  PROVE  /\ Drop(f) \in RunRecord
         /\ Drop(f).phase = f.phase
         /\ Drop(f).key = f.key /\ Drop(f).stamp = f.stamp
<1> DEFINE w == f.waiters - 1
           d == f.cancelled \/ /\ w = 0
                               /\ \/ ~f.detached
                                  \/ (f.phase = "queued" /\ ~f.background)
<1>1. w \in Int
  BY DEF RunRecord
<1>2. d \in BOOLEAN
  OBVIOUS
<1>3. Drop(f) = [f EXCEPT !.waiters = w, !.cancelled = d]
  BY DEF Drop
<1> HIDE DEF w, d
<1> QED  BY <1>1, <1>2, <1>3 DEF RunRecord

LEMMA StartKeeps ==
  ASSUME NEW k \in Key, NEW stamp \in Nat, NEW background \in BOOLEAN
  PROVE  /\ StartFlight(k, stamp, background) \in RunRecord
         /\ StartFlight(k, stamp, background).phase = "queued"
         /\ StartFlight(k, stamp, background).key = k
         /\ StartFlight(k, stamp, background).stamp = stamp
<1>1. Free \in RunRecord
  BY DEF Free, RunRecord
<1> PICK f \in RunRecord : f = Free
  BY <1>1
<1>2. StartFlight(k, stamp, background)
        = [f EXCEPT !.phase = "queued", !.key = k, !.stamp = stamp,
                    !.detached = background, !.background = background]
  BY DEF StartFlight
<1> QED  BY <1>2 DEF RunRecord

(* No step but a publication ends a run or changes its window. *)
RunsKept ==
  \A r \in Running :
    r \in Running' /\ run'[r].key = run[r].key /\ run'[r].stamp = run[r].stamp

LEMMA OthersStayGood ==
  ASSUME CacheInv, RunsKept, NEW c \in Caller, caller'[c] = caller[c]
  PROVE  GoodCaller(c)'
<1>1. GoodCaller(c)
  BY DEF CacheInv
<1>2. \A r \in caller[c].waits : r \in Running' /\ run'[r].stamp = run[r].stamp
  BY <1>1 DEF GoodCaller, RunsKept
<1> QED  BY <1>1, <1>2 DEF GoodCaller

(* A step that starts and ends no run. *)
NamesKept ==
  \A r \in Run : /\ run'[r].phase = "free" <=> run[r].phase = "free"
                 /\ run'[r].key = run[r].key /\ run'[r].stamp = run[r].stamp

LEMMA SameRuns ==
  ASSUME RunInv, run' \in [Run -> RunRecord], flights' = flights, NamesKept
  PROVE  RunsKept /\ RunsKeyed' /\ OneRunPerKey'
<1>1. Running' = Running
  BY DEF Running, NamesKept
<1>2. RunsKept
  BY <1>1 DEF RunsKept, Running, NamesKept
<1>3. RunsKeyed'
  BY <1>1 DEF RunsKeyed, RunInv, Running, NamesKept
<1>4. OneRunPerKey'
  <2>1. \A r \in Running' : flights'[run'[r].key] = r
    BY <1>1 DEF OneRunPerKey, RunInv, Running, NamesKept
  <2>2. \A k \in Key : flights'[k] # None =>
          flights'[k] \in Running' /\ run'[flights'[k]].key = k
    BY <1>1 DEF OneRunPerKey, RunInv, Running, NamesKept
  <2> QED  BY <2>1, <2>2 DEF OneRunPerKey
<1> QED  BY <1>2, <1>3, <1>4

(* A step that starts the run of a key that has none. *)
LEMMA OneMoreRun ==
  ASSUME RunInv, NEW k \in Key, flights[k] = None,
         NEW f \in RunRecord, f.phase # "free", f.key = k,
         flights' = [flights EXCEPT ![k] = NewRun],
         run' = [run EXCEPT ![NewRun] = f]
  PROVE  /\ RunsKept /\ RunsKeyed' /\ OneRunPerKey'
         /\ run' \in [Run -> RunRecord] /\ flights' \in [Key -> Run \cup {None}]
         /\ NewRun \in Running' /\ run'[NewRun] = f
<1> PICK n : n = NewRun
  OBVIOUS
<1>1. n \in Run /\ run[n].phase = "free"
  BY ARunIsLeft
<1>2. /\ run \in [Run -> RunRecord] /\ flights \in [Key -> Run \cup {None}]
  BY DEF RunInv, CacheTypes
<1>3. /\ run' \in [Run -> RunRecord] /\ flights' \in [Key -> Run \cup {None}]
      /\ run'[n] = f /\ \A r \in Run \ {n} : run'[r] = run[r]
      /\ flights'[k] = n /\ \A j \in Key \ {k} : flights'[j] = flights[j]
  BY <1>1, <1>2
<1>4. Running' = Running \cup {n}
  BY <1>1, <1>3 DEF Running
<1>5. n \notin Running
  BY <1>1 DEF Running
<1>6. RunsKept
  BY <1>3, <1>4, <1>5 DEF RunsKept, Running
<1>7. RunsKeyed'
  BY <1>3, <1>4, <1>5 DEF RunsKeyed, RunInv, Running
<1>8. OneRunPerKey'
  <2>1. ASSUME NEW r \in Running'
        PROVE  flights'[run'[r].key] = r
    <3>1. CASE r = n
      BY <3>1, <1>3
    <3>2. CASE r # n
      <4>1. r \in Running /\ run'[r] = run[r] /\ run[r].key \in Key
        BY <3>2, <1>3, <1>4 DEF RunsKeyed, RunInv, Running
      <4>2. flights[run[r].key] = r /\ r # None
        BY <4>1, CacheAssumption DEF OneRunPerKey, RunInv, Running
      <4> QED  BY <4>1, <4>2, <1>3
    <3> QED  BY <3>1, <3>2
  <2>2. ASSUME NEW j \in Key, flights'[j] # None
        PROVE  flights'[j] \in Running' /\ run'[flights'[j]].key = j
    <3>1. CASE j = k
      BY <3>1, <1>3, <1>4
    <3>2. CASE j # k
      <4>1. flights'[j] = flights[j] /\ flights[j] \in Running
            /\ run[flights[j]].key = j
        BY <2>2, <3>2, <1>3 DEF OneRunPerKey, RunInv
      <4> QED  BY <4>1, <1>3, <1>4, <1>5 DEF Running
    <3> QED  BY <3>1, <3>2
  <2> QED  BY <2>1, <2>2 DEF OneRunPerKey
<1> QED  BY <1>3, <1>4, <1>6, <1>7, <1>8

-----------------------------------------------------------------------------
(* The steps of a request. *)

LEMMA IdleType ==
  /\ Idle \in CallerRecord /\ Idle.waits = {} /\ Idle.got = None
  /\ ~Idle.accept /\ ~Idle.bypass /\ Idle.at = "idle"
BY DEF Idle, CallerRecord

(* Where one request goes, the others staying where they are. *)
LEMMA OneCallerMoves ==
  ASSUME CacheInv, RunsKept, NEW c \in Caller, NEW q \in CallerRecord,
         caller' = [caller EXCEPT ![c] = q], GoodCaller(c)'
  PROVE  caller' \in [Caller -> CallerRecord] /\ \A d \in Caller : GoodCaller(d)'
<1>1. caller \in [Caller -> CallerRecord]
  BY DEF CacheInv, RunInv, CacheTypes
<1>2. caller' \in [Caller -> CallerRecord]
  BY <1>1
<1>3. ASSUME NEW d \in Caller, d # c
      PROVE  GoodCaller(d)'
  <2>1. caller'[d] = caller[d]
    BY <1>1, <1>3
  <2> QED  BY <2>1, OthersStayGood
<1> QED  BY <1>2, <1>3

LEMMA AnswerKeeps ==
  ASSUME CacheInv, RunsKept, NEW c \in Caller, Answer(c),
         caller[c].got # None => caller[c].got >= caller[c].stamp
  PROVE  caller' \in [Caller -> CallerRecord] /\ \A d \in Caller : GoodCaller(d)'
<1>1. caller \in [Caller -> CallerRecord]
  BY DEF CacheInv, RunInv, CacheTypes
<1>2. PICK q \in CallerRecord :
        /\ caller' = [caller EXCEPT ![c] = q]
        /\ q.at = "answered" /\ q.waits = {} /\ ~q.accept
        /\ q.got # None => q.bypass
        /\ q.got # None => q.got >= q.stamp
  <2>1. CASE caller[c].got = None
    <3> DEFINE q == [Idle EXCEPT !.at = "answered"]
    <3>1. q \in CallerRecord /\ q.at = "answered" /\ q.waits = {} /\ ~q.accept /\ q.got = None
      BY DEF Idle, CallerRecord
    <3>2. caller' = [caller EXCEPT ![c] = q]
      BY <1>1, <2>1 DEF Answer
    <3> HIDE DEF q
    <3> QED  BY <3>1, <3>2
  <2>2. CASE caller[c].got # None
    <3> DEFINE q == [Idle EXCEPT !.at = "answered", !.bypass = TRUE,
                                 !.stamp = caller[c].stamp, !.got = caller[c].got]
    <3>1. /\ q \in CallerRecord /\ q.at = "answered" /\ q.waits = {} /\ ~q.accept
          /\ q.bypass /\ q.got = caller[c].got /\ q.stamp = caller[c].stamp
      BY <1>1 DEF Idle, CallerRecord
    <3>2. caller' = [caller EXCEPT ![c] = q]
      BY <1>1, <2>2 DEF Answer
    <3> HIDE DEF q
    <3> QED  BY <3>1, <3>2
  <2> QED  BY <2>1, <2>2
<1>3. caller'[c] = q
  BY <1>1, <1>2
<1>4. GoodCaller(c)'
  BY <1>2, <1>3 DEF GoodCaller
<1> QED  BY <1>2, <1>4, OneCallerMoves

LEMMA AwaitKeeps ==
  ASSUME CacheInv, RunsKept, NEW c \in Caller, NEW rs \in SUBSET Run,
         NEW accept \in BOOLEAN, Await(c, rs, accept),
         caller[c].at = "arrived",
         rs \subseteq Running',
         caller[c].bypass /\ accept =>
           \A r \in rs : run'[r].stamp >= caller[c].stamp
  PROVE  caller' \in [Caller -> CallerRecord] /\ \A d \in Caller : GoodCaller(d)'
<1>1. caller \in [Caller -> CallerRecord] /\ GoodCaller(c)
  BY DEF CacheInv, RunInv, CacheTypes
<1> DEFINE q == [caller[c] EXCEPT !.at = "waiting", !.waits = rs,
                                  !.accept = accept, !.got = None]
<1>2. /\ q \in CallerRecord /\ q.at = "waiting" /\ q.waits = rs /\ q.accept = accept
      /\ q.got = None /\ q.key = caller[c].key /\ q.stamp = caller[c].stamp
      /\ q.bypass = caller[c].bypass
  <2>1. caller[c] \in CallerRecord
    BY <1>1
  <2>2. PICK p \in CallerRecord : p = caller[c]
    BY <2>1
  <2>3. q = [p EXCEPT !.at = "waiting", !.waits = rs, !.accept = accept, !.got = None]
    BY <2>2
  <2> HIDE DEF q
  <2> QED  BY <2>2, <2>3 DEF CallerRecord
<1>3. caller' = [caller EXCEPT ![c] = q]
  BY <1>1 DEF Await
<1> HIDE DEF q
<1>4. caller'[c] = q
  BY <1>1, <1>3
<1>5. GoodCaller(c)'
  BY <1>1, <1>2, <1>4 DEF GoodCaller
<1> QED  BY <1>2, <1>3, <1>5, OneCallerMoves

-----------------------------------------------------------------------------
(* One lemma per action, or per group of actions that change the same.      *)

(* A stored result gives way only to one with no older window. *)
EntriesKept ==
  /\ entries' \in [Key -> Nat \cup {None}]
  /\ \A k \in Key : entries[k] # None /\ entries'[k] # None =>
       entries'[k] >= entries[k]

LEMMA UnchangedEntries ==
  ASSUME CacheTypes, entries' = entries
  PROVE  EntriesKept
BY DEF CacheTypes, EntriesKept

LEMMA MissKeeps ==
  ASSUME CacheInv, NEW c \in Caller, Misses(c)
  PROVE  EntriesKept /\ caller[c].key \in Key /\ caller[c].at = "arrived"
<1>1. caller[c].key \in Key /\ caller[c].at = "arrived"
  BY DEF Misses, Asking, CacheInv, GoodCaller
<1>2. CacheTypes
  BY DEF CacheInv, RunInv
<1>3. CASE entries' = entries
  BY <1>1, <1>2, <1>3, UnchangedEntries
<1>4. CASE entries' = [entries EXCEPT ![caller[c].key] = None]
  BY <1>1, <1>2, <1>4 DEF EntriesKept, CacheTypes
<1> QED  BY <1>1, <1>3, <1>4 DEF Misses, Expire

LEMMA StoreKeeps ==
  ASSUME CacheTypes, NEW k \in Key, NEW stamp \in Nat, Store(k, stamp)
  PROVE  EntriesKept
<1>1. CASE entries' = entries
  BY <1>1, UnchangedEntries
<1>2. CASE /\ entries[k] # None => entries[k] <= stamp
           /\ \E S : entries' = [j \in Key |->
                IF j \notin S THEN None ELSE IF j = k THEN stamp ELSE entries[j]]
  <2>1. PICK S : entries' = [j \in Key |->
          IF j \notin S THEN None ELSE IF j = k THEN stamp ELSE entries[j]]
    BY <1>2
  <2>2. entries' \in [Key -> Nat \cup {None}]
    BY <2>1 DEF CacheTypes
  <2>3. ASSUME NEW j \in Key, entries[j] # None, entries'[j] # None
        PROVE  entries'[j] >= entries[j]
    <3>1. entries[j] \in Nat
      BY <2>3 DEF CacheTypes
    <3>2. CASE j = k
      BY <1>2, <2>1, <2>3, <3>1, <3>2
    <3>3. CASE j # k
      BY <2>1, <2>3, <3>1, <3>3
    <3> QED  BY <3>2, <3>3
  <2> QED  BY <2>2, <2>3 DEF EntriesKept
<1>3. entries' = entries \/ /\ entries[k] # None => entries[k] <= stamp
                            /\ \E S : entries' = [j \in Key |->
                                 IF j \notin S THEN None
                                 ELSE IF j = k THEN stamp ELSE entries[j]]
  BY DEF Store
<1> QED  BY <1>1, <1>2, <1>3

(* What the induction needs of a step. *)
StepKeeps ==
  /\ ttl' = ttl /\ now' \in Nat
  /\ EntriesKept
  /\ flights' \in [Key -> Run \cup {None}] /\ run' \in [Run -> RunRecord]
  /\ RunsKeyed' /\ OneRunPerKey'
  /\ caller' \in [Caller -> CallerRecord] /\ \A d \in Caller : GoodCaller(d)'

LEMMA StepInduces ==
  ASSUME CacheInv, StepKeeps
  PROVE  CacheInv'
BY DEF CacheInv, RunInv, CacheTypes, StepKeeps, EntriesKept

LEMMA Untouched ==
  ASSUME CacheInv, run' = run, flights' = flights
  PROVE  /\ run' \in [Run -> RunRecord] /\ flights' \in [Key -> Run \cup {None}]
         /\ RunsKept /\ RunsKeyed' /\ OneRunPerKey'
<1>1. RunInv /\ run' \in [Run -> RunRecord] /\ flights' \in [Key -> Run \cup {None}]
  BY DEF CacheInv, RunInv, CacheTypes
<1>2. NamesKept
  BY DEF NamesKept
<1> QED  BY <1>1, <1>2, SameRuns

LEMMA ArriveStep ==
  ASSUME CacheInv, NEW c \in Caller, Arrive(c)
  PROVE  StepKeeps
<1>1. CacheTypes
  BY DEF CacheInv, RunInv
<1>2. PICK k \in Key \cup {None}, b \in BOOLEAN :
        /\ c \notin Refresher => k \in Key
        /\ caller' = [caller EXCEPT ![c] =
             [Idle EXCEPT !.at = "arrived", !.key = k, !.stamp = now, !.bypass = b]]
  BY DEF Arrive
<1> DEFINE q == [Idle EXCEPT !.at = "arrived", !.key = k, !.stamp = now, !.bypass = b]
<1>3. /\ q \in CallerRecord /\ q.at = "arrived" /\ q.key = k /\ q.waits = {}
      /\ q.got = None /\ ~q.accept
  <2>1. PICK p \in CallerRecord : /\ p = Idle /\ p.waits = {} /\ p.got = None /\ ~p.accept
    BY IdleType
  <2>2. q = [p EXCEPT !.at = "arrived", !.key = k, !.stamp = now, !.bypass = b]
    BY <2>1
  <2> HIDE DEF q
  <2> QED  BY <1>1, <2>1, <2>2 DEF CallerRecord, CacheTypes
<1>4. caller' = [caller EXCEPT ![c] = q]
  BY <1>2
<1> HIDE DEF q
<1>5. caller'[c] = q
  BY <1>1, <1>4 DEF CacheTypes
<1>6. run' = run /\ flights' = flights /\ entries' = entries /\ ttl' = ttl /\ now' = now
  BY DEF Arrive
<1>7. GoodCaller(c)'
  BY <1>2, <1>3, <1>5 DEF GoodCaller
<1> QED  BY <1>1, <1>3, <1>4, <1>6, <1>7, OneCallerMoves, Untouched, UnchangedEntries
         DEF StepKeeps, CacheTypes


LEMMA HitStep ==
  ASSUME CacheInv, NEW c \in Caller, Hit(c)
  PROVE  StepKeeps
<1>1. /\ run' = run /\ flights' = flights /\ entries' = entries
      /\ ttl' = ttl /\ now' = now /\ Answer(c) /\ ~caller[c].bypass
  BY DEF Hit, MoveToFront
<1>2. CacheTypes /\ caller[c].got = None
  BY <1>1 DEF CacheInv, RunInv, GoodCaller
<1> QED  BY <1>1, <1>2, AnswerKeeps, Untouched, UnchangedEntries
         DEF StepKeeps, CacheTypes

LEMMA HitStaleStep ==
  ASSUME CacheInv, NEW c \in Caller, HitStale(c)
  PROVE  StepKeeps
<1> DEFINE k == caller[c].key
<1>1. /\ entries' = entries /\ ttl' = ttl /\ now' = now /\ Answer(c)
      /\ ~caller[c].bypass /\ Asking(c)
  BY DEF HitStale, MoveToFront
<1>2. /\ CacheTypes /\ RunInv /\ caller[c].got = None /\ k \in Key
      /\ caller[c].stamp \in Nat
  BY <1>1 DEF CacheInv, RunInv, GoodCaller, Asking, CacheTypes, CallerRecord
<1>3. /\ run' \in [Run -> RunRecord] /\ flights' \in [Key -> Run \cup {None}]
      /\ RunsKept /\ RunsKeyed' /\ OneRunPerKey'
  <2>1. CASE run' = run /\ flights' = flights
    BY <2>1, Untouched
  <2>2. CASE /\ flights[k] = None
             /\ flights' = [flights EXCEPT ![k] = NewRun]
             /\ run' = [run EXCEPT ![NewRun] = StartFlight(k, caller[c].stamp, TRUE)]
    <3>1. PICK b \in BOOLEAN, stamp \in Nat : b = TRUE /\ stamp = caller[c].stamp
      BY <1>2
    <3>2. PICK f \in RunRecord : /\ f = StartFlight(k, stamp, b)
                                 /\ f.phase = "queued" /\ f.key = k
      BY <1>2, StartKeeps
    <3>3. run' = [run EXCEPT ![NewRun] = f]
      BY <2>2, <3>1, <3>2
    <3>4. flights[k] = None /\ flights' = [flights EXCEPT ![k] = NewRun]
      BY <2>2
    <3> QED  BY <1>2, <3>2, <3>3, <3>4, OneMoreRun
  <2> QED  BY <2>1, <2>2 DEF HitStale
<1> QED  BY <1>1, <1>2, <1>3, AnswerKeeps, UnchangedEntries DEF StepKeeps, CacheTypes

LEMMA JoinFlightStep ==
  ASSUME CacheInv, NEW c \in Caller, JoinFlight(c)
  PROVE  StepKeeps
<1> PICK r : r = flights[caller[c].key]
  OBVIOUS
<1>1. /\ EntriesKept /\ caller[c].key \in Key /\ caller[c].at = "arrived"
  BY MissKeeps DEF JoinFlight
<1>2. r # None /\ ttl' = ttl /\ now' = now /\ flights' = flights
  BY DEF JoinFlight
<1>a. PICK accept \in BOOLEAN :
        /\ Await(c, {r}, accept)
        /\ accept => (caller[c].bypass => run[r].stamp >= caller[c].stamp)
  <2>1. Joinable(run[r], c) \in BOOLEAN
    BY DEF Joinable
  <2> PICK accept : accept = Joinable(run[r], c)
    OBVIOUS
  <2>2. accept \in BOOLEAN /\ Await(c, {r}, accept)
    BY <2>1 DEF JoinFlight
  <2>3. accept => (caller[c].bypass => run[r].stamp >= caller[c].stamp)
    BY DEF Joinable
  <2> QED  BY <2>2, <2>3
<1>3. RunInv /\ CacheTypes
  BY DEF CacheInv, RunInv
<1>4. r \in Run /\ r \in Running /\ run[r] \in RunRecord
  BY <1>1, <1>2, <1>3 DEF OneRunPerKey, RunInv, CacheTypes, Running
<1>5. run' = [run EXCEPT ![r] = Join(run[r], c)]
  BY DEF JoinFlight
<1>6. PICK f \in RunRecord : /\ f = Join(run[r], c) /\ f.phase = run[r].phase
                             /\ f.key = run[r].key /\ f.stamp = run[r].stamp
  BY <1>4, JoinKeeps
<1>7. run' \in [Run -> RunRecord] /\ NamesKept /\ run'[r].stamp = run[r].stamp
  BY <1>3, <1>4, <1>5, <1>6 DEF CacheTypes, NamesKept
<1>8. RunsKept /\ RunsKeyed' /\ OneRunPerKey'
  BY <1>2, <1>3, <1>7, SameRuns
<1>9. caller' \in [Caller -> CallerRecord] /\ \A d \in Caller : GoodCaller(d)'
  <2>1. {r} \in SUBSET Run /\ {r} \subseteq Running'
    BY <1>4, <1>8 DEF RunsKept
  <2>2. caller[c].bypass /\ accept =>
          \A s \in {r} : run'[s].stamp >= caller[c].stamp
    <3>1. run'[r].stamp = run[r].stamp
      BY <1>4, <1>7
    <3> QED  BY <1>a, <3>1
  <2>3. Await(c, {r}, accept)
    BY <1>a
  <2> QED  BY <1>1, <1>8, <2>1, <2>2, <2>3, AwaitKeeps
<1> QED  BY <1>1, <1>2, <1>3, <1>7, <1>8, <1>9 DEF StepKeeps, CacheTypes

LEMMA StartStep ==
  ASSUME CacheInv, NEW c \in Caller, Start(c)
  PROVE  StepKeeps
<1> PICK k, r : k = caller[c].key /\ r = NewRun
  OBVIOUS
<1>1. EntriesKept /\ k \in Key /\ caller[c].at = "arrived"
  BY MissKeeps DEF Start
<1>2. /\ flights[k] = None /\ flights' = [flights EXCEPT ![k] = r]
      /\ ttl' = ttl /\ now' = now
  BY DEF Start
<1>a. PICK no \in BOOLEAN, yes \in BOOLEAN :
        /\ run' = [run EXCEPT ![r] = Join(StartFlight(k, caller[c].stamp, no), c)]
        /\ Await(c, {r}, yes)
  BY DEF Start
<1>3. RunInv /\ CacheTypes /\ caller[c].stamp \in Nat
  BY DEF CacheInv, RunInv, CacheTypes, CallerRecord
<1>4. PICK g \in RunRecord : /\ g = StartFlight(k, caller[c].stamp, no)
                             /\ g.phase = "queued" /\ g.key = k
                             /\ g.stamp = caller[c].stamp
  BY <1>1, <1>3, StartKeeps
<1>5. PICK f \in RunRecord : /\ f = Join(g, c) /\ f.phase = "queued" /\ f.key = k
                             /\ f.stamp = caller[c].stamp
  BY <1>4, JoinKeeps
<1>b. run' = [run EXCEPT ![r] = f]
  BY <1>a, <1>4, <1>5
<1>6. /\ RunsKept /\ RunsKeyed' /\ OneRunPerKey'
      /\ run' \in [Run -> RunRecord] /\ flights' \in [Key -> Run \cup {None}]
      /\ r \in Running' /\ run'[r] = f
  BY <1>1, <1>2, <1>3, <1>5, <1>b, OneMoreRun
<1>7. caller' \in [Caller -> CallerRecord] /\ \A d \in Caller : GoodCaller(d)'
  <2>1. r \in Run
    BY <1>3, ARunIsLeft
  <2>2. \A s \in {r} : run'[s].stamp >= caller[c].stamp
    BY <1>3, <1>5, <1>6
  <2>3. Await(c, {r}, yes)
    BY <1>a
  <2> QED  BY <1>1, <1>6, <2>1, <2>2, <2>3, AwaitKeeps
<1> QED  BY <1>1, <1>2, <1>3, <1>6, <1>7 DEF StepKeeps, CacheTypes

LEMMA StartClosedStep ==
  ASSUME CacheInv, NEW c \in Caller, StartClosed(c)
  PROVE  StepKeeps
<1>1. /\ Misses(c) /\ Answer(c) /\ ttl' = ttl /\ now' = now
      /\ run' = run /\ flights' = flights
  BY DEF StartClosed
<1>2. EntriesKept /\ CacheTypes /\ caller[c].got = None
  BY <1>1, MissKeeps DEF CacheInv, RunInv, GoodCaller
<1> QED  BY <1>1, <1>2, AnswerKeeps, Untouched DEF StepKeeps, CacheTypes


LEMMA WakeStep ==
  ASSUME CacheInv, NEW c \in Caller, Wake(c)
  PROVE  StepKeeps
<1>1. /\ run' = run /\ flights' = flights /\ entries' = entries
      /\ ttl' = ttl /\ now' = now /\ caller[c].at = "waiting" /\ caller[c].waits = {}
  BY DEF Wake
<1>2. CacheTypes /\ GoodCaller(c)
  BY DEF CacheInv, RunInv
<1>3. RunsKept
  BY <1>1, Untouched
<1>4. caller' \in [Caller -> CallerRecord] /\ \A d \in Caller : GoodCaller(d)'
  <2>1. CASE caller[c].accept
    <3>1. caller[c].got # None => caller[c].got >= caller[c].stamp
      BY <1>2, <2>1 DEF GoodCaller
    <3>2. Answer(c)
      BY <2>1 DEF Wake
    <3> QED  BY <1>3, <3>1, <3>2, AnswerKeeps
  <2>2. CASE ~caller[c].accept
    <3> PICK p \in CallerRecord : p = caller[c]
      BY <1>2 DEF CacheTypes
    <3> DEFINE q == [p EXCEPT !.at = "arrived", !.got = None]
    <3>1. /\ q \in CallerRecord /\ q.at = "arrived" /\ q.got = None /\ q.waits = {}
          /\ q.key = caller[c].key
      BY <1>1 DEF CallerRecord
    <3>2. caller' = [caller EXCEPT ![c] = q]
      BY <1>2, <2>2 DEF Wake, CacheTypes
    <3> HIDE DEF q
    <3>3. caller'[c] = q
      BY <1>2, <3>2 DEF CacheTypes
    <3>4. GoodCaller(c)'
      BY <1>1, <1>2, <3>1, <3>3 DEF GoodCaller
    <3> QED  BY <1>3, <3>1, <3>2, <3>4, OneCallerMoves
  <2> QED  BY <2>1, <2>2
<1> QED  BY <1>1, <1>2, <1>4, Untouched, UnchangedEntries DEF StepKeeps, CacheTypes

LEMMA LeaveStep ==
  ASSUME CacheInv, NEW c \in Caller, Leave(c)
  PROVE  StepKeeps
<1>1. /\ flights' = flights /\ entries' = entries /\ ttl' = ttl /\ now' = now
      /\ run' = [r \in Run |-> IF r \in caller[c].waits THEN Drop(run[r]) ELSE run[r]]
  BY DEF Leave
<1>2. CacheTypes /\ RunInv
  BY DEF CacheInv, RunInv
<1>3. run' \in [Run -> RunRecord] /\ NamesKept
  <2>1. ASSUME NEW r \in Run
        PROVE  /\ run'[r] \in RunRecord
               /\ run'[r].phase = run[r].phase
               /\ run'[r].key = run[r].key /\ run'[r].stamp = run[r].stamp
    <3>1. run[r] \in RunRecord
      BY <1>2 DEF CacheTypes
    <3>2. CASE r \in caller[c].waits
      <4>1. run'[r] = Drop(run[r])
        BY <1>1, <3>2
      <4> QED  BY <3>1, <4>1, DropKeeps
    <3>3. CASE r \notin caller[c].waits
      BY <1>1, <3>1, <3>3
    <3> QED  BY <3>2, <3>3
  <2> QED  BY <1>1, <2>1 DEF NamesKept
<1>4. RunsKept /\ RunsKeyed' /\ OneRunPerKey'
  BY <1>1, <1>2, <1>3, SameRuns
<1>5. caller' \in [Caller -> CallerRecord] /\ \A d \in Caller : GoodCaller(d)'
  <2> DEFINE q == [Idle EXCEPT !.at = "left"]
  <2>1. q \in CallerRecord /\ q.at = "left" /\ q.waits = {} /\ q.got = None /\ ~q.accept
    BY DEF Idle, CallerRecord
  <2>2. caller' = [caller EXCEPT ![c] = q]
    BY DEF Leave
  <2> HIDE DEF q
  <2>3. caller'[c] = q
    BY <1>2, <2>2 DEF CacheTypes
  <2>4. GoodCaller(c)'
    BY <2>1, <2>3 DEF GoodCaller
  <2> QED  BY <1>4, <2>1, <2>2, <2>4, OneCallerMoves
<1> QED  BY <1>1, <1>2, <1>3, <1>4, <1>5, UnchangedEntries DEF StepKeeps, CacheTypes

LEMMA PinPanelsStep ==
  ASSUME CacheInv, NEW c \in Caller, PinPanels(c)
  PROVE  StepKeeps
<1> PICK joined : joined = {flights[k] : k \in Key \ Stored(c)}
  OBVIOUS
<1>1. /\ flights' = flights /\ entries' = entries /\ ttl' = ttl /\ now' = now
      /\ run' = [r \in Run |-> IF r \in joined THEN Join(run[r], c) ELSE run[r]]
      /\ Available(c) /\ caller[c].at = "arrived"
  BY DEF PinPanels, Refreshing
<1>2. CacheTypes /\ RunInv
  BY DEF CacheInv, RunInv
<1>3. run' \in [Run -> RunRecord] /\ NamesKept
  <2>1. ASSUME NEW r \in Run
        PROVE  /\ run'[r] \in RunRecord
               /\ run'[r].phase = run[r].phase
               /\ run'[r].key = run[r].key /\ run'[r].stamp = run[r].stamp
    <3>1. run[r] \in RunRecord
      BY <1>2 DEF CacheTypes
    <3>2. CASE r \in joined
      <4>1. run'[r] = Join(run[r], c)
        BY <1>1, <3>2
      <4> QED  BY <3>1, <4>1, JoinKeeps
    <3>3. CASE r \notin joined
      BY <1>1, <3>1, <3>3
    <3> QED  BY <3>2, <3>3
  <2> QED  BY <1>1, <2>1 DEF NamesKept
<1>4. RunsKept /\ RunsKeyed' /\ OneRunPerKey'
  BY <1>1, <1>2, <1>3, SameRuns
<1>5. joined \subseteq Running
  BY <1>1, <1>2 DEF Available, OneRunPerKey, RunInv
<1>6. caller' \in [Caller -> CallerRecord] /\ \A d \in Caller : GoodCaller(d)'
  <2>1. PICK yes \in BOOLEAN : Await(c, joined, yes)
    BY DEF PinPanels
  <2>2. joined \in SUBSET Run /\ joined \subseteq Running'
    BY <1>4, <1>5 DEF RunsKept, Running
  <2>3. ASSUME caller[c].bypass, NEW r \in joined
        PROVE  run'[r].stamp >= caller[c].stamp
    <3>1. run[r].stamp >= caller[c].stamp
      BY <1>1, <2>3 DEF Available, Joinable
    <3>2. run'[r].stamp = run[r].stamp
      BY <1>3, <2>2 DEF NamesKept
    <3> QED  BY <3>1, <3>2
  <2>4. caller[c].bypass /\ yes => \A r \in joined : run'[r].stamp >= caller[c].stamp
    BY <2>3
  <2> QED  BY <1>1, <1>4, <2>1, <2>2, <2>4, AwaitKeeps
<1> QED  BY <1>1, <1>2, <1>3, <1>4, <1>6, UnchangedEntries DEF StepKeeps, CacheTypes

LEMMA RefusePanelsStep ==
  ASSUME CacheInv, NEW c \in Caller, RefusePanels(c)
  PROVE  StepKeeps
<1>1. /\ run' = run /\ flights' = flights /\ entries' = entries
      /\ ttl' = ttl /\ now' = now /\ Answer(c) /\ caller[c].at = "arrived"
  BY DEF RefusePanels, Refreshing
<1>2. CacheTypes /\ caller[c].got = None
  BY <1>1 DEF CacheInv, RunInv, GoodCaller
<1> QED  BY <1>1, <1>2, AnswerKeeps, Untouched, UnchangedEntries
         DEF StepKeeps, CacheTypes

-----------------------------------------------------------------------------
(* The steps of a run. *)

(* A run moves on, its name, key and window staying. *)
LEMMA OneRunMoves ==
  ASSUME CacheInv, NEW r \in Run, NEW f \in RunRecord, run' = [run EXCEPT ![r] = f],
         f.phase # "free", run[r].phase # "free",
         f.key = run[r].key, f.stamp = run[r].stamp,
         UNCHANGED <<ttl, now, entries, flights, caller>>
  PROVE  StepKeeps
<1>1. CacheTypes /\ RunInv
  BY DEF CacheInv, RunInv
<1>2. run' \in [Run -> RunRecord] /\ NamesKept
  BY <1>1 DEF CacheTypes, NamesKept
<1>3. RunsKept /\ RunsKeyed' /\ OneRunPerKey'
  BY <1>1, <1>2, SameRuns
<1>4. \A d \in Caller : GoodCaller(d)'
  BY <1>3, OthersStayGood
<1> QED  BY <1>1, <1>2, <1>3, <1>4, UnchangedEntries DEF StepKeeps, CacheTypes

LEMMA MarkStartedStep ==
  ASSUME CacheInv, NEW r \in Run, MarkStarted(r)
  PROVE  StepKeeps
<1> DEFINE f == [run[r] EXCEPT !.phase = "started"]
<1>1. run[r] \in RunRecord
  BY DEF CacheInv, RunInv, CacheTypes
<1>2. /\ f \in RunRecord /\ f.phase = "started"
      /\ f.key = run[r].key /\ f.stamp = run[r].stamp
  BY <1>1 DEF RunRecord
<1>3. run' = [run EXCEPT ![r] = f] /\ run[r].phase # "free"
      /\ UNCHANGED <<ttl, now, entries, flights, caller>>
  BY DEF MarkStarted
<1> HIDE DEF f
<1> QED  BY <1>2, <1>3, OneRunMoves

LEMMA ReturnStep ==
  ASSUME CacheInv, NEW r \in Run, Return(r)
  PROVE  StepKeeps
<1>1. PICK res \in {"kept", "value", "error"} :
        run' = [run EXCEPT ![r].phase = "returned", ![r].result = res]
  BY DEF Return
<1> DEFINE f == [run[r] EXCEPT !.phase = "returned", !.result = res]
<1>2. run[r] \in RunRecord
  BY DEF CacheInv, RunInv, CacheTypes
<1>3. /\ f \in RunRecord /\ f.phase = "returned"
      /\ f.key = run[r].key /\ f.stamp = run[r].stamp
  BY <1>2 DEF RunRecord
<1>4. run' = [run EXCEPT ![r] = f]
  BY <1>1 DEF CacheInv, RunInv, CacheTypes
<1>5. run[r].phase # "free" /\ UNCHANGED <<ttl, now, entries, flights, caller>>
  BY DEF Return
<1> HIDE DEF f
<1> QED  BY <1>3, <1>4, <1>5, OneRunMoves

LEMMA CancelClosedStep ==
  ASSUME CacheInv, NEW r \in Run, CancelClosed(r)
  PROVE  StepKeeps
<1> DEFINE f == [run[r] EXCEPT !.cancelled = TRUE]
<1>1. run[r] \in RunRecord
  BY DEF CacheInv, RunInv, CacheTypes
<1>2. /\ f \in RunRecord /\ f.phase = run[r].phase
      /\ f.key = run[r].key /\ f.stamp = run[r].stamp
  BY <1>1 DEF RunRecord
<1>3. run' = [run EXCEPT ![r] = f] /\ run[r].phase # "free"
      /\ UNCHANGED <<ttl, now, entries, flights, caller>>
  BY DEF CancelClosed
<1> HIDE DEF f
<1> QED  BY <1>2, <1>3, OneRunMoves


(* The published run's name and key become free, and nobody waits for it. *)
LEMMA PublishStep ==
  ASSUME CacheInv, NEW r \in Run, Publish(r)
  PROVE  StepKeeps
<1>1. CacheTypes /\ RunInv /\ RunsKeyed /\ OneRunPerKey
  BY DEF CacheInv, RunInv
<1>2. /\ run[r].phase = "returned" /\ run' = [run EXCEPT ![r] = Free]
      /\ flights' = [k \in Key |-> IF flights[k] = r THEN None ELSE flights[k]]
      /\ Deliver(r) /\ ttl' = ttl /\ now' = now
  BY DEF Publish
<1>3. /\ r \in Running /\ run[r].key \in Key
      /\ run[r].stamp \in Nat
  BY <1>1, <1>2 DEF Running, RunsKeyed, CacheTypes, RunRecord
<1>4. EntriesKept
  <2>1. CASE entries' = entries
    BY <1>1, <2>1, UnchangedEntries
  <2>2. CASE Store(run[r].key, run[r].stamp)
    BY <1>1, <1>3, <2>2, StoreKeeps
  <2> QED  BY <2>1, <2>2 DEF Publish
<1>5. /\ run' \in [Run -> RunRecord] /\ flights' \in [Key -> Run \cup {None}]
      /\ Free.phase = "free"
  <2>1. Free \in RunRecord /\ Free.phase = "free"
    BY DEF Free, RunRecord
  <2> QED  BY <1>1, <1>2, <2>1 DEF CacheTypes
<1>6. Running' = Running \ {r} /\ \A s \in Running' : run'[s] = run[s]
  BY <1>1, <1>2, <1>5 DEF Running, CacheTypes
<1>7. RunsKeyed'
  BY <1>1, <1>6 DEF RunsKeyed
<1>8. OneRunPerKey'
  <2>1. ASSUME NEW s \in Running'
        PROVE  flights'[run'[s].key] = s
    <3>1. s \in Running /\ s # r /\ run'[s] = run[s] /\ run[s].key \in Key
      BY <1>1, <1>6 DEF RunsKeyed
    <3>2. flights[run[s].key] = s
      BY <1>1, <3>1 DEF OneRunPerKey
    <3> QED  BY <1>2, <3>1, <3>2
  <2>2. ASSUME NEW k \in Key, flights'[k] # None
        PROVE  flights'[k] \in Running' /\ run'[flights'[k]].key = k
    <3>1. flights'[k] = flights[k] /\ flights[k] # r
      BY <1>2, <2>2
    <3>2. flights[k] \in Running /\ run[flights[k]].key = k
      BY <1>1, <2>2, <3>1 DEF OneRunPerKey
    <3> QED  BY <1>6, <3>1, <3>2
  <2> QED  BY <2>1, <2>2 DEF OneRunPerKey
<1>9. ASSUME NEW d \in Caller
      PROVE  caller'[d] \in CallerRecord /\ GoodCaller(d)'
  <2>1. GoodCaller(d) /\ caller[d] \in CallerRecord
    BY <1>1 DEF CacheInv, CacheTypes
  <2>2. CASE r \notin caller[d].waits
    <3>1. caller'[d] = caller[d]
      BY <1>2, <2>2 DEF Deliver
    <3>2. caller[d].waits \subseteq Running'
      BY <1>6, <2>1, <2>2 DEF GoodCaller
    <3>3. \A s \in caller[d].waits : run'[s].stamp = run[s].stamp
      BY <1>6, <3>2
    <3> QED  BY <2>1, <3>1, <3>2, <3>3 DEF GoodCaller
  <2>3. CASE r \in caller[d].waits
    <3> PICK p \in CallerRecord : p = caller[d]
      BY <2>1
    <3> DEFINE got == IF /\ caller[d].bypass /\ run[r].result # "error"
                         /\ caller[d].got = None \/ run[r].stamp < caller[d].got
                      THEN run[r].stamp ELSE caller[d].got
               q == [p EXCEPT !.waits = @ \ {r}, !.got = got]
    <3>1. got \in Nat \cup {None}
      BY <1>3, <2>1 DEF CallerRecord
    <3>2. caller'[d] = q
      BY <1>2, <2>3 DEF Deliver
    <3>3. \/ got = caller[d].got
          \/ got = run[r].stamp /\ caller[d].bypass
      OBVIOUS
    <3> HIDE DEF got
    <3>4. /\ q \in CallerRecord /\ q.at = p.at /\ q.key = p.key /\ q.stamp = p.stamp
          /\ q.bypass = p.bypass /\ q.accept = p.accept /\ q.got = got
          /\ q.waits = p.waits \ {r}
      BY <3>1 DEF CallerRecord
    <3> HIDE DEF q
    <3>5. p.at = "waiting"
      BY <2>1, <2>3 DEF GoodCaller
    <3>6. q.waits \subseteq Running'
      BY <1>6, <2>1, <3>4 DEF GoodCaller
    <3>7. p.got # None => p.bypass
      BY <2>1 DEF GoodCaller
    <3>8. got # None => p.bypass
      BY <3>3, <3>7
    <3>9. ASSUME p.bypass, p.accept
          PROVE  /\ \A s \in q.waits : run'[s].stamp >= p.stamp
                 /\ got # None => got >= p.stamp
      <4>1. /\ \A s \in p.waits : run[s].stamp >= p.stamp
            /\ p.got # None => p.got >= p.stamp
        BY <2>1, <3>9 DEF GoodCaller
      <4>2. run[r].stamp >= p.stamp
        BY <2>3, <4>1
      <4>3. got # None => got >= p.stamp
        BY <3>3, <4>1, <4>2
      <4>4. \A s \in q.waits : run'[s].stamp >= p.stamp
        BY <1>6, <3>4, <3>6, <4>1
      <4> QED  BY <4>3, <4>4
    <3>10. d \notin Refresher => p.key \in Key
      BY <2>1, <3>5 DEF GoodCaller
    <3> QED  BY <3>2, <3>4, <3>5, <3>6, <3>8, <3>9, <3>10 DEF GoodCaller
  <2> QED  BY <2>2, <2>3
<1>10. caller' \in [Caller -> CallerRecord]
  <2>1. caller' = [d \in Caller |-> caller'[d]]
    BY <1>2 DEF Deliver
  <2> QED  BY <1>9, <2>1
<1> QED  BY <1>1, <1>2, <1>4, <1>5, <1>7, <1>8, <1>9, <1>10 DEF StepKeeps, CacheTypes

LEMMA IdleStep ==
  ASSUME CacheInv, UNCHANGED <<ttl, entries, flights, run, caller>>, now' \in Nat
  PROVE  StepKeeps
<1>1. CacheTypes
  BY DEF CacheInv, RunInv
<1>2. RunsKept
  BY Untouched
<1>3. \A d \in Caller : GoodCaller(d)'
  BY <1>2, OthersStayGood
<1> QED  BY <1>1, <1>3, Untouched, UnchangedEntries DEF StepKeeps, CacheTypes

-----------------------------------------------------------------------------
(* Who waits for a run, and when it is cancelled.                          *)

(* A run counts the callers that wait for it; without one it goes on only  *)
(* in the background, or with a slot for a result that will be stored.     *)
CountedRun(r) ==
  /\ run[r].waiters = Cardinality(Waiting(r))
  /\ run[r].background => run[r].detached
  /\ (/\ run[r].phase # "returned" /\ ~run[r].background
      /\ ~run[r].detached \/ run[r].phase = "queued"
      /\ Waiting(r) = {})
     => run[r].cancelled

WaitersInv == \A r \in Running : CountedRun(r)

(* What a step does to a run under way and to who waits for it.            *)
GoesOn(r) ==
  /\ r \in Running /\ Waiting(r)' = Waiting(r)
  /\ run'[r].waiters = run[r].waiters
  /\ run'[r].background = run[r].background /\ run'[r].detached = run[r].detached
  /\ \/ run'[r].phase = run[r].phase
     \/ run'[r].phase = "started" /\ run[r].phase = "queued"
     \/ run'[r].phase = "returned"
  /\ run'[r].cancelled <=> run[r].cancelled \/ (closed /\ run'[r].cancelled)

Gains(r) ==
  \E c \in Caller :
    /\ r \in Running /\ c \notin Waiting(r) /\ Waiting(r)' = Waiting(r) \cup {c}
    /\ run'[r] = Join(run[r], c)

Loses(r) ==
  \E c \in Caller :
    /\ r \in Running /\ c \in Waiting(r) /\ Waiting(r)' = Waiting(r) \ {c}
    /\ run'[r] = Drop(run[r])

Starts(r) ==
  /\ r \notin Running
  /\ \E f \in RunRecord :
       /\ f.waiters = 0
       /\ f.background => f.detached
       /\ \/ Waiting(r)' = {} /\ f.background /\ run'[r] = f
          \/ \E c \in Caller : Waiting(r)' = {c} /\ run'[r] = Join(f, c)

Moves(r) == GoesOn(r) \/ Gains(r) \/ Loses(r) \/ Starts(r)

LEMMA JoinCounts ==
  ASSUME NEW f \in RunRecord, NEW c
  PROVE  /\ Join(f, c).waiters = f.waiters + 1
         /\ Join(f, c).background = f.background /\ Join(f, c).cancelled = f.cancelled
         /\ f.detached => Join(f, c).detached
<1> DEFINE w == f.waiters + 1
           d == f.detached \/ (ttl > 0 /\ ~caller[c].bypass)
<1>1. Join(f, c) = [f EXCEPT !.waiters = w, !.detached = d]
  BY DEF Join
<1>2. f.detached => d
  OBVIOUS
<1>3. w = f.waiters + 1
  OBVIOUS
<1> HIDE DEF w, d
<1>4. /\ Join(f, c).waiters = w /\ Join(f, c).detached = d
      /\ Join(f, c).background = f.background /\ Join(f, c).cancelled = f.cancelled
  BY <1>1 DEF RunRecord
<1> QED  BY <1>2, <1>3, <1>4

LEMMA DropCounts ==
  ASSUME NEW f \in RunRecord
  PROVE  /\ Drop(f).waiters = f.waiters - 1
         /\ Drop(f).background = f.background /\ Drop(f).detached = f.detached
         /\ Drop(f).cancelled <=>
              \/ f.cancelled
              \/ /\ f.waiters - 1 = 0
                 /\ ~f.detached \/ (f.phase = "queued" /\ ~f.background)
<1> DEFINE w == f.waiters - 1
           d == f.cancelled \/ /\ w = 0
                               /\ \/ ~f.detached
                                  \/ (f.phase = "queued" /\ ~f.background)
<1>1. Drop(f) = [f EXCEPT !.waiters = w, !.cancelled = d]
  BY DEF Drop
<1>2. d <=> \/ f.cancelled
            \/ /\ f.waiters - 1 = 0
               /\ ~f.detached \/ (f.phase = "queued" /\ ~f.background)
  OBVIOUS
<1>3. w = f.waiters - 1
  OBVIOUS
<1> HIDE DEF w, d
<1>4. /\ Drop(f).waiters = w /\ Drop(f).cancelled = d
      /\ Drop(f).background = f.background /\ Drop(f).detached = f.detached
  BY <1>1 DEF RunRecord
<1> QED  BY <1>2, <1>3, <1>4

LEMMA WaitingIsFinite ==
  ASSUME NEW r
  PROVE  IsFiniteSet(Waiting(r)) /\ Cardinality(Waiting(r)) \in Nat
BY FS_Subset, FS_CardinalityType, CacheAssumption DEF Waiting

(* A run counted before is counted after, and is cancelled while the       *)
(* executor lives by its last caller's departure alone.                    *)
CancelledAlone(r) ==
  ~closed /\ ~run[r].cancelled /\ run'[r].cancelled =>
    /\ Waiting(r)' = {}
    /\ ~run[r].background
    /\ run[r].phase # "queued" => ~run[r].detached

LEMMA MovesCount ==
  ASSUME CacheInv, WaitersInv, NEW r \in Run, Moves(r)
  PROVE  CountedRun(r)' /\ (r \in Running => CancelledAlone(r))
<1>1. run[r] \in RunRecord
  BY DEF CacheInv, RunInv, CacheTypes
<1>2. IsFiniteSet(Waiting(r)) /\ Cardinality(Waiting(r)) \in Nat
  BY WaitingIsFinite
<1>3. r \in Running => CountedRun(r)
  BY DEF WaitersInv
<1> PICK W : W = Waiting(r)'
  OBVIOUS
<1>4. CASE GoesOn(r)
  <2>1. CountedRun(r) /\ W = Waiting(r)
    BY <1>3, <1>4 DEF GoesOn
  <2>2. /\ run'[r].waiters = Cardinality(W)
        /\ run'[r].background => run'[r].detached
    BY <1>4, <2>1 DEF GoesOn, CountedRun
  <2>3. ASSUME run'[r].phase # "returned", ~run'[r].background,
               ~run'[r].detached \/ run'[r].phase = "queued", W = {}
        PROVE  run'[r].cancelled
    <3>1. /\ run'[r].background = run[r].background
          /\ run'[r].detached = run[r].detached
          /\ run'[r].phase = "queued" => run[r].phase = "queued"
          /\ run[r].cancelled => run'[r].cancelled
      BY <1>4 DEF GoesOn
    <3>2. run[r].phase = "returned" => run'[r].phase = "returned"
      BY <1>4 DEF GoesOn
    <3>3. Waiting(r) = {}
      BY <2>1, <2>3
    <3> QED  BY <2>1, <2>3, <3>1, <3>2, <3>3, Zenon DEF CountedRun
  <2>4. CancelledAlone(r)
    BY <1>4 DEF GoesOn, CancelledAlone
  <2> QED  BY <2>2, <2>3, <2>4 DEF CountedRun
<1>5. CASE Gains(r)
  <2>1. PICK c \in Caller : /\ r \in Running /\ c \notin Waiting(r)
                            /\ W = Waiting(r) \cup {c} /\ run'[r] = Join(run[r], c)
    BY <1>5 DEF Gains
  <2>2. Cardinality(W) = Cardinality(Waiting(r)) + 1 /\ W # {}
    BY <1>2, <2>1, FS_AddElement
  <2>3. /\ run'[r].waiters = run[r].waiters + 1 /\ run'[r].background = run[r].background
        /\ run'[r].cancelled = run[r].cancelled
        /\ run[r].detached => run'[r].detached
    BY <1>1, <2>1, JoinCounts
  <2> QED  BY <1>3, <2>1, <2>2, <2>3 DEF CountedRun, CancelledAlone
<1>6. CASE Loses(r)
  <2>1. PICK c \in Caller : /\ r \in Running /\ c \in Waiting(r)
                            /\ W = Waiting(r) \ {c} /\ run'[r] = Drop(run[r])
    BY <1>6 DEF Loses
  <2>2. Cardinality(W) = Cardinality(Waiting(r)) - 1
    BY <1>2, <2>1, FS_RemoveElement
  <2>3. IsFiniteSet(W) /\ (Cardinality(W) = 0 <=> W = {})
    BY <1>2, <2>1, FS_Subset, FS_EmptySet
  <2>4. /\ run'[r].waiters = run[r].waiters - 1 /\ run'[r].background = run[r].background
        /\ run'[r].detached = run[r].detached /\ run'[r].phase = run[r].phase
        /\ run'[r].cancelled <=>
             \/ run[r].cancelled
             \/ /\ run[r].waiters - 1 = 0
                /\ ~run[r].detached \/ (run[r].phase = "queued" /\ ~run[r].background)
    BY <1>1, <2>1, DropCounts, DropKeeps
  <2>5. run[r].waiters - 1 = 0 <=> W = {}
    BY <1>3, <2>1, <2>2, <2>3 DEF CountedRun
  <2> QED  BY <1>3, <2>1, <2>2, <2>4, <2>5 DEF CountedRun, CancelledAlone
<1>7. CASE Starts(r)
  <2>1. PICK f \in RunRecord :
          /\ f.waiters = 0
          /\ f.background => f.detached
          /\ \/ W = {} /\ f.background /\ run'[r] = f
             \/ \E c \in Caller : W = {c} /\ run'[r] = Join(f, c)
    BY <1>7 DEF Starts
  <2>2. r \notin Running
    BY <1>7 DEF Starts
  <2>3. CASE W = {} /\ f.background /\ run'[r] = f
    BY <2>1, <2>2, <2>3, FS_EmptySet DEF CountedRun
  <2>4. ASSUME NEW c \in Caller, W = {c}, run'[r] = Join(f, c)
        PROVE  CountedRun(r)'
    <3>1. Cardinality(W) = 1 /\ W # {}
      BY <2>4, FS_Singleton
    <3>2. /\ run'[r].waiters = 1 /\ run'[r].background = f.background
          /\ f.detached => run'[r].detached
      BY <2>1, <2>4, JoinCounts
    <3>3. run'[r].waiters = Cardinality(W)
      BY <3>1, <3>2
    <3>4. run'[r].background => run'[r].detached
      BY ONLY <2>1, <3>2, Zenon
    <3> QED  BY <3>1, <3>3, <3>4 DEF CountedRun
  <2> QED  BY <2>1, <2>2, <2>3, <2>4
<1> QED  BY <1>4, <1>5, <1>6, <1>7 DEF Moves

(* Where one caller goes, the others waiting for what they waited for.     *)
LEMMA WhoWaits ==
  ASSUME NEW c \in Caller, \A d \in Caller \ {c} : caller'[d].waits = caller[d].waits, NEW r
  PROVE  /\ (r \in caller[c].waits <=> r \in caller'[c].waits) => Waiting(r)' = Waiting(r)
         /\ r \notin caller[c].waits /\ r \in caller'[c].waits =>
              c \notin Waiting(r) /\ Waiting(r)' = Waiting(r) \cup {c}
         /\ r \in caller[c].waits /\ r \notin caller'[c].waits =>
              c \in Waiting(r) /\ Waiting(r)' = Waiting(r) \ {c}
<1>1. \A d \in Caller \ {c} : r \in caller'[d].waits <=> r \in caller[d].waits
  OBVIOUS
<1>2. Waiting(r) = {d \in Caller : r \in caller[d].waits}
      /\ Waiting(r)' = {d \in Caller : r \in caller'[d].waits}
  BY DEF Waiting
<1> QED  BY <1>1, <1>2

LEMMA AwaitWaits ==
  ASSUME CacheInv, NEW c \in Caller, NEW rs, NEW accept, Await(c, rs, accept)
  PROVE  caller'[c].waits = rs /\ \A d \in Caller \ {c} : caller'[d] = caller[d]
BY DEF Await, CacheInv, RunInv, CacheTypes, CallerRecord

LEMMA AnswerWaits ==
  ASSUME CacheInv, NEW c \in Caller, Answer(c), caller[c].waits = {}
  PROVE  \A d \in Caller : caller'[d].waits = caller[d].waits
<1>1. PICK q : caller' = [caller EXCEPT ![c] = q] /\ q.waits = {}
  <2>1. [Idle EXCEPT !.at = "answered"].waits = {}
    BY DEF Idle
  <2>2. [Idle EXCEPT !.at = "answered", !.bypass = TRUE,
                     !.stamp = caller[c].stamp, !.got = caller[c].got].waits = {}
    BY DEF Idle
  <2>3. caller[c].got = None \/ caller[c].got # None
    OBVIOUS
  <2> QED  BY <2>1, <2>2, <2>3 DEF Answer
<1> QED  BY <1>1 DEF CacheInv, RunInv, CacheTypes

LEMMA NothingMoves ==
  ASSUME run' = run, \A d \in Caller : caller'[d].waits = caller[d].waits
  PROVE  \A r \in Running' : Moves(r)
<1> SUFFICES ASSUME NEW r \in Running' PROVE GoesOn(r)
  BY DEF Moves
<1>1. r \in Running
  BY DEF Running
<1>2. Waiting(r)' = Waiting(r)
  BY DEF Waiting
<1> QED  BY <1>1, <1>2 DEF GoesOn

(* A new run: in the background, or for the caller that starts it.         *)
LEMMA NewRunIsCounted ==
  ASSUME NEW k \in Key, NEW stamp \in Nat, NEW background \in BOOLEAN
  PROVE  LET f == StartFlight(k, stamp, background)
         IN  f.waiters = 0 /\ f.background = background /\ f.detached = background
<1>1. Free \in RunRecord /\ Free.waiters = 0
  BY DEF Free, RunRecord
<1> PICK f \in RunRecord : f = Free
  BY <1>1
<1>2. StartFlight(k, stamp, background)
        = [f EXCEPT !.phase = "queued", !.key = k, !.stamp = stamp,
                    !.detached = background, !.background = background]
  BY DEF StartFlight
<1> QED  BY <1>1, <1>2 DEF RunRecord

LEMMA StillWaits ==
  ASSUME CacheInv, NEW c \in Caller
  PROVE  /\ caller[c].at # "waiting" => caller[c].waits = {}
         /\ caller[c].waits \subseteq Running
BY DEF CacheInv, GoodCaller

LEMMA RequestMoves ==
  ASSUME CacheInv, NEW c \in Caller,
         Arrive(c) \/ Hit(c) \/ StartClosed(c) \/ RefusePanels(c) \/ Wake(c)
  PROVE  \A r \in Running' : Moves(r)
<1>1. caller[c].waits = {}
  BY StillWaits DEF Arrive, Hit, StartClosed, RefusePanels, Wake, Misses, Asking, Refreshing
<1>2. run' = run
  BY DEF Arrive, Hit, StartClosed, RefusePanels, Wake
<1>3. \A d \in Caller : caller'[d].waits = caller[d].waits
  <2>1. CASE Arrive(c)
    <3>1. PICK k, b : caller' = [caller EXCEPT ![c] =
            [Idle EXCEPT !.at = "arrived", !.key = k, !.stamp = now, !.bypass = b]]
      BY <2>1 DEF Arrive
    <3>2. [Idle EXCEPT !.at = "arrived", !.key = k, !.stamp = now, !.bypass = b].waits = {}
      BY DEF Idle
    <3> QED  BY <1>1, <3>1, <3>2 DEF CacheInv, RunInv, CacheTypes
  <2>2. CASE Answer(c)
    BY <1>1, <2>2, AnswerWaits
  <2>3. CASE caller' = [caller EXCEPT ![c].at = "arrived", ![c].got = None]
    BY <2>3 DEF CacheInv, RunInv, CacheTypes, CallerRecord
  <2> QED  BY <2>1, <2>2, <2>3 DEF Hit, StartClosed, RefusePanels, Wake
<1> QED  BY <1>2, <1>3, NothingMoves

LEMMA HitStaleMoves ==
  ASSUME CacheInv, NEW c \in Caller, HitStale(c)
  PROVE  \A r \in Running' : Moves(r)
<1> DEFINE k == caller[c].key
<1>1. Answer(c) /\ Asking(c)
  BY DEF HitStale
<1>2. /\ caller[c].waits = {} /\ k \in Key /\ caller[c].stamp \in Nat
      /\ run \in [Run -> RunRecord]
  BY <1>1, StillWaits DEF CacheInv, RunInv, GoodCaller, Asking, CacheTypes, CallerRecord
<1>3. \A d \in Caller : caller'[d].waits = caller[d].waits
  BY <1>1, <1>2, AnswerWaits
<1>4. CASE run' = run
  BY <1>3, <1>4, NothingMoves
<1>5. CASE run' = [run EXCEPT ![NewRun] = StartFlight(k, caller[c].stamp, TRUE)]
  <2>1. PICK yes \in BOOLEAN, stamp \in Nat : yes = TRUE /\ stamp = caller[c].stamp
    BY <1>2
  <2>2. PICK f \in RunRecord : /\ f = StartFlight(k, stamp, yes)
                               /\ f.waiters = 0 /\ f.background = yes /\ f.detached = yes
    BY <1>2, StartKeeps, NewRunIsCounted
  <2>3. PICK n : n = NewRun
    OBVIOUS
  <2>4. n \in Run /\ n \notin Running
    BY <2>3, ARunIsLeft DEF CacheInv, Running
  <2>5. run' = [run EXCEPT ![n] = f]
    BY <1>5, <2>1, <2>2, <2>3
  <2>6. \A r : Waiting(r)' = Waiting(r)
    BY <1>3 DEF Waiting
  <2>7. ASSUME NEW r \in Running', r # n PROVE GoesOn(r)
    BY <1>2, <2>4, <2>5, <2>6, <2>7 DEF GoesOn, Running
  <2>8. Starts(n)
    <3>1. Waiting(n) = {}
      BY <2>4, StillWaits DEF Waiting
    <3>2. run'[n] = f /\ Waiting(n)' = {}
      BY <1>2, <2>4, <2>5, <2>6, <3>1
    <3> QED  BY <2>1, <2>2, <2>4, <3>2 DEF Starts
  <2> QED  BY <2>7, <2>8 DEF Moves
<1> QED  BY <1>4, <1>5 DEF HitStale

(* A caller joins runs that are under way.                                 *)
LEMMA JoiningMoves ==
  ASSUME CacheInv, NEW c \in Caller, NEW rs \in SUBSET Running, NEW accept,
         Await(c, rs, accept), caller[c].waits = {},
         run' = [r \in Run |-> IF r \in rs THEN Join(run[r], c) ELSE run[r]]
  PROVE  \A r \in Running' : Moves(r)
<1>1. /\ caller'[c].waits = rs /\ \A d \in Caller \ {c} : caller'[d].waits = caller[d].waits
  BY AwaitWaits
<1> SUFFICES ASSUME NEW r \in Running' PROVE GoesOn(r) \/ Gains(r)
  BY DEF Moves
<1>2. r \in Run
  BY DEF Running
<1>3. CASE r \in rs
  <2>1. c \notin Waiting(r) /\ Waiting(r)' = Waiting(r) \cup {c}
    BY <1>1, <1>3, WhoWaits
  <2>2. run'[r] = Join(run[r], c)
    BY <1>2, <1>3
  <2> QED  BY <1>3, <2>1, <2>2 DEF Gains
<1>4. CASE r \notin rs
  <2>1. Waiting(r)' = Waiting(r)
    BY <1>1, <1>4, WhoWaits
  <2>2. run'[r] = run[r]
    BY <1>2, <1>4
  <2>3. r \in Running
    BY <1>2, <2>2 DEF Running
  <2> QED  BY <2>1, <2>2, <2>3 DEF GoesOn
<1> QED  BY <1>3, <1>4

LEMMA JoinMoves ==
  ASSUME CacheInv, NEW c \in Caller, JoinFlight(c) \/ PinPanels(c)
  PROVE  \A r \in Running' : Moves(r)
<1>0. caller[c].waits = {}
  BY StillWaits DEF JoinFlight, PinPanels, Misses, Asking, Refreshing
<1>1. OneRunPerKey /\ run \in [Run -> RunRecord]
  BY DEF CacheInv, RunInv, CacheTypes
<1>2. CASE JoinFlight(c)
  <2>1. PICK f : f = flights[caller[c].key]
    OBVIOUS
  <2>2. f # None /\ run' = [run EXCEPT ![f] = Join(run[f], c)]
    BY <1>2, <2>1 DEF JoinFlight
  <2>3. PICK accept : Await(c, {f}, accept)
    BY <1>2, <2>1 DEF JoinFlight
  <2>4. caller[c].key \in Key
    BY <1>2, MissKeeps DEF JoinFlight
  <2>5. {f} \in SUBSET Running
    BY <1>1, <2>1, <2>2, <2>4 DEF OneRunPerKey
  <2>6. run' = [r \in Run |-> IF r \in {f} THEN Join(run[r], c) ELSE run[r]]
    BY <1>1, <2>2
  <2> QED  BY <1>0, <2>3, <2>5, <2>6, JoiningMoves
<1>3. CASE PinPanels(c)
  <2>1. PICK joined : joined = {flights[k] : k \in Key \ Stored(c)}
    OBVIOUS
  <2>2. /\ run' = [r \in Run |-> IF r \in joined THEN Join(run[r], c) ELSE run[r]]
        /\ Available(c) /\ Await(c, joined, TRUE)
    BY <1>3, <2>1 DEF PinPanels
  <2>3. joined \in SUBSET Running
    BY <1>1, <2>1, <2>2 DEF Available, OneRunPerKey
  <2> QED  BY <1>0, <2>2, <2>3, JoiningMoves
<1> QED  BY <1>2, <1>3

LEMMA StartMoves ==
  ASSUME CacheInv, NEW c \in Caller, Start(c)
  PROVE  \A r \in Running' : Moves(r)
<1>1. PICK n : n = NewRun
  OBVIOUS
<1>2. n \in Run /\ n \notin Running
  BY <1>1, ARunIsLeft DEF CacheInv, Running
<1>3. /\ caller[c].key \in Key /\ caller[c].stamp \in Nat /\ caller[c].waits = {}
      /\ run \in [Run -> RunRecord]
  BY MissKeeps, StillWaits DEF Start, CacheInv, RunInv, CacheTypes, CallerRecord
<1>4. PICK no \in BOOLEAN :
        /\ no = FALSE
        /\ run' = [run EXCEPT ![n] = Join(StartFlight(caller[c].key, caller[c].stamp, no), c)]
  BY <1>1 DEF Start
<1>5. PICK f \in RunRecord : /\ f = StartFlight(caller[c].key, caller[c].stamp, no)
                             /\ f.waiters = 0 /\ f.background = no
  BY <1>3, StartKeeps, NewRunIsCounted
<1>6. /\ caller'[c].waits = {n} /\ \A d \in Caller \ {c} : caller'[d].waits = caller[d].waits
  <2>1. PICK accept : Await(c, {n}, accept)
    BY <1>1 DEF Start
  <2> QED  BY <2>1, AwaitWaits
<1>7. ASSUME NEW r \in Running', r # n PROVE GoesOn(r)
  <2>1. Waiting(r)' = Waiting(r)
    BY <1>3, <1>6, <1>7, WhoWaits
  <2> QED  BY <1>3, <1>4, <1>7, <2>1 DEF GoesOn, Running
<1>8. Starts(n)
  <2>1. Waiting(n) = {}
    BY <1>2, StillWaits DEF Waiting
  <2>2. Waiting(n)' = {c}
    BY <1>3, <1>6, <2>1, WhoWaits
  <2>3. run'[n] = Join(f, c)
    BY <1>2, <1>3, <1>4, <1>5
  <2> QED  BY <1>2, <1>4, <1>5, <2>2, <2>3 DEF Starts
<1> QED  BY <1>7, <1>8 DEF Moves

LEMMA LeaveMoves ==
  ASSUME CacheInv, NEW c \in Caller, Leave(c)
  PROVE  \A r \in Running' : Moves(r)
<1>1. /\ caller'[c].waits = {} /\ \A d \in Caller \ {c} : caller'[d].waits = caller[d].waits
  <2>1. caller' = [caller EXCEPT ![c] = [Idle EXCEPT !.at = "left"]]
    BY DEF Leave
  <2>2. [Idle EXCEPT !.at = "left"].waits = {}
    BY DEF Idle
  <2> QED  BY <2>1, <2>2 DEF CacheInv, RunInv, CacheTypes
<1>2. run' = [r \in Run |-> IF r \in caller[c].waits THEN Drop(run[r]) ELSE run[r]]
  BY DEF Leave
<1> SUFFICES ASSUME NEW r \in Running' PROVE GoesOn(r) \/ Loses(r)
  BY DEF Moves
<1>3. r \in Run
  BY DEF Running
<1>4. CASE r \in caller[c].waits
  <2>1. c \in Waiting(r) /\ Waiting(r)' = Waiting(r) \ {c}
    BY <1>1, <1>4, WhoWaits
  <2>2. run'[r] = Drop(run[r])
    BY <1>2, <1>3, <1>4
  <2>3. r \in Running
    BY <1>4, StillWaits
  <2> QED  BY <2>1, <2>2, <2>3 DEF Loses
<1>5. CASE r \notin caller[c].waits
  <2>1. Waiting(r)' = Waiting(r)
    BY <1>1, <1>5, WhoWaits
  <2>2. run'[r] = run[r]
    BY <1>2, <1>3, <1>5
  <2>3. r \in Running
    BY <1>3, <2>2 DEF Running
  <2> QED  BY <2>1, <2>2, <2>3 DEF GoesOn
<1> QED  BY <1>4, <1>5

LEMMA WorkMoves ==
  ASSUME CacheInv, NEW r \in Run, MarkStarted(r) \/ Return(r) \/ CancelClosed(r)
  PROVE  \A s \in Running' : Moves(s)
<1>1. caller' = caller /\ run \in [Run -> RunRecord] /\ run[r].phase # "free"
  BY DEF MarkStarted, Return, CancelClosed, CacheInv, RunInv, CacheTypes
<1>2. \A s : Waiting(s)' = Waiting(s)
  BY <1>1 DEF Waiting
<1>3. ASSUME NEW s \in Running' PROVE GoesOn(s)
  <2>1. CASE MarkStarted(r)
    <3>1. run' = [run EXCEPT ![r].phase = "started"] /\ run[r].phase = "queued"
      BY <2>1 DEF MarkStarted
    <3> QED  BY <1>1, <1>2, <1>3, <3>1 DEF GoesOn, Running, RunRecord
  <2>2. CASE Return(r)
    <3>1. PICK res : run' = [run EXCEPT ![r].phase = "returned", ![r].result = res]
      BY <2>2 DEF Return
    <3> QED  BY <1>1, <1>2, <1>3, <3>1 DEF GoesOn, Running, RunRecord
  <2>3. CASE CancelClosed(r)
    <3>1. run' = [run EXCEPT ![r].cancelled = TRUE] /\ closed
      BY <2>3 DEF CancelClosed
    <3> QED  BY <1>1, <1>2, <1>3, <3>1 DEF GoesOn, Running, RunRecord
  <2> QED  BY <2>1, <2>2, <2>3
<1> QED  BY <1>3 DEF Moves

LEMMA PublishMoves ==
  ASSUME CacheInv, NEW r \in Run, Publish(r)
  PROVE  \A s \in Running' : Moves(s)
<1>1. run' = [run EXCEPT ![r] = Free] /\ Deliver(r) /\ run \in [Run -> RunRecord]
  BY DEF Publish, CacheInv, RunInv, CacheTypes
<1>2. Free.phase = "free"
  BY DEF Free
<1>3. \A d \in Caller : caller'[d].waits = caller[d].waits \ {r}
  <2> SUFFICES ASSUME NEW d \in Caller PROVE caller'[d].waits = caller[d].waits \ {r}
    OBVIOUS
  <2>1. CASE r \notin caller[d].waits
    BY <1>1, <2>1 DEF Deliver
  <2>2. CASE r \in caller[d].waits
    <3>1. PICK got : caller'[d] = [caller[d] EXCEPT !.waits = caller[d].waits \ {r}, !.got = got]
      BY <1>1, <2>2 DEF Deliver
    <3> QED  BY <3>1 DEF CacheInv, RunInv, CacheTypes, CallerRecord
  <2> QED  BY <2>1, <2>2
<1>4. ASSUME NEW s \in Running' PROVE GoesOn(s)
  <2>1. s # r /\ run'[s] = run[s] /\ s \in Running
    BY <1>1, <1>2, <1>4 DEF Running
  <2>2. Waiting(s)' = Waiting(s)
    BY <1>3, <2>1 DEF Waiting
  <2> QED  BY <2>1, <2>2 DEF GoesOn
<1> QED  BY <1>4 DEF Moves

LEMMA EveryStepMoves ==
  ASSUME CacheInv, [Next]_vars
  PROVE  \A r \in Running' : Moves(r)
<1>1. ASSUME NEW c \in Caller, Arrive(c) \/ Request(c) \/ Leave(c)
      PROVE  \A r \in Running' : Moves(r)
  BY <1>1, RequestMoves, HitStaleMoves, JoinMoves, StartMoves, LeaveMoves DEF Request
<1>2. ASSUME NEW r \in Run, MarkStarted(r) \/ Work(r) \/ CancelClosed(r)
      PROVE  \A s \in Running' : Moves(s)
  BY <1>2, WorkMoves, PublishMoves DEF Work
<1>3. CASE Close \/ Tick \/ Stopped \/ UNCHANGED vars
  <2>1. run' = run /\ caller' = caller
    BY <1>3 DEF Close, Tick, Stopped, vars
  <2> QED  BY <2>1, NothingMoves
<1> QED  BY <1>1, <1>2, <1>3 DEF Next

(* What a step gives of the runs that go on.                               *)
LEMMA NextCounts ==
  ASSUME CacheInv, WaitersInv, [Next]_vars
  PROVE  WaitersInv' /\ \A r \in Running \cap Running' : CancelledAlone(r)
<1>1. \A r \in Running' : r \in Run /\ Moves(r)
  BY EveryStepMoves DEF Running
<1> QED  BY <1>1, MovesCount DEF WaitersInv

(* Only a publication frees a run, which leaves nothing of it.             *)
LEMMA FreedIsNotCancelled ==
  ASSUME CacheInv, [Next]_vars, NEW r \in Running, run'[r].cancelled
  PROVE  r \in Running'
<1> SUFFICES run'[r].phase # "free"
  BY DEF Running
<1>1. /\ run \in [Run -> RunRecord] /\ r \in Run /\ run[r] \in RunRecord
      /\ run[r].phase # "free" /\ NewRun # r
  BY ARunIsLeft DEF CacheInv, RunInv, CacheTypes, Running
<1>2. Free.cancelled = FALSE
  BY DEF Free
<1>3. \A c : Join(run[r], c).phase = run[r].phase
  BY <1>1, JoinKeeps
<1>4. Drop(run[r]).phase = run[r].phase
  BY <1>1, DropKeeps
<1>5. ASSUME NEW c \in Caller, Arrive(c) \/ Request(c) \/ Leave(c)
      PROVE  run'[r].phase # "free"
  <2>1. CASE run' = run
    BY <1>1, <2>1
  <2>2. CASE HitStale(c) \/ Start(c)
    <3>1. run' = run \/ \E f : run' = [run EXCEPT ![NewRun] = f]
      BY <2>2 DEF HitStale, Start
    <3> QED  BY <1>1, <3>1
  <2>3. CASE JoinFlight(c)
    <3>1. PICK f : run' = [run EXCEPT ![f] = Join(run[f], c)]
      BY <2>3 DEF JoinFlight
    <3>2. CASE f = r
      BY <1>1, <1>3, <3>1, <3>2
    <3>3. CASE f # r
      BY <1>1, <3>1, <3>3
    <3> QED  BY <3>2, <3>3
  <2>4. CASE PinPanels(c) \/ Leave(c)
    <3>1. run'[r] = run[r] \/ run'[r] = Join(run[r], c) \/ run'[r] = Drop(run[r])
      BY <1>1, <2>4 DEF PinPanels, Leave
    <3> QED  BY <1>1, <1>3, <1>4, <3>1
  <2> QED  BY <1>5, <2>1, <2>2, <2>3, <2>4
           DEF Request, Arrive, Hit, StartClosed, RefusePanels, Wake
<1>6. ASSUME NEW s \in Run, MarkStarted(s) \/ Work(s) \/ CancelClosed(s)
      PROVE  run'[r].phase # "free"
  <2>1. CASE MarkStarted(s)
    BY <1>1, <2>1 DEF MarkStarted, RunRecord
  <2>2. CASE Return(s)
    BY <1>1, <2>2 DEF Return, RunRecord
  <2>3. CASE CancelClosed(s)
    BY <1>1, <2>3 DEF CancelClosed, RunRecord
  <2>4. CASE Publish(s)
    <3>1. run' = [run EXCEPT ![s] = Free]
      BY <2>4 DEF Publish
    <3> QED  BY <1>1, <1>2, <3>1
  <2> QED  BY <1>6, <2>1, <2>2, <2>3, <2>4 DEF Work
<1>7. CASE Close \/ Tick \/ Stopped \/ UNCHANGED vars
  <2>1. run' = run
    BY <1>7 DEF Close, Tick, Stopped, vars
  <2> QED  BY <1>1, <2>1
<1>8. \/ \E c \in Caller : Arrive(c) \/ Request(c) \/ Leave(c)
      \/ \E s \in Run : MarkStarted(s) \/ Work(s) \/ CancelClosed(s)
      \/ Close \/ Tick \/ Stopped \/ UNCHANGED vars
  BY DEF Next
<1> QED  BY <1>5, <1>6, <1>7, <1>8

-----------------------------------------------------------------------------

LEMMA InitInv ==
  ASSUME Init
  PROVE  CacheInv
<1>1. Free \in RunRecord /\ Free.phase = "free"
  BY DEF Free, RunRecord
<1>2. CacheTypes
  BY <1>1, IdleType, CacheAssumption DEF Init, CacheTypes
<1>3. Running = {}
  BY <1>1 DEF Init, Running
<1>4. RunsKeyed /\ OneRunPerKey
  BY <1>3 DEF RunsKeyed, OneRunPerKey, Init
<1>5. \A c \in Caller : GoodCaller(c)
  BY IdleType DEF GoodCaller, Init
<1> QED  BY <1>2, <1>4, <1>5 DEF CacheInv, RunInv

LEMMA NextKeeps ==
  ASSUME CacheInv, [Next]_vars
  PROVE  StepKeeps
<1>1. ASSUME NEW c \in Caller, Arrive(c) \/ Request(c) \/ Leave(c)
      PROVE  StepKeeps
  BY <1>1, ArriveStep, HitStep, HitStaleStep, JoinFlightStep, StartStep,
     StartClosedStep, PinPanelsStep, RefusePanelsStep, WakeStep, LeaveStep
     DEF Request
<1>2. ASSUME NEW r \in Run, MarkStarted(r) \/ Work(r) \/ CancelClosed(r)
      PROVE  StepKeeps
  BY <1>2, MarkStartedStep, ReturnStep, PublishStep, CancelClosedStep DEF Work
<1>3. CASE Close \/ Tick \/ Stopped \/ UNCHANGED vars
  <2>1. now \in Nat
    BY DEF CacheInv, RunInv, CacheTypes
  <2>2. now' \in Nat /\ UNCHANGED <<ttl, entries, flights, run, caller>>
    BY <1>3, <2>1 DEF Close, Tick, Stopped, vars
  <2> QED  BY <2>2, IdleStep
<1> QED  BY <1>1, <1>2, <1>3 DEF Next

LEMMA CacheInvariant == Spec => []CacheInv
<1>1. Init => CacheInv
  BY InitInv
<1>2. CacheInv /\ [Next]_vars => CacheInv'
  BY NextKeeps, StepInduces
<1> QED  BY <1>1, <1>2, PTL DEF Spec

LEMMA CountsInvariant == Spec => [](CacheInv /\ WaitersInv)
<1>1. Init => WaitersInv
  <2>1. Init => Running = {}
    BY DEF Init, Running, Free
  <2> QED  BY <2>1 DEF WaitersInv
<1>2. CacheInv /\ WaitersInv /\ [Next]_vars => WaitersInv'
  BY NextCounts
<1> QED  BY <1>1, <1>2, CacheInvariant, PTL DEF Spec

(* One run per key: identical requests never run at the same time, not     *)
(* even when a run was cancelled and takes its time to exit                *)
(* (cacheFlight, result_cache.go:67-90, and loadCached).                   *)
THEOREM RunsNeverDuplicated == Spec => []OneRunPerKey
<1>1. CacheInv => OneRunPerKey
  BY DEF CacheInv, RunInv
<1> QED  BY <1>1, CacheInvariant, PTL

(* A no-cache caller is never answered with data older than its arrival    *)
(* (joinable, result_cache.go:317-323, and the retry in loadCached).       *)
THEOREM NoCacheNeverStale == Spec => []NoCacheFresh
<1>1. CacheInv => NoCacheFresh
  BY DEF CacheInv, GoodCaller, NoCacheFresh
<1> QED  BY <1>1, CacheInvariant, PTL

(* A stored result gives way only to one whose window ends no earlier,     *)
(* however long its run was delayed (store, result_cache.go:389-406).      *)
THEOREM StoredNeverRegresses == Spec => NewerKept
<1>1. CacheInv /\ [Next]_vars =>
        [\A k \in Key : entries[k] # None /\ entries'[k] # None =>
           entries'[k] >= entries[k]]_vars
  BY NextKeeps DEF StepKeeps, EntriesKept
<1> QED  BY <1>1, CacheInvariant, PTL DEF Spec, NewerKept

(* Departed clients leave no work behind: a run nobody waits for is        *)
(* cancelled, unless it runs in the background or holds a slot for a       *)
(* result that will be stored (drop, result_cache.go).                     *)
THEOREM AbandonedIsCancelled == Spec => []AbandonedCancelled
<1>1. CacheInv /\ WaitersInv => AbandonedCancelled
  BY DEF WaitersInv, CountedRun, AbandonedCancelled
<1> QED  BY <1>1, CountsInvariant, PTL

(* And they take none with them: while the executor lives, a run is        *)
(* cancelled only by the departure of its last caller, never in the        *)
(* background and never once a result that will be stored has its slot.    *)
THEOREM OthersKeepTheirRun == Spec => OnlyAbandonedCancelled
<1>1. CacheInv /\ WaitersInv /\ [Next]_vars =>
        [\A r \in Running :
           ~closed /\ ~run[r].cancelled /\ run'[r].cancelled =>
             /\ Waiting(r)' = {}
             /\ ~run[r].background
             /\ run[r].phase # "queued" => ~run[r].detached]_vars
  <2> SUFFICES ASSUME CacheInv, WaitersInv, [Next]_vars, NEW r \in Running,
                      ~closed, ~run[r].cancelled, run'[r].cancelled
               PROVE  /\ Waiting(r)' = {}
                      /\ ~run[r].background
                      /\ run[r].phase # "queued" => ~run[r].detached
    OBVIOUS
  <2>1. r \in Running'
    BY FreedIsNotCancelled
  <2> QED  BY <2>1, NextCounts DEF CancelledAlone
<1> QED  BY <1>1, CountsInvariant, PTL DEF Spec, OnlyAbandonedCancelled

=============================================================================
