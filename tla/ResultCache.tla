---------------------------- MODULE ResultCache ----------------------------
(***************************************************************************)
(* The result cache: src/internal/query/result_cache.go.                   *)
(*                                                                         *)
(* Identical requests share one run per key, and a complete result is kept *)
(* until its data window is ttl old.  Younger than half of ttl it is       *)
(* served as is; younger than ttl it is served while one background run    *)
(* replaces it.  A caller that asked for no cached result reads no entry   *)
(* and accepts only a run whose window ends at or after its own arrival;   *)
(* until then it waits for the older run and asks again.  A run is not     *)
(* ended by the departure of the caller that started it, only by the last  *)
(* one's, and not even by that once it holds a read slot and its result    *)
(* will be stored.                                                         *)
(*                                                                         *)
(* c.mu sections are atomic steps; a run's own work, the end of a caller's *)
(* context and the clock move between them.  Between a run's return, where *)
(* it is decided whether its result may be kept, and its publication any   *)
(* of them can move.  close(done) after the section wakes the callers, so  *)
(* Publish delivers.  Whether a result fits the byte bound and how many    *)
(* old entries it drives out are free choices, as sizes are not modelled.  *)
(* What a run waits for and the ticket it holds are ReadAdmission's.       *)
(***************************************************************************)
EXTENDS Integers, Sequences, FiniteSets, SequencesExt

CONSTANTS
  Caller,   \* requests
  Refresher, \* those that are whole refreshes which found the queue full
  Key,      \* cacheKey
  Run,      \* names for the runs under way: one per key and one to spare
  TTLs,     \* values of ttl to consider; 0 stores nothing
  MaxTime,  \* bound: the last instant of the clock
  None      \* no entry, no run, no answer

ASSUME CacheAssumption ==
  /\ TTLs \subseteq Nat /\ MaxTime \in Nat
  /\ IsFiniteSet(Caller) /\ IsFiniteSet(Key) /\ IsFiniteSet(Run)
  /\ Refresher \subseteq Caller
  /\ Cardinality(Run) > Cardinality(Key)
  /\ None \notin Run /\ None \notin Key /\ None \notin Nat

Time == 0..MaxTime

VARIABLES
  ttl,      \* ttl: set before requests are served
  now,      \* e.now()
  closed,   \* e.life has ended
  entries,  \* entries: the stamp of each key's stored result
  lru,      \* lru: the stored keys, most recently used first
  flights,  \* flights: the run registered for each key
  run,      \* every run goroutine, with its cacheFlight
  caller    \* where each request is

storeVars == <<entries, lru>>
vars == <<ttl, now, closed, entries, lru, flights, run, caller>>

Free == [phase |-> "free", key |-> None, stamp |-> 0, waiters |-> 0,
         detached |-> FALSE, background |-> FALSE, cancelled |-> FALSE,
         result |-> "none"]
Idle == [at |-> "idle", key |-> None, stamp |-> 0, bypass |-> FALSE,
         waits |-> {}, accept |-> FALSE, got |-> None]

TypeOK ==
  /\ ttl \in TTLs /\ now \in Time /\ closed \in BOOLEAN
  /\ entries \in [Key -> Time \cup {None}]
  /\ lru \in Seq(Key) /\ IsInjective(lru)
  /\ ToSet(lru) = {k \in Key : entries[k] # None}
  /\ flights \in [Key -> Run \cup {None}]
  /\ run \in [Run -> [phase : {"free", "queued", "started", "returned"},
                      key : Key \cup {None}, stamp : Time, waiters : Nat,
                      detached : BOOLEAN, background : BOOLEAN,
                      cancelled : BOOLEAN,
                      result : {"none", "kept", "value", "error"}]]
  /\ caller \in [Caller -> [at : {"idle", "arrived", "waiting", "answered", "left"},
                            key : Key \cup {None}, stamp : Time,
                            bypass : BOOLEAN, waits : SUBSET Run,
                            accept : BOOLEAN, got : Time \cup {None}]]

Init ==
  /\ ttl \in TTLs /\ now = 0 /\ closed = FALSE
  /\ entries = [k \in Key |-> None] /\ lru = <<>>
  /\ flights = [k \in Key |-> None]
  /\ run = [r \in Run |-> Free]
  /\ caller = [c \in Caller |-> Idle]

-----------------------------------------------------------------------------
(* The stored results. *)

Age(k)     == now - entries[k]
Fresh(k)   == entries[k] # None /\ Age(k) < ttl \div 2
Servable(k) == entries[k] # None /\ Age(k) < ttl

Unlisted(s, K) == SelectSeq(s, LAMBDA k : k \notin K)
MoveToFront(k) == lru' = <<k>> \o Unlisted(lru, {k}) /\ UNCHANGED entries
Expire(k) ==
  /\ entries' = [entries EXCEPT ![k] = None]
  /\ lru' = Unlisted(lru, {k})

\* store: a result already too old, too large or older than the one stored is
\* dropped; another one evicts from the back.
StoreOverNewer(k, stamp) ==   \* mutant: the slower, older run wins
  IF now - stamp >= ttl THEN UNCHANGED storeVars
  ELSE /\ lru' = <<k>> \o Unlisted(lru, {k})
       /\ entries' = [entries EXCEPT ![k] = stamp]
Store(k, stamp) ==
  \/ UNCHANGED storeVars
  \/ /\ now - stamp < ttl
     /\ entries[k] # None => entries[k] <= stamp
     /\ LET listed == <<k>> \o Unlisted(lru, {k})
        IN  \E n \in 1..Len(listed) :
              /\ lru' = SubSeq(listed, 1, n)
              /\ entries' = [j \in Key |->
                   IF j \notin ToSet(lru') THEN None
                   ELSE IF j = k THEN stamp ELSE entries[j]]

-----------------------------------------------------------------------------
(* Runs. *)

Running == {r \in Run : run[r].phase # "free"}
NewRun  == CHOOSE r \in Run : run[r].phase = "free"

\* startFlight, before its goroutine runs; callers wait for it at once
\* unless it is a background run.
StartFlight(k, stamp, background) ==
  [Free EXCEPT !.phase = "queued", !.key = k, !.stamp = stamp,
               !.detached = background, !.background = background]

Joinable(f, c) == caller[c].bypass => f.stamp >= caller[c].stamp

Join(f, c) ==
  [f EXCEPT !.waiters = @ + 1,
            !.detached = @ \/ (ttl > 0 /\ ~caller[c].bypass)]

\* The last caller leaves: nobody will read the result, or the run still
\* waits for a slot.
DropStarted(f) ==   \* mutant: a queued run is treated as a started one
  LET w == f.waiters - 1
  IN  [f EXCEPT !.waiters = w, !.cancelled = @ \/ (w = 0 /\ ~f.detached)]
Drop(f) ==
  LET w == f.waiters - 1
  IN  [f EXCEPT !.waiters = w,
                !.cancelled = @ \/ /\ w = 0
                                   /\ \/ ~f.detached
                                      \/ (f.phase = "queued" /\ ~f.background)]

-----------------------------------------------------------------------------
(* Requests: loadCached. *)

\* The stamp is taken on arrival; admission may come between it and the lookup.
Arrive(c) ==
  /\ caller[c].at = "idle"
  /\ \E k \in IF c \in Refresher THEN {None} ELSE Key, b \in BOOLEAN :
       caller' = [caller EXCEPT ![c] =
         [Idle EXCEPT !.at = "arrived", !.key = k, !.stamp = now, !.bypass = b]]
  /\ UNCHANGED <<ttl, now, closed, entries, lru, flights, run>>

\* Of an answered request only what NoCacheFresh compares is kept.
Answer(c) ==
  caller' = [caller EXCEPT ![c] =
    IF @.got = None THEN [Idle EXCEPT !.at = "answered"]
    ELSE [Idle EXCEPT !.at = "answered", !.bypass = TRUE,
                      !.stamp = caller[c].stamp, !.got = caller[c].got]]

Asking(c) == caller[c].at = "arrived" /\ c \notin Refresher

Hit(c) ==
  LET k == caller[c].key
  IN  /\ Asking(c) /\ ~caller[c].bypass
      /\ Fresh(k)
      /\ MoveToFront(k)
      /\ Answer(c)
      /\ UNCHANGED <<ttl, now, closed, flights, run>>

\* Stale: a background run replaces it, unless one is under way.
HitStale(c) ==
  LET k == caller[c].key
  IN  /\ Asking(c) /\ ~caller[c].bypass
      /\ Servable(k) /\ ~Fresh(k)
      /\ MoveToFront(k)
      /\ IF flights[k] = None /\ ~closed
         THEN LET r == NewRun
              IN  /\ flights' = [flights EXCEPT ![k] = r]
                  /\ run' = [run EXCEPT ![r] = StartFlight(k, caller[c].stamp, TRUE)]
         ELSE UNCHANGED <<flights, run>>
      /\ Answer(c)
      /\ UNCHANGED <<ttl, now, closed>>

\* An entry past ttl is removed on the way; a no-cache caller leaves it.
Misses(c) ==
  LET k == caller[c].key
  IN  /\ Asking(c)
      /\ caller[c].bypass \/ ~Servable(k)
      /\ IF entries[k] # None /\ ~caller[c].bypass
         THEN Expire(k) ELSE UNCHANGED storeVars

Await(c, rs, accept) ==
  caller' = [caller EXCEPT ![c].at = "waiting", ![c].waits = rs,
                             ![c].accept = accept, ![c].got = None]

JoinFlight(c) ==
  LET r == flights[caller[c].key]
  IN  /\ Misses(c)
      /\ r # None
      /\ run' = [run EXCEPT ![r] = Join(@, c)]
      /\ Await(c, {r}, Joinable(run[r], c))
      /\ UNCHANGED <<ttl, now, closed, flights>>

Start(c) ==
  LET k == caller[c].key
      r == NewRun
  IN  /\ Misses(c)
      /\ flights[k] = None /\ ~closed
      /\ flights' = [flights EXCEPT ![k] = r]
      /\ run' = [run EXCEPT ![r] = Join(StartFlight(k, caller[c].stamp, FALSE), c)]
      /\ Await(c, {r}, TRUE)
      /\ UNCHANGED <<ttl, now, closed>>

\* No run starts once the executor's life has ended; the caller gets the error.
StartClosed(c) ==
  /\ Misses(c)
  /\ flights[caller[c].key] = None /\ closed
  /\ Answer(c)
  /\ UNCHANGED <<ttl, now, closed, flights, run>>

\* The runs it waited for are done: the answer, or another lookup.
WakeAccepting(c) ==   \* mutant: the older run's answer is taken
  /\ caller[c].at = "waiting" /\ caller[c].waits = {}
  /\ Answer(c)
  /\ UNCHANGED <<ttl, now, closed, entries, lru, flights, run>>
Wake(c) ==
  /\ caller[c].at = "waiting" /\ caller[c].waits = {}
  /\ IF caller[c].accept THEN Answer(c)
     ELSE caller' = [caller EXCEPT ![c].at = "arrived", ![c].got = None]
  /\ UNCHANGED <<ttl, now, closed, entries, lru, flights, run>>

\* The caller's context ends; loadCached looks at it before each lookup and
\* while it waits, availablePanels while it waits.
LeaveUnregistering(c) ==   \* mutant: cancelling a run frees its key
  /\ caller[c].at \in {"arrived", "waiting"}
  /\ run' = [r \in Run |-> IF r \in caller[c].waits THEN Drop(run[r]) ELSE run[r]]
  /\ caller' = [caller EXCEPT ![c] = [Idle EXCEPT !.at = "left"]]
  /\ flights' = [k \in Key |-> IF flights[k] # None /\ run'[flights[k]].cancelled
                                THEN None ELSE flights[k]]
  /\ UNCHANGED <<ttl, now, closed, entries, lru>>
Leave(c) ==
  /\ caller[c].at \in {"arrived", "waiting"}
  /\ run' = [r \in Run |-> IF r \in caller[c].waits THEN Drop(run[r]) ELSE run[r]]
  /\ caller' = [caller EXCEPT ![c] = [Idle EXCEPT !.at = "left"]]
  /\ UNCHANGED <<ttl, now, closed, entries, lru, flights>>

-----------------------------------------------------------------------------
(* A whole refresh without a ticket: availablePanels. *)

Stored(c) == {k \in Key : ~caller[c].bypass /\ Servable(k)}
Refreshing(c) == caller[c].at = "arrived" /\ c \in Refresher
Available(c) ==
  \A k \in Key \ Stored(c) : flights[k] # None /\ Joinable(run[flights[k]], c)

PinPanels(c) ==
  LET joined == {flights[k] : k \in Key \ Stored(c)}
  IN  /\ Refreshing(c) /\ Available(c)
      /\ run' = [r \in Run |-> IF r \in joined THEN Join(run[r], c) ELSE run[r]]
      /\ Await(c, joined, TRUE)
      /\ \E hits \in SetToSeqs(Stored(c)) : lru' = hits \o Unlisted(lru, Stored(c))
      /\ UNCHANGED <<ttl, now, closed, entries, flights>>

\* One panel missing makes the refresh busy.
RefusePanels(c) ==
  /\ Refreshing(c) /\ ~Available(c)
  /\ Answer(c)
  /\ UNCHANGED <<ttl, now, closed, entries, lru, flights, run>>

-----------------------------------------------------------------------------
(* The run's goroutine. *)

\* markStarted: it holds a read slot.
MarkStarted(r) ==
  /\ run[r].phase = "queued"
  /\ run' = [run EXCEPT ![r].phase = "started"]
  /\ UNCHANGED <<ttl, now, closed, entries, lru, flights, caller>>

\* runFlight returns, in time or not, with a complete result, a partial one,
\* an error or a panic; keep is computed here.
Return(r) ==
  /\ run[r].phase \in {"queued", "started"}
  /\ \E res \in {"kept", "value", "error"} :
       /\ run[r].phase = "queued" => res = "error"
       /\ run[r].cancelled => res # "kept"
       /\ run' = [run EXCEPT ![r].phase = "returned", ![r].result = res]
  /\ UNCHANGED <<ttl, now, closed, entries, lru, flights, caller>>

\* The oldest answer a no-cache caller gets is kept for the property about it.
Deliver(r) ==
  caller' = [c \in Caller |->
    IF r \notin caller[c].waits THEN caller[c]
    ELSE [caller[c] EXCEPT !.waits = @ \ {r},
            !.got = IF /\ caller[c].bypass /\ run[r].result # "error"
                       /\ @ = None \/ run[r].stamp < @
                    THEN run[r].stamp ELSE @]]

PublishRegistered(r) ==   \* mutant: the flight stays registered
  /\ run[r].phase = "returned"
  /\ UNCHANGED <<flights, storeVars>>
  /\ Deliver(r)
  /\ run' = [run EXCEPT ![r] = Free]
  /\ UNCHANGED <<ttl, now, closed>>
Publish(r) ==
  /\ run[r].phase = "returned"
  /\ flights' = [k \in Key |-> IF flights[k] = r THEN None ELSE flights[k]]
  /\ IF run[r].result = "kept" /\ ttl > 0
     THEN Store(run[r].key, run[r].stamp) ELSE UNCHANGED storeVars
  /\ Deliver(r)
  /\ run' = [run EXCEPT ![r] = Free]
  /\ UNCHANGED <<ttl, now, closed>>

\* Executor.Close ends the life; AfterFunc then cancels each run.
Close ==
  /\ ~closed
  /\ closed' = TRUE
  /\ UNCHANGED <<ttl, now, entries, lru, flights, run, caller>>

CancelClosed(r) ==
  /\ closed
  /\ run[r].phase \in {"queued", "started"} /\ ~run[r].cancelled
  /\ run' = [run EXCEPT ![r].cancelled = TRUE]
  /\ UNCHANGED <<ttl, now, closed, entries, lru, flights, caller>>

Tick ==
  /\ now < MaxTime
  /\ now' = now + 1
  /\ UNCHANGED <<ttl, closed, entries, lru, flights, run, caller>>

-----------------------------------------------------------------------------

\* The executor is closed and everything asked of it is over.
Stopped ==
  /\ closed /\ Running = {}
  /\ \A c \in Caller : caller[c].at \in {"answered", "left"}
  /\ UNCHANGED vars

Request(c) ==
  \/ Hit(c) \/ HitStale(c) \/ JoinFlight(c) \/ Start(c) \/ StartClosed(c)
  \/ PinPanels(c) \/ RefusePanels(c) \/ Wake(c)
Work(r) == Return(r) \/ Publish(r)

Next ==
  \/ \E c \in Caller : Arrive(c) \/ Request(c) \/ Leave(c)
  \/ \E r \in Run : MarkStarted(r) \/ Work(r) \/ CancelClosed(r)
  \/ Close \/ Tick \/ Stopped

Spec == Init /\ [][Next]_vars

\* A caller's goroutine runs, and every run ends: its function has a timeout.
Fairness ==
  /\ \A c \in Caller : WF_vars(Request(c))
  /\ \A r \in Run : WF_vars(Work(r))

FairSpec == Spec /\ Fairness

-----------------------------------------------------------------------------
(* Properties. *)

Waiting(r) == {c \in Caller : r \in caller[c].waits}

\* Work is never duplicated: every run under way, cancelled or not, is the one
\* registered for its key, and a registered run is under way.
OneRunPerKey ==
  /\ \A r \in Running : flights[run[r].key] = r
  /\ \A k \in Key : flights[k] # None =>
       flights[k] \in Running /\ run[flights[k]].key = k

\* A run nobody waits for is cancelled, unless it is a background run or holds
\* a slot for a result that will be read: departed clients do not fill the queue.
AbandonedCancelled ==
  \A r \in Running :
    (/\ run[r].phase # "returned" /\ ~run[r].background
     /\ ~run[r].detached \/ run[r].phase = "queued"
     /\ Waiting(r) = {})
    => run[r].cancelled

\* While the executor lives, a run is cancelled only when nobody waits for it,
\* and never one whose result will be read once it holds a slot: a departing
\* client does not cancel work others wait for.
OnlyAbandonedCancelled ==
  [][\A r \in Running :
       ~closed /\ ~run[r].cancelled /\ run'[r].cancelled =>
         /\ Waiting(r)' = {}
         /\ ~run[r].background
         /\ run[r].phase # "queued" => ~run[r].detached]_vars

\* What a no-cache caller is answered covers its own arrival, whoever ran it.
NoCacheFresh ==
  \A c \in Caller :
    caller[c].at = "answered" /\ caller[c].got # None =>
      caller[c].got >= caller[c].stamp

\* A stored result is never replaced by one with an older data window.
NewerKept ==
  [][\A k \in Key : entries[k] # None /\ entries'[k] # None =>
       entries'[k] >= entries[k]]_vars

\* Every request that stays is answered, a no-cache one that has to wait for
\* older runs too, and whatever callers come, go or cancel meanwhile.
CallersAnswered ==
  \A c \in Caller :
    caller[c].at \in {"arrived", "waiting"} ~>
      caller[c].at \in {"answered", "left"}

=============================================================================
