---------------------------- MODULE ReadAdmission ----------------------------
(***************************************************************************)
(* Read admission: src/internal/query/admission.go, and the way exec.go    *)
(* and result_cache.go drive it.                                           *)
(*                                                                         *)
(* Two classes of reads share Slots connections.  Interactive reads        *)
(* (traces, exemplars) own Reserved of them, are woken first and may       *)
(* borrow the rest; once panels want capacity they leave one slot for      *)
(* panel progress.  A dashboard refresh is a batch: it reserves one        *)
(* lifetime ticket, then each of its panels is answered from the cache,    *)
(* joins a flight another refresh started, or starts a flight of its own.  *)
(* Flights of one batch run through the batch's local limit and then wait, *)
(* without a bound, for a global slot.  A flight outlives its refresh, so  *)
(* the ticket goes back only when the batch is closed and its last flight  *)
(* and its last reference are gone.                                        *)
(*                                                                         *)
(* a.mu, b.mu and c.mu sections are atomic steps.  The weight of every     *)
(* request the program makes is 1.  The end of a context is a free choice  *)
(* wherever the code looks at it.  What the cache holds is a free choice   *)
(* too; ResultCache is about that.  The branch of acquire for a closed     *)
(* batch and a foreign context has no caller: a flight's context always    *)
(* carries the batch its closure acquires from.                            *)
(***************************************************************************)
EXTENDS Integers, Sequences, FiniteSets, SequencesExt

CONSTANTS
  Batch,        \* dashboard refreshes (panelBatchAdmission)
  Key,          \* panel cache keys
  Asks,         \* the keys each refresh asks for
  Interactive,  \* interactive readers
  Slots,        \* slots
  Reserved,     \* reserved, kept from panels
  PanelQueue,   \* bounds[panelClass]
  Parallel,     \* min(e.parallel, 2, validCount)
  None          \* no flight is registered

\* config.QueryAdmission: at least one slot is shared.
ASSUME AdmissionAssumption ==
  /\ IsFiniteSet(Batch) /\ IsFiniteSet(Key) /\ IsFiniteSet(Interactive)
  /\ Asks \in [Batch -> SUBSET Key]
  /\ Slots \in Nat \ {0} /\ Reserved \in 0..(Slots - 1)
  /\ PanelQueue \in Nat /\ Parallel \in Nat \ {0}
  /\ None \notin Batch /\ {"pending", "done"} \cap Batch = {}

Flight == {f \in Batch \X Key : f[2] \in Asks[f[1]]}

VARIABLES
  active,       \* active: slots in use per class
  queue,        \* queues: waiters per class, first come first
  batches,      \* lifetime tickets in use
  batchActive,  \* batchActive: panel slots owned by batches
  batch,        \* where each refresh is
  ticket,       \* batch.ticket
  refs,         \* batch.refs
  retained,     \* batch.flights
  panel,        \* per refresh and key: to be looked up, waiting for the
                \* flight of some batch, or finished
  flight,       \* where each flight's run is
  registered,   \* cache.flights: whose flight serves the key
  reader        \* where each interactive read is

slotVars  == <<active, queue, batchActive>>
batchVars == <<batch, ticket, refs, retained, batches>>
cacheVars == <<panel, registered>>
vars == <<slotVars, batchVars, cacheVars, flight, reader>>

FlightPhase == {"none", "starting", "limited", "referenced", "queued",
                "granted", "running", "freed", "ran", "answered"}

TypeOK ==
  /\ active \in [panel : Nat, interactive : Nat]
  /\ queue \in [panel : Seq(Flight), interactive : Seq(Interactive)]
  /\ batches \in Nat /\ batchActive \in Nat
  /\ batch \in [Batch -> {"idle", "open", "closed"}]
  /\ ticket \in [Batch -> BOOLEAN]
  /\ refs \in [Batch -> Nat] /\ retained \in [Batch -> Nat]
  /\ panel \in [Flight -> {"pending", "done"} \cup Batch]
  /\ flight \in [Flight -> FlightPhase]
  /\ registered \in [Key -> Batch \cup {None}]
  /\ reader \in [Interactive -> {"idle", "queued", "granted", "running"}]

Init ==
  /\ active = [panel |-> 0, interactive |-> 0]
  /\ queue = [panel |-> <<>>, interactive |-> <<>>]
  /\ batches = 0 /\ batchActive = 0
  /\ batch = [b \in Batch |-> "idle"]
  /\ ticket = [b \in Batch |-> FALSE]
  /\ refs = [b \in Batch |-> 0] /\ retained = [b \in Batch |-> 0]
  /\ panel = [f \in Flight |-> "done"]
  /\ flight = [f \in Flight |-> "none"]
  /\ registered = [k \in Key |-> None]
  /\ reader = [r \in Interactive |-> "idle"]

-----------------------------------------------------------------------------
(* Capacity. *)

Least(x, y)    == IF x < y THEN x ELSE y
Greatest(x, y) == IF x > y THEN x ELSE y

Shared     == Slots - Reserved
BatchSlots == Least(2, Greatest(1, Shared))
Limit      == Least(Parallel, BatchSlots)

\* How many more requests of each class availableN admits.
PanelRoom(act) == Least(Slots - act.panel - act.interactive, Shared - act.panel)

\* Interactive reads leave one slot once panels run or wait, unless the pool
\* has only one.
KeptForPanels(act, q) ==
  Least(1, Least(act.panel + Len(q.panel), Least(Shared, Slots - 1)))

InteractiveRoomAlone(act, q) ==   \* mutant: panels in the pool are not counted
  Slots - KeptForPanels(act, q) - act.interactive
InteractiveRoom(act, q) ==
  Least(Slots - act.panel - act.interactive,
        Slots - KeptForPanels(act, q) - act.interactive)

\* A request that finds nobody ahead of it takes a slot at once; a panel also
\* stands behind every waiting interactive read.
PanelFits ==
  queue.panel = <<>> /\ queue.interactive = <<>> /\ PanelRoom(active) > 0
InteractiveFits ==
  queue.interactive = <<>> /\ InteractiveRoom(active, queue) > 0

\* wake grants slots from the heads of the queues, interactive first.  Panel
\* demand does not change while it grants, so each class gets a prefix.
InteractiveGrantsLast(act, q) ==   \* mutant: wake serves panels first
  LET p == Greatest(0, Least(Len(q.panel), PanelRoom(act)))
  IN  Greatest(0, Least(Len(q.interactive),
                        InteractiveRoom([act EXCEPT !.panel = @ + p], q)))
InteractiveGrants(act, q) ==
  Greatest(0, Least(Len(q.interactive), InteractiveRoom(act, q)))
PanelGrants(act, q) ==
  LET after == [act EXCEPT !.interactive = @ + InteractiveGrants(act, q)]
  IN  Greatest(0, Least(Len(q.panel), PanelRoom(after)))

Taken(s, n) == ToSet(SubSeq(s, 1, n))

\* Every queued panel is owned by a batch.
Wake(act, owned, q, fl, rd) ==
  \E i \in {InteractiveGrants(act, q)}, p \in {PanelGrants(act, q)} :
    /\ active' = [panel |-> act.panel + p, interactive |-> act.interactive + i]
    /\ batchActive' = owned + p
    /\ queue' = [panel |-> SubSeq(q.panel, p + 1, Len(q.panel)),
                 interactive |-> SubSeq(q.interactive, i + 1, Len(q.interactive))]
    /\ flight' = [f \in Flight |->
                    IF f \in Taken(q.panel, p) THEN "granted" ELSE fl[f]]
    /\ reader' = [r \in Interactive |->
                    IF r \in Taken(q.interactive, i) THEN "granted" ELSE rd[r]]

-----------------------------------------------------------------------------
(* Interactive reads: Executor.admit, release. *)

AcquireInteractive(r) ==
  /\ reader[r] = "idle" /\ InteractiveFits
  /\ active' = [active EXCEPT !.interactive = @ + 1]
  /\ reader' = [reader EXCEPT ![r] = "running"]
  /\ UNCHANGED <<queue, batchActive, batchVars, cacheVars, flight>>

\* A full queue refuses instead (errQueueFull, ErrBusy) and changes nothing.
EnqueueInteractive(r) ==
  /\ reader[r] = "idle" /\ ~InteractiveFits
  /\ Len(queue.interactive) < 2 * Slots
  /\ queue' = [queue EXCEPT !.interactive = Append(@, r)]
  /\ reader' = [reader EXCEPT ![r] = "queued"]
  /\ UNCHANGED <<active, batchActive, batchVars, cacheVars, flight>>

StartInteractive(r) ==
  /\ reader[r] = "granted"
  /\ reader' = [reader EXCEPT ![r] = "running"]
  /\ UNCHANGED <<slotVars, batchVars, cacheVars, flight>>

\* The wait ended with its context, in the queue,
AbandonInteractive(r) ==
  /\ reader[r] = "queued"
  /\ \E i \in DOMAIN queue.interactive :
       /\ queue.interactive[i] = r
       /\ Wake(active, batchActive, [queue EXCEPT !.interactive = RemoveAt(@, i)],
               flight, [reader EXCEPT ![r] = "idle"])
  /\ UNCHANGED <<batchVars, cacheVars>>

\* or just when it was granted: releaseN gives the slot back the same way.
ReleaseInteractive(r) ==
  /\ reader[r] \in {"granted", "running"}
  /\ Wake([active EXCEPT !.interactive = @ - 1], batchActive, queue, flight,
          [reader EXCEPT ![r] = "idle"])
  /\ UNCHANGED <<batchVars, cacheVars>>

-----------------------------------------------------------------------------
(* The lifetime of a refresh. *)

\* reserveBatch: running batches are those the panel slots not taken by
\* others can hold.
CanReserve ==
  batches < PanelQueue
            + Greatest(0, (Shared - (active.panel - batchActive)) \div BatchSlots)

Closed(b) == batch[b] = "closed"

\* releaseTicket, with the counters the caller has just left.
TicketDue(b, rf, fl, closed) == closed /\ rf = 0 /\ fl = 0 /\ ticket[b]

ReleaseTicket(b, rf, fl, closed) ==
  /\ ticket' = [ticket EXCEPT ![b] = @ /\ ~TicketDue(b, rf, fl, closed)]
  /\ batches' = batches - (IF TicketDue(b, rf, fl, closed) THEN 1 ELSE 0)

\* A refused refresh (ErrBusy) keeps nothing.  A batch may be a new one under
\* an old name once nothing of the old one runs.
Admit(b) ==
  /\ batch[b] # "open" /\ \A k \in Asks[b] : flight[<<b, k>>] = "none"
  /\ CanReserve
  /\ batches' = batches + 1
  /\ ticket' = [ticket EXCEPT ![b] = TRUE]
  /\ batch' = [batch EXCEPT ![b] = "open"]
  /\ refs' = [refs EXCEPT ![b] = 0] /\ retained' = [retained EXCEPT ![b] = 0]
  /\ panel' = [f \in Flight |-> IF f[1] = b THEN "pending" ELSE panel[f]]
  /\ UNCHANGED <<slotVars, registered, flight, reader>>

Looking(b, k) == batch[b] = "open" /\ panel[<<b, k>>] = "pending"

\* The panel is answered from the cache, or its caller has left.
Answered(b, k) ==
  /\ Looking(b, k)
  /\ panel' = [panel EXCEPT ![<<b, k>>] = "done"]
  /\ UNCHANGED <<slotVars, batchVars, registered, flight, reader>>

Join(b, k) ==
  /\ Looking(b, k) /\ registered[k] # None
  /\ panel' = [panel EXCEPT ![<<b, k>>] = registered[k]]
  /\ UNCHANGED <<slotVars, batchVars, registered, flight, reader>>

\* startFlight on a miss, or in the background behind a stale answer.
StartFlight(b, k) ==
  /\ Looking(b, k) /\ registered[k] = None
  /\ registered' = [registered EXCEPT ![k] = b]
  /\ retained' = [retained EXCEPT ![b] = @ + 1]
  /\ flight' = [flight EXCEPT ![<<b, k>>] = "starting"]
  /\ \E then \in {b, "done"} : panel' = [panel EXCEPT ![<<b, k>>] = then]
  /\ UNCHANGED <<slotVars, batch, ticket, refs, batches, reader>>

CallerLeaves(b, k) ==
  /\ panel[<<b, k>>] \in Batch
  /\ panel' = [panel EXCEPT ![<<b, k>>] = "done"]
  /\ UNCHANGED <<slotVars, batchVars, registered, flight, reader>>

\* close, once every panel of the response has finished.
Close(b) ==
  /\ batch[b] = "open" /\ \A k \in Asks[b] : panel[<<b, k>>] = "done"
  /\ batch' = [batch EXCEPT ![b] = "closed"]
  /\ ReleaseTicket(b, refs[b], retained[b], TRUE)
  /\ UNCHANGED <<slotVars, refs, retained, cacheVars, flight, reader>>

-----------------------------------------------------------------------------
(* One flight's run: panelBatchAdmission.acquire, the query, release. *)

Step(f, from, to) == flight[f] = from /\ flight' = [flight EXCEPT ![f] = to]

HoldsLimit == {"limited", "referenced", "queued", "granted", "running", "freed"}

AcquireLimitAmongWaiters(f) ==   \* mutant: a panel holds the limit while it waits
  /\ Step(f, "starting", "limited")
  /\ Cardinality({k \in Asks[f[1]] : panel[<<f[1], k>>] \in Batch}) < Limit
  /\ UNCHANGED <<slotVars, batchVars, cacheVars, reader>>

AcquireLimit(f) ==
  /\ Step(f, "starting", "limited")
  /\ Cardinality({k \in Asks[f[1]] : flight[<<f[1], k>>] \in HoldsLimit}) < Limit
  /\ UNCHANGED <<slotVars, batchVars, cacheVars, reader>>

\* A flight without a ticket would have to reserve one, and may be refused.
TakeReference(f) ==
  LET b == f[1] IN
  /\ IF ticket[b] \/ CanReserve
     THEN /\ Step(f, "limited", "referenced")
          /\ refs' = [refs EXCEPT ![b] = @ + 1]
          /\ ticket' = [ticket EXCEPT ![b] = TRUE]
          /\ batches' = batches + (IF ticket[b] THEN 0 ELSE 1)
     ELSE Step(f, "limited", "ran") /\ UNCHANGED <<refs, ticket, batches>>
  /\ UNCHANGED <<slotVars, batch, retained, cacheVars, reader>>

AcquireSlot(f) ==
  /\ Step(f, "referenced", "running") /\ PanelFits
  /\ active' = [active EXCEPT !.panel = @ + 1]
  /\ batchActive' = batchActive + 1
  /\ UNCHANGED <<queue, batchVars, cacheVars, reader>>

EnqueuePanel(f) ==
  /\ Step(f, "referenced", "queued") /\ ~PanelFits
  /\ queue' = [queue EXCEPT !.panel = Append(@, f)]
  /\ UNCHANGED <<active, batchActive, batchVars, cacheVars, reader>>

StartPanel(f) ==
  /\ Step(f, "granted", "running")
  /\ UNCHANGED <<slotVars, batchVars, cacheVars, reader>>

\* The run's context ended: before the limit, or before it asked for a slot.
CancelEarly(f) ==
  /\ Step(f, "starting", "ran") \/ Step(f, "referenced", "freed")
  /\ UNCHANGED <<slotVars, batchVars, cacheVars, reader>>

\* ... or in the queue,
AbandonPanel(f) ==
  /\ flight[f] = "queued"
  /\ \E i \in DOMAIN queue.panel :
       /\ queue.panel[i] = f
       /\ Wake(active, batchActive, [queue EXCEPT !.panel = RemoveAt(@, i)],
               [flight EXCEPT ![f] = "freed"], reader)
  /\ UNCHANGED <<batchVars, cacheVars>>

GiveBackSilently(f) ==   \* mutant: gives back and wakes nobody
  /\ Step(f, "granted", "freed")
  /\ active' = [active EXCEPT !.panel = @ - 1]
  /\ batchActive' = batchActive - 1
  /\ UNCHANGED <<queue, batchVars, cacheVars, reader>>

\* ... or when a grant had raced it, which is given back.
GiveBack(f) ==
  /\ flight[f] = "granted"
  /\ Wake([active EXCEPT !.panel = @ - 1], batchActive - 1, queue,
          [flight EXCEPT ![f] = "freed"], reader)
  /\ UNCHANGED <<batchVars, cacheVars>>

ReleasePanel(f) ==
  /\ flight[f] = "running"
  /\ Wake([active EXCEPT !.panel = @ - 1], batchActive - 1, queue,
          [flight EXCEPT ![f] = "freed"], reader)
  /\ UNCHANGED <<batchVars, cacheVars>>

\* The end of release and of a failed acquire; the limit follows at once.
DropReference(f) ==
  LET b == f[1] IN
  /\ Step(f, "freed", "ran")
  /\ refs' = [refs EXCEPT ![b] = @ - 1]
  /\ ReleaseTicket(b, refs[b] - 1, retained[b], Closed(b))
  /\ UNCHANGED <<slotVars, batch, retained, cacheVars, reader>>

\* startFlight's goroutine publishes the answer to everyone who waits for it,
Publish(f) ==
  /\ Step(f, "ran", "answered")
  /\ registered' = [registered EXCEPT ![f[2]] = IF @ = f[1] THEN None ELSE @]
  /\ panel' = [g \in Flight |->
                 IF g[2] = f[2] /\ panel[g] = f[1] THEN "done" ELSE panel[g]]
  /\ UNCHANGED <<slotVars, batchVars, reader>>

\* and then gives up its hold on the ticket.
ReleaseFlight(f) ==
  LET b == f[1] IN
  /\ Step(f, "answered", "none")
  /\ retained' = [retained EXCEPT ![b] = @ - 1]
  /\ ReleaseTicket(b, refs[b], retained[b] - 1, Closed(b))
  /\ UNCHANGED <<slotVars, batch, refs, cacheVars, reader>>

-----------------------------------------------------------------------------
Arrive(r) == AcquireInteractive(r) \/ EnqueueInteractive(r)
Read(r)   == StartInteractive(r) \/ ReleaseInteractive(r)

Lookup(b, k) == Answered(b, k) \/ Join(b, k) \/ StartFlight(b, k)

Run(f) ==
  AcquireLimit(f) \/ TakeReference(f) \/ AcquireSlot(f) \/ EnqueuePanel(f)
    \/ StartPanel(f) \/ ReleasePanel(f) \/ DropReference(f) \/ Publish(f)
    \/ ReleaseFlight(f)

Refresh(b) == Close(b) \/ \E k \in Asks[b] : Lookup(b, k) \/ Run(<<b, k>>)

Next ==
  \/ \E r \in Interactive : Arrive(r) \/ Read(r) \/ AbandonInteractive(r)
  \/ \E b \in Batch : Admit(b) \/ Refresh(b)
  \/ \E b \in Batch : \E k \in Asks[b] : CallerLeaves(b, k)
  \/ \E f \in Flight : CancelEarly(f) \/ AbandonPanel(f) \/ GiveBack(f)

Spec == Init /\ [][Next]_vars

\* The scheduler runs the goroutines and queries end within their timeouts.
\* Nobody has to arrive, leave or give up.  A refresh has finitely many steps
\* to take before its batch is gone, so one condition for all its goroutines
\* asks less than the scheduler gives and is enough.
Fairness ==
  /\ \A r \in Interactive : WF_vars(Read(r))
  /\ \A b \in Batch : WF_vars(Refresh(b))

FairSpec == Spec /\ Fairness
-----------------------------------------------------------------------------
(* Properties. *)

FlightsIn(phases) == {f \in Flight : flight[f] \in phases}

Unfinished(b) == {k \in Asks[b] : flight[<<b, k>>] # "none"}

\* The slot and ticket counters are exactly what their holders account for:
\* nothing leaks and nothing is returned twice, whichever of grant and end of
\* context a waiter sees first.  (acquireWeighted, wake, releaseOwnedPanel,
\* retainFlight, releaseTicket.)
CountersExact ==
  /\ active.panel = Cardinality(FlightsIn({"granted", "running"}))
  /\ active.interactive =
       Cardinality({r \in Interactive : reader[r] \in {"granted", "running"}})
  /\ batchActive = active.panel
  /\ batches = Cardinality({b \in Batch : ticket[b]})
  /\ \A b \in Batch :
       /\ refs[b] = Cardinality({k \in Asks[b] : flight[<<b, k>>] \in
                      {"referenced", "queued", "granted", "running", "freed"}})
       /\ retained[b] = Cardinality(Unfinished(b))

\* Slots are never oversubscribed and panels never take a reserved one.
\* (availableN against acquireWeighted's fast path and wake.)
CapacityKept ==
  /\ active.panel + active.interactive <= Slots
  /\ active.panel <= Shared

\* No wakeup is lost: a request waits only while its class has no room.  A
\* waiter that leaves changes the other class's room too, so it must wake.
\* (acquireWeighted's ctx.Done branch, releaseN, releaseOwnedPanel.)
NoIdleWaiter ==
  /\ queue.panel # <<>> => PanelRoom(active) <= 0
  /\ queue.interactive # <<>> => InteractiveRoom(active, queue) <= 0

\* "Accepted siblings never re-enter bounded admission": while a flight of a
\* batch is unfinished the batch has its ticket, even after the response
\* closed, so TakeReference never has to reserve again.
AcceptedKeepsTicket == \A f \in Flight : flight[f] # "none" => ticket[f[1]]

\* ... and no longer than that: a closed batch with nothing running has
\* returned it.
ClosedReturnsTicket ==
  \A b \in Batch : Closed(b) /\ Unfinished(b) = {} => ~ticket[b]

\* Interactive reads go first: while one is left waiting, a panel gains a slot
\* only if no other panel runs.  (wake's order and the retained slot.)
InteractiveFirst ==
  [][active.panel' > active.panel /\ queue'.interactive # <<>>
       => active.panel' <= 1]_vars

\* An interactive read that waits is served, though refreshes never stop coming.
InteractiveProgress == \A r \in Interactive : []<>(reader[r] # "queued")

\* Every admitted refresh gives its ticket back.  "Pending panels retain progress
\* capacity" is a part of it, since a panel left in the queue would keep the
\* ticket, and so is that refreshes waiting for one another's flights, local
\* limits and slots never wait in a circle.
TicketsReturn == \A b \in Batch : []<>~ticket[b]

\* The two together: readers come and go for ever and refreshes never stop, yet
\* nobody is left in a queue and no ticket is kept (admission.go:102, wake).
ReadsProgress == InteractiveProgress /\ TicketsReturn

-----------------------------------------------------------------------------
(* A small instance: a refresh of every panel and refreshes of a single    *)
(* panel that it shares with them.                                         *)

MCAsks == LET whole == CHOOSE b \in Batch : TRUE
              shared == CHOOSE k \in Key : TRUE
          IN [b \in Batch |-> IF b = whole THEN Key ELSE {shared}]
=============================================================================
