---------------------------- MODULE IngestWriter ----------------------------
(***************************************************************************)
(* The group-commit writer of src/internal/telemetry/store/writer.go.      *)
(*                                                                         *)
(* Every export is one submission with one caller (Submit), which charges  *)
(* the byte ledger, queues the submission and waits for the first of three *)
(* things: its answer, the end of the writer, the end of its own request.  *)
(* One runner (Run, enqueueSubmissions) gathers queued submissions into    *)
(* groups and hands them to the commit workers.  Exactly one compare and   *)
(* swap out of "queued" decides who settles a submission: the commit that  *)
(* claims it, the shutdown that fails it, or the caller that abandons it.  *)
(*                                                                         *)
(* Repository.Commit is the writer's environment here: an attempt may fail *)
(* having written nothing, may publish the directory and then fail (the    *)
(* rename succeeded, the directory fsync did not), or may succeed: having  *)
(* published, or having found the directory an earlier attempt published.  *)
(* ParquetCatalog models what it does inside, the fsyncs included.         *)
(***************************************************************************)
EXTENDS Integers, Sequences, FiniteSets, Functions, SequencesExt

CONSTANTS
  Submission,   \* the exports handed to Submit
  Worker,       \* commit workers (maxCommitWorkers)
  Rows,         \* rows of each submission, measured once in newSubmission
  Bytes,        \* byte estimate of each submission
  Budget,       \* inFlightBudget; 0 is unbounded
  RowLimits,    \* the values of batchLimit: normal and under compaction pressure
  GroupBytes,   \* maxGroupBatchBytes
  MaxRequests,  \* maxAdmissionRequests
  QueueDepth,   \* submissionQueueDepth
  JobDepth,     \* commitQueueDepth
  RetryLimit    \* commitRetryLimit

ASSUME WriterAssumption ==
  /\ IsFiniteSet(Submission)
  /\ Rows \in [Submission -> Nat \ {0}]
  /\ Bytes \in [Submission -> Nat]
  /\ Budget \in Nat /\ GroupBytes \in Nat
  /\ RowLimits \subseteq Nat \ {0}
  /\ {MaxRequests, QueueDepth, JobDepth, RetryLimit} \subseteq Nat \ {0}

VARIABLES
  caller,       \* where each Submit call is, or what it returned
  ctxDone,      \* the sender's request context has ended
  state,        \* submission.state
  ack,          \* the value sent on submission.ack, "none" before
  ledger,       \* inFlightBytes
  submissions,  \* the submission channel
  runner,       \* phase of Run and of the enqueueSubmissions call inside it
  requests,     \* the requests enqueueSubmissions holds
  limit,        \* the row limit it computed for them
  jobs,         \* the job channel: sets of submissions
  jobsClosed,
  worker,       \* per worker: phase, claimed job, batch ID, failed attempts
  cancelled,    \* workerCtx is done
  runDone,      \* the context of Run is done
  stopping,     \* the stopping channel is closed
  done,         \* the done channel is closed
  nextID,       \* the next uuid
  published     \* batch directories the repository holds: ID -> submissions

callerVars == <<caller, ctxDone>>
runnerVars == <<runner, requests, limit>>
workerVars == <<worker, nextID, published>>
closeVars  == <<jobsClosed, cancelled, runDone, stopping, done>>
vars == <<callerVars, state, ack, ledger, submissions, runnerVars, jobs,
          workerVars, closeVars>>

Returned == {"ok", "failed", "gone", "refused"}
InCall   == {"enqueueing", "sending", "waiting"}
NoJob    == [phase |-> "idle", job |-> {}, id |-> 0, attempt |-> 0]

WorkerState == [phase   : {"idle", "committing", "exited"},
                job     : SUBSET Submission,
                id      : Nat,
                attempt : Nat]

TypeOK ==
  /\ caller \in [Submission -> {"idle"} \cup InCall \cup Returned]
  /\ ctxDone \in [Submission -> BOOLEAN]
  /\ state \in [Submission -> {"queued", "claimed", "abandoned"}]
  /\ ack \in [Submission -> {"none", "ok", "err"}]
  /\ submissions \in Seq(Submission)
  /\ runner \in {"receiving", "gathering", "draining", "dispatching",
                 "finishing", "locking", "stopped"}
  /\ requests \in Seq(Submission)
  /\ limit \in Nat
  /\ jobs \in Seq(SUBSET Submission)
  /\ worker \in [Worker -> WorkerState]
  /\ jobsClosed \in BOOLEAN /\ cancelled \in BOOLEAN /\ runDone \in BOOLEAN
  /\ stopping \in BOOLEAN /\ done \in BOOLEAN
  /\ nextID \in Nat \ {0}
  /\ \A w \in Worker : worker[w].phase = "committing" =>
                        worker[w].id \in 1..(nextID - 1)
  /\ DOMAIN published \subseteq 1..(nextID - 1)
  /\ \A id \in DOMAIN published : published[id] \subseteq Submission

Init ==
  /\ caller = [s \in Submission |-> "idle"]
  /\ ctxDone = [s \in Submission |-> FALSE]
  /\ state = [s \in Submission |-> "queued"]
  /\ ack = [s \in Submission |-> "none"]
  /\ ledger = 0
  /\ submissions = <<>>
  /\ runner = "receiving" /\ requests = <<>> /\ limit = 0
  /\ jobs = <<>>
  /\ worker = [w \in Worker |-> NoJob]
  /\ nextID = 1 /\ published = [id \in {} |-> {}]
  /\ jobsClosed = FALSE /\ cancelled = FALSE /\ runDone = FALSE
  /\ stopping = FALSE /\ done = FALSE

-----------------------------------------------------------------------------
(* The ledger and the two ways of settling a submission without writing it. *)

\* The bytes of some submissions, one by one.
BytesOf(S) == UNION {{s} \X (1..Bytes[s]) : s \in S}

\* What reserve adds to the ledger, and release takes from it.
Cost(S) == IF Budget = 0 THEN 0 ELSE Cardinality(BytesOf(S))

\* reserve: an empty ledger admits anything, however large.
AdmitsBelow(s) == Budget = 0 \/ ledger < Budget   \* mutant: bytes not added
Admits(s) == Budget = 0 \/ ledger <= 0 \/ ledger <= Budget - Bytes[s]

Unclaimed(S) == {s \in S : state[s] = "queued"}

\* Mutant of Abandon: no compare and swap before the release.
AbandonUnchecked(S) ==
  /\ state' = [s \in Submission |-> IF s \in S THEN "abandoned" ELSE state[s]]
  /\ ledger' = ledger - Cost(S)

\* abandon: whoever wins the swap releases the reservation and drops the rows.
Abandon(S) ==
  /\ state' = [s \in Submission |->
                 IF s \in Unclaimed(S) THEN "abandoned" ELSE state[s]]
  /\ ledger' = ledger - Cost(Unclaimed(S))

\* Mutant of Fail: the reservations of failed requests are kept.
FailKeepingBytes(S) ==
  /\ state' = [s \in Submission |->
                 IF s \in Unclaimed(S) THEN "claimed" ELSE state[s]]
  /\ ack' = [s \in Submission |->
               IF s \in Unclaimed(S) THEN "err" ELSE ack[s]]
  /\ UNCHANGED ledger

\* fail: answer every request no one else has settled.
Fail(S) ==
  /\ state' = [s \in Submission |->
                 IF s \in Unclaimed(S) THEN "claimed" ELSE state[s]]
  /\ ledger' = ledger - Cost(Unclaimed(S))
  /\ ack' = [s \in Submission |->
               IF s \in Unclaimed(S) THEN "err" ELSE ack[s]]

-----------------------------------------------------------------------------
(* The caller: Submit and enqueueSubmission. *)

Move(s, from, to) ==
  /\ caller[s] = from
  /\ caller' = [caller EXCEPT ![s] = to]

\* Submit up to the reservation.  The admission controller may refuse first.
Submit(s) ==
  /\ UNCHANGED <<ctxDone, state, ack, submissions, runnerVars, jobs,
                 workerVars, closeVars>>
  /\ \/ Move(s, "idle", "refused") /\ UNCHANGED ledger
     \/ /\ Admits(s)
        /\ Move(s, "idle", "enqueueing")
        /\ ledger' = ledger + Cost({s})

\* enqueueSubmission takes the read lock, then looks at stopping.  A runner
\* that wants or holds the write lock keeps new readers out.
EnterEnqueue(s) ==
  /\ runner # "locking"
  /\ IF stopping
     THEN Move(s, "enqueueing", "failed") /\ ledger' = ledger - Cost({s})
     ELSE Move(s, "enqueueing", "sending") /\ UNCHANGED ledger
  /\ UNCHANGED <<ctxDone, state, ack, submissions, runnerVars, jobs,
                 workerVars, closeVars>>

Send(s) ==
  /\ Len(submissions) < QueueDepth
  /\ Move(s, "sending", "waiting")
  /\ submissions' = Append(submissions, s)
  /\ UNCHANGED <<ctxDone, state, ack, ledger, runnerVars, jobs, workerVars,
                 closeVars>>

\* Mutant of SendRefused: a caller blocked in a full queue ignores stopping.
SendRefusedByContext(s) ==
  /\ ctxDone[s] /\ Move(s, "sending", "gone")
  /\ ledger' = ledger - Cost({s})
  /\ UNCHANGED <<ctxDone, state, ack, submissions, runnerVars, jobs,
                 workerVars, closeVars>>

\* The send loses the select to stopping or to the sender's own context.
SendRefused(s) ==
  /\ \/ stopping /\ Move(s, "sending", "failed")
     \/ ctxDone[s] /\ Move(s, "sending", "gone")
  /\ ledger' = ledger - Cost({s})
  /\ UNCHANGED <<ctxDone, state, ack, submissions, runnerVars, jobs,
                 workerVars, closeVars>>

ReceiveAck(s) ==
  /\ ack[s] # "none"
  /\ Move(s, "waiting", IF ack[s] = "ok" THEN "ok" ELSE "failed")
  /\ UNCHANGED <<ctxDone, state, ack, ledger, submissions, runnerVars, jobs,
                 workerVars, closeVars>>

WriterGone(s) ==
  /\ done
  /\ Move(s, "waiting", "failed")
  /\ UNCHANGED <<ctxDone, state, ack, ledger, submissions, runnerVars, jobs,
                 workerVars, closeVars>>

GiveUp(s) ==
  /\ ctxDone[s]
  /\ Move(s, "waiting", "gone")
  /\ Abandon({s})
  /\ UNCHANGED <<ctxDone, ack, submissions, runnerVars, jobs, workerVars,
                 closeVars>>

\* The sender disconnects or its deadline passes, at any point of the call.
CtxEnds(s) ==
  /\ caller[s] \in InCall /\ ~ctxDone[s]
  /\ ctxDone' = [ctxDone EXCEPT ![s] = TRUE]
  /\ UNCHANGED <<caller, state, ack, ledger, submissions, runnerVars, jobs,
                 workerVars, closeVars>>

-----------------------------------------------------------------------------
(* The runner: Run, enqueueSubmissions, enqueueJob. *)

Held       == ToSet(requests)
HeldRows   == SumFunctionOnSet(Rows, Held)
HeldBytes  == SumFunctionOnSet(Bytes, Held)
GroupOpen  == HeldRows < limit /\ HeldBytes < GroupBytes
HasRoom    == Len(requests) < MaxRequests

\* admit: a request whose sender has gone takes no place in a group.
TakeNext ==
  LET s == Head(submissions) IN
  /\ submissions # <<>>
  /\ submissions' = Tail(submissions)
  /\ IF ctxDone[s]
     THEN Abandon({s}) ELSE UNCHANGED <<state, ledger>>
  /\ requests' = IF state'[s] = "abandoned"
                 THEN requests ELSE Append(requests, s)

\* Run receives the first request of a group; the pressure it reads then fixes
\* the row limit.
Receive ==
  /\ runner = "receiving"
  /\ TakeNext
  /\ limit' \in RowLimits
  /\ runner' = "gathering"
  /\ UNCHANGED <<callerVars, ack, jobs, workerVars, closeVars>>

\* The admission window: receive while the group is open.
Gather ==
  /\ runner = "gathering" /\ GroupOpen /\ HasRoom
  /\ TakeNext
  /\ UNCHANGED <<callerVars, ack, runner, limit, jobs, workerVars, closeVars>>

\* The window or idle timer fires, or the group is full.
GatherEnds ==
  /\ runner = "gathering"
  /\ runner' = "draining"
  /\ UNCHANGED <<callerVars, state, ack, ledger, submissions, requests, limit,
                 jobs, workerVars, closeVars>>

\* Then take what is queued already, without waiting.
Drain ==
  /\ runner = "draining" /\ HasRoom
  /\ TakeNext
  /\ UNCHANGED <<callerVars, ack, runner, limit, jobs, workerVars, closeVars>>

DrainEnds ==
  /\ runner = "draining"
  /\ submissions = <<>> \/ ~HasRoom
  /\ runner' = "dispatching"
  /\ UNCHANGED <<callerVars, state, ack, ledger, submissions, requests, limit,
                 jobs, workerVars, closeVars>>

\* The next group is the longest prefix within the row limit and the byte
\* ceiling; a lone request is taken whatever its size.
Fits(n) ==
  LET group == ToSet(SubSeq(requests, 1, n)) IN
  /\ SumFunctionOnSet(Rows, group) <= limit
  /\ SumFunctionOnSet(Bytes, group) <= GroupBytes

IsNextGroup(n) ==
  /\ n = 1 \/ Fits(n)
  /\ \A m \in (n + 1)..Len(requests) : ~Fits(m)

Dispatch ==
  /\ runner = "dispatching"
  /\ \/ /\ requests = <<>>
        /\ runner' = "receiving"
        /\ UNCHANGED <<requests, jobs>>
     \/ /\ Len(jobs) < JobDepth
        /\ \E n \in 1..Len(requests) :
             /\ IsNextGroup(n)
             /\ jobs' = Append(jobs, ToSet(SubSeq(requests, 1, n)))
             /\ requests' = SubSeq(requests, n + 1, Len(requests))
        /\ UNCHANGED runner
  /\ UNCHANGED <<callerVars, state, ack, ledger, submissions, limit,
                 workerVars, closeVars>>

RunCancelled ==
  /\ ~runDone /\ runDone' = TRUE
  /\ UNCHANGED <<callerVars, state, ack, ledger, submissions, runnerVars,
                 jobs, workerVars, jobsClosed, cancelled, stopping, done>>

\* Cancelled inside enqueueSubmissions: fail what it holds, then finish(false).
AbortGroup ==
  /\ runDone
  /\ \/ runner = "gathering" /\ GroupOpen /\ HasRoom
     \/ runner = "dispatching" /\ requests # <<>>
  /\ Fail(Held)
  /\ runner' = "finishing" /\ requests' = <<>>
  /\ jobsClosed' = TRUE /\ cancelled' = TRUE
  /\ UNCHANGED <<callerVars, submissions, limit, jobs, workerVars, runDone,
                 stopping, done>>

\* Cancelled between groups: finish(true).
Finish ==
  /\ runDone /\ runner = "receiving"
  /\ runner' = "finishing" /\ jobsClosed' = TRUE
  /\ UNCHANGED <<callerVars, state, ack, ledger, submissions, requests, limit,
                 jobs, workerVars, cancelled, runDone, stopping, done>>

GraceExpires ==
  /\ runner = "finishing" /\ ~cancelled
  /\ cancelled' = TRUE
  /\ UNCHANGED <<callerVars, state, ack, ledger, submissions, runnerVars,
                 jobs, workerVars, jobsClosed, runDone, stopping, done>>

\* Every worker has returned: close stopping and ask for the write lock.
Stop ==
  /\ runner = "finishing"
  /\ \A w \in Worker : worker[w].phase = "exited"
  /\ stopping' = TRUE /\ cancelled' = TRUE /\ runner' = "locking"
  /\ UNCHANGED <<callerVars, state, ack, ledger, submissions, requests, limit,
                 jobs, workerVars, jobsClosed, runDone, done>>

\* No caller is inside enqueueSubmission any more: fail what is still queued.
FinalDrain ==
  /\ runner = "locking"
  /\ \A s \in Submission : caller[s] # "sending"
  /\ Fail(ToSet(submissions))
  /\ submissions' = <<>>
  /\ done' = TRUE /\ runner' = "stopped"
  /\ UNCHANGED <<callerVars, requests, limit, jobs, workerVars, jobsClosed,
                 cancelled, runDone, stopping>>

-----------------------------------------------------------------------------
(* The commit workers: commitWorker, claim, commitBatch, finish. *)

\* A job received after the workers were cancelled is failed unclaimed.
FailJob(w) ==
  /\ worker[w].phase = "idle" /\ jobs # <<>> /\ cancelled
  /\ Fail(Head(jobs))
  /\ jobs' = Tail(jobs)
  /\ UNCHANGED <<callerVars, submissions, runnerVars, workerVars, closeVars>>

\* claim: abandon the requests whose senders left, take the rest under a new ID.
Claim(w) ==
  LET gone == {s \in Head(jobs) : ctxDone[s]}
      live == Unclaimed(Head(jobs) \ gone)
  IN
  /\ worker[w].phase = "idle" /\ jobs # <<>> /\ ~cancelled
  /\ jobs' = Tail(jobs)
  /\ state' = [s \in Submission |->
                 IF s \in live THEN "claimed"
                 ELSE IF s \in Unclaimed(gone) THEN "abandoned" ELSE state[s]]
  /\ ledger' = ledger - Cost(Unclaimed(gone))
  /\ IF live = {}
     THEN UNCHANGED <<worker, nextID>>
     ELSE /\ worker' = [worker EXCEPT ![w] =
               [phase |-> "committing", job |-> live, id |-> nextID,
                attempt |-> 0]]
          /\ nextID' = nextID + 1
  /\ UNCHANGED <<callerVars, ack, submissions, runnerVars, published,
                 closeVars>>

\* finish: release and answer every claimed request of the job.
Settle(w, answer) ==
  /\ ledger' = ledger - Cost(worker[w].job)
  /\ ack' = [s \in Submission |->
               IF s \in worker[w].job THEN answer ELSE ack[s]]
  /\ worker' = [worker EXCEPT ![w] = NoJob]

Publish(w) ==
  published' = [id \in DOMAIN published \cup {worker[w].id} |->
                  IF id = worker[w].id THEN worker[w].job ELSE published[id]]

CommitSucceeds(w) ==
  /\ worker[w].phase = "committing"
  /\ Publish(w)
  /\ Settle(w, "ok")
  /\ UNCHANGED <<callerVars, state, submissions, runnerVars, jobs, nextID,
                 closeVars>>

\* Mutants of Exhausted: the last error is lost, or never reported.
ExhaustedAsSuccess(w) == Settle(w, "ok")
ExhaustedUnanswered(w) ==
  /\ ledger' = ledger - Cost(worker[w].job)
  /\ worker' = [worker EXCEPT ![w] = NoJob]
  /\ UNCHANGED ack

Exhausted(w) == Settle(w, "err")

\* Mutant of Retry: a fresh batch ID for every attempt.
RetryUnderNewID(w) ==
  /\ worker' = [worker EXCEPT ![w].attempt = @ + 1, ![w].id = nextID]
  /\ nextID' = nextID + 1
  /\ UNCHANGED <<ledger, ack>>

Retry(w) ==
  /\ worker' = [worker EXCEPT ![w].attempt = @ + 1]
  /\ UNCHANGED <<ledger, ack, nextID>>

\* A failed attempt may have published the directory.  The same batch is tried
\* again under the same ID until the limit.
CommitFails(w) ==
  /\ worker[w].phase = "committing"
  /\ Publish(w) \/ UNCHANGED published
  /\ IF worker[w].attempt + 1 = RetryLimit
     THEN Exhausted(w) /\ UNCHANGED nextID
     ELSE Retry(w)
  /\ UNCHANGED <<callerVars, state, submissions, runnerVars, jobs, closeVars>>

\* The workers are cancelled during the delay before a retry.
RetryCancelled(w) ==
  /\ worker[w].phase = "committing" /\ worker[w].attempt > 0 /\ cancelled
  /\ Settle(w, "err")
  /\ UNCHANGED <<callerVars, state, submissions, runnerVars, jobs, nextID,
                 published, closeVars>>

WorkerExits(w) ==
  /\ worker[w].phase = "idle" /\ jobsClosed /\ jobs = <<>>
  /\ worker' = [worker EXCEPT ![w].phase = "exited"]
  /\ UNCHANGED <<callerVars, state, ack, ledger, submissions, runnerVars, jobs,
                 nextID, published, closeVars>>

-----------------------------------------------------------------------------
CallerStep(s) == \/ EnterEnqueue(s) \/ Send(s) \/ SendRefused(s)
                 \/ ReceiveAck(s) \/ WriterGone(s) \/ GiveUp(s)

RunnerStep == \/ Receive \/ Gather \/ GatherEnds \/ Drain \/ DrainEnds
              \/ Dispatch \/ AbortGroup \/ Finish \/ Stop \/ FinalDrain

WorkerStep(w) == \/ FailJob(w) \/ Claim(w) \/ CommitSucceeds(w)
                 \/ CommitFails(w) \/ RetryCancelled(w) \/ WorkerExits(w)

Next == \/ \E s \in Submission : Submit(s) \/ CtxEnds(s) \/ CallerStep(s)
        \/ RunnerStep \/ RunCancelled \/ GraceExpires
        \/ \E w \in Worker : WorkerStep(w)

Spec == Init /\ [][Next]_vars

\* Goroutines that can run eventually do: each caller, the runner, each worker.
\* Nothing forces an export, a disconnect, a cancellation or a grace timeout.
Fairness == /\ \A s \in Submission : WF_vars(CallerStep(s))
            /\ WF_vars(RunnerStep)
            /\ \A w \in Worker : WF_vars(WorkerStep(w))

FairSpec == Spec /\ Fairness

-----------------------------------------------------------------------------
(* Properties *)

InJobs == UNION ToSet(jobs)
InCommit == UNION {worker[w].job : w \in Worker}

\* Submissions whose bytes are charged: those their callers still own, those
\* queued, gathered or dispatched and not yet settled, and those being committed.
Charged ==
  {s \in Submission :
     \/ caller[s] \in {"enqueueing", "sending"}
     \/ state[s] = "queued" /\ s \in ToSet(submissions) \cup Held \cup InJobs
     \/ s \in InCommit}

\* The in-flight byte ledger (reserve, release) is at every moment exactly the
\* bytes of the submissions still in flight: however a submission ends -- refused
\* by the queue, abandoned by its caller, by the gatherer or by a claim, failed by
\* a shutdown, committed -- its reservation is released once, never twice.
LedgerExact == ledger = Cost(Charged)

\* reserve's bound: the bytes in flight exceed the budget only while the whole
\* excess is one single oversized export admitted into an empty ledger.
OverBudgetIsOneExport ==
  Budget > 0 /\ ledger > Budget =>
    Cardinality({s \in Charged : Bytes[s] > 0}) = 1

Stored == UNION {published[id] : id \in DOMAIN published}

\* Submit's promise, so far as the writer can keep it: a caller told that its
\* export succeeded has every row in a published batch directory, whatever mix of
\* failed attempts, abandoned companions and shutdown came before.  That the
\* directory is also durable is Repository.Commit's part of the promise, and it is
\* not kept for a retry (AcknowledgedDurable in ParquetCatalog).
AcknowledgedIsStored ==
  \A s \in Submission : caller[s] = "ok" \/ ack[s] = "ok" =>
    \E id \in DOMAIN published : s \in published[id]

\* Submit's other promise: a request dropped before its commit started is never
\* written, so the sender's retry is the only copy; nor is one that was refused
\* or never reached the queue.
DroppedIsNeverWritten ==
  \A s \in Stored : /\ state[s] = "claimed"
                    /\ caller[s] \notin {"idle", "enqueueing", "sending", "refused"}

\* commitBatch's retries adopt the directory an earlier attempt published: no
\* export's rows are ever in two batch directories.
WrittenOnce ==
  \A i, j \in DOMAIN published : i # j => published[i] \cap published[j] = {}

\* Every caller that is inside Submit eventually returns, whatever the commits
\* do and whenever the writer is stopped: nobody waits on a drained queue.
EverySubmitReturns ==
  \A s \in Submission : caller[s] \in InCall ~> caller[s] \in Returned

\* A writer told to stop does stop: the shutdown cannot wait on callers blocked
\* in a full queue, nor they on it.
ShutdownCompletes == runDone ~> done

-----------------------------------------------------------------------------
(* Small instances.  Exports 1 and 2 fit one group; 3 exceeds the byte     *)
(* budget and the group ceiling on its own.                                *)

MCRows  == [s \in Submission |-> IF s = 3 THEN 2 ELSE 1]
MCBytes == [s \in Submission |-> 2^(s - 1)]

MCSymmetry == Permutations(Worker)
=============================================================================
