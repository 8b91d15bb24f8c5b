------------------------- MODULE IngestWriterProofs -------------------------
(* Proofs about IngestWriter, for every set of exports, workers and bounds. *)
EXTENDS IngestWriter, SequenceTheorems, FiniteSetTheorems, TLAPS

USE DEF callerVars, runnerVars, workerVars, closeVars

(* The members of a sequence's value set are its elements. *)
LEMMA ToSetType ==
  ASSUME NEW S, NEW q \in Seq(S)
  PROVE  ToSet(q) \subseteq S
BY DEF ToSet

(* A piece of a queue holds what the queue holds.                           *)
LEMMA SubSeqIsSeq ==
  ASSUME NEW S, NEW s \in Seq(S), NEW m \in Nat \ {0}, NEW n \in Nat, n <= Len(s)
  PROVE  SubSeq(s, m, n) \in Seq(S)
<1>1. \A i \in m..n : s[i] \in S
  <2> TAKE i \in m..n
  <2>1. i \in 1..Len(s)
    OBVIOUS
  <2> QED  BY <2>1
<1> QED  BY <1>1

(* A move keeps the program counters in their set. *)
LEMMA MoveType ==
  ASSUME NEW s \in Submission, NEW from, NEW to \in InCall \cup Returned,
         caller \in [Submission -> {"idle"} \cup InCall \cup Returned],
         Move(s, from, to)
  PROVE  caller' \in [Submission -> {"idle"} \cup InCall \cup Returned]
BY DEF Move

LEMMA InitTypeOK == Init => TypeOK
<1> SUFFICES ASSUME Init PROVE TypeOK  OBVIOUS
<1>1. /\ caller \in [Submission -> {"idle"} \cup InCall \cup Returned]
      /\ ctxDone \in [Submission -> BOOLEAN]
      /\ state \in [Submission -> {"queued", "claimed", "abandoned"}]
      /\ ack \in [Submission -> {"none", "ok", "err"}]
  BY DEF Init
<1>2. worker \in [Worker -> WorkerState]
  BY DEF Init, NoJob, WorkerState
<1>3. DOMAIN published = {}
  <2>1. published = [id \in {} |-> {}]
    BY DEF Init
  <2>2. DOMAIN [id \in {} |-> {}] = {}
    OBVIOUS
  <2> QED  BY <2>1, <2>2
<1>4. /\ DOMAIN published \subseteq 1..(nextID - 1)
      /\ \A id \in DOMAIN published : published[id] \subseteq Submission
  BY <1>3
<1>5. /\ submissions \in Seq(Submission) /\ requests \in Seq(Submission)
      /\ jobs \in Seq(SUBSET Submission)
  BY DEF Init
<1>6. \A w \in Worker : worker[w].phase # "committing"
  BY DEF Init, NoJob
<1>7. /\ runner = "receiving" /\ limit = 0 /\ nextID = 1
      /\ jobsClosed = FALSE /\ cancelled = FALSE /\ runDone = FALSE
      /\ stopping = FALSE /\ done = FALSE
  BY DEF Init
<1>8. limit \in Nat /\ nextID \in Nat \ {0}
  BY <1>7
<1> HIDE DEF InCall, Returned
<1> QED  BY Zenon, <1>1, <1>2, <1>4, <1>5, <1>6, <1>7, <1>8 DEF TypeOK

LEMMA NextTypeOK == TypeOK /\ [Next]_vars => TypeOK'
<1> SUFFICES ASSUME TypeOK, [Next]_vars PROVE TypeOK'  OBVIOUS
<1> USE WriterAssumption
<1>1. ASSUME NEW s \in Submission, Submit(s) PROVE TypeOK'
  <2>1. "refused" \in Returned /\ "enqueueing" \in InCall
    BY DEF InCall, Returned
  <2>2. caller' \in [Submission -> {"idle"} \cup InCall \cup Returned]
    BY <1>1, <2>1, MoveType DEF Submit, TypeOK
  <2> QED  BY <1>1, <2>2 DEF Submit, TypeOK
<1>2. ASSUME NEW s \in Submission, CtxEnds(s) PROVE TypeOK'
  BY <1>2 DEF CtxEnds, TypeOK
<1>3. ASSUME NEW s \in Submission, CallerStep(s) PROVE TypeOK'
  <2>0. {"failed", "gone", "ok", "sending", "waiting"} \subseteq InCall \cup Returned
    BY DEF InCall, Returned
  <2>1. CASE EnterEnqueue(s)
    <3>1. caller' \in [Submission -> {"idle"} \cup InCall \cup Returned]
      BY <2>0, <2>1, MoveType DEF EnterEnqueue, TypeOK
    <3> QED  BY <2>1, <3>1 DEF EnterEnqueue, TypeOK
  <2>2. CASE Send(s)
    <3>1. caller' \in [Submission -> {"idle"} \cup InCall \cup Returned]
      BY <2>0, <2>2, MoveType DEF Send, TypeOK
    <3> QED  BY <2>2, <3>1 DEF Send, TypeOK
  <2>3. CASE SendRefused(s)
    <3>1. caller' \in [Submission -> {"idle"} \cup InCall \cup Returned]
      BY <2>0, <2>3, MoveType DEF SendRefused, TypeOK
    <3> QED  BY <2>3, <3>1 DEF SendRefused, TypeOK
  <2>4. CASE ReceiveAck(s)
    <3>1. caller' \in [Submission -> {"idle"} \cup InCall \cup Returned]
      BY <2>0, <2>4, MoveType DEF ReceiveAck, TypeOK
    <3> QED  BY <2>4, <3>1 DEF ReceiveAck, TypeOK
  <2>5. CASE WriterGone(s)
    <3>1. caller' \in [Submission -> {"idle"} \cup InCall \cup Returned]
      BY <2>0, <2>5, MoveType DEF WriterGone, TypeOK
    <3> QED  BY <2>5, <3>1 DEF WriterGone, TypeOK
  <2>6. CASE GiveUp(s)
    <3>1. caller' \in [Submission -> {"idle"} \cup InCall \cup Returned]
      BY <2>0, <2>6, MoveType DEF GiveUp, TypeOK
    <3> QED  BY <2>6, <3>1 DEF GiveUp, Abandon, TypeOK
  <2> QED  BY <1>3, <2>1, <2>2, <2>3, <2>4, <2>5, <2>6 DEF CallerStep
<1>4. ASSUME RunnerStep PROVE TypeOK'
  <2>0. ASSUME TakeNext
        PROVE  /\ state' \in [Submission -> {"queued", "claimed", "abandoned"}]
               /\ submissions' \in Seq(Submission)
               /\ requests' \in Seq(Submission)
    BY <2>0 DEF TakeNext, Abandon, TypeOK
  <2>1. CASE Receive
    BY <2>1, <2>0 DEF Receive, TypeOK
  <2>2. CASE Gather
    BY <2>2, <2>0 DEF Gather, TypeOK
  <2>3. CASE GatherEnds
    BY <2>3 DEF GatherEnds, TypeOK
  <2>4. CASE Drain
    BY <2>4, <2>0 DEF Drain, TypeOK
  <2>5. CASE DrainEnds
    BY <2>5 DEF DrainEnds, TypeOK
  <2>6. CASE Dispatch
    <3>1. CASE requests = <<>> /\ UNCHANGED <<requests, jobs>>
      BY <2>6, <3>1 DEF Dispatch, TypeOK
    <3>2. ASSUME NEW n \in 1..Len(requests),
                 jobs' = Append(jobs, ToSet(SubSeq(requests, 1, n))),
                 requests' = SubSeq(requests, n + 1, Len(requests)),
                 UNCHANGED runner
          PROVE  TypeOK'
      <4>1. /\ requests \in Seq(Submission) /\ jobs \in Seq(SUBSET Submission)
            /\ n \in Nat /\ 1 <= n /\ n <= Len(requests) /\ Len(requests) \in Nat
        BY DEF TypeOK
      <4>2. /\ SubSeq(requests, 1, n) \in Seq(Submission)
            /\ SubSeq(requests, n + 1, Len(requests)) \in Seq(Submission)
        <5>1. n + 1 \in Nat \ {0} /\ 1 \in Nat \ {0} /\ Len(requests) <= Len(requests)
          BY <4>1
        <5> QED  BY <4>1, <5>1, SubSeqIsSeq
      <4>3. requests' \in Seq(Submission)
        BY <3>2, <4>2
      <4>4. jobs' \in Seq(SUBSET Submission)
        <5>1. ToSet(SubSeq(requests, 1, n)) \in SUBSET Submission
          BY <4>2, ToSetType
        <5> QED  BY <4>1, <5>1, <3>2
      <4> QED  BY <2>6, <3>2, <4>3, <4>4 DEF Dispatch, TypeOK
    <3> QED  BY <2>6, <3>1, <3>2 DEF Dispatch
  <2>7. CASE AbortGroup
    BY <2>7 DEF AbortGroup, Fail, TypeOK
  <2>8. CASE Finish
    BY <2>8 DEF Finish, TypeOK
  <2>9. CASE Stop
    BY <2>9 DEF Stop, TypeOK
  <2>10. CASE FinalDrain
    BY <2>10 DEF FinalDrain, Fail, TypeOK
  <2> QED  BY <1>4, <2>1, <2>2, <2>3, <2>4, <2>5, <2>6, <2>7, <2>8, <2>9,
              <2>10 DEF RunnerStep
<1>5. CASE RunCancelled
  BY <1>5 DEF RunCancelled, TypeOK
<1>6. CASE GraceExpires
  BY <1>6 DEF GraceExpires, TypeOK
<1>7. ASSUME NEW w \in Worker, WorkerStep(w) PROVE TypeOK'
  <2>0. ASSUME NEW answer \in {"ok", "err"}, Settle(w, answer)
        PROVE  /\ ack' \in [Submission -> {"none", "ok", "err"}]
               /\ worker' \in [Worker -> WorkerState]
               /\ \A v \in Worker : worker'[v].phase = "committing" =>
                                    worker'[v].id \in 1..(nextID - 1)
    BY <2>0 DEF Settle, NoJob, WorkerState, TypeOK
  <2>00. ASSUME Publish(w), worker[w].phase = "committing"
         PROVE  /\ DOMAIN published' = DOMAIN published \cup {worker[w].id}
                /\ DOMAIN published' \subseteq 1..(nextID - 1)
                /\ \A id \in DOMAIN published' : published'[id] \subseteq Submission
    <3>1. worker[w].job \subseteq Submission /\ worker[w].id \in 1..(nextID - 1)
      BY <2>00 DEF TypeOK, WorkerState
    <3> QED  BY <2>00, <3>1 DEF Publish, TypeOK
  <2>1. CASE FailJob(w)
    BY <2>1 DEF FailJob, Fail, TypeOK
  <2>2. CASE Claim(w)
    <3>1. state' \in [Submission -> {"queued", "claimed", "abandoned"}]
      BY <2>2 DEF Claim, TypeOK
    <3>2. jobs' \in Seq(SUBSET Submission) /\ Head(jobs) \in SUBSET Submission
      BY <2>2 DEF Claim, TypeOK
    <3>3. /\ worker' \in [Worker -> WorkerState]
          /\ nextID' \in Nat \ {0} /\ nextID' >= nextID
      <4>1. CASE UNCHANGED <<worker, nextID>>
        BY <4>1 DEF TypeOK
      <4>2. ASSUME NEW live \in SUBSET Submission,
                   worker' = [worker EXCEPT ![w] =
                                [phase |-> "committing", job |-> live,
                                 id |-> nextID, attempt |-> 0]],
                   nextID' = nextID + 1
            PROVE  /\ worker' \in [Worker -> WorkerState]
                   /\ nextID' \in Nat \ {0} /\ nextID' >= nextID
        <5>1. [phase |-> "committing", job |-> live, id |-> nextID,
               attempt |-> 0] \in WorkerState
          BY DEF WorkerState, TypeOK
        <5> QED  BY <4>2, <5>1 DEF TypeOK
      <4>3. \A S : Unclaimed(Head(jobs) \ S) \in SUBSET Submission
        BY <3>2 DEF Unclaimed
      <4> QED  BY <2>2, <4>1, <4>2, <4>3 DEF Claim
    <3>4. DOMAIN published \subseteq 1..(nextID' - 1)
      BY <3>3 DEF TypeOK
    <3>5. \A v \in Worker : worker'[v].phase = "committing" =>
                            worker'[v].id \in 1..(nextID' - 1)
      <4>1. nextID \in 1..nextID
        BY DEF TypeOK
      <4>2. CASE UNCHANGED <<worker, nextID>>
        BY <4>2 DEF TypeOK
      <4>3. ASSUME NEW live,
                   worker' = [worker EXCEPT ![w] =
                                [phase |-> "committing", job |-> live,
                                 id |-> nextID, attempt |-> 0]],
                   nextID' = nextID + 1,
                   NEW v \in Worker, worker'[v].phase = "committing"
            PROVE  worker'[v].id \in 1..(nextID' - 1)
        <5>1. CASE v = w
          BY <4>1, <4>3, <5>1 DEF TypeOK
        <5>2. CASE v # w
          BY <4>3, <5>2 DEF TypeOK
        <5> QED  BY <5>1, <5>2
      <4> QED  BY <2>2, <4>2, <4>3 DEF Claim
    <3> QED  BY <2>2, <3>1, <3>2, <3>3, <3>4, <3>5 DEF Claim, TypeOK
  <2>3. CASE CommitSucceeds(w)
    BY <2>3, <2>0, <2>00 DEF CommitSucceeds, TypeOK
  <2>4. CASE CommitFails(w)
    <3>1. /\ DOMAIN published' \subseteq 1..(nextID - 1)
          /\ \A id \in DOMAIN published' : published'[id] \subseteq Submission
      BY <2>4, <2>00 DEF CommitFails, TypeOK
    <3>2. CASE Exhausted(w) /\ UNCHANGED nextID
      BY <2>4, <2>0, <3>1, <3>2 DEF CommitFails, Exhausted, TypeOK
    <3>3. CASE Retry(w)
      <4>1. [worker[w] EXCEPT !.attempt = @ + 1] \in WorkerState
        <5>1. worker[w] \in WorkerState
          BY DEF TypeOK
        <5> QED  BY <5>1 DEF WorkerState
      <4>2. worker' \in [Worker -> WorkerState]
        BY <3>3, <4>1 DEF Retry, TypeOK
      <4>3. \A v \in Worker : worker'[v].phase = "committing" =>
                              worker'[v].id \in 1..(nextID - 1)
        BY <3>3 DEF Retry, TypeOK, WorkerState
      <4> QED  BY <2>4, <3>1, <3>3, <4>2, <4>3 DEF CommitFails, Retry, TypeOK
    <3> QED  BY <2>4, <3>2, <3>3 DEF CommitFails
  <2>5. CASE RetryCancelled(w)
    BY <2>5, <2>0 DEF RetryCancelled, TypeOK
  <2>6. CASE WorkerExits(w)
    BY <2>6 DEF WorkerExits, WorkerState, TypeOK
  <2> QED  BY <1>7, <2>1, <2>2, <2>3, <2>4, <2>5, <2>6 DEF WorkerStep
<1>8. CASE UNCHANGED vars
  BY <1>8 DEF vars, TypeOK
<1> QED  BY <1>1, <1>2, <1>3, <1>4, <1>5, <1>6, <1>7, <1>8 DEF Next
(***************************************************************************)
(* Every reachable state of the writer is well typed; in particular every  *)
(* ID handed to the repository was drawn by claim.                         *)
(***************************************************************************)
THEOREM TypeCorrect == Spec => []TypeOK
BY InitTypeOK, NextTypeOK, PTL DEF Spec

-----------------------------------------------------------------------------
(***************************************************************************)
(* Safety.  The three properties are not inductive: what the retries may   *)
(* publish is held back by what each worker has claimed.  CommitInv says   *)
(* that claims are private (no two workers hold one submission or one ID), *)
(* that a directory under a worker's ID holds exactly its job, and that    *)
(* everything held or published was claimed; EnteredInv that only a caller *)
(* past the queue can lose its submission to someone else.                 *)
(***************************************************************************)
JobsPrivate ==
  /\ \A w \in Worker : worker[w].phase # "committing" => worker[w].job = {}
  /\ \A v, w \in Worker : v # w => worker[v].job \cap worker[w].job = {}
  /\ \A v, w \in Worker :
       /\ v # w
       /\ worker[v].phase = "committing" /\ worker[w].phase = "committing"
       => worker[v].id # worker[w].id

DirectoryIsJob ==
  \A w \in Worker, id \in DOMAIN published :
    worker[w].phase = "committing" =>
      IF id = worker[w].id THEN published[id] = worker[w].job
                           ELSE published[id] \cap worker[w].job = {}

OnlyClaimed ==
  /\ \A w \in Worker : \A s \in worker[w].job : state[s] = "claimed"
  /\ \A id \in DOMAIN published : \A s \in published[id] : state[s] = "claimed"

CommitInv == /\ JobsPrivate /\ DirectoryIsJob /\ OnlyClaimed
             /\ WrittenOnce /\ AcknowledgedIsStored

(* Whoever leaves "queued" never moves again. *)
SettledStays == \A s \in Submission : state[s] # "queued" => state'[s] = state[s]

LEMMA SettledOnce == TypeOK /\ [Next]_vars => SettledStays
<1> SUFFICES ASSUME TypeOK, [Next]_vars PROVE SettledStays  OBVIOUS
<1> USE DEF SettledStays
<1>0. ASSUME UNCHANGED state PROVE SettledStays
  BY <1>0
<1>1. ASSUME NEW S, Abandon(S) \/ Fail(S) PROVE SettledStays
  BY <1>1 DEF Abandon, Fail, Unclaimed
<1>2. ASSUME NEW s \in Submission, Submit(s) \/ CtxEnds(s) PROVE SettledStays
  BY <1>2, <1>0 DEF Submit, CtxEnds
<1>3. ASSUME NEW s \in Submission, CallerStep(s) PROVE SettledStays
  BY <1>3, <1>0, <1>1 DEF CallerStep, EnterEnqueue, Send, SendRefused, ReceiveAck,
     WriterGone, GiveUp
<1>4. ASSUME TakeNext PROVE SettledStays
  BY <1>4, <1>0, <1>1 DEF TakeNext
<1>5. ASSUME RunnerStep PROVE SettledStays
  BY <1>5, <1>0, <1>1, <1>4 DEF RunnerStep, Receive, Gather, GatherEnds, Drain,
     DrainEnds, Dispatch, AbortGroup, Finish, Stop, FinalDrain
<1>6. ASSUME NEW w \in Worker, WorkerStep(w) PROVE SettledStays
  <2>1. CASE Claim(w)
    BY <2>1 DEF Claim, Unclaimed
  <2> QED  BY <1>6, <2>1, <1>0, <1>1 DEF WorkerStep, FailJob, CommitSucceeds,
              CommitFails, RetryCancelled, WorkerExits
<1>7. CASE RunCancelled \/ GraceExpires \/ UNCHANGED vars
  BY <1>7, <1>0 DEF RunCancelled, GraceExpires, vars
<1> QED  BY <1>2, <1>3, <1>5, <1>6, <1>7 DEF Next

(* A step of anyone but a worker, and one that acknowledges nothing new. *)
LEMMA FrameCommit ==
  ASSUME TypeOK, CommitInv, SettledStays, UNCHANGED workerVars,
         \A s \in Submission : caller'[s] = "ok" \/ ack'[s] = "ok" =>
                               caller[s] = "ok" \/ ack[s] = "ok"
  PROVE  CommitInv'
<1>1. JobsPrivate' /\ DirectoryIsJob' /\ WrittenOnce'
  BY DEF CommitInv, JobsPrivate, DirectoryIsJob, WrittenOnce
<1>2. OnlyClaimed'
  <2>1. \A w \in Worker : worker[w].job \subseteq Submission
    BY DEF TypeOK, WorkerState
  <2>2. \A id \in DOMAIN published : published[id] \subseteq Submission
    BY DEF TypeOK
  <2> QED  BY <2>1, <2>2 DEF CommitInv, OnlyClaimed, SettledStays
<1>3. AcknowledgedIsStored'
  BY DEF CommitInv, AcknowledgedIsStored
<1> QED  BY <1>1, <1>2, <1>3 DEF CommitInv

LEMMA InitCommitInv == Init => CommitInv
<1> SUFFICES ASSUME Init PROVE CommitInv  OBVIOUS
<1>1. DOMAIN published = {}
  <2>1. published = [id \in {} |-> {}]
    BY DEF Init
  <2>2. DOMAIN [id \in {} |-> {}] = {}
    OBVIOUS
  <2> QED  BY <2>1, <2>2
<1>2. \A w \in Worker : worker[w].job = {} /\ worker[w].phase = "idle"
  BY DEF Init, NoJob
<1>3. \A s \in Submission : caller[s] = "idle" /\ ack[s] = "none"
  BY DEF Init
<1> QED  BY <1>1, <1>2, <1>3 DEF CommitInv, JobsPrivate, DirectoryIsJob,
            OnlyClaimed, WrittenOnce, AcknowledgedIsStored

LEMMA NextCommitInv == TypeOK /\ CommitInv /\ [Next]_vars => CommitInv'
<1> SUFFICES ASSUME TypeOK, CommitInv, [Next]_vars PROVE CommitInv'  OBVIOUS
<1>0. SettledStays
  BY SettledOnce
<1> DEFINE Acks == {s \in Submission : caller[s] = "ok" \/ ack[s] = "ok"}
<1>1. ASSUME UNCHANGED workerVars, Acks' \subseteq Acks PROVE CommitInv'
  BY <1>0, <1>1, FrameCommit
<1>2. ASSUME NEW S, Fail(S), UNCHANGED caller PROVE Acks' \subseteq Acks
  BY <1>2 DEF Fail, TypeOK
<1>3. ASSUME NEW s \in Submission, Submit(s) \/ CtxEnds(s) PROVE CommitInv'
  <2>1. Acks' \subseteq Acks /\ UNCHANGED workerVars
    BY <1>3 DEF Submit, CtxEnds, Move, TypeOK
  <2> QED  BY <2>1, <1>1
<1>4. ASSUME NEW s \in Submission, CallerStep(s) PROVE CommitInv'
  <2>1. UNCHANGED <<workerVars, ack>>
    BY <1>4 DEF CallerStep, EnterEnqueue, Send, SendRefused, ReceiveAck,
       WriterGone, GiveUp
  <2>2. Acks' \subseteq Acks
    BY <1>4, <2>1 DEF CallerStep, EnterEnqueue, Send, SendRefused, ReceiveAck,
       WriterGone, GiveUp, Move, TypeOK
  <2> QED  BY <2>1, <2>2, <1>1
<1>5. CASE RunnerStep
  <2>1. UNCHANGED workerVars
    BY <1>5 DEF RunnerStep, Receive, Gather, GatherEnds, Drain, DrainEnds,
       Dispatch, AbortGroup, Finish, Stop, FinalDrain
  <2>2. CASE AbortGroup \/ FinalDrain
    BY <2>1, <2>2, <1>1, <1>2 DEF AbortGroup, FinalDrain
  <2>3. CASE UNCHANGED <<caller, ack>>
    BY <2>1, <2>3, <1>1
  <2> QED  BY <1>5, <2>2, <2>3 DEF RunnerStep, Receive, Gather, GatherEnds,
              Drain, DrainEnds, Dispatch, Finish, Stop
<1>6. CASE RunCancelled \/ GraceExpires \/ UNCHANGED vars
  BY <1>6, <1>1 DEF RunCancelled, GraceExpires, vars
<1>7. ASSUME NEW w \in Worker, WorkerStep(w) PROVE CommitInv'
  <2>0. /\ worker[w].job \subseteq Submission
        /\ \A v \in Worker : worker[v].phase # "committing" => worker[v].job = {}
    BY DEF TypeOK, WorkerState, CommitInv, JobsPrivate
  <2>1. CASE FailJob(w)
    BY <2>1, <1>1, <1>2 DEF FailJob
  <2>2. CASE Claim(w)
    <3>1. CASE UNCHANGED <<worker, nextID>>
      <4>1. UNCHANGED workerVars /\ Acks' \subseteq Acks
        BY <2>2, <3>1 DEF Claim
      <4> QED  BY <4>1, <1>1
    <3>2. ASSUME NEW live,
                 live \subseteq Submission,
                 \A s \in live : state[s] = "queued" /\ state'[s] = "claimed",
                 worker' = [worker EXCEPT ![w] =
                              [phase |-> "committing", job |-> live,
                               id |-> nextID, attempt |-> 0]],
                 UNCHANGED <<published, caller, ack>>
          PROVE  CommitInv'
      <4>1. /\ \A v \in Worker : v # w => worker'[v] = worker[v]
            /\ worker'[w].phase = "committing" /\ worker'[w].job = live
            /\ worker'[w].id = nextID
        BY <3>2 DEF TypeOK
      <4>2. /\ \A v \in Worker : worker[v].job \cap live = {}
            /\ \A id \in DOMAIN published : published[id] \cap live = {}
        BY <3>2 DEF CommitInv, OnlyClaimed
      <4>3. /\ nextID \notin DOMAIN published
            /\ \A v \in Worker : worker[v].phase = "committing" =>
                                 worker[v].id # nextID
        BY DEF TypeOK
      <4>4. JobsPrivate'
        BY <4>1, <4>2, <4>3 DEF CommitInv, JobsPrivate
      <4>5. DirectoryIsJob'
        BY <3>2, <4>1, <4>2, <4>3 DEF CommitInv, DirectoryIsJob
      <4>6. OnlyClaimed'
        <5>1. \A v \in Worker : worker[v].job \subseteq Submission
          BY DEF TypeOK, WorkerState
        <5>2. \A id \in DOMAIN published : published[id] \subseteq Submission
          BY DEF TypeOK
        <5> QED  BY <1>0, <3>2, <4>1, <5>1, <5>2
                 DEF CommitInv, OnlyClaimed, SettledStays
      <4>7. WrittenOnce' /\ AcknowledgedIsStored'
        BY <3>2 DEF CommitInv, WrittenOnce, AcknowledgedIsStored
      <4> QED  BY <4>4, <4>5, <4>6, <4>7 DEF CommitInv
    <3>3. Head(jobs) \subseteq Submission
      BY <2>2 DEF Claim, TypeOK
    <3> DEFINE live == Unclaimed(Head(jobs) \ {s \in Head(jobs) : ctxDone[s]})
    <3>4. /\ live \subseteq Submission
          /\ \A s \in live : state[s] = "queued" /\ state'[s] = "claimed"
      BY <2>2, <3>3 DEF Claim, Unclaimed
    <3> QED  BY <2>2, <3>1, <3>2, <3>4 DEF Claim
  <2>3. ASSUME Publish(w) \/ UNCHANGED published,
               worker[w].phase = "committing",
               UNCHANGED state,
               worker' = [worker EXCEPT ![w] = NoJob] \/ Retry(w)
        PROVE  /\ JobsPrivate' /\ DirectoryIsJob' /\ OnlyClaimed' /\ WrittenOnce'
               /\ \A id \in DOMAIN published : /\ id \in DOMAIN published'
                                               /\ published'[id] = published[id]
    <3>1. /\ \A v \in Worker : v # w => worker'[v] = worker[v]
          /\ \/ worker'[w] = NoJob
             \/ /\ worker'[w].phase = "committing"
                /\ worker'[w].job = worker[w].job
                /\ worker'[w].id = worker[w].id
      BY <2>3 DEF Retry, TypeOK, WorkerState
    <3>2. /\ \A id \in DOMAIN published' :
               \/ id \in DOMAIN published /\ published'[id] = published[id]
               \/ id = worker[w].id /\ published'[id] = worker[w].job
          /\ \A id \in DOMAIN published : id \in DOMAIN published'
      BY <2>3 DEF Publish
    <3>3. \A id \in DOMAIN published : published'[id] = published[id]
      BY <2>3 DEF Publish, CommitInv, DirectoryIsJob
    <3>4. JobsPrivate'
      <4>1. \A v \in Worker :
              /\ worker'[v].job \subseteq worker[v].job
              /\ worker'[v].phase = "committing" =>
                   (worker[v].phase = "committing" /\ worker'[v].id = worker[v].id)
              /\ worker'[v].phase # "committing" =>
                   (worker'[v].job = {} \/ worker'[v] = worker[v])
        BY <2>3, <3>1 DEF NoJob
      <4>2. \A v \in Worker : worker'[v].phase # "committing" => worker'[v].job = {}
        BY <4>1 DEF CommitInv, JobsPrivate
      <4>3. \A u, v \in Worker : u # v => worker'[u].job \cap worker'[v].job = {}
        <5>1. \A u, v \in Worker : u # v => worker[u].job \cap worker[v].job = {}
          BY DEF CommitInv, JobsPrivate
        <5> QED  BY <4>1, <5>1
      <4>4. \A u, v \in Worker :
              /\ u # v
              /\ worker'[u].phase = "committing" /\ worker'[v].phase = "committing"
              => worker'[u].id # worker'[v].id
        BY <4>1 DEF CommitInv, JobsPrivate
      <4> QED  BY <4>2, <4>3, <4>4 DEF JobsPrivate
    <3>5. DirectoryIsJob'
      BY <2>3, <3>1, <3>2, <3>3 DEF NoJob, CommitInv, JobsPrivate, DirectoryIsJob
    <3>6. OnlyClaimed'
      BY <2>3, <3>1, <3>2, <3>3 DEF NoJob, CommitInv, OnlyClaimed
    <3>7. WrittenOnce'
      BY <2>3, <3>2, <3>3 DEF CommitInv, WrittenOnce, DirectoryIsJob
    <3> QED  BY <3>2, <3>3, <3>4, <3>5, <3>6, <3>7
  <2>4. CASE CommitSucceeds(w)
    <3>1. /\ JobsPrivate' /\ DirectoryIsJob' /\ OnlyClaimed' /\ WrittenOnce'
          /\ \A id \in DOMAIN published : /\ id \in DOMAIN published'
                                          /\ published'[id] = published[id]
      BY <2>3, <2>4 DEF CommitSucceeds, Settle
    <3>2. /\ worker[w].id \in DOMAIN published'
          /\ published'[worker[w].id] = worker[w].job
      BY <2>4 DEF CommitSucceeds, Publish
    <3>3. \A s \in Submission : \/ s \in worker[w].job
                                \/ ack'[s] = ack[s]
      BY <2>4 DEF CommitSucceeds, Settle
    <3>5. AcknowledgedIsStored'
      <4>1. SUFFICES ASSUME NEW s \in Submission,
                            caller'[s] = "ok" \/ ack'[s] = "ok"
                     PROVE  \E id \in DOMAIN published' : s \in published'[id]
        BY DEF AcknowledgedIsStored
      <4>2. CASE s \in worker[w].job
        BY <3>2, <4>2
      <4>3. CASE caller[s] = "ok" \/ ack[s] = "ok"
        BY <3>1, <4>3 DEF CommitInv, AcknowledgedIsStored
      <4> QED  BY <2>4, <3>3, <4>1, <4>2, <4>3 DEF CommitSucceeds
    <3> QED  BY <3>1, <3>5 DEF CommitInv
  <2>5. ASSUME UNCHANGED caller,
               \A s \in Submission : ack'[s] = "ok" => ack[s] = "ok",
               \A id \in DOMAIN published : /\ id \in DOMAIN published'
                                            /\ published'[id] = published[id]
        PROVE  AcknowledgedIsStored'
    BY <2>5 DEF CommitInv, AcknowledgedIsStored, TypeOK
  <2>6. CASE CommitFails(w)
    <3>1. worker' = [worker EXCEPT ![w] = NoJob] \/ Retry(w)
      BY <2>6 DEF CommitFails, Exhausted, Settle
    <3>2. /\ JobsPrivate' /\ DirectoryIsJob' /\ OnlyClaimed' /\ WrittenOnce'
          /\ \A id \in DOMAIN published : /\ id \in DOMAIN published'
                                          /\ published'[id] = published[id]
      BY <2>3, <2>6, <3>1 DEF CommitFails
    <3>3. \A s \in Submission : ack'[s] = "ok" => ack[s] = "ok"
      BY <2>6 DEF CommitFails, Exhausted, Settle, Retry
    <3>4. AcknowledgedIsStored'
      BY <2>5, <2>6, <3>2, <3>3 DEF CommitFails
    <3> QED  BY <3>2, <3>4 DEF CommitInv
  <2>7. CASE RetryCancelled(w)
    <3>1. /\ JobsPrivate' /\ DirectoryIsJob' /\ OnlyClaimed' /\ WrittenOnce'
      BY <2>3, <2>7 DEF RetryCancelled, Settle
    <3>2. \A s \in Submission : ack'[s] = "ok" => ack[s] = "ok"
      BY <2>7 DEF RetryCancelled, Settle
    <3>3. AcknowledgedIsStored'
      BY <2>5, <2>7, <3>2 DEF RetryCancelled
    <3> QED  BY <3>1, <3>3 DEF CommitInv
  <2>8. CASE WorkerExits(w)
    <3>1. /\ \A v \in Worker : /\ worker'[v].job = worker[v].job
                               /\ worker'[v].id = worker[v].id
                               /\ worker'[v].phase = "committing" =>
                                    worker[v].phase = "committing"
                               /\ worker'[v].phase # "committing" =>
                                    worker[v].phase # "committing"
      BY <2>8 DEF WorkerExits, TypeOK, WorkerState
    <3> QED  BY <2>8, <3>1 DEF WorkerExits, CommitInv, JobsPrivate,
                DirectoryIsJob, OnlyClaimed, WrittenOnce, AcknowledgedIsStored
  <2> QED  BY <1>7, <2>1, <2>2, <2>4, <2>6, <2>7, <2>8 DEF WorkerStep
<1> QED  BY <1>3, <1>4, <1>5, <1>6, <1>7 DEF Next

(***************************************************************************)
(* The writer's part of Submit's promise, for every set of exports and     *)
(* workers: an export told it succeeded is in a published batch directory, *)
(* whatever mix of failed attempts, adopted directories and cancellations  *)
(* came before.  It says nothing of fsyncs: those are in ParquetCatalog.   *)
(***************************************************************************)
THEOREM AcknowledgedStored == Spec => []AcknowledgedIsStored
<1>1. CommitInv => AcknowledgedIsStored
  BY DEF CommitInv
<1> QED  BY <1>1, TypeCorrect, InitCommitInv, NextCommitInv, PTL DEF Spec

(***************************************************************************)
(* commitBatch's retries never put an export's rows in two directories.    *)
(***************************************************************************)
THEOREM NeverWrittenTwice == Spec => []WrittenOnce
<1>1. CommitInv => WrittenOnce
  BY DEF CommitInv
<1> QED  BY <1>1, TypeCorrect, InitCommitInv, NextCommitInv, PTL DEF Spec

-----------------------------------------------------------------------------
Entered(s) == caller[s] \notin {"idle", "enqueueing", "sending", "refused"}

EnteredInv ==
  /\ \A s \in ToSet(submissions) : Entered(s)
  /\ \A s \in ToSet(requests) : Entered(s)
  /\ \A job \in ToSet(jobs) : \A s \in job : Entered(s)
  /\ \A s \in Submission : state[s] # "queued" => Entered(s)

(* A caller past the queue stays past it. *)
LEMMA EnteredStays ==
  TypeOK /\ [Next]_vars => \A s \in Submission : Entered(s) => Entered(s)'
<1> SUFFICES ASSUME TypeOK, [Next]_vars, NEW s \in Submission, Entered(s)
             PROVE  Entered(s)'
  OBVIOUS
<1>1. ASSUME UNCHANGED caller PROVE Entered(s)'
  BY <1>1 DEF Entered
<1>2. ASSUME NEW t \in Submission, Submit(t) PROVE Entered(s)'
  BY <1>2 DEF Submit, Move, Entered, TypeOK
<1>3. ASSUME NEW t \in Submission, CallerStep(t) PROVE Entered(s)'
  BY <1>3 DEF CallerStep, EnterEnqueue, Send, SendRefused, ReceiveAck,
     WriterGone, GiveUp, Move, Entered, TypeOK
<1>4. ASSUME NEW t \in Submission, CtxEnds(t) PROVE Entered(s)'
  BY <1>1, <1>4 DEF CtxEnds
<1>5. CASE RunnerStep \/ RunCancelled \/ GraceExpires \/ UNCHANGED vars
  BY <1>1, <1>5 DEF RunnerStep, Receive, Gather, GatherEnds, Drain, DrainEnds,
     Dispatch, AbortGroup, Finish, Stop, FinalDrain, RunCancelled,
     GraceExpires, vars
<1>6. ASSUME NEW w \in Worker, WorkerStep(w) PROVE Entered(s)'
  BY <1>1, <1>6 DEF WorkerStep, FailJob, Claim, CommitSucceeds, CommitFails,
     RetryCancelled, WorkerExits
<1> QED  BY <1>2, <1>3, <1>4, <1>5, <1>6 DEF Next

(* Sequence facts about the value sets of the queues. *)
LEMMA ToSetAppend ==
  ASSUME NEW S, NEW q \in Seq(S), NEW e \in S
  PROVE  ToSet(Append(q, e)) = ToSet(q) \cup {e}
<1>1. /\ Append(q, e) \in Seq(S) /\ Len(Append(q, e)) = Len(q) + 1
      /\ \A i \in 1..Len(q) : Append(q, e)[i] = q[i]
      /\ Append(q, e)[Len(q) + 1] = e
  OBVIOUS
<1>2. /\ DOMAIN q = 1..Len(q) /\ DOMAIN Append(q, e) = 1..(Len(q) + 1)
      /\ Len(q) \in Nat
  BY <1>1
<1> QED  BY <1>1, <1>2 DEF ToSet

LEMMA ToSetTail ==
  ASSUME NEW S, NEW q \in Seq(S), q # <<>>
  PROVE  ToSet(Tail(q)) \subseteq ToSet(q) /\ Head(q) \in ToSet(q)
<1>1. /\ Tail(q) \in Seq(S) /\ Len(Tail(q)) = Len(q) - 1
      /\ \A i \in 1..Len(Tail(q)) : Tail(q)[i] = q[i + 1]
      /\ Len(q) \in Nat \ {0} /\ Head(q) = q[1]
  OBVIOUS
<1>2. DOMAIN q = 1..Len(q) /\ DOMAIN Tail(q) = 1..(Len(q) - 1)
  BY <1>1
<1> QED  BY <1>1, <1>2 DEF ToSet

LEMMA ToSetHeadTail ==
  ASSUME NEW S, NEW q \in Seq(S), q # <<>>
  PROVE  Head(q) \in S /\ ToSet(q) \subseteq ToSet(Tail(q)) \cup {Head(q)}
<1>1. /\ Tail(q) \in Seq(S) /\ Len(Tail(q)) = Len(q) - 1
      /\ \A i \in 1..Len(Tail(q)) : Tail(q)[i] = q[i + 1]
      /\ Len(q) \in Nat \ {0} /\ Head(q) = q[1] /\ q[1] \in S
  OBVIOUS
<1>2. DOMAIN q = 1..Len(q) /\ DOMAIN Tail(q) = 1..(Len(q) - 1)
  BY <1>1
<1>3. ASSUME NEW i \in 1..Len(q), i # 1 PROVE q[i] \in ToSet(Tail(q))
  <2>1. i - 1 \in 1..(Len(q) - 1) /\ (i - 1) + 1 = i
    BY <1>1, <1>3
  <2> QED  BY <1>1, <1>2, <2>1 DEF ToSet
<1> QED  BY <1>1, <1>2, <1>3 DEF ToSet

LEMMA ToSetSplit ==
  ASSUME NEW S, NEW q \in Seq(S), NEW n \in 1..Len(q)
  PROVE  ToSet(q) = ToSet(SubSeq(q, 1, n)) \cup ToSet(SubSeq(q, n + 1, Len(q)))
<1> DEFINE h == SubSeq(q, 1, n)
           r == SubSeq(q, n + 1, Len(q))
<1>1. Len(q) \in Nat /\ DOMAIN q = 1..Len(q) /\ n \in Nat /\ n <= Len(q) /\ 1 <= n
  OBVIOUS
<1>2. /\ DOMAIN h = 1..n /\ \A i \in 1..n : h[i] = q[i]
      /\ DOMAIN r = 1..(Len(q) - n) /\ \A i \in 1..(Len(q) - n) : r[i] = q[n + i]
  BY <1>1
<1> HIDE DEF h, r
<1>3. ASSUME NEW i \in 1..Len(q) PROVE q[i] \in ToSet(h) \cup ToSet(r)
  <2>1. CASE i <= n
    BY <1>1, <1>2, <2>1 DEF ToSet
  <2>2. CASE i > n
    <3>1. i - n \in 1..(Len(q) - n) /\ n + (i - n) = i
      BY <1>1, <2>2
    <3> QED  BY <1>2, <3>1 DEF ToSet
  <2> QED  BY <1>1, <2>1, <2>2
<1>4. \A i \in 1..(Len(q) - n) : n + i \in 1..Len(q)
  BY <1>1
<1>5. \A i \in 1..n : i \in 1..Len(q)
  BY <1>1
<1>6. ToSet(h) \subseteq ToSet(q) /\ ToSet(r) \subseteq ToSet(q)
  BY <1>1, <1>2, <1>4, <1>5 DEF ToSet
<1>7. ToSet(q) \subseteq ToSet(h) \cup ToSet(r)
  BY <1>1, <1>3 DEF ToSet
<1> QED  BY <1>6, <1>7 DEF h, r

LEMMA ToSetSubSeq ==
  ASSUME NEW S, NEW q \in Seq(S), NEW m \in 1..(Len(q) + 1), NEW n \in 0..Len(q)
  PROVE  ToSet(SubSeq(q, m, n)) \subseteq ToSet(q)
<1>1. /\ Len(SubSeq(q, m, n)) = IF m <= n THEN n - m + 1 ELSE 0
      /\ SubSeq(q, m, n) \in Seq(S)
      /\ \A i \in 1..(n - m + 1) : SubSeq(q, m, n)[i] = q[m + i - 1]
  <2>1. \A i \in m..n : q[i] \in S
    OBVIOUS
  <2> QED  BY <2>1, SubSeqProperties
<1>2. DOMAIN q = 1..Len(q) /\ Len(q) \in Nat
  OBVIOUS
<1>3. \A i \in DOMAIN SubSeq(q, m, n) : SubSeq(q, m, n)[i] \in ToSet(q)
  <2> SUFFICES ASSUME NEW i \in DOMAIN SubSeq(q, m, n)
               PROVE  SubSeq(q, m, n)[i] \in ToSet(q)
    OBVIOUS
  <2>1. i \in 1..(n - m + 1) /\ m + i - 1 \in 1..Len(q)
    BY <1>1
  <2> QED  BY <1>1, <1>2, <2>1 DEF ToSet
<1> QED  BY <1>3 DEF ToSet

LEMMA InitEntered == Init => EnteredInv
<1> SUFFICES ASSUME Init PROVE EnteredInv  OBVIOUS
<1>1. submissions = <<>> /\ requests = <<>> /\ jobs = <<>>
  BY DEF Init
<1>2. ToSet(submissions) = {} /\ ToSet(requests) = {} /\ ToSet(jobs) = {}
  BY <1>1 DEF ToSet
<1>3. \A s \in Submission : state[s] = "queued"
  BY DEF Init
<1> QED  BY <1>2, <1>3 DEF EnteredInv

(* A step that adds nobody to a queue and settles only what was queued.     *)
LEMMA FrameEntered ==
  ASSUME TypeOK, TypeOK', EnteredInv, [Next]_vars,
         \A s \in ToSet(submissions)' \cup ToSet(requests)'
                  \cup UNION ToSet(jobs)' :
           \/ s \in ToSet(submissions) \cup ToSet(requests) \cup UNION ToSet(jobs)
           \/ Entered(s)',
         \A s \in Submission : state'[s] # "queued" =>
           \/ state[s] # "queued"
           \/ s \in ToSet(submissions) \cup ToSet(requests) \cup UNION ToSet(jobs)
           \/ Entered(s)
  PROVE  EnteredInv'
<1>1. /\ ToSet(submissions) \subseteq Submission
      /\ ToSet(requests) \subseteq Submission
      /\ \A job \in ToSet(jobs) : job \subseteq Submission
  BY ToSetType DEF TypeOK
<1>2. \A s \in ToSet(submissions) \cup ToSet(requests) \cup UNION ToSet(jobs) :
        s \in Submission /\ Entered(s)
  BY <1>1 DEF EnteredInv
<1>3. \A s \in Submission : Entered(s) => Entered(s)'
  BY EnteredStays
<1>4. \A s \in ToSet(submissions)' \cup ToSet(requests)' \cup UNION ToSet(jobs)' :
        Entered(s)'
  BY <1>2, <1>3
<1>5. \A s \in Submission : state'[s] # "queued" => Entered(s)'
  BY <1>2, <1>3 DEF EnteredInv
<1> QED  BY <1>4, <1>5 DEF EnteredInv

LEMMA NextEntered == TypeOK /\ EnteredInv /\ [Next]_vars => EnteredInv'
<1> SUFFICES ASSUME TypeOK, EnteredInv, [Next]_vars PROVE EnteredInv'  OBVIOUS
<1>0. TypeOK'
  BY NextTypeOK
<1> DEFINE Queued == ToSet(submissions) \cup ToSet(requests) \cup UNION ToSet(jobs)
           Grows(s) == s \in Queued \/ Entered(s)'
           Settles(s) == state'[s] # "queued" =>
                           state[s] # "queued" \/ s \in Queued \/ Entered(s)
<1>1. ASSUME \A s \in Queued' : Grows(s), \A s \in Submission : Settles(s)
      PROVE  EnteredInv'
  BY <1>0, <1>1, FrameEntered
<1> HIDE DEF Queued, Grows, Settles
<1>2. ASSUME UNCHANGED <<submissions, requests, jobs>> PROVE \A s \in Queued' : Grows(s)
  BY <1>2 DEF Queued, Grows
<1>3. ASSUME UNCHANGED state PROVE \A s \in Submission : Settles(s)
  BY <1>3 DEF Settles
<1>4. ASSUME NEW S, Fail(S) \/ Abandon(S),
             \A s \in S : s \in Queued \/ Entered(s)
      PROVE  \A s \in Submission : Settles(s)
  BY <1>4 DEF Settles, Fail, Abandon, Unclaimed
<1>5. ASSUME NEW t \in Submission, Submit(t) \/ CtxEnds(t) PROVE EnteredInv'
  BY <1>5, <1>1, <1>2, <1>3 DEF Submit, CtxEnds
<1>6. ASSUME NEW t \in Submission, CallerStep(t) PROVE EnteredInv'
  <2>1. CASE Send(t)
    <3>1. ToSet(submissions') = ToSet(submissions) \cup {t}
      BY <2>1, ToSetAppend DEF Send, TypeOK
    <3>2. Entered(t)'
      BY <2>1 DEF Send, Move, Entered, TypeOK
    <3>3. \A s \in Queued' : Grows(s)
      BY <2>1, <3>1, <3>2 DEF Send, Queued, Grows
    <3> QED  BY <2>1, <3>3, <1>1, <1>3 DEF Send
  <2>2. CASE GiveUp(t)
    <3>1. Entered(t)
      BY <2>2 DEF GiveUp, Move, Entered
    <3> QED  BY <2>2, <3>1, <1>1, <1>2, <1>4 DEF GiveUp
  <2> QED  BY <1>6, <2>1, <2>2, <1>1, <1>2, <1>3 DEF CallerStep, EnterEnqueue,
              SendRefused, ReceiveAck, WriterGone
<1>7. CASE RunnerStep
  <2>1. ASSUME TakeNext, UNCHANGED jobs PROVE EnteredInv'
    <3>1. /\ ToSet(submissions') \subseteq ToSet(submissions)
          /\ Head(submissions) \in ToSet(submissions)
          /\ Head(submissions) \in Submission
      BY <2>1, ToSetTail DEF TakeNext, TypeOK
    <3>2. ToSet(requests') \subseteq ToSet(requests) \cup {Head(submissions)}
      BY <2>1, <3>1, ToSetAppend DEF TakeNext, TypeOK
    <3>3. \A s \in Queued' : Grows(s)
      BY <2>1, <3>1, <3>2 DEF Queued, Grows
    <3>4. \A s \in Submission : Settles(s)
      BY <2>1, <3>1, <1>3, <1>4 DEF TakeNext, Queued
    <3> QED  BY <3>3, <3>4, <1>1
  <2>2. CASE Dispatch
    <3>1. ASSUME NEW n \in 1..Len(requests),
                 jobs' = Append(jobs, ToSet(SubSeq(requests, 1, n))),
                 requests' = SubSeq(requests, n + 1, Len(requests))
          PROVE  \A s \in Queued' : Grows(s)
      <4>0. /\ requests \in Seq(Submission) /\ jobs \in Seq(SUBSET Submission)
            /\ Len(requests) \in Nat
        BY DEF TypeOK
      <4>1. ToSet(SubSeq(requests, 1, n)) \subseteq ToSet(requests)
        <5>1. 1 \in 1..(Len(requests) + 1) /\ n \in 0..Len(requests)
          BY <4>0
        <5> QED  BY <4>0, <5>1, ToSetSubSeq
      <4>2. ToSet(requests') \subseteq ToSet(requests)
        <5>1. n + 1 \in 1..(Len(requests) + 1) /\ Len(requests) \in 0..Len(requests)
          BY <4>0
        <5> QED  BY <3>1, <4>0, <5>1, ToSetSubSeq
      <4>3. ToSet(jobs') = ToSet(jobs) \cup {ToSet(SubSeq(requests, 1, n))}
        <5>1. ToSet(SubSeq(requests, 1, n)) \in SUBSET Submission
          BY <4>0, <4>1, ToSetType
        <5> QED  BY <3>1, <4>0, <5>1, ToSetAppend
      <4>4. UNCHANGED submissions
        BY <2>2 DEF Dispatch
      <4> QED  BY <4>1, <4>2, <4>3, <4>4 DEF Queued, Grows
    <3>2. \A s \in Submission : Settles(s)
      BY <2>2, <1>3 DEF Dispatch
    <3>3. \A s \in Queued' : Grows(s)
      BY <2>2, <3>1, <1>2 DEF Dispatch
    <3> QED  BY <3>2, <3>3, <1>1
  <2>3. CASE AbortGroup
    <3>1. \A s \in Submission : Settles(s)
      BY <2>3, <1>4 DEF AbortGroup, Held, Queued
    <3>2. ToSet(requests') = {}
      BY <2>3 DEF AbortGroup, ToSet
    <3> QED  BY <2>3, <3>1, <3>2, <1>1 DEF AbortGroup, Queued, Grows
  <2>4. CASE FinalDrain
    <3>1. \A s \in Submission : Settles(s)
      BY <2>4, <1>4 DEF FinalDrain, Queued
    <3>2. ToSet(submissions') = {}
      BY <2>4 DEF FinalDrain, ToSet
    <3> QED  BY <2>4, <3>1, <3>2, <1>1 DEF FinalDrain, Queued, Grows
  <2>5. CASE GatherEnds \/ DrainEnds \/ Finish \/ Stop
    BY <2>5, <1>1, <1>2, <1>3 DEF GatherEnds, DrainEnds, Finish, Stop
  <2> QED  BY <1>7, <2>1, <2>2, <2>3, <2>4, <2>5 DEF RunnerStep, Receive,
              Gather, Drain
<1>8. CASE RunCancelled \/ GraceExpires \/ UNCHANGED vars
  BY <1>8, <1>1, <1>2, <1>3 DEF RunCancelled, GraceExpires, vars
<1>9. ASSUME NEW w \in Worker, WorkerStep(w) PROVE EnteredInv'
  <2>1. ASSUME jobs # <<>>, jobs' = Tail(jobs), UNCHANGED <<submissions, requests>>
        PROVE  /\ \A s \in Queued' : Grows(s)
               /\ Head(jobs) \subseteq Queued
    <3>1. ToSet(jobs') \subseteq ToSet(jobs) /\ Head(jobs) \in ToSet(jobs)
      BY <2>1, ToSetTail DEF TypeOK
    <3> QED  BY <2>1, <3>1 DEF Queued, Grows
  <2>2. CASE FailJob(w)
    BY <2>1, <2>2, <1>1, <1>4 DEF FailJob
  <2>3. CASE Claim(w)
    <3>1. \A s \in Submission : state'[s] # state[s] => s \in Head(jobs)
      BY <2>3 DEF Claim, Unclaimed
    <3>2. \A s \in Submission : Settles(s)
      BY <2>1, <2>3, <3>1 DEF Claim, Settles
    <3> QED  BY <2>1, <2>3, <3>2, <1>1 DEF Claim
  <2> QED  BY <1>9, <2>2, <2>3, <1>1, <1>2, <1>3 DEF WorkerStep, CommitSucceeds,
              CommitFails, RetryCancelled, WorkerExits
<1> QED  BY <1>5, <1>6, <1>7, <1>8, <1>9 DEF Next

(***************************************************************************)
(* A request dropped before its commit started, refused, or never queued   *)
(* is in no batch directory: only claimed submissions are ever published,  *)
(* and a claim never takes one that was abandoned.                         *)
(***************************************************************************)
THEOREM DroppedNeverWritten == Spec => []DroppedIsNeverWritten
<1>1. TypeOK /\ CommitInv /\ EnteredInv => DroppedIsNeverWritten
  <2> SUFFICES ASSUME TypeOK, CommitInv, EnteredInv, NEW s \in Stored
               PROVE  /\ state[s] = "claimed"
                      /\ caller[s] \notin {"idle", "enqueueing", "sending", "refused"}
    BY DEF DroppedIsNeverWritten
  <2>1. PICK id \in DOMAIN published : s \in published[id]
    BY DEF Stored
  <2>2. state[s] = "claimed" /\ s \in Submission
    BY <2>1 DEF CommitInv, OnlyClaimed, TypeOK
  <2> QED  BY <2>2 DEF EnteredInv, Entered
<1> QED  BY <1>1, TypeCorrect, InitCommitInv, NextCommitInv, InitEntered,
            NextEntered, PTL DEF Spec
-----------------------------------------------------------------------------
(***************************************************************************)
(* The byte ledger.  What a set of submissions costs is additive; every    *)
(* step of the writer charges one export reserve admitted or releases a    *)
(* part of what is charged; and so the ledger is exact and its excess is   *)
(* one export.                                                             *)
(***************************************************************************)
LEMMA BytesOfFinite ==
  ASSUME NEW S \in SUBSET Submission
  PROVE  IsFiniteSet(BytesOf(S))
<1> DEFINE T == {{s} \X (1..Bytes[s]) : s \in S}
           f == [s \in S |-> {s} \X (1..Bytes[s])]
<1>1. f \in Surjection(S, T)
  BY DEF Surjection
<1>2. IsFiniteSet(S)
  BY FS_Subset, WriterAssumption
<1>3. IsFiniteSet(T)
  <2> HIDE DEF f, T
  <2> QED  BY <1>1, <1>2, FS_Surjection
<1>4. \A t \in T : IsFiniteSet(t)
  <2> SUFFICES ASSUME NEW s \in S PROVE IsFiniteSet({s} \X (1..Bytes[s]))
    OBVIOUS
  <2>1. IsFiniteSet({s})
    BY FS_Singleton
  <2>2. IsFiniteSet(1..Bytes[s])
    BY FS_Interval, WriterAssumption
  <2> QED  BY <2>1, <2>2, FS_Product
<1> QED  BY <1>3, <1>4, FS_UNION DEF BytesOf

(* Disjoint sets add up. *)
LEMMA CostUnion ==
  ASSUME NEW S \in SUBSET Submission, NEW T \in SUBSET Submission, S \cap T = {}
  PROVE  /\ Cost(S) \in Nat /\ Cost(T) \in Nat
         /\ Cost(S \cup T) = Cost(S) + Cost(T)
<1>1. BytesOf(S \cup T) = BytesOf(S) \cup BytesOf(T)
  BY DEF BytesOf
<1>2. BytesOf(S) \cap BytesOf(T) = {}
  BY DEF BytesOf
<1>3. IsFiniteSet(BytesOf(S)) /\ IsFiniteSet(BytesOf(T))
  BY BytesOfFinite
<1>4. /\ Cardinality(BytesOf(S)) \in Nat /\ Cardinality(BytesOf(T)) \in Nat
      /\ Cardinality(BytesOf(S) \cap BytesOf(T)) = 0
  BY <1>2, <1>3, FS_CardinalityType, FS_EmptySet
<1>5. Cardinality(BytesOf(S \cup T)) =
        Cardinality(BytesOf(S)) + Cardinality(BytesOf(T))
          - Cardinality(BytesOf(S) \cap BytesOf(T))
  BY Zenon, <1>1, <1>3, FS_Union
<1> QED  BY <1>4, <1>5 DEF Cost

LEMMA CostType ==
  ASSUME NEW S \in SUBSET Submission
  PROVE  Cost(S) \in Nat
BY BytesOfFinite, FS_CardinalityType DEF Cost

LEMMA CostOfOne ==
  ASSUME NEW s \in Submission
  PROVE  Cost({s}) = IF Budget = 0 THEN 0 ELSE Bytes[s]
<1>1. BytesOf({s}) = {s} \X (1..Bytes[s])
  BY DEF BytesOf
<1>2. IsFiniteSet({s}) /\ Cardinality({s}) = 1
  BY FS_Singleton
<1>3. /\ Bytes[s] \in Nat /\ IsFiniteSet(1..Bytes[s])
      /\ Cardinality(1..Bytes[s]) = Bytes[s]
  BY FS_Interval, WriterAssumption
<1>4. Cardinality({s} \X (1..Bytes[s])) = Cardinality({s}) * Cardinality(1..Bytes[s])
  BY Zenon, <1>2, <1>3, FS_Product
<1>5. 1 * Bytes[s] = Bytes[s]
  BY <1>3
<1> QED  BY <1>1, <1>2, <1>3, <1>4, <1>5 DEF Cost

(* Under a budget, only submissions without bytes are free. *)
LEMMA CostIsZero ==
  ASSUME NEW S \in SUBSET Submission, Budget # 0
  PROVE  Cost(S) = 0 <=> \A s \in S : Bytes[s] = 0
<1>1. Cost(S) = 0 <=> BytesOf(S) = {}
  BY BytesOfFinite, FS_EmptySet DEF Cost
<1>2. ASSUME BytesOf(S) = {}, NEW s \in S PROVE Bytes[s] = 0
  <2>1. <<s, 1>> \notin {s} \X (1..Bytes[s])
    BY <1>2 DEF BytesOf
  <2> QED  BY <2>1, WriterAssumption
<1>3. ASSUME \A s \in S : Bytes[s] = 0 PROVE BytesOf(S) = {}
  BY <1>3 DEF BytesOf
<1> QED  BY <1>1, <1>2, <1>3

LEMMA CostOfNone == Cost({}) = 0
BY FS_EmptySet DEF Cost, BytesOf

InQueue == ToSet(submissions) \cup Held \cup InJobs
Sending == {s \in Submission : caller[s] \in {"enqueueing", "sending"}}

(* What EnteredInv and CommitInv say of the three ways to be charged. *)
ChargedApart ==
  /\ InQueue \subseteq Submission
  /\ InQueue \cap Sending = {}
  /\ \A s \in Sending : s \in Submission /\ state[s] = "queued"
  /\ \A s \in InCommit : s \in Submission /\ state[s] = "claimed" /\ s \notin Sending
  /\ Charged = Sending \cup {s \in InQueue : state[s] = "queued"} \cup InCommit

LEMMA ApartHolds == TypeOK /\ CommitInv /\ EnteredInv => ChargedApart
<1> SUFFICES ASSUME TypeOK, CommitInv, EnteredInv PROVE ChargedApart  OBVIOUS
<1>1. \A s \in InQueue : s \in Submission /\ Entered(s)
  <2>1. /\ ToSet(submissions) \subseteq Submission /\ ToSet(requests) \subseteq Submission
        /\ \A job \in ToSet(jobs) : job \subseteq Submission
    BY ToSetType DEF TypeOK
  <2> QED  BY <2>1 DEF InQueue, Held, InJobs, EnteredInv
<1>2. \A s \in InCommit : s \in Submission /\ state[s] = "claimed"
  BY DEF InCommit, CommitInv, OnlyClaimed, TypeOK, WorkerState
<1>3. \A s \in Submission : state[s] # "queued" => Entered(s)
  BY DEF EnteredInv
<1>4. \A s \in Sending : s \in Submission /\ ~Entered(s)
  BY DEF Sending, Entered
<1>5. \A s \in Sending : state[s] = "queued"
  BY <1>3, <1>4
<1>6. \A s \in InCommit : s \notin Sending
  BY <1>2, <1>3, <1>4
<1>7. Charged = Sending \cup {s \in InQueue : state[s] = "queued"} \cup InCommit
  BY <1>1, <1>2 DEF Charged, Sending, InQueue
<1> QED  BY <1>1, <1>2, <1>4, <1>5, <1>6, <1>7 DEF ChargedApart

(* A caller that waits is answered by whoever holds its submission. *)
WaitingIsHeld ==
  \A s \in Submission : caller[s] = "waiting" /\ state[s] = "queued" => s \in InQueue

Charges(s) ==
  /\ s \notin Charged /\ Admits(s)
  /\ Charged' = Charged \cup {s}
  /\ ledger' = ledger + Cost({s})

Releases(R) ==
  /\ Charged' = Charged \ R
  /\ ledger' = ledger - Cost(R)

Books == \/ \E s \in Submission : Charges(s)
         \/ \E R \in SUBSET Charged : Releases(R)
(* Settling queued submissions releases them, whoever does it: the caller,  *)
(* the gatherer, a shutdown or a cancelled worker.                          *)
LEMMA Settling ==
  ASSUME ChargedApart, ChargedApart', WaitingIsHeld, LedgerExact,
         NEW S \in SUBSET Submission, Unclaimed(S) \subseteq InQueue,
         InCommit' = InCommit, Sending' = Sending, InQueue' \subseteq InQueue,
         \A s \in Submission : caller'[s] = "waiting" => caller[s] = "waiting",
         \A s \in Submission : IF s \in Unclaimed(S) THEN state'[s] # "queued"
                                                     ELSE state'[s] = state[s],
         \A s \in InQueue \ InQueue' : state'[s] # "queued",
         ledger' = ledger - Cost(Unclaimed(S))
  PROVE  Books /\ WaitingIsHeld'
<1>1. Unclaimed(S) \subseteq Charged /\ Charged \subseteq Submission
  BY DEF ChargedApart, Unclaimed, Charged
<1>2. \A s \in Sending \cup InCommit : s \notin Unclaimed(S)
  BY DEF ChargedApart, Unclaimed
<1>3. \A s \in InQueue : state'[s] = "queued" <=> state[s] = "queued" /\ s \notin Unclaimed(S)
  BY DEF ChargedApart, Unclaimed
<1>4. {s \in InQueue' : state'[s] = "queued"} =
        {s \in InQueue : state[s] = "queued"} \ Unclaimed(S)
  BY <1>3
<1>5. Charged' = Sending' \cup {s \in InQueue' : state'[s] = "queued"} \cup InCommit'
  BY DEF ChargedApart
<1>6. Charged = Sending \cup {s \in InQueue : state[s] = "queued"} \cup InCommit
  BY DEF ChargedApart
<1>7. Charged' = Charged \ Unclaimed(S)
  <2> HIDE DEF Unclaimed, Charged, Sending, InQueue, InCommit
  <2> QED  BY <1>2, <1>4, <1>5, <1>6
<1>8. Releases(Unclaimed(S))
  BY <1>7 DEF Releases
<1>9. WaitingIsHeld'
  BY <1>3 DEF WaitingIsHeld, Unclaimed
<1> QED  BY <1>1, <1>8, <1>9 DEF Books

(* A step that settles nobody, and leaves every charged submission charged. *)
LEMMA Standing ==
  ASSUME ChargedApart, ChargedApart', WaitingIsHeld, LedgerExact,
         InCommit' = InCommit, Sending' = Sending, InQueue' = InQueue,
         \A s \in Submission : caller'[s] = "waiting" => caller[s] = "waiting",
         UNCHANGED <<state, ledger>>
  PROVE  Books /\ WaitingIsHeld'
<1>1. Unclaimed({}) = {}
  BY DEF Unclaimed
<1>2. ledger' = ledger - Cost({})
  <2>1. Charged \in SUBSET Submission
    BY DEF Charged
  <2>2. ledger \in Nat
    BY <2>1, CostType DEF LedgerExact
  <2> QED  BY <2>2, CostOfNone
<1> QED  BY <1>1, <1>2, Settling
Consistent == TypeOK /\ CommitInv /\ EnteredInv

LEMMA ConsistentStays == Consistent /\ [Next]_vars => Consistent'
BY NextTypeOK, NextCommitInv, NextEntered DEF Consistent

LEMMA CallerBooks ==
  ASSUME Consistent, ChargedApart, ChargedApart', WaitingIsHeld, LedgerExact,
         NEW s \in Submission, Submit(s) \/ CallerStep(s)
  PROVE  Books /\ WaitingIsHeld'
<1> USE DEF Consistent
<1>1. ASSUME UNCHANGED <<submissions, requests, jobs>> PROVE InQueue' = InQueue
  BY <1>1 DEF InQueue, Held, InJobs
<1>2. ASSUME UNCHANGED worker PROVE InCommit' = InCommit
  BY <1>2 DEF InCommit
<1>3. ASSUME UNCHANGED <<submissions, requests, jobs, worker, state>>,
             s \in Sending, Sending' = Sending \ {s}, ledger' = ledger - Cost({s}),
             \A t \in Submission : caller'[t] = "waiting" => caller[t] = "waiting"
      PROVE  Books /\ WaitingIsHeld'
  <2>1. InQueue' = InQueue /\ InCommit' = InCommit
    BY <1>1, <1>2, <1>3
  <2>2. s \in Charged /\ s \notin InQueue /\ s \notin InCommit
    BY <1>3 DEF ChargedApart
  <2>3. Charged' = Charged \ {s}
    <3>1. {t \in InQueue' : state'[t] = "queued"} = {t \in InQueue : state[t] = "queued"}
      BY <1>3, <2>1
    <3> QED  BY <1>3, <2>1, <2>2, <3>1 DEF ChargedApart
  <2>4. Releases({s})
    BY <1>3, <2>3 DEF Releases
  <2>5. WaitingIsHeld'
    BY <1>3, <2>1 DEF WaitingIsHeld
  <2> QED  BY <2>2, <2>4, <2>5 DEF Books
<1>4. CASE Submit(s)
  <2>1. UNCHANGED <<submissions, requests, jobs, worker, state>>
    BY <1>4 DEF Submit
  <2>2. InQueue' = InQueue /\ InCommit' = InCommit
    BY <2>1, <1>1, <1>2
  <2>3. \A t \in Submission : caller'[t] = "waiting" => caller[t] = "waiting"
    BY <1>4 DEF Submit, Move, TypeOK
  <2>4. CASE Move(s, "idle", "refused") /\ UNCHANGED ledger
    <3>1. Sending' = Sending
      BY <2>4 DEF Sending, Move, TypeOK
    <3> QED  BY <2>1, <2>2, <2>3, <2>4, <3>1, Standing
  <2>5. CASE Admits(s) /\ Move(s, "idle", "enqueueing") /\ ledger' = ledger + Cost({s})
    <3>1. Sending' = Sending \cup {s}
      BY <2>5 DEF Sending, Move, TypeOK
    <3>2. s \notin Charged
      <4>1. ~Entered(s) /\ s \notin Sending
        BY <2>5 DEF Move, Entered, Sending
      <4>2. s \notin InQueue
        BY <4>1 DEF InQueue, Held, InJobs, EnteredInv
      <4>3. s \notin InCommit
        BY <4>1 DEF ChargedApart, EnteredInv
      <4> QED  BY <4>1, <4>2, <4>3 DEF ChargedApart
    <3>3. Charged' = Charged \cup {s}
      <4>1. {t \in InQueue' : state'[t] = "queued"} = {t \in InQueue : state[t] = "queued"}
        BY <2>1, <2>2
      <4> QED  BY <2>2, <3>1, <4>1 DEF ChargedApart
    <3>4. Charges(s)
      BY <2>5, <3>2, <3>3 DEF Charges
    <3>5. WaitingIsHeld'
      BY <2>1, <2>2, <2>3 DEF WaitingIsHeld
    <3> QED  BY <3>4, <3>5 DEF Books
  <2> QED  BY <1>4, <2>4, <2>5 DEF Submit
<1>5. CASE EnterEnqueue(s)
  <2>1. CASE Move(s, "enqueueing", "failed") /\ ledger' = ledger - Cost({s})
    <3>1. s \in Sending /\ Sending' = Sending \ {s}
      BY <2>1 DEF Sending, Move, TypeOK
    <3> QED  BY <1>5, <2>1, <3>1, <1>3 DEF EnterEnqueue, Move, TypeOK
  <2>2. CASE Move(s, "enqueueing", "sending") /\ UNCHANGED ledger
    <3>1. Sending' = Sending
      BY <2>2 DEF Sending, Move, TypeOK
    <3>2. \A t \in Submission : caller'[t] = "waiting" => caller[t] = "waiting"
      BY <2>2 DEF Move, TypeOK
    <3> QED  BY <1>5, <2>2, <3>1, <3>2, <1>1, <1>2, Standing DEF EnterEnqueue
  <2> QED  BY <1>5, <2>1, <2>2 DEF EnterEnqueue
<1>6. CASE Send(s)
  <2>1. ToSet(submissions') = ToSet(submissions) \cup {s}
    BY <1>6, ToSetAppend DEF Send, TypeOK
  <2>2. InQueue' = InQueue \cup {s} /\ InCommit' = InCommit
    BY <1>6, <2>1, <1>2 DEF Send, InQueue, Held, InJobs
  <2>3. s \in Sending /\ Sending' = Sending \ {s}
    BY <1>6 DEF Send, Move, Sending, TypeOK
  <2>4. state[s] = "queued" /\ UNCHANGED <<state, ledger>>
    BY <1>6, <2>3 DEF Send, ChargedApart
  <2>5. Charged' = Charged \ {}
    <3>1. {t \in InQueue' : state'[t] = "queued"} =
            {t \in InQueue : state[t] = "queued"} \cup {s}
      BY <2>2, <2>4
    <3> QED  BY <2>2, <2>3, <3>1 DEF ChargedApart
  <2>6. Releases({})
    <3>1. Charged \in SUBSET Submission
      BY DEF Charged
    <3>2. ledger \in Nat
      BY <3>1, CostType DEF LedgerExact
    <3> QED  BY <2>4, <2>5, <3>2, CostOfNone DEF Releases
  <2>7. WaitingIsHeld'
    BY <1>6, <2>2, <2>4 DEF WaitingIsHeld, Send, Move, TypeOK
  <2> QED  BY <2>6, <2>7 DEF Books
<1>7. CASE SendRefused(s)
  <2>1. s \in Sending /\ Sending' = Sending \ {s}
    BY <1>7 DEF SendRefused, Sending, Move, TypeOK
  <2>2. \A t \in Submission : caller'[t] = "waiting" => caller[t] = "waiting"
    BY <1>7 DEF SendRefused, Move, TypeOK
  <2> QED  BY <1>7, <2>1, <2>2, <1>3 DEF SendRefused
<1>8. CASE ReceiveAck(s) \/ WriterGone(s)
  <2>1. Sending' = Sending
    BY <1>8 DEF ReceiveAck, WriterGone, Sending, Move, TypeOK
  <2>2. \A t \in Submission : caller'[t] = "waiting" => caller[t] = "waiting"
    BY <1>8 DEF ReceiveAck, WriterGone, Move, TypeOK
  <2> QED  BY <1>8, <2>1, <2>2, <1>1, <1>2, Standing DEF ReceiveAck, WriterGone
<1>9. CASE GiveUp(s)
  <2>1. Sending' = Sending
    BY <1>9 DEF GiveUp, Sending, Move, TypeOK
  <2>2. \A t \in Submission : caller'[t] = "waiting" => caller[t] = "waiting"
    BY <1>9 DEF GiveUp, Move, TypeOK
  <2>3. Unclaimed({s}) \subseteq InQueue
    BY <1>9 DEF GiveUp, Move, Unclaimed, WaitingIsHeld
  <2>4. InQueue' = InQueue /\ InCommit' = InCommit
    BY <1>9, <1>1, <1>2 DEF GiveUp
  <2>5. \A t \in Submission : IF t \in Unclaimed({s}) THEN state'[t] # "queued"
                                                      ELSE state'[t] = state[t]
    BY <1>9 DEF GiveUp, Abandon
  <2>6. ledger' = ledger - Cost(Unclaimed({s}))
    BY <1>9 DEF GiveUp, Abandon
  <2> QED  BY <2>1, <2>2, <2>3, <2>4, <2>5, <2>6, Settling
<1> QED  BY <1>4, <1>5, <1>6, <1>7, <1>8, <1>9 DEF CallerStep
LEMMA RunnerBooks ==
  ASSUME Consistent, ChargedApart, ChargedApart', WaitingIsHeld, LedgerExact,
         RunnerStep
  PROVE  Books /\ WaitingIsHeld'
<1> USE DEF Consistent
<1>1. UNCHANGED <<callerVars, worker>>
  BY DEF RunnerStep, Receive, Gather, GatherEnds, Drain, DrainEnds, Dispatch,
     AbortGroup, Finish, Stop, FinalDrain
<1>2. /\ InCommit' = InCommit /\ Sending' = Sending
      /\ \A s \in Submission : caller'[s] = "waiting" => caller[s] = "waiting"
  BY <1>1 DEF InCommit, Sending
<1>3. /\ ToSet(submissions) \subseteq Submission /\ ToSet(requests) \subseteq Submission
      /\ submissions \in Seq(Submission) /\ requests \in Seq(Submission)
      /\ jobs \in Seq(SUBSET Submission)
  BY ToSetType DEF TypeOK
<1>4. ASSUME TakeNext, UNCHANGED jobs PROVE Books /\ WaitingIsHeld'
  <2> DEFINE s == Head(submissions)
             S == IF ctxDone[s] THEN {s} ELSE {}
  <2>1. /\ s \in Submission /\ s \in ToSet(submissions)
        /\ ToSet(submissions') \subseteq ToSet(submissions)
        /\ ToSet(submissions) \subseteq ToSet(submissions') \cup {s}
    <3>1. submissions # <<>> /\ submissions' = Tail(submissions)
      BY <1>4 DEF TakeNext
    <3> QED  BY <3>1, <1>3, ToSetTail, ToSetHeadTail
  <2>2. /\ \A t \in Submission : IF t \in Unclaimed(S) THEN state'[t] # "queued"
                                                       ELSE state'[t] = state[t]
        /\ ledger' = ledger - Cost(Unclaimed(S))
    <3>1. CASE ctxDone[s]
      <4>1. S = {s} /\ Abandon({s})
        BY <3>1, <1>4 DEF TakeNext
      <4> HIDE DEF S
      <4> QED  BY <4>1 DEF Abandon
    <3>2. CASE ~ctxDone[s]
      <4>1. Unclaimed(S) = {}
        BY <3>2 DEF Unclaimed
      <4>2. UNCHANGED <<state, ledger>>
        BY <3>2, <1>4 DEF TakeNext
      <4>3. Charged \in SUBSET Submission
        BY DEF Charged
      <4>4. ledger \in Nat
        BY <4>3, CostType DEF LedgerExact
      <4> HIDE DEF S
      <4> QED  BY <4>1, <4>2, <4>4, CostOfNone
    <3> QED  BY <3>1, <3>2
  <2>3. CASE state'[s] = "abandoned"
    <3>1. requests' = requests
      BY <2>3, <1>4 DEF TakeNext
    <3>2. InQueue' \subseteq InQueue /\ InQueue \subseteq InQueue' \cup {s}
      BY <3>1, <2>1, <1>4 DEF InQueue, Held, InJobs
    <3>3. \A t \in InQueue \ InQueue' : state'[t] # "queued"
      BY <3>2, <2>3
    <3>4. Unclaimed(S) \subseteq InQueue
      BY <2>1 DEF Unclaimed, InQueue
    <3> QED  BY <3>2, <3>3, <3>4, <2>1, <2>2, <1>2, Settling
  <2>4. CASE state'[s] # "abandoned"
    <3>1. ToSet(requests') = ToSet(requests) \cup {s}
      BY <2>1, <2>4, <1>3, <1>4, ToSetAppend DEF TakeNext
    <3>2. InQueue' = InQueue
      BY <3>1, <2>1, <1>4 DEF InQueue, Held, InJobs
    <3>3. Unclaimed(S) \subseteq InQueue
      BY <2>1 DEF Unclaimed, InQueue
    <3> QED  BY <3>2, <3>3, <2>1, <2>2, <1>2, Settling
  <2> QED  BY <2>3, <2>4
<1>5. CASE Dispatch
  <2>1. CASE requests = <<>> /\ UNCHANGED <<requests, jobs>>
    BY <2>1, <1>2, <1>5, Standing DEF Dispatch, InQueue, Held, InJobs
  <2>2. ASSUME NEW n \in 1..Len(requests),
               jobs' = Append(jobs, ToSet(SubSeq(requests, 1, n))),
               requests' = SubSeq(requests, n + 1, Len(requests))
        PROVE  Books /\ WaitingIsHeld'
    <3>1. ToSet(requests) = ToSet(SubSeq(requests, 1, n)) \cup ToSet(requests')
      BY <2>2, <1>3, ToSetSplit
    <3>2. ToSet(jobs') = ToSet(jobs) \cup {ToSet(SubSeq(requests, 1, n))}
      <4>1. ToSet(SubSeq(requests, 1, n)) \in SUBSET Submission
        BY <3>1, <1>3
      <4> QED  BY <4>1, <2>2, <1>3, ToSetAppend
    <3>3. InQueue' = InQueue
      BY <3>1, <3>2, <1>5 DEF Dispatch, InQueue, Held, InJobs
    <3> QED  BY <3>3, <1>2, <1>5, Standing DEF Dispatch
  <2> QED  BY <1>5, <2>1, <2>2 DEF Dispatch
<1>6. CASE AbortGroup
  <2>1. InQueue' \subseteq InQueue /\ InQueue \subseteq InQueue' \cup Held
    BY <1>6 DEF AbortGroup, InQueue, Held, InJobs, ToSet
  <2>2. Held \in SUBSET Submission /\ Unclaimed(Held) \subseteq InQueue
    BY <1>3 DEF Held, Unclaimed, InQueue
  <2>3. /\ \A t \in Submission : IF t \in Unclaimed(Held) THEN state'[t] # "queued"
                                                          ELSE state'[t] = state[t]
        /\ ledger' = ledger - Cost(Unclaimed(Held))
    BY <1>6 DEF AbortGroup, Fail
  <2>4. \A t \in InQueue \ InQueue' : state'[t] # "queued"
    BY <2>1, <2>2, <2>3 DEF Unclaimed
  <2> QED  BY <2>1, <2>2, <2>3, <2>4, <1>2, Settling
<1>7. CASE FinalDrain
  <2>1. InQueue' \subseteq InQueue /\ InQueue \subseteq InQueue' \cup ToSet(submissions)
    BY <1>7 DEF FinalDrain, InQueue, Held, InJobs, ToSet
  <2>2. /\ ToSet(submissions) \in SUBSET Submission
        /\ Unclaimed(ToSet(submissions)) \subseteq InQueue
    BY <1>3 DEF Unclaimed, InQueue
  <2>3. /\ \A t \in Submission :
             IF t \in Unclaimed(ToSet(submissions)) THEN state'[t] # "queued"
                                                    ELSE state'[t] = state[t]
        /\ ledger' = ledger - Cost(Unclaimed(ToSet(submissions)))
    BY <1>7 DEF FinalDrain, Fail
  <2>4. \A t \in InQueue \ InQueue' : state'[t] # "queued"
    BY <2>1, <2>2, <2>3 DEF Unclaimed
  <2> QED  BY <2>1, <2>2, <2>3, <2>4, <1>2, Settling
<1>8. CASE GatherEnds \/ DrainEnds \/ Finish \/ Stop
  BY <1>2, <1>8, Standing DEF GatherEnds, DrainEnds, Finish, Stop, InQueue, Held, InJobs
<1> QED  BY <1>4, <1>5, <1>6, <1>7, <1>8 DEF RunnerStep, Receive, Gather, Drain

LEMMA WorkerBooks ==
  ASSUME Consistent, ChargedApart, ChargedApart', WaitingIsHeld, LedgerExact,
         NEW w \in Worker, WorkerStep(w)
  PROVE  Books /\ WaitingIsHeld'
<1> USE DEF Consistent
<1>1. UNCHANGED <<callerVars, submissions, requests>>
  BY DEF WorkerStep, FailJob, Claim, CommitSucceeds, CommitFails, RetryCancelled, WorkerExits
<1>2. /\ Sending' = Sending
      /\ \A s \in Submission : caller'[s] = "waiting" => caller[s] = "waiting"
  BY <1>1 DEF Sending
<1>3. ASSUME jobs # <<>>, jobs' = Tail(jobs)
      PROVE  /\ Head(jobs) \in SUBSET Submission /\ Head(jobs) \subseteq InQueue
             /\ InQueue' \subseteq InQueue /\ InQueue \subseteq InQueue' \cup Head(jobs)
  <2>1. jobs \in Seq(SUBSET Submission)
    BY DEF TypeOK
  <2>2. /\ Head(jobs) \in SUBSET Submission /\ Head(jobs) \in ToSet(jobs)
        /\ ToSet(jobs') \subseteq ToSet(jobs)
        /\ ToSet(jobs) \subseteq ToSet(jobs') \cup {Head(jobs)}
    BY <1>3, <2>1, ToSetTail, ToSetHeadTail
  <2> QED  BY <2>2, <1>1 DEF InQueue, Held, InJobs
<1>4. CASE FailJob(w)
  <2> DEFINE S == Head(jobs)
  <2>1. /\ S \in SUBSET Submission /\ S \subseteq InQueue
        /\ InQueue' \subseteq InQueue /\ InQueue \subseteq InQueue' \cup S
    BY <1>3, <1>4 DEF FailJob
  <2>2. /\ \A t \in Submission : IF t \in Unclaimed(S) THEN state'[t] # "queued"
                                                       ELSE state'[t] = state[t]
        /\ ledger' = ledger - Cost(Unclaimed(S))
    BY <1>4 DEF FailJob, Fail
  <2>3. InCommit' = InCommit
    BY <1>4 DEF FailJob, InCommit
  <2> HIDE DEF S
  <2>4. \A t \in InQueue \ InQueue' : state'[t] # "queued"
    BY <2>1, <2>2 DEF Unclaimed
  <2>5. Unclaimed(S) \subseteq InQueue
    BY <2>1 DEF Unclaimed
  <2> QED  BY <2>1, <2>2, <2>3, <2>4, <2>5, <1>2, Settling
<1>5. CASE Claim(w)
  <2> DEFINE S == Head(jobs)
             gone == {s \in S : ctxDone[s]}
             live == Unclaimed(S \ gone)
             left == Unclaimed(gone)
  <2>1. /\ S \in SUBSET Submission /\ S \subseteq InQueue
        /\ InQueue' \subseteq InQueue /\ InQueue \subseteq InQueue' \cup S
    BY <1>3, <1>5 DEF Claim
  <2>2. /\ \A t \in Submission : state'[t] = IF t \in live THEN "claimed"
                                             ELSE IF t \in left THEN "abandoned"
                                             ELSE state[t]
        /\ ledger' = ledger - Cost(left)
    BY <1>5 DEF Claim
  <2>3. InCommit' = InCommit \cup live
    <3>1. worker[w].job = {}
      BY <1>5 DEF Claim, CommitInv, JobsPrivate
    <3>2. CASE live = {}
      BY <3>2, <1>5 DEF Claim, InCommit
    <3>3. CASE live # {}
      <4>1. \A v \in Worker : worker'[v].job = IF v = w THEN live ELSE worker[v].job
        BY <3>3, <1>5 DEF Claim, TypeOK
      <4> HIDE DEF live
      <4> QED  BY <3>1, <4>1 DEF InCommit
    <3> QED  BY <3>2, <3>3
  <2>4. live \subseteq InQueue /\ left \subseteq InQueue /\ live \cap left = {}
    BY <2>1 DEF Unclaimed
  <2>5. \A t \in live \cup left : state[t] = "queued"
    BY DEF Unclaimed
  <2>6. \A t \in S : t \in live \cup left \/ state[t] # "queued"
    BY DEF Unclaimed
  <2> HIDE DEF S, gone, live, left
  <2>7. {t \in InQueue' : state'[t] = "queued"} =
          {t \in InQueue : state[t] = "queued"} \ (live \cup left)
    BY <2>1, <2>2, <2>4, <2>6 DEF ChargedApart
  <2>8. left \subseteq Charged /\ Charged' = Charged \ left
    <3>1. \A t \in live \cup left : t \notin InCommit /\ t \notin Sending /\ t \in InQueue
      BY <2>4, <2>5 DEF ChargedApart
    <3>2. Charged = Sending \cup {s \in InQueue : state[s] = "queued"} \cup InCommit
      BY DEF ChargedApart
    <3>3. Charged' = Sending \cup ({s \in InQueue : state[s] = "queued"} \ (live \cup left))
                       \cup InCommit \cup live
      BY <2>3, <2>7, <1>2 DEF ChargedApart
    <3> HIDE DEF Charged, Sending, InQueue, InCommit
    <3> QED  BY <2>4, <2>5, <3>1, <3>2, <3>3
  <2>9. Releases(left)
    BY <2>2, <2>8 DEF Releases
  <2>10. WaitingIsHeld'
    BY <2>1, <2>2, <2>6, <1>2 DEF WaitingIsHeld
  <2> QED  BY <2>8, <2>9, <2>10 DEF Books
<1>6. ASSUME worker' = [worker EXCEPT ![w] = NoJob], ledger' = ledger - Cost(worker[w].job),
             UNCHANGED <<state, jobs>>
      PROVE  Books /\ WaitingIsHeld'
  <2>1. InQueue' = InQueue
    BY <1>1, <1>6 DEF InQueue, Held, InJobs
  <2>2. InCommit' = InCommit \ worker[w].job
    <3>1. \A v \in Worker : worker'[v].job = IF v = w THEN {} ELSE worker[v].job
      BY <1>6 DEF TypeOK, NoJob
    <3>2. \A v \in Worker : v # w => worker[v].job \cap worker[w].job = {}
      BY DEF CommitInv, JobsPrivate
    <3> QED  BY <3>1, <3>2 DEF InCommit
  <2>3. worker[w].job \subseteq InCommit
    BY DEF InCommit
  <2> DEFINE R == worker[w].job
  <2>4. {t \in InQueue' : state'[t] = "queued"} = {t \in InQueue : state[t] = "queued"}
    BY <1>6, <2>1
  <2>5. R \subseteq Charged /\ Charged' = Charged \ R
    <3>1. \A t \in R : t \notin Sending /\ state[t] # "queued"
      BY <2>3 DEF ChargedApart
    <3>2. Charged = Sending \cup {s \in InQueue : state[s] = "queued"} \cup InCommit
      BY DEF ChargedApart
    <3>3. Charged' = Sending \cup {s \in InQueue : state[s] = "queued"} \cup (InCommit \ R)
      BY <2>2, <2>4, <1>2 DEF ChargedApart
    <3> HIDE DEF Charged, Sending, InQueue, InCommit, R
    <3> QED  BY <2>3, <3>1, <3>2, <3>3 DEF R
  <2>6. Releases(R)
    BY <1>6, <2>5 DEF Releases
  <2>7. WaitingIsHeld'
    BY <1>2, <1>6, <2>1 DEF WaitingIsHeld
  <2> QED  BY <2>5, <2>6, <2>7 DEF Books
<1>7. ASSUME \A v \in Worker : worker'[v].job = worker[v].job, UNCHANGED <<state, jobs, ledger>>
      PROVE  Books /\ WaitingIsHeld'
  <2>1. InQueue' = InQueue /\ InCommit' = InCommit
    BY <1>1, <1>7 DEF InQueue, Held, InJobs, InCommit
  <2> QED  BY <2>1, <1>2, <1>7, Standing
<1>8. CASE CommitSucceeds(w) \/ RetryCancelled(w)
  BY <1>6, <1>8 DEF CommitSucceeds, RetryCancelled, Settle
<1>9. CASE CommitFails(w)
  <2>1. CASE Retry(w)
    <3>1. \A v \in Worker : worker'[v].job = worker[v].job
      BY <2>1 DEF Retry, TypeOK, WorkerState
    <3> QED  BY <1>7, <1>9, <2>1, <3>1 DEF CommitFails, Retry
  <2>2. CASE Exhausted(w)
    BY <1>6, <1>9, <2>2 DEF CommitFails, Exhausted, Settle
  <2> QED  BY <1>9, <2>1, <2>2 DEF CommitFails
<1>10. CASE WorkerExits(w)
  <2>1. \A v \in Worker : worker'[v].job = worker[v].job
    BY <1>10 DEF WorkerExits, TypeOK, WorkerState
  <2> QED  BY <1>7, <1>10, <2>1 DEF WorkerExits
<1> QED  BY <1>4, <1>5, <1>8, <1>9, <1>10 DEF WorkerStep
(***************************************************************************)
(* Every step of the writer charges one export reserve admitted, or        *)
(* releases a part of what is charged.                                     *)
(***************************************************************************)
LEMMA NextBooks ==
  Consistent /\ WaitingIsHeld /\ LedgerExact /\ [Next]_vars => Books /\ WaitingIsHeld'
<1> SUFFICES ASSUME Consistent, WaitingIsHeld, LedgerExact, [Next]_vars
             PROVE  Books /\ WaitingIsHeld'
  OBVIOUS
<1>1. ChargedApart
  BY ApartHolds DEF Consistent
<1>2. ChargedApart'
  <2>1. TypeOK' /\ CommitInv' /\ EnteredInv'
    BY ConsistentStays DEF Consistent
  <2> QED  BY <2>1, ApartHolds, PTL
<1>3. ASSUME NEW s \in Submission, Submit(s) \/ CallerStep(s) PROVE Books /\ WaitingIsHeld'
  BY <1>1, <1>2, <1>3, CallerBooks
<1>4. CASE RunnerStep
  BY <1>1, <1>2, <1>4, RunnerBooks
<1>5. ASSUME NEW w \in Worker, WorkerStep(w) PROVE Books /\ WaitingIsHeld'
  BY <1>1, <1>2, <1>5, WorkerBooks
<1>6. ASSUME UNCHANGED <<caller, state, ledger, submissions, requests, jobs, worker>>
      PROVE  Books /\ WaitingIsHeld'
  BY <1>1, <1>2, <1>6, Standing DEF InCommit, InQueue, Held, InJobs, Sending
<1>7. ASSUME NEW s \in Submission, CtxEnds(s) PROVE Books /\ WaitingIsHeld'
  BY <1>6, <1>7 DEF CtxEnds
<1>8. CASE RunCancelled \/ GraceExpires \/ UNCHANGED vars
  BY <1>6, <1>8 DEF RunCancelled, GraceExpires, vars
<1> QED  BY <1>3, <1>4, <1>5, <1>7, <1>8 DEF Next

LEMMA BooksBalance == LedgerExact /\ Books => LedgerExact'
<1> SUFFICES ASSUME LedgerExact, Books PROVE LedgerExact'  OBVIOUS
<1>1. Charged \in SUBSET Submission
  BY DEF Charged
<1> HIDE DEF Charged
<1>2. ASSUME NEW s \in Submission, Charges(s) PROVE LedgerExact'
  <2>1. Charged \cap {s} = {} /\ {s} \in SUBSET Submission
    BY <1>2 DEF Charges
  <2>2. Cost(Charged \cup {s}) = Cost(Charged) + Cost({s})
    BY <1>1, <2>1, CostUnion
  <2> QED  BY <1>2, <2>2 DEF Charges, LedgerExact
<1>3. ASSUME NEW R \in SUBSET Charged, Releases(R) PROVE LedgerExact'
  <2>1. /\ (Charged \ R) \cap R = {} /\ (Charged \ R) \cup R = Charged
        /\ Charged \ R \in SUBSET Submission /\ R \in SUBSET Submission
    BY <1>1, <1>3
  <2>2. /\ Cost(Charged \ R) \in Nat /\ Cost(R) \in Nat
        /\ Cost(Charged) = Cost(Charged \ R) + Cost(R)
    BY <2>1, CostUnion
  <2> QED  BY <1>3, <2>2 DEF Releases, LedgerExact
<1> QED  BY <1>2, <1>3 DEF Books

LEMMA InitLedger == Init => WaitingIsHeld /\ LedgerExact
<1> SUFFICES ASSUME Init PROVE WaitingIsHeld /\ LedgerExact  OBVIOUS
<1>1. \A s \in Submission : caller[s] = "idle"
  BY DEF Init
<1>2. submissions = <<>> /\ requests = <<>> /\ jobs = <<>>
  BY DEF Init
<1>3. ToSet(submissions) = {} /\ Held = {} /\ InJobs = {}
  BY <1>2 DEF ToSet, Held, InJobs
<1>4. InCommit = {}
  BY DEF Init, InCommit, NoJob
<1>5. Charged = {}
  BY <1>1, <1>3, <1>4 DEF Charged
<1>6. ledger = 0
  BY DEF Init
<1> QED  BY <1>1, <1>5, <1>6, CostOfNone DEF WaitingIsHeld, LedgerExact

LedgerInv == Consistent /\ WaitingIsHeld /\ LedgerExact

LEMMA LedgerInvHolds == Spec => []LedgerInv
<1>1. Init => LedgerInv
  BY InitTypeOK, InitCommitInv, InitEntered, InitLedger DEF LedgerInv, Consistent
<1>2. LedgerInv /\ [Next]_vars => LedgerInv'
  BY ConsistentStays, NextBooks, BooksBalance DEF LedgerInv
<1> QED  BY <1>1, <1>2, PTL DEF Spec

(***************************************************************************)
(* reserve and release for every set of exports and workers: the in-flight *)
(* ledger is at every moment the bytes of exactly those submissions that   *)
(* are still in flight, so no way of ending one leaks or doubles its       *)
(* reservation, and admission compares against the truth.                  *)
(***************************************************************************)
THEOREM LedgerAlwaysExact == Spec => []LedgerExact
<1>1. LedgerInv => LedgerExact
  BY DEF LedgerInv
<1> QED  BY <1>1, LedgerInvHolds, PTL

(* One export is the whole excess: admitted into an empty ledger, or what   *)
(* is left of it.                                                           *)
LEMMA NextOverBudget ==
  LedgerExact /\ LedgerExact' /\ Books /\ OverBudgetIsOneExport => OverBudgetIsOneExport'
<1> SUFFICES ASSUME LedgerExact, LedgerExact', Books, OverBudgetIsOneExport,
                    Budget > 0, ledger' > Budget
             PROVE  (Cardinality({s \in Charged : Bytes[s] > 0}) = 1)'
  BY DEF OverBudgetIsOneExport
<1> DEFINE Heavy(S) == {s \in S : Bytes[s] > 0}
<1>1. /\ Charged \in SUBSET Submission /\ Charged' \in SUBSET Submission
      /\ Budget \in Nat /\ Budget # 0
  BY WriterAssumption DEF Charged
<1>2. ledger = Cost(Charged) /\ ledger \in Nat /\ ledger' = Cost(Charged')
  BY <1>1, CostType DEF LedgerExact
<1>3. ASSUME NEW S \in SUBSET Submission, Heavy(S) = {} PROVE Cost(S) = 0
  BY <1>1, <1>3, CostIsZero, WriterAssumption
<1>4. ASSUME NEW S \in SUBSET Submission, Cost(S) = 0 PROVE Heavy(S) = {}
  BY <1>1, <1>4, CostIsZero, WriterAssumption
<1>5. Heavy(Charged') # {}
  BY <1>1, <1>2, <1>3
<1> HIDE DEF Charged
<1>6. ASSUME NEW s \in Submission, Charges(s) PROVE Cardinality(Heavy(Charged')) = 1
  <2>1. Cost({s}) = Bytes[s] /\ Bytes[s] \in Nat
    BY <1>1, CostOfOne, WriterAssumption
  <2>2. ledger <= 0
    BY <1>1, <1>2, <1>6, <2>1 DEF Charges, Admits
  <2>3. Heavy(Charged) = {}
    BY <1>1, <1>2, <1>4, <2>2
  <2>4. Heavy(Charged') = {s}
    BY <1>5, <1>6, <2>3 DEF Charges
  <2> QED  BY <2>4, FS_Singleton
<1>7. ASSUME NEW R \in SUBSET Charged, Releases(R) PROVE Cardinality(Heavy(Charged')) = 1
  <2>1. R \in SUBSET Submission
    BY <1>1
  <2>2. ledger > Budget
    BY <1>1, <1>2, <1>7, <2>1, CostType DEF Releases
  <2>3. Cardinality(Heavy(Charged)) = 1
    BY <2>2 DEF OverBudgetIsOneExport
  <2>4. IsFiniteSet(Heavy(Charged))
    BY <1>1, FS_Subset, WriterAssumption
  <2>5. PICK x : Heavy(Charged) = {x}
    BY <2>3, <2>4, FS_Singleton
  <2>6. Heavy(Charged') \subseteq Heavy(Charged)
    BY <1>7 DEF Releases
  <2>7. Heavy(Charged') = {x}
    BY <1>5, <2>5, <2>6
  <2> QED  BY <2>7, FS_Singleton
<1>8. Cardinality(Heavy(Charged')) = 1
  BY <1>6, <1>7 DEF Books
<1> QED  BY <1>8

(***************************************************************************)
(* reserve's bound: whatever is refused, abandoned, failed or retried, the *)
(* bytes in flight exceed the budget only by one oversized export, which   *)
(* then is the only one in flight that has any bytes.                      *)
(***************************************************************************)
THEOREM OverBudgetByOneExport == Spec => []OverBudgetIsOneExport
<1>1. Init => OverBudgetIsOneExport
  BY WriterAssumption DEF Init, OverBudgetIsOneExport
<1>2. /\ LedgerInv /\ LedgerInv' /\ [Next]_vars /\ OverBudgetIsOneExport
      => OverBudgetIsOneExport'
  <2>1. LedgerInv /\ [Next]_vars => Books
    BY NextBooks DEF LedgerInv
  <2>2. LedgerInv => LedgerExact
    BY DEF LedgerInv
  <2>3. LedgerInv' => LedgerExact'
    BY <2>2, PTL
  <2> QED  BY <2>1, <2>2, <2>3, NextOverBudget
<1> QED  BY <1>1, <1>2, LedgerInvHolds, PTL DEF Spec
=============================================================================
