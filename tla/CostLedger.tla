------------------------------- MODULE CostLedger -------------------------------
(***************************************************************************)
(* What the dashboard evaluation spends (src/scripts/dashboard-eval): a    *)
(* ledger file kept over many invocations (transport.ts), the agent        *)
(* prompts that are metered while their events stream in (main.ts) and the *)
(* judges that are asked afterwards (judge.ts).  A process may end at any  *)
(* step; the provider bills what it was asked, whoever still listens.      *)
(* Money is whole cents; what a call costs is its usage at the ledger's    *)
(* rates, or Unknown.                                                      *)
(***************************************************************************)
EXTENDS Integers, Sequences, FiniteSets
LOCAL INSTANCE FiniteSetsExt
LOCAL INSTANCE SequencesExt

CONSTANTS Processes, NoProcess, Stale,
          Runs, NoRun,
          Costs,       \* of one call of the provider, at most Reserve
          Unknown,     \* a cost: usage or rate is missing
          Cap,         \* --budget-usd
          FirstEstimate,   \* of a prompt before any was measured
          Reserve,     \* the most one judge's request may cost
          MaxSteps     \* calls of one run

VARIABLES disk,     \* the ledger file
          lock,     \* its .lock file: nobody's, a process's, or one left behind
          proc,     \* the processes, each with its copy of the ledger
          server    \* the runs of the agent and the requests of the judges

ledgerVars == <<disk, lock, proc, server>>

(***************************************************************************)
(* The ledger: its prompts and, for each, its calls in the order they came *)
(***************************************************************************)
NewPrompt == [settled |-> FALSE, completed |-> FALSE, status |-> "none", cost |-> Unknown,
              manual |-> Unknown]

EmptyLedger == [prompts |-> [r \in {} |-> NewPrompt], calls |-> [r \in {} |-> <<>>]]

Started(l) == DOMAIN l.prompts
Amount(cost) == IF cost = Unknown THEN 0 ELSE cost
Known(l, r) == FoldLeft(LAMBDA n, call : n + Amount(call.cost), 0, l.calls[r])
Measured(calls) == calls # <<>> /\ \A i \in DOMAIN calls : calls[i].cost # Unknown
InSteps(calls) == \A i \in DOMAIN calls : calls[i].step = i
AllCompleted(calls) == \A i \in DOMAIN calls : calls[i].status = "completed"

LargerOf(a, b) == IF a > b THEN a ELSE b

spentUSD(l) ==
  FoldSet(LAMBDA r, n : n + LargerOf(Amount(l.prompts[r].manual), Known(l, r)), 0, Started(l))

validateLedger(l) ==
  \A r \in Started(l) :
    LET p == l.prompts[r]  calls == l.calls[r]
    IN /\ Cardinality({calls[i].step : i \in DOMAIN calls}) = Len(calls)
       /\ IF p.manual # Unknown
          THEN /\ p.settled /\ ~p.completed /\ p.status = "failed"
               /\ p.manual >= Known(l, r) /\ p.cost = p.manual
          ELSE p.settled =>
            /\ Measured(calls) /\ InSteps(calls) /\ p.cost = Known(l, r)
            /\ p.completed => AllCompleted(calls)
            /\ p.status = IF p.completed THEN "completed" ELSE "failed"

\* The nearest-rank p95 of the completed prompts.
Estimate(l) ==
  LET done == {r \in Started(l) : l.prompts[r].completed /\ l.prompts[r].settled}
      rank == (95 * Cardinality(done) + 99) \div 100
  IN IF done = {} THEN FirstEstimate
     ELSE Min({l.prompts[r].cost : r \in {s \in done :
            Cardinality({t \in done : l.prompts[t].cost <= l.prompts[s].cost}) >= rank}})

\* Mutant of canStartPrompt: what the next prompt may cost is not counted.
canStartUncapped(l) ==
  validateLedger(l) /\ \A r \in Started(l) : l.prompts[r].settled

canStartPrompt(l) ==
  /\ validateLedger(l) /\ \A r \in Started(l) : l.prompts[r].settled
  /\ spentUSD(l) + Estimate(l) <= Cap

beginPrompt(l, run) ==
  [prompts |-> [r \in Started(l) \cup {run} |-> IF r = run THEN NewPrompt ELSE l.prompts[r]],
   calls |-> [r \in Started(l) \cup {run} |-> IF r = run THEN <<>> ELSE l.calls[r]]]

recordUsage(l, r, call) == [l EXCEPT !.calls[r] = Append(@, call)]

settlePrompt(l, r, complete, definitive) ==
  LET calls == l.calls[r]
      cost == IF Measured(calls) THEN Known(l, r) ELSE Unknown
      completed == complete /\ cost # Unknown /\ AllCompleted(calls) /\ InSteps(calls)
      settled == definitive /\ cost # Unknown /\ InSteps(calls)
  IN [l EXCEPT !.prompts[r] = [@ EXCEPT !.cost = cost, !.completed = completed, !.settled = settled,
                                 !.status = IF settled THEN IF completed THEN "completed" ELSE "failed"
                                            ELSE @]]

manualSettlement(l, r, cost) ==
  [l EXCEPT !.prompts[r] = [settled |-> TRUE, completed |-> FALSE, status |-> "failed",
                            cost |-> cost, manual |-> cost]]

(***************************************************************************)
(* The other side: what a run was billed, the events it has sent and       *)
(* whether it may still call the provider.                                 *)
(***************************************************************************)
Idle == [state |-> "none", steps |-> 0, bill |-> 0, events |-> <<>>]

Off == [pc |-> "off", ledger |-> EmptyLedger, run |-> NoRun, terminal |-> "none",
        truncated |-> FALSE, error |-> FALSE]

LedgerInit ==
  /\ disk = EmptyLedger /\ lock = NoProcess
  /\ proc = [p \in Processes |-> Off]
  /\ server = [r \in Runs |-> Idle]

Unused == {r \in Runs : server[r].state = "none" /\ r \notin Started(disk)}

\* Every change of a process's ledger is written at once.
Persist(p, l, pc) ==
  /\ proc' = [proc EXCEPT ![p].ledger = l, ![p].pc = pc]
  /\ disk' = l

(***************************************************************************)
(* main: the lock, the ledger, the prompts, the judges                     *)
(***************************************************************************)
open(p) ==
  /\ proc[p].pc = "off" /\ lock = NoProcess
  /\ validateLedger(disk)
  /\ lock' = p
  /\ proc' = [proc EXCEPT ![p] = [Off EXCEPT !.pc = "prompts", !.ledger = disk]]
  /\ UNCHANGED <<disk, server>>

turn(p, run) ==
  /\ proc[p].pc = "prompts" /\ canStartPrompt(proc[p].ledger)
  /\ LET l == beginPrompt(proc[p].ledger, run)
     IN /\ disk' = l
        /\ proc' = [proc EXCEPT ![p] = [Off EXCEPT !.pc = "posting", !.ledger = l, !.run = run]]
  /\ UNCHANGED <<lock, server>>

\* The POST reaches the server or fails; in doubt it did both.
post(p, arrives, answered) ==
  /\ proc[p].pc = "posting"
  /\ server' = IF arrives THEN [server EXCEPT ![proc[p].run].state = "running"] ELSE server
  /\ proc' = [proc EXCEPT ![p].pc = IF arrives /\ answered THEN "streaming" ELSE "settling",
                          ![p].error = ~(arrives /\ answered)]
  /\ UNCHANGED <<disk, lock>>

Listening(r) == \E p \in Processes : proc[p].pc = "streaming" /\ proc[p].run = r

Send(r, event) == IF Listening(r) THEN Append(server[r].events, event) ELSE <<>>

callProvider(r, cost, status, metered) ==
  /\ server[r].state = "running" /\ server[r].steps < MaxSteps
  /\ server' = [server EXCEPT ![r] =
       [state |-> IF status = "incomplete" THEN "truncated" ELSE IF status = "error" THEN "failing" ELSE "running",
        steps |-> @.steps + 1, bill |-> @.bill + cost,
        events |-> Send(r, [kind |-> "usage", step |-> @.steps + 1, status |-> status,
                            cost |-> IF metered THEN cost ELSE Unknown])]]
  /\ UNCHANGED <<disk, lock, proc>>

endRun(r, terminal) ==
  /\ server[r].state \in {"running", "truncated", "failing"}
  /\ server[r].state = "failing" => terminal = "RUN_ERROR"
  /\ server' = [server EXCEPT ![r].state = "over",
                  ![r].events = Send(r, [kind |-> terminal, step |-> 0, status |-> "none", cost |-> 0])]
  /\ UNCHANGED <<disk, lock, proc>>

readUsage(p) ==
  LET r == proc[p].run
  IN /\ proc[p].pc = "streaming" /\ server[r].events # <<>> /\ Head(server[r].events).kind = "usage"
     /\ LET e == Head(server[r].events)
            l == recordUsage(proc[p].ledger, r, [step |-> e.step, status |-> e.status, cost |-> e.cost])
        IN /\ disk' = l
           /\ proc' = [proc EXCEPT ![p].ledger = l, ![p].truncated = @ \/ e.status = "incomplete",
                                   ![p].error = @ \/ e.status = "incomplete"]
     /\ server' = [server EXCEPT ![r].events = Tail(@)]
     /\ UNCHANGED lock

readTerminal(p) ==
  LET r == proc[p].run
  IN /\ proc[p].pc = "streaming" /\ server[r].events # <<>> /\ Head(server[r].events).kind # "usage"
     /\ proc' = [proc EXCEPT ![p].terminal = Head(server[r].events).kind, ![p].pc = "settling",
                             ![p].error = @ \/ Head(server[r].events).kind = "RUN_ERROR"]
     /\ server' = [server EXCEPT ![r].events = <<>>]
     /\ UNCHANGED <<disk, lock>>

\* The stream breaks, or 240 seconds have passed.
disconnect(p) ==
  /\ proc[p].pc = "streaming"
  /\ proc' = [proc EXCEPT ![p].pc = "settling", ![p].error = TRUE]
  /\ server' = [server EXCEPT ![proc[p].run].events = <<>>]
  /\ UNCHANGED <<disk, lock>>

\* A prompt whose cost stays unknown ends the evaluation.
settle(p) ==
  LET r == proc[p].run
      l == settlePrompt(proc[p].ledger, r, proc[p].terminal = "RUN_FINISHED" /\ ~proc[p].error,
                        proc[p].terminal # "none" \/ proc[p].truncated)
  IN /\ proc[p].pc = "settling"
     /\ Persist(p, l, IF l.prompts[r].settled THEN "prompts" ELSE "ending")
     /\ UNCHANGED <<lock, server>>

startJudges(p) ==
  /\ proc[p].pc = "prompts"
  /\ proc' = [proc EXCEPT ![p].pc = "judges"]
  /\ UNCHANGED <<disk, lock, server>>

(***************************************************************************)
(* judge: one request at a time, each a prompt of its own.  How often a    *)
(* rejected request is repeated, and when, is left open.                   *)
(***************************************************************************)
reserved(l) == canStartPrompt(l) /\ spentUSD(l) + Reserve <= Cap

askJudge(p, run) ==
  /\ proc[p].pc = "judges" /\ reserved(proc[p].ledger)
  /\ LET l == beginPrompt(proc[p].ledger, run)
     IN /\ disk' = l
        /\ proc' = [proc EXCEPT ![p] = [Off EXCEPT !.pc = "judging", !.ledger = l, !.run = run]]
  /\ server' = [server EXCEPT ![run].state = "judging"]
  /\ UNCHANGED lock

\* rejected: refused before it cost anything.  lost: no answer that can be read.
Answers == [kind : {"ok", "paid error", "unmetered", "lost"}, cost : Costs]
           \cup [kind : {"rejected", "lost"}, cost : {0}]

judge(p, answer) ==
  LET r == proc[p].run
      call == [step |-> 1, status |-> IF answer.kind \in {"ok", "unmetered"} THEN "completed" ELSE "error",
               cost |-> IF answer.kind \in {"unmetered", "lost"} THEN Unknown ELSE answer.cost]
  IN /\ proc[p].pc = "judging"
     /\ server' = [server EXCEPT ![r] = [@ EXCEPT !.state = "over", !.bill = answer.cost]]
     /\ Persist(p, recordUsage(proc[p].ledger, r, call),
                IF call.cost = Unknown THEN "ending" ELSE "judged")
     /\ UNCHANGED lock

\* An answer that breaks the rubric, or is cut, still costs what it costs.
settleJudge(p, rubric) ==
  LET r == proc[p].run
      ok == proc[p].ledger.calls[r][1].status = "completed"
  IN /\ proc[p].pc = "judged"
     /\ \E blocked \in {b \in BOOLEAN : b => ok /\ ~rubric} :
          Persist(p, settlePrompt(proc[p].ledger, r, ok /\ rubric, TRUE), IF blocked THEN "ending" ELSE "judges")
     /\ UNCHANGED <<lock, server>>

finish(p) ==
  /\ proc[p].pc \in {"prompts", "judges", "ending"}
  /\ lock' = NoProcess /\ proc' = [proc EXCEPT ![p] = Off]
  /\ UNCHANGED <<disk, server>>

(***************************************************************************)
(* Outside: processes end, and the controller clears what they leave       *)
(***************************************************************************)
crash(p) ==
  /\ proc[p].pc # "off"
  /\ lock' = Stale /\ proc' = [proc EXCEPT ![p] = Off]
  /\ server' = [r \in Runs |->
       IF r # proc[p].run THEN server[r]
       ELSE [server[r] EXCEPT !.events = <<>>, !.state = IF @ = "judging" THEN "over" ELSE @]]
  /\ UNCHANGED disk

\* A judge whose caller has gone may have billed its answer all the same.
crashUnheard(p) ==
  /\ proc[p].pc = "judging"
  /\ \E cost \in Costs :
       server' = [server EXCEPT ![proc[p].run] = [@ EXCEPT !.state = "over", !.bill = cost]]
  /\ lock' = Stale /\ proc' = [proc EXCEPT ![p] = Off]
  /\ UNCHANGED disk

removeLock ==
  /\ lock = Stale /\ lock' = NoProcess
  /\ UNCHANGED <<disk, proc, server>>

\* --settle, with the whole cost of a run that is over.
settleByHand(r) ==
  /\ lock = NoProcess /\ validateLedger(disk)
  /\ r \in Started(disk) /\ ~disk.prompts[r].settled /\ server[r].state \in {"none", "over"}
  /\ server[r].bill >= Known(disk, r)
  /\ disk' = manualSettlement(disk, r, server[r].bill)
  /\ UNCHANGED <<lock, proc, server>>

LedgerNext ==
  \/ \E p \in Processes :
       \/ open(p) \/ readUsage(p) \/ readTerminal(p) \/ disconnect(p) \/ settle(p)
       \/ startJudges(p) \/ finish(p) \/ crash(p) \/ crashUnheard(p)
       \/ \E arrives, answered \in BOOLEAN : post(p, arrives, answered)
       \/ \E run \in Unused : turn(p, run) \/ askJudge(p, run)
       \/ \E answer \in Answers : judge(p, answer)
       \/ \E rubric \in BOOLEAN : settleJudge(p, rubric)
  \/ \E r \in Runs :
       \/ \E cost \in Costs, status \in {"completed", "incomplete", "error"}, metered \in BOOLEAN :
            callProvider(r, cost, status, metered)
       \/ \E terminal \in {"RUN_FINISHED", "RUN_ERROR"} : endRun(r, terminal)
       \/ settleByHand(r)
  \/ removeLock

(***************************************************************************)
(* Wherever a process ends, the ledger it leaves loads again               *)
(* (transport.ts:169-186), and what it has settled is what the provider    *)
(* billed: the one cost it does not know is that of the one prompt it      *)
(* calls unsettled.                                                        *)
(***************************************************************************)
LedgerTrue ==
  /\ validateLedger(disk)
  /\ \A r \in Started(disk) : disk.prompts[r].settled => disk.prompts[r].cost = server[r].bill
  /\ Cardinality({r \in Started(disk) : ~disk.prompts[r].settled}) <= 1
  /\ \A r \in Runs : server[r].bill > 0 => r \in Started(disk)

(***************************************************************************)
(* The cap holds over all invocations, crashes between them included: the  *)
(* bills of all prompts but the one in flight stay under it, and a judge,  *)
(* whose cost is reserved first, stays under it as well (judge.ts:43-52).  *)
(***************************************************************************)
Billed(rs) == FoldSet(LAMBDA r, n : n + server[r].bill, 0, rs)

OverrunIsOnePrompt ==
  \A p \in Processes : proc[p].run # NoRun /\ proc[p].pc \in {"posting", "streaming", "judging", "judged"} =>
    /\ Billed(Runs \ {proc[p].run}) <= Cap
    /\ proc[p].pc \in {"judging", "judged"} => Billed(Runs) <= Cap
=============================================================================
