---------------------------- MODULE BuildReceipt ----------------------------
(***************************************************************************)
(* The receipt of a turn that built a dashboard                            *)
(* (src/ui/host/src/dashboard-receipt.ts, dashboard-tool-result.ts): what  *)
(* the chat says was saved, changed, fixed and checked, computed again     *)
(* from the calls and results of the turn whenever one arrives, and the    *)
(* same after a reload.  Calls may run at once and their results come back *)
(* in any order; a save may be refused, interrupted or unreadable.         *)
(* Titles, timings and the layout are left out; call ids are distinct.     *)
(***************************************************************************)
EXTENDS Naturals, Sequences, FiniteSets
LOCAL INSTANCE SequencesExt

CONSTANTS PanelIds, Paths,      \* panels, and the places of their problems
          Forms, NoPanel,       \* what a panel holds; it is not on the dashboard
          Tools,                \* the tools that the turn calls
          MaxCalls

VARIABLES board,       \* the dashboard of the turn: [id, panels], id counting the created ones
          turnCalls   \* the calls of the turn, in order, each with its result

receiptVars == <<board, turnCalls>>

Specs == [PanelIds -> Forms \cup {NoPanel}]
On(panels) == {p \in PanelIds : panels[p] # NoPanel}

Checks == {[status |-> "ok", problems |-> {}]}
            \cup [status : {"invalid"}, problems : (SUBSET Paths) \ {{}}]
            \cup [status : {"not_run"}, problems : SUBSET Paths]

Mutations == {"create_dashboard", "edit_dashboard"}
Pending == [kind |-> "none"]
Failed == [kind |-> "error"]
Interrupted(late) == [kind |-> "interrupted", late |-> late]

ReceiptInit ==
  /\ board \in [id : {0}, panels : Specs]
  /\ turnCalls = <<>>

Call(name, draft) == [name |-> name, draft |-> draft, result |-> Pending]

ask(call) ==
  /\ Len(turnCalls) < MaxCalls
  /\ turnCalls' = Append(turnCalls, call)
  /\ UNCHANGED board

Answer(i, result) == turnCalls' = [turnCalls EXCEPT ![i].result = result]

\* The checks of the panels that were asked for, or of others.
preview(i, checks) ==
  /\ turnCalls[i].name = "preview_panels" /\ turnCalls[i].result = Pending
  /\ Answer(i, [kind |-> "checked", checks |-> checks])
  /\ UNCHANGED board

KindOf(before, after, p) ==
  IF before[p] = after[p] THEN "same"
  ELSE IF before[p] = NoPanel THEN "added" ELSE IF after[p] = NoPanel THEN "removed" ELSE "changed"

\* A save: its receipt says what changed and how its panels ran.
Save(i, after, check) ==
  LET create == turnCalls[i].name = "create_dashboard"
      before == IF create THEN [p \in PanelIds |-> NoPanel] ELSE board.panels
  IN [kind |-> "saved", id |-> board.id + (IF create THEN 1 ELSE 0), before |-> before, after |-> after,
      changes |-> [p \in PanelIds |-> KindOf(before, after, p)], check |-> check]

save(i, after, check, outcome) ==
  /\ turnCalls[i].name \in Mutations /\ turnCalls[i].result = Pending /\ On(after) # {}
  /\ \A j \in 1..i - 1 : turnCalls[j].name \in Mutations => turnCalls[j].result # Pending
  /\ \A j \in i + 1..Len(turnCalls) : turnCalls[j].name \in Mutations => turnCalls[j].result = Pending
  /\ board' = [id |-> Save(i, after, check).id, panels |-> after]
  /\ Answer(i, CASE outcome = "saved" -> Save(i, after, check)
               [] outcome = "lost" -> Interrupted(Save(i, after, check))
               [] OTHER -> [kind |-> "unreadable"])

\* A later definitive result of a call that was interrupted.
late(i) ==
  /\ turnCalls[i].result.kind = "interrupted" /\ Answer(i, turnCalls[i].result.late)
  /\ UNCHANGED board

\* Refused, or interrupted before anything was saved.
fail(i, result) ==
  /\ turnCalls[i].result = Pending
  /\ result # Failed => turnCalls[i].name \in Mutations
  /\ Answer(i, result) /\ UNCHANGED board

Drafts == {Call("preview_panels", d) : d \in SUBSET PanelIds} \cup {Call(name, {}) : name \in Mutations}

AskedFor == {call \in Drafts : call.name \in Tools}

ReceiptNext ==
  \/ \E call \in AskedFor : ask(call)
  \/ \E i \in DOMAIN turnCalls :
       \/ \E d \in SUBSET PanelIds : \E checks \in [d -> Checks] : preview(i, checks)
       \/ \E after \in Specs : \E check \in [On(after) -> {c \in Checks : c.status # "not_run"}] :
            save(i, after, check, "saved")
       \/ \E after \in Specs, outcome \in {"saved", "lost", "unreadable"} :
            save(i, after, [p \in On(after) |-> [status |-> "not_run", problems |-> {}]], outcome)
       \/ \E result \in {Failed, Interrupted(Failed)} : fail(i, result)
       \/ late(i)

(***************************************************************************)
(* receiptForTurn, call by call                                            *)
(***************************************************************************)
NoSave == [id |-> 0, check |-> <<>>]

Nothing ==
  [validation |-> "unobserved", preview |-> "unobserved", save |-> "unobserved",
   panels |-> [p \in PanelIds |-> "none"], outstanding |-> [p \in PanelIds |-> {}],
   problems |-> {}, corrections |-> {}, failures |-> {}, saw |-> FALSE, unmatched |-> FALSE,
   net |-> [p \in PanelIds |-> "same"], saved |-> NoSave, attempts |-> <<>>,
   unreadable |-> FALSE, lastError |-> FALSE]

Flat(outstanding) == {o \in PanelIds \X Paths : o[2] \in outstanding[o[1]]}

\* clearProblems: what was outstanding of a panel and is not among its problems now is fixed.
clearProblems(r, p, issues) ==
  [r EXCEPT !.corrections = @ \cup {<<p, x>> : x \in r.outstanding[p] \ issues}, !.outstanding[p] = issues]

Matched(call) == call.result.kind = "checked" /\ call.draft # {} /\ DOMAIN call.result.checks = call.draft

Previewed(r, p, check) ==
  [IF check.status = "not_run" THEN [r EXCEPT !.outstanding[p] = @ \cup check.problems]
   ELSE clearProblems(r, p, check.problems) EXCEPT !.panels[p] = check.status]

preview_panels(r, call) ==
  LET s == [r EXCEPT !.saw = TRUE, !.unmatched = call.draft = {},
              !.panels = [p \in PanelIds |-> IF p \in call.draft THEN "not_run" ELSE @[p]]]
      ran == FoldLeft(LAMBDA t, p : Previewed(t, p, call.result.checks[p]),
                      [s EXCEPT !.failures = @ \ call.draft], SetToSeq(call.draft))
  IN IF Matched(call) THEN [ran EXCEPT !.problems = Flat(ran.outstanding)]
     ELSE IF call.result = Pending THEN s ELSE [s EXCEPT !.failures = @ \cup call.draft]

\* What a panel's changes by earlier saves and by this one amount to.
Net(prior, kind) ==
  CASE kind = "same" -> prior
    [] prior = "added" /\ kind = "removed" -> "same"
    [] prior = "added" -> "added"
    [] prior = "removed" /\ kind = "added" -> "changed"
    [] OTHER -> kind

SaveChecked(r, p, check) ==
  IF check.status = "not_run" THEN r
  ELSE LET s == clearProblems(r, p, check.problems)
       IN IF check.status = "invalid" THEN s ELSE [s EXCEPT !.failures = @ \ {p}]

committed(r, result) ==
  LET s == FoldLeft(LAMBDA t, p : SaveChecked(t, p, result.check[p]), r, SetToSeq(DOMAIN result.check))
      net == IF r.saved.id = result.id THEN r.net ELSE [p \in PanelIds |-> "same"]
  IN [s EXCEPT !.net = [p \in PanelIds |-> Net(net[p], result.changes[p])],
        !.saved = [id |-> result.id, check |-> result.check],
        !.corrections = {c \in @ : c[1] \in DOMAIN result.check},
        !.problems = {c \in Flat(s.outstanding) : c[1] \in DOMAIN result.check}]

mutation(r, call) ==
  LET kind == call.result.kind
      state == CASE kind = "saved" -> "complete" [] kind = "interrupted" -> "interrupted"
                 [] kind = "error" -> "failed" [] OTHER -> "incomplete"
      earlier == IF kind = "saved" THEN [i \in DOMAIN r.attempts |-> IF r.attempts[i] = "failed" THEN "retried" ELSE r.attempts[i]]
                 ELSE r.attempts
      s == [r EXCEPT !.save = state, !.attempts = Append(earlier, state),
              !.lastError = kind = "error", !.unreadable = kind = "unreadable"]
  IN IF kind = "saved" THEN committed(s, call.result) ELSE s

\* The stages at the end, over the panels that are on the saved dashboard.
Finished(r) ==
  LET retained == IF r.saved = NoSave THEN PanelIds ELSE DOMAIN r.saved.check
      shown == {p \in retained : r.panels[p] # "none"}
      failed == r.unmatched \/ r.failures \cap retained # {}
      incomplete == \E p \in shown : r.panels[p] = "not_run"
      invalid == r.problems # {}
  IN IF ~r.saw THEN r
     ELSE [r EXCEPT !.validation = IF failed \/ invalid THEN "failed" ELSE IF incomplete THEN "incomplete" ELSE "complete",
             !.preview = IF failed THEN "failed"
                         ELSE IF incomplete \/ invalid \/ \E p \in shown : r.panels[p] = "invalid" THEN "incomplete"
                         ELSE "complete"]

Step(r, call) == IF call.name = "preview_panels" THEN preview_panels(r, call) ELSE mutation(r, call)

receiptForTurn(calls) == Finished(FoldLeft(Step, Nothing, calls))

(***************************************************************************)
(* The changes a receipt lists are those between the dashboard before the  *)
(* turn's first save of it and the one on the server, however often panels *)
(* were added, removed and added again on the way; one whose save nobody   *)
(* was told of aside (dashboard-receipt.ts:120-136).                       *)
(***************************************************************************)
SavesOf(id) == SelectSeq(turnCalls, LAMBDA call : call.result.kind = "saved" /\ call.result.id = id)

NetChangesTell ==
  LET r == receiptForTurn(turnCalls)
      saves == SavesOf(r.saved.id)
      told == \A i \in 1..Len(saves) - 1 : saves[i + 1].result.before = saves[i].result.after
  IN r.saved # NoSave /\ told =>
       \A p \in PanelIds :
         LET kind == KindOf(saves[1].result.before, Last(saves).result.after, p)
         IN r.net[p] = kind \/ (kind = "same" /\ r.net[p] = "changed")

(***************************************************************************)
(* A problem counts as fixed only when a later call, in the order of the   *)
(* calls and not of their results, checked the panel without it; a preview *)
(* is complete only when every panel of the saved dashboard it asked for   *)
(* ran in the end; and a receipt claims a save only where the server       *)
(* answered with one (dashboard-receipt.ts:59-66, 98-119, 139-162).        *)
(***************************************************************************)
ChecksOf(call) == IF call.result.kind = "saved" THEN call.result.check
                  ELSE IF call.result.kind = "checked" /\ Matched(call) THEN call.result.checks ELSE <<>>

Ran(i, p) == p \in DOMAIN ChecksOf(turnCalls[i]) /\ ChecksOf(turnCalls[i])[p].status # "not_run"

ReceiptTellsTheTurn ==
  LET r == receiptForTurn(turnCalls)
  IN /\ \A c \in r.corrections :
          \E i, j \in DOMAIN turnCalls :
            /\ i < j /\ c[1] \in DOMAIN ChecksOf(turnCalls[i]) /\ c[2] \in ChecksOf(turnCalls[i])[c[1]].problems
            /\ Ran(j, c[1]) /\ c[2] \notin ChecksOf(turnCalls[j])[c[1]].problems
     /\ r.preview = "complete" =>
          \A i \in DOMAIN turnCalls : turnCalls[i].name = "preview_panels" =>
            \A p \in turnCalls[i].draft : (r.saved # NoSave => p \in DOMAIN r.saved.check) =>
              \E j \in i..Len(turnCalls) : Ran(j, p)
     /\ (r.saved # NoSave) = (\E i \in DOMAIN turnCalls : turnCalls[i].result.kind = "saved")
=============================================================================
