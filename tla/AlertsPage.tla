----------------------------- MODULE AlertsPage -----------------------------
(***************************************************************************)
(* The alerts page (src/ui/host/src/alerts/page.tsx, rule-form.tsx): a     *)
(* list of rules that is polled, a form that replaces a rule whole, a      *)
(* switch that replaces it with one field changed, a dry run of a rule,    *)
(* and the deletion of one.  Answers come back in any order, and another   *)
(* browser edits the same rules.                                           *)
(***************************************************************************)
EXTENDS Naturals, FiniteSets

CONSTANTS Rules, NoRule,
          New,            \* the rule a form creates
          Contents,       \* the fields of a rule, whether it is enabled aside
          NoList,         \* the list before its first answer
          MaxRev,         \* how often a rule is written
          MaxTests,       \* how often rules are tested
          MaxWrites       \* the writes under way at once

VARIABLES server,   \* the rules, and the last revision acknowledged to this page
          list,     \* what the page shows, and the read under way
          page,     \* the dialogs
          calls     \* the writes and tests under way

alertVars == <<server, list, page, calls>>

Absent == [rev |-> 0, content |-> NoRule, enabled |-> FALSE]
Deleted == MaxRev + 1

NoForm == [rule |-> NoRule, base |-> NoRule, draft |-> NoRule, enabled |-> FALSE,
           saving |-> FALSE, error |-> FALSE, confirming |-> FALSE]
NoTest == [rule |-> NoRule, run |-> 0, answer |-> FALSE]
Reading == [sent |-> TRUE, answer |-> NoList]
NoRead == [sent |-> FALSE, answer |-> NoList]

Existing(rules) == {r \in Rules : rules[r].rev \in 1..MaxRev}

AlertsInit ==
  /\ \E r \in Rules, c \in Contents :
       server = [rules |-> [i \in Rules |-> IF i = r THEN [rev |-> 1, content |-> c, enabled |-> TRUE] ELSE Absent],
                 known |-> [i \in Rules |-> 0]]
  /\ list = [rules |-> NoList, read |-> Reading]
  /\ page = [manage |-> TRUE, form |-> NoForm, deleting |-> NoRule, removeError |-> FALSE,
             tested |-> NoTest, testRun |-> 0]
  /\ calls = [writes |-> {}, tests |-> {}]

Listed == IF list.rules = NoList THEN {} ELSE Existing(list.rules)
NoDialog == page.form = NoForm /\ page.deleting = NoRule /\ page.tested = NoTest

(***************************************************************************)
(* The list: polled every 30 seconds, and read again after a write, which  *)
(* cancels the read under way (refresh).                                   *)
(***************************************************************************)
poll ==
  /\ ~list.read.sent /\ list' = [list EXCEPT !.read = Reading]
  /\ UNCHANGED <<server, page, calls>>

AnswerList ==
  /\ list.read.sent /\ list.read.answer = NoList
  /\ list' = [list EXCEPT !.read.answer = server.rules]
  /\ UNCHANGED <<server, page, calls>>

ListLands ==
  /\ list.read.answer # NoList
  /\ list' = [rules |-> list.read.answer, read |-> NoRead]
  /\ UNCHANGED <<server, page, calls>>

ListFails ==
  /\ list.read.sent /\ list' = [list EXCEPT !.read = NoRead]
  /\ UNCHANGED <<server, page, calls>>

refresh == list' = [list EXCEPT !.read = Reading]

(***************************************************************************)
(* Writes: sent, served or lost, acknowledged or failed.  mine: the form   *)
(* that sent it is still the one on the screen.                            *)
(***************************************************************************)
Write(op, rule, content, enabled) ==
  [op |-> op, rule |-> rule, content |-> content, enabled |-> enabled,
   mine |-> TRUE, state |-> "sent", rev |-> 0]

Pending(op) == \E w \in calls.writes : w.op = op /\ w.mine

send(w) ==
  /\ Cardinality(calls.writes) < MaxWrites
  /\ calls' = [calls EXCEPT !.writes = @ \cup {w}]

Becomes(w, v) == calls' = [calls EXCEPT !.writes = (@ \ {w}) \cup {v}]

\* The form that sent a write is closed: its answer belongs to no form.
FormClosed(writes) == {[v EXCEPT !.mine = v.mine /\ v.op # "save"] : v \in writes}

Revision(r) == server.rules[r].rev + 1

ServeWrite(w, r) ==
  /\ w.state = "sent"
  /\ IF w.rule = New THEN server.rules[r] = Absent ELSE r = w.rule
  /\ Revision(r) <= MaxRev
  /\ server' = [server EXCEPT !.rules[r] =
       IF w.op = "remove" THEN [Absent EXCEPT !.rev = Deleted]
       ELSE [rev |-> Revision(r), content |-> w.content, enabled |-> w.enabled]]
  /\ Becomes(w, [w EXCEPT !.state = "served", !.rule = r, !.rev = IF w.op = "remove" THEN Deleted ELSE Revision(r)])
  /\ UNCHANGED <<list, page>>

\* The server refuses it, it has no such rule, or the connection fails.
WriteFails(w) ==
  /\ calls' = [calls EXCEPT !.writes = @ \ {w}]
  /\ page' = CASE w.op = "save" -> IF w.mine THEN [page EXCEPT !.form.saving = FALSE, !.form.error = TRUE] ELSE page
             [] w.op = "remove" -> [page EXCEPT !.removeError = TRUE]
             [] OTHER -> page
  /\ UNCHANGED <<server, list>>

Acknowledged(w) ==
  /\ w.state = "served"
  /\ calls' = [calls EXCEPT !.writes = IF w.op = "save" THEN FormClosed(@ \ {w}) ELSE @ \ {w}]
  /\ server' = [server EXCEPT !.known[w.rule] = IF w.rev > @ THEN w.rev ELSE @]
  /\ refresh
  /\ page' = CASE w.op = "save" -> [page EXCEPT !.form = NoForm]
             [] w.op = "remove" -> [page EXCEPT !.deleting = NoRule, !.removeError = FALSE, !.testRun = @ + 1]
             [] OTHER -> page

(***************************************************************************)
(* The form of a rule, new or listed                                       *)
(***************************************************************************)
edit(rule) ==
  /\ page.manage /\ NoDialog /\ rule \in Listed \cup {New}
  /\ LET base == IF rule = New THEN NoRule ELSE list.rules[rule].content
         enabled == IF rule = New THEN TRUE ELSE list.rules[rule].enabled
     IN page' = [page EXCEPT !.form = [NoForm EXCEPT !.rule = rule, !.base = base, !.draft = base, !.enabled = enabled]]
  /\ UNCHANGED <<server, list, calls>>

type(content) ==
  /\ page.form.rule # NoRule
  /\ page' = [page EXCEPT !.form.draft = content, !.form.error = FALSE]
  /\ UNCHANGED <<server, list, calls>>

\* Only a draft with a name, an expression and valid headers is saved.
save ==
  /\ page.form.rule # NoRule /\ ~page.form.saving /\ page.form.draft \in Contents
  /\ send(Write("save", page.form.rule, page.form.draft, page.form.enabled))
  /\ page' = [page EXCEPT !.form.saving = TRUE]
  /\ UNCHANGED <<server, list>>

CloseForm ==
  /\ page' = [page EXCEPT !.form = NoForm]
  /\ calls' = [calls EXCEPT !.writes = FormClosed(@)]

\* Cancel, Escape and the close button: ask where the draft changed.
requestClose ==
  /\ page.form.rule # NoRule /\ ~page.form.saving /\ ~page.form.confirming
  /\ IF page.form.draft = page.form.base THEN CloseForm
     ELSE page' = [page EXCEPT !.form.confirming = TRUE] /\ UNCHANGED calls
  /\ UNCHANGED <<server, list>>

resume ==
  /\ page.form.confirming /\ page' = [page EXCEPT !.form.confirming = FALSE]
  /\ UNCHANGED <<server, list, calls>>

\* The question stays while the rule is saved: its button closes the form.
discard ==
  /\ page.form.confirming /\ CloseForm
  /\ UNCHANGED <<server, list>>

(***************************************************************************)
(* The switch, the deletion and the dry run                                *)
(***************************************************************************)
toggle(r) ==
  /\ page.manage /\ NoDialog /\ r \in Listed /\ ~Pending("toggle")
  /\ send(Write("toggle", r, list.rules[r].content, ~list.rules[r].enabled))
  /\ UNCHANGED <<server, list, page>>

openDelete(r) ==
  /\ page.manage /\ NoDialog /\ r \in Listed
  /\ page' = [page EXCEPT !.deleting = r]
  /\ UNCHANGED <<server, list, calls>>

closeDelete ==
  /\ page.deleting # NoRule /\ ~Pending("remove")
  /\ page' = [page EXCEPT !.deleting = NoRule]
  /\ UNCHANGED <<server, list, calls>>

remove ==
  /\ page.deleting # NoRule /\ ~Pending("remove")
  /\ send(Write("remove", page.deleting, NoRule, FALSE))
  /\ page' = [page EXCEPT !.removeError = FALSE]
  /\ UNCHANGED <<server, list>>

runTest(r) ==
  /\ page.manage /\ NoDialog /\ r \in Listed /\ page.testRun < MaxTests
  /\ page' = [page EXCEPT !.testRun = @ + 1, !.tested = [NoTest EXCEPT !.rule = r, !.run = page.testRun + 1]]
  /\ calls' = [calls EXCEPT !.tests = @ \cup {[rule |-> r, run |-> page.testRun + 1]}]
  /\ UNCHANGED <<server, list>>

closeTest ==
  /\ page.tested # NoTest
  /\ page' = [page EXCEPT !.testRun = @ + 1, !.tested = NoTest]
  /\ UNCHANGED <<server, list, calls>>

\* A result or an error: only the latest test answers.
answer(t) ==
  /\ calls' = [calls EXCEPT !.tests = @ \ {t}]
  /\ page' = IF t.run = page.testRun THEN [page EXCEPT !.tested = [rule |-> t.rule, run |-> t.run, answer |-> TRUE]]
             ELSE page
  /\ UNCHANGED <<server, list>>

\* Another browser replaces or deletes a rule.
Elsewhere(r, content, keep) ==
  /\ r \in Existing(server.rules) /\ Revision(r) <= MaxRev
  /\ server' = [server EXCEPT !.rules[r] =
       IF keep THEN [rev |-> Revision(r), content |-> content, enabled |-> server.rules[r].enabled]
       ELSE [Absent EXCEPT !.rev = Deleted]]
  /\ UNCHANGED <<list, page, calls>>

AlertsNext ==
  \/ poll \/ AnswerList \/ ListLands \/ ListFails
  \/ \E w \in calls.writes : WriteFails(w) \/ Acknowledged(w) \/ \E r \in Rules : ServeWrite(w, r)
  \/ \E rule \in Rules \cup {New} : edit(rule)
  \/ \E content \in Contents : type(content)
  \/ save \/ requestClose \/ resume \/ discard
  \/ \E r \in Rules : toggle(r) \/ openDelete(r) \/ runTest(r)
  \/ closeDelete \/ remove \/ closeTest
  \/ \E t \in calls.tests : answer(t)
  \/ \E r \in Rules, content \in Contents, keep \in BOOLEAN : Elsewhere(r, content, keep)

(***************************************************************************)
(* An answer under way is never older than a write the page was told of    *)
(* (refresh cancels the one before it), so a saved rule does not turn back *)
(* and a deleted one does not come back (page.tsx:47-54).  A test's answer *)
(* is shown for the rule of the open window, and never without one         *)
(* (page.tsx:55-63).                                                       *)
(***************************************************************************)
AnswersFollowWrites ==
  /\ list.read.answer # NoList => \A r \in Rules : list.read.answer[r].rev >= server.known[r]
  /\ page.tested # NoTest => page.tested.run = page.testRun /\ page.deleting = NoRule /\ page.form = NoForm
=============================================================================
