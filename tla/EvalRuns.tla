------------------------------- MODULE EvalRuns --------------------------------
(***************************************************************************)
(* The dashboard evaluation (src/scripts/dashboard-eval).  First one       *)
(* prompt of it: the run of the agent on the server, the events of it the  *)
(* client reads (transport.ts readSSE), the thread and the versions it     *)
(* reads afterwards (main.ts turn) and what it credits the run with: the   *)
(* dashboard it saved (findSaved) or, for a question, that it changed      *)
(* nothing (mutationEvidence, intent.ts answerPass).  A stream may break   *)
(* between any two events, while the run goes on.  Then the judging of     *)
(* what was saved: the edit authored beforehand (main.ts buildEdit)        *)
(* against the dashboard that came of it (score.ts compareEdit,            *)
(* changedPanels), and the checks of its panels (transport.ts              *)
(* executePanels, score.ts panelPass and score, intent.ts).                *)
(***************************************************************************)
EXTENDS Naturals, Sequences, FiniteSets
LOCAL INSTANCE FiniteSetsExt
LOCAL INSTANCE SequencesExt

CONSTANTS Tools,       \* tool calls, each made at most once
          NoTool,
          Boards,      \* dashboards, and what the calls are given
          MaxVersion

CONSTANTS Ids, New,      \* the panels of a dashboard, and the one an edit adds
          Contents,      \* what a panel asks and shows, its grid aside
          Grids, NoPanel,
          Metas,         \* everything of a dashboard but its panels
          Served,        \* an authored content, with the defaults the server adds
          MaxChecks

VARIABLES agent,    \* the run on the server, and the dashboards it changed
          client,   \* what was read of it, and the result
          edit,     \* of a saved dashboard
          run       \* the panels of a run and what running them again said

streamVars == <<agent, client>>

Nothing == [kind |-> "none"]
Failure == [kind |-> "error"]
Saved(board, version) == [kind |-> "dashboard", board |-> board, version |-> version]

NoResult == [kind |-> "none"]

StreamInit ==
  /\ agent = [state |-> "none", tool |-> NoTool, name |-> "none", board |-> CHOOSE b \in Boards : TRUE,
              answer |-> Nothing, saves |-> <<>>, pending |-> {}, thread |-> {}, used |-> {}]
  /\ client = [stage |-> "posting", tools |-> <<>>, terminal |-> "none", incomplete |-> FALSE,
               text |-> FALSE, result |-> NoResult]

Version(board) == Len(SelectSeq(agent.saves, LAMBDA s : s.board = board))

(***************************************************************************)
(* requestResponse: a POST is sent once.  Refused, it starts nothing; a    *)
(* broken connection may have started the run.                             *)
(***************************************************************************)
Stopped == [client EXCEPT !.stage = "ended", !.incomplete = TRUE]

requestResponse(arrives, answered) ==
  /\ client.stage = "posting"
  /\ agent' = IF arrives THEN [agent EXCEPT !.state = "running"] ELSE agent
  /\ client' = IF arrives /\ answered THEN [client EXCEPT !.stage = "reading"] ELSE Stopped

(***************************************************************************)
(* readSSE: what an event does to what was read so far.  An event that     *)
(* makes no sense ends the reading as a broken connection does.            *)
(***************************************************************************)
Started(tools, t) == \E i \in DOMAIN tools : tools[i].id = t

Changed(c, t, Change(_)) ==
  [c EXCEPT !.tools = [i \in DOMAIN @ |-> IF @[i].id = t THEN Change(@[i]) ELSE @[i]]]

toolStart(c, t, name, args) ==
  IF Started(c.tools, t) THEN Stopped
  ELSE [c EXCEPT !.tools = Append(@, [id |-> t, name |-> name, args |-> args,
                                      result |-> Nothing, is_error |-> "null", ended |-> FALSE])]

toolEnd(c, t) == Changed(c, t, LAMBDA tool : [tool EXCEPT !.ended = TRUE])

toolResult(c, t, answer) ==
  Changed(c, t, LAMBDA tool :
    [tool EXCEPT !.result = answer, !.is_error = IF answer = Failure THEN "yes" ELSE @])

\* The snapshot of an app names the call by its tool and its arguments.
snapshot(c, name, args, failed) ==
  LET Named(tool) == tool.name = name /\ tool.args = args
      named == {i \in DOMAIN c.tools : Named(c.tools[i])}
  IN IF Cardinality(named) # 1 THEN c
     ELSE [c EXCEPT !.tools = [i \in DOMAIN @ |->
             IF i \notin named THEN @[i]
             ELSE [@[i] EXCEPT !.is_error = IF @ = "yes" \/ failed THEN "yes" ELSE "no"]]]

terminal(c, kind) ==
  [c EXCEPT !.terminal = kind, !.stage = "ended", !.incomplete = @ \/ kind = "RUN_ERROR"]

Read(event) == client' = IF client.stage = "reading" THEN event ELSE client

breaks ==
  /\ client.stage = "reading"
  /\ client' = Stopped /\ UNCHANGED agent

(***************************************************************************)
(* The run: one tool call after another, then an answer.  Its thread has   *)
(* its tool messages once it is over, before the stream is closed.         *)
(***************************************************************************)
Mutating == {"edit_dashboard", "replace_dashboard"}
ToolNames == Mutating \cup {"get_dashboard"}

callTool(t, name, board) ==
  /\ agent.state = "running" /\ agent.tool = NoTool /\ t \notin agent.used
  /\ agent' = [agent EXCEPT !.tool = t, !.name = name, !.board = board, !.answer = Nothing,
                            !.used = @ \cup {t}]
  /\ Read(toolEnd(toolStart(client, t, name, board), t))

perform(failed) ==
  /\ agent.state = "running" /\ agent.tool # NoTool /\ agent.answer = Nothing
  /\ LET save == Saved(agent.board, Version(agent.board) + 1)
         saves == agent.name \in Mutating /\ ~failed
     IN /\ saves => save.version <= MaxVersion
        /\ agent' = [agent EXCEPT !.answer = IF failed THEN Failure
                                             ELSE IF saves THEN save
                                             ELSE Saved(agent.board, Version(agent.board)),
                                  !.saves = IF saves THEN Append(@, save) ELSE @]
  /\ UNCHANGED client

returnResult(app) ==
  /\ agent.state = "running" /\ agent.answer # Nothing
  /\ agent' = [agent EXCEPT !.tool = NoTool, !.answer = Nothing,
                            !.pending = @ \cup {[id |-> agent.tool, error |-> agent.answer = Failure]}]
  /\ LET c == toolResult(client, agent.tool, agent.answer)
     IN Read(IF app THEN snapshot(c, agent.name, agent.board, agent.answer = Failure) ELSE c)

respond ==
  /\ agent.state = "running" /\ agent.tool = NoTool
  /\ Read([client EXCEPT !.text = TRUE]) /\ UNCHANGED agent

endRun(kind) ==
  /\ agent.state = "running" /\ agent.tool = NoTool
  /\ agent' = [agent EXCEPT !.state = "over", !.thread = agent.pending]
  /\ Read(terminal(client, kind))

\* The server stops: nobody hears of the tool it was running.
serverDies ==
  /\ agent.state = "running"
  /\ agent' = [agent EXCEPT !.state = "over"]
  /\ client' = IF client.stage = "reading" THEN Stopped ELSE client

(***************************************************************************)
(* turn: the evidence.  messages is empty where the thread was not read.   *)
(***************************************************************************)
WithMessages(tools, messages) ==
  [i \in DOMAIN tools |->
     IF \E m \in messages : m.id = tools[i].id
     THEN [tools[i] EXCEPT !.is_error =
             IF @ = "yes" \/ (\E m \in messages : m.id = tools[i].id /\ m.error) THEN "yes" ELSE "no"]
     ELSE tools[i]]

findSaved(tools) ==
  LET IsSave(tool) == tool.name \in Mutating /\ tool.is_error = "no" /\ tool.result.kind = "dashboard"
      saves == SelectSeq(tools, IsSave)
  IN IF saves = <<>> \/ (\E i, j \in DOMAIN saves : saves[i].result.board # saves[j].result.board) THEN Nothing
     ELSE Last(saves).result

mutationObserved(tools) == \E i \in DOMAIN tools : tools[i].name \in Mutating

mutationEvidence(tools, messages, read) ==
  /\ read /\ ~client.incomplete
  /\ \A i \in DOMAIN tools : /\ tools[i].result # Nothing /\ tools[i].is_error = "no" /\ tools[i].ended
                             /\ \E m \in messages : m.id = tools[i].id
  /\ \A m \in messages : Started(tools, m.id)

\* identity: the models were those expected; metered: every call's usage came;
\* the panels of the saved dashboard are run again as it was saved.
turn(read, metered, identity, versions, valid, checked) ==
  LET messages == IF read THEN agent.thread ELSE {}
      tools == WithMessages(client.tools, messages)
      save == findSaved(tools)
      broken == save # Nothing /\ ~versions
      complete == metered /\ client.terminal = "RUN_FINISHED" /\ ~client.incomplete
  IN /\ client.stage = "ended"
     /\ valid => checked
     /\ client' = [client EXCEPT !.stage = "done", !.tools = tools,
          !.result = [kind |-> "run", complete |-> complete, read |-> read, text |-> client.text,
                      saved |-> save # Nothing, record |-> save,
                      checked |-> save # Nothing /\ versions /\ checked,
                      valid |-> save # Nothing /\ versions /\ valid,
                      mutation_observed |-> mutationObserved(tools),
                      mutation_evidence_complete |-> mutationEvidence(tools, messages, read),
                      incomplete |-> broken \/ ~metered \/ ~identity \/ client.incomplete
                                       \/ (save # Nothing /\ ~checked)]]
     /\ UNCHANGED agent

answerPass(r) ==
  /\ r.complete /\ ~r.incomplete /\ r.text /\ ~r.saved
  /\ ~r.mutation_observed /\ r.mutation_evidence_complete

StreamNext ==
  \/ \E arrives, answered \in BOOLEAN : requestResponse(arrives, answered)
  \/ \E t \in Tools, name \in ToolNames, board \in Boards : callTool(t, name, board)
  \/ \E failed \in BOOLEAN : perform(failed)
  \/ \E app \in BOOLEAN : returnResult(app)
  \/ \E kind \in {"RUN_FINISHED", "RUN_ERROR"} : endRun(kind)
  \/ respond \/ breaks \/ serverDies
  \/ \E read, metered, identity, versions, valid, checked \in BOOLEAN :
       turn(read, metered, identity, versions, valid, checked)

(***************************************************************************)
(* A run credited with an answer changed no dashboard, whatever was lost   *)
(* of its events or of its thread (transport.ts:135-142: "An attempted     *)
(* write is conservative evidence even when its result claims failure").   *)
(* A complete run whose thread was read is credited with the last version  *)
(* it wrote, and only where it wrote to one dashboard                      *)
(* (transport.ts:118-134).                                                 *)
(***************************************************************************)
CreditedWithWhatItDid ==
  client.result.kind = "run" =>
    /\ answerPass(client.result) => agent.saves = <<>>
    /\ client.result.complete /\ client.result.saved /\ client.result.read =>
         /\ client.result.record = Last(agent.saves)
         /\ \A i \in DOMAIN agent.saves : agent.saves[i].board = client.result.record.board

-----------------------------------------------------------------------------
(* What was saved is judged.                                              *)

scoreVars == <<edit, run>>

Panels(ids) == [id : ids, content : Contents, grid : Grids]
Distinct(panels) == \A i, j \in DOMAIN panels : i # j => panels[i].id # panels[j].id
PanelLists(ids) == {l \in UNION {[1..n -> Panels(ids)] : n \in 1..Cardinality(ids)} : Distinct(l)}
IdsOf(panels) == {panels[i].id : i \in DOMAIN panels}
Of(panels, id) == panels[CHOOSE i \in DOMAIN panels : panels[i].id = id]

(***************************************************************************)
(* buildEdit: an empty set where the edit cannot be authored               *)
(***************************************************************************)
Inputs ==
  [operation : {"add"}, panel_id : {New}, value : Contents, grid : Grids, after : Ids \cup {NoPanel}]
    \cup [operation : {"content"}, panel_id : Ids, value : Contents]
    \cup [operation : {"remove"}, panel_id : Ids]
    \cup [operation : {"move"}, panel_id : Ids, grid : Grids]

At(panels, id) == CHOOSE i \in DOMAIN panels : panels[i].id = id

Inserted(panels, at, panel) == SubSeq(panels, 1, at) \o <<panel>> \o SubSeq(panels, at + 1, Len(panels))

With(before, panels) == IF panels = before.panels THEN {} ELSE {[before EXCEPT !.panels = panels]}

buildEdit(before, input) ==
  LET panels == before.panels
      known == input.panel_id \in IdsOf(panels)
  IN CASE input.operation = "add" ->
            IF New \in IdsOf(panels) \/ input.after \notin IdsOf(panels) \cup {NoPanel} THEN {}
            ELSE With(before, Inserted(panels, IF input.after = NoPanel THEN Len(panels)
                                               ELSE At(panels, input.after),
                                       [id |-> New, content |-> input.value, grid |-> input.grid]))
       [] ~known -> {}
       [] input.operation = "remove" -> With(before, RemoveAt(panels, At(panels, input.panel_id)))
       [] input.operation = "content" ->
            With(before, [panels EXCEPT ![At(panels, input.panel_id)].content = input.value])
       [] OTHER -> With(before, [panels EXCEPT ![At(panels, input.panel_id)].grid = input.grid])

(***************************************************************************)
(* changedPanels: by their content, and the fewest that moved              *)
(***************************************************************************)
Order(panels, ids) == SelectSeq([i \in DOMAIN panels |-> panels[i].id], LAMBDA id : id \in ids)

\* The longest common subsequences of the tails of two orders.
Lengths(a, b) ==
  LET l[i \in 1..Len(a) + 1, j \in 1..Len(b) + 1] ==
        IF i > Len(a) \/ j > Len(b) THEN 0
        ELSE IF a[i] = b[j] THEN 1 + l[i + 1, j + 1]
        ELSE IF l[i + 1, j] >= l[i, j + 1] THEN l[i + 1, j] ELSE l[i, j + 1]
  IN l

Retained(a, b) ==
  LET lengths == Lengths(a, b)
      kept[i \in 1..Len(a) + 1, j \in 1..Len(b) + 1] ==
        IF i > Len(a) \/ j > Len(b) THEN {}
        ELSE IF a[i] = b[j] THEN {a[i]} \cup kept[i + 1, j + 1]
        ELSE IF lengths[i + 1, j] >= lengths[i, j + 1] THEN kept[i + 1, j] ELSE kept[i, j + 1]
  IN kept[1, 1]

changedPanels(before, after) ==
  LET both == IdsOf(before) \cap IdsOf(after)
      kept == Retained(Order(before, both), Order(after, both))
  IN {id \in IdsOf(before) \cup IdsOf(after) :
        \/ id \notin kept
        \/ Of(before, id).content # Of(after, id).content}

(***************************************************************************)
(* compareEdit                                                             *)
(***************************************************************************)
normalized(spec) ==
  [meta |-> spec.meta,
   panels |-> [i \in DOMAIN spec.panels |-> [id |-> spec.panels[i].id, content |-> spec.panels[i].content]]]

physical(spec) == {[id |-> spec.panels[i].id, grid |-> spec.panels[i].grid] : i \in DOMAIN spec.panels}

\* A panel the edit adds may come back with the server's defaults (panelDefaults).
comparable(before, after, expected, operation) ==
  LET authored(p) == IF /\ operation = "add" /\ p.id \in IdsOf(expected.panels) \ IdsOf(before.panels)
                        /\ p.content = Served[Of(expected.panels, p.id).content]
                     THEN [p EXCEPT !.content = Of(expected.panels, p.id).content] ELSE p
  IN normalized([after EXCEPT !.panels = [i \in DOMAIN after.panels |-> authored(after.panels[i])]])

\* Mutant of compareEdit: the layout is not looked at.
compareContents(before, after, expected, operation) ==
  /\ normalized(before) # normalized(expected)
  /\ comparable(before, after, expected, operation) = normalized(expected)

compareEdit(before, after, expected, operation) ==
  LET layoutChanged == physical(before) # physical(after)
      noOp == /\ normalized(before) = normalized(expected)
              /\ ~(operation = "move" /\ physical(before) # physical(expected))
      moveOK == operation = "move" =>
        \A p \in physical(expected) : p \in physical(after)
  IN /\ ~noOp /\ comparable(before, after, expected, operation) = normalized(expected)
     /\ operation \in {"add", "remove", "move"} \/ ~layoutChanged
     /\ moveOK
     /\ changedPanels(before.panels, after.panels) = changedPanels(before.panels, expected.panels)

(***************************************************************************)
(* The checks of a run's panels                                            *)
(***************************************************************************)
RunPanels == [id : Ids, kind : {"chart", "text", "described"}]
Checks == [id : Ids \cup {New}, status : {"rows", "no rows", "diagnosed", "error"}]

\* executePanels: the server answered for every panel of the dashboard, once.
checked(panels, checks) ==
  /\ Len(checks) = Len(panels)
  /\ Cardinality(IdsOf(checks)) = Len(panels)
  /\ IdsOf(panels) \subseteq IdsOf(checks)

panelPass(panel, checks) ==
  LET matches == {i \in DOMAIN checks : checks[i].id = panel.id}
  IN /\ Cardinality(matches) = 1
     /\ \E i \in matches :
          \/ checks[i].status = "rows"
          \/ checks[i].status = "no rows" /\ panel.kind = "text"
          \/ checks[i].status = "diagnosed" /\ panel.kind = "described"

\* score's S2 of one run, and scoreIntent's verdict on it.
PanelsPass(r) ==
  LET good == {i \in DOMAIN r.panels : r.checked /\ panelPass(r.panels[i], r.checks)}
  IN /\ Len(r.panels) > 0 /\ Cardinality(good) = Len(r.panels)
     /\ r.checked /\ Len(r.checks) = Len(r.panels)
     /\ Cardinality(IdsOf(r.panels)) = Len(r.panels)

scoreIntent(r) ==
  LET good == {i \in DOMAIN r.panels : panelPass(r.panels[i], r.checks)}
  IN /\ r.checked /\ Len(r.panels) > 0 /\ Len(r.checks) = Len(r.panels)
     /\ Cardinality(IdsOf(r.checks)) = Len(r.panels) /\ Cardinality(IdsOf(r.panels)) = Len(r.panels)
     /\ IdsOf(r.panels) \subseteq IdsOf(r.checks)
     /\ Cardinality(good) = Len(r.panels)

(***************************************************************************)
(* An edit is authored, made by the agent in whatever way, and compared;   *)
(* the panels of a run are checked.                                        *)
(***************************************************************************)
Specs(ids) == [meta : Metas, panels : PanelLists(ids)]
NoInput == [operation |-> "none"]

ScoreInit ==
  /\ \/ \E before \in Specs(Ids) :
            edit = [stage |-> "saved", before |-> before, input |-> NoInput, expected |-> before,
                    after |-> before, passed |-> FALSE]
     \/ edit = [stage |-> "none"]
  /\ run = [panels |-> <<>>, checks |-> <<>>, checked |-> FALSE]

author(input) ==
  /\ edit.stage = "saved"
  /\ \E expected \in buildEdit(edit.before, input) :
       edit' = [edit EXCEPT !.stage = "authored", !.input = input, !.expected = expected]
  /\ UNCHANGED run

agentSaves(after) ==
  /\ edit' = [edit EXCEPT !.stage = "compared", !.after = after,
                !.passed = compareEdit(edit.before, after, edit.expected, edit.input.operation)]
  /\ UNCHANGED run

executePanels(panels, checks) ==
  /\ run' = [panels |-> panels, checks |-> checks, checked |-> checked(panels, checks)]
  /\ UNCHANGED edit

\* The agent keeps the panels and their order, or does something else.
ScoreNext ==
  \/ \E input \in Inputs : author(input)
  \/ edit.stage = "authored" /\ \E after \in Specs(Ids \cup {New}) : agentSaves(after)
  \/ /\ edit.stage = "none" /\ run.panels = <<>>
     /\ \E n \in 1..MaxChecks, k \in 0..MaxChecks :
          \E panels \in [1..n -> RunPanels], checks \in [1..k -> Checks] : executePanels(panels, checks)

(***************************************************************************)
(* An edit that passes left every panel it was not about as it was: there, *)
(* with its content, in its order among the others and, where the edit     *)
(* places nothing, in its place; and an edit made as authored passes       *)
(* (score.ts:54-80).  What changed is what a reader would say changed:     *)
(* the fewest panels whose moves explain the new order.                    *)
(***************************************************************************)
Target == IF edit.input.operation = "add" THEN New ELSE edit.input.panel_id

KeptInOrder(ids, a, b) == Order(a, ids) = Order(b, ids)

EditJudged ==
  edit.stage = "compared" =>
    LET before == edit.before.panels  after == edit.after.panels
        others == IdsOf(before) \ {Target}
        both == IdsOf(before) \cap IdsOf(after)
        kept == both \ {id \in both \cap changedPanels(before, after) : Of(before, id).content = Of(after, id).content}
    IN /\ edit.passed =>
            /\ others \subseteq IdsOf(after) /\ IdsOf(after) \subseteq others \cup {Target}
            /\ \A id \in others : Of(before, id).content = Of(after, id).content
            /\ KeptInOrder(others, before, after) /\ edit.after.meta = edit.before.meta
            /\ edit.input.operation = "content" =>
                 \A id \in IdsOf(before) : Of(before, id).grid = Of(after, id).grid
       /\ edit.after = edit.expected => edit.passed
       /\ \A more \in SUBSET both :
            KeptInOrder(more, before, after) => Cardinality(more) <= Cardinality(kept)

(***************************************************************************)
(* The two scores agree on a run: panels and checks are one to one, and    *)
(* every panel shows something or explains why it does not                 *)
(* (score.ts:27, intent.ts:18-20, transport.ts:149).                       *)
(***************************************************************************)
OneCheckEach ==
  LET match == {m \in (DOMAIN run.panels) \X (DOMAIN run.checks) : run.panels[m[1]].id = run.checks[m[2]].id}
      oneToOne == /\ \A i \in DOMAIN run.panels : Cardinality({m \in match : m[1] = i}) = 1
                  /\ \A j \in DOMAIN run.checks : Cardinality({m \in match : m[2] = j}) = 1
  IN /\ PanelsPass(run) = scoreIntent(run)
     /\ PanelsPass(run) =>
          oneToOne /\ \A m \in match : run.checks[m[2]].status # "error"
=============================================================================
