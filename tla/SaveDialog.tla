----------------------------- MODULE SaveDialog -----------------------------
(***************************************************************************)
(* "Save to dashboard" of the Explore pages: SaveDialog                    *)
(* (src/ui/host/src/explore/save-dialog.tsx), open in several windows over *)
(* the same dashboards.  A save reads the dashboard, names its panel apart *)
(* from those it read, and adds it to the version it read; it is sent at   *)
(* most once per press.  Panel ids are numbers: 1 for "explore", n for     *)
(* "explore_n".                                                            *)
(***************************************************************************)
EXTENDS Naturals, FiniteSets

LOCAL INSTANCE FiniteSetsExt

CONSTANTS Dialogs, Boards, NoBoard,
          MaxPresses,   \* bound: presses of Save in one dialog
          MaxElsewhere  \* bound: edits of others

VARIABLES boards,    \* external, the server: the panels of each dashboard it holds, and its version
          dialogs    \* the component's state, and the answer on its way to it

saveVars == <<boards, dialogs>>

Board(version, panels) == [version |-> version, panels |-> panels]
Held == {b \in Boards : boards[b] # NoBoard}
Ids(panels) == {p.id : p \in panels}

\* Mutant of uniquePanelID: the panels are counted instead of looked at.
countedPanelID(taken) == Cardinality(taken) + 1

uniquePanelID(taken) == Min((1 .. Cardinality(taken) + 1) \ taken)

SaveInit ==
  /\ boards \in [Boards -> {NoBoard} \cup {Board(1, {[id |-> n, by |-> <<>>]}) : n \in 1 .. 2}]
  /\ dialogs = [d \in Dialogs |->
       [open |-> TRUE, saving |-> "no", into |-> NoBoard, read |-> NoBoard, presses |-> 0,
        outcome |-> [p \in 1 .. MaxPresses |-> "none"]]]

Set(d, state) == dialogs' = [dialogs EXCEPT ![d] = state]

\* One save at a time, into the dashboard that is chosen at the press or, with
\* none, into a new one; the fields may be edited while it is under way.
save(d, into) ==
  /\ dialogs[d].open /\ dialogs[d].saving = "no" /\ into \in Held \cup {NoBoard}
  /\ dialogs[d].presses < MaxPresses
  /\ Set(d, [dialogs[d] EXCEPT !.saving = IF into = NoBoard THEN "create" ELSE "get",
                               !.into = into, !.presses = @ + 1])
  /\ UNCHANGED boards

ReceiveGet(d) ==
  /\ dialogs[d].saving = "get"
  /\ Set(d, [dialogs[d] EXCEPT !.saving = "patch", !.read = boards[dialogs[d].into]])
  /\ UNCHANGED boards

Own(d, id) == [id |-> id, by |-> <<d, dialogs[d].presses>>]

ServeCreate(d) ==
  /\ dialogs[d].saving = "create"
  /\ \E b \in Boards \ Held :
       /\ boards' = [boards EXCEPT ![b] = Board(1, {Own(d, 1)})]
       /\ Set(d, [dialogs[d] EXCEPT !.saving = "saved"])

\* External, the server: an edit counts for the version it was made for only.
ServePatch(d) ==
  /\ dialogs[d].saving = "patch"
  /\ LET b == dialogs[d].into
         read == dialogs[d].read
     IN IF boards[b].version = read.version
        THEN /\ boards' = [boards EXCEPT ![b] = Board(read.version + 1,
                             @.panels \cup {Own(d, uniquePanelID(Ids(read.panels)))})]
             /\ Set(d, [dialogs[d] EXCEPT !.saving = "saved"])
        ELSE UNCHANGED boards /\ Set(d, [dialogs[d] EXCEPT !.saving = "conflict"])

Outcome(d, outcome) ==
  Set(d, [dialogs[d] EXCEPT !.outcome[dialogs[d].presses] = outcome, !.saving = "no", !.into = NoBoard,
                            !.read = NoBoard, !.open = outcome # "saved"])

Answer(d) ==
  /\ dialogs[d].saving \in {"saved", "conflict"}
  /\ Outcome(d, dialogs[d].saving) /\ UNCHANGED boards

\* Any request may fail, or its answer be lost after the server has done it.
Fails(d) == dialogs[d].saving # "no" /\ Outcome(d, "failed") /\ UNCHANGED boards

\* Cancel, Escape and a click outside wait for the save under way.
Close(d) ==
  /\ dialogs[d].open /\ dialogs[d].saving = "no"
  /\ Set(d, [dialogs[d] EXCEPT !.open = FALSE]) /\ UNCHANGED boards

\* External: the dashboard is edited elsewhere, by a panel that takes some id.
Elsewhere(b) ==
  /\ b \in Held /\ boards[b].version <= MaxElsewhere
  /\ \E id \in 1 .. 2 :
       /\ id \notin Ids(boards[b].panels)
       /\ boards' = [boards EXCEPT ![b] = Board(@.version + 1, @.panels \cup {[id |-> id, by |-> <<>>]})]
  /\ UNCHANGED dialogs

SaveNext ==
  \/ \E d \in Dialogs : \/ ReceiveGet(d) \/ ServeCreate(d) \/ ServePatch(d)
                        \/ Answer(d) \/ Fails(d) \/ Close(d)
  \/ \E d \in Dialogs, b \in Boards \cup {NoBoard} : save(d, b)
  \/ \E b \in Boards : Elsewhere(b)

\* What a press put on the dashboards, wherever.
PutBy(d, press) == {put \in UNION {{b} \X boards[b].panels : b \in Held} : put[2].by = <<d, press>>}

\* No interleaving of windows, edits and lost answers puts two panels under one
\* id, or two panels for one press; a press told as saved has put its panel, and
\* one told as a conflict none, so that "Save again" is right
\* (save-dialog.tsx:54, uniquePanelID).
SavesTell ==
  /\ \A b \in Held : Cardinality(Ids(boards[b].panels)) = Cardinality(boards[b].panels)
  /\ \A d \in Dialogs, press \in 1 .. MaxPresses :
       /\ Cardinality(PutBy(d, press)) <= 1
       /\ dialogs[d].outcome[press] = "saved" => PutBy(d, press) # {}
       /\ dialogs[d].outcome[press] = "conflict" => PutBy(d, press) = {}
=============================================================================
