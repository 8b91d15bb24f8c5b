------------------------------ MODULE PanelCard ------------------------------
(***************************************************************************)
(* The card around one panel (dashboards/panel-card.tsx) and the rows it   *)
(* shows as a table (viz/table.tsx, viz/row-panel.tsx, panels/rows.ts):    *)
(* the result it was given last, what it says of a failure and of the age  *)
(* of stale data, the columns it folds, and the rows a reader opened.      *)
(***************************************************************************)
EXTENDS Naturals, Sequences, FiniteSets

LOCAL INSTANCE FiniteSetsExt

CONSTANTS
  Results,   \* what the batches can leave for this panel (see Result below)
  NoResult,
  NoRange,   \* the data is not stale
  Viz,       \* "logs", or a table that does or does not act on its rows
  Page,      \* controls.page: rows shown at a time
  Beat,      \* the 30 s of the staleness timer, in ticks
  MaxAge     \* bound on the ticks a result stays stale

(***************************************************************************)
(* A result is [status, busy, error, request, frame]: `request' is a       *)
(* request_error that can be sent again.  A frame is a sequence of rows,   *)
(* each a function from columns to values; <<>> when there is none.        *)
(* Foldable columns are the string dimensions that are neither a message,  *)
(* a severity, a status nor an id.                                         *)
(***************************************************************************)
VARIABLE card

cardVars == <<card>>

Foldable == {"service", "namespace"}

Columns(frame) == IF frame = <<>> THEN {} ELSE DOMAIN frame[1]

\* logConstants: only the context a page of logs repeats on every row.
logConstants(viz, frame) ==
  IF viz # "logs" \/ Len(frame) < 2 THEN {}
  ELSE {c \in Columns(frame) \cap Foldable :
          /\ frame[1][c] # ""
          /\ \A i \in DOMAIN frame : frame[i][c] = frame[1][c]}

\* The columns the table draws, and the values the subtitle of the card adds.
columns(viz, frame) == Columns(frame) \ logConstants(viz, frame)

constants(viz, frame) == {frame[1][c] : c \in logConstants(viz, frame)}

(***************************************************************************)
(* severityLabel: a word with an optional grade 2 to 4, or one of the      *)
(* twenty-four severity numbers.  Words other than the six say nothing.    *)
(***************************************************************************)
Words == <<"TRACE", "DEBUG", "INFO", "WARN", "ERROR", "FATAL">>

severityLabel(raw) ==
  CASE raw.word = "CRITICAL" -> "FATAL"
    [] raw.word = "WARNING" -> "WARN"
    [] raw.word = "" /\ raw.number \in 1 .. 24 -> Words[((raw.number - 1) \div 4) + 1]
    [] raw.number \in {0} \cup 2 .. 4 /\ \E i \in DOMAIN Words : Words[i] = raw.word -> raw.word
    [] OTHER -> "none"

\* The ink of the badge.
badge(raw) ==
  CASE severityLabel(raw) \in {"ERROR", "FATAL"} -> "bad"
    [] severityLabel(raw) = "WARN" -> "warn"
    [] OTHER -> "plain"

(***************************************************************************)
(* What the card says of its result                                        *)
(***************************************************************************)
HasFrame(r) == r # NoResult /\ r.frame # <<>>

\* An error over the frame of an earlier run; the two remedies of an error.
refreshError(r) == HasFrame(r) /\ r.error
retryable(r) == r # NoResult /\ r.request
fixable(r) == r # NoResult /\ r.error /\ ~retryable(r)

\* The body, in the order its conditions are tried.
body(c) ==
  CASE c.view # "Chart" -> c.view
    [] c.result = NoResult -> "loading"
    [] c.result.status = "error" /\ c.result.busy -> "busy"
    [] c.result.status \in {"error", "invalid"} -> "error"
    [] c.result.status = "empty" -> "empty"
    [] OTHER -> "chart"

\* Where Retry and "Ask Fanout to fix it" are offered.
RetryBoxes(c) ==
     (IF refreshError(c.result) /\ retryable(c.result) THEN {"menu"} ELSE {})
  \cup (IF body(c) = "busy" \/ (body(c) = "error" /\ retryable(c.result)) THEN {"body"} ELSE {})

Fixes(c) ==
     (IF fixable(c.result) THEN {"menu"} ELSE {})
  \cup (IF body(c) = "error" /\ fixable(c.result) THEN {"body"} ELSE {})

tooltipOpen(c) == refreshError(c.result) /\ ~c.dismissed /\ (c.focused \/ c.hovered)

\* Stale data is dated by a note, or beside the error the tooltip shows.
notes(c) == IF c.age # NoRange /\ ~refreshError(c.result) THEN {"stale"} ELSE {}
refreshAge(c) == IF c.age # NoRange /\ refreshError(c.result) THEN {"stale"} ELSE {}

Rows(c) == IF HasFrame(c.result) THEN Len(c.result.frame) ELSE 0

(***************************************************************************)
(* `age' is how long ago the data ran, `lag' how far the `now' the card    *)
(* renders with is behind the clock.  `opened' remembers, beside the row   *)
(* numbers of the table's state, on which frame a row was opened.          *)
(***************************************************************************)
CardInit ==
  \E v \in Viz :
    card = [viz |-> v, result |-> NoResult, age |-> NoRange, lag |-> 0, view |-> "Chart",
            focused |-> FALSE, hovered |-> FALSE, dismissed |-> FALSE,
            expanded |-> {}, shown |-> Page, opened |-> {}]

\* A new frame closes every row and goes back to the first page.
Reset(c, r) ==
  IF HasFrame(r) /\ HasFrame(c.result) /\ r.frame = c.result.frame THEN c
  ELSE [c EXCEPT !.expanded = {}, !.shown = Page]

\* A new staleAt reads the clock and starts the timer.
Staled(c, age) ==
  IF age = c.age THEN c
  ELSE [c EXCEPT !.age = age, !.lag = IF age = NoRange THEN c.lag ELSE 0]

\* A batch leaves a result for the panel, and says how old its frame is.
receive ==
  \E r \in Results, age \in {NoRange} \cup 0 .. MaxAge :
    /\ r # card.result
    /\ age # NoRange => HasFrame(r)
    /\ card' = [Staled(Reset(card, r), age) EXCEPT !.result = r]

\* The clock: the interval of a stale card reads it again at every beat.
Tick ==
  /\ card.age # NoRange => card.age < MaxAge
  /\ card' = IF card.age = NoRange THEN [card EXCEPT !.lag = Beat]
             ELSE [card EXCEPT !.age = @ + 1,
                               !.lag = IF @ + 1 = Beat THEN 0 ELSE @ + 1]

setView == \E v \in {"Chart", "Data", "Spec"} \ {card.view} : card' = [card EXCEPT !.view = v]

(***************************************************************************)
(* The menu button carries the tooltip                                     *)
(***************************************************************************)
closeTooltip(c) == [c EXCEPT !.dismissed = TRUE, !.focused = FALSE, !.hovered = FALSE]

\* Focus shows the tooltip only when it comes from the keyboard.
focus ==
  \E visible \in BOOLEAN :
    card' = [card EXCEPT !.focused = visible, !.dismissed = IF visible THEN FALSE ELSE @]

blur == card.focused /\ card' = [card EXCEPT !.focused = FALSE]
enter == card' = [card EXCEPT !.hovered = TRUE, !.dismissed = FALSE]
leave == card.hovered /\ card' = closeTooltip(card)
dismiss == tooltipOpen(card) /\ card' = closeTooltip(card)
openMenu == card' = closeTooltip(card)

(***************************************************************************)
(* The rows.  A click, Enter or Space on a row opens it where the table    *)
(* has messages; a table that acts on its rows acts, except in logs.       *)
(***************************************************************************)
Table == body(card) = "chart" /\ HasFrame(card.result)

canExpand == "body" \in Columns(card.result.frame)

rowInteractive == card.viz = "acting"

Visible == 1 .. (IF card.shown < Rows(card) THEN card.shown ELSE Rows(card))

toggle(i) ==
  /\ Table /\ i \in Visible
  /\ canExpand /\ (card.viz = "logs" \/ ~rowInteractive)
  /\ LET flip(S, e) == IF e \in S THEN S \ {e} ELSE S \cup {e}
     IN card' = [card EXCEPT !.expanded = flip(@, i),
                             !.opened = IF i \in card.expanded
                                        THEN @ \ {<<card.result.frame, i>>}
                                        ELSE {o \in @ : o[1] = card.result.frame}
                                               \cup {<<card.result.frame, i>>}]

showMore ==
  /\ Table /\ card.shown < Rows(card)
  /\ card' = [card EXCEPT !.shown = @ + Page]

CardNext ==
  \/ receive \/ Tick \/ setView
  \/ focus \/ blur \/ enter \/ leave \/ dismiss \/ openMenu
  \/ \E i \in 1 .. 3 : toggle(i)
  \/ showMore

(***************************************************************************)
(* Properties                                                              *)
(***************************************************************************)

(***************************************************************************)
(* The age a stale card tells is never more than a beat behind: a staleAt  *)
(* that comes long after the card was mounted reads the clock at once, and *)
(* it is told in exactly one place, the note or the refresh error.         *)
(***************************************************************************)
AgeIsTold ==
  card.age # NoRange =>
    card.lag < Beat /\ Cardinality(notes(card)) + Cardinality(refreshAge(card)) = 1

(***************************************************************************)
(* A row shown open was opened by the reader on the frame that is shown:   *)
(* a refresh that brings other rows never leaves their numbers open.       *)
(***************************************************************************)
OpenRowsWereOpened ==
  \A i \in card.expanded : <<card.result.frame, i>> \in card.opened

(***************************************************************************)
(* In the chart view every failure has exactly one remedy: one that can be *)
(* sent again offers Retry, any other asks for a fix.                      *)
(***************************************************************************)
FailureHasARemedy ==
  (card.view = "Chart" /\ card.result # NoResult /\ card.result.error)
    => ((RetryBoxes(card) # {}) # (Fixes(card) # {}))

(***************************************************************************)
(* Folding a column never makes two rows alike that are not, and what is   *)
(* folded is still read in the subtitle.                                   *)
(***************************************************************************)
FoldingKeepsRowsApart ==
  HasFrame(card.result) =>
    LET f == card.result.frame
        drawn == columns(card.viz, f)
    IN \A i, j \in DOMAIN f :
         /\ f[i] # f[j] => \E c \in drawn : f[i][c] # f[j][c]
         /\ \A c \in Columns(f) \ drawn : f[i][c] \in constants(card.viz, f)

(***************************************************************************)
(* A severity reads the same as a number and as its name: the number n is  *)
(* the word of its group of four with the grade it has in the group.       *)
(***************************************************************************)
SeveritiesAgree ==
  \A w \in DOMAIN Words, grade \in 1 .. 4 :
    LET named == [word |-> Words[w], number |-> IF grade = 1 THEN 0 ELSE grade]
        counted == [word |-> "", number |-> 4 * (w - 1) + grade]
    IN badge(named) = badge(counted) /\ severityLabel(counted) = Words[w]

=============================================================================
