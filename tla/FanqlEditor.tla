----------------------------- MODULE FanqlEditor -----------------------------
(***************************************************************************)
(* The one-line query editor (fanql-editor/fanql-editor.tsx): a document   *)
(* the reader types into, the value its page renders back, the completion  *)
(* list, and the problems and notices of the last run with their fix-its.  *)
(*                                                                         *)
(* A text is [id, len]: its length in code points matters to the spans,    *)
(* what it says only to whether two texts are the same.  Two fields of `ed'*)
(* are read by the properties alone: last, who put the last text in, and   *)
(* crossed, one put it in before the page had rendered the other's.        *)
(***************************************************************************)
EXTENDS Integers, Sequences, FiniteSets

CONSTANTS
  Texts,
  Reports,   \* [problems, notices]: what a run can say of a text
  NoSpan,    \* of a problem about the whole query
  MaxBatch,  \* bound on the texts put in before the page renders
  MaxEchoes  \* bound on the reported texts that have not come back

(***************************************************************************)
(* An item is [span, fixes], a fix [span, size]: it replaces the span by   *)
(* `size' code points.                                                     *)
(***************************************************************************)
VARIABLE ed

editorVars == <<ed>>

NoList == [status |-> "none", for |-> "none"]

Touches(fix, span) == span.start <= fix.span.end /\ fix.span.start <= span.end

delta(fix) == fix.size - (fix.span.end - fix.span.start)

move(fix, span) ==
  IF span.start >= fix.span.end
  THEN [start |-> span.start + delta(fix), end |-> span.end + delta(fix)] ELSE span

(***************************************************************************)
(* keep: what a fix-it leaves standing.  Items it touches, themselves or   *)
(* with a fix-it of theirs, go, and so do problems of the whole query.     *)
(***************************************************************************)
shift(fix, items) ==
  {[span |-> IF i.span = NoSpan THEN NoSpan ELSE move(fix, i.span),
    fixes |-> {[f EXCEPT !.span = move(fix, @)] : f \in i.fixes}] :
     i \in {j \in items : /\ j.span # NoSpan => ~Touches(fix, j.span)
                          /\ \A f \in j.fixes : ~Touches(fix, f.span)}}

\* Mutant of keep: the marks of what stays are not moved.
keepUnmoved(fix, report) ==
  [problems |-> {p \in report.problems : p.span # NoSpan /\ ~Touches(fix, p.span)},
   notices |-> shift(fix, report.notices)]

keep(fix, report) ==
  [problems |-> shift(fix, {p \in report.problems : p.span # NoSpan}),
   notices |-> shift(fix, report.notices)]

Silent == [problems |-> {}, notices |-> {}]

EditorInit ==
  \E t \in Texts :
    ed = [doc |-> t, value |-> t, last |-> "page", queue |-> <<>>, echoes |-> <<>>,
          report |-> Silent, next |-> Silent, list |-> NoList, navigated |-> FALSE,
          failures |-> 0, runs |-> FALSE, crossed |-> FALSE]

Crossing(e, who) == e.crossed \/ (e.queue # <<>> /\ e.last # who)

(***************************************************************************)
(* A transaction of the reader's: the update listener reports the text,    *)
(* with what a fix-it leaves standing.  The page sets its state; several   *)
(* edits of one event may be rendered as one, or one after another.        *)
(***************************************************************************)
Edited(e, text, report) ==
  [e EXCEPT !.doc = text, !.echoes = Append(@, text), !.queue = Append(@, text),
            !.last = "reader", !.crossed = Crossing(e, "reader"), !.next = report, !.navigated = FALSE,
            !.list = IF @.status = "none" THEN @ ELSE NoList, !.runs = FALSE]

CanEdit == Len(ed.queue) < MaxBatch /\ Len(ed.echoes) < MaxEchoes

type == \E t \in Texts \ {ed.doc} : CanEdit /\ ed' = Edited(ed, t, Silent)

Fixes(report) == UNION {i.fixes : i \in report.problems \cup report.notices}

\* A fix-it is clicked beside its message: the page has rendered by then.
applyFix ==
  \E fix \in Fixes(ed.report) :
    /\ ed.queue = <<>> /\ CanEdit
    /\ fix.span.end <= ed.doc.len
    /\ \E t \in Texts : /\ t.len = ed.doc.len + delta(fix)
                        /\ ed' = Edited(ed, t, keep(fix, ed.report))

(***************************************************************************)
(* The page renders the texts that its state was set to, in order, the     *)
(* last of a batch.  The value effect runs when the value changed: an echo *)
(* is dropped with those before it, and any other text is taken for the    *)
(* page's and replaces the document.                                       *)
(***************************************************************************)
firstEcho(e, text) ==
  CHOOSE i \in DOMAIN e.echoes : e.echoes[i] = text /\ \A j \in 1 .. i - 1 : e.echoes[j] # text

Echoed(e, text) ==
  IF \E i \in DOMAIN e.echoes : e.echoes[i] = text
  THEN [e EXCEPT !.echoes = SubSeq(@, firstEcho(e, text) + 1, Len(@))]
  ELSE [e EXCEPT !.echoes = <<>>, !.doc = text,
                 !.list = IF text = e.doc THEN @ ELSE NoList, !.navigated = text = e.doc /\ @]

Rendered(e, text) == IF text = e.value THEN e ELSE [Echoed(e, text) EXCEPT !.value = text]

render ==
  \E k \in DOMAIN ed.queue :
    LET e == [ed EXCEPT !.queue = SubSeq(@, k + 1, Len(@))]
    IN ed' = [Rendered(e, ed.queue[k]) EXCEPT
                !.report = IF e.queue = <<>> THEN ed.next ELSE Silent,
                !.crossed = @ /\ e.queue # <<>>]

\* The page puts a text in: an entry of its history, a formatted query.  The editor
\* learns of it as of the texts it reported itself: when it is rendered.
setText ==
  \E t \in Texts :
    /\ Len(ed.queue) < MaxBatch
    /\ ed' = [ed EXCEPT !.queue = Append(@, t), !.last = "page", !.crossed = Crossing(ed, "page"),
                        !.next = Silent, !.runs = FALSE]

\* A run of the text that was rendered answers.
Answered ==
  \E r \in Reports :
    /\ ed.queue = <<>> /\ ed.report = Silent
    /\ \A i \in r.problems \cup r.notices : i.span # NoSpan => i.span.end <= ed.value.len
    /\ ed' = [ed EXCEPT !.report = r]

(***************************************************************************)
(* Completion.  A source starts by itself on typing, or by a key; the one  *)
(* before is aborted, and an aborted answer opens nothing.                 *)
(***************************************************************************)
source ==
  ed.list.status # "active" /\ ed' = [ed EXCEPT !.list = [status |-> "pending", for |-> ed.doc]]

suggest ==
  /\ ed.list.status = "pending"
  /\ \E found \in BOOLEAN, failed \in BOOLEAN :
       ed' = [ed EXCEPT !.failures = IF ~failed THEN 0 ELSE IF @ < 2 THEN @ + 1 ELSE @,
                        !.list = IF found THEN [@ EXCEPT !.status = "active"] ELSE NoList]

Arrow == ed.list.status = "active" /\ ed' = [ed EXCEPT !.navigated = TRUE]

\* The list closes: Escape, a click elsewhere.
close == ed.list.status # "none" /\ ed' = [ed EXCEPT !.list = NoList, !.navigated = FALSE]

Accepted == \E t \in Texts \ {ed.doc} : CanEdit /\ ed' = Edited(ed, t, Silent)

acceptCompletion == ed.list.status = "active" /\ Accepted

\* Enter accepts only a suggestion that was moved to, and runs otherwise.
Enter ==
  IF ed.navigated /\ ed.list.status = "active" THEN Accepted
  ELSE ed' = [ed EXCEPT !.list = NoList, !.navigated = FALSE, !.runs = TRUE]

EditorNext ==
  \/ type \/ applyFix \/ render \/ setText \/ Answered
  \/ source \/ suggest \/ Arrow \/ close \/ acceptCompletion \/ Enter

(***************************************************************************)
(* Properties                                                              *)
(***************************************************************************)

(***************************************************************************)
(* What was typed last stands: once the page has rendered everything, the  *)
(* editor shows the text that the page runs, in whatever order renders,    *)
(* typing and texts of the page's own came.  It is not said of a text of   *)
(* the page's own: one that equals an older report is taken for its echo,  *)
(* and one that equals the value is not rendered at all.                   *)
(***************************************************************************)
TypingIsKept == (ed.queue = <<>> /\ ed.last = "reader") => ed.doc = ed.value

(***************************************************************************)
(* A render that lags behind typing does not rewind the document, unless   *)
(* the page put a text of its own in between: an older text is then taken  *)
(* for a new one, and stands until the last is rendered.                   *)
(***************************************************************************)
NeverRewinds ==
  ~ed.crossed /\ ed.last = "reader" /\ ed'.last = "reader" /\ ed'.value # ed.value => ed'.doc = ed.doc

(***************************************************************************)
(* Whatever fix-it is applied, a message that stays standing marks the     *)
(* very code points it marked before, none of which the fix replaced, and  *)
(* every message that has nothing to do with the fix stays: none of its    *)
(* carets, one for a mark at the end of the text, is a caret of the fix.   *)
(***************************************************************************)
Cells(span) == span.start .. span.end - 1

Carets(span) == span.start .. span.end

KeptSpansHold ==
  \A fix \in Fixes(ed.report) :
    LET after(p) == IF p < fix.span.start THEN p ELSE p + delta(fix)
        apart(span) == Carets(span) \cap Carets(fix.span) = {}
        old == {p \in ed.report.problems : p.span # NoSpan}
        new == keep(fix, ed.report).problems
    IN /\ \A n \in new : \E o \in old :
            /\ Cells(o.span) \cap Cells(fix.span) = {}
            /\ Cells(n.span) = {after(p) : p \in Cells(o.span)}
       /\ \A o \in old :
            (apart(o.span) /\ \A f \in o.fixes : apart(f.span))
              => \E n \in new : Cells(n.span) = {after(p) : p \in Cells(o.span)}

=============================================================================
