---------------------------- MODULE QueryBuilder ----------------------------
(***************************************************************************)
(* The Builder tab of an editor: Builder (src/ui/host/src/explore/         *)
(* builder.tsx) over the filter language of where.ts.  A filter row whose  *)
(* value cannot be used is taken out of the query and kept as the draft,   *)
(* which remembers its place among the rows; it returns there once it has  *)
(* a value.  There is one draft.  A row is known by what it filters on, a  *)
(* chip is a filter the Builder cannot show as a row; what a value says,   *)
(* its quoting and its unit are abstracted to whether it can be used.      *)
(***************************************************************************)
EXTENDS Naturals, Sequences, FiniteSets
LOCAL INSTANCE SequencesExt

CONSTANTS Filters,       \* filters a query may have
          Chips,         \* those the Builder shows as chips
          Everywhere,    \* those on a field that every source has
          NoFilter

VARIABLE builder

builderVars == <<builder>>

Values == {"good", "empty", "wrong"}

NoDraft == [row |-> NoFilter, at |-> 0, wrong |-> FALSE]

BuilderInit ==
  \E entries \in {<<>>} \cup {<<f>> : f \in Filters} \cup {p \in Filters \X Filters : p[1] # p[2]},
     measures \in {<<>>, <<"count">>, <<"field">>} :
    builder = [where |-> entries, draft |-> NoDraft, measures |-> measures, by |-> <<>>]

HasDraft(b) == b.draft # NoDraft

\* The rows as they are shown: the draft at its place among the query's.
Rows(b) ==
  IF HasDraft(b)
  THEN SubSeq(b.where, 1, b.draft.at) \o <<b.draft.row>> \o SubSeq(b.where, b.draft.at + 1, Len(b.where))
  ELSE b.where

IsDraft(b, i) == HasDraft(b) /\ i = b.draft.at + 1

\* The query's filters before row i.
At(b, i) == IF HasDraft(b) /\ i > b.draft.at + 1 THEN i - 2 ELSE i - 1

\* numericValue and the trimmed text: what a row compares with can be used or not.
Usable(value) == value = "good"

updateUsable(b, i) ==
  IF IsDraft(b, i)
  THEN [b EXCEPT !.draft = NoDraft, !.where = InsertAt(@, At(b, i) + 1, b.draft.row)]
  ELSE b

updateUnusable(b, i, value) ==
  [b EXCEPT !.draft = [row |-> Rows(b)[i], at |-> At(b, i), wrong |-> value = "wrong"],
            !.where = IF IsDraft(b, i) THEN @ ELSE RemoveAt(@, At(b, i) + 1)]

update(i, value) ==
  /\ i \in DOMAIN Rows(builder) /\ Rows(builder)[i] \notin Chips
  /\ builder' = IF Usable(value) THEN updateUsable(builder, i)
                ELSE updateUnusable(builder, i, value)

\* Mutant of drop: the draft goes to the end of the rows.
dropReordering(i) ==
  /\ i \in DOMAIN Rows(builder)
  /\ builder' = IF IsDraft(builder, i) THEN [builder EXCEPT !.draft = NoDraft]
                ELSE [builder EXCEPT !.where = RemoveAt(@, At(builder, i) + 1),
                                     !.draft.at = IF HasDraft(builder) THEN Len(builder.where) - 1 ELSE @]

\* The remove button of a row or a chip.  A row above the draft moves it up.
drop(i) ==
  /\ i \in DOMAIN Rows(builder)
  /\ builder' = IF IsDraft(builder, i) THEN [builder EXCEPT !.draft = NoDraft]
                ELSE LET at == At(builder, i)
                     IN [builder EXCEPT !.where = RemoveAt(@, at + 1),
                                        !.draft.at = IF HasDraft(builder) /\ at < @ THEN @ - 1 ELSE @]

addFilter(f) ==
  /\ ~HasDraft(builder) /\ f \notin Chips /\ f \notin Range(Rows(builder))
  /\ builder' = [builder EXCEPT !.draft = [row |-> f, at |-> Len(builder.where), wrong |-> FALSE]]

(***************************************************************************)
(* Measures and groups.  Entries the Builder cannot parse are chips too:   *)
(* a source switch keeps what the next source has, and what it cannot read.*)
(***************************************************************************)
parseMeasure(entry) == entry # "text"

KeptMeasures(ms) == SelectSeq(ms, LAMBDA m : ~parseMeasure(m) \/ m = "count")

switchSource ==
  /\ builder' =
       [where |-> SelectSeq(builder.where, LAMBDA f : f \in Everywhere),
        draft |-> NoDraft,
        measures |-> IF KeptMeasures(builder.measures) = <<>> /\ builder.measures # <<>>
                     THEN <<"count">> ELSE KeptMeasures(builder.measures),
        by |-> SelectSeq(builder.by, LAMBDA f : f \in Everywhere)]

addMeasure ==
  /\ Len(builder.measures) < 2
  /\ builder' = [builder EXCEPT !.measures = Append(@, "count")]

setMeasure(i, m) ==
  /\ i \in DOMAIN builder.measures /\ parseMeasure(builder.measures[i])
  /\ builder' = [builder EXCEPT !.measures[i] = m]

removeMeasure(i) ==
  /\ i \in DOMAIN builder.measures
  /\ builder' = [builder EXCEPT !.measures = RemoveAt(@, i)]

addBy(f) ==
  /\ f \notin Range(builder.by) /\ Len(builder.by) < 2
  /\ builder' = [builder EXCEPT !.by = Append(@, f)]

removeBy(i) ==
  /\ i \in DOMAIN builder.by
  /\ builder' = [builder EXCEPT !.by = RemoveAt(@, i)]

BuilderNext ==
  \/ switchSource \/ addMeasure
  \/ \E i \in 1..(Cardinality(Filters) + 1) :
       \/ drop(i) \/ removeMeasure(i) \/ removeBy(i)
       \/ \E value \in Values : update(i, value)
       \/ \E m \in {"count", "field"} : setMeasure(i, m)
  \/ \E f \in Filters : addFilter(f) \/ addBy(f)

(***************************************************************************)
(* Properties                                                              *)
(***************************************************************************)
Common(rows, others) == SelectSeq(rows, LAMBDA f : f \in Range(others))

(***************************************************************************)
(* Whatever is typed, added or removed, in whatever order, the rows that   *)
(* stay keep their order and none appears twice: a filter that lost its    *)
(* value returns to its own place (builder.tsx, the comment on the draft), *)
(* between the same rows.  A row that gets a usable value takes no other   *)
(* away; one that loses its value takes the draft's place, and that is all *)
(* it takes: the draft of before is gone (builder.tsx:87).                 *)
(***************************************************************************)
Lost == Range(Rows(builder)) \ Range(Rows(builder'))

RowsKeepOrder ==
  /\ Len(builder'.where) > Len(builder.where) => Lost = {}
  /\ builder'.draft.row \notin {NoFilter, builder.draft.row} => Lost \subseteq {builder.draft.row}
  /\ Common(Rows(builder), Rows(builder')) = Common(Rows(builder'), Rows(builder))
  /\ \A i, j \in DOMAIN Rows(builder') : Rows(builder')[i] = Rows(builder')[j] => i = j
=============================================================================
