----------------------------- MODULE SearchPage -----------------------------
(***************************************************************************)
(* The Logs and Traces pages: SearchPage (src/ui/host/src/explore/         *)
(* search-page.tsx).  A search is the typed filters with the page's fields *)
(* (service, severity, errors, slower), the order and the window; all of   *)
(* them but the draft live in the URL.  Changing a field, the order or the *)
(* window searches at once with the draft as it is; Back and Forward       *)
(* search what their entry holds.  The fields, the order and the window    *)
(* are one value here: whichever changes, the page does the same.          *)
(***************************************************************************)
EXTENDS Naturals, FiniteSets

CONSTANTS Filters,   \* what may be typed, the empty filters among them
          NoFilters,
          Fields     \* settings of the fields, the order and the window

VARIABLES search,    \* the page's state and refs; of the property alone, failed: the last
                     \* search did, and drafted: the text was changed since it was the entry's
          searching  \* the requests it listens to

searchVars == <<search, searching>>

NoSearch == [filters |-> NoFilters, fields |-> NoFilters]

Search(op, filters, fields) == [op |-> op, filters |-> filters, fields |-> fields]

\* execute(): the search under way, whatever it had reached, is aborted.
Searched(s, filters) ==
  /\ search' = [s EXCEPT !.running = TRUE, !.problems = FALSE, !.failed = FALSE]
  /\ searching' = {Search("parse", filters, s.url.fields)}

SearchInit ==
  \E q \in Filters, f \in Fields :
    /\ search = [url |-> [q |-> q, fields |-> f], text |-> q, written |-> q,
                 running |-> TRUE, ran |-> NoSearch, problems |-> FALSE,
                 failed |-> FALSE, drafted |-> FALSE]
    /\ searching = {Search("parse", q, f)}

TypeFilters(t) ==
  /\ search.text # t
  /\ search' = [search EXCEPT !.text = t, !.problems = FALSE, !.drafted = TRUE]
  /\ UNCHANGED searching

\* Enter in the editor, or the Search button, which shows the run under way.
pressSearch == Searched(search, search.text)

\* "Exclude" in a trace row adds a term to the filters and searches.
exclude(t) ==
  /\ search.ran # NoSearch /\ t # search.text
  /\ Searched([search EXCEPT !.text = t, !.drafted = TRUE], t)

\* The effect on [windowKey, sort, terms].
pick(f) ==
  /\ f # search.url.fields
  /\ Searched([search EXCEPT !.url.fields = f], search.text)

\* History: the entry's fields rerun the draft, then its filters, if they are
\* not the last ones written, replace the draft and are searched instead.
Navigate(q, f) ==
  /\ [q |-> q, fields |-> f] # search.url
  /\ LET moved == [search EXCEPT !.url = [q |-> q, fields |-> f]]
     IN IF q # search.written
        THEN Searched([moved EXCEPT !.written = q, !.text = q, !.drafted = FALSE], q)
        ELSE Searched(moved, search.text)

\* The parsed search becomes the URL's entry; a changed one is a new entry.
ReceiveParsed(c) ==
  /\ c.op = "parse"
  /\ search' = [search EXCEPT !.written = c.filters, !.url.q = c.filters,
                              !.drafted = search.text # c.filters]
  /\ searching' = {[c EXCEPT !.op = "query"]}

ReceiveRows(c) ==
  /\ c.op = "query"
  /\ search' = [search EXCEPT !.running = FALSE,
                              !.ran = [filters |-> c.filters, fields |-> c.fields]]
  /\ searching' = searching \ {c}

\* Problems belong to the filters that were sent; they are dropped once edited.
SearchFails(c, invalid) ==
  /\ search' = [search EXCEPT !.running = FALSE, !.failed = TRUE,
                              !.problems = invalid /\ search.text = c.filters]
  /\ searching' = searching \ {c}

SearchNext ==
  \/ pressSearch
  \/ \E t \in Filters : TypeFilters(t) \/ exclude(t)
  \/ \E f \in Fields : pick(f)
  \/ \E q \in Filters, f \in Fields : Navigate(q, f)
  \/ \E c \in searching : ReceiveParsed(c) \/ ReceiveRows(c)
  \/ \E c \in searching, invalid \in BOOLEAN : SearchFails(c, invalid)

(***************************************************************************)
(* Whatever the order of edits, navigations and answers, the search under  *)
(* way is of the fields shown; once it has ended, the rows are those of    *)
(* the address, filters and fields, but for a search that failed; and the  *)
(* filters in the editor are the address's until they are changed: a text  *)
(* that Back brought is not taken for one the page wrote itself.           *)
(***************************************************************************)
SearchFollowsFields ==
  /\ \A c \in searching :
       c.fields = search.url.fields /\ (c.op = "query" => c.filters = search.url.q)
  /\ search.running <=> searching # {}
  /\ ~search.running /\ ~search.failed =>
       search.ran = [filters |-> search.url.q, fields |-> search.url.fields]
  /\ ~search.drafted => search.text = search.url.q
=============================================================================
