--------------------------- MODULE WebPagesProofs ---------------------------
(* Proofs about the pages of the web app, for any set of filters, queries, *)
(* windows, accounts, agents, rules and texts.                             *)
EXTENDS WebPages, FiniteSetTheorems, SequenceTheorems, TLAPS

-----------------------------------------------------------------------------
(* The search pages: the one request that is listened to is of the fields  *)
(* shown.                                                                  *)

SearchState ==
  [url : [q : Filters, fields : Fields], text : Filters, written : Filters, running : BOOLEAN,
   ran : [filters : Filters \cup {NoFilters}, fields : Fields \cup {NoFilters}], problems : BOOLEAN,
   failed : BOOLEAN, drafted : BOOLEAN]

SearchInv ==
  /\ v1 \in SearchState /\ v1.written = v1.url.q
  /\ v2 \subseteq [op : {"parse", "query"}, filters : Filters, fields : Fields]
  /\ \A c, d \in v2 : c = d
  /\ Search!SearchFollowsFields

LEMMA SearchStarts == Search!SearchInit => SearchInv
BY DEF Search!SearchInit, Search!NoSearch, Search!Search, SearchInv, SearchState, Search!SearchFollowsFields

LEMMA SearchBegun ==
  ASSUME NEW s \in SearchState, s.written = s.url.q, NEW q \in Filters, Search!Searched(s, q),
         ~s.drafted => s.text = s.url.q
  PROVE  SearchInv'
<1>1. /\ v1' = [s EXCEPT !.running = TRUE, !.problems = FALSE, !.failed = FALSE]
      /\ v2' = {[op |-> "parse", filters |-> q, fields |-> s.url.fields]}
  BY DEF Search!Searched, Search!Search
<1>2. /\ v1' \in SearchState /\ v1'.url = s.url /\ v1'.running /\ v1'.written = s.written
      /\ v1'.drafted = s.drafted /\ v1'.text = s.text /\ s.url.fields \in Fields
  BY <1>1 DEF SearchState
<1> QED  BY <1>1, <1>2 DEF SearchInv, Search!SearchFollowsFields

LEMMA SearchStep == SearchInv /\ Search!SearchNext => SearchInv'
<1> SUFFICES ASSUME SearchInv, Search!SearchNext  PROVE SearchInv'
  OBVIOUS
<1>0. /\ v1 \in SearchState /\ v1.written = v1.url.q /\ (~v1.drafted => v1.text = v1.url.q)
      /\ v2 \subseteq [op : {"parse", "query"}, filters : Filters, fields : Fields]
  BY DEF SearchInv, Search!SearchFollowsFields
<1>1. CASE Search!pressSearch
  BY <1>0, <1>1, SearchBegun DEF Search!pressSearch, SearchState
<1>2. ASSUME NEW t \in Filters, Search!TypeFilters(t)  PROVE SearchInv'
  BY <1>2 DEF Search!TypeFilters, SearchInv, SearchState, Search!SearchFollowsFields
<1>3. ASSUME NEW t \in Filters, Search!exclude(t)  PROVE SearchInv'
  BY <1>0, <1>3, SearchBegun DEF Search!exclude, SearchState
<1>4. ASSUME NEW f \in Fields, Search!pick(f)  PROVE SearchInv'
  BY <1>0, <1>4, SearchBegun DEF Search!pick, SearchState
<1>5. ASSUME NEW q \in Filters, NEW f \in Fields, Search!Navigate(q, f)  PROVE SearchInv'
  <2> PICK m : m = [v1 EXCEPT !.url = [q |-> q, fields |-> f]]
    OBVIOUS
  <2>1. /\ m \in SearchState /\ m.url.q = q /\ m.written = v1.written
        /\ m.drafted = v1.drafted /\ m.text = v1.text
    BY <1>0 DEF SearchState
  <2>2. CASE q # v1.written
    <3> PICK n : n = [m EXCEPT !.written = q, !.text = q, !.drafted = FALSE]
      OBVIOUS
    <3>1. n \in SearchState /\ n.written = n.url.q /\ n.text = n.url.q
      BY <2>1 DEF SearchState
    <3> QED  BY <1>5, <2>2, <3>1, SearchBegun DEF Search!Navigate
  <2>3. CASE q = v1.written
    BY <1>0, <1>5, <2>1, <2>3, SearchBegun DEF Search!Navigate, SearchState
  <2> QED  BY <2>2, <2>3
<1>6. ASSUME NEW c \in v2, Search!ReceiveParsed(c)  PROVE SearchInv'
  <2>1. c \in [op : {"parse", "query"}, filters : Filters, fields : Fields]
    BY <1>0
  <2> PICK d : d = [c EXCEPT !.op = "query"]
    OBVIOUS
  <2>2. /\ d \in [op : {"parse", "query"}, filters : Filters, fields : Fields]
        /\ d.op = "query" /\ d.fields = c.fields /\ d.filters = c.filters
    BY <2>1
  <2> PICK drafted \in BOOLEAN : drafted = (v1.text # c.filters)
    OBVIOUS
  <2>3. v2' = {d} /\ v1' = [v1 EXCEPT !.written = c.filters, !.url.q = c.filters, !.drafted = drafted]
    BY <1>6 DEF Search!ReceiveParsed
  <2>4. /\ v1' \in SearchState /\ v1'.written = v1'.url.q /\ v1'.url.fields = v1.url.fields
        /\ v1'.running = v1.running /\ v1'.drafted = drafted /\ v1'.text = v1.text /\ v1'.url.q = c.filters
    BY <1>0, <2>1, <2>3 DEF SearchState
  <2>5. v1.running /\ c.fields = v1.url.fields
    BY <1>6 DEF SearchInv, Search!SearchFollowsFields, Search!ReceiveParsed
  <2> QED  BY <2>2, <2>3, <2>4, <2>5 DEF SearchInv, Search!SearchFollowsFields
<1>7. ASSUME NEW c \in v2, v2' = v2 \ {c}, v1' \in SearchState, ~v1'.running,
             v1'.url = v1.url, v1'.written = v1.written, v1'.text = v1.text, v1'.drafted = v1.drafted,
             v1'.failed \/ v1'.ran = [filters |-> v1.url.q, fields |-> v1.url.fields]
      PROVE  SearchInv'
  <2>1. v2' = {}
    BY <1>7 DEF SearchInv
  <2> QED  BY <1>0, <1>7, <2>1 DEF SearchInv, Search!SearchFollowsFields
<1>8. ASSUME NEW c \in v2, Search!ReceiveRows(c)  PROVE SearchInv'
  <2>1. c \in [op : {"parse", "query"}, filters : Filters, fields : Fields]
    BY <1>0
  <2>2. c.filters = v1.url.q /\ c.fields = v1.url.fields
    BY <1>8 DEF Search!ReceiveRows, SearchInv, Search!SearchFollowsFields
  <2> PICK ran : ran = [filters |-> c.filters, fields |-> c.fields]
    OBVIOUS
  <2>3. v1' = [v1 EXCEPT !.running = FALSE, !.ran = ran] /\ v2' = v2 \ {c}
    BY <1>8 DEF Search!ReceiveRows
  <2>4. ran \in [filters : Filters \cup {NoFilters}, fields : Fields \cup {NoFilters}]
    BY <2>1
  <2>5. /\ v1' \in SearchState /\ ~v1'.running /\ v1'.url = v1.url /\ v1'.written = v1.written
        /\ v1'.text = v1.text /\ v1'.drafted = v1.drafted /\ v1'.ran = ran
    BY <1>0, <2>3, <2>4 DEF SearchState
  <2> QED  BY <1>7, <2>2, <2>3, <2>5
<1>9. ASSUME NEW c \in v2, NEW invalid \in BOOLEAN, Search!SearchFails(c, invalid)  PROVE SearchInv'
  BY <1>0, <1>7, <1>9 DEF Search!SearchFails, SearchState
<1> QED  BY <1>1, <1>2, <1>3, <1>4, <1>5, <1>6, <1>8, <1>9 DEF Search!SearchNext
-----------------------------------------------------------------------------
(* Explore: one run is listened to, and it is what the page waits for; the *)
(* address, the result and the editors are of one query.                   *)

SomeQuery == Queries \cup {NoText}
SomeSql == Statements \cup {NoText}

ExploreState ==
  [tab : {"query", "builder", "sql"}, url : [q : SomeQuery, sql : SomeSql, window : Windows],
   text : SomeQuery, sql : SomeSql, parsed : SomeQuery,
   built : SomeQuery, formatted : SomeQuery, formatFailed : BOOLEAN, timer : SomeQuery,
   running : BOOLEAN, refused : BOOLEAN, drafted : BOOLEAN, adrift : BOOLEAN,
   run : [source : SomeQuery \cup SomeSql, window : Windows \cup {NoText}]]

ExploreCalls ==
  [op : {"parse", "format", "open"}, of : Queries, window : Windows \cup {NoText},
   mode : {"run", "show", "adopt"}]
  \cup [op : {"query"}, of : Queries \cup Statements, window : Windows \cup {NoText},
        mode : {"run", "show", "adopt"}]

IsRun(c) == c.op \in {"parse", "query"}

\* The entry in the address of page p that a source belongs to.
EntryOf(p, s) == IF s \in Statements THEN p.url.sql ELSE p.url.q

\* Without a draft the editors hold the entry, and no print is to replace them.
Undrafted(p, cs) ==
  /\ p.timer = NoText /\ \A c \in cs : c.op = "format" => c.mode = "show"
  /\ p.text = p.url.q /\ p.sql = p.url.sql

\* A page that execute() may be called in.
Ready(p, cs) ==
  /\ p \in ExploreState /\ cs \subseteq ExploreCalls
  /\ ~p.drafted => Undrafted(p, cs)

\* The run under way, or the result it left, is of the entry and its window.
RunIsEntrys(p, cs) ==
  /\ \A c \in cs : IsRun(c) => c.window = p.url.window /\ (c.op = "query" => c.of = EntryOf(p, c.of))
  /\ ~p.running /\ ~p.refused /\ p.run # Explore!NoRun =>
       p.run = [source |-> EntryOf(p, p.run.source), window |-> p.url.window]

RunsOk(p, cs) ==
  /\ Ready(p, cs)
  /\ \A c, d \in cs : IsRun(c) /\ IsRun(d) => c = d
  /\ p.running <=> \E c \in cs : IsRun(c)
  /\ ~p.adrift => RunIsEntrys(p, cs)
  /\ ~p.drafted => \A c \in cs : IsRun(c) => c.of = EntryOf(p, c.of)

ExploreInv == RunsOk(v1, v2)

LEMMA ExploreHolds == ExploreInv => Explore!ExploreRunning /\ Explore!OneQuery
<1> SUFFICES ASSUME ExploreInv  PROVE Explore!ExploreRunning /\ Explore!OneQuery
  OBVIOUS
<1> DEFINE under == {c \in v2 : c.op \in {"parse", "query"}}
<1>0. Explore!Under = under
  BY DEF Explore!Under, Explore!RunOps
<1>1. Cardinality(under) <= 1
  <2>1. CASE under = {}
    <3>1. Cardinality(under) = 0
      BY <2>1, FS_EmptySet
    <3> QED  BY <3>1
  <2>2. ASSUME NEW c \in under  PROVE Cardinality(under) <= 1
    <3>1. under = {c}
      BY <2>2 DEF ExploreInv, RunsOk, IsRun
    <3>2. Cardinality({c}) = 1
      BY FS_Singleton
    <3> QED  BY <3>1, <3>2
  <2> QED  BY <2>1, <2>2
<1>2. v1.running <=> under # {}
  BY DEF ExploreInv, RunsOk, IsRun
<1>3. Explore!ExploreRunning
  BY <1>0, <1>1, <1>2 DEF Explore!ExploreRunning, Explore!Cardinality, Cardinality
<1>4. \A s : Explore!Entry(s) = EntryOf(v1, s)
  BY DEF Explore!Entry, Explore!kindOfSource, EntryOf
<1>5. \A c \in under : c \in v2 /\ IsRun(c)
  BY DEF IsRun
<1> HIDE DEF under
<1>6. v1.adrift \/ RunIsEntrys(v1, v2)
  BY DEF ExploreInv, RunsOk
<1>7. v1.drafted \/ (Undrafted(v1, v2) /\ \A c \in v2 : IsRun(c) => c.of = EntryOf(v1, c.of))
  BY DEF ExploreInv, RunsOk, Ready
<1> QED  BY <1>0, <1>3, <1>4, <1>5, <1>6, <1>7 DEF Explore!OneQuery, RunIsEntrys, Undrafted

LEMMA ExploreStarts == Explore!ExploreInit => ExploreInv
<1> SUFFICES ASSUME NEW q \in SomeQuery, NEW w \in Windows,
       v1 = [tab |-> "query", url |-> [q |-> q, sql |-> NoText, window |-> w],
             text |-> q, sql |-> NoText, parsed |-> NoText, built |-> NoText, formatted |-> NoText,
             formatFailed |-> FALSE, timer |-> NoText, running |-> q # NoText,
             run |-> Explore!NoRun, refused |-> FALSE, drafted |-> FALSE, adrift |-> FALSE],
       v2 = IF q = NoText THEN {} ELSE {[op |-> "parse", of |-> q, window |-> w, mode |-> "run"]}
     PROVE  ExploreInv
  BY DEF Explore!ExploreInit, Explore!EmptyEntry, Explore!ExploreCall, SomeQuery
<1>0. Explore!NoRun \in [source : SomeQuery \cup SomeSql, window : Windows \cup {NoText}]
  BY DEF Explore!NoRun, SomeQuery
<1>1. v1 \in ExploreState /\ v1.timer = NoText /\ v1.text = v1.url.q /\ v1.sql = v1.url.sql
  BY <1>0 DEF ExploreState, SomeQuery, SomeSql
<1>4. v1.run = Explore!NoRun /\ (v1.running <=> q # NoText) /\ v1.url.q = q /\ v1.url.window = w
  OBVIOUS
<1>2. CASE q = NoText
  <2>1. v2 = {}
    BY <1>2
  <2> QED  BY ONLY <1>1, <1>2, <1>4, <2>1 DEF ExploreInv, RunsOk, Ready, Undrafted, RunIsEntrys
<1>3. CASE q # NoText
  <2> PICK call : call = [op |-> "parse", of |-> q, window |-> w, mode |-> "run"]
    OBVIOUS
  <2>0. q \in Queries /\ q \notin Statements
    BY <1>3, QueriesAssumption DEF SomeQuery
  <2>1. /\ call \in ExploreCalls /\ IsRun(call) /\ call.op = "parse" /\ call.of = q /\ call.window = w
    BY <2>0 DEF ExploreCalls, IsRun
  <2>2. v2 = {call}
    BY <1>3
  <2>3. EntryOf(v1, q) = q
    BY <1>4, <2>0 DEF EntryOf
  <2> QED
    BY ONLY <1>1, <1>3, <1>4, <2>1, <2>2, <2>3 DEF ExploreInv, RunsOk, Ready, Undrafted, RunIsEntrys
<1> QED  BY <1>2, <1>3

\* The page changes beside its run and its address: with a draft, or not in its editors.
SameRun(r, p) ==
  /\ r.url = p.url /\ r.running = p.running /\ r.run = p.run /\ r.refused = p.refused
  /\ r.adrift = p.adrift

SameText(r, p) ==
  r.drafted = p.drafted /\ r.text = p.text /\ r.sql = p.sql /\ r.timer \in {NoText, p.timer}

LEMMA PageKept ==
  ASSUME NEW p, NEW cs, RunsOk(p, cs), NEW r \in ExploreState, SameRun(r, p),
         r.drafted \/ SameText(r, p)
  PROVE  RunsOk(r, cs)
<1>1. \A s : EntryOf(r, s) = EntryOf(p, s)
  BY DEF EntryOf, SameRun
<1>2. ~r.adrift => RunIsEntrys(r, cs)
  BY <1>1 DEF RunsOk, RunIsEntrys, SameRun
<1>3. ~r.drafted => Undrafted(r, cs) /\ ~p.drafted
  BY DEF RunsOk, Ready, Undrafted, SameRun, SameText
<1> QED  BY <1>1, <1>2, <1>3 DEF RunsOk, Ready, SameRun

LEMMA CallsKept ==
  ASSUME NEW p, NEW cs, RunsOk(p, cs), NEW ds \in SUBSET ExploreCalls,
         \A c : IsRun(c) => (c \in cs <=> c \in ds),
         \A c \in ds : c.op = "format" => c \in cs \/ c.mode = "show" \/ p.drafted
  PROVE  RunsOk(p, ds)
<1>1. ~p.adrift => RunIsEntrys(p, ds)
  BY DEF RunsOk, RunIsEntrys
<1>2. ~p.drafted => Undrafted(p, ds)
  BY DEF RunsOk, Ready, Undrafted
<1> QED  BY <1>1, <1>2 DEF RunsOk, Ready

LEMMA FormatSent ==
  ASSUME NEW p, NEW cs, RunsOk(p, cs), NEW q \in Queries, NEW mode \in {"run", "show", "adopt"},
         NEW w \in Windows \cup {NoText}, mode = "show" \/ p.drafted
  PROVE  RunsOk(p, Explore!format(cs, q, mode, w))
<1> PICK d : d = [op |-> "format", of |-> q, window |-> w, mode |-> mode]
  OBVIOUS
<1>0. d \in ExploreCalls /\ ~IsRun(d) /\ d.mode = mode
  BY DEF ExploreCalls, IsRun
<1>1. Explore!format(cs, q, mode, w) = {c \in cs : c.op # "format"} \cup {d}
  BY DEF Explore!format, Explore!WithoutFormat, Explore!ExploreCall
<1>2. {c \in cs : c.op # "format"} \cup {d} \subseteq ExploreCalls
  BY <1>0 DEF RunsOk, Ready
<1>3. RunsOk(p, {c \in cs : c.op # "format"} \cup {d})
  BY <1>0, <1>2, CallsKept DEF IsRun
<1> QED  BY <1>1, <1>3

(* A record of what is run changes nothing but the address, which then has *)
(* the source: where it had it already, nothing.                           *)
LEMMA Recorded ==
  ASSUME NEW p \in ExploreState, NEW source \in Queries \cup Statements
  PROVE  \E u \in [q : SomeQuery, sql : SomeSql, window : Windows] :
           /\ Explore!record(p, source) = [p EXCEPT !.url = u]
           /\ u.window = p.url.window
           /\ source = IF source \in Statements THEN u.sql ELSE u.q
           /\ source = EntryOf(p, source) => u = p.url
<1>0. p.url \in [q : SomeQuery, sql : SomeSql, window : Windows]
  BY DEF ExploreState
<1>1. CASE source \in Statements
  <2> PICK u : u = [p.url EXCEPT !.sql = source]
    OBVIOUS
  <2>1. u \in [q : SomeQuery, sql : SomeSql, window : Windows] /\ u.window = p.url.window /\ u.sql = source
    BY <1>0, <1>1 DEF SomeSql
  <2>2. Explore!record(p, source) = [p EXCEPT !.url = u]
    BY <1>1 DEF Explore!record, Explore!kindOfSource, ExploreState
  <2>3. source = EntryOf(p, source) => u = p.url
    BY <1>0, <1>1 DEF EntryOf
  <2> QED  BY <1>1, <2>1, <2>2, <2>3
<1>2. CASE source \notin Statements
  <2> PICK u : u = [p.url EXCEPT !.q = source]
    OBVIOUS
  <2>1. u \in [q : SomeQuery, sql : SomeSql, window : Windows] /\ u.window = p.url.window /\ u.q = source
    BY <1>0, <1>2 DEF SomeQuery
  <2>2. Explore!record(p, source) = [p EXCEPT !.url = u]
    BY <1>2 DEF Explore!record, Explore!kindOfSource, ExploreState
  <2>3. source = EntryOf(p, source) => u = p.url
    BY <1>0, <1>2 DEF EntryOf
  <2> QED  BY <1>2, <2>1, <2>2, <2>3
<1> QED  BY <1>1, <1>2

(* A run takes the place of another: of a recorded source it is the        *)
(* entry's, and without a draft any source is.                             *)
LEMMA RunPlaced ==
  ASSUME NEW p, NEW cs, Ready(p, cs), NEW u \in [q : SomeQuery, sql : SomeSql, window : Windows],
         u.window = p.url.window, NEW call \in ExploreCalls, IsRun(call),
         u = p.url \/ call.of = (IF call.of \in Statements THEN u.sql ELSE u.q),
         ~p.drafted => call.of = EntryOf(p, call.of) /\ u = p.url,
         call.op = "query" => call.of = (IF call.of \in Statements THEN u.sql ELSE u.q),
         NEW r \in ExploreState, r.url = u, r.running, r.adrift = (call.window # u.window),
         r.drafted = p.drafted, r.text = p.text, r.sql = p.sql, r.timer = p.timer,
         NEW ds, ds = {c \in cs : ~IsRun(c)} \cup {call}
  PROVE  RunsOk(r, ds)
<1>1. ds \subseteq ExploreCalls /\ (\A c, d \in ds : IsRun(c) /\ IsRun(d) => c = d) /\ \E c \in ds : IsRun(c)
  BY DEF Ready
<1>2. \A s : EntryOf(r, s) = IF s \in Statements THEN u.sql ELSE u.q
  BY DEF EntryOf
<1>3. ~r.adrift => RunIsEntrys(r, ds)
  BY <1>2 DEF RunIsEntrys
<1>4. ~r.drafted => Undrafted(r, ds) /\ call.of = EntryOf(r, call.of)
  <2> SUFFICES ASSUME ~r.drafted  PROVE Undrafted(r, ds) /\ call.of = EntryOf(r, call.of)
    OBVIOUS
  <2>1. Undrafted(p, cs) /\ u = p.url
    BY DEF Ready
  <2>2. ~(call.op = "format")
    BY DEF IsRun
  <2> QED  BY <1>2, <2>1, <2>2 DEF Undrafted, EntryOf
<1> QED  BY <1>1, <1>3, <1>4 DEF RunsOk, Ready

LEMMA Executed ==
  ASSUME NEW p, NEW cs, Ready(p, cs), NEW source \in SomeQuery \cup SomeSql, NEW direct \in BOOLEAN,
         direct => source \in SomeQuery, NEW w \in Windows \cup {NoText},
         source = NoText => RunsOk(p, cs),
         ~p.drafted /\ source # NoText => source = EntryOf(p, source),
         Explore!execute(p, cs, source, direct, w)
  PROVE  ExploreInv'
<1>1. CASE source = NoText
  BY <1>1 DEF Explore!execute, Explore!ExecutePage, Explore!ExecuteCalls, ExploreInv
<1>2. CASE source # NoText
  <2>1. source \in Queries \cup Statements /\ p \in ExploreState
    BY <1>2 DEF SomeQuery, SomeSql, Ready
  <2> DEFINE direct2 == direct \/ source \in Statements
  <2> PICK call : call = [op |-> IF direct2 THEN "query" ELSE "parse", of |-> source,
                          window |-> w, mode |-> "run"]
    OBVIOUS
  <2>2. v2' = {c \in cs : ~IsRun(c)} \cup {call}
    BY <1>2 DEF Explore!execute, Explore!ExecuteCalls, Explore!RunOps, Explore!ExploreCall, IsRun
  <2>3. /\ call \in ExploreCalls /\ IsRun(call) /\ call.of = source /\ call.window = w
        /\ call.op = "query" => direct2
    <3>1. CASE direct2
      BY <2>1, <3>1 DEF ExploreCalls, IsRun
    <3>2. CASE ~direct2
      BY <2>1, <3>2 DEF ExploreCalls, IsRun
    <3> QED  BY <3>1, <3>2
  <2> PICK adrift \in BOOLEAN : adrift = (w # p.url.window)
    OBVIOUS
  <2> PICK begun : begun = [p EXCEPT !.running = TRUE, !.refused = FALSE, !.adrift = adrift]
    OBVIOUS
  <2>5. Explore!Begun(p, w) = begun
    BY DEF Explore!Begun
  <2>6. /\ begun \in ExploreState /\ begun.running /\ begun.url = p.url /\ begun.adrift = adrift
        /\ begun.drafted = p.drafted /\ begun.text = p.text /\ begun.sql = p.sql /\ begun.timer = p.timer
    BY <2>1 DEF ExploreState
  <2>7. ASSUME direct2  PROVE RunsOk(v1', v2')
    <3> PICK parsed : parsed = IF direct THEN NoText ELSE begun.parsed
      OBVIOUS
    <3> PICK b : b = [begun EXCEPT !.parsed = parsed]
      OBVIOUS
    <3>0. parsed \in SomeQuery /\ b = IF direct THEN [begun EXCEPT !.parsed = NoText] ELSE begun
      <4>1. CASE direct
        BY <4>1 DEF SomeQuery
      <4>2. CASE ~direct
        BY <2>6, <4>2 DEF ExploreState
      <4> QED  BY <4>1, <4>2
    <3>1. /\ b \in ExploreState /\ b.running /\ b.url = p.url /\ b.adrift = adrift
          /\ b.drafted = p.drafted /\ b.text = p.text /\ b.sql = p.sql /\ b.timer = p.timer
      BY ONLY <2>6, <3>0, b = [begun EXCEPT !.parsed = parsed] DEF ExploreState
    <3>2. v1' = Explore!record(b, source)
      BY <1>2, <2>5, <2>7, <3>0 DEF Explore!execute, Explore!ExecutePage
    <3>3. PICK u \in [q : SomeQuery, sql : SomeSql, window : Windows] :
            /\ Explore!record(b, source) = [b EXCEPT !.url = u]
            /\ u.window = b.url.window
            /\ source = IF source \in Statements THEN u.sql ELSE u.q
            /\ source = EntryOf(b, source) => u = b.url
      BY <2>1, <3>1, Recorded
    <3>4. EntryOf(b, source) = EntryOf(p, source)
      BY <3>1 DEF EntryOf
    <3> PICK r : r = [b EXCEPT !.url = u]
      OBVIOUS
    <3>5. /\ r \in ExploreState /\ r.running /\ r.url = u /\ r.adrift = adrift
          /\ r.drafted = p.drafted /\ r.text = p.text /\ r.sql = p.sql /\ r.timer = p.timer
      BY ONLY <3>1, r = [b EXCEPT !.url = u],
              u \in [q : SomeQuery, sql : SomeSql, window : Windows] DEF ExploreState
    <3>6. r.adrift = (call.window # u.window) /\ u.window = p.url.window
      BY <2>3, <3>1, <3>3, <3>5
    <3>7. ~p.drafted => source = EntryOf(p, source) /\ u = p.url
      BY <1>2, <3>1, <3>3, <3>4
    <3>8. RunsOk(r, v2')
      BY ONLY <2>2, <2>3, <3>3, <3>5, <3>6, <3>7, RunPlaced, Ready(p, cs)
    <3> QED  BY <3>2, <3>3, <3>8
  <2>8. ASSUME ~direct2  PROVE RunsOk(v1', v2')
    <3>1. v1' = begun
      BY <1>2, <2>5, <2>8 DEF Explore!execute, Explore!ExecutePage
    <3>2. begun.adrift = (call.window # p.url.window) /\ call.op # "query"
      BY <2>3, <2>6, <2>8
    <3>3. p.url \in [q : SomeQuery, sql : SomeSql, window : Windows]
      BY <2>1 DEF ExploreState
    <3>4. ~p.drafted => source = EntryOf(p, source)
      BY <1>2
    <3>5. RunsOk(begun, v2')
      BY ONLY <2>2, <2>3, <2>6, <3>2, <3>3, <3>4, RunPlaced, Ready(p, cs)
    <3> QED  BY <3>1, <3>5
  <2> QED  BY <2>7, <2>8 DEF ExploreInv
<1> QED  BY <1>1, <1>2

(* The queries that the page holds, apart from nothing.                    *)
LEMMA StarterIsQuery == Explore!starter \in Queries
BY QueriesAssumption DEF Explore!starter

LEMMA RunBegun ==
  ASSUME NEW p, NEW cs, RunsOk(p, cs), p.built \in Queries, Explore!runBuilder(p, cs)
  PROVE  ExploreInv'
<1>1. p \in ExploreState
  BY DEF RunsOk, Ready
<1> PICK r : r = [p EXCEPT !.timer = NoText, !.drafted = TRUE]
  OBVIOUS
<1>2. r \in ExploreState /\ SameRun(r, p) /\ r.drafted
  BY <1>1 DEF ExploreState, SomeQuery, SameRun
<1>3. v1' = r /\ v2' = Explore!format(cs, p.built, "run", p.url.window)
  BY <1>1 DEF Explore!runBuilder, Explore!cancelFormat, ExploreState
<1>4. RunsOk(r, cs) /\ p.url.window \in Windows
  BY <1>1, <1>2, PageKept DEF ExploreState
<1> QED  BY <1>2, <1>3, <1>4, FormatSent DEF ExploreInv

LEMMA Opened ==
  ASSUME NEW p, NEW cs, RunsOk(p, cs), NEW q \in Queries
  PROVE  LET r == Explore!OpenBuilder(p, q)
         IN RunsOk(r, cs) /\ RunsOk([r EXCEPT !.parsed = q], cs)
<1>1. p \in ExploreState
  BY DEF RunsOk, Ready
<1> PICK m : m = [p EXCEPT !.timer = NoText]
  OBVIOUS
<1> PICK r : r = [m EXCEPT !.built = q, !.tab = "builder"]
  OBVIOUS
<1> PICK s : s = [r EXCEPT !.parsed = q]
  OBVIOUS
<1>5. m \in ExploreState /\ SameRun(m, p) /\ SameText(m, p)
  BY ONLY <1>1, m = [p EXCEPT !.timer = NoText] DEF ExploreState, SomeQuery, SameRun, SameText
<1>6. q \in SomeQuery
  BY DEF SomeQuery
<1>7. r \in ExploreState /\ SameRun(r, m) /\ SameText(r, m)
  BY ONLY <1>5, <1>6, r = [m EXCEPT !.built = q, !.tab = "builder"] DEF ExploreState, SameRun, SameText
<1>2. r \in ExploreState /\ SameRun(r, p) /\ SameText(r, p)
  BY ONLY <1>5, <1>7 DEF SameRun, SameText
<1>8. s \in ExploreState /\ SameRun(s, r) /\ SameText(s, r)
  BY ONLY <1>2, <1>6, s = [r EXCEPT !.parsed = q] DEF ExploreState, SameRun, SameText
<1>3. s \in ExploreState /\ SameRun(s, p) /\ SameText(s, p)
  BY ONLY <1>2, <1>8 DEF SameRun, SameText
<1>4. Explore!OpenBuilder(p, q) = r
  BY DEF Explore!OpenBuilder, Explore!cancelFormat
<1> QED  BY <1>2, <1>3, <1>4, PageKept

(* What the answers to the requests do to the page.                        *)
LEMMA FormatLands ==
  ASSUME ExploreInv, NEW c \in v2, Explore!ReceiveFormat(c)  PROVE ExploreInv'
<1>1. v1 \in ExploreState /\ v2 \subseteq ExploreCalls /\ RunsOk(v1, v2) /\ c.op = "format"
  BY DEF ExploreInv, RunsOk, Ready, Explore!ReceiveFormat
<1>2. c.of \in Queries /\ c.window \in Windows \cup {NoText}
  BY <1>1 DEF ExploreCalls
<1>9. c.mode = "show" \/ v1.drafted
  BY <1>1 DEF RunsOk, Ready, Undrafted
<1>3. RunsOk(v1, v2 \ {c})
  BY <1>1, CallsKept DEF IsRun
<1> PICK shown : shown = [v1 EXCEPT !.formatted = c.of, !.formatFailed = FALSE]
  OBVIOUS
<1>4. shown \in ExploreState /\ SameRun(shown, v1) /\ SameText(shown, v1)
  BY <1>1, <1>2 DEF ExploreState, SomeQuery, SameRun, SameText
<1> PICK adopted : adopted = [shown EXCEPT !.text = c.of]
  OBVIOUS
<1>5. adopted \in ExploreState /\ SameRun(adopted, v1) /\ adopted.drafted = v1.drafted
  BY <1>2, <1>4 DEF ExploreState, SomeQuery, SameRun, SameText
<1>6. RunsOk(shown, v2 \ {c}) /\ (v1.drafted => RunsOk(adopted, v2 \ {c}))
  BY <1>3, <1>4, <1>5, PageKept
<1>7. CASE c.mode = "run" /\ v1.tab = "builder"
  <2>1. Explore!execute(adopted, v2 \ {c}, c.of, c.of \in Long, c.window)
    BY <1>7 DEF Explore!ReceiveFormat
  <2>2. c.of \in SomeQuery
    BY <1>2 DEF SomeQuery
  <2>3. RunsOk(adopted, v2 \ {c}) /\ adopted.drafted
    BY <1>5, <1>6, <1>7, <1>9
  <2>4. Ready(adopted, v2 \ {c})
    BY <2>3 DEF RunsOk
  <2> PICK source, cs, w : source = c.of /\ cs = v2 \ {c} /\ w = c.window
    OBVIOUS
  <2>5. Explore!execute(adopted, cs, source, TRUE, w) \/ Explore!execute(adopted, cs, source, FALSE, w)
    BY <2>1 DEF Explore!execute, Explore!ExecutePage, Explore!ExecuteCalls
  <2>6. /\ Ready(adopted, cs) /\ source \in SomeQuery /\ w \in Windows \cup {NoText}
        /\ RunsOk(adopted, cs) /\ adopted.drafted
    BY <1>2, <2>2, <2>3, <2>4
  <2> QED  BY ONLY <2>5, <2>6, Executed
<1>8. CASE ~(c.mode = "run" /\ v1.tab = "builder")
  <2>1. v2' = v2 \ {c} /\ (v1' = shown \/ (v1' = adopted /\ c.mode # "show"))
    BY <1>8 DEF Explore!ReceiveFormat
  <2> QED  BY <1>6, <1>9, <2>1 DEF ExploreInv
<1> QED  BY <1>7, <1>8

LEMMA ParseLands ==
  ASSUME ExploreInv, NEW c \in v2, Explore!ReceiveParse(c)  PROVE ExploreInv'
<1>1. /\ v1 \in ExploreState /\ v2 \subseteq ExploreCalls /\ RunsOk(v1, v2) /\ c.op = "parse"
      /\ c \in ExploreCalls /\ IsRun(c)
  BY DEF ExploreInv, RunsOk, Ready, Explore!ReceiveParse, IsRun
<1>2. c.of \in Queries
  BY <1>1 DEF ExploreCalls
<1> PICK b : b = IF v1.tab = "builder" THEN c.of ELSE v1.built
  OBVIOUS
<1> PICK p : p = [v1 EXCEPT !.parsed = c.of, !.built = b]
  OBVIOUS
<1>8. b \in SomeQuery /\ c.of \in SomeQuery
  BY <1>1, <1>2 DEF ExploreState, SomeQuery
<1>3. p \in ExploreState /\ SameRun(p, v1) /\ SameText(p, v1)
  BY <1>1, <1>8 DEF ExploreState, SameRun, SameText
<1>4. v1' = Explore!record(p, c.of)
  BY <1>1 DEF Explore!ReceiveParse, ExploreState
<1>5. PICK u \in [q : SomeQuery, sql : SomeSql, window : Windows] :
        /\ Explore!record(p, c.of) = [p EXCEPT !.url = u]
        /\ u.window = p.url.window
        /\ c.of = IF c.of \in Statements THEN u.sql ELSE u.q
        /\ c.of = EntryOf(p, c.of) => u = p.url
  BY <1>2, <1>3, Recorded
<1> PICK r : r = [p EXCEPT !.url = u]
  OBVIOUS
<1>9. /\ r \in ExploreState /\ r.url = u /\ r.running = v1.running /\ r.adrift = v1.adrift
      /\ r.drafted = v1.drafted /\ r.text = v1.text /\ r.sql = v1.sql
      /\ r.timer \in {NoText, v1.timer} /\ p.url = v1.url
  BY <1>3 DEF ExploreState, SameRun, SameText
<1> PICK d : d = [c EXCEPT !.op = "query"]
  OBVIOUS
<1>6. d \in ExploreCalls /\ IsRun(d) /\ d.op = "query" /\ d.of = c.of /\ d.window = c.window
  BY <1>1 DEF ExploreCalls, IsRun
<1>7. v2' = (v2 \ {c}) \cup {d}
  BY DEF Explore!ReceiveParse
<1>10. v1.running /\ \A e \in v2 : IsRun(e) => e = c
  BY <1>1 DEF RunsOk
<1>11. v2' \subseteq ExploreCalls /\ \A e \in v2' : IsRun(e) => e = d
  BY <1>1, <1>6, <1>7, <1>10
<1>12. EntryOf(r, d.of) = d.of /\ d \in v2'
  BY <1>5, <1>6, <1>7, <1>9 DEF EntryOf
<1>13. ~r.adrift => RunIsEntrys(r, v2')
  <2>1. ~r.adrift => c.window = v1.url.window
    BY <1>1, <1>9 DEF RunsOk, RunIsEntrys
  <2>2. r.running /\ r.url.window = v1.url.window
    BY <1>5, <1>9, <1>10
  <2> QED  BY <1>6, <1>11, <1>12, <2>1, <2>2 DEF RunIsEntrys
<1>14. ~r.drafted => Undrafted(r, v2')
  <2> SUFFICES ASSUME ~r.drafted  PROVE Undrafted(r, v2')
    OBVIOUS
  <2>1. Undrafted(v1, v2) /\ c.of = EntryOf(v1, c.of)
    BY <1>1, <1>9 DEF RunsOk, Ready
  <2>2. u = v1.url
    BY <1>5, <1>9, <2>1 DEF EntryOf
  <2>3. \A e \in v2' : e.op = "format" => e \in v2
    BY <1>6, <1>7
  <2> QED  BY <1>9, <2>1, <2>2, <2>3 DEF Undrafted
<1>15. RunsOk(r, v2')
  BY <1>9, <1>6, <1>10, <1>11, <1>12, <1>13, <1>14 DEF RunsOk, Ready
<1> QED  BY <1>4, <1>5, <1>15 DEF ExploreInv

LEMMA RunEnds ==
  ASSUME ExploreInv, NEW c \in v2, IsRun(c), v1' \in ExploreState, ~v1'.running,
         v1'.url = v1.url, SameText(v1', v1), v1'.adrift = v1.adrift, v2' = v2 \ {c},
         \/ v1'.refused
         \/ c.op = "query" /\ v1'.run = [source |-> c.of, window |-> c.window]
  PROVE  ExploreInv'
<1>1. \A s : EntryOf(v1', s) = EntryOf(v1, s)
  BY DEF EntryOf
<1>2. \A e \in v2' : ~IsRun(e)
  BY DEF ExploreInv, RunsOk
<1>3. ~v1'.adrift => RunIsEntrys(v1', v2')
  BY <1>1, <1>2 DEF ExploreInv, RunsOk, RunIsEntrys
<1>4. ~v1'.drafted => Undrafted(v1', v2')
  BY DEF ExploreInv, RunsOk, Ready, Undrafted, SameText
<1> QED  BY <1>2, <1>3, <1>4 DEF ExploreInv, RunsOk, Ready

LEMMA ExploreAnswered == ExploreInv /\ Explore!ExploreAnswers => ExploreInv'
<1> SUFFICES ASSUME ExploreInv, Explore!ExploreAnswers  PROVE ExploreInv'
  OBVIOUS
<1>0. v1 \in ExploreState /\ v2 \subseteq ExploreCalls /\ RunsOk(v1, v2)
  BY DEF ExploreInv, RunsOk, Ready
<1>1. CASE Explore!EditPrinted
  <2> PICK r : r = [v1 EXCEPT !.timer = NoText]
    OBVIOUS
  <2>1. r \in ExploreState /\ SameRun(r, v1) /\ SameText(r, v1)
    BY <1>0 DEF ExploreState, SomeQuery, SameRun, SameText
  <2>2. v1' = r /\ v2' = Explore!format(v2, v1.timer, "adopt", NoText) /\ v1.timer # NoText
    BY <1>1 DEF Explore!EditPrinted, Explore!cancelFormat
  <2>3. v1.timer \in Queries /\ r.drafted
    BY <1>0, <2>1, <2>2 DEF ExploreState, SomeQuery, RunsOk, Ready, Undrafted, SameText
  <2>4. RunsOk(r, v2)
    BY <1>0, <2>1, PageKept
  <2> QED  BY <2>2, <2>3, <2>4, FormatSent DEF ExploreInv
<1>2. ASSUME NEW c \in v2, Explore!FormatFails(c)  PROVE ExploreInv'
  <2>1. v1' \in ExploreState /\ SameRun(v1', v1) /\ SameText(v1', v1)
    BY <1>0, <1>2 DEF Explore!FormatFails, ExploreState, SameRun, SameText
  <2>2. RunsOk(v1, v2 \ {c}) /\ v2' = v2 \ {c}
    BY <1>0, <1>2, CallsKept DEF Explore!FormatFails, IsRun
  <2> QED  BY <2>1, <2>2, PageKept DEF ExploreInv
<1>3. ASSUME NEW c \in v2, Explore!ReceiveOpen(c)  PROVE ExploreInv'
  <2>1. c.op = "open" /\ c.of \in Queries
    BY <1>0, <1>3 DEF Explore!ReceiveOpen, ExploreCalls
  <2>2. RunsOk(v1, v2 \ {c})
    BY <1>0, <2>1, CallsKept DEF IsRun
  <2>3. RunsOk([Explore!OpenBuilder(v1, c.of) EXCEPT !.parsed = c.of], v2 \ {c})
    BY <2>1, <2>2, Opened
  <2> QED  BY <1>3, <2>1, <2>3, FormatSent DEF Explore!ReceiveOpen, ExploreInv
<1>4. ASSUME NEW c \in v2, Explore!ReceiveResult(c)  PROVE ExploreInv'
  <2>1. c.op = "query" /\ c \in ExploreCalls
    BY <1>0, <1>4 DEF Explore!ReceiveResult
  <2>2. c.of \in SomeQuery \cup SomeSql /\ c.window \in Windows \cup {NoText}
    BY <2>1 DEF ExploreCalls, SomeQuery, SomeSql
  <2> PICK sent : sent = [source |-> c.of, window |-> c.window]
    OBVIOUS
  <2>4. v1' = [v1 EXCEPT !.running = FALSE, !.run = sent] /\ v2' = v2 \ {c}
    BY <1>4 DEF Explore!ReceiveResult, Explore!Sent
  <2>5. sent \in [source : SomeQuery \cup SomeSql, window : Windows \cup {NoText}]
    BY <2>2
  <2>3. /\ v1' \in ExploreState /\ ~v1'.running /\ v1'.url = v1.url /\ SameText(v1', v1)
        /\ v1'.adrift = v1.adrift /\ v1'.run = sent
    BY <1>0, <2>4, <2>5 DEF ExploreState, SameText
  <2> QED  BY <2>1, <2>3, <2>4, RunEnds DEF IsRun
<1>5. ASSUME NEW c \in v2, Explore!OpenFails(c)  PROVE ExploreInv'
  <2>1. c.op = "open" /\ v2' = v2 \ {c} /\ v1' = v1
    BY <1>0, <1>5 DEF Explore!OpenFails
  <2>2. RunsOk(v1, v2')
    BY <1>0, <2>1, CallsKept DEF IsRun
  <2> QED  BY <2>1, <2>2 DEF ExploreInv
<1>6. ASSUME NEW c \in v2, Explore!RunFails(c)  PROVE ExploreInv'
  <2>1. IsRun(c) /\ v2' = v2 \ {c} /\ v1' = [v1 EXCEPT !.running = FALSE, !.refused = TRUE]
    BY <1>0, <1>6 DEF Explore!RunFails, Explore!RunOps, IsRun
  <2>2. /\ v1' \in ExploreState /\ ~v1'.running /\ v1'.url = v1.url /\ SameText(v1', v1)
        /\ v1'.adrift = v1.adrift /\ v1'.refused
    BY <1>0, <2>1 DEF ExploreState, SameText
  <2> QED  BY <2>1, <2>2, RunEnds
<1> QED  BY <1>1, <1>2, <1>3, <1>4, <1>5, <1>6, FormatLands, ParseLands DEF Explore!ExploreAnswers

(* What the person does.                                                   *)
\* What an editor holds, without a draft, is the entry it belongs to.
LEMMA EditorIsEntry ==
  ASSUME NEW p \in ExploreState, p.text = p.url.q, p.sql = p.url.sql, Explore!Editor(p) # NoText
  PROVE  Explore!Editor(p) = EntryOf(p, Explore!Editor(p))
<1>1. CASE p.tab = "sql"
  <2>1. Explore!Editor(p) = p.sql /\ p.sql \in Statements
    BY <1>1 DEF Explore!Editor, ExploreState, SomeSql
  <2> QED  BY <2>1 DEF EntryOf
<1>2. CASE p.tab # "sql"
  <2>1. Explore!Editor(p) = p.text /\ p.text \in Queries /\ p.text \notin Statements
    BY <1>2, QueriesAssumption DEF Explore!Editor, ExploreState, SomeQuery
  <2> QED  BY <2>1 DEF EntryOf
<1> QED  BY <1>1, <1>2

LEMMA EntryRestored ==
  ASSUME ExploreInv, NEW entry \in Explore!Entries, NEW tab \in {"query", "builder", "sql"},
         Explore!BackForward(entry, tab)
  PROVE  ExploreInv'
<1>0. v1 \in ExploreState /\ v2 \subseteq ExploreCalls /\ RunsOk(v1, v2)
  BY DEF ExploreInv, RunsOk, Ready
<1>1. entry \in [q : SomeQuery, sql : SomeSql, window : Windows]
  <2>1. v1.url \in [q : SomeQuery, sql : SomeSql, window : Windows]
    BY <1>0 DEF ExploreState
  <2> QED  BY <2>1 DEF Explore!Entries, SomeQuery, SomeSql
<1> PICK shown : shown = IF tab = "sql" THEN entry.sql ELSE entry.q
  OBVIOUS
<1> PICK drafted \in BOOLEAN : drafted = (v1.running /\ NoText = shown)
  OBVIOUS
<1> PICK a : a = [v1 EXCEPT !.timer = NoText, !.tab = tab, !.url = entry, !.formatted = NoText]
  OBVIOUS
<1> PICK r : r = [a EXCEPT !.text = entry.q, !.sql = entry.sql, !.adrift = TRUE, !.drafted = drafted]
  OBVIOUS
<1>7. entry.q \in SomeQuery /\ entry.sql \in SomeSql /\ entry.window \in Windows /\ NoText \in SomeQuery
  BY <1>1 DEF SomeQuery
<1>8. /\ a \in ExploreState /\ a.url = entry /\ a.running = v1.running /\ a.tab = tab
      /\ a.timer = NoText
  BY <1>0, <1>1, <1>7 DEF ExploreState
<1>2. /\ r \in ExploreState /\ r.url = entry /\ r.running = v1.running /\ r.text = entry.q
      /\ r.sql = entry.sql /\ r.tab = tab /\ r.adrift /\ r.drafted = drafted /\ r.timer = NoText
  BY <1>7, <1>8 DEF ExploreState
<1>9. Explore!Restored(entry, tab) = r
  BY <1>0, <1>1 DEF Explore!Restored, Explore!cancelFormat, ExploreState
<1> DEFINE ds == {c \in v2 : c.op # "format"}
<1>3. Explore!WithoutFormat(v2) = ds /\ \A c \in ds : c \in v2 /\ c.op # "format"
  BY DEF Explore!WithoutFormat
<1>4. \A c \in v2 : IsRun(c) => c \in ds
  BY DEF IsRun
<1> HIDE DEF ds
<1>5. Explore!Editor(r) = shown /\ shown \in SomeQuery \cup SomeSql
  BY <1>2, <1>7 DEF Explore!Editor
<1>6. Explore!execute(r, ds, shown, FALSE, entry.window)
  BY <1>3, <1>5, <1>9 DEF Explore!BackForward
<1>10. Ready(r, ds)
  BY <1>0, <1>2, <1>3 DEF Ready, Undrafted
<1>11. shown = NoText => RunsOk(r, ds)
  <2> SUFFICES ASSUME shown = NoText  PROVE RunsOk(r, ds)
    OBVIOUS
  <2>1. \A c, d \in ds : IsRun(c) /\ IsRun(d) => c = d
    BY <1>0, <1>3 DEF RunsOk
  <2>2. r.running <=> \E c \in ds : IsRun(c)
    BY <1>0, <1>2, <1>3, <1>4 DEF RunsOk
  <2>3. ~r.drafted => ~r.running
    BY <1>2
  <2> QED  BY <1>2, <1>10, <2>1, <2>2, <2>3 DEF RunsOk
<1>12. shown # NoText => shown = EntryOf(r, shown)
  <2>1. r \in ExploreState /\ r.text = r.url.q /\ r.sql = r.url.sql
    BY <1>2
  <2> QED  BY ONLY <1>5, <2>1, EditorIsEntry
<1> QED  BY <1>5, <1>6, <1>7, <1>10, <1>11, <1>12, Executed

LEMMA WindowPicked ==
  ASSUME ExploreInv, NEW w \in Windows, Explore!pickWindow(w)  PROVE ExploreInv'
<1>0. v1 \in ExploreState /\ v2 \subseteq ExploreCalls /\ RunsOk(v1, v2)
  BY DEF ExploreInv, RunsOk, Ready
<1> PICK r : r = [v1 EXCEPT !.url.window = w, !.adrift = TRUE]
  OBVIOUS
<1> PICK u : u = [v1.url EXCEPT !.window = w]
  OBVIOUS
<1>1. /\ u \in [q : SomeQuery, sql : SomeSql, window : Windows] /\ u.q = v1.url.q /\ u.sql = v1.url.sql
      /\ u.window = w
  BY <1>0 DEF ExploreState
<1>2. r = [v1 EXCEPT !.url = u, !.adrift = TRUE]
  BY <1>0 DEF ExploreState
<1>3. /\ r \in ExploreState /\ r.url = u /\ r.running = v1.running /\ r.adrift
      /\ SameText(r, v1) /\ r.built = v1.built
  BY <1>0, <1>1, <1>2 DEF ExploreState, SameText
<1>4. RunsOk(r, v2)
  <2>1. \A s : EntryOf(r, s) = EntryOf(v1, s)
    BY <1>1, <1>3 DEF EntryOf
  <2>2. ~r.drafted => Undrafted(r, v2)
    BY <1>0, <1>1, <1>3 DEF RunsOk, Ready, Undrafted, SameText
  <2> QED  BY <1>0, <1>3, <2>1, <2>2 DEF RunsOk, Ready, SameText
<1>5. Explore!rerun(r, v2)
  BY DEF Explore!pickWindow
<1>6. CASE r.tab = "builder" /\ r.built # NoText
  <2>1. r.built \in Queries /\ Explore!runBuilder(r, v2)
    BY <1>3, <1>5, <1>6 DEF Explore!rerun, ExploreState, SomeQuery
  <2> QED  BY <1>4, <2>1, RunBegun
<1>7. CASE ~(r.tab = "builder" /\ r.built # NoText)
  <2> DEFINE direct == r.tab # "sql" /\ Explore!Direct(r)
  <2>1. Explore!execute(r, v2, Explore!Editor(r), direct, w)
    BY <1>1, <1>3, <1>5, <1>7 DEF Explore!rerun
  <2>2. direct \in BOOLEAN /\ Explore!Editor(r) \in SomeQuery \cup SomeSql
        /\ (direct => Explore!Editor(r) \in SomeQuery)
    BY <1>3 DEF Explore!Editor, Explore!Direct, Explore!readOnlyText, ExploreState
  <2> HIDE DEF direct
  <2>3. Ready(r, v2)
    BY <1>4 DEF RunsOk
  <2>4. ~r.drafted /\ Explore!Editor(r) # NoText => Explore!Editor(r) = EntryOf(r, Explore!Editor(r))
    BY <1>3, <2>3, EditorIsEntry DEF Ready, Undrafted
  <2> QED  BY <1>4, <2>1, <2>2, <2>3, <2>4, Executed
<1> QED  BY <1>6, <1>7

LEMMA BuilderOpens == ExploreInv /\ Explore!openBuilder => ExploreInv'
<1> SUFFICES ASSUME ExploreInv, Explore!openBuilder  PROVE ExploreInv'
  OBVIOUS
<1>0. v1 \in ExploreState /\ v2 \subseteq ExploreCalls /\ RunsOk(v1, v2)
  BY DEF ExploreInv, RunsOk, Ready
<1>1. CASE v1' = [v1 EXCEPT !.tab = "builder"] /\ v2' = v2
  <2>1. v1' \in ExploreState /\ SameRun(v1', v1) /\ SameText(v1', v1)
    BY <1>0, <1>1 DEF ExploreState, SameRun, SameText
  <2> QED  BY <1>0, <1>1, <2>1, PageKept DEF ExploreInv
<1>2. ASSUME NEW q \in Queries, v1' = Explore!OpenBuilder(v1, q),
             v2' = Explore!format(v2, q, "show", NoText)
      PROVE  ExploreInv'
  BY <1>0, <1>2, Opened, FormatSent DEF ExploreInv
<1>3. CASE v1.text # NoText /\ v1' = v1 /\ v2' = v2 \cup {Explore!ExploreCall("open", v1.text, NoText, "show")}
  <2>1. v1.text \in Queries
    BY <1>0, <1>3 DEF ExploreState, SomeQuery
  <2> PICK c : c = [op |-> "open", of |-> v1.text, window |-> NoText, mode |-> "show"]
    OBVIOUS
  <2>2. c \in ExploreCalls /\ ~IsRun(c) /\ c.mode = "show"
    BY <2>1 DEF ExploreCalls, IsRun
  <2>3. v2' = v2 \cup {c}
    BY <1>3 DEF Explore!ExploreCall
  <2> QED  BY <1>0, <1>3, <2>2, <2>3, CallsKept DEF ExploreInv
<1>4. CASE /\ v1.text = NoText \/ v1.parsed = v1.text
           /\ LET query == IF v1.text = NoText THEN Explore!starter ELSE v1.parsed IN
                v1' = Explore!OpenBuilder(v1, query) /\ v2' = Explore!format(v2, query, "show", NoText)
  <2>1. CASE v1.text = NoText
    BY <1>2, <1>4, <2>1, StarterIsQuery
  <2>2. CASE v1.text # NoText
    <3>1. v1.parsed \in Queries
      BY <1>0, <1>4, <2>2 DEF ExploreState, SomeQuery
    <3> QED  BY <1>2, <1>4, <2>2, <3>1
  <2> QED  BY <2>1, <2>2
<1> QED  BY <1>1, <1>3, <1>4 DEF Explore!openBuilder

LEMMA RunPressed == ExploreInv /\ Explore!pressRun => ExploreInv'
<1> SUFFICES ASSUME ExploreInv, Explore!pressRun  PROVE ExploreInv'
  OBVIOUS
<1>0. v1 \in ExploreState /\ v2 \subseteq ExploreCalls /\ RunsOk(v1, v2)
  BY DEF ExploreInv, RunsOk, Ready
<1>1. CASE v1.tab = "builder"
  <2>1. v1.built \in Queries /\ Explore!runBuilder(v1, v2)
    BY <1>0, <1>1 DEF Explore!pressRun, ExploreState, SomeQuery
  <2> QED  BY <1>0, <2>1, RunBegun
<1>2. CASE v1.tab # "builder"
  <2> DEFINE direct == v1.tab = "query" /\ Explore!Direct(v1)
  <2>1. Explore!execute(v1, v2, Explore!Editor(v1), direct, v1.url.window)
    BY <1>2 DEF Explore!pressRun
  <2>2. direct \in BOOLEAN /\ Explore!Editor(v1) \in SomeQuery \cup SomeSql
        /\ (direct => Explore!Editor(v1) \in SomeQuery) /\ v1.url.window \in Windows
    BY <1>0 DEF Explore!Editor, Explore!Direct, Explore!readOnlyText, ExploreState
  <2> HIDE DEF direct
  <2>3. Ready(v1, v2)
    BY <1>0 DEF RunsOk
  <2>4. ~v1.drafted /\ Explore!Editor(v1) # NoText => Explore!Editor(v1) = EntryOf(v1, Explore!Editor(v1))
    BY <1>0, <2>3, EditorIsEntry DEF Ready, Undrafted
  <2> QED  BY <1>0, <2>1, <2>2, <2>3, <2>4, Executed
<1> QED  BY <1>1, <1>2

LEMMA TabOpens ==
  ASSUME ExploreInv, NEW tab \in {"query", "sql"}, Explore!openTab(tab)  PROVE ExploreInv'
<1>0. v1 \in ExploreState /\ v2 \subseteq ExploreCalls /\ RunsOk(v1, v2)
  BY DEF ExploreInv, RunsOk, Ready
<1> DEFINE pending == v1.tab = "builder" /\ v1.built # NoText /\ v1.timer # NoText
<1> PICK cancelled : cancelled = [v1 EXCEPT !.timer = NoText]
  OBVIOUS
<1>1. cancelled \in ExploreState /\ SameRun(cancelled, v1) /\ SameText(cancelled, v1)
  BY <1>0 DEF ExploreState, SomeQuery, SameRun, SameText
<1>2. CASE pending
  <2>1. v1' = [cancelled EXCEPT !.tab = tab] /\ v2' = Explore!format(v2, v1.built, "adopt", NoText)
    BY <1>2 DEF Explore!openTab, Explore!cancelFormat
  <2>2. v1' \in ExploreState /\ SameRun(v1', v1) /\ SameText(v1', v1)
    BY <1>1, <2>1 DEF ExploreState, SameRun, SameText
  <2>3. v1.built \in Queries /\ v1.drafted
    BY <1>0, <1>2 DEF ExploreState, SomeQuery, RunsOk, Ready, Undrafted
  <2>4. RunsOk(v1, v2')
    BY <1>0, <2>1, <2>3, FormatSent
  <2> QED  BY <2>2, <2>4, PageKept DEF ExploreInv
<1>3. CASE ~pending
  <2>1. v1' = [v1 EXCEPT !.tab = tab] /\ v2' = v2
    BY <1>3 DEF Explore!openTab
  <2>2. v1' \in ExploreState /\ SameRun(v1', v1) /\ SameText(v1', v1)
    BY <1>0, <2>1 DEF ExploreState, SameRun, SameText
  <2> QED  BY <1>0, <2>1, <2>2, PageKept DEF ExploreInv
<1> QED  BY <1>2, <1>3

LEMMA ExploreStep == ExploreInv /\ Explore!ExploreNext => ExploreInv'
<1> SUFFICES ASSUME ExploreInv, Explore!ExplorePerson  PROVE ExploreInv'
  BY ExploreAnswered DEF Explore!ExploreNext
<1>0. v1 \in ExploreState /\ v2 \subseteq ExploreCalls /\ RunsOk(v1, v2)
  BY DEF ExploreInv, RunsOk, Ready
<1>1. ASSUME NEW q \in Queries, Explore!edit(q)  PROVE ExploreInv'
  <2>1. v1' \in ExploreState /\ SameRun(v1', v1) /\ v1'.drafted /\ v2' = v2
    BY <1>0, <1>1 DEF Explore!edit, ExploreState, SomeQuery, SameRun
  <2> QED  BY <1>0, <2>1, PageKept DEF ExploreInv
<1>2. ASSUME NEW q \in (Queries \ Long) \cup {NoText}, Explore!TypeQuery(q)  PROVE ExploreInv'
  <2>1. v1' = [[v1 EXCEPT !.timer = NoText] EXCEPT !.text = q, !.formatted = NoText, !.drafted = TRUE]
    BY <1>2 DEF Explore!TypeQuery, Explore!cancelFormat
  <2>2. v1' \in ExploreState /\ SameRun(v1', v1) /\ v1'.drafted
    BY <1>0, <2>1 DEF ExploreState, SomeQuery, SameRun
  <2>3. v2' = {c \in v2 : c.op # "format"}
    BY <1>2 DEF Explore!TypeQuery, Explore!WithoutFormat
  <2>4. RunsOk(v1, v2')
    BY <1>0, <2>3, CallsKept DEF IsRun
  <2> QED  BY <2>2, <2>4, PageKept DEF ExploreInv
<1>3. ASSUME NEW s \in Statements \cup {NoText}, Explore!TypeSql(s)  PROVE ExploreInv'
  <2>1. v1' \in ExploreState /\ SameRun(v1', v1) /\ v1'.drafted /\ v2' = v2
    BY <1>0, <1>3 DEF Explore!TypeSql, ExploreState, SomeSql, SameRun
  <2> QED  BY <1>0, <2>1, PageKept DEF ExploreInv
<1> QED  BY <1>1, <1>2, <1>3, BuilderOpens, RunPressed, TabOpens, WindowPicked, EntryRestored
         DEF Explore!ExplorePerson

-----------------------------------------------------------------------------
(* The gate: a form's request is sent only once the boot requests are      *)
(* answered, and while none is under way.                                  *)

IsGate(g) ==
  /\ g = [status |-> g.status, statusReady |-> g.statusReady, viewer |-> g.viewer,
          account |-> g.account, sessionReady |-> g.sessionReady, loginToken |-> g.loginToken,
          returnTo |-> g.returnTo, email |-> g.email, codeSent |-> g.codeSent,
          cooling |-> g.cooling, busy |-> g.busy, token |-> g.token]
  /\ g.busy \in BOOLEAN /\ g.sessionReady \in BOOLEAN /\ g.token \in BOOLEAN

IsRequest(r) == r = [kind |-> r.kind, email |-> r.email, answer |-> r.answer]

IsForm(r) == r.kind \in {"link", "send", "verify", "setup"}

WireOk(g, w) ==
  /\ IsGate(g) /\ \A r \in w : IsRequest(r)
  /\ \A r, s \in w : IsForm(r) /\ IsForm(s) => r = s
  /\ \A r, s \in w : r.kind = "me" /\ s.kind = "me" => r = s
  /\ g.busy <=> \E r \in w : IsForm(r)
  /\ g.sessionReady => \A r \in w : r.kind # "me"
  /\ ~g.sessionReady => ~g.busy /\ ~g.token /\ g.viewer = "none"

GateInv == WireOk(v1, v2)

LEMMA GateHolds == GateInv => Gate!FormBusy
<1> SUFFICES ASSUME GateInv  PROVE Gate!FormBusy
  OBVIOUS
<1> DEFINE form == {r \in v2 : r.kind \in {"link", "send", "verify", "setup"}}
<1>1. Cardinality(form) <= 1
  <2>1. CASE form = {}
    <3>1. Cardinality(form) = 0
      BY <2>1, FS_EmptySet
    <3> QED  BY <3>1
  <2>2. ASSUME NEW r \in form  PROVE Cardinality(form) <= 1
    <3>1. form = {r}
      BY <2>2 DEF GateInv, WireOk, IsForm
    <3>2. Cardinality({r}) = 1
      BY FS_Singleton
    <3> QED  BY <3>1, <3>2
  <2> QED  BY <2>1, <2>2
<1>2. v1.busy <=> form # {}
  BY DEF GateInv, WireOk, IsForm
<1> QED  BY <1>1, <1>2 DEF Gate!FormBusy, Gate!FormKinds, Gate!Cardinality, Cardinality

\* A page that loads.
LEMMA GateBoots ==
  ASSUME NEW g, IsGate(g), ~g.busy, ~g.token, ~g.sessionReady, g.viewer = "none"
  PROVE  WireOk(g, Gate!BootRequests)
<1>1. Gate!BootRequests = {[kind |-> "status", email |-> NoOne, answer |-> "pending"],
                           [kind |-> "me", email |-> NoOne, answer |-> "pending"]}
  BY DEF Gate!BootRequests, Gate!Request
<1>2. \A r \in Gate!BootRequests : IsRequest(r) /\ ~IsForm(r)
  BY <1>1 DEF IsRequest, IsForm
<1>3. \A r, s \in Gate!BootRequests : r.kind = "me" /\ s.kind = "me" => r = s
  BY <1>1
<1> QED  BY <1>2, <1>3 DEF WireOk

LEMMA GateLoads ==
  v1' = [Gate!Boot(FALSE, v1.returnTo) EXCEPT !.email = v1.email] /\ v2' = Gate!BootRequests
    => GateInv' /\ ~v1'.sessionReady
<1> SUFFICES ASSUME v1' = [Gate!Boot(FALSE, v1.returnTo) EXCEPT !.email = v1.email],
                    v2' = Gate!BootRequests
    PROVE GateInv' /\ ~v1'.sessionReady
  OBVIOUS
<1>1. IsGate(v1') /\ ~v1'.busy /\ ~v1'.token /\ ~v1'.sessionReady /\ v1'.viewer = "none"
  BY DEF Gate!Boot, IsGate
<1> QED  BY <1>1, GateBoots DEF GateInv

LEMMA GateStarts == Gate!SignInInit => GateInv
<1> SUFFICES ASSUME NEW login \in BOOLEAN, NEW back \in BOOLEAN,
             v1 = Gate!Boot(login, back), v2 = Gate!BootRequests
    PROVE GateInv
  BY DEF Gate!SignInInit
<1>1. IsGate(v1) /\ ~v1.busy /\ ~v1.token /\ ~v1.sessionReady /\ v1.viewer = "none"
  BY DEF Gate!Boot, IsGate
<1> QED  BY <1>1, GateBoots DEF GateInv

\* What leaves the state of the form as it was.
SameForm(g, h) ==
  /\ IsGate(h) /\ h.busy = g.busy /\ h.sessionReady = g.sessionReady
  /\ ~h.sessionReady => ~h.token /\ h.viewer = "none"

LEMMA GateKept ==
  ASSUME NEW g, NEW h, NEW w, WireOk(g, w), SameForm(g, h)  PROVE WireOk(h, w)
BY DEF WireOk, SameForm

LEMMA RequestTaken ==
  ASSUME NEW g, NEW w, WireOk(g, w), NEW r \in w, ~IsForm(r)  PROVE WireOk(g, w \ {r})
BY DEF WireOk

LEMMA FormTaken ==
  ASSUME NEW g, NEW w, WireOk(g, w), NEW r \in w, IsForm(r), NEW h, IsGate(h), ~h.busy,
         h.sessionReady
  PROVE  WireOk(h, w \ {r}) /\ g.sessionReady
BY DEF WireOk, IsGate

LEMMA RequestSent ==
  ASSUME NEW g, NEW w, WireOk(g, w), NEW r, IsRequest(r), ~IsForm(r), r.kind # "me"
  PROVE  WireOk(g, w \cup {r})
BY DEF WireOk

LEMMA FormSent ==
  ASSUME NEW g, NEW w, WireOk(g, w), ~g.busy, NEW h, IsGate(h), h.busy, h.sessionReady,
         \A s \in w : s.kind # "me", NEW r, IsRequest(r), IsForm(r)
  PROVE  WireOk(h, w \cup {r})
BY DEF WireOk, IsGate, IsForm

LEMMA RequestAnswered ==
  ASSUME NEW g, NEW w, WireOk(g, w), NEW r \in w, NEW a
  PROVE  WireOk(g, (w \ {r}) \cup {[r EXCEPT !.answer = a]})
<1> PICK s : s = [r EXCEPT !.answer = a]
  OBVIOUS
<1>1. r = [kind |-> r.kind, email |-> r.email, answer |-> r.answer]
  BY DEF WireOk, IsRequest
<1>2. s = [kind |-> r.kind, email |-> r.email, answer |-> a]
  BY <1>1
<1>3. s.kind = r.kind /\ IsRequest(s)
  BY <1>2 DEF IsRequest
<1> DEFINE q == (w \ {r}) \cup {s}
<1>4. \A x \in q : IsRequest(x)
  BY <1>3 DEF WireOk
<1>5. \A x, y \in q : IsForm(x) /\ IsForm(y) => x = y
  BY <1>3 DEF WireOk, IsForm
<1>6. \A x, y \in q : x.kind = "me" /\ y.kind = "me" => x = y
  BY <1>3 DEF WireOk
<1>7. (\E x \in q : IsForm(x)) <=> (\E x \in w : IsForm(x))
  BY <1>3 DEF IsForm
<1>8. g.sessionReady => \A x \in q : x.kind # "me"
  BY <1>3 DEF WireOk
<1> HIDE DEF q
<1>9. WireOk(g, q)
  BY <1>4, <1>5, <1>6, <1>7, <1>8 DEF WireOk
<1> QED  BY <1>9 DEF q

\* What the person does.
LEMMA GatePressed == GateInv /\ Gate!SignInPerson => GateInv'
<1> SUFFICES ASSUME GateInv, Gate!SignInPerson  PROVE GateInv'
  OBVIOUS
<1>0. WireOk(v1, v2) /\ IsGate(v1)
  BY DEF GateInv, WireOk
<1> USE DEF Gate!Post, Gate!Request
<1>1. ASSUME v2' = v2, SameForm(v1, v1')  PROVE GateInv'
  BY <1>0, <1>1, GateKept DEF GateInv
<1>2. ASSUME NEW r, IsRequest(r), IsForm(r), v2' = v2 \cup {r}, v1' = [v1 EXCEPT !.busy = TRUE],
             ~v1.busy, v1.sessionReady
      PROVE  GateInv'
  <2>1. IsGate(v1') /\ v1'.busy /\ v1'.sessionReady
    BY <1>0, <1>2 DEF IsGate
  <2>2. \A s \in v2 : s.kind # "me"
    BY <1>0, <1>2 DEF WireOk
  <2> QED  BY <1>0, <1>2, <2>1, <2>2, FormSent DEF GateInv
<1>3. ASSUME NEW kind \in {"refresh", "api", "logout"}, SameForm(v1, v1'),
             v2' = v2 \cup {Gate!Request(kind, NoOne)}
      PROVE  GateInv'
  <2> PICK r : r = [kind |-> kind, email |-> NoOne, answer |-> "pending"]
    OBVIOUS
  <2>1. IsRequest(r) /\ ~IsForm(r) /\ r.kind # "me"
    BY DEF IsRequest, IsForm
  <2>2. WireOk(v1, v2 \cup {r})
    BY <1>0, <2>1, RequestSent
  <2>3. v2' = v2 \cup {r}
    BY <1>3
  <2> QED  BY <1>3, <2>2, <2>3, GateKept DEF GateInv
<1>4. ASSUME NEW a \in Accounts, Gate!TypeEmail(a)  PROVE GateInv'
  <2>1. SameForm(v1, v1') /\ v2' = v2
    BY <1>0, <1>4 DEF Gate!TypeEmail, SameForm, IsGate, WireOk
  <2> QED  BY <1>1, <2>1
<1>5. Gate!Screen \in {"setup", "email", "code"} => v1.sessionReady
  BY DEF Gate!Screen
<1>6. CASE Gate!submit
  <2> PICK kind \in {"setup", "send"} : kind = IF v1.status = "setup" THEN "setup" ELSE "send"
    OBVIOUS
  <2> PICK r : r = [kind |-> kind, email |-> v1.email, answer |-> "pending"]
    OBVIOUS
  <2>1. IsRequest(r) /\ IsForm(r)
    BY DEF IsRequest, IsForm
  <2>2. v2' = v2 \cup {r} /\ v1' = [v1 EXCEPT !.busy = TRUE] /\ ~v1.busy /\ v1.sessionReady
    BY <1>5, <1>6 DEF Gate!submit
  <2> QED  BY <1>2, <2>1, <2>2
<1>7. ASSUME NEW kind \in {"send", "verify"}, Gate!Screen = "code", ~v1.busy,
             Gate!Post(kind, v1.email), v1' = [v1 EXCEPT !.busy = TRUE]
      PROVE  GateInv'
  <2> PICK r : r = [kind |-> kind, email |-> v1.email, answer |-> "pending"]
    OBVIOUS
  <2>1. IsRequest(r) /\ IsForm(r)
    BY DEF IsRequest, IsForm
  <2>2. v2' = v2 \cup {r} /\ v1.sessionReady
    BY <1>5, <1>7
  <2> QED  BY <1>2, <1>7, <2>1, <2>2
<1>8. CASE Gate!resendCode \/ Gate!verifyCode
  BY <1>7, <1>8 DEF Gate!resendCode, Gate!verifyCode
<1>9. CASE Gate!changeEmail \/ Gate!CooldownEnds
  <2>1. SameForm(v1, v1') /\ v2' = v2
    BY <1>0, <1>9 DEF Gate!changeEmail, Gate!CooldownEnds, SameForm, IsGate, WireOk
  <2> QED  BY <1>1, <2>1
<1>10. CASE Gate!ContinueToFanout
  <2>1. v1.token
    BY <1>10 DEF Gate!ContinueToFanout, Gate!Screen, Gate!SignedInScreen, Gate!FormScreen
  <2>2. v1.sessionReady
    BY <1>0, <2>1 DEF WireOk, IsGate
  <2>3. SameForm(v1, v1')
    BY <1>0, <1>10, <2>2 DEF Gate!ContinueToFanout, SameForm, IsGate
  <2> QED  BY <1>3, <1>10, <2>3 DEF Gate!ContinueToFanout
<1>11. CASE Gate!UseApp \/ Gate!SignOut
  <2>1. SameForm(v1, v1')
    BY <1>0, <1>11 DEF Gate!UseApp, Gate!SignOut, SameForm, WireOk, IsGate
  <2> QED  BY <1>3, <1>11, <2>1 DEF Gate!UseApp, Gate!SignOut
<1>12. CASE Gate!Reload
  BY <1>12, GateLoads DEF Gate!Reload
<1> QED  BY <1>4, <1>6, <1>8, <1>9, <1>10, <1>11, <1>12 DEF Gate!SignInPerson

\* What the answers do.
LEMMA GateAnswered ==
  ASSUME GateInv, NEW r \in v2, Gate!Receive(r)  PROVE GateInv'
<1>0. WireOk(v1, v2) /\ IsGate(v1) /\ IsRequest(r)
  BY DEF GateInv, WireOk
<1> USE DEF Gate!Took
<1>1. ASSUME ~IsForm(r), v2' = v2 \ {r}, SameForm(v1, v1')  PROVE GateInv'
  BY <1>0, <1>1, RequestTaken, GateKept DEF GateInv
<1>2. ASSUME IsForm(r), v2' = v2 \ {r}, IsGate(v1'), ~v1'.busy, v1'.sessionReady = v1.sessionReady
      PROVE  GateInv'
  <2>1. v1.sessionReady
    BY <1>0, <1>2 DEF WireOk
  <2> QED  BY <1>0, <1>2, <2>1, FormTaken DEF GateInv
<1> PICK refresh : refresh = [kind |-> "refresh", email |-> NoOne, answer |-> "pending"]
  OBVIOUS
<1>3. IsRequest(refresh) /\ ~IsForm(refresh) /\ refresh.kind # "me"
  BY DEF IsRequest, IsForm
<1>4. ASSUME IsForm(r), v2' = (v2 \ {r}) \cup {refresh}, IsGate(v1'), ~v1'.busy,
             v1'.sessionReady = v1.sessionReady
      PROVE  GateInv'
  <2>1. v1.sessionReady
    BY <1>0, <1>4 DEF WireOk
  <2>2. WireOk(v1', v2 \ {r})
    BY <1>0, <1>4, <2>1, FormTaken
  <2> QED  BY <1>3, <1>4, <2>2, RequestSent DEF GateInv
<1>5. CASE Gate!ReceiveStatus(r)
  <2>1. v1' = [v1 EXCEPT !.statusReady = TRUE, !.status = IF r.answer = "failed" THEN v1.status ELSE r.answer]
    BY <1>0, <1>5 DEF Gate!ReceiveStatus, IsGate
  <2>2. SameForm(v1, v1')
    BY <1>0, <2>1 DEF SameForm, IsGate, WireOk
  <2> QED  BY <1>1, <1>5, <2>2 DEF Gate!ReceiveStatus, IsForm
<1>6. CASE Gate!ReceiveMe(r)
  <2> DEFINE found == r.answer \in Accounts
             redeem == v1.loginToken /\ ~found
  <2>1. r.kind = "me" /\ ~v1.sessionReady /\ ~v1.busy /\ ~v1.token /\ v1.viewer = "none"
    BY <1>0, <1>6 DEF Gate!ReceiveMe, WireOk, IsGate
  <2>2. \A s \in v2 \ {r} : s.kind # "me" /\ ~IsForm(s)
    BY <1>0, <2>1 DEF WireOk
  <2>3. /\ v1'.sessionReady /\ IsGate(v1')
        /\ v1'.busy = redeem
    <3> PICK viewer : viewer = IF found THEN "user" ELSE "none"
      OBVIOUS
    <3> PICK account : account = IF found THEN r.answer ELSE NoOne
      OBVIOUS
    <3> PICK busy \in BOOLEAN : busy = (v1.busy \/ redeem)
      OBVIOUS
    <3>1. v1' = [v1 EXCEPT !.sessionReady = TRUE, !.viewer = viewer, !.account = account, !.busy = busy]
      BY <1>0, <1>6 DEF Gate!ReceiveMe, IsGate
    <3>2. busy = redeem
      BY <2>1
    <3> HIDE DEF redeem, found
    <3> QED  BY <1>0, <3>1, <3>2 DEF IsGate
  <2>4. CASE ~redeem
    <3>1. v2' = v2 \ {r}
      BY <1>6, <2>4 DEF Gate!ReceiveMe
    <3> QED  BY <1>0, <2>2, <2>3, <2>4, <3>1 DEF WireOk, GateInv
  <2>5. CASE redeem
    <3> PICK link : link = [kind |-> "link", email |-> NoOne, answer |-> "pending"]
      OBVIOUS
    <3>1. IsRequest(link) /\ IsForm(link) /\ link.kind # "me"
      BY DEF IsRequest, IsForm
    <3>2. v2' = (v2 \ {r}) \cup {link}
      BY <1>6, <2>5 DEF Gate!ReceiveMe, Gate!Request
    <3> QED  BY <1>0, <2>2, <2>3, <2>5, <3>1, <3>2 DEF WireOk, GateInv
  <2> QED  BY <2>4, <2>5
<1>7. CASE Gate!ReceiveRefresh(r)
  <2>1. SameForm(v1, v1')
    BY <1>0, <1>7 DEF Gate!ReceiveRefresh, SameForm, IsGate, WireOk
  <2> QED  BY <1>1, <1>7, <2>1 DEF Gate!ReceiveRefresh, IsForm
<1>8. CASE Gate!ReceiveLink(r)
  <2>1. IsGate(v1') /\ ~v1'.busy /\ v1'.sessionReady = v1.sessionReady
    BY <1>0, <1>8 DEF Gate!ReceiveLink, IsGate
  <2>2. v2' = v2 \ {r} \/ v2' = (v2 \ {r}) \cup {refresh}
    BY <1>8 DEF Gate!ReceiveLink, Gate!Request
  <2>3. IsForm(r)
    BY <1>8 DEF Gate!ReceiveLink, IsForm
  <2> QED  BY <1>2, <1>4, <2>1, <2>2, <2>3
<1>9. CASE Gate!ReceiveSend(r)
  <2>1. IsGate(v1') /\ ~v1'.busy /\ v1'.sessionReady = v1.sessionReady
    BY <1>0, <1>9 DEF Gate!ReceiveSend, IsGate
  <2> QED  BY <1>2, <1>9, <2>1 DEF Gate!ReceiveSend, IsForm
<1>10. CASE Gate!ReceiveVerify(r)
  <2>1. IsGate(v1') /\ ~v1'.busy /\ v1'.sessionReady = v1.sessionReady
    BY <1>0, <1>10 DEF Gate!ReceiveVerify, IsGate
  <2>2. v2' = v2 \ {r} \/ v2' = (v2 \ {r}) \cup {refresh}
    BY <1>10 DEF Gate!ReceiveVerify, Gate!Request
  <2>3. IsForm(r)
    BY <1>10 DEF Gate!ReceiveVerify, IsForm
  <2> QED  BY <1>2, <1>4, <2>1, <2>2, <2>3
<1>11. CASE Gate!ReceiveSetup(r)
  <2>1. IsGate(v1') /\ ~v1'.busy /\ v1'.sessionReady = v1.sessionReady
    BY <1>0, <1>11 DEF Gate!ReceiveSetup, IsGate
  <2> QED  BY <1>2, <1>11, <2>1 DEF Gate!ReceiveSetup, IsForm
<1>12. CASE Gate!authorizedFetch(r)
  <2>1. SameForm(v1, v1')
    BY <1>0, <1>12 DEF Gate!authorizedFetch, Gate!handleUnauthorized, SameForm, IsGate, WireOk
  <2> QED  BY <1>1, <1>12, <2>1 DEF Gate!authorizedFetch, IsForm
<1>13. CASE Gate!logout(r)
  <2>1. CASE r.answer = "failed"
    <3>1. SameForm(v1, v1') /\ v2' = v2 \ {r} /\ ~IsForm(r)
      BY <1>0, <1>13, <2>1 DEF Gate!logout, SameForm, WireOk, IsForm
    <3> QED  BY <1>1, <3>1
  <2>2. CASE r.answer # "failed"
    BY <1>13, <2>2, GateLoads DEF Gate!logout
  <2> QED  BY <2>1, <2>2
<1> QED  BY <1>5, <1>6, <1>7, <1>8, <1>9, <1>10, <1>11, <1>12, <1>13 DEF Gate!Receive

LEMMA GateStep == GateInv /\ Gate!SignInNext => GateInv'
<1> SUFFICES ASSUME GateInv, Gate!SignInNext  PROVE GateInv'
  OBVIOUS
<1>1. CASE Gate!ExpireSession
  BY <1>1 DEF Gate!ExpireSession, GateInv
<1>2. ASSUME NEW r \in v2, NEW a, v1' = v1, Gate!Answered(r, a)  PROVE GateInv'
  BY <1>2, RequestAnswered DEF Gate!Answered, GateInv
<1>3. ASSUME NEW r \in v2, Gate!Serve(r)  PROVE GateInv'
  <2>1. v1' = v1 /\ \E a : Gate!Answered(r, a)
    BY <1>3 DEF Gate!Serve, Gate!ServeRead, Gate!ServeSend, Gate!ServeCredential, Gate!ServeLogout
  <2> QED  BY <1>2, <2>1
<1>4. ASSUME NEW r \in v2, Gate!Fail(r)  PROVE GateInv'
  BY <1>2, <1>4 DEF Gate!Fail
<1> QED  BY <1>1, <1>3, <1>4, GatePressed, GateAnswered DEF Gate!SignInNext

\* The app goes away only on a request that is refused, or with its page.
LEMMA OnlyExpirySignsOut == GateInv /\ Gate!SignInNext => Gate!OnlyExpiry
<1> SUFFICES ASSUME GateInv, Gate!SignInNext, v1.viewer = "user", v1'.viewer = "none", v1'.sessionReady
    PROVE \E r \in v2 \ v2' : r.kind = "api" /\ r.answer = "401"
  BY DEF Gate!OnlyExpiry
<1>0. WireOk(v1, v2) /\ IsGate(v1)
  BY DEF GateInv, WireOk
<1>1. ASSUME NEW g, NEW login, NEW back, NEW e, g = [Gate!Boot(login, back) EXCEPT !.email = e]
      PROVE  ~g.sessionReady
  BY <1>1 DEF Gate!Boot
<1>2. ~Gate!SignInPerson
  <2>1. v1' # [Gate!Boot(FALSE, v1.returnTo) EXCEPT !.email = v1.email]
    BY <1>1
  <2> QED  BY <1>0, <2>1 DEF Gate!SignInPerson, Gate!TypeEmail, Gate!submit, Gate!resendCode,
             Gate!verifyCode, Gate!changeEmail, Gate!CooldownEnds, Gate!ContinueToFanout,
             Gate!UseApp, Gate!SignOut, Gate!Reload, IsGate
<1>3. PICK r \in v2 : Gate!Receive(r)
  BY <1>2 DEF Gate!SignInNext, Gate!ExpireSession, Gate!Serve, Gate!Fail
<1>4. r.kind # "me"
  BY <1>0 DEF WireOk, IsGate
<1>5. Gate!authorizedFetch(r) /\ r.answer = "401"
  <2>1. v1' # [Gate!Boot(FALSE, v1.returnTo) EXCEPT !.email = v1.email]
    BY <1>1
  <2>2. ~Gate!ReceiveStatus(r) /\ ~Gate!ReceiveMe(r) /\ ~Gate!ReceiveRefresh(r)
    BY <1>0, <1>4 DEF Gate!ReceiveStatus, Gate!ReceiveMe, Gate!ReceiveRefresh, IsGate
  <2>3. ~Gate!ReceiveLink(r) /\ ~Gate!ReceiveSend(r)
    BY <1>0 DEF Gate!ReceiveLink, Gate!ReceiveSend, IsGate
  <2>4. ~Gate!ReceiveVerify(r) /\ ~Gate!ReceiveSetup(r)
    BY <1>0 DEF Gate!ReceiveVerify, Gate!ReceiveSetup, IsGate
  <2>5. ~Gate!logout(r)
    BY <2>1 DEF Gate!logout
  <2> QED  BY <1>3, <2>2, <2>3, <2>4, <2>5 DEF Gate!Receive, Gate!authorizedFetch
<1> QED  BY <1>5 DEF Gate!authorizedFetch, Gate!Took

-----------------------------------------------------------------------------
(* Settings: a token on the screen is the last one issued, and a read that *)
(* may be older than a write began while that write was under way.         *)

IsRead(r) == r = [sent |-> r.sent, answer |-> r.answer, during |-> r.during]

IsCall(c) ==
  /\ c = [state |-> c.state, sent |-> c.sent, token |-> c.token, agent |-> c.agent]
  /\ c.token \in Nat /\ c.sent \in BOOLEAN

Q == Settings!QueryKeys

CacheOk(c) ==
  /\ c = [data |-> c.data, read |-> c.read, call |-> c.call]
  /\ c.read = [q \in Q |-> c.read[q]] /\ c.call = [q \in Q |-> c.call[q]]
  /\ \A q \in Q : IsRead(c.read[q]) /\ IsCall(c.call[q])

IsPage(p) ==
  /\ p = [open |-> p.open, confirming |-> p.confirming, issued |-> p.issued,
          override |-> p.override, selected |-> p.selected, announced |-> p.announced]
  /\ p.issued \in Nat /\ p.confirming \in BOOLEAN /\ (~p.open => p.issued = 0)

IsServer(s) == s = [token |-> s.token, connections |-> s.connections] /\ s.token \in Nat

\* A read and the call that may outdate it.
ReadOk(r, c, facts) ==
  /\ r.answer # NoData => r.sent
  /\ c.state = "pending" /\ r.sent => r.during
  /\ r.answer # NoData /\ r.answer # facts => r.during \/ c.state = "pending"

AgentsOk(r, c, connections) ==
  /\ r.answer # NoData => r.sent
  /\ c.state = "pending" /\ r.sent => r.during
  /\ r.answer # NoData => r.during \/ c.state = "pending" \/ r.answer \subseteq connections

\* The screen and the call that rotates the token.
TokenOk(p, c, token) ==
  /\ c.sent => c.state = "pending"
  /\ c.token > 0 => c.token = token /\ ~c.sent /\ (c.state = "pending" \/ p.issued = token)
  /\ p.issued > 0 => p.issued = token /\ c.state # "pending" /\ ~p.confirming

SettingsInv ==
  /\ CacheOk(v2) /\ IsPage(v3) /\ IsServer(v1)
  /\ TokenOk(v3, v2.call["ingest"], v1.token)
  /\ ReadOk(v2.read["ingest"], v2.call["ingest"], v1.token > 0)
  /\ v2.call["agents"].sent => v2.call["agents"].state = "pending"
  /\ AgentsOk(v2.read["agents"], v2.call["agents"], v1.connections)

\* What the page has read does not deny what a write of its own did, but where
\* the read began during the write.
DataInv ==
  /\ v2.data = [q \in Q |-> v2.data[q]]
  /\ v3.issued > 0 => v2.data["ingest"].facts \/ v2.data["ingest"].late
  /\ v3.announced # NoAgent =>
       /\ v2.call["agents"].state # "pending"
       /\ v3.announced \in Settings!Listed => v3.announced \in v1.connections \/ v2.data["agents"].late

LEMMA SettingsHold == SettingsInv /\ DataInv => Settings!SettingsAreTrue
<1> SUFFICES ASSUME SettingsInv, DataInv  PROVE Settings!SettingsAreTrue
  OBVIOUS
<1>1. /\ v3.issued > 0 => v3.issued = v1.token
      /\ v2.call["ingest"].token > 0 =>
           Settings!Pending("ingest") \/ v3.issued = v2.call["ingest"].token
  BY DEF SettingsInv, TokenOk, Settings!Pending
<1>2. /\ v3.issued > 0 => v2.data["ingest"].facts \/ Settings!Late("ingest")
      /\ v3.announced # NoAgent /\ v3.announced \in Settings!Listed =>
           v3.announced \in v1.connections \/ Settings!Late("agents")
  BY DEF DataInv, Settings!Late
<1>3. ASSUME NEW e
      PROVE  LET n == Settings!normalized(e)
             IN /\ n.port # "none" \/ e.scheme = "none"
                /\ ~e.path => (Settings!overTLS(n) <=> Settings!overTLS(e))
  <2>1. CASE e.scheme = "none"
    BY <2>1 DEF Settings!normalized
  <2>2. CASE e.scheme # "none"
    BY <2>2 DEF Settings!normalized, Settings!overTLS
  <2> QED  BY <2>1, <2>2
<1>4. ASSUME NEW e
      PROVE  /\ [endpoint |-> Settings!normalized(e), insecure |-> ~FALSE /\ ~Settings!overTLS(Settings!normalized(e))].endpoint.port # "none" \/ e.scheme = "none"
             /\ ~e.path => [endpoint |-> Settings!normalized(e), insecure |-> ~FALSE /\ ~Settings!overTLS(Settings!normalized(e))].insecure = ~Settings!overTLS(e)
  BY <1>3
<1> QED  BY <1>1, <1>2, <1>4 DEF Settings!SettingsAreTrue, Settings!collectorConfig, Q

LEMMA FreshRead ==
  ASSUME NEW none, none = [sent |-> FALSE, answer |-> NoData, during |-> FALSE],
         NEW r, r = [none EXCEPT !.sent = TRUE]
  PROVE  IsRead(r) /\ r.sent /\ r.answer = NoData
BY DEF IsRead

LEMMA FreshCall ==
  ASSUME NEW c, c = [state |-> "idle", sent |-> FALSE, token |-> 0, agent |-> NoAgent]
  PROVE  IsCall(c) /\ c.state = "idle" /\ ~c.sent /\ c.token = 0
BY DEF IsCall

LEMMA SettingsStart == Settings!SettingsInit => SettingsInv
<1> SUFFICES ASSUME Settings!SettingsInit  PROVE SettingsInv
  OBVIOUS
<1>1. IsServer(v1)
  BY DEF Settings!SettingsInit, IsServer
<1>2. IsPage(v3) /\ v3.issued = 0
  BY DEF Settings!SettingsInit, Settings!Fresh, IsPage
<1> PICK none : none = Settings!NoRead
  OBVIOUS
<1>8. none = [sent |-> FALSE, answer |-> NoData, during |-> FALSE]
  BY DEF Settings!NoRead
<1> PICK r : r = [none EXCEPT !.sent = TRUE]
  OBVIOUS
<1>10. IsRead(r) /\ r.sent /\ r.answer = NoData
  BY <1>8, FreshRead
<1> PICK c : c = Settings!NoCall
  OBVIOUS
<1>11. c = [state |-> "idle", sent |-> FALSE, token |-> 0, agent |-> NoAgent]
  BY DEF Settings!NoCall
<1>6. IsCall(c) /\ c.state = "idle" /\ ~c.sent /\ c.token = 0
  BY ONLY <1>11, FreshCall
<1>3. v2 = [data |-> [q \in Q |-> NoData], read |-> [q \in Q |-> r], call |-> [q \in Q |-> c]]
  BY DEF Settings!SettingsInit, Q
<1>4. CacheOk(v2)
  BY <1>3, <1>6, <1>10 DEF CacheOk
<1>5. ASSUME NEW q \in {"ingest", "agents"}
      PROVE  /\ v2.read[q].answer = NoData /\ ~v2.call[q].sent
             /\ v2.call[q].state = "idle" /\ v2.call[q].token = 0
  <2>1. v2.read[q] = r /\ v2.call[q] = c
    BY <1>3 DEF Q, Settings!QueryKeys
  <2> QED  BY <1>6, <1>10, <2>1
<1>12. /\ TokenOk(v3, v2.call["ingest"], v1.token)
       /\ ReadOk(v2.read["ingest"], v2.call["ingest"], v1.token > 0)
       /\ AgentsOk(v2.read["agents"], v2.call["agents"], v1.connections)
  BY ONLY <1>2, <1>5 DEF TokenOk, ReadOk, AgentsOk
<1> QED  BY <1>1, <1>2, <1>4, <1>5, <1>12 DEF SettingsInv

\* One query's read and call become others; those of the other query stay.
Becomes(q, r, k) ==
  /\ CacheOk(v2') /\ v2'.read[q] = r /\ v2'.call[q] = k
  /\ \A p \in Q : p # q => v2'.read[p] = v2.read[p] /\ v2'.call[p] = v2.call[p]

LEMMA ReadSet ==
  ASSUME CacheOk(v2), NEW q \in Q, NEW r, IsRead(r), NEW data,
         NEW f, f = [v2.read EXCEPT ![q] = r],
         v2' = [data |-> data, read |-> f, call |-> v2.call]
  PROVE  Becomes(q, r, v2.call[q])
<1>1. v2'.read = f /\ v2'.call = v2.call /\ v2' = [data |-> v2'.data, read |-> v2'.read, call |-> v2'.call]
  OBVIOUS
<1>2. f = [p \in Q |-> f[p]] /\ f[q] = r /\ \A p \in Q : p # q => f[p] = v2.read[p]
  BY DEF CacheOk
<1> QED  BY <1>1, <1>2 DEF Becomes, CacheOk

LEMMA BothSet ==
  ASSUME CacheOk(v2), NEW q \in Q, NEW r, IsRead(r), NEW k, IsCall(k), NEW data,
         NEW f, f = [v2.read EXCEPT ![q] = r], NEW g, g = [v2.call EXCEPT ![q] = k],
         v2' = [data |-> data, read |-> f, call |-> g]
  PROVE  Becomes(q, r, k)
<1>1. v2'.read = f /\ v2'.call = g /\ v2' = [data |-> v2'.data, read |-> v2'.read, call |-> v2'.call]
  OBVIOUS
<1>2. f = [p \in Q |-> f[p]] /\ f[q] = r /\ \A p \in Q : p # q => f[p] = v2.read[p]
  BY DEF CacheOk
<1>3. g = [p \in Q |-> g[p]] /\ g[q] = k /\ \A p \in Q : p # q => g[p] = v2.call[p]
  BY DEF CacheOk
<1> QED  BY <1>1, <1>2, <1>3 DEF Becomes, CacheOk

LEMMA CallSet ==
  ASSUME CacheOk(v2), NEW q \in Q, NEW k, IsCall(k), NEW data,
         NEW g, g = [v2.call EXCEPT ![q] = k],
         v2' = [data |-> data, read |-> v2.read, call |-> g]
  PROVE  Becomes(q, v2.read[q], k)
<1>1. v2'.read = v2.read /\ v2'.call = g /\ v2' = [data |-> v2'.data, read |-> v2'.read, call |-> v2'.call]
  OBVIOUS
<1>2. g = [p \in Q |-> g[p]] /\ g[q] = k /\ \A p \in Q : p # q => g[p] = v2.call[p]
  BY DEF CacheOk
<1> QED  BY <1>1, <1>2 DEF Becomes, CacheOk

\* What a read and a call may become while nothing else changes.
LEMMA IngestChanges ==
  ASSUME SettingsInv, NEW r, NEW k, Becomes("ingest", r, k), IsPage(v3'), IsServer(v1'),
         v1'.connections = v1.connections,
         TokenOk(v3', k, v1'.token), ReadOk(r, k, v1'.token > 0)
  PROVE  SettingsInv'
<1>1. "ingest" \in Q /\ "agents" \in Q
  BY DEF Q, Settings!QueryKeys
<1>2. v2'.read["agents"] = v2.read["agents"] /\ v2'.call["agents"] = v2.call["agents"]
  BY <1>1 DEF Becomes
<1> QED  BY <1>2 DEF SettingsInv, Becomes

LEMMA AgentsChange ==
  ASSUME SettingsInv, NEW r, NEW k, Becomes("agents", r, k), IsPage(v3'), IsServer(v1'),
         v1'.token = v1.token, v3'.issued = v3.issued, v3'.confirming = v3.confirming,
         k.sent => k.state = "pending", AgentsOk(r, k, v1'.connections)
  PROVE  SettingsInv'
<1>1. "ingest" \in Q /\ "agents" \in Q
  BY DEF Q, Settings!QueryKeys
<1>2. v2'.read["ingest"] = v2.read["ingest"] /\ v2'.call["ingest"] = v2.call["ingest"]
  BY <1>1 DEF Becomes
<1>3. TokenOk(v3', v2.call["ingest"], v1.token)
  BY DEF SettingsInv, TokenOk
<1> QED  BY <1>2, <1>3 DEF SettingsInv, Becomes

\* The reads: one is begun, served, lands, or fails.
LEMMA ReadChanges ==
  ASSUME SettingsInv, v1' = v1, v3' = v3, NEW q \in Q, NEW r, Becomes(q, r, v2.call[q]),
         r.answer # NoData => r.sent /\ r.answer = Settings!Facts(q),
         v2.call[q].state = "pending" /\ r.sent => r.during
  PROVE  SettingsInv'
<1>1. CASE q = "ingest"
  <2>1. ReadOk(r, v2.call["ingest"], v1.token > 0)
    BY <1>1 DEF ReadOk, Settings!Facts
  <2>2. IsPage(v3') /\ IsServer(v1') /\ TokenOk(v3', v2.call["ingest"], v1'.token)
    BY DEF SettingsInv
  <2>3. ReadOk(r, v2.call["ingest"], v1'.token > 0)
    BY <2>1
  <2> QED  BY <1>1, <2>2, <2>3, IngestChanges
<1>2. CASE q = "agents"
  <2>1. AgentsOk(r, v2.call["agents"], v1.connections)
    BY <1>2 DEF AgentsOk, Settings!Facts
  <2>2. IsPage(v3') /\ IsServer(v1') /\ (v2.call["agents"].sent => v2.call["agents"].state = "pending")
    BY DEF SettingsInv
  <2> QED  BY <1>2, <2>1, <2>2, AgentsChange
<1> QED  BY <1>1, <1>2 DEF Q, Settings!QueryKeys

LEMMA NothingRead ==
  ASSUME NEW r, r = Settings!NoRead  PROVE IsRead(r) /\ ~r.sent /\ r.answer = NoData
BY DEF Settings!NoRead, IsRead

LEMMA NothingCalled ==
  ASSUME NEW k, k = Settings!NoCall
  PROVE  IsCall(k) /\ k.state = "idle" /\ ~k.sent /\ k.token = 0
<1>1. k = [state |-> "idle", sent |-> FALSE, token |-> 0, agent |-> NoAgent]
  BY DEF Settings!NoCall
<1> QED  BY ONLY <1>1, FreshCall

LEMMA ReadBegun ==
  ASSUME NEW q, NEW r, r = Settings!Begun(q)
  PROVE  IsRead(r) /\ r.sent /\ r.answer = NoData /\ (v2.call[q].state = "pending" => r.during)
<1> PICK none : none = Settings!NoRead
  OBVIOUS
<1>1. none = [sent |-> FALSE, answer |-> NoData, during |-> FALSE]
  BY DEF Settings!NoRead
<1> PICK b \in BOOLEAN : b = (v2.call[q].state = "pending")
  OBVIOUS
<1>2. r = [none EXCEPT !.sent = TRUE, !.during = b]
  BY DEF Settings!Begun
<1>3. IsRead(r) /\ r.sent /\ r.answer = NoData /\ r.during = b
  BY ONLY <1>1, <1>2, b \in BOOLEAN DEF IsRead
<1> QED  BY <1>3

LEMMA ReadsStep ==
  ASSUME SettingsInv, NEW q \in Q,
         \/ Settings!refetch(q) \/ Settings!AnswerRead(q) \/ Settings!ReadLands(q)
         \/ Settings!ReadFails(q)
  PROVE  SettingsInv'
<1>0. CacheOk(v2) /\ IsRead(v2.read[q])
  BY DEF SettingsInv, CacheOk
<1>1. ASSUME NEW r, IsRead(r), v1' = v1, v3' = v3, NEW data,
             v2' = [data |-> data, read |-> [v2.read EXCEPT ![q] = r], call |-> v2.call],
             r.answer # NoData => r.sent /\ r.answer = Settings!Facts(q),
             v2.call[q].state = "pending" /\ r.sent => r.during
      PROVE  SettingsInv'
  <2> PICK f : f = [v2.read EXCEPT ![q] = r]
    OBVIOUS
  <2>1. Becomes(q, r, v2.call[q])
    BY <1>0, <1>1, ReadSet
  <2> QED  BY <1>1, <2>1, ReadChanges
<1>2. CASE Settings!refetch(q)
  <2> PICK r : r = Settings!Begun(q)
    OBVIOUS
  <2>1. v2' = [data |-> v2.data, read |-> [v2.read EXCEPT ![q] = r], call |-> v2.call]
    BY <1>0, <1>2 DEF Settings!refetch, CacheOk
  <2> QED  BY <1>1, <1>2, <2>1, ReadBegun DEF Settings!refetch
<1>3. CASE Settings!AnswerRead(q)
  <2> PICK facts : facts = Settings!Facts(q)
    OBVIOUS
  <2> PICK r : r = [v2.read[q] EXCEPT !.answer = facts]
    OBVIOUS
  <2>1. v2' = [data |-> v2.data, read |-> [v2.read EXCEPT ![q] = r], call |-> v2.call]
    BY <1>0, <1>3 DEF Settings!AnswerRead, CacheOk
  <2>2. IsRead(r) /\ r.sent = v2.read[q].sent /\ r.answer = facts /\ r.during = v2.read[q].during
    BY <1>0 DEF IsRead
  <2>3. v2.call[q].state = "pending" /\ v2.read[q].sent => v2.read[q].during
    BY DEF SettingsInv, ReadOk, AgentsOk, Q, Settings!QueryKeys
  <2> QED  BY <1>1, <1>3, <2>1, <2>2, <2>3 DEF Settings!AnswerRead
<1>4. CASE Settings!ReadLands(q) \/ Settings!ReadFails(q)
  <2> PICK r : r = Settings!NoRead
    OBVIOUS
  <2>1. v2' = [data |-> v2'.data, read |-> [v2.read EXCEPT ![q] = r], call |-> v2.call]
    BY <1>0, <1>4 DEF Settings!ReadLands, Settings!ReadFails, CacheOk
  <2> QED  BY <1>1, <1>4, <2>1, NothingRead DEF Settings!ReadLands, Settings!ReadFails
<1> QED  BY <1>2, <1>3, <1>4

\* A call ends, and a read that is under way began during it.
LEMMA CallEnds ==
  ASSUME SettingsInv, NEW k, k.state # "pending"
  PROVE  /\ ReadOk(v2.read["ingest"], k, v1.token > 0)
         /\ AgentsOk(v2.read["agents"], k, v1.connections)
BY DEF SettingsInv, ReadOk, AgentsOk

LEMMA IngestEnds ==
  ASSUME SettingsInv, NEW k, IsCall(k), k.state # "pending", ~k.sent, NEW data,
         v2' = [data |-> data, read |-> v2.read, call |-> [v2.call EXCEPT !["ingest"] = k]],
         v1' = v1, IsPage(v3'),
         k.token > 0 => k.token = v1.token /\ v3'.issued = v1.token,
         v3'.issued > 0 => v3'.issued = v1.token /\ ~v3'.confirming
  PROVE  SettingsInv'
<1> PICK g : g = [v2.call EXCEPT !["ingest"] = k]
  OBVIOUS
<1>1. "ingest" \in Q /\ CacheOk(v2)
  BY DEF Q, Settings!QueryKeys, SettingsInv
<1>2. Becomes("ingest", v2.read["ingest"], k)
  BY <1>1, CallSet
<1>3. TokenOk(v3', k, v1'.token) /\ IsServer(v1') /\ v1'.connections = v1.connections
  BY DEF TokenOk, SettingsInv
<1>4. ReadOk(v2.read["ingest"], k, v1'.token > 0)
  BY CallEnds
<1> QED  BY <1>2, <1>3, <1>4, IngestChanges

LEMMA AgentsEnd ==
  ASSUME SettingsInv, NEW k, IsCall(k), k.state # "pending", ~k.sent, NEW data,
         v2' = [data |-> data, read |-> v2.read, call |-> [v2.call EXCEPT !["agents"] = k]],
         v1' = v1, IsPage(v3'), v3'.issued = v3.issued, v3'.confirming = v3.confirming
  PROVE  SettingsInv'
<1> PICK g : g = [v2.call EXCEPT !["agents"] = k]
  OBVIOUS
<1>1. "agents" \in Q /\ CacheOk(v2) /\ IsServer(v1')
  BY DEF Q, Settings!QueryKeys, SettingsInv
<1>2. Becomes("agents", v2.read["agents"], k)
  BY <1>1, CallSet
<1>3. AgentsOk(v2.read["agents"], k, v1'.connections)
  BY CallEnds
<1> QED  BY <1>1, <1>2, <1>3, AgentsChange

\* The token is rotated.
LEMMA TokenStep ==
  ASSUME SettingsInv,
         \/ Settings!openConfirm \/ Settings!closeConfirm \/ Settings!rotate \/ Settings!ServeRotate
         \/ Settings!Rotated \/ Settings!dismissToken \/ Settings!CallFails("ingest")
  PROVE  SettingsInv'
<1>0. /\ CacheOk(v2) /\ IsPage(v3) /\ IsServer(v1) /\ IsCall(v2.call["ingest"])
      /\ v2 = [data |-> v2.data, read |-> v2.read, call |-> v2.call] /\ "ingest" \in Q
      /\ TokenOk(v3, v2.call["ingest"], v1.token)
  BY DEF SettingsInv, CacheOk, Q, Settings!QueryKeys
<1> PICK none : none = Settings!NoCall
  OBVIOUS
<1>1. IsCall(none) /\ none.state = "idle" /\ ~none.sent /\ none.token = 0
  BY NothingCalled
<1>2. CASE Settings!openConfirm \/ Settings!closeConfirm \/ Settings!dismissToken
  <2>1. v2' = [data |-> v2.data, read |-> v2.read, call |-> [v2.call EXCEPT !["ingest"] = none]]
    BY <1>0, <1>2 DEF Settings!openConfirm, Settings!closeConfirm, Settings!dismissToken
  <2>2. IsPage(v3') /\ v1' = v1 /\ (v3'.issued = 0 \/ (v3'.issued = v3.issued /\ ~v3'.confirming))
    <3>1. CASE Settings!openConfirm
      BY <1>0, <3>1 DEF Settings!openConfirm, IsPage
    <3>2. CASE Settings!closeConfirm
      BY <1>0, <3>2 DEF Settings!closeConfirm, IsPage
    <3>3. CASE Settings!dismissToken
      BY <1>0, <3>3 DEF Settings!dismissToken, IsPage
    <3> QED  BY <1>2, <3>1, <3>2, <3>3
  <2>3. v3'.issued > 0 => v3'.issued = v1.token /\ ~v3'.confirming
    BY <1>0, <2>2 DEF TokenOk
  <2> QED  BY <1>1, <2>1, <2>2, <2>3, IngestEnds
<1>3. CASE Settings!CallFails("ingest")
  <2> PICK state \in {"error", "idle"} : state = IF v3.open THEN "error" ELSE "idle"
    OBVIOUS
  <2> PICK k : k = [none EXCEPT !.state = state]
    OBVIOUS
  <2>1. IsCall(k) /\ k.state # "pending" /\ ~k.sent /\ k.token = 0
    BY <1>1 DEF IsCall
  <2>2. v2' = [data |-> v2.data, read |-> v2.read, call |-> [v2.call EXCEPT !["ingest"] = k]]
    BY <1>0, <1>3 DEF Settings!CallFails
  <2>3. v3' = v3 /\ v1' = v1 /\ IsPage(v3')
    BY <1>0, <1>3 DEF Settings!CallFails, IsPage
  <2>4. /\ v3'.issued > 0 => v3'.issued = v1.token /\ ~v3'.confirming
        /\ ~(k.token > 0)
    BY <1>0, <2>1, <2>3 DEF TokenOk
  <2> QED  BY <1>0, <2>1, <2>2, <2>3, <2>4, IngestEnds
<1>4. CASE Settings!rotate
  <2> PICK k : k = [none EXCEPT !.state = "pending", !.sent = TRUE, !.agent = NoAgent]
    OBVIOUS
  <2>1. IsCall(k) /\ k.state = "pending" /\ k.sent /\ k.token = 0
    BY <1>1 DEF IsCall
  <2> PICK r : r = Settings!NoRead
    OBVIOUS
  <2>2. IsRead(r) /\ ~r.sent /\ r.answer = NoData
    BY NothingRead
  <2> PICK f : f = [v2.read EXCEPT !["ingest"] = r]
    OBVIOUS
  <2> PICK g : g = [v2.call EXCEPT !["ingest"] = k]
    OBVIOUS
  <2>3. v2' = [data |-> v2.data, read |-> f, call |-> g] /\ v1' = v1 /\ v3' = v3 /\ v3.confirming
    BY <1>0, <1>4 DEF Settings!rotate, Settings!mutate
  <2>4. Becomes("ingest", r, k)
    BY <1>0, <2>1, <2>2, <2>3, BothSet
  <2>5. TokenOk(v3', k, v1'.token)
    BY <1>0, <2>1, <2>3 DEF TokenOk, IsPage
  <2>6. ReadOk(r, k, v1'.token > 0)
    BY <2>1, <2>2 DEF ReadOk
  <2> QED  BY <1>0, <2>3, <2>4, <2>5, <2>6, IngestChanges
<1>5. CASE Settings!ServeRotate
  <2> PICK t : t = v1.token + 1
    OBVIOUS
  <2> PICK k : k = [v2.call["ingest"] EXCEPT !.sent = FALSE, !.token = t]
    OBVIOUS
  <2>1. v2.call["ingest"].sent /\ v2.call["ingest"].state = "pending"
    BY <1>0, <1>5 DEF Settings!ServeRotate, TokenOk
  <2>2. v1.token \in Nat /\ v1' = [v1 EXCEPT !.token = v1.token + 1] /\ v3' = v3
    BY <1>0, <1>5 DEF Settings!ServeRotate, IsServer
  <2>3. IsServer(v1') /\ v1'.token = v1.token + 1 /\ v1'.connections = v1.connections
    BY <1>0, <2>2 DEF IsServer
  <2>9. t \in Nat
    BY <2>2
  <2>10. IsCall(k) /\ k.state = "pending" /\ ~k.sent /\ k.token = t
    BY <1>0, <2>1, <2>9 DEF IsCall
  <2>4. IsCall(k) /\ k.state = "pending" /\ ~k.sent /\ k.token = v1.token + 1
    BY <2>10
  <2> PICK g : g = [v2.call EXCEPT !["ingest"] = k]
    OBVIOUS
  <2>5. v2' = [data |-> v2.data, read |-> v2.read, call |-> g]
    BY <1>0, <1>5 DEF Settings!ServeRotate, CacheOk
  <2>6. Becomes("ingest", v2.read["ingest"], k)
    BY <1>0, <2>4, <2>5, CallSet
  <2>7. TokenOk(v3', k, v1'.token)
    BY <1>0, <2>1, <2>2, <2>3, <2>4 DEF TokenOk
  <2>8. ReadOk(v2.read["ingest"], k, v1'.token > 0)
    BY <2>1, <2>4 DEF SettingsInv, ReadOk
  <2> QED  BY <1>0, <2>2, <2>3, <2>6, <2>7, <2>8, IngestChanges
<1>6. CASE Settings!Rotated
  <2> PICK state \in {"done", "idle"} : state = IF v3.open THEN "done" ELSE "idle"
    OBVIOUS
  <2> PICK token : token = IF v3.open THEN v2.call["ingest"].token ELSE 0
    OBVIOUS
  <2> PICK k : k = [v2.call["ingest"] EXCEPT !.state = state, !.token = token]
    OBVIOUS
  <2>1. /\ v2.call["ingest"].token > 0 /\ v2.call["ingest"].state = "pending"
        /\ v2.call["ingest"].token = v1.token /\ ~v2.call["ingest"].sent
    BY <1>0, <1>6 DEF Settings!Rotated, Settings!Pending, TokenOk
  <2>2. IsCall(k) /\ k.state # "pending" /\ ~k.sent /\ k.token = token
    BY <1>0, <2>1 DEF IsCall
  <2>3. v2' = [data |-> v2'.data, read |-> v2.read, call |-> [v2.call EXCEPT !["ingest"] = k]] /\ v1' = v1
    BY <1>0, <1>6 DEF Settings!Rotated, CacheOk
  <2>4. CASE v3.open
    <3>1. v3' = [v3 EXCEPT !.confirming = FALSE, !.issued = v2.call["ingest"].token]
      BY <1>6, <2>4 DEF Settings!Rotated
    <3>2. IsPage(v3') /\ v3'.issued = v1.token /\ ~v3'.confirming
      BY <1>0, <2>1, <2>4, <3>1 DEF IsPage, IsCall
    <3> QED  BY <2>1, <2>2, <2>3, <2>4, <3>2, IngestEnds
  <2>5. CASE ~v3.open
    <3>1. v3' = v3 /\ token = 0 /\ IsPage(v3')
      BY <1>0, <1>6, <2>5 DEF Settings!Rotated, IsPage
    <3>2. /\ v3'.issued > 0 => v3'.issued = v1.token /\ ~v3'.confirming
          /\ ~(k.token > 0)
      BY <1>0, <2>2, <3>1 DEF TokenOk
    <3> QED  BY <1>0, <2>2, <2>3, <3>1, <3>2, IngestEnds
  <2> QED  BY <2>4, <2>5
<1> QED  BY <1>2, <1>3, <1>4, <1>5, <1>6

\* An agent is disconnected.
LEMMA DisconnectStep ==
  ASSUME SettingsInv,
         \/ \E agent \in Agents : Settings!select(agent) \/ Settings!Authorize(agent)
         \/ Settings!cancel \/ Settings!disconnect \/ Settings!ServeRevoke \/ Settings!Disconnected
         \/ Settings!CallFails("agents")
  PROVE  SettingsInv'
<1>0. /\ CacheOk(v2) /\ IsPage(v3) /\ IsServer(v1) /\ IsCall(v2.call["agents"])
      /\ v2 = [data |-> v2.data, read |-> v2.read, call |-> v2.call] /\ "agents" \in Q
      /\ v2.call["agents"].sent => v2.call["agents"].state = "pending"
      /\ AgentsOk(v2.read["agents"], v2.call["agents"], v1.connections)
  BY DEF SettingsInv, CacheOk, Q, Settings!QueryKeys
<1> PICK none : none = Settings!NoCall
  OBVIOUS
<1>1. IsCall(none) /\ none.state = "idle" /\ ~none.sent /\ none.token = 0
  BY NothingCalled
<1>2. CASE (\E agent \in Agents : Settings!select(agent)) \/ Settings!cancel \/ Settings!Disconnected
  <2>1. v2' = [data |-> v2'.data, read |-> v2.read, call |-> [v2.call EXCEPT !["agents"] = none]] /\ v1' = v1
    BY <1>0, <1>2 DEF Settings!select, Settings!cancel, Settings!Disconnected
  <2>2. IsPage(v3') /\ v3'.issued = v3.issued /\ v3'.confirming = v3.confirming
    <3>1. CASE \E agent \in Agents : Settings!select(agent)
      BY <1>0, <3>1 DEF Settings!select, IsPage
    <3>2. CASE Settings!cancel
      BY <1>0, <3>2 DEF Settings!cancel, IsPage
    <3>3. CASE Settings!Disconnected
      <4>1. v3' = v3 \/ v3' = [v3 EXCEPT !.selected = NoAgent, !.announced = v2.call["agents"].agent]
        BY <3>3 DEF Settings!Disconnected
      <4> QED  BY <1>0, <4>1 DEF IsPage
    <3> QED  BY <1>2, <3>1, <3>2, <3>3
  <2> QED  BY <1>1, <2>1, <2>2, AgentsEnd
<1>3. CASE Settings!CallFails("agents")
  <2> PICK state \in {"error", "idle"} : state = IF v3.open THEN "error" ELSE "idle"
    OBVIOUS
  <2> PICK k : k = [none EXCEPT !.state = state]
    OBVIOUS
  <2>1. IsCall(k) /\ k.state # "pending" /\ ~k.sent
    BY <1>1 DEF IsCall
  <2>2. v2' = [data |-> v2.data, read |-> v2.read, call |-> [v2.call EXCEPT !["agents"] = k]]
    BY <1>0, <1>3 DEF Settings!CallFails
  <2>3. v3' = v3 /\ v1' = v1 /\ IsPage(v3')
    BY <1>0, <1>3 DEF Settings!CallFails, IsPage
  <2> QED  BY <2>1, <2>2, <2>3, AgentsEnd
<1>4. CASE Settings!disconnect
  <2> PICK k : k = [none EXCEPT !.state = "pending", !.sent = TRUE, !.agent = v3.selected]
    OBVIOUS
  <2>1. IsCall(k) /\ k.state = "pending"
    BY <1>1 DEF IsCall
  <2> PICK r : r = Settings!NoRead
    OBVIOUS
  <2>2. IsRead(r) /\ ~r.sent /\ r.answer = NoData
    BY NothingRead
  <2> PICK f : f = [v2.read EXCEPT !["agents"] = r]
    OBVIOUS
  <2> PICK g : g = [v2.call EXCEPT !["agents"] = k]
    OBVIOUS
  <2>3. v2' = [data |-> v2.data, read |-> f, call |-> g] /\ v1' = v1
    BY <1>0, <1>4 DEF Settings!disconnect, Settings!mutate
  <2>4. IsPage(v3') /\ v3'.issued = v3.issued /\ v3'.confirming = v3.confirming
    BY <1>0, <1>4 DEF Settings!disconnect, IsPage
  <2>5. Becomes("agents", r, k)
    BY <1>0, <2>1, <2>2, <2>3, BothSet
  <2>6. AgentsOk(r, k, v1'.connections)
    BY <2>1, <2>2 DEF AgentsOk
  <2> QED  BY <1>0, <2>1, <2>3, <2>4, <2>5, <2>6, AgentsChange
<1>5. CASE Settings!ServeRevoke
  <2> PICK k : k = [v2.call["agents"] EXCEPT !.sent = FALSE]
    OBVIOUS
  <2>1. v2.call["agents"].state = "pending"
    BY <1>0, <1>5 DEF Settings!ServeRevoke
  <2>2. IsCall(k) /\ k.state = "pending" /\ ~k.sent
    BY <1>0, <2>1 DEF IsCall
  <2> PICK connections : connections = v1.connections \ {v2.call["agents"].agent}
    OBVIOUS
  <2>3. v1' = [v1 EXCEPT !.connections = connections] /\ v3' = v3 /\ IsPage(v3')
    BY <1>0, <1>5 DEF Settings!ServeRevoke, IsServer, IsPage
  <2>4. IsServer(v1') /\ v1'.token = v1.token
    BY <1>0, <2>3 DEF IsServer
  <2> PICK g : g = [v2.call EXCEPT !["agents"] = k]
    OBVIOUS
  <2>5. v2' = [data |-> v2.data, read |-> v2.read, call |-> g]
    BY <1>0, <1>5 DEF Settings!ServeRevoke, CacheOk
  <2>6. Becomes("agents", v2.read["agents"], k)
    BY <1>0, <2>2, <2>5, CallSet
  <2>7. AgentsOk(v2.read["agents"], k, v1'.connections)
    BY <1>0, <2>1, <2>2 DEF AgentsOk
  <2> QED  BY <2>2, <2>3, <2>4, <2>6, <2>7, AgentsChange
<1>6. ASSUME NEW agent \in Agents, Settings!Authorize(agent)  PROVE SettingsInv'
  <2> PICK connections : connections = v1.connections \cup {agent}
    OBVIOUS
  <2>1. v1' = [v1 EXCEPT !.connections = connections] /\ v2' = v2 /\ v3' = v3 /\ agent \notin v1.connections
    BY <1>0, <1>6 DEF Settings!Authorize, IsServer
  <2>2. IsServer(v1') /\ v1'.token = v1.token /\ v1'.connections = connections
    BY <1>0, <2>1 DEF IsServer
  <2>3. AgentsOk(v2.read["agents"], v2.call["agents"], connections)
    BY <1>0, <2>1 DEF AgentsOk
  <2> QED  BY <2>1, <2>2, <2>3 DEF SettingsInv
<1> QED  BY <1>2, <1>3, <1>4, <1>5, <1>6

LEMMA SettingsStep == SettingsInv /\ Settings!SettingsNext => SettingsInv'
<1> SUFFICES ASSUME SettingsInv, Settings!SettingsNext  PROVE SettingsInv'
  OBVIOUS
<1>0. /\ CacheOk(v2) /\ IsPage(v3) /\ IsServer(v1)
      /\ v2 = [data |-> v2.data, read |-> v2.read, call |-> v2.call]
  BY DEF SettingsInv, CacheOk
<1>q. "ingest" \in Q /\ "agents" \in Q /\ \A q \in Q : q = "ingest" \/ q = "agents"
  BY DEF Q, Settings!QueryKeys
<1>1. ASSUME NEW value \in Endpoints \cup {Spaces}, Settings!editEndpoint(value)  PROVE SettingsInv'
  <2>1. IsPage(v3') /\ v3'.issued = v3.issued /\ v3'.confirming = v3.confirming /\ v1' = v1 /\ v2' = v2
    BY <1>0, <1>1 DEF Settings!editEndpoint, IsPage
  <2>2. TokenOk(v3', v2.call["ingest"], v1.token)
    BY <2>1 DEF SettingsInv, TokenOk
  <2> QED  BY <2>1, <2>2 DEF SettingsInv
<1>2. Settings!leave => SettingsInv'
  <2> SUFFICES ASSUME Settings!leave  PROVE SettingsInv'
    OBVIOUS
  <2> PICK none : none = Settings!NoCall
    OBVIOUS
  <2>1. IsCall(none) /\ none.state = "idle" /\ ~none.sent /\ none.token = 0
    BY NothingCalled
  <2> PICK g : g = [q \in Q |-> IF v2.call[q].state = "pending" THEN v2.call[q] ELSE none]
    OBVIOUS
  <2>2. v2' = [data |-> v2.data, read |-> v2.read, call |-> g] /\ v1' = v1
    BY <1>0 DEF Settings!leave, Settings!Pending, Q
  <2>3. \A q \in Q : g[q] = v2.call[q] \/ (g[q] = none /\ v2.call[q].state # "pending")
    OBVIOUS
  <2>4. CacheOk(v2') /\ v2'.read = v2.read /\ v2'.call = g
    BY <1>0, <2>1, <2>2, <2>3 DEF CacheOk
  <2>5. IsPage(v3') /\ v3'.issued = 0
    BY DEF Settings!leave, Settings!Fresh, IsPage
  <2>6. ASSUME NEW k, k.token > 0 => k.state = "pending", TokenOk(v3, k, v1.token)
        PROVE  TokenOk(v3', k, v1.token)
    BY <2>5, <2>6 DEF TokenOk
  <2>7. TokenOk(v3', g["ingest"], v1.token)
    <3>1. CASE v2.call["ingest"].state = "pending"
      BY <1>q, <2>3, <2>6, <3>1 DEF SettingsInv
    <3>2. CASE g["ingest"] = none
      BY <2>1, <2>5, <3>2 DEF TokenOk
    <3> QED  BY <1>q, <2>3, <3>1, <3>2
  <2>8. ReadOk(v2.read["ingest"], g["ingest"], v1.token > 0)
    BY <1>q, <2>1, <2>3, CallEnds DEF SettingsInv
  <2>9. AgentsOk(v2.read["agents"], g["agents"], v1.connections)
        /\ (g["agents"].sent => g["agents"].state = "pending")
    BY <1>q, <2>1, <2>3, CallEnds DEF SettingsInv
  <2> QED  BY <1>0, <2>2, <2>4, <2>5, <2>7, <2>8, <2>9 DEF SettingsInv
<1>3. Settings!enter => SettingsInv'
  <2> SUFFICES ASSUME Settings!enter  PROVE SettingsInv'
    OBVIOUS
  <2> PICK f : f = [q \in Q |-> IF v2.read[q].sent THEN v2.read[q] ELSE Settings!Begun(q)]
    OBVIOUS
  <2>1. v2' = [data |-> v2.data, read |-> f, call |-> v2.call] /\ v1' = v1
    BY <1>0 DEF Settings!enter, Q
  <2>2. \A q \in Q : f[q] = v2.read[q] \/ f[q] = Settings!Begun(q)
    OBVIOUS
  <2>3. \A q \in Q : f[q] = v2.read[q] \/
          (IsRead(f[q]) /\ f[q].answer = NoData /\ (v2.call[q].state = "pending" => f[q].during))
    BY <2>2, ReadBegun
  <2>4. CacheOk(v2') /\ v2'.read = f /\ v2'.call = v2.call
    BY <1>0, <2>1, <2>3 DEF CacheOk
  <2>5. IsPage(v3') /\ v3'.issued = 0
    BY DEF Settings!enter, Settings!Fresh, IsPage
  <2>6. v2.call["ingest"].state # "pending"
    BY <1>q DEF Settings!enter, Settings!Pending, Q
  <2>10. v3.issued = 0 /\ v2.call["ingest"].token \in Nat
    BY <1>0, <1>q DEF Settings!enter, IsPage, CacheOk, IsCall
  <2>7. TokenOk(v3', v2.call["ingest"], v1.token)
    BY <2>5, <2>6, <2>10 DEF SettingsInv, TokenOk
  <2>8. ReadOk(f["ingest"], v2.call["ingest"], v1.token > 0)
    BY <1>q, <2>3 DEF SettingsInv, ReadOk
  <2>9. AgentsOk(f["agents"], v2.call["agents"], v1.connections)
    BY <1>q, <2>3 DEF SettingsInv, AgentsOk
  <2> QED  BY <1>0, <2>1, <2>4, <2>5, <2>7, <2>8, <2>9 DEF SettingsInv
<1> QED
  BY <1>1, <1>2, <1>3, <1>q, ReadsStep, TokenStep, DisconnectStep DEF Settings!SettingsNext, Q

LEMMA DataStart == Settings!SettingsInit => DataInv
<1> SUFFICES ASSUME Settings!SettingsInit  PROVE DataInv
  OBVIOUS
<1>1. v3.issued = 0 /\ v3.announced = NoAgent
  BY DEF Settings!SettingsInit, Settings!Fresh
<1>2. v2.data = [q \in Q |-> NoData]
  BY DEF Settings!SettingsInit, Q
<1>3. v2.data = [q \in Q |-> v2.data[q]]
  BY <1>2
<1> QED  BY <1>1, <1>3 DEF DataInv

\* What was read stays, and no write of the page's own is told of anew.
LEMMA DataStays ==
  ASSUME DataInv, v2'.data = v2.data, v3'.issued \in {0, v3.issued},
         \/ v3'.announced = NoAgent
         \/ /\ v3'.announced = v3.announced /\ v1.connections \subseteq v1'.connections
            /\ v3.announced # NoAgent => v2'.call["agents"].state # "pending"
  PROVE  DataInv'
<1>1. Settings!Listed' = Settings!Listed
  BY DEF Settings!Listed
<1>2. v2'.data = [q \in Q |-> v2'.data[q]]
  BY DEF DataInv
<1>3. v3'.issued > 0 => v2'.data["ingest"].facts \/ v2'.data["ingest"].late
  <2>1. CASE v3'.issued = 0
    BY <2>1
  <2>2. CASE v3'.issued = v3.issued
    BY <2>2 DEF DataInv
  <2> QED  BY <2>1, <2>2
<1>4. v3'.announced # NoAgent =>
        /\ v2'.call["agents"].state # "pending"
        /\ v3'.announced \in Settings!Listed' => v3'.announced \in v1'.connections \/ v2'.data["agents"].late
  BY <1>1 DEF DataInv
<1> QED  BY <1>2, <1>3, <1>4 DEF DataInv

\* The answer of a read replaces what the page had.
LEMMA DataLands ==
  ASSUME SettingsInv, DataInv, NEW q \in Q, Settings!ReadLands(q)
  PROVE  DataInv'
<1> PICK told : told = Settings!Told(v2.read[q].answer, v2.read[q].during)
  OBVIOUS
<1>1. told.facts = v2.read[q].answer /\ told.late = v2.read[q].during
  BY DEF Settings!Told
<1>2. /\ v1' = v1 /\ v3' = v3 /\ v2'.call = v2.call /\ v2.read[q].answer # NoData
      /\ v2'.data = [v2.data EXCEPT ![q] = told]
  BY DEF Settings!ReadLands, SettingsInv, CacheOk
<1>3. v2'.data = [p \in Q |-> v2'.data[p]] /\ v2'.data[q] = told /\ \A p \in Q : p # q => v2'.data[p] = v2.data[p]
  BY <1>2 DEF DataInv
<1>4. CASE q = "ingest"
  <2>1. v2'.data["agents"] = v2.data["agents"] /\ v2'.data["ingest"] = told
    BY <1>3, <1>4 DEF Q, Settings!QueryKeys
  <2>2. Settings!Listed' = Settings!Listed
    BY <2>1 DEF Settings!Listed
  <2>3. ASSUME v3.issued > 0  PROVE told.facts \/ told.late
    <3>1. v2.call["ingest"].state # "pending" /\ v1.token > 0
      BY <2>3 DEF SettingsInv, TokenOk
    <3>2. v2.read["ingest"].answer = (v1.token > 0) \/ v2.read["ingest"].during
      BY <1>2, <1>4, <3>1 DEF SettingsInv, ReadOk
    <3> QED  BY <1>1, <1>4, <3>1, <3>2
  <2> QED  BY <1>2, <1>3, <2>1, <2>2, <2>3 DEF DataInv
<1>5. CASE q = "agents"
  <2>1. v2'.data["ingest"] = v2.data["ingest"] /\ v2'.data["agents"] = told
    BY <1>3, <1>5 DEF Q, Settings!QueryKeys
  <2>2. Settings!Listed' \subseteq told.facts
    BY <2>1 DEF Settings!Listed
  <2>3. ASSUME v3.announced # NoAgent, v3.announced \in told.facts
        PROVE  v3.announced \in v1.connections \/ told.late
    BY <1>1, <1>2, <1>5, <2>3 DEF SettingsInv, AgentsOk, DataInv
  <2> QED  BY <1>2, <1>3, <2>1, <2>2, <2>3 DEF DataInv
<1> QED  BY <1>4, <1>5 DEF Q, Settings!QueryKeys

\* What the page holds of a query after its own write.
LEMMA DataWritten ==
  ASSUME SettingsInv, DataInv, Settings!Rotated \/ Settings!Disconnected
  PROVE  DataInv'
<1>1. CASE Settings!Rotated
  <2> PICK told : told = Settings!Told(TRUE, FALSE)
    OBVIOUS
  <2>1. told.facts
    BY DEF Settings!Told
  <2>2. v1' = v1 /\ v2'.data = [v2.data EXCEPT !["ingest"] = told] /\ v2'.call["agents"] = v2.call["agents"]
    BY <1>1 DEF Settings!Rotated, SettingsInv, CacheOk, Q, Settings!QueryKeys
  <2>3. /\ v2'.data = [p \in Q |-> v2'.data[p]]
        /\ v2'.data["ingest"] = told /\ v2'.data["agents"] = v2.data["agents"]
    BY <2>2 DEF DataInv, Q, Settings!QueryKeys
  <2>4. Settings!Listed' = Settings!Listed
    BY <2>3 DEF Settings!Listed
  <2>5. v3'.announced = v3.announced
    BY <1>1 DEF Settings!Rotated, SettingsInv, IsPage
  <2> QED  BY <2>1, <2>2, <2>3, <2>4, <2>5 DEF DataInv
<1>2. CASE Settings!Disconnected
  <2> PICK agent : agent = v2.call["agents"].agent
    OBVIOUS
  <2> PICK none : none = Settings!NoCall
    OBVIOUS
  <2> PICK left : left = Settings!Told(Settings!Listed \ {agent}, FALSE)
    OBVIOUS
  <2> PICK told : told = IF v2.data["agents"] = NoData THEN v2.data["agents"] ELSE left
    OBVIOUS
  <2>0. v2 = [data |-> v2.data, read |-> v2.read, call |-> v2.call]
    BY DEF SettingsInv, CacheOk
  <2>6. v2' = [v2 EXCEPT !.call["agents"] = none, !.data["agents"] = told] /\ v1' = v1
    BY <1>2 DEF Settings!Disconnected
  <2>1. /\ v1' = v1 /\ v2'.data = [v2.data EXCEPT !["agents"] = told]
        /\ v2'.call = [v2.call EXCEPT !["agents"] = none]
    BY ONLY <2>0, <2>6
  <2>2. /\ v2'.data = [p \in Q |-> v2'.data[p]]
        /\ v2'.data["agents"] = told /\ v2'.data["ingest"] = v2.data["ingest"]
    BY <2>1 DEF DataInv, Q, Settings!QueryKeys
  <2>3. v2'.call["agents"].state # "pending"
    <3>1. none.state = "idle"
      BY NothingCalled
    <3> QED  BY <2>1, <3>1 DEF SettingsInv, CacheOk, Q, Settings!QueryKeys
  <2>4. agent \notin Settings!Listed'
    BY <2>2 DEF Settings!Listed, Settings!Told
  <2>5. v3'.issued = v3.issued /\ v3'.announced \in {NoAgent, agent}
    BY <1>2 DEF Settings!Disconnected, Settings!Pending, SettingsInv, IsPage, DataInv
  <2> QED  BY <2>2, <2>3, <2>4, <2>5 DEF DataInv
<1> QED  BY <1>1, <1>2

LEMMA DataStep == SettingsInv /\ DataInv /\ Settings!SettingsNext => DataInv'
<1> SUFFICES ASSUME SettingsInv, DataInv, Settings!SettingsNext  PROVE DataInv'
  OBVIOUS
<1>q. "ingest" \in Q /\ "agents" \in Q /\ \A q \in Q : q = "ingest" \/ q = "agents"
  BY DEF Q, Settings!QueryKeys
<1>0. /\ CacheOk(v2) /\ IsPage(v3)
      /\ v3.announced # NoAgent => v2.call["agents"].state # "pending"
  BY DEF SettingsInv, DataInv
<1> PICK none : none = Settings!NoCall
  OBVIOUS
<1>n. none.state = "idle"
  BY NothingCalled
<1>1. ASSUME NEW q \in Q,
             \/ Settings!refetch(q) \/ Settings!AnswerRead(q) \/ Settings!ReadFails(q)
      PROVE  DataInv'
  <2>1. v2'.data = v2.data /\ v2'.call = v2.call /\ v3' = v3 /\ v1' = v1
    BY <1>0, <1>1 DEF Settings!refetch, Settings!AnswerRead, Settings!ReadFails, CacheOk
  <2> QED  BY <1>0, <2>1, DataStays
<1>2. ASSUME NEW q \in Q, Settings!CallFails(q)  PROVE DataInv'
  <2>1. v2'.data = v2.data /\ v3' = v3 /\ v1' = v1
    BY <1>0, <1>2 DEF Settings!CallFails, CacheOk
  <2>2. v2'.call["agents"] = v2.call["agents"] \/ v3.announced = NoAgent
    <3>1. CASE q = "ingest"
      BY <1>0, <1>2, <1>q, <3>1 DEF Settings!CallFails, CacheOk
    <3>2. CASE q = "agents"
      BY <1>0, <1>2, <3>2 DEF Settings!CallFails, Settings!Pending
    <3> QED  BY <1>q, <3>1, <3>2
  <2> QED  BY <1>0, <2>1, <2>2, DataStays
<1>3. CASE Settings!openConfirm \/ Settings!closeConfirm \/ Settings!dismissToken
  <2>1. v2'.data = v2.data /\ v1' = v1 /\ v2'.call["agents"] = v2.call["agents"]
    BY <1>0, <1>3, <1>q DEF Settings!openConfirm, Settings!closeConfirm, Settings!dismissToken, CacheOk
  <2>2. v3'.issued \in {0, v3.issued} /\ v3'.announced = v3.announced
    BY <1>0, <1>3 DEF Settings!openConfirm, Settings!closeConfirm, Settings!dismissToken, IsPage
  <2> QED  BY <1>0, <2>1, <2>2, DataStays
<1>4. CASE Settings!rotate \/ Settings!ServeRotate \/ Settings!ServeRevoke
  <2>1. v2'.data = v2.data /\ v3' = v3
    BY <1>0, <1>4 DEF Settings!rotate, Settings!ServeRotate, Settings!ServeRevoke, Settings!mutate, CacheOk
  <2>2. CASE Settings!rotate \/ Settings!ServeRotate
    <3>1. CASE Settings!rotate
      <4>1. v2'.call["agents"] = v2.call["agents"] /\ v1' = v1
        BY <1>0, <1>q, <3>1 DEF Settings!rotate, Settings!mutate, CacheOk
      <4> QED  BY <1>0, <2>1, <4>1, DataStays
    <3>2. CASE Settings!ServeRotate
      <4>1. v2'.call["agents"] = v2.call["agents"]
        BY <1>0, <1>q, <3>2 DEF Settings!ServeRotate, CacheOk
      <4>2. v1'.connections = v1.connections
        BY <3>2 DEF Settings!ServeRotate, SettingsInv, IsServer
      <4> QED  BY <1>0, <2>1, <4>1, <4>2, DataStays
    <3> QED  BY <2>2, <3>1, <3>2
  <2>3. CASE Settings!ServeRevoke
    <3>1. v3'.announced = NoAgent
      BY <1>0, <2>1, <2>3 DEF Settings!ServeRevoke, SettingsInv
    <3> QED  BY <2>1, <3>1, DataStays
  <2> QED  BY <1>4, <2>2, <2>3
<1>5. ASSUME NEW agent \in Agents, Settings!select(agent) \/ Settings!Authorize(agent)  PROVE DataInv'
  <2>1. v2'.data = v2.data /\ v3'.issued = v3.issued /\ v3'.announced = v3.announced
    BY <1>0, <1>5 DEF Settings!select, Settings!Authorize, CacheOk, IsPage
  <2>2. v1.connections \subseteq v1'.connections
    BY <1>5 DEF Settings!select, Settings!Authorize, SettingsInv, IsServer
  <2>3. v2'.call["agents"].state # "pending" \/ v2' = v2
    BY <1>0, <1>5, <1>n, <1>q DEF Settings!select, Settings!Authorize, CacheOk
  <2> QED  BY <1>0, <2>1, <2>2, <2>3, DataStays
<1>6. CASE Settings!cancel \/ Settings!disconnect
  <2>1. v2'.data = v2.data /\ v3'.issued = v3.issued /\ v1' = v1
    BY <1>0, <1>6 DEF Settings!cancel, Settings!disconnect, Settings!mutate, CacheOk, IsPage
  <2>2. CASE Settings!cancel
    <3>1. v3'.announced = v3.announced /\ v2'.call["agents"].state # "pending"
      BY <1>0, <1>n, <1>q, <2>2 DEF Settings!cancel, CacheOk, IsPage
    <3> QED  BY <2>1, <3>1, DataStays
  <2>3. CASE Settings!disconnect
    <3>1. v3'.announced = NoAgent
      BY <1>0, <2>3 DEF Settings!disconnect, IsPage
    <3> QED  BY <2>1, <3>1, DataStays
  <2> QED  BY <1>6, <2>2, <2>3
<1>7. ASSUME NEW value \in Endpoints \cup {Spaces}, Settings!editEndpoint(value)  PROVE DataInv'
  <2>1. v2' = v2 /\ v1' = v1 /\ v3'.issued = v3.issued /\ v3'.announced = v3.announced
    BY <1>0, <1>7 DEF Settings!editEndpoint, IsPage
  <2> QED  BY <1>0, <2>1, DataStays
<1>8. CASE Settings!leave \/ Settings!enter
  <2>1. v2'.data = v2.data
    BY <1>0, <1>8 DEF Settings!leave, Settings!enter, CacheOk
  <2>2. v3'.issued = 0 /\ v3'.announced = NoAgent
    BY <1>8 DEF Settings!leave, Settings!enter, Settings!Fresh
  <2> QED  BY <2>1, <2>2, DataStays
<1> QED
  BY <1>1, <1>2, <1>3, <1>4, <1>5, <1>6, <1>7, <1>8, DataLands, DataWritten
     DEF Settings!SettingsNext, Q

-----------------------------------------------------------------------------
(* Alerts: an answer under way is as new as the last write acknowledged,   *)
(* and a test that would be shown has its window open, alone.              *)

IsRule(x) == x = [rev |-> x.rev, content |-> x.content, enabled |-> x.enabled] /\ x.rev \in Nat

RulesOk(s) ==
  /\ s = [rules |-> s.rules, known |-> s.known]
  /\ s.rules = [r \in Rules |-> s.rules[r]] /\ s.known = [r \in Rules |-> s.known[r]]
  /\ \A r \in Rules : IsRule(s.rules[r]) /\ s.known[r] \in Nat /\ s.known[r] <= s.rules[r].rev

ListOk(l, s) ==
  /\ l = [rules |-> l.rules, read |-> [sent |-> l.read.sent, answer |-> l.read.answer]]
  /\ l.read.answer # NoAlerts => \A r \in Rules : l.read.answer[r].rev >= s.known[r]

IsWrite(w) ==
  /\ w = [op |-> w.op, rule |-> w.rule, content |-> w.content, enabled |-> w.enabled,
          mine |-> w.mine, state |-> w.state, rev |-> w.rev]
  /\ w.mine \in BOOLEAN

WritesOk(ws, s) ==
  \A w \in ws : /\ IsWrite(w)
                /\ w.state = "served" =>
                     w.rule \in Rules /\ w.rev \in Nat /\ w.rev <= s.rules[w.rule].rev

IsForm1(f) == f = [rule |-> f.rule, base |-> f.base, draft |-> f.draft, enabled |-> f.enabled,
                   saving |-> f.saving, error |-> f.error, confirming |-> f.confirming]

IsDialogs(p) ==
  /\ p = [manage |-> p.manage, form |-> p.form, deleting |-> p.deleting,
          removeError |-> p.removeError, tested |-> p.tested, testRun |-> p.testRun]
  /\ IsForm1(p.form) /\ p.testRun \in Nat

\* The dialogs that the writes and the tests under way belong to.
DialogsOk(p, ws, ts) ==
  /\ IsDialogs(p)
  /\ \A w \in ws : w.op = "save" /\ w.mine => p.form.rule # NoRule
  /\ \A w \in ws : w.op = "remove" => w.mine /\ p.deleting # NoRule
  /\ \A w, u \in ws : w.op = "remove" /\ u.op = "remove" => w = u
  /\ \A t \in ts : t.run \in Nat /\ t.run <= p.testRun
  /\ \A t \in ts : t.run = p.testRun => p.tested # Alerts!NoTest
  /\ p.tested # Alerts!NoTest =>
       p.tested.run = p.testRun /\ p.deleting = NoRule /\ p.form = Alerts!NoForm

IsCalls(c) == c = [writes |-> c.writes, tests |-> c.tests]

AlertsInv ==
  /\ RulesOk(v1) /\ ListOk(v2, v1) /\ IsCalls(v4)
  /\ WritesOk(v4.writes, v1) /\ DialogsOk(v3, v4.writes, v4.tests)

LEMMA AlertsHold == AlertsInv => Alerts!AnswersFollowWrites
BY DEF AlertsInv, ListOk, DialogsOk, Alerts!AnswersFollowWrites

LEMMA NoFormShape == IsForm1(Alerts!NoForm) /\ Alerts!NoForm.rule = NoRule /\ ~Alerts!NoForm.confirming
<1> PICK f : f = Alerts!NoForm
  OBVIOUS
<1>1. f = [rule |-> NoRule, base |-> NoRule, draft |-> NoRule, enabled |-> FALSE,
           saving |-> FALSE, error |-> FALSE, confirming |-> FALSE]
  BY DEF Alerts!NoForm
<1>2. IsForm1(f) /\ f.rule = NoRule /\ ~f.confirming
  BY ONLY <1>1 DEF IsForm1
<1> QED  BY <1>2

LEMMA AlertsStart == Alerts!AlertsInit => AlertsInv
<1> SUFFICES ASSUME NEW r \in Rules, NEW c \in Contents, Alerts!AlertsInit,
         v1 = [rules |-> [i \in Rules |-> IF i = r THEN [rev |-> 1, content |-> c, enabled |-> TRUE]
                                          ELSE Alerts!Absent],
               known |-> [i \in Rules |-> 0]]
    PROVE AlertsInv
  BY DEF Alerts!AlertsInit
<1> PICK absent : absent = Alerts!Absent
  OBVIOUS
<1> PICK one : one = [rev |-> 1, content |-> c, enabled |-> TRUE]
  OBVIOUS
<1>1. IsRule(one) /\ one.rev = 1
  BY DEF IsRule
<1>2. IsRule(absent) /\ absent.rev = 0
  BY DEF IsRule, Alerts!Absent
<1>3. v1 = [rules |-> [i \in Rules |-> IF i = r THEN one ELSE absent], known |-> [i \in Rules |-> 0]]
  OBVIOUS
<1>4. RulesOk(v1)
  BY <1>1, <1>2, <1>3 DEF RulesOk
<1>5. ListOk(v2, v1)
  <2>1. v2 = [rules |-> NoAlerts, read |-> [sent |-> TRUE, answer |-> NoAlerts]]
    BY DEF Alerts!AlertsInit, Alerts!Reading
  <2> QED  BY ONLY <2>1 DEF ListOk
<1>6. v4.writes = {} /\ v4.tests = {} /\ IsCalls(v4)
  BY DEF Alerts!AlertsInit, IsCalls
<1> PICK f : f = Alerts!NoForm
  OBVIOUS
<1> PICK t : t = Alerts!NoTest
  OBVIOUS
<1>7. v3 = [manage |-> TRUE, form |-> f, deleting |-> NoRule, removeError |-> FALSE,
            tested |-> t, testRun |-> 0]
  BY DEF Alerts!AlertsInit
<1>8. IsForm1(f)
  BY NoFormShape
<1>9. IsDialogs(v3) /\ v3.tested = t
  BY ONLY <1>7, <1>8 DEF IsDialogs
<1> QED  BY <1>4, <1>5, <1>6, <1>9 DEF AlertsInv, WritesOk, DialogsOk

\* The list is read.
LEMMA ListStep ==
  ASSUME AlertsInv, Alerts!poll \/ Alerts!AnswerList \/ Alerts!ListLands \/ Alerts!ListFails
  PROVE  AlertsInv'
<1>0. RulesOk(v1) /\ ListOk(v2, v1)
  BY DEF AlertsInv
<1>1. v1' = v1 /\ v3' = v3 /\ v4' = v4
  BY DEF Alerts!poll, Alerts!AnswerList, Alerts!ListLands, Alerts!ListFails
<1>2. ASSUME NEW rules, NEW read, NEW sent, NEW answer, read = [sent |-> sent, answer |-> answer],
             v2' = [rules |-> rules, read |-> read],
             answer = NoAlerts \/ answer = v1.rules \/ answer = v2.read.answer
      PROVE  ListOk(v2', v1)
  <2>1. v2'.rules = rules /\ v2'.read = read /\ read.sent = sent /\ read.answer = answer
    BY <1>2
  <2>2. answer # NoAlerts => \A r \in Rules : answer[r].rev >= v1.known[r]
    BY <1>0, <1>2 DEF ListOk, RulesOk, IsRule
  <2> QED  BY <1>2, <2>1, <2>2 DEF ListOk
<1>3. CASE Alerts!poll
  <2>1. v2' = [rules |-> v2.rules, read |-> [sent |-> TRUE, answer |-> NoAlerts]]
    BY <1>0, <1>3 DEF Alerts!poll, Alerts!Reading, ListOk
  <2> QED  BY <1>1, <1>2, <2>1 DEF AlertsInv
<1>4. CASE Alerts!AnswerList
  <2> PICK read : read = v2.read
    OBVIOUS
  <2>2. read = [sent |-> read.sent, answer |-> read.answer] /\ v2 = [rules |-> v2.rules, read |-> read]
    BY <1>0 DEF ListOk
  <2>3. [read EXCEPT !.answer = v1.rules] = [sent |-> v2.read.sent, answer |-> v1.rules]
    BY <2>2
  <2>4. v2' = [rules |-> v2.rules, read |-> [read EXCEPT !.answer = v1.rules]]
    BY <1>4, <2>2 DEF Alerts!AnswerList
  <2>1. v2' = [rules |-> v2.rules, read |-> [sent |-> v2.read.sent, answer |-> v1.rules]]
    BY <2>3, <2>4
  <2> QED  BY <1>1, <1>2, <2>1 DEF AlertsInv
<1>5. CASE Alerts!ListLands
  <2>1. v2' = [rules |-> v2.read.answer, read |-> [sent |-> FALSE, answer |-> NoAlerts]]
    BY <1>0, <1>5 DEF Alerts!ListLands, Alerts!NoRead
  <2> QED  BY <1>1, <1>2, <2>1 DEF AlertsInv
<1>6. CASE Alerts!ListFails
  <2>1. v2' = [rules |-> v2.rules, read |-> [sent |-> FALSE, answer |-> NoAlerts]]
    BY <1>0, <1>6 DEF Alerts!ListFails, Alerts!NoRead, ListOk
  <2> QED  BY <1>1, <1>2, <2>1 DEF AlertsInv
<1> QED  BY <1>3, <1>4, <1>5, <1>6

\* A rule is written: no rule grows older.
LEMMA RuleSet ==
  ASSUME AlertsInv, NEW r \in Rules, NEW x, IsRule(x), x.rev >= v1.rules[r].rev,
         v1' = [v1 EXCEPT !.rules[r] = x]
  PROVE  RulesOk(v1') /\ v1'.rules[r] = x /\ ListOk(v2, v1') /\ WritesOk(v4.writes, v1')
<1>0. RulesOk(v1) /\ ListOk(v2, v1) /\ WritesOk(v4.writes, v1)
  BY DEF AlertsInv
<1> PICK f : f = [v1.rules EXCEPT ![r] = x]
  OBVIOUS
<1>1. v1' = [rules |-> f, known |-> v1.known]
  BY <1>0 DEF RulesOk
<1>2. f = [i \in Rules |-> f[i]] /\ f[r] = x /\ \A i \in Rules : i # r => f[i] = v1.rules[i]
  BY <1>0 DEF RulesOk
<1>3. v1'.rules = f /\ v1'.known = v1.known
  BY <1>1
<1>4. \A i \in Rules : IsRule(f[i]) /\ f[i].rev >= v1.rules[i].rev
  BY <1>0, <1>2 DEF RulesOk, IsRule
<1>5. RulesOk(v1')
  <2>1. ASSUME NEW i \in Rules  PROVE v1.known[i] \in Nat /\ v1.known[i] <= f[i].rev
    <3>1. /\ v1.known[i] \in Nat /\ v1.known[i] <= v1.rules[i].rev /\ v1.rules[i].rev \in Nat
          /\ f[i].rev \in Nat /\ f[i].rev >= v1.rules[i].rev
      BY <1>0, <1>4 DEF RulesOk, IsRule
    <3> QED  BY ONLY <3>1
  <2>2. v1.known = [i \in Rules |-> v1.known[i]]
    BY <1>0 DEF RulesOk
  <2> QED  BY <1>1, <1>2, <1>3, <1>4, <2>1, <2>2 DEF RulesOk
<1>6. ListOk(v2, v1')
  BY <1>0, <1>3 DEF ListOk
<1>7. WritesOk(v4.writes, v1')
  <2> SUFFICES ASSUME NEW w \in v4.writes, w.state = "served"
        PROVE w.rule \in Rules /\ w.rev \in Nat /\ w.rev <= v1'.rules[w.rule].rev
    BY <1>0 DEF WritesOk
  <2>1. w.rule \in Rules /\ w.rev \in Nat /\ w.rev <= v1.rules[w.rule].rev
    BY <1>0 DEF WritesOk
  <2>2. /\ f[w.rule].rev \in Nat /\ f[w.rule].rev >= v1.rules[w.rule].rev
        /\ v1.rules[w.rule].rev \in Nat
    BY <1>0, <1>4, <2>1 DEF RulesOk, IsRule
  <2>3. w.rev <= f[w.rule].rev
    BY ONLY <2>1, <2>2
  <2> QED  BY <1>3, <2>1, <2>3
<1> QED  BY <1>2, <1>3, <1>5, <1>6, <1>7

LEMMA CallsSet ==
  ASSUME AlertsInv, NEW ws, NEW ts, v4' = [writes |-> ws, tests |-> ts]
  PROVE  IsCalls(v4') /\ v4'.writes = ws /\ v4'.tests = ts
BY DEF IsCalls

LEMMA WriteReplaced ==
  ASSUME AlertsInv, NEW w \in v4.writes, NEW v, v.op = w.op, v.mine = w.mine
  PROVE  DialogsOk(v3, (v4.writes \ {w}) \cup {v}, v4.tests)
BY DEF AlertsInv, DialogsOk

LEMMA CallsDropped ==
  ASSUME NEW p, NEW ws, NEW ts, DialogsOk(p, ws, ts), NEW us, us \subseteq ws, NEW qs, qs \subseteq ts
  PROVE  DialogsOk(p, us, qs)
BY DEF DialogsOk

LEMMA WriteServed ==
  ASSUME AlertsInv, NEW w \in v4.writes, NEW r \in Rules, Alerts!ServeWrite(w, r)  PROVE AlertsInv'
<1>0. RulesOk(v1) /\ ListOk(v2, v1) /\ WritesOk(v4.writes, v1) /\ IsCalls(v4) /\ IsWrite(w)
      /\ v1.rules[r].rev \in Nat
  BY DEF AlertsInv, WritesOk, RulesOk, IsRule
<1> PICK rev : rev = v1.rules[r].rev + 1
  OBVIOUS
<1> PICK gone : gone = [Alerts!Absent EXCEPT !.rev = MaxRev + 1]
  OBVIOUS
<1> PICK new : new = [rev |-> rev, content |-> w.content, enabled |-> w.enabled]
  OBVIOUS
<1> PICK x : x = IF w.op = "remove" THEN gone ELSE new
  OBVIOUS
<1> PICK n : n = IF w.op = "remove" THEN MaxRev + 1 ELSE rev
  OBVIOUS
<1> PICK v : v = [w EXCEPT !.state = "served", !.rule = r, !.rev = n]
  OBVIOUS
<1>1. rev <= MaxRev /\ v1' = [v1 EXCEPT !.rules[r] = x] /\ v2' = v2 /\ v3' = v3
  BY <1>0 DEF Alerts!ServeWrite, Alerts!Revision, Alerts!Deleted, RulesOk
<1>2. v4' = [writes |-> (v4.writes \ {w}) \cup {v}, tests |-> v4.tests]
  BY <1>0 DEF Alerts!ServeWrite, Alerts!Becomes, Alerts!Revision, Alerts!Deleted, IsCalls
<1>3. rev \in Nat /\ n \in Nat /\ n >= rev
  BY <1>0, <1>1, RevisionsAssumption
<1>4. IsRule(x) /\ x.rev = n
  <2>1. IsRule(new) /\ new.rev = rev
    BY <1>3 DEF IsRule
  <2>2. IsRule(gone) /\ gone.rev = MaxRev + 1
    <3> PICK absent : absent = Alerts!Absent
      OBVIOUS
    <3>1. absent = [rev |-> 0, content |-> NoRule, enabled |-> FALSE]
      BY DEF Alerts!Absent
    <3>2. gone = [absent EXCEPT !.rev = MaxRev + 1] /\ MaxRev + 1 \in Nat
      BY RevisionsAssumption
    <3>3. gone.rev = MaxRev + 1 /\ gone = [rev |-> gone.rev, content |-> gone.content, enabled |-> gone.enabled]
      BY ONLY <3>1, <3>2
    <3> QED  BY <3>2, <3>3 DEF IsRule
  <2> QED  BY <2>1, <2>2
<1>5. x.rev >= v1.rules[r].rev
  BY <1>0, <1>3, <1>4
<1>6. RulesOk(v1') /\ v1'.rules[r] = x /\ ListOk(v2, v1') /\ WritesOk(v4.writes, v1')
  BY <1>1, <1>4, <1>5, RuleSet
<1>7. /\ IsWrite(v) /\ v.op = w.op /\ v.mine = w.mine /\ v.rule = r /\ v.rev = n
  BY <1>0 DEF IsWrite
<1>8. WritesOk((v4.writes \ {w}) \cup {v}, v1')
  <2>1. v.rev <= v1'.rules[v.rule].rev
    <3>1. v1'.rules[v.rule].rev = n
      BY <1>4, <1>6, <1>7
    <3> QED  BY <1>3, <1>7, <3>1
  <2> QED  BY <1>3, <1>6, <1>7, <2>1 DEF WritesOk
<1>9. DialogsOk(v3, (v4.writes \ {w}) \cup {v}, v4.tests)
  BY <1>7, WriteReplaced
<1> QED  BY <1>1, <1>2, <1>6, <1>8, <1>9, CallsSet DEF AlertsInv

\* Another browser writes.
LEMMA WrittenElsewhere ==
  ASSUME AlertsInv, NEW r \in Rules, NEW content, NEW keep \in BOOLEAN,
         Alerts!Elsewhere(r, content, keep)
  PROVE  AlertsInv'
<1>0. RulesOk(v1) /\ IsRule(v1.rules[r])
  BY DEF AlertsInv, RulesOk
<1> PICK rev : rev = v1.rules[r].rev + 1
  OBVIOUS
<1> PICK gone : gone = [Alerts!Absent EXCEPT !.rev = MaxRev + 1]
  OBVIOUS
<1> PICK new : new = [rev |-> rev, content |-> content, enabled |-> v1.rules[r].enabled]
  OBVIOUS
<1> PICK x : x = IF keep THEN new ELSE gone
  OBVIOUS
<1>1. rev <= MaxRev /\ v1' = [v1 EXCEPT !.rules[r] = x] /\ v2' = v2 /\ v3' = v3 /\ v4' = v4
  BY <1>0 DEF Alerts!Elsewhere, Alerts!Revision, Alerts!Deleted, RulesOk, IsRule
<1>2. rev \in Nat /\ rev >= v1.rules[r].rev /\ MaxRev + 1 >= v1.rules[r].rev
  BY <1>0, <1>1, RevisionsAssumption DEF IsRule
<1>3. IsRule(new) /\ new.rev = rev
  BY <1>0, <1>2 DEF IsRule
<1>4. IsRule(gone) /\ gone.rev = MaxRev + 1
  <2> PICK absent : absent = Alerts!Absent
    OBVIOUS
  <2>1. absent = [rev |-> 0, content |-> NoRule, enabled |-> FALSE]
    BY DEF Alerts!Absent
  <2>2. gone = [absent EXCEPT !.rev = MaxRev + 1] /\ MaxRev + 1 \in Nat
    BY RevisionsAssumption
  <2>3. gone.rev = MaxRev + 1 /\ gone = [rev |-> gone.rev, content |-> gone.content, enabled |-> gone.enabled]
    BY ONLY <2>1, <2>2
  <2> QED  BY <2>2, <2>3 DEF IsRule
<1>5. IsRule(x) /\ x.rev >= v1.rules[r].rev
  BY <1>2, <1>3, <1>4
<1>6. RulesOk(v1') /\ ListOk(v2, v1') /\ WritesOk(v4.writes, v1')
  BY <1>1, <1>5, RuleSet
<1> QED  BY <1>1, <1>6 DEF AlertsInv

\* The form is closed: no write under way is its own.
LEMMA FormsClosed ==
  ASSUME NEW ws, WritesOk(ws, v1), NEW us, us = Alerts!FormClosed(ws),
         NEW p, NEW q, NEW ts, DialogsOk(p, ws, ts),
         q = [p EXCEPT !.form = Alerts!NoForm]
  PROVE  WritesOk(us, v1) /\ DialogsOk(q, us, ts)
<1> DEFINE Of(u, w) == u = [op |-> w.op, rule |-> w.rule, content |-> w.content, enabled |-> w.enabled,
                            mine |-> u.mine, state |-> w.state, rev |-> w.rev]
<1>1. ASSUME NEW u \in us
      PROVE  \E w \in ws : Of(u, w) /\ u.mine \in BOOLEAN /\ (u.mine <=> w.mine /\ w.op # "save")
  <2> PICK w \in ws : u = [w EXCEPT !.mine = w.mine /\ w.op # "save"]
    BY DEF Alerts!FormClosed
  <2> PICK mine \in BOOLEAN : mine = (w.mine /\ w.op # "save")
    OBVIOUS
  <2>1. w = [op |-> w.op, rule |-> w.rule, content |-> w.content, enabled |-> w.enabled,
             mine |-> w.mine, state |-> w.state, rev |-> w.rev]
    BY DEF WritesOk, IsWrite
  <2>2. u = [w EXCEPT !.mine = mine]
    OBVIOUS
  <2>3. Of(u, w) /\ u.mine = mine
    BY ONLY <2>1, <2>2
  <2> QED  BY <2>3
<1>2. WritesOk(us, v1)
  <2> SUFFICES ASSUME NEW u \in us
        PROVE IsWrite(u) /\ (u.state = "served" =>
                u.rule \in Rules /\ u.rev \in Nat /\ u.rev <= v1.rules[u.rule].rev)
    BY DEF WritesOk
  <2> PICK w \in ws : Of(u, w) /\ u.mine \in BOOLEAN
    BY <1>1
  <2>1. u.op = w.op /\ u.rule = w.rule /\ u.content = w.content /\ u.enabled = w.enabled
        /\ u.state = w.state /\ u.rev = w.rev
    OBVIOUS
  <2> QED  BY <2>1 DEF WritesOk, IsWrite
<1>3. IsDialogs(q) /\ q.form = Alerts!NoForm /\ q.deleting = p.deleting /\ q.tested = p.tested
      /\ q.testRun = p.testRun
  BY NoFormShape DEF DialogsOk, IsDialogs
<1>4. \A u \in us : ~(u.op = "save" /\ u.mine)
  BY <1>1
<1>5. ASSUME NEW u \in us, u.op = "remove"
      PROVE  u.mine /\ p.deleting # NoRule
  <2> PICK w \in ws : Of(u, w) /\ (u.mine <=> w.mine /\ w.op # "save")
    BY <1>1
  <2> QED  BY <1>5 DEF DialogsOk
<1>6. ASSUME NEW u \in us, NEW x \in us, u.op = "remove", x.op = "remove"  PROVE u = x
  <2> PICK w \in ws : Of(u, w)
    BY <1>1
  <2> PICK y \in ws : Of(x, y)
    BY <1>1
  <2>1. w.op = "remove" /\ y.op = "remove" /\ u.mine /\ x.mine
    BY <1>5, <1>6
  <2>2. w = y
    BY <2>1 DEF DialogsOk
  <2>3. u.mine \in BOOLEAN /\ x.mine \in BOOLEAN
    BY <1>1
  <2> QED  BY <2>1, <2>2, <2>3
<1>7. /\ \A t \in ts : t.run \in Nat /\ t.run <= q.testRun
      /\ \A t \in ts : t.run = q.testRun => q.tested # Alerts!NoTest
      /\ q.tested # Alerts!NoTest =>
           q.tested.run = q.testRun /\ q.deleting = NoRule /\ q.form = Alerts!NoForm
  BY <1>3 DEF DialogsOk
<1>8. /\ \A u \in us : u.op = "save" /\ u.mine => q.form.rule # NoRule
      /\ \A u \in us : u.op = "remove" => u.mine /\ q.deleting # NoRule
      /\ \A u, x \in us : u.op = "remove" /\ x.op = "remove" => u = x
  BY <1>3, <1>4, <1>5, <1>6
<1> QED  BY <1>2, <1>3, <1>7, <1>8 DEF DialogsOk

\* A write fails: its form says so, unless it was closed.
LEMMA WriteFailed ==
  ASSUME AlertsInv, NEW w \in v4.writes, Alerts!WriteFails(w)  PROVE AlertsInv'
<1>0. /\ RulesOk(v1) /\ ListOk(v2, v1) /\ WritesOk(v4.writes, v1) /\ IsCalls(v4)
      /\ DialogsOk(v3, v4.writes, v4.tests) /\ IsDialogs(v3) /\ IsForm1(v3.form)
  BY DEF AlertsInv, DialogsOk, IsDialogs
<1> DEFINE us == v4.writes \ {w}
<1>1. v4' = [writes |-> us, tests |-> v4.tests] /\ v1' = v1 /\ v2' = v2
  BY <1>0 DEF Alerts!WriteFails, IsCalls
<1>2. WritesOk(us, v1) /\ DialogsOk(v3, us, v4.tests)
  BY <1>0, CallsDropped DEF WritesOk
<1>3. ASSUME v3' = v3  PROVE DialogsOk(v3', us, v4.tests)
  BY <1>2, <1>3
<1>4. CASE w.op = "save" /\ w.mine
  <2> PICK form : form = [v3.form EXCEPT !.saving = FALSE, !.error = TRUE]
    OBVIOUS
  <2>1. v3' = [v3 EXCEPT !.form = form]
    BY <1>0, <1>4 DEF Alerts!WriteFails, IsDialogs, IsForm1
  <2>2. IsForm1(form) /\ form.rule = v3.form.rule
    BY <1>0 DEF IsForm1
  <2>3. /\ IsDialogs(v3') /\ v3'.form = form /\ v3'.deleting = v3.deleting /\ v3'.tested = v3.tested
        /\ v3'.testRun = v3.testRun
    BY <1>0, <2>1, <2>2 DEF IsDialogs
  <2>4. v3.form.rule # NoRule
    BY <1>0, <1>4 DEF DialogsOk
  <2>5. v3.tested = Alerts!NoTest
    BY <1>0, <2>4, NoFormShape DEF DialogsOk
  <2>6. DialogsOk(v3', us, v4.tests)
    BY <1>2, <2>2, <2>3, <2>5 DEF DialogsOk
  <2> HIDE DEF us
  <2> QED  BY <1>0, <1>1, <1>2, <2>6, CallsSet DEF AlertsInv
<1>5. CASE w.op = "remove"
  <2>1. v3' = [v3 EXCEPT !.removeError = TRUE]
    BY <1>5 DEF Alerts!WriteFails
  <2>2. /\ IsDialogs(v3') /\ v3'.form = v3.form /\ v3'.deleting = v3.deleting /\ v3'.tested = v3.tested
        /\ v3'.testRun = v3.testRun
    BY <1>0, <2>1 DEF IsDialogs
  <2>3. DialogsOk(v3', us, v4.tests)
    BY <1>2, <2>2 DEF DialogsOk
  <2> HIDE DEF us
  <2> QED  BY <1>0, <1>1, <1>2, <2>3, CallsSet DEF AlertsInv
<1>6. CASE ~(w.op = "save" /\ w.mine) /\ w.op # "remove"
  <2>1. v3' = v3
    BY <1>6 DEF Alerts!WriteFails
  <2> HIDE DEF us
  <2> QED  BY <1>0, <1>1, <1>2, <1>3, <2>1, CallsSet DEF AlertsInv
<1> QED  BY <1>4, <1>5, <1>6

\* A write is acknowledged: what the page knows of its rule is that write.
LEMMA WriteAcknowledged ==
  ASSUME AlertsInv, NEW w \in v4.writes, Alerts!Acknowledged(w)  PROVE AlertsInv'
<1>0. /\ RulesOk(v1) /\ ListOk(v2, v1) /\ WritesOk(v4.writes, v1) /\ IsCalls(v4)
      /\ DialogsOk(v3, v4.writes, v4.tests) /\ IsDialogs(v3)
  BY DEF AlertsInv, DialogsOk
<1>1. w.rule \in Rules /\ w.rev \in Nat /\ w.rev <= v1.rules[w.rule].rev /\ v1.known[w.rule] \in Nat
      /\ v1.known[w.rule] <= v1.rules[w.rule].rev
  BY <1>0 DEF WritesOk, RulesOk, Alerts!Acknowledged
<1> PICK n : n = IF w.rev > v1.known[w.rule] THEN w.rev ELSE v1.known[w.rule]
  OBVIOUS
<1>2. n \in Nat /\ n <= v1.rules[w.rule].rev
  BY <1>1
<1> PICK known : known = [v1.known EXCEPT ![w.rule] = n]
  OBVIOUS
<1>3. v1' = [rules |-> v1.rules, known |-> known]
  BY <1>0 DEF Alerts!Acknowledged, RulesOk
<1>4. RulesOk(v1') /\ v1'.rules = v1.rules
  <2>1. v1'.rules = v1.rules /\ v1'.known = known
    BY <1>3
  <2>2. known = [r \in Rules |-> known[r]] /\ \A r \in Rules : known[r] = v1.known[r] \/ (r = w.rule /\ known[r] = n)
    BY <1>0, <1>1 DEF RulesOk
  <2>3. \A r \in Rules : known[r] \in Nat /\ known[r] <= v1.rules[r].rev
    BY <1>0, <1>2, <2>2 DEF RulesOk
  <2>4. v1.rules = [r \in Rules |-> v1.rules[r]] /\ \A r \in Rules : IsRule(v1.rules[r])
    BY <1>0 DEF RulesOk
  <2> QED  BY <1>3, <2>1, <2>2, <2>3, <2>4 DEF RulesOk
<1>5. ListOk(v2', v1')
  <2>1. v2' = [rules |-> v2.rules, read |-> [sent |-> TRUE, answer |-> NoAlerts]]
    BY <1>0 DEF Alerts!Acknowledged, Alerts!refresh, Alerts!Reading, ListOk
  <2> QED  BY ONLY <2>1 DEF ListOk
<1> DEFINE ws == v4.writes \ {w}
<1>6. WritesOk(ws, v1) /\ DialogsOk(v3, ws, v4.tests)
  BY <1>0, CallsDropped DEF WritesOk
<1>7. ASSUME NEW us, WritesOk(us, v1), DialogsOk(v3', us, v4.tests), v4' = [writes |-> us, tests |-> v4.tests]
      PROVE  AlertsInv'
  <2>1. WritesOk(us, v1')
    BY <1>4, <1>7 DEF WritesOk
  <2> QED  BY <1>4, <1>5, <1>7, <2>1, CallsSet DEF AlertsInv
<1>8. CASE w.op = "save"
  <2>1. v3' = [v3 EXCEPT !.form = Alerts!NoForm]
    BY <1>8 DEF Alerts!Acknowledged
  <2>2. v4' = [writes |-> Alerts!FormClosed(ws), tests |-> v4.tests]
    BY <1>0, <1>8 DEF Alerts!Acknowledged, IsCalls
  <2> PICK us : us = Alerts!FormClosed(ws)
    OBVIOUS
  <2> HIDE DEF ws
  <2>3. WritesOk(us, v1) /\ DialogsOk(v3', us, v4.tests)
    BY <1>6, <2>1, FormsClosed
  <2> QED  BY <1>7, <2>2, <2>3
<1>9. CASE w.op # "save"
  <2>1. v4' = [writes |-> ws, tests |-> v4.tests]
    BY <1>0, <1>9 DEF Alerts!Acknowledged, IsCalls
  <2>2. CASE w.op # "remove"
    <3>1. v3' = v3
      BY <1>9, <2>2 DEF Alerts!Acknowledged
    <3>2. DialogsOk(v3', ws, v4.tests)
      BY <1>6, <3>1
    <3> HIDE DEF ws
    <3> QED  BY <1>6, <1>7, <2>1, <3>2
  <2>3. CASE w.op = "remove"
    <3> PICK run : run = v3.testRun + 1
      OBVIOUS
    <3>1. v3' = [v3 EXCEPT !.deleting = NoRule, !.removeError = FALSE, !.testRun = run]
      BY <1>0, <2>3 DEF Alerts!Acknowledged, IsDialogs
    <3>2. run \in Nat /\ run > v3.testRun /\ v3.testRun \in Nat
      BY <1>0 DEF IsDialogs
    <3>3. IsDialogs(v3') /\ v3'.form = v3.form /\ v3'.tested = v3.tested /\ v3'.testRun = run
      BY <1>0, <3>1, <3>2 DEF IsDialogs
    <3>4. v3.tested = Alerts!NoTest
      BY <1>0, <2>3 DEF DialogsOk
    <3>5. \A u \in ws : u.op # "remove"
      BY <1>0, <2>3 DEF DialogsOk
    <3>6. \A t \in v4.tests : t.run \in Nat /\ t.run < run
      BY <1>0, <3>2 DEF DialogsOk
    <3>7. DialogsOk(v3', ws, v4.tests)
      BY <1>6, <3>2, <3>3, <3>4, <3>5, <3>6 DEF DialogsOk
    <3> HIDE DEF ws
    <3> QED  BY <1>6, <1>7, <2>1, <3>7
  <2> QED  BY <2>2, <2>3
<1> QED  BY <1>8, <1>9

LEMMA WriteSent ==
  ASSUME AlertsInv, NEW p, DialogsOk(p, v4.writes, v4.tests), NEW op, NEW rule, NEW content, NEW enabled,
         op = "save" => p.form.rule # NoRule,
         op = "remove" => p.deleting # NoRule /\ \A u \in v4.writes : u.op # "remove",
         Alerts!send(Alerts!Write(op, rule, content, enabled)), v1' = v1, v2' = v2, v3' = p
  PROVE  AlertsInv'
<1> PICK w : w = Alerts!Write(op, rule, content, enabled)
  OBVIOUS
<1>1. w = [op |-> op, rule |-> rule, content |-> content, enabled |-> enabled,
           mine |-> TRUE, state |-> "sent", rev |-> 0]
  BY DEF Alerts!Write
<1>2. IsWrite(w) /\ w.op = op /\ w.mine /\ w.state # "served"
  BY ONLY <1>1 DEF IsWrite
<1> DEFINE us == v4.writes \cup {w}
<1>3. v4' = [writes |-> us, tests |-> v4.tests]
  BY DEF Alerts!send, AlertsInv, IsCalls
<1>4. WritesOk(us, v1)
  BY <1>2 DEF AlertsInv, WritesOk
<1>5. DialogsOk(p, us, v4.tests)
  BY <1>2 DEF DialogsOk
<1> HIDE DEF us
<1> QED  BY <1>3, <1>4, <1>5, CallsSet DEF AlertsInv

\* What the person does at the form.
LEMMA FormStep ==
  ASSUME AlertsInv,
         \/ \E rule \in Rules \cup {New} : Alerts!edit(rule)
         \/ \E content \in Contents : Alerts!type(content)
         \/ Alerts!save \/ Alerts!requestClose \/ Alerts!resume \/ Alerts!discard
  PROVE  AlertsInv'
<1>0. /\ RulesOk(v1) /\ ListOk(v2, v1) /\ WritesOk(v4.writes, v1) /\ IsCalls(v4)
      /\ DialogsOk(v3, v4.writes, v4.tests) /\ IsDialogs(v3) /\ IsForm1(v3.form)
  BY DEF AlertsInv, DialogsOk, IsDialogs
<1>1. ASSUME NEW form, IsForm1(form), v3.tested = Alerts!NoTest,
             form.rule = v3.form.rule \/ \A w \in v4.writes : ~(w.op = "save" /\ w.mine)
      PROVE  DialogsOk([v3 EXCEPT !.form = form], v4.writes, v4.tests)
  <2> PICK p : p = [v3 EXCEPT !.form = form]
    OBVIOUS
  <2>1. IsDialogs(p) /\ p.form = form /\ p.deleting = v3.deleting /\ p.tested = v3.tested /\ p.testRun = v3.testRun
    BY <1>0, <1>1 DEF IsDialogs
  <2> QED  BY <1>0, <1>1, <2>1 DEF DialogsOk
<1>2. ASSUME NEW form, IsForm1(form), v3.tested = Alerts!NoTest, v3' = [v3 EXCEPT !.form = form],
             form.rule = v3.form.rule \/ \A w \in v4.writes : ~(w.op = "save" /\ w.mine),
             v1' = v1, v2' = v2, v4' = v4
      PROVE  AlertsInv'
  BY <1>0, <1>1, <1>2 DEF AlertsInv
<1>3. v3.form.rule # NoRule \/ v3.form.confirming => v3.tested = Alerts!NoTest
  BY <1>0, NoFormShape DEF DialogsOk
<1>4. ASSUME NEW rule \in Rules \cup {New}, Alerts!edit(rule)  PROVE AlertsInv'
  <2> PICK base : base = IF rule = New THEN NoRule ELSE v2.rules[rule].content
    OBVIOUS
  <2> PICK enabled : enabled = IF rule = New THEN TRUE ELSE v2.rules[rule].enabled
    OBVIOUS
  <2> PICK none : none = Alerts!NoForm
    OBVIOUS
  <2> PICK form : form = [none EXCEPT !.rule = rule, !.base = base, !.draft = base, !.enabled = enabled]
    OBVIOUS
  <2>1. IsForm1(none) /\ none.rule = NoRule
    BY NoFormShape
  <2>2. IsForm1(form)
    BY <2>1 DEF IsForm1
  <2>3. v3' = [v3 EXCEPT !.form = form] /\ v1' = v1 /\ v2' = v2 /\ v4' = v4
        /\ v3.form = none /\ v3.tested = Alerts!NoTest
    BY <1>4 DEF Alerts!edit, Alerts!NoDialog
  <2>4. \A w \in v4.writes : ~(w.op = "save" /\ w.mine)
    BY <1>0, <2>1, <2>3 DEF DialogsOk
  <2> QED  BY <1>2, <2>2, <2>3, <2>4
<1>5. ASSUME NEW content \in Contents, Alerts!type(content)  PROVE AlertsInv'
  <2> PICK form : form = [v3.form EXCEPT !.draft = content, !.error = FALSE]
    OBVIOUS
  <2>1. IsForm1(form) /\ form.rule = v3.form.rule
    BY <1>0 DEF IsForm1
  <2>2. v3' = [v3 EXCEPT !.form = form] /\ v1' = v1 /\ v2' = v2 /\ v4' = v4 /\ v3.form.rule # NoRule
    BY <1>0, <1>5 DEF Alerts!type, IsDialogs, IsForm1
  <2> QED  BY <1>2, <1>3, <2>1, <2>2
<1>6. CASE Alerts!save
  <2> PICK form : form = [v3.form EXCEPT !.saving = TRUE]
    OBVIOUS
  <2>1. IsForm1(form) /\ form.rule = v3.form.rule
    BY <1>0 DEF IsForm1
  <2>2. v3' = [v3 EXCEPT !.form = form] /\ v1' = v1 /\ v2' = v2 /\ v3.form.rule # NoRule
        /\ Alerts!send(Alerts!Write("save", v3.form.rule, v3.form.draft, v3.form.enabled))
    BY <1>0, <1>6 DEF Alerts!save, IsDialogs, IsForm1
  <2>3. DialogsOk(v3', v4.writes, v4.tests) /\ v3'.form = form
    BY <1>0, <1>1, <1>3, <2>1, <2>2 DEF IsDialogs
  <2> PICK rule : rule = v3.form.rule
    OBVIOUS
  <2> PICK content : content = v3.form.draft
    OBVIOUS
  <2> PICK enabled : enabled = v3.form.enabled
    OBVIOUS
  <2>4. Alerts!send(Alerts!Write("save", rule, content, enabled))
    BY <2>2
  <2>5. v3'.form.rule # NoRule /\ "save" # "remove"
    BY <2>1, <2>2, <2>3
  <2> QED  BY <2>2, <2>3, <2>4, <2>5, WriteSent
<1>7. CASE Alerts!resume
  <2> PICK form : form = [v3.form EXCEPT !.confirming = FALSE]
    OBVIOUS
  <2>1. IsForm1(form) /\ form.rule = v3.form.rule
    BY <1>0 DEF IsForm1
  <2>2. v3' = [v3 EXCEPT !.form = form] /\ v1' = v1 /\ v2' = v2 /\ v4' = v4 /\ v3.form.confirming
    BY <1>0, <1>7 DEF Alerts!resume, IsDialogs, IsForm1
  <2> QED  BY <1>2, <1>3, <2>1, <2>2
<1>8. ASSUME Alerts!CloseForm, v1' = v1, v2' = v2  PROVE AlertsInv'
  <2> PICK us : us = Alerts!FormClosed(v4.writes)
    OBVIOUS
  <2>1. v3' = [v3 EXCEPT !.form = Alerts!NoForm] /\ v4' = [writes |-> us, tests |-> v4.tests]
    BY <1>0, <1>8 DEF Alerts!CloseForm, IsCalls
  <2>2. WritesOk(us, v1) /\ DialogsOk(v3', us, v4.tests)
    BY <1>0, <2>1, FormsClosed
  <2> QED  BY <1>0, <1>8, <2>1, <2>2, CallsSet DEF AlertsInv
<1>9. CASE Alerts!requestClose
  <2>1. CASE v3.form.draft = v3.form.base
    BY <1>8, <1>9, <2>1 DEF Alerts!requestClose
  <2>2. CASE v3.form.draft # v3.form.base
    <3> PICK form : form = [v3.form EXCEPT !.confirming = TRUE]
      OBVIOUS
    <3>1. IsForm1(form) /\ form.rule = v3.form.rule
      BY <1>0 DEF IsForm1
    <3>2. v3' = [v3 EXCEPT !.form = form] /\ v1' = v1 /\ v2' = v2 /\ v4' = v4 /\ v3.form.rule # NoRule
      BY <1>0, <1>9, <2>2 DEF Alerts!requestClose, IsDialogs, IsForm1
    <3> QED  BY <1>2, <1>3, <3>1, <3>2
  <2> QED  BY <2>1, <2>2
<1>10. CASE Alerts!discard
  BY <1>8, <1>10 DEF Alerts!discard
<1> QED  BY <1>4, <1>5, <1>6, <1>7, <1>9, <1>10

\* A test takes the next number; a window it shows is its own, and alone.
LEMMA TestNumbered ==
  ASSUME NEW p, NEW q, NEW writes, NEW tests, NEW ts,
         DialogsOk(p, writes, tests), IsDialogs(q),
         q.form = p.form /\ q.deleting = p.deleting /\ q.testRun = p.testRun + 1,
         \A x \in ts : x \in tests \/ (x.run = q.testRun /\ q.tested # Alerts!NoTest),
         q.tested # Alerts!NoTest =>
           q.tested.run = q.testRun /\ p.deleting = NoRule /\ p.form = Alerts!NoForm
  PROVE  DialogsOk(q, writes, ts)
<1>1. p.testRun \in Nat
  BY DEF DialogsOk, IsDialogs
<1>2. \A x \in tests : x.run \in Nat /\ x.run < q.testRun
  BY <1>1 DEF DialogsOk
<1>3. \A x \in ts : x.run \in Nat /\ x.run <= q.testRun /\ (x.run = q.testRun => q.tested # Alerts!NoTest)
  BY <1>1, <1>2
<1> QED  BY <1>3 DEF DialogsOk

\* The switch, the deletion and the dry run.
LEMMA RuleStep ==
  ASSUME AlertsInv,
         \/ \E r \in Rules : Alerts!toggle(r) \/ Alerts!openDelete(r) \/ Alerts!runTest(r)
         \/ Alerts!closeDelete \/ Alerts!remove \/ Alerts!closeTest
         \/ \E t \in v4.tests : Alerts!answer(t)
  PROVE  AlertsInv'
<1>0. /\ RulesOk(v1) /\ ListOk(v2, v1) /\ WritesOk(v4.writes, v1) /\ IsCalls(v4)
      /\ DialogsOk(v3, v4.writes, v4.tests) /\ IsDialogs(v3)
  BY DEF AlertsInv, DialogsOk
<1>1. ASSUME DialogsOk(v3', v4.writes, v4.tests), v1' = v1, v2' = v2, v4' = v4  PROVE AlertsInv'
  BY <1>0, <1>1 DEF AlertsInv
<1>2. Alerts!NoDialog => v3.deleting = NoRule /\ v3.form = Alerts!NoForm /\ v3.tested = Alerts!NoTest
  BY DEF Alerts!NoDialog
<1>3. ~Alerts!Pending("remove") => \A w \in v4.writes : w.op # "remove"
  BY <1>0 DEF Alerts!Pending, DialogsOk
<1>4. ASSUME NEW r \in Rules, Alerts!toggle(r)  PROVE AlertsInv'
  <2> PICK content : content = v2.rules[r].content
    OBVIOUS
  <2> PICK enabled : enabled = ~v2.rules[r].enabled
    OBVIOUS
  <2>1. Alerts!send(Alerts!Write("toggle", r, content, enabled)) /\ v1' = v1 /\ v2' = v2 /\ v3' = v3
    BY <1>4 DEF Alerts!toggle
  <2> QED  BY <1>0, <2>1, WriteSent
<1>5. ASSUME NEW r \in Rules, Alerts!openDelete(r)  PROVE AlertsInv'
  <2>1. v3' = [v3 EXCEPT !.deleting = r] /\ v3.deleting = NoRule /\ v3.tested = Alerts!NoTest
        /\ v1' = v1 /\ v2' = v2 /\ v4' = v4
    BY <1>2, <1>5 DEF Alerts!openDelete
  <2>2. IsDialogs(v3') /\ v3'.form = v3.form /\ v3'.tested = v3.tested /\ v3'.testRun = v3.testRun
    BY <1>0, <2>1 DEF IsDialogs
  <2>3. DialogsOk(v3', v4.writes, v4.tests)
    BY <1>0, <2>1, <2>2 DEF DialogsOk
  <2> QED  BY <1>1, <2>1, <2>3
<1>6. CASE Alerts!closeDelete
  <2>1. v3' = [v3 EXCEPT !.deleting = NoRule] /\ (\A w \in v4.writes : w.op # "remove")
        /\ v1' = v1 /\ v2' = v2 /\ v4' = v4
    BY <1>3, <1>6 DEF Alerts!closeDelete
  <2>2. /\ IsDialogs(v3') /\ v3'.form = v3.form /\ v3'.tested = v3.tested /\ v3'.testRun = v3.testRun
        /\ v3'.deleting = NoRule
    BY <1>0, <2>1 DEF IsDialogs
  <2>3. DialogsOk(v3', v4.writes, v4.tests)
    BY <1>0, <2>1, <2>2 DEF DialogsOk
  <2> QED  BY <1>1, <2>1, <2>3
<1>7. CASE Alerts!remove
  <2>1. /\ v3' = [v3 EXCEPT !.removeError = FALSE] /\ v3.deleting # NoRule
        /\ \A w \in v4.writes : w.op # "remove"
        /\ v1' = v1 /\ v2' = v2 /\ Alerts!send(Alerts!Write("remove", v3.deleting, NoRule, FALSE))
    BY <1>3, <1>7 DEF Alerts!remove
  <2>2. /\ IsDialogs(v3') /\ v3'.form = v3.form /\ v3'.tested = v3.tested /\ v3'.testRun = v3.testRun
        /\ v3'.deleting = v3.deleting
    BY <1>0, <2>1 DEF IsDialogs
  <2>3. DialogsOk(v3', v4.writes, v4.tests)
    BY <1>0, <2>2 DEF DialogsOk
  <2> PICK rule : rule = v3.deleting
    OBVIOUS
  <2> PICK enabled : enabled = FALSE
    OBVIOUS
  <2>4. Alerts!send(Alerts!Write("remove", rule, NoRule, enabled))
    BY <2>1
  <2>5. v3'.deleting # NoRule /\ "remove" # "save"
    BY <2>1, <2>2
  <2> QED  BY <2>1, <2>3, <2>4, <2>5, WriteSent
<1>9. v3.testRun \in Nat /\ v3.testRun + 1 \in Nat /\ v3.testRun + 1 # 0
  BY <1>0 DEF IsDialogs
<1>10. ASSUME NEW r \in Rules, Alerts!runTest(r)  PROVE AlertsInv'
  <2> PICK run : run = v3.testRun + 1
    OBVIOUS
  <2> PICK none : none = Alerts!NoTest
    OBVIOUS
  <2>1. none = [rule |-> NoRule, run |-> 0, answer |-> FALSE]
    BY DEF Alerts!NoTest
  <2> PICK tested : tested = [none EXCEPT !.rule = r, !.run = run]
    OBVIOUS
  <2>2. tested.run = run /\ none.run = 0
    BY ONLY <2>1, tested = [none EXCEPT !.rule = r, !.run = run]
  <2>3. tested # Alerts!NoTest
    BY <1>9, <2>2
  <2> PICK t : t = [rule |-> r, run |-> run]
    OBVIOUS
  <2>4. v3' = [v3 EXCEPT !.testRun = run, !.tested = tested] /\ v1' = v1 /\ v2' = v2
        /\ v4' = [writes |-> v4.writes, tests |-> v4.tests \cup {t}]
        /\ v3.deleting = NoRule /\ v3.form = Alerts!NoForm
    BY <1>0, <1>2, <1>10 DEF Alerts!runTest, IsDialogs, IsCalls
  <2>5. t.run = run
    OBVIOUS
  <2> PICK ts : ts = v4.tests \cup {t}
    OBVIOUS
  <2>6. /\ run = v3.testRun + 1 /\ run \in Nat
        /\ v3' = [v3 EXCEPT !.testRun = run, !.tested = tested]
        /\ tested # Alerts!NoTest => tested.run = run /\ v3.deleting = NoRule /\ v3.form = Alerts!NoForm
        /\ \A x \in ts : x \in v4.tests \/ (x.run = run /\ tested # Alerts!NoTest)
    BY <1>0, <2>2, <2>3, <2>4, <2>5 DEF IsDialogs
  <2>7. DialogsOk(v3', v4.writes, ts)
    <3>1. /\ IsDialogs(v3') /\ v3'.form = v3.form /\ v3'.tested = tested /\ v3'.testRun = run
          /\ v3'.deleting = v3.deleting
      BY <1>0, <2>6 DEF IsDialogs
    <3>2. /\ v3'.form = v3.form /\ v3'.deleting = v3.deleting /\ v3'.testRun = v3.testRun + 1
          /\ \A x \in ts : x \in v4.tests \/ (x.run = v3'.testRun /\ v3'.tested # Alerts!NoTest)
          /\ v3'.tested # Alerts!NoTest =>
               v3'.tested.run = v3'.testRun /\ v3.deleting = NoRule /\ v3.form = Alerts!NoForm
      BY <2>6, <3>1
    <3> QED  BY ONLY <1>0, <3>1, <3>2, TestNumbered
  <2> QED  BY <1>0, <2>4, <2>7, CallsSet DEF AlertsInv
<1>11. CASE Alerts!closeTest
  <2> PICK run : run = v3.testRun + 1
    OBVIOUS
  <2> PICK tested : tested = Alerts!NoTest
    OBVIOUS
  <2>1. v3' = [v3 EXCEPT !.testRun = run, !.tested = tested] /\ v1' = v1 /\ v2' = v2 /\ v4' = v4
    BY <1>0, <1>11 DEF Alerts!closeTest, IsDialogs
  <2>2. DialogsOk(v3', v4.writes, v4.tests)
    <3>1. /\ IsDialogs(v3') /\ v3'.form = v3.form /\ v3'.tested = tested /\ v3'.testRun = run
          /\ v3'.deleting = v3.deleting
      BY <1>0, <1>9, <2>1 DEF IsDialogs
    <3> QED  BY <1>0, <3>1, TestNumbered
  <2> QED  BY <1>1, <2>1, <2>2
<1>12. ASSUME NEW t \in v4.tests, Alerts!answer(t)  PROVE AlertsInv'
  <2>1. v4' = [writes |-> v4.writes, tests |-> v4.tests \ {t}] /\ v1' = v1 /\ v2' = v2
    BY <1>0, <1>12 DEF Alerts!answer, IsCalls
  <2>2. DialogsOk(v3', v4.writes, v4.tests \ {t})
    <3>1. CASE v3' = v3
      BY <1>0, <3>1, CallsDropped
    <3>2. CASE t.run = v3.testRun
      <4> PICK tested : tested = [rule |-> t.rule, run |-> t.run, answer |-> TRUE]
        OBVIOUS
      <4>1. v3' = [v3 EXCEPT !.tested = tested] /\ tested.run = v3.testRun
        BY <1>12, <3>2 DEF Alerts!answer
      <4>2. /\ IsDialogs(v3') /\ v3'.form = v3.form /\ v3'.tested = tested /\ v3'.testRun = v3.testRun
            /\ v3'.deleting = v3.deleting
        BY <1>0, <4>1 DEF IsDialogs
      <4>3. v3.deleting = NoRule /\ v3.form = Alerts!NoForm
        BY <1>0, <3>2 DEF DialogsOk
      <4>4. tested # Alerts!NoTest
        <5> PICK none : none = Alerts!NoTest
          OBVIOUS
        <5>1. none = [rule |-> NoRule, run |-> 0, answer |-> FALSE]
          BY DEF Alerts!NoTest
        <5>2. ~none.answer /\ tested.answer
          BY ONLY <5>1, tested = [rule |-> t.rule, run |-> t.run, answer |-> TRUE]
        <5> QED  BY <5>2
      <4> QED  BY <1>0, <4>1, <4>2, <4>3, <4>4 DEF DialogsOk
    <3> QED  BY <1>12, <3>1, <3>2 DEF Alerts!answer
  <2> QED  BY <1>0, <2>1, <2>2, CallsSet DEF AlertsInv
<1> QED  BY <1>4, <1>5, <1>6, <1>7, <1>10, <1>11, <1>12

LEMMA AlertsStep == AlertsInv /\ Alerts!AlertsNext => AlertsInv'
BY ListStep, WriteFailed, WriteAcknowledged, WriteServed, FormStep, RuleStep, WrittenElsewhere
   DEF Alerts!AlertsNext

-----------------------------------------------------------------------------
(* The editor: the texts that wait to be rendered are the last of those    *)
(* that have not come back, unless the page put one of its own among them, *)
(* so an echo never drops one that is to come; the document is what was    *)
(* typed last, or else nothing is taken for an echo any more; and every    *)
(* mark has its end after its start, whatever fix-its moved it.            *)

IsEd(e) == e = [doc |-> e.doc, value |-> e.value, last |-> e.last, queue |-> e.queue,
                echoes |-> e.echoes, report |-> e.report, next |-> e.next, list |-> e.list,
                navigated |-> e.navigated, failures |-> e.failures, runs |-> e.runs,
                crossed |-> e.crossed]

Ends(q, s) ==
  /\ Len(q) <= Len(s)
  /\ \A i \in 1 .. Len(q) : q[i] = s[Len(s) - Len(q) + i]

IsFix(f) == f = [span |-> f.span, size |-> f.size] /\ IsSpan(f.span) /\ f.size \in Int

IsItem(i) == (i.span # NoSpan => IsSpan(i.span)) /\ \A f \in i.fixes : IsFix(f)

MarksOk(r) == \A i \in r.problems \cup r.notices : IsItem(i)

TextOk(e) ==
  /\ IsEd(e) /\ e.queue \in Seq(Texts) /\ e.echoes \in Seq(Texts) /\ e.crossed \in BOOLEAN
  /\ ~e.crossed /\ (e.last = "reader" \/ e.queue = <<>>) => Ends(e.queue, e.echoes)
  /\ e.queue = <<>> => ~e.crossed
  /\ e.last = "reader" /\ e.queue # <<>> =>
       e.doc = e.queue[Len(e.queue)] \/ (e.echoes = <<>> /\ e.doc = e.value)
  /\ e.queue = <<>> /\ e.last = "reader" => e.doc = e.value
  /\ MarksOk(e.report) /\ MarksOk(e.next)

TextInv == TextOk(v1)

\* What moves stays a span, and a fix-it stays one.
LEMMA Moved ==
  ASSUME NEW fix, NEW span, IsFix(fix), IsSpan(span)
  PROVE  /\ IsSpan(Text!move(fix, span))
         /\ span.start >= fix.span.end =>
              /\ Text!move(fix, span).start = span.start + Text!delta(fix)
              /\ Text!move(fix, span).end = span.end + Text!delta(fix)
         /\ span.start < fix.span.end => Text!move(fix, span) = span
<1>1. Text!delta(fix) \in Int
  BY DEF Text!delta, IsFix, IsSpan
<1>2. fix.span.end \in Int /\ span.start \in Int /\ span.end \in Int /\ span.start <= span.end
  BY DEF IsFix, IsSpan
<1> QED  BY <1>1, <1>2 DEF Text!move, IsSpan

LEMMA FixMoved ==
  ASSUME NEW fix, NEW f, IsFix(fix), IsFix(f)
  PROVE  IsFix([f EXCEPT !.span = Text!move(fix, f.span)])
<1> PICK to : to = Text!move(fix, f.span)
  OBVIOUS
<1>1. IsSpan(to)
  BY Moved DEF IsFix
<1>2. IsFix([f EXCEPT !.span = to])
  BY <1>1 DEF IsFix
<1> QED  BY <1>2

LEMMA ShiftedItems ==
  ASSUME NEW fix, NEW items, IsFix(fix), \A i \in items : IsItem(i)
  PROVE  \A n \in Text!shift(fix, items) : IsItem(n)
<1> SUFFICES ASSUME NEW i \in items, NEW n,
                    n = [span |-> IF i.span = NoSpan THEN NoSpan ELSE Text!move(fix, i.span),
                         fixes |-> {[f EXCEPT !.span = Text!move(fix, f.span)] : f \in i.fixes}]
             PROVE  IsItem(n)
  BY DEF Text!shift
<1>1. n.span # NoSpan => IsSpan(n.span)
  BY Moved DEF IsItem
<1>2. \A f \in n.fixes : IsFix(f)
  BY FixMoved DEF IsItem
<1> QED  BY <1>1, <1>2 DEF IsItem

LEMMA KeptMarks ==
  ASSUME NEW fix, NEW r, IsFix(fix), MarksOk(r)
  PROVE  MarksOk(Text!keep(fix, r))
<1>1. \A i \in {p \in r.problems : p.span # NoSpan} : IsItem(i)
  BY DEF MarksOk
<1>2. \A n \in Text!shift(fix, {p \in r.problems : p.span # NoSpan}) : IsItem(n)
  BY <1>1, ShiftedItems
<1>3. \A n \in Text!shift(fix, r.notices) : IsItem(n)
  BY ShiftedItems DEF MarksOk
<1> QED  BY <1>2, <1>3 DEF MarksOk, Text!keep

\* Carets apart: the span lies before the fix or behind it.
LEMMA Apart ==
  ASSUME NEW fix, NEW span, IsFix(fix), IsSpan(span)
  PROVE  Text!Carets(span) \cap Text!Carets(fix.span) = {} <=> ~Text!Touches(fix, span)
<1>1. /\ fix.span.start \in Int /\ fix.span.end \in Int /\ fix.span.start <= fix.span.end
      /\ span.start \in Int /\ span.end \in Int /\ span.start <= span.end
  BY DEF IsFix, IsSpan
<1>2. CASE span.start >= fix.span.start
  BY <1>1, <1>2 DEF Text!Carets, Text!Touches
<1>3. CASE span.start < fix.span.start
  BY <1>1, <1>3 DEF Text!Carets, Text!Touches
<1> QED  BY <1>1, <1>2, <1>3

\* A span apart from the fix marks the same code points when it has moved.
LEMMA SameCells ==
  ASSUME NEW fix, NEW span, IsFix(fix), IsSpan(span), ~Text!Touches(fix, span)
  PROVE  /\ Text!Cells(span) \cap Text!Cells(fix.span) = {}
         /\ Text!Cells(Text!move(fix, span)) =
              {IF p < fix.span.start THEN p ELSE p + Text!delta(fix) : p \in Text!Cells(span)}
<1>1. /\ fix.span.start \in Int /\ fix.span.end \in Int /\ fix.span.start <= fix.span.end
      /\ span.start \in Int /\ span.end \in Int /\ span.start <= span.end
  BY DEF IsFix, IsSpan
<1>2. Text!delta(fix) \in Int
  BY <1>1 DEF Text!delta, IsFix
<1>3. CASE span.start > fix.span.end
  <2>1. \A p \in Text!Cells(span) : p \in Int /\ p >= span.start /\ ~(p < fix.span.start)
    BY <1>1, <1>3 DEF Text!Cells
  <2>2. Text!Cells(span) \cap Text!Cells(fix.span) = {}
    BY <1>1, <1>3 DEF Text!Cells
  <2> PICK to, d : to = Text!move(fix, span) /\ d = Text!delta(fix)
    OBVIOUS
  <2>3. to.start = span.start + d /\ to.end = span.end + d /\ d \in Int
    BY <1>1, <1>2, <1>3, Moved
  <2>4. to.start .. to.end - 1 = {p + d : p \in span.start .. span.end - 1}
    <3>1. ASSUME NEW c \in to.start .. to.end - 1  PROVE c \in {p + d : p \in span.start .. span.end - 1}
      <4>1. c - d \in span.start .. span.end - 1 /\ c = (c - d) + d
        BY <1>1, <2>3
      <4> QED  BY <4>1
    <3>2. ASSUME NEW p \in span.start .. span.end - 1  PROVE p + d \in to.start .. to.end - 1
      BY <1>1, <2>3
    <3> QED  BY <3>1, <3>2
  <2> QED  BY <2>1, <2>2, <2>4 DEF Text!Cells
<1>4. CASE fix.span.start > span.end
  <2>1. \A p \in Text!Cells(span) : p < fix.span.start
    BY <1>1, <1>4 DEF Text!Cells
  <2>2. Text!Cells(span) \cap Text!Cells(fix.span) = {}
    BY <1>1, <1>4 DEF Text!Cells
  <2>3. Text!move(fix, span) = span
    BY <1>1, <1>4, Moved
  <2>4. {IF p < fix.span.start THEN p ELSE p + Text!delta(fix) : p \in Text!Cells(span)} = Text!Cells(span)
    BY <2>1
  <2> QED  BY <2>2, <2>3, <2>4
<1> QED  BY <1>1, <1>3, <1>4 DEF Text!Touches

LEMMA MarksHold == MarksOk(v1.report) => Text!KeptSpansHold
<1> SUFFICES ASSUME MarksOk(v1.report), NEW fix \in Text!Fixes(v1.report)
    PROVE  LET after(p) == IF p < fix.span.start THEN p ELSE p + Text!delta(fix)
               apart(span) == Text!Carets(span) \cap Text!Carets(fix.span) = {}
               old == {p \in v1.report.problems : p.span # NoSpan}
               new == Text!keep(fix, v1.report).problems
           IN /\ \A n \in new : \E o \in old :
                   /\ Text!Cells(o.span) \cap Text!Cells(fix.span) = {}
                   /\ Text!Cells(n.span) = {after(p) : p \in Text!Cells(o.span)}
              /\ \A o \in old :
                   (apart(o.span) /\ \A f \in o.fixes : apart(f.span))
                     => \E n \in new : Text!Cells(n.span) = {after(p) : p \in Text!Cells(o.span)}
  BY DEF Text!KeptSpansHold
<1> DEFINE after(p) == IF p < fix.span.start THEN p ELSE p + Text!delta(fix)
           old == {p \in v1.report.problems : p.span # NoSpan}
           Moving(i) == [span |-> IF i.span = NoSpan THEN NoSpan ELSE Text!move(fix, i.span),
                         fixes |-> {[f EXCEPT !.span = Text!move(fix, f.span)] : f \in i.fixes}]
           Stays(j) == /\ j.span # NoSpan => ~Text!Touches(fix, j.span)
                       /\ \A f \in j.fixes : ~Text!Touches(fix, f.span)
<1>1. IsFix(fix)
  BY DEF Text!Fixes, MarksOk, IsItem
<1>2. \A o \in old : o.span # NoSpan /\ IsSpan(o.span) /\ \A f \in o.fixes : IsFix(f)
  BY DEF MarksOk, IsItem
<1>3. Text!keep(fix, v1.report).problems = {Moving(i) : i \in {j \in old : Stays(j)}}
  BY DEF Text!keep, Text!shift
<1>4. \A o \in old : Stays(o) => /\ Moving(o).span = Text!move(fix, o.span)
                                 /\ ~Text!Touches(fix, o.span)
  BY <1>2
<1>5. ASSUME NEW o \in old, Stays(o)
      PROVE  /\ Text!Cells(o.span) \cap Text!Cells(fix.span) = {}
             /\ Text!Cells(Moving(o).span) = {after(p) : p \in Text!Cells(o.span)}
  BY <1>1, <1>2, <1>4, <1>5, SameCells
<1>6. ASSUME NEW o \in old, Text!Carets(o.span) \cap Text!Carets(fix.span) = {},
             \A f \in o.fixes : Text!Carets(f.span) \cap Text!Carets(fix.span) = {}
      PROVE  Stays(o)
  <2>1. ~Text!Touches(fix, o.span)
    BY <1>1, <1>2, <1>6, Apart
  <2>2. \A f \in o.fixes : ~Text!Touches(fix, f.span)
    BY <1>1, <1>2, <1>6, Apart DEF IsFix
  <2> QED  BY <2>1, <2>2
<1> HIDE DEF after, old, Moving, Stays
<1>7. \A n \in Text!keep(fix, v1.report).problems : \E o \in old :
        /\ Text!Cells(o.span) \cap Text!Cells(fix.span) = {}
        /\ Text!Cells(n.span) = {after(p) : p \in Text!Cells(o.span)}
  BY <1>3, <1>5
<1>8. \A o \in old :
        (/\ Text!Carets(o.span) \cap Text!Carets(fix.span) = {}
         /\ \A f \in o.fixes : Text!Carets(f.span) \cap Text!Carets(fix.span) = {})
        => \E n \in Text!keep(fix, v1.report).problems :
             Text!Cells(n.span) = {after(p) : p \in Text!Cells(o.span)}
  BY <1>3, <1>5, <1>6
<1> QED  BY <1>7, <1>8 DEF after, old

LEMMA TextHolds == TextInv => Text!TypingIsKept /\ Text!KeptSpansHold
BY MarksHold DEF TextInv, TextOk, Text!TypingIsKept

\* Among the places of a text there is a first.
LEMMA Least ==
  ASSUME NEW S \in SUBSET Nat, NEW n \in S
  PROVE  \E m \in S : \A k \in S : m <= k
<1> DEFINE T == {0 .. m - 1 : m \in S}
<1>1. \A m \in S : 0 .. m - 1 \in FiniteSubsetsOf(Nat)
  BY FS_Interval DEF FiniteSubsetsOf
<1>2. T \subseteq FiniteSubsetsOf(Nat) /\ T # {}
  BY <1>1
<1> HIDE DEF T
<1>3. PICK x \in T : \A y \in T : ~(<<y, x>> \in StrictSubsetOrdering(Nat))
  BY <1>2, FS_StrictSubsetOrderingWellFounded, WFMin
<1>4. \A y \in T : ~(y \subseteq x /\ x # y)
  BY <1>2, <1>3 DEF StrictSubsetOrdering, FiniteSubsetsOf
<1>5. PICK m \in S : x = 0 .. m - 1
  BY DEF T
<1>6. \A k \in S : 0 .. k - 1 \in T
  BY DEF T
<1>7. ASSUME NEW k \in S, k < m  PROVE FALSE
  <2>1. 0 .. k - 1 \subseteq x /\ k \in x /\ k \notin 0 .. k - 1
    BY <1>5, <1>7
  <2> QED  BY <1>4, <1>6, <2>1
<1> QED  BY <1>7

LEMMA FirstEcho ==
  ASSUME NEW e, NEW n \in DOMAIN e.echoes, e.echoes \in Seq(Texts)
  PROVE  /\ Text!firstEcho(e, e.echoes[n]) \in 1 .. n
         /\ e.echoes[Text!firstEcho(e, e.echoes[n])] = e.echoes[n]
<1> DEFINE S == {i \in DOMAIN e.echoes : e.echoes[i] = e.echoes[n]}
<1>1. DOMAIN e.echoes = 1 .. Len(e.echoes) /\ Len(e.echoes) \in Nat
  OBVIOUS
<1>2. S \in SUBSET Nat /\ n \in S
  BY <1>1
<1>3. PICK m \in S : \A k \in S : m <= k
  BY <1>2, Least
<1>4. m \in DOMAIN e.echoes /\ e.echoes[m] = e.echoes[n] /\ \A j \in 1 .. m - 1 : e.echoes[j] # e.echoes[n]
  BY <1>1, <1>3
<1> PICK at : at = Text!firstEcho(e, e.echoes[n])
  OBVIOUS
<1>5. /\ at \in DOMAIN e.echoes /\ e.echoes[at] = e.echoes[n]
      /\ \A j \in 1 .. at - 1 : e.echoes[j] # e.echoes[n]
  BY <1>4 DEF Text!firstEcho
<1>6. at <= n
  BY <1>1, <1>5
<1> QED  BY <1>1, <1>5, <1>6

LEMMA LongerEnds ==
  ASSUME NEW q, NEW s, NEW q1, NEW s1, NEW m \in Nat, NEW n \in Nat, Len(q) = m, Len(s) = n,
         Len(q1) = m + 1, Len(s1) = n + 1, q1[m + 1] = s1[n + 1], Ends(q, s),
         \A i \in 1 .. m : q1[i] = q[i],
         \A i \in 1 .. n : s1[i] = s[i]
  PROVE  Ends(q1, s1)
<1>1. m <= n /\ \A i \in 1 .. m : q[i] = s[n - m + i]
  BY DEF Ends
<1>2. ASSUME NEW i \in 1 .. m  PROVE q1[i] = s1[(n + 1) - (m + 1) + i]
  <2>1. (n + 1) - (m + 1) + i = n - m + i /\ n - m + i \in 1 .. n
    BY <1>1
  <2> QED  BY <1>1, <2>1
<1>3. (n + 1) - (m + 1) + (m + 1) = n + 1
  OBVIOUS
<1>4. \A i \in 1 .. m + 1 : i \in 1 .. m \/ i = m + 1
  OBVIOUS
<1>5. \A i \in 1 .. m + 1 : q1[i] = s1[(n + 1) - (m + 1) + i]
  BY <1>2, <1>3, <1>4
<1> QED  BY <1>1, <1>5 DEF Ends

LEMMA TypedEnds ==
  ASSUME NEW q \in Seq(Texts), NEW s \in Seq(Texts), NEW t \in Texts, Ends(q, s)
  PROVE  /\ Ends(Append(q, t), Append(s, t)) /\ Append(q, t) \in Seq(Texts) /\ Append(s, t) \in Seq(Texts)
         /\ Append(q, t) # <<>> /\ Append(q, t)[Len(Append(q, t))] = t
<1>1. ASSUME NEW x \in Seq(Texts)
      PROVE  /\ Append(x, t) \in Seq(Texts) /\ Len(Append(x, t)) = Len(x) + 1 /\ Len(x) \in Nat
             /\ Append(x, t)[Len(x) + 1] = t /\ Append(x, t) # <<>>
             /\ \A i \in 1 .. Len(x) : Append(x, t)[i] = x[i]
  BY AppendProperties, LenProperties
<1> PICK q1, s1, m, n : q1 = Append(q, t) /\ s1 = Append(s, t) /\ m = Len(q) /\ n = Len(s)
  OBVIOUS
<1>2. /\ q1 \in Seq(Texts) /\ Len(q1) = m + 1 /\ m \in Nat /\ q1[m + 1] = t /\ q1 # <<>>
      /\ \A i \in 1 .. m : q1[i] = q[i]
  BY <1>1
<1>3. /\ s1 \in Seq(Texts) /\ Len(s1) = n + 1 /\ n \in Nat /\ s1[n + 1] = t
      /\ \A i \in 1 .. n : s1[i] = s[i]
  BY <1>1
<1>4. Len(q) = m /\ Len(s) = n /\ Ends(q, s)
  OBVIOUS
<1>5. Ends(q1, s1)
  BY ONLY <1>2, <1>3, <1>4, LongerEnds
<1> QED  BY <1>2, <1>3, <1>5

LEMMA ShorterEnds ==
  ASSUME NEW q, NEW s, NEW q1, NEW s1, NEW m \in Nat, NEW n \in Nat, Len(q) = m, Len(s) = n,
         NEW k \in 1 .. m, NEW at \in Nat, at <= n - m + k,
         Len(q1) = m - k, Len(s1) = n - at, Ends(q, s),
         \A i \in 1 .. m - k : q1[i] = q[k + i],
         \A i \in 1 .. n - at : s1[i] = s[at + i]
  PROVE  Ends(q1, s1)
<1>1. m <= n /\ \A i \in 1 .. m : q[i] = s[n - m + i]
  BY DEF Ends
<1>2. m - k <= n - at
  BY <1>1
<1>3. ASSUME NEW i \in 1 .. m - k  PROVE q1[i] = s1[(n - at) - (m - k) + i]
  <2>1. (n - at) - (m - k) + i \in 1 .. n - at
    BY <1>1
  <2>2. at + ((n - at) - (m - k) + i) = n - m + (k + i) /\ k + i \in 1 .. m
    BY <1>1
  <2> QED  BY <1>1, <2>1, <2>2
<1> QED  BY <1>2, <1>3 DEF Ends

LEMMA RenderedEnds ==
  ASSUME NEW q \in Seq(Texts), NEW s \in Seq(Texts), NEW k \in DOMAIN q, Ends(q, s),
         NEW at \in Nat, at <= Len(s) - Len(q) + k
  PROVE  /\ SubSeq(q, k + 1, Len(q)) \in Seq(Texts)
         /\ SubSeq(s, at + 1, Len(s)) \in Seq(Texts)
         /\ Ends(SubSeq(q, k + 1, Len(q)), SubSeq(s, at + 1, Len(s)))
         /\ SubSeq(q, k + 1, Len(q)) = <<>> => k = Len(q)
         /\ SubSeq(q, k + 1, Len(q)) # <<>> =>
              SubSeq(q, k + 1, Len(q))[Len(SubSeq(q, k + 1, Len(q)))] = q[Len(q)]
<1>1. /\ Len(q) \in Nat /\ Len(s) \in Nat /\ k \in 1 .. Len(q) /\ Len(q) <= Len(s)
      /\ at \in 0 .. Len(s)
  BY LenProperties DEF Ends
<1>2. ASSUME NEW x \in Seq(Texts), NEW j \in 0 .. Len(x), Len(x) \in Nat
      PROVE  /\ SubSeq(x, j + 1, Len(x)) \in Seq(Texts)
             /\ Len(SubSeq(x, j + 1, Len(x))) = Len(x) - j
             /\ \A i \in 1 .. Len(x) - j : SubSeq(x, j + 1, Len(x))[i] = x[j + i]
  <2>1. j + 1 \in 1 .. Len(x) + 1 /\ Len(x) \in (j + 1) - 1 .. Len(x) /\ Len(x) - (j + 1) + 1 = Len(x) - j
    BY <1>2
  <2>2. \A i \in 1 .. Len(x) - j : (j + 1) + i - 1 = j + i
    BY <1>2
  <2> PICK m, n : m = j + 1 /\ n = Len(x)
    OBVIOUS
  <2>3. m \in Int /\ n \in Int /\ n - m + 1 = Len(x) - j /\ \A i \in m .. n : x[i] \in Texts
    BY <2>1, ElementOfSeq
  <2>4. /\ SubSeq(x, m, n) \in Seq(Texts)
        /\ Len(SubSeq(x, m, n)) = IF m <= n THEN n - m + 1 ELSE 0
        /\ \A i \in 1 .. n - m + 1 : SubSeq(x, m, n)[i] = x[m + i - 1]
    BY ONLY <2>3, SubSeqProperties
  <2>5. Len(SubSeq(x, m, n)) = Len(x) - j
    BY <1>2, <2>3, <2>4
  <2> QED  BY <2>2, <2>3, <2>4, <2>5
<1>3. /\ SubSeq(q, k + 1, Len(q)) \in Seq(Texts) /\ Len(SubSeq(q, k + 1, Len(q))) = Len(q) - k
      /\ \A i \in 1 .. Len(q) - k : SubSeq(q, k + 1, Len(q))[i] = q[k + i]
  BY <1>1, <1>2
<1>4. /\ SubSeq(s, at + 1, Len(s)) \in Seq(Texts) /\ Len(SubSeq(s, at + 1, Len(s))) = Len(s) - at
      /\ \A i \in 1 .. Len(s) - at : SubSeq(s, at + 1, Len(s))[i] = s[at + i]
  BY <1>1, <1>2
<1>5. ASSUME NEW q1, q1 = SubSeq(q, k + 1, Len(q))
      PROVE  (q1 = <<>> => k = Len(q)) /\ (q1 # <<>> => q1[Len(q1)] = q[Len(q)])
  <2>1. q1 \in Seq(Texts) /\ Len(q1) = Len(q) - k /\ \A i \in 1 .. Len(q) - k : q1[i] = q[k + i]
    BY <1>3, <1>5
  <2>2. q1 = <<>> => Len(q1) = 0
    OBVIOUS
  <2>3. q1 # <<>> => Len(q1) # 0
    BY <2>1, EmptySeq
  <2>4. \A m \in Nat : \A j \in 1 .. m :
          (m - j # 0 => m - j \in 1 .. m - j /\ j + (m - j) = m) /\ (m - j = 0 => j = m)
    OBVIOUS
  <2> PICK m : m = Len(q)
    OBVIOUS
  <2>5. m \in Nat /\ k \in 1 .. m /\ Len(q1) = m - k /\ \A i \in 1 .. m - k : q1[i] = q[k + i]
    BY <1>1, <2>1
  <2>6. m - k # 0 => q1[m - k] = q[m]
    BY ONLY <2>4, <2>5
  <2> QED  BY ONLY <2>2, <2>3, <2>4, <2>5, <2>6, m = Len(q)
<1>6. Ends(SubSeq(q, k + 1, Len(q)), SubSeq(s, at + 1, Len(s)))
  BY <1>1, <1>3, <1>4, ShorterEnds
<1> QED  BY <1>3, <1>4, <1>5, <1>6

LEMMA TextStart == Text!EditorInit => TextInv
<1> SUFFICES ASSUME NEW t \in Texts, NEW silent, silent = Text!Silent,
       v1 = [doc |-> t, value |-> t, last |-> "page", queue |-> <<>>, echoes |-> <<>>,
             report |-> silent, next |-> silent, list |-> Text!NoList, navigated |-> FALSE,
             failures |-> 0, runs |-> FALSE, crossed |-> FALSE]
    PROVE TextInv
  BY DEF Text!EditorInit
<1>1. MarksOk(silent)
  BY DEF MarksOk, Text!Silent
<1>2. /\ IsEd(v1) /\ v1.queue = <<>> /\ v1.echoes = <<>> /\ v1.last # "reader"
      /\ v1.report = silent /\ v1.next = silent /\ v1.crossed = FALSE
  BY DEF IsEd
<1> QED  BY <1>1, <1>2 DEF TextInv, TextOk, Ends

LEMMA Crosses ==
  ASSUME NEW e, e.crossed \in BOOLEAN, NEW who
  PROVE  /\ Text!Crossing(e, who) \in BOOLEAN
         /\ ~Text!Crossing(e, who) => ~e.crossed /\ (e.queue = <<>> \/ e.last = who)
BY DEF Text!Crossing

LEMMA EditStep ==
  ASSUME TextInv, NEW t \in Texts, NEW r, MarksOk(r), v1' = Text!Edited(v1, t, r)
  PROVE  TextInv' /\ v1'.value = v1.value
<1> PICK crossed : crossed = Text!Crossing(v1, "reader")
  OBVIOUS
<1>1. PICK list : v1' = [v1 EXCEPT !.doc = t, !.echoes = Append(v1.echoes, t), !.queue = Append(v1.queue, t),
                          !.last = "reader", !.crossed = crossed, !.next = r, !.navigated = FALSE,
                          !.list = list, !.runs = FALSE]
  BY DEF Text!Edited
<1>2. /\ IsEd(v1') /\ v1'.doc = t /\ v1'.echoes = Append(v1.echoes, t) /\ v1'.queue = Append(v1.queue, t)
      /\ v1'.last = "reader" /\ v1'.next = r /\ v1'.report = v1.report /\ v1'.value = v1.value
      /\ v1'.crossed = crossed
  BY <1>1 DEF TextInv, TextOk, IsEd
<1>3. v1.queue \in Seq(Texts) /\ v1.echoes \in Seq(Texts) /\ MarksOk(v1.report) /\ v1.crossed \in BOOLEAN
  BY DEF TextInv, TextOk
<1> PICK q1, s1 : q1 = Append(v1.queue, t) /\ s1 = Append(v1.echoes, t)
  OBVIOUS
<1>4. q1 \in Seq(Texts) /\ s1 \in Seq(Texts) /\ q1 # <<>> /\ q1[Len(q1)] = t
  BY <1>3, AppendProperties, LenProperties
<1>5. crossed \in BOOLEAN /\ (~crossed => Ends(v1.queue, v1.echoes))
  <2>1. crossed \in BOOLEAN /\ (~crossed => ~v1.crossed /\ (v1.queue = <<>> \/ v1.last = "reader"))
    BY <1>3, Crosses
  <2> QED  BY <2>1 DEF TextInv, TextOk
<1>6. ~crossed => Ends(q1, s1)
  BY <1>3, <1>5, TypedEnds
<1> QED  BY <1>2, <1>3, <1>4, <1>5, <1>6 DEF TextInv, TextOk

(* What the value effect does with a text: nothing, drop echoes, or take   *)
(* it for the page's.                                                      *)
LEMMA Effect ==
  ASSUME NEW e, IsEd(e), e.echoes \in Seq(Texts), NEW text \in Texts
  PROVE  \E doc, left, list, navigated :
           /\ Text!Rendered(e, text) = [e EXCEPT !.echoes = left, !.doc = doc, !.value = text,
                                                 !.list = list, !.navigated = navigated]
           /\ left \in Seq(Texts)
           /\ \/ text = e.value /\ left = e.echoes /\ doc = e.doc
              \/ /\ text # e.value /\ doc = e.doc /\ \E i \in DOMAIN e.echoes : e.echoes[i] = text
                 /\ left = SubSeq(e.echoes, Text!firstEcho(e, text) + 1, Len(e.echoes))
              \/ /\ text # e.value /\ doc = text /\ left = <<>>
                 /\ ~\E i \in DOMAIN e.echoes : e.echoes[i] = text
<1>1. CASE text = e.value
  <2>1. Text!Rendered(e, text) = e
    BY <1>1 DEF Text!Rendered
  <2>2. e = [e EXCEPT !.echoes = e.echoes, !.doc = e.doc, !.value = text,
                      !.list = e.list, !.navigated = e.navigated]
    BY <1>1 DEF IsEd
  <2> QED  BY <1>1, <2>1, <2>2
<1>2. CASE text # e.value /\ \E i \in DOMAIN e.echoes : e.echoes[i] = text
  <2> PICK at, left : /\ at = Text!firstEcho(e, text)
                      /\ left = SubSeq(e.echoes, at + 1, Len(e.echoes))
    OBVIOUS
  <2>1. at \in Nat
    BY <1>2, FirstEcho
  <2>2. left \in Seq(Texts)
    BY <2>1
  <2>3. Text!Rendered(e, text) = [[e EXCEPT !.echoes = left] EXCEPT !.value = text]
    BY <1>2 DEF Text!Rendered, Text!Echoed
  <2>4. Text!Rendered(e, text) = [e EXCEPT !.echoes = left, !.doc = e.doc, !.value = text,
                                           !.list = e.list, !.navigated = e.navigated]
    BY <2>3 DEF IsEd
  <2> QED  BY <1>2, <2>2, <2>4
<1>3. CASE text # e.value /\ ~\E i \in DOMAIN e.echoes : e.echoes[i] = text
  <2> PICK left : left = <<>>
    OBVIOUS
  <2>1. left \in Seq(Texts)
    OBVIOUS
  <2> PICK list, navigated : /\ list = IF text = e.doc THEN e.list ELSE Text!NoList
                             /\ navigated = (text = e.doc /\ e.navigated)
    OBVIOUS
  <2>2. Text!Rendered(e, text) = [[e EXCEPT !.echoes = left, !.doc = text,
                                            !.list = list, !.navigated = navigated] EXCEPT !.value = text]
    BY <1>3 DEF Text!Rendered, Text!Echoed
  <2>3. Text!Rendered(e, text) = [e EXCEPT !.echoes = left, !.doc = text, !.value = text,
                                           !.list = list, !.navigated = navigated]
    BY <2>2
  <2> QED  BY <1>3, <2>1, <2>3
<1> QED  BY <1>1, <1>2, <1>3

(* The texts that wait, but for those rendered.                            *)
LEMMA Waiting ==
  ASSUME NEW q \in Seq(Texts), NEW k \in DOMAIN q
  PROVE  /\ SubSeq(q, k + 1, Len(q)) \in Seq(Texts) /\ q[k] \in Texts /\ q # <<>>
         /\ SubSeq(q, k + 1, Len(q)) = <<>> => k = Len(q)
         /\ SubSeq(q, k + 1, Len(q)) # <<>> =>
              SubSeq(q, k + 1, Len(q))[Len(SubSeq(q, k + 1, Len(q)))] = q[Len(q)]
<1>1. Ends(q, q) /\ 0 \in Nat /\ 0 <= Len(q) - Len(q) + k
  BY LenProperties DEF Ends
<1>2. q[k] \in Texts /\ q # <<>>
  BY ElementOfSeq, LenProperties
<1> QED  BY <1>1, <1>2, RenderedEnds

LEMMA RenderStep ==
  ASSUME TextInv, Text!render
  PROVE  TextInv' /\ Text!NeverRewinds
<1>1. PICK k \in DOMAIN v1.queue :
        LET e == [v1 EXCEPT !.queue = SubSeq(v1.queue, k + 1, Len(v1.queue))]
        IN v1' = [Text!Rendered(e, v1.queue[k]) EXCEPT
                   !.report = IF e.queue = <<>> THEN v1.next ELSE Text!Silent,
                   !.crossed = @ /\ e.queue # <<>>]
  BY DEF Text!render
<1> PICK rest, text, e, r : /\ rest = SubSeq(v1.queue, k + 1, Len(v1.queue)) /\ text = v1.queue[k]
                            /\ e = [v1 EXCEPT !.queue = rest]
                            /\ r = (IF rest = <<>> THEN v1.next ELSE Text!Silent)
  OBVIOUS
<1>3. /\ IsEd(v1) /\ v1.queue \in Seq(Texts) /\ v1.echoes \in Seq(Texts) /\ v1.crossed \in BOOLEAN
      /\ ~v1.crossed /\ v1.last = "reader" => Ends(v1.queue, v1.echoes)
      /\ v1.last = "reader" /\ v1.queue # <<>> =>
           v1.doc = v1.queue[Len(v1.queue)] \/ (v1.echoes = <<>> /\ v1.doc = v1.value)
  BY DEF TextInv, TextOk
<1>4. /\ IsEd(e) /\ e.queue = rest /\ e.echoes = v1.echoes /\ e.doc = v1.doc /\ e.value = v1.value
      /\ e.last = v1.last /\ e.next = v1.next /\ e.crossed = v1.crossed
  BY <1>3 DEF IsEd
<1>5. MarksOk(r) /\ MarksOk(v1.next)
  <2>1. MarksOk(Text!Silent)
    BY DEF Text!Silent, MarksOk
  <2> QED  BY <2>1 DEF TextInv, TextOk
<1>6. /\ rest \in Seq(Texts) /\ text \in Texts /\ v1.queue # <<>>
      /\ rest = <<>> => text = v1.queue[Len(v1.queue)]
      /\ rest # <<>> => rest[Len(rest)] = v1.queue[Len(v1.queue)]
  BY <1>3, Waiting
<1>16. IsEd(e) /\ e.echoes \in Seq(Texts) /\ text \in Texts
  BY <1>3, <1>4, <1>6
<1>7. PICK doc, left, list, navigated :
        /\ Text!Rendered(e, text) = [e EXCEPT !.echoes = left, !.doc = doc, !.value = text,
                                              !.list = list, !.navigated = navigated]
        /\ left \in Seq(Texts)
        /\ \/ text = e.value /\ left = e.echoes /\ doc = e.doc
           \/ /\ text # e.value /\ doc = e.doc /\ \E i \in DOMAIN e.echoes : e.echoes[i] = text
              /\ left = SubSeq(e.echoes, Text!firstEcho(e, text) + 1, Len(e.echoes))
           \/ /\ text # e.value /\ doc = text /\ left = <<>>
              /\ ~\E i \in DOMAIN e.echoes : e.echoes[i] = text
  BY ONLY <1>16, Effect
<1> PICK crossed \in BOOLEAN : crossed = (v1.crossed /\ rest # <<>>) /\ crossed = (v1.crossed /\ e.queue # <<>>)
  BY <1>4
<1> PICK x : x = [e EXCEPT !.echoes = left, !.doc = doc, !.value = text, !.list = list, !.navigated = navigated]
  OBVIOUS
<1>17. /\ IsEd(x) /\ x.queue = rest /\ x.echoes = left /\ x.doc = doc /\ x.value = text
       /\ x.last = v1.last /\ x.next = v1.next /\ x.crossed = v1.crossed
  BY ONLY <1>4, x = [e EXCEPT !.echoes = left, !.doc = doc, !.value = text, !.list = list,
                              !.navigated = navigated] DEF IsEd
<1>8. v1' = [x EXCEPT !.report = r, !.crossed = crossed]
  <2>1. v1' = [x EXCEPT !.report = IF rest = <<>> THEN v1.next ELSE Text!Silent,
                        !.crossed = x.crossed /\ rest # <<>>]
    <3>1. x = Text!Rendered([v1 EXCEPT !.queue = SubSeq(v1.queue, k + 1, Len(v1.queue))], v1.queue[k])
      BY <1>7
    <3>2. [v1 EXCEPT !.queue = SubSeq(v1.queue, k + 1, Len(v1.queue))].queue = rest
      BY <1>4
    <3> HIDE DEF IsEd
    <3> QED  BY ONLY <1>1, <3>1, <3>2, Zenon
  <2>2. crossed = (x.crossed /\ rest # <<>>)
    BY <1>17
  <2> QED  BY <2>1, <2>2
<1>9. /\ IsEd(v1') /\ v1'.queue = rest /\ v1'.echoes = left /\ v1'.doc = doc /\ v1'.value = text
      /\ v1'.last = v1.last /\ v1'.next = v1.next /\ v1'.report = r /\ v1'.crossed = crossed
  BY ONLY <1>8, <1>17 DEF IsEd
<1>10. v1.last = "reader" /\ rest # <<>> => doc = rest[Len(rest)] \/ (left = <<>> /\ doc = text)
  <2> SUFFICES ASSUME v1.last = "reader", rest # <<>>
               PROVE  doc = rest[Len(rest)] \/ (left = <<>> /\ doc = text)
    OBVIOUS
  <2>1. v1.doc = rest[Len(rest)] \/ (v1.echoes = <<>> /\ v1.doc = v1.value)
    BY ONLY <1>3, <1>6, v1.last = "reader", rest # <<>>
  <2>2. v1.echoes = <<>> => DOMAIN v1.echoes = {}
    OBVIOUS
  <2> QED  BY ONLY <1>4, <1>7, <2>1, <2>2
<1>11. v1.last = "reader" /\ rest = <<>> => doc = text
  BY <1>3, <1>4, <1>6, <1>7
<1>12. ASSUME ~v1.crossed, v1.last = "reader"
       PROVE  doc = v1.doc /\ Ends(rest, left)
  <2> PICK n : n = Len(v1.echoes) - Len(v1.queue) + k
    OBVIOUS
  <2>0. Ends(v1.queue, v1.echoes)
    BY <1>3, <1>12
  <2>1. n \in DOMAIN v1.echoes /\ v1.echoes[n] = text /\ n \in Nat
    <3> PICK q, s : q = v1.queue /\ s = v1.echoes
      OBVIOUS
    <3>1. Len(q) \in Nat /\ Len(s) \in Nat /\ DOMAIN q = 1 .. Len(q) /\ DOMAIN s = 1 .. Len(s) /\ k \in DOMAIN q
      BY <1>3, LenProperties
    <3>2. Len(q) <= Len(s) /\ \A i \in 1 .. Len(q) : q[i] = s[Len(s) - Len(q) + i]
      BY <2>0 DEF Ends
    <3>3. Len(s) - Len(q) + k \in 1 .. Len(s)
      BY ONLY <3>1, <3>2
    <3>4. q[k] = s[Len(s) - Len(q) + k]
      BY <3>1, <3>2
    <3>5. n = Len(s) - Len(q) + k /\ text = q[k]
      BY Zenon
    <3>6. n \in DOMAIN s /\ n \in Nat
      BY ONLY <3>1, <3>3, <3>5
    <3>7. s[n] = text
      BY ONLY <3>4, <3>5
    <3> QED  BY ONLY <3>6, <3>7, s = v1.echoes
  <2>2. PICK at \in Nat : at <= n /\ left = SubSeq(v1.echoes, at + 1, Len(v1.echoes)) /\ doc = v1.doc
    <3>1. CASE text = e.value
      <4>1. SubSeq(v1.echoes, 0 + 1, Len(v1.echoes)) = v1.echoes
        BY <1>3
      <4>2. 0 \in Nat /\ 0 <= n
        BY ONLY <2>1
      <4> QED  BY <1>4, <1>7, <3>1, <4>1, <4>2
    <3>2. CASE text # e.value
      <4>0. n \in DOMAIN e.echoes /\ e.echoes \in Seq(Texts) /\ e.echoes[n] = text
        BY <1>3, <1>4, <2>1
      <4> PICK at : at = Text!firstEcho(e, text)
        OBVIOUS
      <4>1. at \in Nat /\ at <= n
        BY ONLY <2>1, <4>0, FirstEcho, at = Text!firstEcho(e, text)
      <4> QED  BY <1>4, <1>7, <3>2, <4>0, <4>1
    <3> QED  BY <3>1, <3>2
  <2> QED  BY <1>3, <2>0, <2>2, RenderedEnds
<1>13. rest = <<>> => Ends(rest, left)
  <2> SUFFICES ASSUME rest = <<>>  PROVE Ends(rest, left)
    OBVIOUS
  <2>1. Len(rest) = 0 /\ Len(left) \in Nat
    BY <1>7, LenProperties
  <2> QED  BY ONLY <2>1 DEF Ends
<1>14. ~crossed /\ (v1.last = "reader" \/ rest = <<>>) => Ends(rest, left)
  BY <1>12, <1>13
<1>15. Text!NeverRewinds
  BY <1>9, <1>12 DEF Text!NeverRewinds
<1> QED
  <2>1. rest = <<>> => ~crossed
    OBVIOUS
  <2> QED  BY ONLY <1>5, <1>6, <1>7, <1>9, <1>10, <1>11, <1>14, <1>15, <2>1 DEF TextInv, TextOk

LEMMA SetTextStep ==
  ASSUME TextInv, Text!setText
  PROVE  TextInv' /\ Text!NeverRewinds
<1> PICK crossed, silent : crossed = Text!Crossing(v1, "page") /\ silent = Text!Silent
  OBVIOUS
<1>1. PICK t \in Texts : v1' = [v1 EXCEPT !.queue = Append(v1.queue, t), !.last = "page", !.crossed = crossed,
                                         !.next = silent, !.runs = FALSE]
  BY DEF Text!setText
<1>2. IsEd(v1) /\ v1.queue \in Seq(Texts) /\ v1.crossed \in BOOLEAN
  BY DEF TextInv, TextOk
<1> PICK q : q = Append(v1.queue, t)
  OBVIOUS
<1>3. q \in Seq(Texts) /\ q # <<>>
  BY <1>2, AppendProperties
<1>4. /\ IsEd(v1') /\ v1'.queue = q /\ v1'.echoes = v1.echoes /\ v1'.last = "page" /\ v1'.next = silent
      /\ v1'.report = v1.report /\ v1'.crossed = crossed
  BY <1>1, <1>2 DEF IsEd
<1>5. crossed \in BOOLEAN
  BY <1>2, Crosses
<1>6. MarksOk(silent)
  BY DEF MarksOk, Text!Silent
<1> QED  BY <1>3, <1>4, <1>5, <1>6 DEF TextInv, TextOk, Text!NeverRewinds

\* The completion list, and the answer of a run.
LEMMA ListedStep ==
  ASSUME TextInv, NEW r, MarksOk(r), IsEd(v1'),
         /\ v1'.doc = v1.doc /\ v1'.value = v1.value /\ v1'.last = v1.last /\ v1'.queue = v1.queue
         /\ v1'.echoes = v1.echoes /\ v1'.next = v1.next /\ (v1'.report = v1.report \/ v1'.report = r)
         /\ v1'.crossed = v1.crossed
  PROVE  TextInv' /\ Text!NeverRewinds
BY DEF TextInv, TextOk, Text!NeverRewinds

LEMMA AnswerStep ==
  ASSUME TextInv,
         Text!Answered \/ Text!source \/ Text!suggest \/ Text!Arrow \/ Text!close
           \/ (Text!Enter /\ ~(v1.navigated /\ v1.list.status = "active"))
  PROVE  TextInv' /\ Text!NeverRewinds
<1>1. IsEd(v1) /\ MarksOk(v1.report)
  BY DEF TextInv, TextOk
<1>2. CASE Text!Answered
  <2>1. PICK r \in Reports : v1' = [v1 EXCEPT !.report = r]
    BY <1>2 DEF Text!Answered
  <2>2. MarksOk(r)
    BY ReportsAssumption DEF MarksOk, IsItem, IsFix
  <2>3. /\ IsEd(v1') /\ v1'.doc = v1.doc /\ v1'.value = v1.value /\ v1'.last = v1.last /\ v1'.queue = v1.queue
        /\ v1'.echoes = v1.echoes /\ v1'.next = v1.next /\ v1'.report = r /\ v1'.crossed = v1.crossed
    BY <1>1, <2>1 DEF IsEd
  <2> QED  BY <2>2, <2>3, ListedStep
<1>3. ASSUME NEW list, NEW navigated, NEW failures, NEW runs,
             v1' = [v1 EXCEPT !.list = list, !.navigated = navigated, !.failures = failures, !.runs = runs]
      PROVE  TextInv' /\ Text!NeverRewinds
  <2>1. /\ IsEd(v1') /\ v1'.doc = v1.doc /\ v1'.value = v1.value /\ v1'.last = v1.last /\ v1'.queue = v1.queue
        /\ v1'.echoes = v1.echoes /\ v1'.next = v1.next /\ v1'.report = v1.report /\ v1'.crossed = v1.crossed
    BY <1>1, <1>3 DEF IsEd
  <2> QED  BY <1>1, <2>1, ListedStep
<1>4. CASE Text!source
  <2> PICK list : list = [status |-> "pending", for |-> v1.doc]
    OBVIOUS
  <2>1. v1' = [v1 EXCEPT !.list = list]
    BY <1>4 DEF Text!source
  <2>2. v1' = [v1 EXCEPT !.list = list, !.navigated = v1.navigated, !.failures = v1.failures, !.runs = v1.runs]
    BY <1>1, <2>1 DEF IsEd
  <2> QED  BY <1>3, <2>2
<1>5. CASE Text!suggest
  <2>1. PICK list, failures : v1' = [v1 EXCEPT !.failures = failures, !.list = list]
    BY <1>5 DEF Text!suggest
  <2>2. v1' = [v1 EXCEPT !.list = list, !.navigated = v1.navigated, !.failures = failures, !.runs = v1.runs]
    BY <1>1, <2>1 DEF IsEd
  <2> QED  BY <1>3, <2>2
<1>6. CASE Text!Arrow
  <2> PICK navigated : navigated = TRUE
    OBVIOUS
  <2>1. v1' = [v1 EXCEPT !.navigated = navigated]
    BY <1>6 DEF Text!Arrow
  <2>2. v1' = [v1 EXCEPT !.list = v1.list, !.navigated = navigated, !.failures = v1.failures, !.runs = v1.runs]
    BY <1>1, <2>1 DEF IsEd
  <2> QED  BY <1>3, <2>2
<1>7. CASE Text!close
  <2> PICK list, navigated : list = Text!NoList /\ navigated = FALSE
    OBVIOUS
  <2>1. v1' = [v1 EXCEPT !.list = list, !.navigated = navigated]
    BY <1>7 DEF Text!close
  <2>2. v1' = [v1 EXCEPT !.list = list, !.navigated = navigated, !.failures = v1.failures, !.runs = v1.runs]
    BY <1>1, <2>1 DEF IsEd
  <2> QED  BY <1>3, <2>2
<1>8. CASE Text!Enter /\ ~(v1.navigated /\ v1.list.status = "active")
  <2> PICK list, navigated, runs : list = Text!NoList /\ navigated = FALSE /\ runs = TRUE
    OBVIOUS
  <2>1. v1' = [v1 EXCEPT !.list = list, !.navigated = navigated, !.runs = runs]
    BY <1>8 DEF Text!Enter
  <2>2. v1' = [v1 EXCEPT !.list = list, !.navigated = navigated, !.failures = v1.failures, !.runs = runs]
    BY <1>1, <2>1 DEF IsEd
  <2> QED  BY <1>3, <2>2
<1> QED  BY <1>2, <1>4, <1>5, <1>6, <1>7, <1>8

LEMMA TextStep == TextInv /\ Text!EditorNext => TextInv' /\ Text!NeverRewinds
<1> SUFFICES ASSUME TextInv, Text!EditorNext  PROVE TextInv' /\ Text!NeverRewinds
  OBVIOUS
<1>1. ASSUME NEW t \in Texts, NEW r, MarksOk(r), v1' = Text!Edited(v1, t, r)
      PROVE  TextInv' /\ Text!NeverRewinds
  <2>1. TextInv' /\ v1'.value = v1.value
    BY <1>1, EditStep
  <2> QED  BY <2>1 DEF Text!NeverRewinds
<1>2. MarksOk(Text!Silent)
  BY DEF MarksOk, Text!Silent
<1>3. CASE Text!type \/ Text!acceptCompletion \/ (Text!Enter /\ v1.navigated /\ v1.list.status = "active")
  BY <1>1, <1>2, <1>3 DEF Text!type, Text!acceptCompletion, Text!Accepted, Text!Enter
<1>4. CASE Text!applyFix
  <2>1. PICK fix \in Text!Fixes(v1.report), t \in Texts : v1' = Text!Edited(v1, t, Text!keep(fix, v1.report))
    BY <1>4 DEF Text!applyFix
  <2>2. MarksOk(v1.report)
    BY DEF TextInv, TextOk
  <2>3. IsFix(fix)
    BY <2>2 DEF Text!Fixes, MarksOk, IsItem
  <2>4. MarksOk(Text!keep(fix, v1.report))
    BY <2>2, <2>3, KeptMarks
  <2> QED  BY <1>1, <2>1, <2>4
<1>5. CASE Text!render
  BY <1>5, RenderStep
<1>6. CASE Text!setText
  BY <1>6, SetTextStep
<1>7. CASE Text!Answered \/ Text!source \/ Text!suggest \/ Text!Arrow \/ Text!close
             \/ (Text!Enter /\ ~(v1.navigated /\ v1.list.status = "active"))
  BY <1>7, AnswerStep
<1> QED  BY <1>3, <1>4, <1>5, <1>6, <1>7 DEF Text!EditorNext

-----------------------------------------------------------------------------
(* The pages together: a behaviour is one of a single page, and what the   *)
(* page keeps to holds of it.  Nothing is needed of the Builder's.         *)

PagesInv ==
  /\ part = "search" => SearchInv
  /\ part = "explore" => ExploreInv
  /\ part = "gate" => GateInv
  /\ part = "settings" => SettingsInv /\ DataInv
  /\ part = "alerts" => AlertsInv
  /\ part = "text" => TextInv

LEMMA PagesStart == Init => PagesInv
<1> SUFFICES ASSUME Init  PROVE PagesInv
  OBVIOUS
<1>1. part = "search" => Search!SearchInit
  BY DEF Init
<1>2. part = "explore" => Explore!ExploreInit
  BY DEF Init
<1>3. part = "gate" => Gate!SignInInit
  BY DEF Init
<1>4. part = "settings" => Settings!SettingsInit
  BY DEF Init
<1>5. part = "alerts" => Alerts!AlertsInit
  BY DEF Init
<1>6. part = "text" => Text!EditorInit
  BY DEF Init
<1> QED  BY <1>1, <1>2, <1>3, <1>4, <1>5, <1>6, SearchStarts, ExploreStarts, GateStarts,
            SettingsStart, DataStart, AlertsStart, TextStart DEF PagesInv

LEMMA PagesStep == PagesInv /\ [Next]_vars => PagesInv'
<1> SUFFICES ASSUME PagesInv, [Next]_vars  PROVE PagesInv'
  OBVIOUS
<1>1. part' = part
  BY DEF Next, vars
<1>2. CASE UNCHANGED vars
  <2>1. v1' = v1 /\ v2' = v2 /\ v3' = v3 /\ v4' = v4
    BY <1>2 DEF vars
  <2>2. SearchInv => SearchInv'
    BY <2>1 DEF SearchInv, Search!SearchFollowsFields
  <2>3. ExploreInv => ExploreInv'
    BY <2>1 DEF ExploreInv
  <2>4. (GateInv => GateInv') /\ (TextInv => TextInv')
    BY <2>1 DEF GateInv, TextInv
  <2>5. SettingsInv /\ DataInv => SettingsInv' /\ DataInv'
    BY <2>1 DEF SettingsInv, DataInv, Settings!Listed
  <2>6. AlertsInv => AlertsInv'
    BY <2>1 DEF AlertsInv
  <2> QED  BY <1>1, <2>2, <2>3, <2>4, <2>5, <2>6 DEF PagesInv
<1>3. CASE Next
  <2>1. ASSUME part = "search"  PROVE SearchInv'
    <3>1. SearchInv /\ Search!SearchNext
      BY <1>3, <2>1 DEF PagesInv, Next
    <3> QED  BY <3>1, SearchStep
  <2>2. ASSUME part = "explore"  PROVE ExploreInv'
    <3>1. ExploreInv /\ Explore!ExploreNext
      BY <1>3, <2>2 DEF PagesInv, Next
    <3> QED  BY <3>1, ExploreStep
  <2>3. ASSUME part = "gate"  PROVE GateInv'
    <3>1. GateInv /\ Gate!SignInNext
      BY <1>3, <2>3 DEF PagesInv, Next
    <3> QED  BY <3>1, GateStep
  <2>4. ASSUME part = "settings"  PROVE SettingsInv' /\ DataInv'
    <3>1. SettingsInv /\ DataInv /\ Settings!SettingsNext
      BY <1>3, <2>4 DEF PagesInv, Next
    <3> QED  BY <3>1, SettingsStep, DataStep
  <2>5. ASSUME part = "alerts"  PROVE AlertsInv'
    <3>1. AlertsInv /\ Alerts!AlertsNext
      BY <1>3, <2>5 DEF PagesInv, Next
    <3> QED  BY <3>1, AlertsStep
  <2>6. ASSUME part = "text"  PROVE TextInv'
    <3>1. TextInv /\ Text!EditorNext
      BY <1>3, <2>6 DEF PagesInv, Next
    <3> QED  BY <3>1, TextStep
  <2> QED  BY <1>1, <2>1, <2>2, <2>3, <2>4, <2>5, <2>6 DEF PagesInv
<1> QED  BY <1>2, <1>3

\* At any time of any page, what PagesInv says of it is true.
THEOREM PagesInvariant == Spec => []PagesInv
BY PagesStart, PagesStep, PTL DEF Spec

\* In Explore the address, the result and the run under way are of one query and one
\* window, and so is the text in the editors until the person drafts; in a search the
\* fields are those of the text: in whatever order edits, runs, answers, Back and Forward
\* come, but for a Back to an entry with nothing to run (explore/page.tsx, search-page.tsx).
THEOREM AddressIsKept == Spec => []PageAgreesWithAddress
<1>1. PagesInv => PageAgreesWithAddress
  <2> SUFFICES ASSUME PagesInv  PROVE PageAgreesWithAddress
    OBVIOUS
  <2>1. part = "explore" => Explore!ExploreRunning /\ Explore!OneQuery
    BY ExploreHolds DEF PagesInv
  <2>2. part = "search" => Search!SearchFollowsFields
    BY DEF PagesInv, SearchInv
  <2> QED  BY <2>1, <2>2 DEF PageAgreesWithAddress
<1> QED  BY <1>1, PagesInvariant, PTL

\* The forms of the gate wait for one answer; the token shown is the server's, and no
\* settings read before a rotation or a disconnect deny it afterwards, but for a read
\* begun during one; the alert rules follow the last write: whichever answers are late or
\* lost (auth.tsx, settings.tsx, alerts/page.tsx).
THEOREM ServerIsAgreedWith == Spec => []PageAgreesWithServer
<1>1. PagesInv => PageAgreesWithServer
  BY GateHolds, SettingsHold, AlertsHold DEF PagesInv, PageAgreesWithServer
<1> QED  BY <1>1, PagesInvariant, PTL

\* The editor runs the text it shows, and a fix-it leaves marks on the code that
\* they were on, for any texts, reports and order of echoes (fanql-editor.tsx).
THEOREM TextIsKept == Spec => []EditorKeepsText
<1>1. PagesInv => EditorKeepsText
  BY TextHolds DEF PagesInv, EditorKeepsText
<1> QED  BY <1>1, PagesInvariant, PTL

\* A render that lags behind typing never takes the document back, unless the page put
\* a text of its own in between (fanql-editor.tsx).
THEOREM TypingNeverRewinds == Spec => [][part = "text" => Text!NeverRewinds]_vars
<1>1. PagesInv /\ [Next]_vars => [part = "text" => Text!NeverRewinds]_vars
  <2> SUFFICES ASSUME PagesInv, Next, part = "text"  PROVE Text!NeverRewinds
    BY DEF vars
  <2>1. TextInv /\ Text!EditorNext
    BY DEF PagesInv, Next
  <2> QED  BY <2>1, TextStep
<1> QED  BY <1>1, PagesInvariant, PTL DEF Spec

\* Nobody is signed out but by a session that ran out or a step of their own,
\* whatever answers are on the wire (auth.tsx).
THEOREM SessionIsKept == Spec => [][part = "gate" => Gate!OnlyExpiry]_vars
<1>1. PagesInv /\ [Next]_vars => [part = "gate" => Gate!OnlyExpiry]_vars
  <2> SUFFICES ASSUME PagesInv, Next, part = "gate"  PROVE Gate!OnlyExpiry
    BY DEF vars
  <2>1. GateInv /\ Gate!SignInNext
    BY DEF PagesInv, Next
  <2> QED  BY <2>1, OnlyExpirySignsOut
<1> QED  BY <1>1, PagesInvariant, PTL DEF Spec
=============================================================================
