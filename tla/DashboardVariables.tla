--------------------------- MODULE DashboardVariables ---------------------------
(***************************************************************************)
(* The variables of a dashboard in the browser and on the server           *)
(* (src/ui/panels/variables.ts, host/src/dashboards/use-variables.ts,      *)
(* variable-bar.tsx; internal/query/variables.go): the choices are in the  *)
(* address, the options of a query variable are read for the choices and   *)
(* the time on screen, and a panel is asked with the values that come of   *)
(* both.  While options are being read the ones before stay on show, but   *)
(* never decide what a panel is asked with.                                *)
(***************************************************************************)
EXTENDS Naturals, Sequences, FiniteSets
LOCAL INSTANCE SequencesExt

CONSTANTS Variables,   \* records: kind, multi, all, default, options
          Values, NoValue, All,
          Times,
          MaxReads     \* reads of options

\* One variable is enough: variables meet only in what the server lists for them.
VARIABLE vars

variableVars == <<vars>>

Lists == {<<>>} \cup {<<v>> : v \in Values} \cup {l \in Values \X Values : l[1] # l[2]}
Supplied == {[kind |-> "none", list |-> <<>>], [kind |-> "all", list |-> <<>>]}
            \cup [kind : {"one"}, list : {<<v>> : v \in Values}]
            \cup [kind : {"list"}, list : Lists]

One(v) == [kind |-> "one", list |-> <<v>>]
Many(l) == [kind |-> "list", list |-> l]
AllOf == [kind |-> "all", list |-> <<>>]
Empty == [kind |-> "empty", list |-> <<NoValue>>]

Default(variable) == IF variable.default = All THEN AllOf ELSE One(variable.default)

(***************************************************************************)
(* currentValue: options is a set of at most one list, empty while unknown. *)
(***************************************************************************)
Options(variable, options) == IF variable.kind = "custom" THEN {variable.options} ELSE options

Fallback(variable, options) ==
  IF variable.default # NoValue THEN Default(variable)
  ELSE IF variable.all THEN AllOf
  ELSE IF \E l \in options : l # <<>> THEN One(Head(CHOOSE l \in options : TRUE))
  ELSE Empty

Valid(list, options) == SelectSeq(list, LAMBDA v : \A l \in options : v \in Range(l))

currentValue(variable, supplied, read) ==
  LET options == Options(variable, read)
      valid == Valid(supplied.list, options)
  IN CASE supplied.kind = "none" \/ (supplied = Many(<<>>) /\ ~variable.multi) -> Fallback(variable, options)
       [] supplied.kind = "all" -> IF variable.all THEN AllOf ELSE Fallback(variable, options)
       [] OTHER ->
            IF variable.kind = "text" \/ options = {} \/ supplied = Many(<<>>) THEN supplied
            ELSE IF valid # <<>> THEN [supplied EXCEPT !.list = valid]
            ELSE Fallback(variable, options)

\* A query variable without a value is left to the server.
resolved(variable, supplied, read) ==
  LET value == currentValue(variable, supplied, read)
  IN IF value = Empty /\ variable.kind = "query" THEN [kind |-> "none", list |-> <<>>] ELSE value

(***************************************************************************)
(* The server: values and chooseValue                                      *)
(***************************************************************************)
chooseValue(variable, provided, options) ==
  IF \/ provided.kind = "all" /\ variable.all
     \/ provided.kind \in {"one", "list", "empty"} /\ (variable.multi \/ provided.list # <<>>)
  THEN provided
  ELSE Fallback(variable, {options})

values(variable, provided, stored) ==
  chooseValue(variable, provided,
              CASE variable.kind = "custom" -> variable.options
                [] variable.kind = "query" -> stored
                [] OTHER -> <<>>)

(***************************************************************************)
(* The hook: one read per time and choice, the ones before on show          *)
(***************************************************************************)
Stored(time) == vars.stored[time]

Key(p) == [time |-> p.time, supplied |-> p.supplied]

currentData(p) == IF Key(p) \in DOMAIN p.cache THEN {p.cache[Key(p)]} ELSE {}

ready(p) ==
  \/ p.failed = Key(p)
  \/ p.variable.kind # "query"
  \/ p.supplied.kind \in {"one", "list"} /\ (p.variable.multi \/ p.supplied.list # <<>>)
  \/ p.variable.default # NoValue \/ p.variable.all \/ currentData(p) # {}

Unread == [time |-> NoValue, supplied |-> NoValue]

VariablesInit ==
  \E variable \in Variables, stored \in [Times -> Lists], time \in Times, supplied \in Supplied :
    vars = [variable |-> variable, stored |-> stored, time |-> time, supplied |-> supplied,
            cache |-> [k \in {} |-> <<>>], shown |-> {}, failed |-> Unread, reads |-> 0,
            asked |-> {}]

\* The panels are asked as soon as the values are known; another value, another request.
Asking(p) ==
  IF ready(p) THEN [p EXCEPT !.asked = {[key |-> Key(p), value |-> resolved(p.variable, p.supplied, currentData(p))]}]
  ELSE p

Cached(cache, key, list) ==
  [k \in DOMAIN cache \cup {key} |-> IF k = key THEN list ELSE cache[k]]

resolveVariables(ok) ==
  /\ vars.variable.kind = "query" /\ currentData(vars) = {} /\ vars.failed # Key(vars)
  /\ vars.reads < MaxReads
  /\ vars' = Asking(
       IF ok THEN [vars EXCEPT !.cache = Cached(@, Key(vars), Stored(vars.time)),
                               !.shown = {Stored(vars.time)}, !.reads = @ + 1]
       ELSE [vars EXCEPT !.failed = Key(vars), !.reads = @ + 1])

\* A render of new choices or of a new time: what was read before stays on show.
Turned(p) ==
  Asking([p EXCEPT !.shown = IF currentData(p) # {} THEN currentData(p) ELSE @])

setVar(supplied) ==
  /\ vars.variable.kind # "constant"
  /\ supplied # vars.supplied
  /\ vars' = Turned([vars EXCEPT !.supplied = supplied])

pickTime(time) ==
  /\ time # vars.time
  /\ vars' = Turned([vars EXCEPT !.time = time])

Bar(p) == currentValue(p.variable, p.supplied, p.shown)

VariablesNext ==
  \/ \E ok \in BOOLEAN : resolveVariables(ok)
  \/ \E supplied \in Supplied : setVar(supplied)
  \/ \E time \in Times : pickTime(time)

(***************************************************************************)
(* With the options of the time and the choices on screen, the value in    *)
(* the variable bar, the value the panels are asked with and the value the *)
(* server runs them with are the same, whatever stale choice the address   *)
(* carries (variables.ts:3-4: "chooseValue precedence, with stale URL      *)
(* choices filtered against options once available").                      *)
(***************************************************************************)
BarSaysWhatRuns ==
  currentData(vars) # {} \/ vars.variable.kind # "query" =>
    \A request \in vars.asked : request.key = Key(vars) =>
      Bar(vars) = values(vars.variable, request.value, Stored(vars.time))

(***************************************************************************)
(* Options on show for another time or other choices never reach a panel:  *)
(* until the ones of this key are known a panel is asked with the choice   *)
(* of the address or with what needs no options                            *)
(* (variables.ts:28, use-variables.ts:25-31).                              *)
(***************************************************************************)
PlaceholdersNeverAsk ==
  \A request \in vars.asked :
    (request.key = Key(vars) /\ currentData(vars) = {} /\ vars.variable.kind = "query") =>
      request.value \in {vars.supplied, AllOf, [kind |-> "none", list |-> <<>>]}
                        \cup (IF vars.variable.default = NoValue THEN {} ELSE {Default(vars.variable)})
=============================================================================
