---------------------------- MODULE SettingsPage ----------------------------
(***************************************************************************)
(* The settings page (src/ui/host/src/settings.tsx): the connection a      *)
(* collector needs, the ingest token an administrator rotates, and the     *)
(* agents a user disconnects.  Both are written by a mutation and read by  *)
(* a query that the window's focus starts again at any time, so an answer  *)
(* may be older than the write it lands after.                             *)
(***************************************************************************)
EXTENDS Naturals, FiniteSets

CONSTANTS Agents, NoAgent, MaxTokens,
          Endpoints,    \* [scheme : {"none", "http", "https"}, port : STRING, path : BOOLEAN]
          Blank,        \* a field of spaces
          NoData        \* a query that never answered, a read the server has not answered

VARIABLES server,   \* [token, connections]: the token issued last, 0 for none
          cache,    \* the two queries and the two mutations, which outlive the page; of
                    \* the data, late: its read began while a write was under way
          page      \* what the components hold

settingsVars == <<server, cache, page>>

QueryKeys == {"ingest", "agents"}

NoRead == [sent |-> FALSE, answer |-> NoData, during |-> FALSE]
NoCall == [state |-> "idle", sent |-> FALSE, token |-> 0, agent |-> NoAgent]

\* The screen of a page that was just opened.
Fresh == [open |-> TRUE, confirming |-> FALSE, issued |-> 0, override |-> NoData,
          selected |-> NoAgent, announced |-> NoAgent]

Suggested == [scheme |-> "none", port |-> "7520", path |-> FALSE]

SettingsInit ==
  /\ server \in [token : {0, 1}, connections : {Agents}]
  /\ cache = [data |-> [q \in QueryKeys |-> NoData], read |-> [q \in QueryKeys |-> [NoRead EXCEPT !.sent = TRUE]],
              call |-> [q \in QueryKeys |-> NoCall]]
  /\ page = Fresh

Facts(q) == IF q = "ingest" THEN server.token > 0 ELSE server.connections

(***************************************************************************)
(* What a collector is told to do with an endpoint                         *)
(***************************************************************************)
overTLS(endpoint) == endpoint.scheme = "https" \/ (endpoint.port = "443" /\ ~endpoint.path)

normalized(endpoint) ==
  IF endpoint.scheme = "none" THEN endpoint
  ELSE [scheme |-> endpoint.scheme, path |-> FALSE,
        port |-> IF endpoint.port # "none" THEN endpoint.port
                 ELSE IF endpoint.scheme = "https" THEN "443" ELSE "80"]

collectorConfig(endpoint, tls) ==
  [endpoint |-> normalized(endpoint), insecure |-> ~tls /\ ~overTLS(normalized(endpoint))]

\* What the field holds, the suggested endpoint where that is nothing.
Endpoint == IF page.override \in {NoData, Blank} THEN Suggested ELSE page.override

(***************************************************************************)
(* The queries: useQuery starts a read when a page opens, on the window's  *)
(* focus and on Try again, unless one is under way.                        *)
(***************************************************************************)
Told(facts, late) == [facts |-> facts, late |-> late]

Begun(q) == [NoRead EXCEPT !.sent = TRUE, !.during = cache.call[q].state = "pending"]

refetch(q) ==
  /\ page.open /\ ~cache.read[q].sent
  /\ cache' = [cache EXCEPT !.read[q] = Begun(q)]
  /\ UNCHANGED <<server, page>>

AnswerRead(q) ==
  /\ cache.read[q].sent /\ cache.read[q].answer = NoData
  /\ cache' = [cache EXCEPT !.read[q].answer = Facts(q)]
  /\ UNCHANGED <<server, page>>

ReadLands(q) ==
  /\ cache.read[q].answer # NoData
  /\ cache' = [cache EXCEPT !.read[q] = NoRead, !.data[q] = Told(cache.read[q].answer, cache.read[q].during)]
  /\ UNCHANGED <<server, page>>

ReadFails(q) ==
  /\ cache.read[q].sent
  /\ cache' = [cache EXCEPT !.read[q] = NoRead]
  /\ UNCHANGED <<server, page>>

\* The page without its data: still loading, or it could not load.
Screen ==
  IF cache.data["ingest"] # NoData THEN "settings"
  ELSE IF cache.read["ingest"].sent THEN "loading" ELSE "unavailable"

Live == page.open /\ Screen = "settings"

(***************************************************************************)
(* Rotating the token                                                      *)
(***************************************************************************)
Pending(q) == cache.call[q].state = "pending"

openConfirm ==
  /\ Live /\ page.issued = 0
  /\ page' = [page EXCEPT !.confirming = TRUE]
  /\ cache' = [cache EXCEPT !.call["ingest"] = NoCall]
  /\ UNCHANGED server

closeConfirm ==
  /\ page.confirming /\ ~Pending("ingest")
  /\ page' = [page EXCEPT !.confirming = FALSE]
  /\ cache' = [cache EXCEPT !.call["ingest"] = NoCall]
  /\ UNCHANGED server

\* Mutant of mutate: the read under way goes on.
mutateUncancelled(q, agent) ==
  cache' = [cache EXCEPT !.call[q] = [NoCall EXCEPT !.state = "pending", !.sent = TRUE, !.agent = agent]]

\* onMutate cancels the read under way, then the request goes out.
mutate(q, agent) ==
  cache' = [cache EXCEPT !.read[q] = NoRead,
              !.call[q] = [NoCall EXCEPT !.state = "pending", !.sent = TRUE, !.agent = agent]]

rotate ==
  /\ page.confirming /\ ~Pending("ingest")
  /\ mutate("ingest", NoAgent)
  /\ UNCHANGED <<server, page>>

ServeRotate ==
  /\ cache.call["ingest"].sent /\ server.token < MaxTokens
  /\ server' = [server EXCEPT !.token = @ + 1]
  /\ cache' = [cache EXCEPT !.call["ingest"].sent = FALSE, !.call["ingest"].token = server.token + 1]
  /\ UNCHANGED page

\* The page shows the token, and the settings without it go to the cache.
Rotated ==
  /\ cache.call["ingest"].token > 0 /\ Pending("ingest")
  /\ cache' = [cache EXCEPT !.data["ingest"] = Told(TRUE, FALSE),
                 !.call["ingest"].state = IF page.open THEN "done" ELSE "idle",
                 !.call["ingest"].token = IF page.open THEN @ ELSE 0]
  /\ page' = IF page.open THEN [page EXCEPT !.confirming = FALSE, !.issued = cache.call["ingest"].token] ELSE page
  /\ UNCHANGED server

\* Refused, or lost before or after the server issued a token.
CallFails(q) ==
  /\ Pending(q)
  /\ cache' = [cache EXCEPT !.call[q] = [NoCall EXCEPT !.state = IF page.open THEN "error" ELSE "idle"]]
  /\ UNCHANGED <<server, page>>

dismissToken ==
  /\ page.issued > 0
  /\ page' = [page EXCEPT !.issued = 0]
  /\ cache' = [cache EXCEPT !.call["ingest"] = NoCall]
  /\ UNCHANGED server

(***************************************************************************)
(* ConnectedAgents                                                         *)
(***************************************************************************)
Listed == IF cache.data["agents"] = NoData THEN {} ELSE cache.data["agents"].facts

select(agent) ==
  /\ Live /\ agent \in Listed /\ ~Pending("agents") /\ page.selected = NoAgent
  /\ page' = [page EXCEPT !.selected = agent]
  /\ cache' = [cache EXCEPT !.call["agents"] = NoCall]
  /\ UNCHANGED server

cancel ==
  /\ page.selected # NoAgent /\ ~Pending("agents")
  /\ page' = [page EXCEPT !.selected = NoAgent]
  /\ cache' = [cache EXCEPT !.call["agents"] = NoCall]
  /\ UNCHANGED server

disconnect ==
  /\ page.selected # NoAgent /\ ~Pending("agents")
  /\ page' = [page EXCEPT !.announced = NoAgent]
  /\ mutate("agents", page.selected)
  /\ UNCHANGED server

ServeRevoke ==
  /\ cache.call["agents"].sent
  /\ server' = [server EXCEPT !.connections = @ \ {cache.call["agents"].agent}]
  /\ cache' = [cache EXCEPT !.call["agents"].sent = FALSE]
  /\ UNCHANGED page

Disconnected ==
  /\ Pending("agents") /\ ~cache.call["agents"].sent
  /\ cache' = [cache EXCEPT !.call["agents"] = NoCall,
                 !.data["agents"] = IF @ = NoData THEN @ ELSE Told(Listed \ {cache.call["agents"].agent}, FALSE)]
  /\ page' = IF page.open THEN [page EXCEPT !.selected = NoAgent, !.announced = cache.call["agents"].agent] ELSE page
  /\ UNCHANGED server

(***************************************************************************)
(* The endpoint, and leaving the page for another and coming back          *)
(***************************************************************************)
editEndpoint(value) ==
  /\ Live /\ page' = [page EXCEPT !.override = value]
  /\ UNCHANGED <<server, cache>>

leave ==
  /\ page.open
  /\ page' = [Fresh EXCEPT !.open = FALSE]
  /\ cache' = [cache EXCEPT !.call = [q \in QueryKeys |-> IF Pending(q) THEN cache.call[q] ELSE NoCall]]
  /\ UNCHANGED server

\* The page opened again has mutations of its own.  A bound: the user comes back
\* when the calls of the page they left have ended.
enter ==
  /\ ~page.open /\ \A q \in QueryKeys : ~Pending(q)
  /\ page' = Fresh
  /\ cache' = [cache EXCEPT !.read = [q \in QueryKeys |-> IF cache.read[q].sent THEN cache.read[q] ELSE Begun(q)]]
  /\ UNCHANGED server

\* Another browser authorizes an agent again.
Authorize(agent) ==
  /\ agent \notin server.connections /\ server' = [server EXCEPT !.connections = @ \cup {agent}]
  /\ UNCHANGED <<cache, page>>

SettingsNext ==
  \/ \E q \in QueryKeys : refetch(q) \/ AnswerRead(q) \/ ReadLands(q) \/ ReadFails(q) \/ CallFails(q)
  \/ openConfirm \/ closeConfirm \/ rotate \/ ServeRotate \/ Rotated \/ dismissToken
  \/ \E agent \in Agents : select(agent) \/ Authorize(agent)
  \/ cancel \/ disconnect \/ ServeRevoke \/ Disconnected
  \/ \E value \in Endpoints \cup {Blank} : editEndpoint(value)
  \/ leave \/ enter

(***************************************************************************)
(* A token on the screen is the one collectors are accepted with, and no   *)
(* plaintext is kept once it left the screen.  While the page shows what a *)
(* write of its own did -- the token issued, the agent disconnected -- the *)
(* settings it has read do not deny it: no read that was under way before  *)
(* the write lands after it (settings.tsx:34-48, 165-207).  One that began *)
(* during the write may: the comment there says none does, the code        *)
(* cancels only what it finds when the write begins.  The configuration    *)
(* has the port a gRPC exporter requires, and is as secure as the note     *)
(* above it says.                                                          *)
(***************************************************************************)
Late(q) == cache.data[q].late

SettingsAreTrue ==
  /\ page.issued > 0 => page.issued = server.token
  /\ cache.call["ingest"].token > 0 => Pending("ingest") \/ page.issued = cache.call["ingest"].token
  /\ page.issued > 0 => cache.data["ingest"].facts \/ Late("ingest")
  /\ page.announced # NoAgent /\ page.announced \in Listed =>
       page.announced \in server.connections \/ Late("agents")
  /\ LET config == collectorConfig(Endpoint, FALSE)
     IN /\ config.endpoint.port # "none" \/ Endpoint.scheme = "none"
        /\ ~Endpoint.path => config.insecure = ~overTLS(Endpoint)
=============================================================================
