----------------------------- MODULE McpFrames -----------------------------
(***************************************************************************)
(* The analysis views of a chat (src/ui/host/src/mcp-app-frame.tsx).  All  *)
(* frames share one browser connection to the MCP server, counted by its   *)
(* holders and closed by a timer when the last has let go; a connection    *)
(* that dies tells its holders, and each reconnects a bounded number of    *)
(* times.  They also share one cached read of the view's HTML.  The client *)
(* and the bridge are libraries, modelled from how the frames use them.    *)
(***************************************************************************)
EXTENDS Naturals, FiniteSets

CONSTANTS Frames,
          Conns,          \* connection objects; one no longer referred to is reused
          NoConn,
          MaxAcquire,     \* maxConnectionAcquireAttempts
          MaxReconnect    \* maxReconnectAttempts

VARIABLES
  frame,     \* each frame's component state, refs and running load
  conn,      \* each connection object
  shared,    \* sharedConnection
  promise,   \* sharedConnectionPromise
  html       \* the cached resource: "none", "pending" or "ready"

mcpVars == <<frame, conn, shared, promise, html>>

NoConnection == [state |-> "none", refs |-> 0, listeners |-> {}, timer |-> FALSE,
                 waiters |-> 0, leaving |-> 0]

FrameOff == [phase |-> "off", conn |-> NoConn, tries |-> 0, attempt |-> 0,
             due |-> "none", bridge |-> FALSE]

McpInit ==
  /\ frame = [f \in Frames |-> FrameOff]
  /\ conn = [c \in Conns |-> NoConnection]
  /\ shared = NoConn /\ promise = NoConn
  /\ html = "none"

(***************************************************************************)
(* The load of one generation: acquire the connection, read the HTML and   *)
(* wait for the tool list.  `waiters' counts the loads that were disposed  *)
(* while they awaited a connection, `leaving' the releases that still wait *)
(* for the frame's bridge to be torn down.  A release of a closed          *)
(* connection changes nothing, so a closed one forgets who held it.        *)
(***************************************************************************)
scheduleReconnect(fr) ==
  IF fr.attempt + 1 > MaxReconnect THEN fr
  ELSE [fr EXCEPT !.attempt = @ + 1,
                  !.due = IF fr.attempt = 0 \/ fr.due = "now" THEN "now" ELSE "timer"]

LoadFailed(fr, invalid) ==
  LET failed == [fr EXCEPT !.phase = "error"]
  IN IF fr.attempt > 0 /\ ~invalid THEN scheduleReconnect(failed) ELSE failed

Free(c) ==
  /\ conn[c].state \in {"none", "closed"} /\ promise # c
  /\ \A f \in Frames : frame[f].conn # c

\* One turn of acquireBrowserMCPConnection's loop up to its await: on a promise
\* that is there, or on that of a connection it starts to create.
Await(f, fr, p, conns) ==
  \E c \in Conns :
    /\ IF p # NoConn THEN c = p ELSE Free(c)
    /\ frame' = [frame EXCEPT ![f] = [fr EXCEPT !.phase = "acquiring", !.conn = c]]
    /\ promise' = c
    /\ conn' = IF p # NoConn THEN conns
               ELSE [conns EXCEPT ![c] = [NoConnection EXCEPT !.state = "opening"]]

Mount(f) ==
  /\ frame[f].phase = "off"
  /\ Await(f, [FrameOff EXCEPT !.tries = 1], promise, conn)
  /\ UNCHANGED <<shared, html>>

Acquired(f) ==
  LET c == frame[f].conn
  IN /\ frame[f].phase = "acquiring" /\ conn[c].state = "open"
     /\ conn' = [conn EXCEPT ![c].refs = @ + 1, ![c].timer = FALSE,
                             ![c].listeners = @ \cup {f}]
     /\ frame' = [frame EXCEPT ![f].phase = "reading", ![f].tries = 0]
     /\ html' = IF html = "none" THEN "pending" ELSE html
     /\ UNCHANGED <<shared, promise>>

\* The connection was closed before the frame got it.
AcquiredClosed(f) ==
  LET c == frame[f].conn
      p == IF promise = c THEN NoConn ELSE promise
  IN /\ frame[f].phase = "acquiring" /\ conn[c].state = "closed"
     /\ IF frame[f].tries < MaxAcquire
        THEN Await(f, [frame[f] EXCEPT !.tries = @ + 1], p, conn)
        ELSE /\ frame' = [frame EXCEPT ![f] = LoadFailed([@ EXCEPT !.conn = NoConn], FALSE)]
             /\ promise' = p
             /\ UNCHANGED conn
     /\ UNCHANGED <<shared, html>>

\* A read serves every frame that waits for it; a failed one is not cached.
ReadHTML ==
  /\ html = "pending"
  /\ html' = "ready"
  /\ UNCHANGED <<frame, conn, shared, promise>>

ReadFails(invalid) ==
  /\ html = "pending"
  /\ html' = "none"
  /\ frame' = [f \in Frames |-> IF frame[f].phase = "reading" THEN LoadFailed(frame[f], invalid)
                                ELSE frame[f]]
  /\ UNCHANGED <<conn, shared, promise>>

HTMLExpires ==
  /\ html = "ready" /\ \A f \in Frames : frame[f].phase # "reading"
  /\ html' = "none"
  /\ UNCHANGED <<frame, conn, shared, promise>>

\* The tool list of the connection is there too: the view is shown.
ShowView(f) ==
  /\ frame[f].phase = "reading" /\ html = "ready"
  /\ frame' = [frame EXCEPT ![f].phase = "shown", ![f].attempt = 0]
  /\ UNCHANGED <<conn, shared, promise, html>>

ToolsFail(f) ==
  /\ frame[f].phase = "reading" /\ html = "ready"
  /\ frame' = [frame EXCEPT ![f] = LoadFailed(@, FALSE)]
  /\ UNCHANGED <<conn, shared, promise, html>>

\* The iframe has loaded.  A second load of the same view keeps its bridge.
connectBridge(f) ==
  /\ frame[f].phase = "shown" /\ frame[f].conn # NoConn /\ ~frame[f].bridge
  /\ frame' = [frame EXCEPT ![f].bridge = TRUE]
  /\ UNCHANGED <<conn, shared, promise, html>>

(***************************************************************************)
(* The effect's cleanup, at unmount or before the next generation.  One    *)
(* disposed load and one bridge being torn down at a time are enough.      *)
(***************************************************************************)
Holds(f, c) == frame[f].conn = c /\ frame[f].phase # "acquiring"

CleanedUp(f) ==
  [c \in Conns |->
     IF Holds(f, c) THEN [conn[c] EXCEPT !.listeners = @ \ {f}, !.leaving = @ + 1]
     ELSE IF frame[f].conn = c /\ conn[c].state # "closed" THEN [conn[c] EXCEPT !.waiters = @ + 1]
     ELSE conn[c]]

Unmount(f) ==
  /\ frame[f].phase # "off"
  /\ \A c \in Conns : conn[c].leaving = 0 /\ conn[c].waiters = 0
  /\ conn' = CleanedUp(f)
  /\ frame' = [frame EXCEPT ![f] = FrameOff]
  /\ UNCHANGED <<shared, promise, html>>

Reconnect(f) ==
  /\ frame[f].due # "none"
  /\ Await(f, [FrameOff EXCEPT !.tries = 1, !.attempt = frame[f].attempt],
           promise, CleanedUp(f))
  /\ UNCHANGED <<shared, html>>

(***************************************************************************)
(* The shared connection                                                   *)
(***************************************************************************)
Connected(c) ==
  /\ conn[c].state = "opening"
  /\ conn' = [conn EXCEPT ![c].state = "open"]
  /\ shared' = IF promise = c THEN c ELSE shared
  /\ UNCHANGED <<frame, promise, html>>

ConnectFails(c) ==
  /\ conn[c].state = "opening"
  /\ conn' = [conn EXCEPT ![c] = NoConnection]
  /\ promise' = IF promise = c THEN NoConn ELSE promise
  /\ frame' = [f \in Frames |-> IF frame[f].conn = c
                                THEN LoadFailed([frame[f] EXCEPT !.conn = NoConn], FALSE)
                                ELSE frame[f]]
  /\ UNCHANGED <<shared, html>>

Closed == [NoConnection EXCEPT !.state = "closed"]

\* onclose or onerror of the client: everyone who holds it is told, once.
invalidateBrowserMCPConnection(c) ==
  /\ conn[c].state = "open"
  /\ conn' = [conn EXCEPT ![c] = Closed]
  /\ shared' = IF shared = c THEN NoConn ELSE shared
  /\ promise' = NoConn
  /\ frame' = [f \in Frames |->
       IF f \in conn[c].listeners THEN scheduleReconnect([frame[f] EXCEPT !.conn = NoConn])
       ELSE frame[f]]
  /\ UNCHANGED html

Released(c, refs) ==
  [conn[c] EXCEPT !.refs = refs, !.timer = @ \/ (conn[c].state = "open" /\ refs = 0)]

\* After the bridge's teardown has settled.
releaseBrowserMCPConnection(c) ==
  /\ conn[c].leaving > 0
  /\ conn' = [conn EXCEPT ![c] = [Released(c, conn[c].refs - 1) EXCEPT !.leaving = @ - 1]]
  /\ UNCHANGED <<frame, shared, promise, html>>

\* A disposed load gets its connection, and lets go of it at once.  (If it finds
\* it closed it asks again, to let go of that one: not followed further.)
DisposedLoad(c) ==
  /\ conn[c].waiters > 0 /\ conn[c].state = "open"
  /\ conn' = [conn EXCEPT ![c] = [Released(c, conn[c].refs) EXCEPT !.waiters = @ - 1]]
  /\ UNCHANGED <<frame, shared, promise, html>>

CloseTimer(c) ==
  /\ conn[c].timer
  /\ IF conn[c].refs > 0 \/ shared # c
     THEN conn' = [conn EXCEPT ![c].timer = FALSE] /\ UNCHANGED <<shared, promise>>
     ELSE /\ conn' = [conn EXCEPT ![c] = Closed]
          /\ shared' = NoConn /\ promise' = NoConn
  /\ UNCHANGED <<frame, html>>

McpFrameStep(f) ==
  \/ Mount(f) \/ Acquired(f) \/ AcquiredClosed(f) \/ ShowView(f) \/ ToolsFail(f)
  \/ connectBridge(f) \/ Unmount(f) \/ Reconnect(f)

McpConnStep(c) ==
  \/ Connected(c) \/ ConnectFails(c) \/ invalidateBrowserMCPConnection(c)
  \/ releaseBrowserMCPConnection(c) \/ DisposedLoad(c) \/ CloseTimer(c)

McpNext ==
  \/ \E f \in Frames : McpFrameStep(f)
  \/ \E c \in Conns : McpConnStep(c)
  \/ ReadHTML \/ ReadFails(TRUE) \/ ReadFails(FALSE) \/ HTMLExpires

(***************************************************************************)
(* The count of a connection's holders is exact: it is never closed under a *)
(* view that uses it, and one that nobody holds is about to be closed.      *)
(***************************************************************************)
ReferencesExact ==
  \A c \in Conns : conn[c].state = "open" =>
    /\ conn[c].refs = Cardinality({f \in Frames : Holds(f, c)}) + conn[c].leaving
    /\ \/ conn[c].refs > 0 \/ conn[c].timer \/ conn[c].waiters > 0
       \/ \E f \in Frames : frame[f].conn = c

\* The frames share one connection, the one remembered, and all that use it
\* hear when it dies.
OneConnection ==
  /\ Cardinality({c \in Conns : conn[c].state \in {"opening", "open"}}) <= 1
  /\ shared # NoConn => conn[shared].state = "open" /\ promise = shared
  /\ \A c \in Conns, f \in Frames :
       conn[c].state = "open" => (f \in conn[c].listeners <=> Holds(f, c))
=============================================================================
