---------------------------- MODULE ChatSession ----------------------------
(***************************************************************************)
(* The assistant session of the web app: Session (src/ui/host/src/app.tsx) *)
(* with the chat page's controls (chat.tsx) and the rail's rename and      *)
(* delete dialogs (rail.tsx).  The session outlives every page: its thread *)
(* is the one in the route, else the draft the browser has named.  One     *)
(* HttpAgent serves one thread; the runs of an agent that was left are     *)
(* aborted and no longer heard (the agent is a library: modelled from how  *)
(* the session uses it).  A conversation is abstracted to whose it is.     *)
(***************************************************************************)
EXTENDS Naturals, FiniteSets

CONSTANTS Threads,   \* thread ids, those createID will give among them
          NoThread,
          Stored,    \* threads the server holds when the app loads
          MaxLoads,  \* bound: transcripts being loaded, the inactive ones included
          MaxRuns    \* bound: runs at the server, the aborted ones included

VARIABLES
  chat,    \* the state and the refs of Session
  loads,   \* requests for a thread's transcript: [thread, active]
  runs,    \* runs the server is working on: [thread, heard]
  known,   \* threads the server holds
  rail     \* the rail's dialog: [op, thread, phase, own]

chatVars == <<chat, loads, runs, known, rail>>

threadID(c) == IF c.route # NoThread THEN c.route ELSE c.draft

ready(c) == c.loaded = threadID(c)

Unused == Threads \ (chat.used \cup Stored)

ChatInit ==
  \E d \in Threads \ Stored :
    /\ chat = [route |-> NoThread, nav |-> [to |-> NoThread, asked |-> FALSE],
               draft |-> d, drafts |-> {}, used |-> {d},
               loaded |-> d, missing |-> FALSE, running |-> FALSE,
               error |-> FALSE, shown |-> NoThread, pending |-> NoThread]
    /\ loads = {} /\ runs = {} /\ known = Stored
    /\ rail = [op |-> "none", thread |-> NoThread, phase |-> "idle", own |-> FALSE]

(***************************************************************************)
(* The session effect, run when the thread changes or a load is retried.   *)
(* Its cleanup makes the loads under way inactive, unsubscribes and aborts; *)
(* its body clears the pane and opens a draft empty or asks the server.    *)
(***************************************************************************)
isDraft(c) == c.route = NoThread \/ threadID(c) \in c.drafts

Opened(c) ==
  [c EXCEPT !.shown = NoThread, !.missing = FALSE, !.running = FALSE, !.error = FALSE,
            !.loaded = IF isDraft(c) THEN threadID(c) ELSE NoThread]

LoadsAfter(c) ==
  {[l EXCEPT !.active = FALSE] : l \in loads}
    \cup (IF isDraft(c) THEN {} ELSE {[thread |-> threadID(c), active |-> TRUE]})

WithinBounds == Cardinality(loads) < MaxLoads /\ Cardinality(runs) < MaxRuns

Unheard == {[r EXCEPT !.heard = FALSE] : r \in runs}

\* run(): the agent starts a run over the messages it holds.
Run(c) == [c EXCEPT !.running = TRUE, !.error = FALSE, !.shown = threadID(c)]

NewRun(c) == [thread |-> threadID(c), heard |-> TRUE]

\* send() refuses while a run is shown, before the thread is loaded, and on a
\* thread that is gone; from /chat it first names the draft in the route.
Accepts(c) == ~c.running /\ ready(c) /\ ~c.missing

Sent(c) ==
  Run(IF c.route = NoThread
      THEN [c EXCEPT !.drafts = @ \cup {threadID(c)}, !.nav = [to |-> threadID(c), asked |-> TRUE]]
      ELSE c)

\* The effect on [ready, routeThreadID, threadID]: a prompt opened with a chat
\* is taken, and sent if the thread accepts it, once the routed thread is ready.
TakesPrompt(c) == ready(c) /\ c.route # NoThread /\ c.pending # NoThread

AfterEffects(c, heard) ==
  LET taken == [c EXCEPT !.pending = NoThread]
  IN IF TakesPrompt(c) /\ Accepts(c)
     THEN chat' = Sent(taken) /\ runs' = heard \cup {NewRun(c)}
     ELSE /\ chat' = IF TakesPrompt(c) THEN taken ELSE c
          /\ runs' = heard

(***************************************************************************)
(* Routing.  A navigation is asked for, and committed by the router later; *)
(* a newer one replaces it.  Committing it re-renders the session.         *)
(***************************************************************************)
Asks(c, to) == [c EXCEPT !.nav = [to |-> to, asked |-> TRUE]]

CommitNavigation ==
  /\ chat.nav.asked /\ WithinBounds
  /\ LET routed == [chat EXCEPT !.route = chat.nav.to, !.nav = [to |-> NoThread, asked |-> FALSE]]
     IN IF threadID(routed) # threadID(chat)
        THEN AfterEffects(Opened(routed), Unheard) /\ loads' = LoadsAfter(routed)
        ELSE AfterEffects(routed, runs) /\ UNCHANGED loads
  /\ UNCHANGED <<known, rail>>

\* A link to a page without a thread, from the rail or the browser's history.
OpenPage ==
  /\ chat.route # NoThread
  /\ chat' = Asks(chat, NoThread)
  /\ UNCHANGED <<loads, runs, known, rail>>

selectThread(t) ==
  /\ t \in known \cup chat.used
  /\ chat' = [Asks(chat, t) EXCEPT !.pending = NoThread]
  /\ UNCHANGED <<loads, runs, known, rail>>

\* openChat names a new thread and leaves the prompt for its first render.
openChat(t) ==
  /\ t \in Unused
  /\ chat' = [Asks(chat, t) EXCEPT !.drafts = @ \cup {t}, !.used = @ \cup {t}, !.pending = t]
  /\ UNCHANGED <<loads, runs, known, rail>>

\* newThread aborts the run; the draft it names changes the thread at once only
\* when no thread is in the route.
NewThread(c, t) ==
  LET named == [Asks(c, NoThread) EXCEPT !.draft = t, !.used = @ \cup {t}, !.pending = NoThread]
  IN IF c.route = NoThread
     THEN /\ chat' = Opened(named)
          /\ runs' = Unheard
          /\ loads' = LoadsAfter(named)
     ELSE /\ chat' = IF c.running
                     THEN [named EXCEPT !.running = FALSE, !.drafts = @ \ {threadID(c)}]
                     ELSE named
          /\ runs' = Unheard
          /\ UNCHANGED loads

newThread(t) ==
  /\ t \in Unused
  /\ NewThread(chat, t)
  /\ UNCHANGED <<known, rail>>

(***************************************************************************)
(* The chat page                                                           *)
(***************************************************************************)
send ==
  /\ Accepts(chat) /\ WithinBounds
  /\ chat' = Sent(chat)
  /\ runs' = runs \cup {NewRun(chat)}
  /\ UNCHANGED <<loads, known, rail>>

retry ==
  /\ WithinBounds
  /\ chat.error /\ ready(chat) /\ ~chat.running /\ chat.shown # NoThread
  /\ chat' = Run(chat)
  /\ runs' = runs \cup {NewRun(chat)}
  /\ UNCHANGED <<loads, known, rail>>

\* Stop aborts: the pane says so and forgets the draft at once.
stop ==
  /\ chat.running
  /\ chat' = [chat EXCEPT !.running = FALSE, !.error = FALSE,
                          !.drafts = @ \ {threadID(chat)}]
  /\ runs' = Unheard
  /\ UNCHANGED <<loads, known, rail>>

\* "Retry" on a thread that failed to load asks the server again.
reloadThread ==
  /\ chat.error /\ ~ready(chat)
  /\ chat' = Opened(chat)
  /\ loads' = LoadsAfter(chat)
  /\ runs' = Unheard
  /\ UNCHANGED <<known, rail>>

(***************************************************************************)
(* Answers.  Only the load of the session as it is may change the pane.    *)
(***************************************************************************)
Loaded(l) ==
  IF l.thread \in known
  THEN [chat EXCEPT !.shown = l.thread, !.loaded = l.thread]
  ELSE [chat EXCEPT !.missing = TRUE, !.loaded = l.thread]

ReceiveThread(l) ==
  /\ loads' = loads \ {l}
  /\ IF l.active THEN AfterEffects(Loaded(l), runs) ELSE UNCHANGED <<chat, runs>>
  /\ UNCHANGED <<known, rail>>

ThreadLoadFails(l) ==
  /\ loads' = loads \ {l}
  /\ chat' = IF l.active THEN [chat EXCEPT !.error = TRUE, !.pending = NoThread] ELSE chat
  /\ UNCHANGED <<runs, known, rail>>

\* The server stores the thread of a run it has accepted, aborted or not.
Persist(r) ==
  /\ known' = known \cup {r.thread}
  /\ UNCHANGED <<chat, loads, runs, rail>>

\* onRunFinalized; onRunErrorEvent and onRunFailed add the error.  Both forget
\* the draft.  An aborted run ends unheard.
RunEnds(r, failed) ==
  /\ r.heard \/ ~failed
  /\ ~failed /\ r.heard => r.thread \in known
  /\ runs' = runs \ {r}
  /\ chat' = IF r.heard
             THEN [chat EXCEPT !.running = FALSE, !.error = failed, !.drafts = @ \ {r.thread}]
             ELSE chat
  /\ UNCHANGED <<loads, known, rail>>

(***************************************************************************)
(* The rail's dialogs.  A deletion closes its dialog, reads the lists      *)
(* again, and then calls onDeletedThread with the thread of the render it  *)
(* was confirmed in: `own' says that this was the thread it deletes.       *)
(***************************************************************************)
NoDialog == [op |-> "none", thread |-> NoThread, phase |-> "idle", own |-> FALSE]

beginRename ==
  /\ rail = NoDialog /\ known # {}
  /\ rail' = [rail EXCEPT !.op = "rename", !.phase = "open"]
  /\ UNCHANGED <<chat, loads, runs, known>>

beginDelete(t) ==
  /\ rail = NoDialog /\ t \in known
  /\ rail' = [rail EXCEPT !.op = "delete", !.thread = t, !.phase = "open"]
  /\ UNCHANGED <<chat, loads, runs, known>>

\* Closing is refused while the request is out.
CancelDialog ==
  /\ rail.phase = "open"
  /\ rail' = NoDialog
  /\ UNCHANGED <<chat, loads, runs, known>>

ConfirmDialog ==
  /\ rail.phase = "open"
  /\ rail' = [rail EXCEPT !.phase = "busy", !.own = rail.thread = threadID(chat)]
  /\ UNCHANGED <<chat, loads, runs, known>>

\* The request is refused or fails: the dialog stays open with the message.
DialogFails ==
  /\ rail.phase = "busy"
  /\ rail' = [rail EXCEPT !.phase = "open", !.own = FALSE]
  /\ UNCHANGED <<chat, loads, runs, known>>

DialogServed ==
  /\ rail.phase = "busy"
  /\ rail' = IF rail.op = "rename" THEN NoDialog ELSE [rail EXCEPT !.phase = "refreshing"]
  /\ known' = known \ {rail.thread}
  /\ UNCHANGED <<chat, loads, runs>>

deleteThread ==
  /\ rail.phase = "refreshing"
  /\ rail' = NoDialog
  /\ IF rail.own
     THEN \E t \in Unused : NewThread(chat, t)
     ELSE UNCHANGED <<chat, loads, runs>>
  /\ UNCHANGED known

ChatPerson ==
  \/ OpenPage \/ send \/ retry \/ stop \/ reloadThread
  \/ \E t \in Threads : selectThread(t) \/ openChat(t) \/ newThread(t)
  \/ \E t \in Threads : beginDelete(t)
  \/ beginRename \/ CancelDialog \/ ConfirmDialog

ChatAnswers ==
  \/ CommitNavigation
  \/ \E l \in loads : ReceiveThread(l) \/ ThreadLoadFails(l)
  \/ \E r \in runs : Persist(r) \/ RunEnds(r, TRUE) \/ RunEnds(r, FALSE)
  \/ DialogFails \/ DialogServed \/ deleteThread

ChatNext == ChatPerson \/ ChatAnswers

(***************************************************************************)
(* What the chat pane shows is of the thread in the route, or of the draft, *)
(* whatever loads, runs and navigations are under way: its messages, and    *)
(* the stop button for the one run that is still listened to.  A late       *)
(* answer for a thread the reader has left must not reach it.               *)
(***************************************************************************)
ShownIsCurrent == chat.shown \in {NoThread, threadID(chat)}

RunningIsHeard ==
  /\ chat.running <=> \E r \in runs : r.heard /\ r.thread = threadID(chat)
  /\ Cardinality({r \in runs : r.heard}) <= 1
=============================================================================
