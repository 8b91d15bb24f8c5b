--------------------------- MODULE WebAssistantProofs ---------------------------
(* Proofs about the assistant's pane of the web app, for any threads, runs, *)
(* frames, connections, fragments, panels and bounds.                      *)
EXTENDS WebAssistant, SequenceTheorems, FiniteSetTheorems, TLAPS

-----------------------------------------------------------------------------
(* The session.                                                            *)

Ids == Threads \cup {NoThread}

ChatType ==
  [route : Ids, nav : [to : Ids, asked : BOOLEAN], draft : Ids, drafts : SUBSET Ids,
   used : SUBSET Ids, loaded : Ids, missing : BOOLEAN, running : BOOLEAN, error : BOOLEAN,
   shown : Ids, pending : Ids]

\* What the pane shows is of the session's thread;
Pane(c) == c \in ChatType /\ c.shown \in {NoThread, Chat!threadID(c)}

\* a run is listened to exactly while the pane says that one is under way,
\* and it is a run of the session's thread;
Heard(c, rs) ==
  /\ rs \in SUBSET [thread : Ids, heard : BOOLEAN]
  /\ c.running => Chat!NewRun(c) \in rs
  /\ \A r \in rs : r.heard => c.running /\ r.thread = Chat!threadID(c)

\* and so is every load that may still change the pane.
Awaited(c, ls) ==
  /\ ls \in SUBSET [thread : Ids, active : BOOLEAN]
  /\ \A l \in ls : l.active => l.thread = Chat!threadID(c)

ChatInv == Pane(v1) /\ Heard(v1, v3) /\ Awaited(v1, v2)

LEMMA ThreadIds == ASSUME NEW c \in ChatType PROVE Chat!threadID(c) \in Ids
BY DEF ChatType, Chat!threadID

LEMMA OpenedKeeps ==
  ASSUME NEW c \in ChatType, ChatInv
  PROVE  Pane(Chat!Opened(c)) /\ Heard(Chat!Opened(c), Chat!Unheard) /\ Awaited(Chat!Opened(c), Chat!LoadsAfter(c))
<1> PICK d : d = Chat!Opened(c)
  OBVIOUS
<1>1. Chat!threadID(c) \in Ids /\ NoThread \in Ids
  BY ThreadIds DEF Ids
<1>2. /\ d \in ChatType /\ d.shown = NoThread /\ d.running = FALSE
      /\ d.route = c.route /\ d.draft = c.draft
  BY <1>1 DEF ChatType, Chat!Opened
<1>3. Chat!threadID(d) = Chat!threadID(c)
  BY <1>2 DEF Chat!threadID
<1>4. Heard(d, Chat!Unheard)
  <2>1. ASSUME NEW r \in v3
        PROVE  [r EXCEPT !.heard = FALSE] \in [thread : Ids, heard : BOOLEAN]
               /\ [r EXCEPT !.heard = FALSE].heard = FALSE
    BY DEF ChatInv, Heard
  <2> QED  BY <1>2, <2>1 DEF Heard, Chat!Unheard
<1>5. Awaited(d, Chat!LoadsAfter(c))
  <2>1. ASSUME NEW l \in v2
        PROVE  [l EXCEPT !.active = FALSE] \in [thread : Ids, active : BOOLEAN]
               /\ [l EXCEPT !.active = FALSE].active = FALSE
    BY DEF ChatInv, Awaited
  <2>2. [thread |-> Chat!threadID(c), active |-> TRUE] \in [thread : Ids, active : BOOLEAN]
    BY <1>1
  <2>3. ASSUME NEW l \in Chat!LoadsAfter(c)
        PROVE  /\ l \in [thread : Ids, active : BOOLEAN]
               /\ l.active => l.thread = Chat!threadID(c)
    <3>1. \/ \E k \in v2 : l = [k EXCEPT !.active = FALSE]
          \/ l = [thread |-> Chat!threadID(c), active |-> TRUE]
      BY DEF Chat!LoadsAfter
    <3>2. CASE \E k \in v2 : l = [k EXCEPT !.active = FALSE]
      <4>1. PICK k \in v2 : l = [k EXCEPT !.active = FALSE]
        BY <3>2
      <4>2. l \in [thread : Ids, active : BOOLEAN] /\ l.active = FALSE
        BY <2>1, <4>1
      <4> QED  BY <4>2
    <3>3. CASE l = [thread |-> Chat!threadID(c), active |-> TRUE]
      BY <2>2, <3>3
    <3> QED  BY <3>1, <3>2, <3>3
  <2> QED  BY <1>3, <2>3 DEF Awaited
<1> QED  BY <1>2, <1>4, <1>5 DEF Pane

\* A step that leaves the session's thread, its run and its pane alone.
LEMMA SameSession ==
  ASSUME NEW c, NEW rs, NEW ls, Pane(c), Heard(c, rs), Awaited(c, ls),
         NEW d \in ChatType, Chat!threadID(d) = Chat!threadID(c), d.running = c.running,
         d.shown = c.shown
  PROVE  Pane(d) /\ Heard(d, rs) /\ Awaited(d, ls)
BY DEF Pane, Heard, Awaited, Chat!NewRun

LEMMA RunKeeps ==
  ASSUME NEW c, NEW rs, NEW ls, Pane(c), Heard(c, rs), Awaited(c, ls), ~c.running
  PROVE  /\ Pane(Chat!Run(c)) /\ Heard(Chat!Run(c), rs \cup {Chat!NewRun(c)}) /\ Awaited(Chat!Run(c), ls)
         /\ Chat!threadID(Chat!Run(c)) = Chat!threadID(c)
<1> PICK d : d = Chat!Run(c)
  OBVIOUS
<1>1. Chat!threadID(c) \in Ids
  BY ThreadIds DEF Pane
<1>2. /\ d \in ChatType /\ d.shown = Chat!threadID(c) /\ d.running = TRUE
      /\ d.route = c.route /\ d.draft = c.draft
  BY <1>1 DEF ChatType, Chat!Run, Pane
<1>3. Chat!threadID(d) = Chat!threadID(c)
  BY <1>2 DEF Chat!threadID
<1>4. Chat!NewRun(c) \in [thread : Ids, heard : BOOLEAN] /\ Chat!NewRun(c).thread = Chat!threadID(c)
      /\ Chat!NewRun(d) = Chat!NewRun(c)
  BY <1>1, <1>3 DEF Chat!NewRun
<1> QED  BY <1>2, <1>3, <1>4 DEF Pane, Heard, Awaited

LEMMA SentKeeps ==
  ASSUME NEW c, NEW rs, NEW ls, Pane(c), Heard(c, rs), Awaited(c, ls), ~c.running
  PROVE  /\ Pane(Chat!Sent(c)) /\ Heard(Chat!Sent(c), rs \cup {Chat!NewRun(c)}) /\ Awaited(Chat!Sent(c), ls)
         /\ Chat!threadID(Chat!Sent(c)) = Chat!threadID(c)
<1>1. CASE c.route = NoThread
  <2> PICK d : d = [c EXCEPT !.drafts = @ \cup {Chat!threadID(c)},
                             !.nav = [to |-> Chat!threadID(c), asked |-> TRUE]]
    OBVIOUS
  <2>1. Chat!threadID(c) \in Ids
    BY ThreadIds DEF Pane
  <2>2. /\ d \in ChatType /\ d.shown = c.shown /\ d.running = c.running
        /\ d.route = c.route /\ d.draft = c.draft
    BY <2>1 DEF Pane, ChatType
  <2>3. Chat!threadID(d) = Chat!threadID(c)
    BY <2>2 DEF Chat!threadID
  <2>4. Pane(d) /\ Heard(d, rs) /\ Awaited(d, ls) /\ ~d.running
    BY <2>2, <2>3, SameSession
  <2>5. Chat!Sent(c) = Chat!Run(d) /\ Chat!NewRun(d) = Chat!NewRun(c)
    BY <1>1, <2>3 DEF Chat!Sent, Chat!NewRun
  <2> QED  BY <2>3, <2>4, <2>5, RunKeeps
<1>2. CASE c.route # NoThread
  BY <1>2, RunKeeps DEF Chat!Sent
<1> QED  BY <1>1, <1>2

\* The effect after a render sends a waiting prompt, or drops it.
LEMMA EffectsKeep ==
  ASSUME NEW c, NEW rs, NEW ls, Pane(c), Heard(c, rs), Awaited(c, ls), Chat!AfterEffects(c, rs)
  PROVE  Pane(v1') /\ Heard(v1', v3') /\ Awaited(v1', ls)
<1> PICK d : d = [c EXCEPT !.pending = NoThread]
  OBVIOUS
<1>1. /\ d \in ChatType /\ d.shown = c.shown /\ d.running = c.running
      /\ d.route = c.route /\ d.draft = c.draft
  BY DEF Pane, ChatType, Ids
<1>2. Chat!threadID(d) = Chat!threadID(c)
  BY <1>1 DEF Chat!threadID
<1>3. Pane(d) /\ Heard(d, rs) /\ Awaited(d, ls) /\ Chat!NewRun(d) = Chat!NewRun(c)
  BY <1>1, <1>2, SameSession DEF Chat!NewRun
<1>4. CASE Chat!TakesPrompt(c) /\ Chat!Accepts(c)
  <2>1. v1' = Chat!Sent(d) /\ v3' = rs \cup {Chat!NewRun(c)} /\ ~d.running
    BY <1>1, <1>4 DEF Chat!AfterEffects, Chat!Accepts
  <2> QED  BY <1>3, <2>1, SentKeeps
<1>5. CASE ~(Chat!TakesPrompt(c) /\ Chat!Accepts(c))
  <2>1. v1' = (IF Chat!TakesPrompt(c) THEN d ELSE c) /\ v3' = rs
    BY <1>5 DEF Chat!AfterEffects
  <2> QED  BY <1>3, <2>1
<1> QED  BY <1>4, <1>5

LEMMA NewThreadKeeps ==
  ASSUME ChatInv, NEW t \in Ids, Chat!NewThread(v1, t)
  PROVE  ChatInv'
<1> PICK named : named = [Chat!Asks(v1, NoThread) EXCEPT !.draft = t, !.used = @ \cup {t},
                                                       !.pending = NoThread]
  OBVIOUS
<1>0. Pane(v1) /\ v1 \in ChatType /\ Heard(v1, v3) /\ Awaited(v1, v2)
  BY DEF ChatInv, Pane
<1>1. /\ named \in ChatType /\ named.shown = v1.shown /\ named.running = v1.running
      /\ named.route = v1.route /\ named.draft = t /\ named.drafts = v1.drafts
  BY <1>0 DEF ChatType, Chat!Asks, Ids
<1>2. CASE v1.route = NoThread
  <2>1. v1' = Chat!Opened(named) /\ v3' = Chat!Unheard /\ v2' = Chat!LoadsAfter(named)
    BY <1>2 DEF Chat!NewThread
  <2> QED  BY <1>1, <2>1, OpenedKeeps DEF ChatInv
<1>3. CASE v1.route # NoThread
  <2> PICK d : d = [named EXCEPT !.running = FALSE, !.drafts = @ \ {Chat!threadID(v1)}]
    OBVIOUS
  <2>1. v1' = (IF v1.running THEN d ELSE named) /\ v3' = Chat!Unheard /\ v2' = v2
    BY <1>3 DEF Chat!NewThread
  <2>2. /\ d \in ChatType /\ d.shown = v1.shown /\ d.running = FALSE /\ d.route = v1.route
    BY <1>1 DEF ChatType
  <2>3. Chat!threadID(d) = Chat!threadID(v1) /\ Chat!threadID(named) = Chat!threadID(v1)
    BY <1>1, <1>3, <2>2 DEF Chat!threadID
  <2>4. /\ v1' \in ChatType /\ v1'.shown = v1.shown /\ Chat!threadID(v1') = Chat!threadID(v1)
        /\ v1'.running = FALSE
    BY <1>0, <1>1, <2>1, <2>2, <2>3 DEF ChatType
  <2>5. Heard(v1', Chat!Unheard)
    <3>1. ASSUME NEW r \in v3
          PROVE  [r EXCEPT !.heard = FALSE] \in [thread : Ids, heard : BOOLEAN]
                 /\ [r EXCEPT !.heard = FALSE].heard = FALSE
      BY <1>0 DEF Heard
    <3> QED  BY <2>4, <3>1 DEF Heard, Chat!Unheard
  <2> QED  BY <1>0, <2>1, <2>4, <2>5 DEF ChatInv, Pane, Awaited
<1> QED  BY <1>2, <1>3

LEMMA ChatStart == Chat!ChatInit => ChatInv
<1> SUFFICES ASSUME Chat!ChatInit PROVE ChatInv
  OBVIOUS
<1>1. PICK d \in Threads \ Stored :
         /\ v1 = [route |-> NoThread, nav |-> [to |-> NoThread, asked |-> FALSE],
                  draft |-> d, drafts |-> {}, used |-> {d},
                  loaded |-> d, missing |-> FALSE, running |-> FALSE,
                  error |-> FALSE, shown |-> NoThread, pending |-> NoThread]
         /\ v2 = {} /\ v3 = {}
  BY DEF Chat!ChatInit
<1>2. d \in Ids /\ NoThread \in Ids
  BY DEF Ids
<1>3. v1 \in ChatType /\ v1.running = FALSE /\ v1.shown = NoThread
  BY <1>1, <1>2 DEF ChatType
<1> QED  BY <1>1, <1>3 DEF ChatInv, Pane, Heard, Awaited

LEMMA ChatKept ==
  ASSUME ChatInv, Chat!ChatNext
  PROVE  ChatInv'
<1>0. Pane(v1) /\ v1 \in ChatType /\ Heard(v1, v3) /\ Awaited(v1, v2)
  BY DEF ChatInv, Pane
<1>i. NoThread \in Ids /\ (\A t \in Threads : t \in Ids) /\ Chat!threadID(v1) \in Ids
  BY <1>0, ThreadIds DEF Ids
\* Neither the thread, nor the run, nor the pane.
<1>s. ASSUME v1' \in ChatType, v1'.route = v1.route, v1'.draft = v1.draft,
             v1'.running = v1.running, v1'.shown = v1.shown, UNCHANGED <<v3, v2>>
      PROVE  ChatInv'
  <2>1. Chat!threadID(v1') = Chat!threadID(v1)
    BY <1>s DEF Chat!threadID
  <2> QED  BY <1>0, <1>s, <2>1, SameSession DEF ChatInv
<1>1. ASSUME NEW t \in Ids, v1' = Chat!Asks(v1, t) \/ v1' = [Chat!Asks(v1, t) EXCEPT !.pending = NoThread],
             UNCHANGED <<v3, v2>>
      PROVE  ChatInv'
  <2> PICK nav : nav = [to |-> t, asked |-> TRUE]
    OBVIOUS
  <2>1. nav \in [to : Ids, asked : BOOLEAN]
    OBVIOUS
  <2>2. /\ v1' \in ChatType /\ v1'.route = v1.route /\ v1'.draft = v1.draft
        /\ v1'.running = v1.running /\ v1'.shown = v1.shown
    BY <1>0, <1>1, <1>i, <2>1 DEF ChatType, Chat!Asks
  <2> QED  BY <1>1, <1>s, <2>2
<1>2. CASE Chat!OpenPage
  BY <1>1, <1>2, <1>i DEF Chat!OpenPage
<1>3. ASSUME NEW t \in Threads, Chat!selectThread(t) PROVE ChatInv'
  BY <1>1, <1>3, <1>i DEF Chat!selectThread
<1>4. ASSUME NEW t \in Threads, Chat!openChat(t) PROVE ChatInv'
  <2>1. v1' = [Chat!Asks(v1, t) EXCEPT !.drafts = @ \cup {t}, !.used = @ \cup {t}, !.pending = t]
        /\ UNCHANGED <<v3, v2>>
    BY <1>4 DEF Chat!openChat
  <2>2. t \in Ids /\ [to |-> t, asked |-> TRUE] \in [to : Ids, asked : BOOLEAN]
    BY <1>i
  <2>3. /\ v1' \in ChatType /\ v1'.route = v1.route /\ v1'.draft = v1.draft
        /\ v1'.running = v1.running /\ v1'.shown = v1.shown
    BY <1>0, <2>1, <2>2 DEF ChatType, Chat!Asks
  <2> QED  BY <1>s, <2>1, <2>3
<1>5. ASSUME NEW t \in Threads, Chat!newThread(t) PROVE ChatInv'
  BY <1>5, <1>i, NewThreadKeeps DEF Chat!newThread
<1>6. CASE Chat!CommitNavigation
  <2> PICK routed : routed = [v1 EXCEPT !.route = v1.nav.to,
                                          !.nav = [to |-> NoThread, asked |-> FALSE]]
    OBVIOUS
  <2>1. [to |-> NoThread, asked |-> FALSE] \in [to : Ids, asked : BOOLEAN] /\ v1.nav.to \in Ids
    BY <1>0, <1>i DEF ChatType
  <2>2. routed \in ChatType /\ routed.shown = v1.shown /\ routed.running = v1.running
    BY <1>0, <2>1 DEF ChatType
  <2>3. CASE Chat!threadID(routed) # Chat!threadID(v1)
    <3>1. Chat!AfterEffects(Chat!Opened(routed), Chat!Unheard) /\ v2' = Chat!LoadsAfter(routed)
      BY <1>6, <2>3 DEF Chat!CommitNavigation
    <3>2. /\ Pane(Chat!Opened(routed)) /\ Heard(Chat!Opened(routed), Chat!Unheard)
          /\ Awaited(Chat!Opened(routed), Chat!LoadsAfter(routed))
      BY <2>2, OpenedKeeps
    <3> QED  BY <3>1, <3>2, EffectsKeep DEF ChatInv
  <2>4. CASE Chat!threadID(routed) = Chat!threadID(v1)
    <3>1. Chat!AfterEffects(routed, v3) /\ v2' = v2
      BY <1>6, <2>4 DEF Chat!CommitNavigation
    <3>2. Pane(routed) /\ Heard(routed, v3) /\ Awaited(routed, v2)
      BY <1>0, <2>2, <2>4, SameSession
    <3> QED  BY <3>1, <3>2, EffectsKeep DEF ChatInv
  <2> QED  BY <2>3, <2>4
<1>7. CASE Chat!send
  <2>1. /\ v1' = Chat!Sent(v1) /\ v3' = v3 \cup {Chat!NewRun(v1)} /\ v2' = v2
        /\ ~v1.running
    BY <1>7 DEF Chat!send, Chat!Accepts
  <2> QED  BY <1>0, <2>1, SentKeeps DEF ChatInv
<1>8. CASE Chat!retry
  <2>1. /\ v1' = Chat!Run(v1) /\ v3' = v3 \cup {Chat!NewRun(v1)} /\ v2' = v2
        /\ ~v1.running
    BY <1>8 DEF Chat!retry
  <2> QED  BY <1>0, <2>1, RunKeeps DEF ChatInv
\* The run is over, or no longer heard, and nothing else of the session moves.
<1>q. ASSUME v1' \in ChatType, v1'.route = v1.route, v1'.draft = v1.draft,
             v1'.running = FALSE, v1'.shown = v1.shown, v2' = v2,
             v3' \in SUBSET [thread : Ids, heard : BOOLEAN], \A r \in v3' : ~r.heard
      PROVE  ChatInv'
  <2>1. Chat!threadID(v1') = Chat!threadID(v1)
    BY <1>q DEF Chat!threadID
  <2> QED  BY <1>0, <1>q, <2>1 DEF ChatInv, Pane, Heard, Awaited
<1>u. Chat!Unheard \in SUBSET [thread : Ids, heard : BOOLEAN] /\ \A r \in Chat!Unheard : ~r.heard
  <2>1. ASSUME NEW r \in v3
        PROVE  [r EXCEPT !.heard = FALSE] \in [thread : Ids, heard : BOOLEAN]
               /\ [r EXCEPT !.heard = FALSE].heard = FALSE
    BY <1>0 DEF Heard
  <2> QED  BY <2>1 DEF Chat!Unheard
<1>9. CASE Chat!stop
  <2>1. /\ v1' = [v1 EXCEPT !.running = FALSE, !.error = FALSE,
                               !.drafts = @ \ {Chat!threadID(v1)}]
        /\ v3' = Chat!Unheard /\ v2' = v2
    BY <1>9 DEF Chat!stop
  <2>2. /\ v1' \in ChatType /\ v1'.route = v1.route /\ v1'.draft = v1.draft
        /\ v1'.running = FALSE /\ v1'.shown = v1.shown
    BY <1>0, <2>1 DEF ChatType
  <2> QED  BY <1>q, <1>u, <2>1, <2>2
<1>10. CASE Chat!reloadThread
  <2>1. v1' = Chat!Opened(v1) /\ v2' = Chat!LoadsAfter(v1) /\ v3' = Chat!Unheard
    BY <1>10 DEF Chat!reloadThread
  <2> QED  BY <1>0, <2>1, OpenedKeeps DEF ChatInv
<1>11. ASSUME NEW l \in v2, Chat!ReceiveThread(l) PROVE ChatInv'
  <2>0. v2' = v2 \ {l} /\ Awaited(v1, v2')
    BY <1>0, <1>11 DEF Chat!ReceiveThread, Awaited
  <2>1. CASE l.active
    <3>1. Chat!AfterEffects(Chat!Loaded(l), v3) /\ l.thread = Chat!threadID(v1)
      BY <1>0, <1>11, <2>1 DEF Chat!ReceiveThread, Awaited
    <3> PICK d : d = Chat!Loaded(l)
      OBVIOUS
    <3>2. /\ d \in ChatType /\ d.shown \in {v1.shown, Chat!threadID(v1)} /\ d.running = v1.running
          /\ d.route = v1.route /\ d.draft = v1.draft
      BY <1>0, <1>i, <3>1 DEF Chat!Loaded, ChatType
    <3>3. Chat!threadID(d) = Chat!threadID(v1)
      BY <3>2 DEF Chat!threadID
    <3>4. Pane(d) /\ Heard(d, v3) /\ Awaited(d, v2')
      BY <1>0, <2>0, <3>2, <3>3 DEF Pane, Heard, Awaited, Chat!NewRun
    <3> QED  BY <3>1, <3>4, EffectsKeep DEF ChatInv
  <2>2. CASE ~l.active
    BY <1>0, <1>11, <2>0, <2>2 DEF Chat!ReceiveThread, ChatInv
  <2> QED  BY <2>1, <2>2
<1>12. ASSUME NEW l \in v2, Chat!ThreadLoadFails(l) PROVE ChatInv'
  <2>0. v2' = v2 \ {l} /\ Awaited(v1, v2') /\ v3' = v3
    BY <1>0, <1>12 DEF Chat!ThreadLoadFails, Awaited
  <2>1. v1' = IF l.active THEN [v1 EXCEPT !.error = TRUE, !.pending = NoThread] ELSE v1
    BY <1>12 DEF Chat!ThreadLoadFails
  <2>2. /\ v1' \in ChatType /\ v1'.route = v1.route /\ v1'.draft = v1.draft
        /\ v1'.running = v1.running /\ v1'.shown = v1.shown
    BY <1>0, <1>i, <2>1 DEF ChatType
  <2>3. Chat!threadID(v1') = Chat!threadID(v1)
    BY <2>2 DEF Chat!threadID
  <2> QED  BY <1>0, <2>0, <2>2, <2>3, SameSession DEF ChatInv
<1>13. ASSUME NEW r \in v3, NEW failed \in BOOLEAN, Chat!RunEnds(r, failed) PROVE ChatInv'
  <2>0. v3' = v3 \ {r} /\ v2' = v2
    BY <1>13 DEF Chat!RunEnds
  <2>1. CASE r.heard
    <3>1. v1' = [v1 EXCEPT !.running = FALSE, !.error = failed, !.drafts = @ \ {r.thread}]
      BY <1>13, <2>1 DEF Chat!RunEnds
    <3>2. /\ v1' \in ChatType /\ v1'.route = v1.route /\ v1'.draft = v1.draft
          /\ v1'.running = FALSE /\ v1'.shown = v1.shown
      BY <1>0, <3>1 DEF ChatType
    <3>3. \A s \in v3' : ~s.heard
      <4>1. ASSUME NEW s \in v3, s.heard PROVE s = r
        BY <1>0, <2>1, <4>1 DEF Heard
      <4> QED  BY <2>0, <4>1
    <3>4. v3' \in SUBSET [thread : Ids, heard : BOOLEAN]
      BY <1>0, <2>0 DEF Heard
    <3> QED  BY <1>q, <2>0, <3>2, <3>3, <3>4
  <2>2. CASE ~r.heard
    <3>1. v1' = v1
      BY <1>13, <2>2 DEF Chat!RunEnds
    <3>2. Chat!NewRun(v1) # r
      BY <2>2 DEF Chat!NewRun
    <3> QED  BY <1>0, <2>0, <3>1, <3>2 DEF ChatInv, Heard
  <2> QED  BY <2>1, <2>2
<1>14. CASE Chat!deleteThread
  <2>1. CASE v5.own
    <3>1. PICK t \in Chat!Unused : Chat!NewThread(v1, t)
      BY <1>14, <2>1 DEF Chat!deleteThread
    <3> QED  BY <1>i, <3>1, NewThreadKeeps DEF Chat!Unused
  <2>2. CASE ~v5.own
    BY <1>0, <1>14, <2>2 DEF Chat!deleteThread, ChatInv
  <2> QED  BY <2>1, <2>2
<1>15. ASSUME UNCHANGED <<v1, v2, v3>> PROVE ChatInv'
  BY <1>0, <1>15 DEF ChatInv
<1>16. ASSUME \/ \E t \in Threads : Chat!beginDelete(t)
              \/ Chat!beginRename \/ Chat!CancelDialog \/ Chat!ConfirmDialog \/ Chat!DialogFails \/ Chat!DialogServed
              \/ \E r \in v3 : Chat!Persist(r)
       PROVE  UNCHANGED <<v1, v2, v3>>
  BY <1>16 DEF Chat!beginDelete, Chat!beginRename, Chat!CancelDialog, Chat!ConfirmDialog, Chat!DialogFails, Chat!DialogServed,
               Chat!Persist
<1>17. CASE Chat!ChatPerson
  BY <1>2, <1>3, <1>4, <1>5, <1>7, <1>8, <1>9, <1>10, <1>15, <1>16, <1>17 DEF Chat!ChatPerson
<1>18. CASE Chat!ChatAnswers
  BY <1>6, <1>11, <1>12, <1>13, <1>14, <1>15, <1>16, <1>18 DEF Chat!ChatAnswers
<1> QED  BY <1>17, <1>18 DEF Chat!ChatNext

LEMMA ChatHolds == ChatInv => Chat!ShownIsCurrent /\ Chat!RunningIsHeard
<1> SUFFICES ASSUME ChatInv  PROVE Chat!ShownIsCurrent /\ Chat!RunningIsHeard
  OBVIOUS
<1> DEFINE rs == {r \in v3 : r.heard}
<1>1. Pane(v1) /\ Heard(v1, v3)
  BY DEF ChatInv
<1>2. \A r, s \in rs : r = s
  BY <1>1 DEF Heard
<1>3. v1.running <=> \E r \in v3 : r.heard /\ r.thread = Chat!threadID(v1)
  BY <1>1 DEF Heard, Chat!NewRun
<1> HIDE DEF rs
<1>4. Cardinality(rs) <= 1
  <2>1. CASE rs = {}
    <3>1. Cardinality(rs) = 0
      BY <2>1, FS_EmptySet
    <3> QED  BY <3>1
  <2>2. CASE rs # {}
    <3>1. PICK t : rs = {t}
      BY <1>2, <2>2
    <3>2. Cardinality({t}) = 1
      BY FS_Singleton
    <3> QED  BY <3>1, <3>2
  <2> QED  BY <2>1, <2>2
<1>5. Chat!RunningIsHeard
  BY <1>3, <1>4 DEF Chat!RunningIsHeard, Chat!Cardinality, Cardinality, rs
<1> QED  BY <1>1, <1>5 DEF Pane, Chat!ShownIsCurrent

-----------------------------------------------------------------------------
(* The frames and their connection.  A connection's listeners are the      *)
(* frames that hold it, and its count is of those and of the releases      *)
(* under way; one that is being opened or open is the one promised.        *)

IsFrame(r) ==
  /\ r = [phase |-> r.phase, conn |-> r.conn, tries |-> r.tries, attempt |-> r.attempt,
          due |-> r.due, bridge |-> r.bridge]
  /\ r.conn \in Conns \cup {NoConn} /\ (r.phase = "off" => r.conn = NoConn)

IsConn(k) ==
  /\ k = [state |-> k.state, refs |-> k.refs, listeners |-> k.listeners, timer |-> k.timer,
          waiters |-> k.waiters, leaving |-> k.leaving]
  /\ k.listeners \in SUBSET Views /\ k.leaving \in Nat /\ k.waiters \in Nat
  /\ k.refs = Cardinality(k.listeners) + k.leaving
  /\ k.state # "open" => k.listeners = {} /\ k.leaving = 0

Uses(r, c) == r.conn = c /\ r.phase # "acquiring"

\* All that use a connection hear of its end.
Told(fr, cn) == \A f \in Views, c \in Conns : f \in cn[c].listeners <=> Uses(fr[f], c)

\* A connection is waited for, used, or about to be closed.
Wanted(fr, k, c) ==
  /\ k.state = "open" => k.refs > 0 \/ k.timer = TRUE \/ k.waiters > 0 \/ \E f \in Views : fr[f].conn = c
  /\ k.state = "opening" => k.waiters > 0 \/ \E f \in Views : fr[f].conn = c

Alive == {"opening", "open"}

OneShared(cn, sh, pr) ==
  /\ sh \in Conns \cup {NoConn} /\ pr \in Conns \cup {NoConn}
  /\ \A c \in Conns : (cn[c].state \in Alive => pr = c) /\ (cn[c].state = "open" => sh = c)
  /\ sh # NoConn => cn[sh].state = "open"
  /\ pr # NoConn => cn[pr].state \in Alive

Wired(fr, cn, sh, pr) ==
  /\ fr = [f \in Views |-> fr[f]] /\ \A f \in Views : IsFrame(fr[f])
  /\ \A f \in Views : fr[f].phase = "acquiring" => fr[f].conn \in Conns
  /\ cn = [c \in Conns |-> cn[c]] /\ \A c \in Conns : IsConn(cn[c])
  /\ Told(fr, cn) /\ \A c \in Conns : Wanted(fr, cn[c], c)
  /\ OneShared(cn, sh, pr)

McpInv == Wired(v1, v2, v3, v4)

LEMMA Blanks ==
  /\ IsFrame(Mcp!FrameOff) /\ Mcp!FrameOff.conn = NoConn /\ Mcp!FrameOff.phase = "off"
  /\ IsConn(Mcp!NoConnection) /\ Mcp!NoConnection.state = "none"
  /\ IsConn(Mcp!Closed) /\ Mcp!Closed.state = "closed"
<1> PICK r, k, d : r = Mcp!FrameOff /\ k = Mcp!NoConnection /\ d = Mcp!Closed
  OBVIOUS
<1> PICK no : no = FALSE
  OBVIOUS
<1>1. k = [state |-> "none", refs |-> 0, listeners |-> {}, timer |-> no, waiters |-> 0, leaving |-> 0]
  BY DEF Mcp!NoConnection
<1>2. d = [state |-> "closed", refs |-> 0, listeners |-> {}, timer |-> no, waiters |-> 0, leaving |-> 0]
  <2>1. d = [k EXCEPT !.state = "closed"]
    BY DEF Mcp!Closed
  <2> QED  BY ONLY <1>1, <2>1
<1>3. r = [phase |-> "off", conn |-> NoConn, tries |-> 0, attempt |-> 0, due |-> "none", bridge |-> no]
  <2>1. r.conn = NoConn
    BY DEF Mcp!FrameOff
  <2> QED  BY DEF Mcp!FrameOff
<1>4. Cardinality({}) = 0
  BY FS_EmptySet
<1>5. IsConn(k) /\ k.state = "none"
  BY ONLY <1>1, <1>4 DEF IsConn
<1>6. IsConn(d) /\ d.state = "closed"
  BY ONLY <1>2, <1>4 DEF IsConn
<1>7. IsFrame(r) /\ r.conn = NoConn /\ r.phase = "off"
  BY ONLY <1>3 DEF IsFrame
<1> QED  BY <1>5, <1>6, <1>7

LEMMA Rescheduled ==
  ASSUME NEW r, IsFrame(r)
  PROVE  LET s == Mcp!scheduleReconnect(r) IN IsFrame(s) /\ s.conn = r.conn /\ s.phase = r.phase
<1> PICK s, attempt, due :
      /\ s = Mcp!scheduleReconnect(r) /\ attempt = r.attempt + 1
      /\ due = IF r.attempt = 0 \/ r.due = "now" THEN "now" ELSE "timer"
  OBVIOUS
<1>1. CASE s = r
  BY <1>1
<1>2. CASE s # r
  <2>1. s = [r EXCEPT !.attempt = attempt, !.due = due]
    BY <1>2 DEF Mcp!scheduleReconnect
  <2>2. s = [phase |-> r.phase, conn |-> r.conn, tries |-> r.tries, attempt |-> attempt,
             due |-> due, bridge |-> r.bridge]
    BY ONLY <2>1, IsFrame(r) DEF IsFrame
  <2>3. /\ s = [phase |-> s.phase, conn |-> s.conn, tries |-> s.tries, attempt |-> s.attempt,
                due |-> s.due, bridge |-> s.bridge]
        /\ s.conn = r.conn /\ s.phase = r.phase
    BY ONLY <2>2
  <2> QED  BY <2>3 DEF IsFrame
<1> QED  BY <1>1, <1>2

LEMMA Phased ==
  ASSUME NEW r, IsFrame(r), NEW phase, phase # "off"
  PROVE  LET s == [r EXCEPT !.phase = phase] IN IsFrame(s) /\ s.conn = r.conn /\ s.phase = phase
<1> PICK s : s = [r EXCEPT !.phase = phase]
  OBVIOUS
<1>1. s = [phase |-> phase, conn |-> r.conn, tries |-> r.tries, attempt |-> r.attempt,
           due |-> r.due, bridge |-> r.bridge]
  BY DEF IsFrame
<1>2. /\ s = [phase |-> s.phase, conn |-> s.conn, tries |-> s.tries, attempt |-> s.attempt,
              due |-> s.due, bridge |-> s.bridge]
      /\ s.conn = r.conn /\ s.phase = phase
  BY ONLY <1>1
<1> QED  BY <1>2 DEF IsFrame

LEMMA FailedLoad ==
  ASSUME NEW r, IsFrame(r), NEW invalid
  PROVE  LET s == Mcp!LoadFailed(r, invalid) IN IsFrame(s) /\ s.conn = r.conn /\ s.phase = "error"
<1> PICK s, e : s = Mcp!LoadFailed(r, invalid) /\ e = [r EXCEPT !.phase = "error"]
  OBVIOUS
<1>1. IsFrame(e) /\ e.conn = r.conn /\ e.phase = "error"
  BY Phased
<1>2. s = e \/ s = Mcp!scheduleReconnect(e)
  BY DEF Mcp!LoadFailed
<1> QED  BY <1>1, <1>2, Rescheduled

LEMMA LetGo ==
  ASSUME NEW r, IsFrame(r)
  PROVE  LET s == [r EXCEPT !.conn = NoConn] IN IsFrame(s) /\ s.conn = NoConn /\ s.phase = r.phase
<1> PICK s : s = [r EXCEPT !.conn = NoConn]
  OBVIOUS
<1>1. s = [phase |-> r.phase, conn |-> NoConn, tries |-> r.tries, attempt |-> r.attempt,
           due |-> r.due, bridge |-> r.bridge]
  BY DEF IsFrame
<1>2. /\ s = [phase |-> s.phase, conn |-> s.conn, tries |-> s.tries, attempt |-> s.attempt,
              due |-> s.due, bridge |-> s.bridge]
      /\ s.conn = NoConn /\ s.phase = r.phase
  BY ONLY <1>1
<1> QED  BY <1>2 DEF IsFrame

\* Frames that stay with their connections.
Stay(fr, g) ==
  /\ g = [f \in Views |-> g[f]]
  /\ \A f \in Views : IsFrame(g[f]) /\ g[f].conn = fr[f].conn
  /\ \A f \in Views : g[f].phase = "acquiring" <=> fr[f].phase = "acquiring"

LEMMA SameWires ==
  ASSUME NEW fr, NEW cn, NEW sh, NEW pr, Wired(fr, cn, sh, pr), NEW g, Stay(fr, g)
  PROVE  Wired(g, cn, sh, pr)
<1>1. Told(g, cn)
  BY DEF Told, Uses, Wired, Stay
<1>2. \A c \in Conns : Wanted(g, cn[c], c)
  BY DEF Wanted, Wired, Stay
<1> QED  BY <1>1, <1>2 DEF Wired, Stay

\* A connection in use is open, and so is the one shared.
LEMMA InUse ==
  ASSUME NEW fr, NEW cn, NEW sh, NEW pr, Wired(fr, cn, sh, pr), NEW f \in Views, NEW c \in Conns
  PROVE  Uses(fr[f], c) => cn[c].state = "open"
BY DEF Wired, Told, IsConn

Promised(f, fr, cn, pr, c, r, g, dn) ==
  /\ pr # NoConn => c = pr
  /\ cn[c].state \in {"none", "closed"} \/ pr # NoConn
  /\ IsFrame(r) /\ r.conn = c /\ r.phase = "acquiring"
  /\ g = [fr EXCEPT ![f] = r]
  /\ dn = IF pr # NoConn THEN cn ELSE [cn EXCEPT ![c] = [Mcp!NoConnection EXCEPT !.state = "opening"]]

\* A frame that has none asks for the connection promised, or opens one.
LEMMA Acquiring ==
  ASSUME NEW fr, NEW cn, NEW sh, NEW pr, Wired(fr, cn, sh, pr),
         NEW f \in Views, fr[f].conn = NoConn, NEW c \in Conns, NEW r, NEW g, NEW dn,
         Promised(f, fr, cn, pr, c, r, g, dn)
  PROVE  Wired(g, dn, sh, c)
<1> PICK k : k = [Mcp!NoConnection EXCEPT !.state = "opening"]
  OBVIOUS
<1>0. /\ pr # NoConn => c = pr
      /\ IsFrame(r) /\ r.conn = c /\ r.phase = "acquiring"
      /\ g = [fr EXCEPT ![f] = r]
      /\ dn = IF pr # NoConn THEN cn ELSE [cn EXCEPT ![c] = k]
  BY DEF Promised
<1>1. g = [h \in Views |-> g[h]] /\ g[f] = r /\ \A h \in Views : h # f => g[h] = fr[h]
  BY <1>0 DEF Wired
<1>2. \A h \in Views : IsFrame(g[h])
  BY <1>0, <1>1 DEF Wired
<1>5. \A h \in Views : g[h].phase = "acquiring" => g[h].conn \in Conns
  BY <1>0, <1>1 DEF Wired
<1>3. CASE pr # NoConn
  <2>1. dn = cn /\ c = pr
    BY <1>0, <1>3
  <2>2. Told(g, cn)
    <3>1. \A d \in Conns : ~Uses(fr[f], d) /\ ~Uses(r, d)
      BY <1>0, ViewsAssumption DEF Uses
    <3> QED  BY ONLY <1>1, <3>1, Wired(fr, cn, sh, pr), f \in Views DEF Told, Wired
  <2>3. \A d \in Conns : Wanted(g, cn[d], d)
    <3>1. \A d \in Conns : (\E h \in Views : fr[h].conn = d) => \E h \in Views : g[h].conn = d
      BY <1>0, <1>1, ViewsAssumption
    <3> QED  BY <3>1 DEF Wanted, Wired
  <2> QED  BY <1>1, <1>2, <1>5, <2>1, <2>2, <2>3 DEF Wired
<1>4. CASE pr = NoConn
  <2>1. dn = [d \in Conns |-> dn[d]] /\ dn[c] = k /\ \A d \in Conns : d # c => dn[d] = cn[d]
    BY <1>0, <1>4 DEF Wired
  <2>2. IsConn(k) /\ k.state = "opening" /\ k.listeners = {}
    <3> PICK n : n = Mcp!NoConnection
      OBVIOUS
    <3>1. IsConn(n) /\ n.state = "none" /\ k = [n EXCEPT !.state = "opening"]
      BY Blanks
    <3>2. k = [state |-> "opening", refs |-> n.refs, listeners |-> n.listeners, timer |-> n.timer,
               waiters |-> n.waiters, leaving |-> n.leaving]
      BY ONLY <3>1 DEF IsConn
    <3>3. /\ k = [state |-> k.state, refs |-> k.refs, listeners |-> k.listeners, timer |-> k.timer,
                  waiters |-> k.waiters, leaving |-> k.leaving]
          /\ k.state = "opening" /\ k.refs = n.refs /\ k.listeners = n.listeners
          /\ k.waiters = n.waiters /\ k.leaving = n.leaving
      BY ONLY <3>2
    <3> QED  BY ONLY <3>1, <3>3 DEF IsConn
  <2>3. \A d \in Conns : cn[d].state \notin Alive
    BY <1>4, ViewsAssumption DEF Wired, OneShared
  <2>4. Told(g, dn)
    <3>1. \A h \in Views, d \in Conns : h \notin cn[d].listeners
      BY <2>3 DEF Wired, IsConn, Alive
    <3>2. \A h \in Views, d \in Conns : ~Uses(fr[h], d) /\ ~Uses(r, d)
      BY <1>0, <3>1 DEF Uses, Wired, Told
    <3> QED  BY ONLY <1>1, <2>1, <2>2, <3>1, <3>2 DEF Told
  <2>5. \A d \in Conns : Wanted(g, dn[d], d)
    <3>1. Wanted(g, k, c)
      BY ONLY <1>0, <1>1, <2>2, f \in Views DEF Wanted
    <3>2. \A d \in Conns : Wanted(g, cn[d], d)
      BY ONLY <2>3 DEF Wanted, Alive
    <3> QED  BY ONLY <2>1, <3>1, <3>2
  <2>6. sh = NoConn /\ OneShared(dn, sh, c)
    <3>1. sh = NoConn
      BY <2>3 DEF Wired, OneShared, Alive
    <3>2. \A d \in Conns : dn[d].state \in Alive => d = c
      BY ONLY <2>1, <2>3
    <3>3. dn[c].state = "opening"
      BY ONLY <2>1, <2>2
    <3> QED  BY ONLY <3>1, <3>2, <3>3, c \in Conns DEF OneShared, Alive
  <2>7. \A d \in Conns : IsConn(dn[d])
    BY <2>1, <2>2 DEF Wired
  <2> QED  BY <1>1, <1>2, <1>5, <2>1, <2>4, <2>5, <2>6, <2>7 DEF Wired
<1> QED  BY <1>3, <1>4

\* The records the actions make of a connection.
Without(k, f, s) == s = [k EXCEPT !.listeners = @ \ {f}, !.leaving = @ + 1]

LEMMA Dropped ==
  ASSUME NEW k, NEW f, NEW s, IsConn(k), k.state = "open", f \in k.listeners, Without(k, f, s)
  PROVE  IsConn(s) /\ s.state = "open" /\ s.listeners = k.listeners \ {f} /\ s.refs > 0
<1> PICK rest, leaving :
      /\ rest = k.listeners \ {f} /\ leaving = k.leaving + 1
  OBVIOUS
<1>1. s = [state |-> k.state, refs |-> k.refs, listeners |-> rest, timer |-> k.timer,
           waiters |-> k.waiters, leaving |-> leaving]
  BY DEF IsConn, Without
<1>2. /\ s = [state |-> s.state, refs |-> s.refs, listeners |-> s.listeners, timer |-> s.timer,
              waiters |-> s.waiters, leaving |-> s.leaving]
      /\ s.state = k.state /\ s.refs = k.refs /\ s.listeners = rest /\ s.waiters = k.waiters
      /\ s.leaving = leaving
  BY ONLY <1>1
<1>3. IsFiniteSet(k.listeners)
  BY ViewsAssumption, FS_Subset DEF IsConn
<1>4. Cardinality(rest) = Cardinality(k.listeners) - 1 /\ Cardinality(k.listeners) \in Nat
      /\ Cardinality(rest) \in Nat
  BY <1>3, FS_RemoveElement, FS_CardinalityType, FS_Subset
<1>5. k.leaving \in Nat /\ k.refs = Cardinality(k.listeners) + k.leaving /\ k.waiters \in Nat
      /\ k.listeners \in SUBSET Views
  BY DEF IsConn
<1>6. s.refs = Cardinality(rest) + leaving /\ s.refs > 0 /\ leaving \in Nat
  BY <1>2, <1>4, <1>5
<1> QED  BY <1>2, <1>5, <1>6 DEF IsConn

LEMMA Disposed ==
  ASSUME NEW k, IsConn(k)
  PROVE  LET s == [k EXCEPT !.waiters = @ + 1]
         IN IsConn(s) /\ s.state = k.state /\ s.listeners = k.listeners /\ s.waiters > 0
<1> PICK s, waiters : s = [k EXCEPT !.waiters = @ + 1] /\ waiters = k.waiters + 1
  OBVIOUS
<1>1. s = [state |-> k.state, refs |-> k.refs, listeners |-> k.listeners, timer |-> k.timer,
           waiters |-> waiters, leaving |-> k.leaving]
  BY DEF IsConn
<1>2. /\ s = [state |-> s.state, refs |-> s.refs, listeners |-> s.listeners, timer |-> s.timer,
              waiters |-> s.waiters, leaving |-> s.leaving]
      /\ s.state = k.state /\ s.refs = k.refs /\ s.listeners = k.listeners /\ s.waiters = waiters
      /\ s.leaving = k.leaving
  BY ONLY <1>1
<1>3. waiters \in Nat /\ waiters > 0
  BY DEF IsConn
<1> QED  BY <1>2, <1>3 DEF IsConn

\* The frame's effect is cleaned up: whatever it had, it has nothing then.
LEMMA Left ==
  ASSUME McpInv, NEW f \in Views, NEW g, g = [v1 EXCEPT ![f] = Mcp!FrameOff],
         NEW dn, dn = Mcp!CleanedUp(f)
  PROVE  Wired(g, dn, v3, v4) /\ \A c \in Conns : dn[c].state = v2[c].state
<1> PICK off : off = Mcp!FrameOff
  OBVIOUS
<1>0. Wired(v1, v2, v3, v4)
  BY DEF McpInv
<1>1. g = [h \in Views |-> g[h]] /\ g[f] = off /\ \A h \in Views : h # f => g[h] = v1[h]
  BY <1>0 DEF Wired
<1>2. IsFrame(off) /\ off.conn = NoConn /\ off.phase = "off"
  BY Blanks
<1>3. \A h \in Views : IsFrame(g[h])
  BY <1>0, <1>1, <1>2 DEF Wired
<1>9. \A h \in Views : g[h].phase = "acquiring" => g[h].conn \in Conns
  BY <1>0, <1>1, <1>2 DEF Wired
<1>4. dn = [c \in Conns |-> dn[c]]
      /\ \A c \in Conns : dn[c] =
          IF Mcp!Holds(f, c) THEN [v2[c] EXCEPT !.listeners = @ \ {f}, !.leaving = @ + 1]
          ELSE IF v1[f].conn = c /\ v2[c].state # "closed" THEN [v2[c] EXCEPT !.waiters = @ + 1]
          ELSE v2[c]
  BY DEF Mcp!CleanedUp
<1>5. \A c \in Conns : Mcp!Holds(f, c) <=> Uses(v1[f], c)
  BY DEF Mcp!Holds, Uses
<1>6. ASSUME NEW c \in Conns
      PROVE  /\ IsConn(dn[c]) /\ dn[c].state = v2[c].state
             /\ dn[c].listeners = v2[c].listeners \ {f}
             /\ Wanted(g, dn[c], c)
  <2>0. IsConn(v2[c]) /\ Wanted(v1, v2[c], c) /\ (f \in v2[c].listeners <=> Uses(v1[f], c))
    BY <1>0 DEF Wired, Told
  <2>1. CASE Uses(v1[f], c)
    <3>1. v2[c].state = "open" /\ f \in v2[c].listeners
      BY <1>0, <2>0, <2>1, InUse
    <3>2. dn[c] = [v2[c] EXCEPT !.listeners = @ \ {f}, !.leaving = @ + 1]
      BY <1>4, <1>5, <2>1
    <3>3. IsConn(dn[c]) /\ dn[c].state = "open" /\ dn[c].listeners = v2[c].listeners \ {f}
          /\ dn[c].refs > 0
      <4>1. Without(v2[c], f, dn[c])
        BY ONLY <3>2 DEF Without
      <4> QED  BY ONLY <2>0, <3>1, <4>1, Dropped
    <3>4. Wanted(g, dn[c], c)
      BY ONLY <3>3 DEF Wanted
    <3> QED  BY ONLY <3>1, <3>3, <3>4
  <2>2. CASE ~Uses(v1[f], c) /\ v1[f].conn = c /\ v2[c].state # "closed"
    <3>1. dn[c] = [v2[c] EXCEPT !.waiters = @ + 1]
      BY <1>4, <1>5, <2>2
    <3>2. IsConn(dn[c]) /\ dn[c].state = v2[c].state /\ dn[c].listeners = v2[c].listeners
          /\ dn[c].waiters > 0
      BY ONLY <2>0, <3>1, Disposed
    <3> QED  BY <2>0, <2>2, <3>2 DEF Wanted
  <2>3. CASE ~Uses(v1[f], c) /\ ~(v1[f].conn = c /\ v2[c].state # "closed")
    <3>1. dn[c] = v2[c] /\ f \notin v2[c].listeners
      BY <1>4, <1>5, <2>0, <2>3
    <3>2. CASE v1[f].conn # c
      <4>1. (\E h \in Views : v1[h].conn = c) => \E h \in Views : g[h].conn = c
        BY <1>1, <3>2
      <4> QED  BY <2>0, <3>1, <4>1 DEF Wanted
    <3>3. CASE v2[c].state = "closed"
      BY <2>0, <3>1, <3>3 DEF Wanted
    <3> QED  BY <2>3, <3>2, <3>3
  <2> QED  BY <2>1, <2>2, <2>3
<1>7. Told(g, dn)
  <2>1. \A c \in Conns : ~Uses(off, c)
    BY <1>2, ViewsAssumption DEF Uses
  <2>2. \A h \in Views, c \in Conns : h \in v2[c].listeners <=> Uses(v1[h], c)
    BY <1>0 DEF Wired, Told
  <2> QED  BY ONLY <1>1, <1>6, <2>1, <2>2 DEF Told
<1>8. OneShared(dn, v3, v4)
  <2>1. OneShared(v2, v3, v4)
    BY <1>0 DEF Wired
  <2> QED  BY ONLY <1>6, <2>1 DEF OneShared
<1> QED  BY ONLY <1>1, <1>3, <1>4, <1>6, <1>7, <1>8, <1>9 DEF Wired

\* A turn of the loop that asks for a connection, of a frame that has none.
LEMMA Asks ==
  ASSUME NEW f \in Views, NEW fr, NEW cn, NEW p, Wired(fr, cn, v3, p),
         fr[f].conn = NoConn, \A h \in Views : h # f => fr[h] = v1[h], v1 = [h \in Views |-> v1[h]],
         \A c \in Conns : cn[c].state = v2[c].state, p \in {v4, NoConn},
         NEW r, IsFrame(r), Mcp!Await(f, r, p, cn), v3' = v3
  PROVE  McpInv'
<1>1. PICK c \in Conns :
        /\ IF p # NoConn THEN c = p ELSE Mcp!Free(c)
        /\ v1' = [v1 EXCEPT ![f] = [r EXCEPT !.phase = "acquiring", !.conn = c]]
        /\ v4' = c
        /\ v2' = IF p # NoConn THEN cn
                 ELSE [cn EXCEPT ![c] = [Mcp!NoConnection EXCEPT !.state = "opening"]]
  BY DEF Mcp!Await
<1> PICK s, k : /\ s = [r EXCEPT !.phase = "acquiring", !.conn = c]
                /\ k = [Mcp!NoConnection EXCEPT !.state = "opening"]
  OBVIOUS
<1>2. s = [phase |-> "acquiring", conn |-> c, tries |-> r.tries, attempt |-> r.attempt,
           due |-> r.due, bridge |-> r.bridge]
  BY DEF IsFrame
<1>3. /\ s = [phase |-> s.phase, conn |-> s.conn, tries |-> s.tries, attempt |-> s.attempt,
              due |-> s.due, bridge |-> s.bridge]
      /\ s.conn = c /\ s.phase = "acquiring"
  BY ONLY <1>2
<1>4. IsFrame(s) /\ s.conn = c /\ s.phase = "acquiring"
  BY ONLY <1>3, c \in Conns DEF IsFrame
<1>5. v1' = [fr EXCEPT ![f] = s]
  <2>1. fr = [h \in Views |-> fr[h]]
    BY DEF Wired
  <2>2. v1' = [v1 EXCEPT ![f] = s]
    BY <1>1
  <2> QED  BY ONLY <2>1, <2>2, f \in Views, \A h \in Views : h # f => fr[h] = v1[h], v1 = [h \in Views |-> v1[h]]
<1>6. (p # NoConn => c = p) /\ (cn[c].state \in {"none", "closed"} \/ p # NoConn)
  BY <1>1 DEF Mcp!Free
<1>7. v2' = IF p # NoConn THEN cn ELSE [cn EXCEPT ![c] = k]
  BY <1>1
<1>8. Wired(v1', v2', v3, c)
  <2>1. Promised(f, fr, cn, p, c, s, v1', v2')
    BY <1>4, <1>5, <1>6, <1>7 DEF Promised
  <2> PICK g, dn : g = v1' /\ dn = v2'
    OBVIOUS
  <2> QED  BY <2>1, Acquiring
<1> QED  BY <1>1, <1>8 DEF McpInv

\* One connection changes, and stays what it is.
Changed(fr, g, c, k) ==
  /\ c \in Conns /\ IsConn(k)
  /\ g = [f \in Views |-> g[f]] /\ \A f \in Views : IsFrame(g[f]) /\ g[f].conn = fr[f].conn
  /\ \A f \in Views : g[f].phase = "acquiring" => fr[f].phase = "acquiring"
  /\ \A f \in Views : f \in k.listeners <=> Uses(g[f], c)
  /\ \A f \in Views : g[f] # fr[f] => fr[f].conn = c
  /\ Wanted(g, k, c)

LEMMA Rewired ==
  ASSUME NEW fr, NEW cn, NEW sh, NEW pr, Wired(fr, cn, sh, pr),
         NEW g, NEW c, NEW k, NEW dn, Changed(fr, g, c, k),
         k.state = cn[c].state, dn = [cn EXCEPT ![c] = k]
  PROVE  Wired(g, dn, sh, pr)
<1> USE DEF Changed
<1>1. dn = [d \in Conns |-> dn[d]] /\ dn[c] = k /\ \A d \in Conns : d # c => dn[d] = cn[d]
  BY DEF Wired
<1>2. \A d \in Conns : IsConn(dn[d]) /\ dn[d].state = cn[d].state
  BY <1>1 DEF Wired
<1>3. Told(g, dn)
  <2>1. \A f \in Views, d \in Conns : d # c => (Uses(g[f], d) <=> Uses(fr[f], d))
    BY DEF Uses
  <2> QED  BY <1>1, <2>1 DEF Told, Wired
<1>4. \A d \in Conns : Wanted(g, dn[d], d)
  <2>1. \A d \in Conns : Wanted(g, cn[d], d)
    BY DEF Wanted, Wired
  <2> QED  BY ONLY <1>1, <2>1, Changed(fr, g, c, k)
<1>5. OneShared(dn, sh, pr)
  <2>1. OneShared(cn, sh, pr)
    BY DEF Wired
  <2> QED  BY ONLY <1>2, <2>1 DEF OneShared
<1> QED  BY <1>1, <1>2, <1>3, <1>4, <1>5 DEF Wired

\* The connection ends: who used it does so no more.
Off(fr, g, c, k) ==
  /\ c \in Conns /\ IsConn(k) /\ k.state \notin Alive
  /\ g = [f \in Views |-> g[f]] /\ \A f \in Views : IsFrame(g[f])
  /\ \A f \in Views : g[f] = fr[f] \/ (g[f].conn = NoConn /\ g[f].phase # "acquiring")
  /\ \A f \in Views : ~Uses(g[f], c)

LEMMA Ended ==
  ASSUME NEW fr, NEW cn, NEW sh, NEW pr, Wired(fr, cn, sh, pr),
         NEW g, NEW c, NEW k, NEW dn, Off(fr, g, c, k),
         cn[c].state \in Alive, dn = [cn EXCEPT ![c] = k]
  PROVE  pr = c /\ sh \in {c, NoConn} /\ Wired(g, dn, NoConn, NoConn)
<1> USE DEF Off
<1>1. dn = [d \in Conns |-> dn[d]] /\ dn[c] = k /\ \A d \in Conns : d # c => dn[d] = cn[d]
  BY DEF Wired
<1>2. pr = c /\ sh \in {c, NoConn} /\ \A d \in Conns : d # c => cn[d].state \notin Alive
  BY DEF Wired, OneShared, Alive
<1>3. \A d \in Conns : IsConn(dn[d]) /\ dn[d].state \notin Alive
  BY <1>1, <1>2 DEF Wired
<1>4. \A d \in Conns : dn[d].listeners = {}
  BY ONLY <1>3 DEF IsConn, Alive
<1>5. \A d \in Conns : d # c => cn[d].listeners = {}
  BY ONLY <1>1, <1>4
<1>6. \A f \in Views, d \in Conns : ~Uses(g[f], d)
  <2>1. \A f \in Views, d \in Conns : d # c => ~Uses(fr[f], d)
    BY <1>5 DEF Told, Wired
  <2>2. \A f \in Views, d \in Conns : g[f].conn = NoConn => ~Uses(g[f], d)
    BY ViewsAssumption DEF Uses
  <2> QED  BY <2>1, <2>2
<1>7. Told(g, dn)
  BY ONLY <1>4, <1>6 DEF Told
<1>8. \A d \in Conns : Wanted(g, dn[d], d)
  BY ONLY <1>3 DEF Wanted, Alive
<1>9. OneShared(dn, NoConn, NoConn)
  BY ONLY <1>3 DEF OneShared, Alive
<1> QED  BY <1>1, <1>2, <1>3, <1>7, <1>8, <1>9 DEF Wired

LEMMA McpStart == Mcp!McpInit => McpInv
<1> SUFFICES ASSUME Mcp!McpInit PROVE McpInv
  OBVIOUS
<1>1. v1 = [f \in Views |-> Mcp!FrameOff] /\ v2 = [c \in Conns |-> Mcp!NoConnection] /\ v3 = NoConn /\ v4 = NoConn
  BY DEF Mcp!McpInit
<1> PICK off, none : off = Mcp!FrameOff /\ none = Mcp!NoConnection
  OBVIOUS
<1>2. IsFrame(off) /\ off.conn = NoConn /\ off.phase = "off" /\ IsConn(none) /\ none.state = "none"
  BY Blanks
<1>3. \A c \in Conns : c # NoConn
  BY ViewsAssumption
<1>4. none.listeners = {}
  BY <1>2 DEF IsConn
<1>5. v1 = [f \in Views |-> off] /\ v2 = [c \in Conns |-> none]
  BY <1>1
<1>6. Told(v1, v2)
  BY ONLY <1>2, <1>3, <1>4, <1>5 DEF Told, Uses
<1>7. \A c \in Conns : Wanted(v1, v2[c], c)
  BY ONLY <1>2, <1>5 DEF Wanted
<1>8. OneShared(v2, v3, v4)
  BY ONLY <1>1, <1>2, <1>5 DEF OneShared, Alive
<1> QED  BY ONLY <1>2, <1>5, <1>6, <1>7, <1>8 DEF McpInv, Wired

LEMMA FrameKept ==
  ASSUME McpInv, NEW f \in Views, Mcp!McpFrameStep(f)
  PROVE  McpInv'
<1>0. /\ Wired(v1, v2, v3, v4) /\ v1 = [h \in Views |-> v1[h]] /\ IsFrame(v1[f])
      /\ v1[f].phase = "acquiring" => v1[f].conn \in Conns
  BY DEF McpInv, Wired
<1> PICK off : off = Mcp!FrameOff
  OBVIOUS
<1>a. IsFrame(off) /\ off.conn = NoConn /\ off.phase = "off"
  BY Blanks
<1> PICK left, dn : left = [v1 EXCEPT ![f] = off] /\ dn = Mcp!CleanedUp(f)
  OBVIOUS
<1>b. /\ Wired(left, dn, v3, v4) /\ \A c \in Conns : dn[c].state = v2[c].state
      /\ left[f] = off /\ \A h \in Views : h # f => left[h] = v1[h]
  BY <1>0, Left
<1>1. CASE Mcp!Mount(f)
  <2> PICK r : r = [off EXCEPT !.tries = 1]
    OBVIOUS
  <2>1. IsFrame(r)
    <3>1. r = [phase |-> off.phase, conn |-> off.conn, tries |-> 1, attempt |-> off.attempt,
               due |-> off.due, bridge |-> off.bridge]
      BY <1>a DEF IsFrame
    <3> QED  BY ONLY <1>a, <3>1 DEF IsFrame
  <2>2. v1[f].conn = NoConn
    BY <1>0, <1>1 DEF IsFrame, Mcp!Mount
  <2>3. Mcp!Await(f, r, v4, v2) /\ v3' = v3
    BY <1>1 DEF Mcp!Mount
  <2> QED  BY <1>0, <2>1, <2>2, <2>3, Asks
<1>2. CASE Mcp!Acquired(f)
  <2> PICK c : c = v1[f].conn
    OBVIOUS
  <2>1. c \in Conns /\ v1[f].phase = "acquiring" /\ v2[c].state = "open" /\ IsConn(v2[c])
    BY <1>0, <1>2 DEF Mcp!Acquired, Wired
  <2> PICK no, k, r :
        /\ no = FALSE
        /\ k = [v2[c] EXCEPT !.refs = @ + 1, !.timer = no, !.listeners = @ \cup {f}]
        /\ r = [v1[f] EXCEPT !.phase = "reading", !.tries = 0]
    OBVIOUS
  <2>2. v2' = [v2 EXCEPT ![c] = k] /\ v1' = [v1 EXCEPT ![f] = r] /\ v3' = v3 /\ v4' = v4
    BY <1>0, <1>2, <2>1 DEF Mcp!Acquired, Wired
  <2>3. IsFrame(r) /\ r.conn = c /\ r.phase = "reading"
    <3>1. r = [phase |-> "reading", conn |-> c, tries |-> 0, attempt |-> v1[f].attempt,
               due |-> v1[f].due, bridge |-> v1[f].bridge]
      BY <1>0 DEF IsFrame
    <3>2. /\ r = [phase |-> r.phase, conn |-> r.conn, tries |-> r.tries, attempt |-> r.attempt,
                  due |-> r.due, bridge |-> r.bridge]
          /\ r.conn = c /\ r.phase = "reading"
      BY ONLY <3>1
    <3> QED  BY ONLY <2>1, <3>2 DEF IsFrame
  <2>4. f \notin v2[c].listeners
    BY <1>0, <2>1 DEF Wired, Told, Uses
  <2>5. IsConn(k) /\ k.state = "open" /\ k.listeners = v2[c].listeners \cup {f} /\ k.refs > 0
    <3> PICK refs, heard : refs = v2[c].refs + 1 /\ heard = v2[c].listeners \cup {f}
      OBVIOUS
    <3>1. k = [state |-> v2[c].state, refs |-> refs, listeners |-> heard, timer |-> no,
               waiters |-> v2[c].waiters, leaving |-> v2[c].leaving]
      BY <2>1 DEF IsConn
    <3>2. /\ k = [state |-> k.state, refs |-> k.refs, listeners |-> k.listeners, timer |-> k.timer,
                  waiters |-> k.waiters, leaving |-> k.leaving]
          /\ k.state = "open" /\ k.refs = refs /\ k.listeners = heard
          /\ k.waiters = v2[c].waiters /\ k.leaving = v2[c].leaving
      BY ONLY <2>1, <3>1
    <3>3. v2[c].listeners \in SUBSET Views /\ IsFiniteSet(v2[c].listeners)
      BY <2>1, ViewsAssumption, FS_Subset DEF IsConn
    <3>4. Cardinality(heard) = Cardinality(v2[c].listeners) + 1 /\ Cardinality(v2[c].listeners) \in Nat
      BY <2>4, <3>3, FS_AddElement, FS_CardinalityType
    <3>5. heard \in SUBSET Views
      BY <3>3
    <3>6. k.refs = Cardinality(k.listeners) + k.leaving /\ k.refs > 0 /\ k.leaving \in Nat /\ k.waiters \in Nat
      <4>1. /\ v2[c].refs = Cardinality(v2[c].listeners) + v2[c].leaving
            /\ v2[c].leaving \in Nat /\ v2[c].waiters \in Nat
        BY <2>1 DEF IsConn
      <4> QED  BY ONLY <3>2, <3>4, <4>1, refs = v2[c].refs + 1
    <3> QED  BY ONLY <3>2, <3>5, <3>6, heard = v2[c].listeners \cup {f} DEF IsConn
  <2>6. /\ v1' = [h \in Views |-> v1'[h]] /\ v1'[f] = r
        /\ \A h \in Views : h # f => v1'[h] = v1[h]
    BY ONLY <1>0, <2>2
  <2>7. \A h \in Views : IsFrame(v1'[h]) /\ v1'[h].conn = v1[h].conn
    BY <1>0, <2>3, <2>6 DEF Wired
  <2>8. \A h \in Views : v1'[h].phase = "acquiring" => v1[h].phase = "acquiring"
    BY <2>1, <2>6
  <2>9. \A h \in Views : h \in k.listeners <=> Uses(v1'[h], c)
    <3>1. \A h \in Views : h \in v2[c].listeners <=> Uses(v1[h], c)
      BY <1>0, <2>1 DEF Wired, Told
    <3> QED  BY ONLY <2>3, <2>5, <2>6, <3>1 DEF Uses
  <2>10. Wanted(v1', k, c)
    BY ONLY <2>5 DEF Wanted
  <2>11. \A h \in Views : v1'[h] # v1[h] => v1[h].conn = c
    BY <2>6
  <2>12. Changed(v1, v1', c, k)
    BY ONLY <2>1, <2>5, <2>6, <2>7, <2>8, <2>9, <2>10, <2>11 DEF Changed
  <2> PICK g, cn : g = v1' /\ cn = v2'
    OBVIOUS
  <2>13. Wired(g, cn, v3, v4)
    BY <1>0, <2>1, <2>2, <2>5, <2>12, Rewired
  <2> QED  BY <2>2, <2>13 DEF McpInv
<1>3. CASE Mcp!AcquiredClosed(f)
  <2> PICK c : c = v1[f].conn
    OBVIOUS
  <2>1. c \in Conns /\ v1[f].phase = "acquiring" /\ v2[c].state = "closed" /\ v3' = v3
    BY <1>0, <1>3 DEF Mcp!AcquiredClosed
  <2>2. v4 # c
    BY <1>0, <2>1, ViewsAssumption DEF Wired, OneShared, Alive
  <2>3. dn = v2
    <3>1. \A d \in Conns : dn[d] = v2[d]
      BY <2>1 DEF Mcp!CleanedUp, Mcp!Holds
    <3> QED  BY <1>0, <1>b, <3>1 DEF Wired
  <2>4. CASE v1[f].tries < MaxAcquire
    <3> PICK tries, r : tries = v1[f].tries + 1 /\ r = [v1[f] EXCEPT !.tries = tries]
      OBVIOUS
    <3>1. IsFrame(r)
      <4>1. r = [phase |-> v1[f].phase, conn |-> v1[f].conn, tries |-> tries, attempt |-> v1[f].attempt,
                 due |-> v1[f].due, bridge |-> v1[f].bridge]
        BY <1>0 DEF IsFrame
      <4> QED  BY ONLY <1>0, <4>1 DEF IsFrame
    <3>2. Mcp!Await(f, r, v4, v2)
      BY <1>3, <2>2, <2>4 DEF Mcp!AcquiredClosed
    <3> QED  BY <1>0, <1>a, <1>b, <2>1, <2>3, <3>1, <3>2, Asks
  <2>5. CASE ~(v1[f].tries < MaxAcquire)
    <3> PICK gone, no : gone = [v1[f] EXCEPT !.conn = NoConn] /\ no = FALSE
      OBVIOUS
    <3> PICK r : r = Mcp!LoadFailed(gone, no)
      OBVIOUS
    <3>1. v1' = [v1 EXCEPT ![f] = r] /\ v2' = v2 /\ v3' = v3 /\ v4' = v4
      BY <1>0, <1>3, <2>2, <2>5 DEF Mcp!AcquiredClosed
    <3>2. IsFrame(r) /\ r.conn = NoConn /\ r.phase = "error"
      <4>1. IsFrame(gone) /\ gone.conn = NoConn
        BY <1>0, LetGo
      <4> QED  BY <4>1, FailedLoad
    <3>3. Wired(left, v2, v3, v4)
      BY <1>b, <2>3
    <3>4. /\ v1' = [h \in Views |-> v1'[h]] /\ v1'[f] = r
          /\ \A h \in Views : h # f => v1'[h] = left[h]
      BY <1>0, <1>b, <3>1
    <3>5. \A h \in Views : /\ IsFrame(v1'[h]) /\ v1'[h].conn = left[h].conn
                           /\ v1'[h].phase = "acquiring" <=> left[h].phase = "acquiring"
      BY <1>a, <1>b, <3>2, <3>3, <3>4 DEF Wired
    <3>6. Stay(left, v1')
      BY ONLY <3>4, <3>5 DEF Stay
    <3> PICK g : g = v1'
      OBVIOUS
    <3>7. Wired(g, v2, v3, v4)
      BY <3>3, <3>6, SameWires
    <3> QED  BY <3>1, <3>7 DEF McpInv
  <2> QED  BY <2>4, <2>5
<1>4. CASE Mcp!ShowView(f) \/ Mcp!ToolsFail(f) \/ Mcp!connectBridge(f)
  <2> PICK r : r = v1'[f]
    OBVIOUS
  <2>1. v2' = v2 /\ v3' = v3 /\ v4' = v4 /\ v1[f].phase \in {"reading", "shown"}
    BY <1>4 DEF Mcp!ShowView, Mcp!ToolsFail, Mcp!connectBridge
  <2>2. v1' = [v1 EXCEPT ![f] = r] /\ IsFrame(r) /\ r.conn = v1[f].conn /\ r.phase # "acquiring"
    <3>1. CASE Mcp!ShowView(f)
      <4>1. r = [v1[f] EXCEPT !.phase = "shown", !.attempt = 0] /\ v1' = [v1 EXCEPT ![f] = r]
        BY <1>0, <3>1 DEF Mcp!ShowView
      <4>2. r = [phase |-> "shown", conn |-> v1[f].conn, tries |-> v1[f].tries, attempt |-> 0,
                 due |-> v1[f].due, bridge |-> v1[f].bridge]
        BY <1>0, <4>1 DEF IsFrame
      <4>3. /\ r = [phase |-> r.phase, conn |-> r.conn, tries |-> r.tries, attempt |-> r.attempt,
                    due |-> r.due, bridge |-> r.bridge]
            /\ r.conn = v1[f].conn /\ r.phase = "shown"
        BY ONLY <4>2
      <4> QED  BY <1>0, <4>1, <4>3 DEF IsFrame
    <3>2. CASE Mcp!ToolsFail(f)
      <4> PICK no : no = FALSE
        OBVIOUS
      <4>1. r = Mcp!LoadFailed(v1[f], no) /\ v1' = [v1 EXCEPT ![f] = r]
        BY <1>0, <3>2 DEF Mcp!ToolsFail
      <4> QED  BY <1>0, <4>1, FailedLoad
    <3>3. CASE Mcp!connectBridge(f)
      <4> PICK yes : yes = TRUE
        OBVIOUS
      <4>1. r = [v1[f] EXCEPT !.bridge = yes] /\ v1' = [v1 EXCEPT ![f] = r]
        BY <1>0, <3>3 DEF Mcp!connectBridge
      <4>2. r = [phase |-> v1[f].phase, conn |-> v1[f].conn, tries |-> v1[f].tries,
                 attempt |-> v1[f].attempt, due |-> v1[f].due, bridge |-> yes]
        BY <1>0, <4>1 DEF IsFrame
      <4>3. /\ r = [phase |-> r.phase, conn |-> r.conn, tries |-> r.tries, attempt |-> r.attempt,
                    due |-> r.due, bridge |-> r.bridge]
            /\ r.conn = v1[f].conn /\ r.phase = v1[f].phase
        BY ONLY <4>2
      <4> QED  BY <1>0, <2>1, <4>1, <4>3 DEF IsFrame
    <3> QED  BY <1>4, <3>1, <3>2, <3>3
  <2>3. v1' = [h \in Views |-> v1'[h]] /\ v1'[f] = r /\ \A h \in Views : h # f => v1'[h] = v1[h]
    BY ONLY <1>0, <2>2
  <2>4. \A h \in Views : /\ IsFrame(v1'[h]) /\ v1'[h].conn = v1[h].conn
                         /\ v1'[h].phase = "acquiring" <=> v1[h].phase = "acquiring"
    BY <1>0, <2>1, <2>2, <2>3 DEF Wired
  <2>5. Stay(v1, v1')
    BY ONLY <2>3, <2>4 DEF Stay
  <2> PICK g : g = v1'
    OBVIOUS
  <2>6. Wired(g, v2, v3, v4)
    BY <1>0, <2>5, SameWires
  <2> QED  BY <2>1, <2>6 DEF McpInv
<1>5. CASE Mcp!Unmount(f)
  <2>1. v1' = left /\ v2' = dn /\ v3' = v3 /\ v4' = v4
    BY <1>5 DEF Mcp!Unmount
  <2> QED  BY <1>b, <2>1 DEF McpInv
<1>6. CASE Mcp!Reconnect(f)
  <2> PICK attempt, r : attempt = v1[f].attempt /\ r = [off EXCEPT !.tries = 1, !.attempt = attempt]
    OBVIOUS
  <2>1. IsFrame(r)
    <3>1. r = [phase |-> off.phase, conn |-> off.conn, tries |-> 1, attempt |-> attempt,
               due |-> off.due, bridge |-> off.bridge]
      BY <1>a DEF IsFrame
    <3> QED  BY ONLY <1>a, <3>1 DEF IsFrame
  <2>2. Mcp!Await(f, r, v4, dn) /\ v3' = v3
    BY <1>6 DEF Mcp!Reconnect
  <2> QED  BY <1>0, <1>a, <1>b, <2>1, <2>2, Asks
<1> QED  BY <1>1, <1>2, <1>3, <1>4, <1>5, <1>6 DEF Mcp!McpFrameStep

\* A release: the connection is closed soon if nobody is left.
LEMMA Releases ==
  ASSUME McpInv, NEW c \in Conns, v2[c].state = "open", NEW refs, NEW s, s = Mcp!Released(c, refs)
  PROVE  /\ s = [state |-> "open", refs |-> refs, listeners |-> v2[c].listeners, timer |-> s.timer,
                 waiters |-> v2[c].waiters, leaving |-> v2[c].leaving]
         /\ refs = 0 => s.timer = TRUE
<1>1. IsConn(v2[c])
  BY DEF McpInv, Wired
<1> PICK soon, timer : soon = (v2[c].state = "open" /\ refs = 0) /\ timer = (v2[c].timer \/ soon)
  OBVIOUS
<1>2. s = [[v2[c] EXCEPT !.refs = refs] EXCEPT !.timer = timer]
  <2>1. s = [v2[c] EXCEPT !.refs = refs, !.timer = @ \/ soon]
    BY DEF Mcp!Released
  <2> PICK k : k = v2[c]
    OBVIOUS
  <2>2. [k EXCEPT !.refs = refs].timer = k.timer
    BY <1>1 DEF IsConn
  <2> QED  BY Zenon, <2>1, <2>2
<1>3. s = [state |-> v2[c].state, refs |-> refs, listeners |-> v2[c].listeners, timer |-> timer,
           waiters |-> v2[c].waiters, leaving |-> v2[c].leaving]
  BY ONLY <1>1, <1>2 DEF IsConn
<1>4. s.timer = timer
  BY ONLY <1>3
<1>5. refs = 0 => timer = TRUE
  <2>1. refs = 0 => soon = TRUE
    OBVIOUS
  <2> QED  BY Zenon, <2>1
<1> QED  BY <1>3, <1>4, <1>5

\* One that stays open with the same listeners.
Retimed(c, refs, timer, waiters, leaving, k) ==
  /\ k = [state |-> "open", refs |-> refs, listeners |-> v2[c].listeners, timer |-> timer,
          waiters |-> waiters, leaving |-> leaving]
  /\ refs \in Nat /\ waiters \in Nat /\ leaving \in Nat
  /\ refs - leaving = v2[c].refs - v2[c].leaving
  /\ refs = 0 => timer = TRUE \/ waiters > 0 \/ \E f \in Views : v1[f].conn = c

LEMMA SameHolders ==
  ASSUME McpInv, NEW c \in Conns, v2[c].state = "open",
         NEW refs, NEW timer, NEW waiters, NEW leaving, NEW k,
         Retimed(c, refs, timer, waiters, leaving, k),
         v1' = v1, v2' = [v2 EXCEPT ![c] = k], v3' = v3, v4' = v4
  PROVE  McpInv'
<1> USE DEF Retimed
<1>0. Wired(v1, v2, v3, v4) /\ IsConn(v2[c])
  BY DEF McpInv, Wired
<1>1. /\ k = [state |-> k.state, refs |-> k.refs, listeners |-> k.listeners, timer |-> k.timer,
              waiters |-> k.waiters, leaving |-> k.leaving]
      /\ k.state = "open" /\ k.refs = refs /\ k.listeners = v2[c].listeners /\ k.timer = timer
      /\ k.waiters = waiters /\ k.leaving = leaving
  OBVIOUS
<1>2. IsConn(k)
  <2>1. /\ v2[c].refs = Cardinality(v2[c].listeners) + v2[c].leaving
        /\ v2[c].leaving \in Nat /\ Cardinality(v2[c].listeners) \in Nat
        /\ v2[c].listeners \in SUBSET Views
    <3>1. IsFiniteSet(v2[c].listeners)
      BY <1>0, ViewsAssumption, FS_Subset DEF IsConn
    <3> QED  BY <1>0, <3>1, FS_CardinalityType DEF IsConn
  <2>2. refs = Cardinality(v2[c].listeners) + leaving
    BY ONLY <2>1, refs \in Nat, leaving \in Nat, refs - leaving = v2[c].refs - v2[c].leaving
  <2> QED  BY ONLY <1>1, <2>1, <2>2, waiters \in Nat, leaving \in Nat DEF IsConn
<1>3. Wanted(v1, k, c)
  <2>1. refs # 0 => refs > 0
    OBVIOUS
  <2> QED  BY ONLY <1>1, <2>1, refs = 0 => timer = TRUE \/ waiters > 0 \/ \E f \in Views : v1[f].conn = c DEF Wanted
<1>4. \A f \in Views : f \in v2[c].listeners <=> Uses(v1[f], c)
  BY <1>0 DEF Wired, Told
<1>5. v1 = [f \in Views |-> v1[f]] /\ \A f \in Views : IsFrame(v1[f])
  BY <1>0 DEF Wired
<1>6. Changed(v1, v1, c, k)
  BY ONLY c \in Conns, <1>1, <1>2, <1>3, <1>4, <1>5 DEF Changed
<1> PICK cn : cn = v2'
  OBVIOUS
<1>7. k.state = v2[c].state /\ cn = [v2 EXCEPT ![c] = k]
  BY <1>1
<1>8. Wired(v1, cn, v3, v4)
  BY <1>0, <1>6, <1>7, Rewired
<1> QED  BY <1>8 DEF McpInv

LEMMA ConnKept ==
  ASSUME McpInv, NEW c \in Conns, Mcp!McpConnStep(c)
  PROVE  McpInv'
<1>0. Wired(v1, v2, v3, v4) /\ IsConn(v2[c]) /\ v2 = [d \in Conns |-> v2[d]] /\ v1 = [f \in Views |-> v1[f]]
      /\ \A f \in Views : IsFrame(v1[f])
  BY DEF McpInv, Wired
<1> PICK closed, none : closed = Mcp!Closed /\ none = Mcp!NoConnection
  OBVIOUS
<1>a. IsConn(closed) /\ closed.state = "closed" /\ IsConn(none) /\ none.state = "none"
  BY Blanks
<1>b. /\ v2[c].waiters \in Nat /\ v2[c].leaving \in Nat /\ v2[c].refs \in Nat /\ v2[c].refs >= v2[c].leaving
      /\ v2[c].refs = Cardinality(v2[c].listeners) + v2[c].leaving
      /\ v2[c].listeners \in SUBSET Views /\ Cardinality(v2[c].listeners) \in Nat
      /\ IsFiniteSet(v2[c].listeners)
      /\ v2[c].state # "open" => v2[c].listeners = {} /\ v2[c].leaving = 0
  <2>1. IsFiniteSet(v2[c].listeners)
    BY <1>0, ViewsAssumption, FS_Subset DEF IsConn
  <2> QED  BY <1>0, <2>1, FS_CardinalityType DEF IsConn
<1>1. CASE Mcp!Connected(c)
  <2> PICK k : k = [v2[c] EXCEPT !.state = "open"]
    OBVIOUS
  <2>1. v2[c].state = "opening" /\ v2' = [v2 EXCEPT ![c] = k] /\ v1' = v1 /\ v4' = v4
    BY <1>0, <1>1 DEF Mcp!Connected
  <2>2. v4 = c /\ v3' = c
    BY <1>0, <1>1, <2>1 DEF Mcp!Connected, Wired, OneShared, Alive
  <2>3. k = [state |-> "open", refs |-> v2[c].refs, listeners |-> v2[c].listeners, timer |-> v2[c].timer,
             waiters |-> v2[c].waiters, leaving |-> v2[c].leaving]
    BY <1>0 DEF IsConn
  <2>4. /\ k = [state |-> k.state, refs |-> k.refs, listeners |-> k.listeners, timer |-> k.timer,
                waiters |-> k.waiters, leaving |-> k.leaving]
        /\ k.state = "open" /\ k.refs = v2[c].refs /\ k.listeners = v2[c].listeners
        /\ k.waiters = v2[c].waiters /\ k.leaving = v2[c].leaving
    BY ONLY <2>3
  <2>5. IsConn(k)
    BY ONLY <1>b, <2>4 DEF IsConn
  <2> PICK dn : dn = v2'
    OBVIOUS
  <2>6. dn = [d \in Conns |-> dn[d]] /\ dn[c] = k /\ \A d \in Conns : d # c => dn[d] = v2[d]
    BY ONLY <1>0, <2>1, dn = v2', c \in Conns
  <2>7. Told(v1, dn)
    <3>1. Told(v1, v2)
      BY <1>0 DEF Wired
    <3> QED  BY ONLY <2>4, <2>6, <3>1 DEF Told
  <2>8. \A d \in Conns : Wanted(v1, dn[d], d)
    <3>1. \A d \in Conns : Wanted(v1, v2[d], d)
      BY <1>0 DEF Wired
    <3>2. Wanted(v1, k, c)
      BY ONLY <2>1, <2>4, <3>1, c \in Conns DEF Wanted
    <3> QED  BY ONLY <2>6, <3>1, <3>2
  <2>9. OneShared(dn, c, c)
    <3>1. \A d \in Conns : d # c => v2[d].state \notin Alive
      BY <1>0, <2>2 DEF Wired, OneShared
    <3> QED  BY ONLY <2>4, <2>6, <3>1, c \in Conns DEF OneShared, Alive
  <2>10. \A d \in Conns : IsConn(dn[d])
    BY <1>0, <2>5, <2>6 DEF Wired
  <2>11. Wired(v1, dn, c, c)
    BY <1>0, <2>6, <2>7, <2>8, <2>9, <2>10 DEF Wired
  <2> QED  BY <2>1, <2>2, <2>11 DEF McpInv
<1>2. CASE Mcp!ConnectFails(c)
  <2> PICK no : no = FALSE
    OBVIOUS
  <2>1. v2[c].state = "opening" /\ v2' = [v2 EXCEPT ![c] = none] /\ v3' = v3
        /\ v4' = (IF v4 = c THEN NoConn ELSE v4)
        /\ v1' = [f \in Views |-> IF v1[f].conn = c
                                  THEN Mcp!LoadFailed([v1[f] EXCEPT !.conn = NoConn], no) ELSE v1[f]]
    BY <1>2 DEF Mcp!ConnectFails
  <2>2. \A f \in Views : v1'[f] = IF v1[f].conn = c
                                  THEN Mcp!LoadFailed([v1[f] EXCEPT !.conn = NoConn], no) ELSE v1[f]
    BY <2>1
  <2>3. ASSUME NEW f \in Views
        PROVE  IsFrame(v1'[f]) /\ (v1'[f] = v1[f] \/ (v1'[f].conn = NoConn /\ v1'[f].phase # "acquiring"))
               /\ ~Uses(v1'[f], c)
    <3>1. CASE v1[f].conn = c
      <4> PICK gone, r : gone = [v1[f] EXCEPT !.conn = NoConn] /\ r = Mcp!LoadFailed(gone, no)
        OBVIOUS
      <4>1. IsFrame(gone) /\ gone.conn = NoConn
        BY <1>0, LetGo
      <4>2. IsFrame(r) /\ r.conn = NoConn /\ r.phase = "error"
        BY <4>1, FailedLoad
      <4>3. v1'[f] = r
        BY <2>2, <3>1
      <4> QED  BY <4>2, <4>3, ViewsAssumption DEF Uses
    <3>2. CASE v1[f].conn # c
      BY <1>0, <2>2, <3>2 DEF Uses
    <3> QED  BY <3>1, <3>2
  <2>4. v1' = [f \in Views |-> v1'[f]]
    BY <2>1
  <2>5. Off(v1, v1', c, none)
    BY ONLY c \in Conns, <1>a, <2>3, <2>4 DEF Off, Alive
  <2> PICK g, dn : g = v1' /\ dn = v2'
    OBVIOUS
  <2>6. v4 = c /\ v3 \in {c, NoConn} /\ Wired(g, dn, NoConn, NoConn)
    BY <1>0, <2>1, <2>5, Ended DEF Alive
  <2>7. v3' = NoConn /\ v4' = NoConn
    BY <1>0, <2>1, <2>6 DEF Wired, OneShared
  <2> QED  BY <2>6, <2>7 DEF McpInv
<1>3. CASE Mcp!invalidateBrowserMCPConnection(c)
  <2>1. v2[c].state = "open" /\ v2' = [v2 EXCEPT ![c] = closed]
        /\ v3' = (IF v3 = c THEN NoConn ELSE v3) /\ v4' = NoConn
        /\ v1' = [f \in Views |-> IF f \in v2[c].listeners
                                  THEN Mcp!scheduleReconnect([v1[f] EXCEPT !.conn = NoConn]) ELSE v1[f]]
    BY <1>3 DEF Mcp!invalidateBrowserMCPConnection
  <2>2. \A f \in Views : v1'[f] = IF f \in v2[c].listeners
                                  THEN Mcp!scheduleReconnect([v1[f] EXCEPT !.conn = NoConn]) ELSE v1[f]
    BY <2>1
  <2>3. ASSUME NEW f \in Views
        PROVE  IsFrame(v1'[f]) /\ (v1'[f] = v1[f] \/ (v1'[f].conn = NoConn /\ v1'[f].phase # "acquiring"))
               /\ ~Uses(v1'[f], c)
    <3>0. f \in v2[c].listeners <=> Uses(v1[f], c)
      BY <1>0 DEF Wired, Told
    <3>1. CASE f \in v2[c].listeners
      <4> PICK gone, r : gone = [v1[f] EXCEPT !.conn = NoConn] /\ r = Mcp!scheduleReconnect(gone)
        OBVIOUS
      <4>1. IsFrame(gone) /\ gone.conn = NoConn /\ gone.phase = v1[f].phase
        BY <1>0, LetGo
      <4>2. IsFrame(r) /\ r.conn = NoConn /\ r.phase = v1[f].phase
        BY <4>1, Rescheduled
      <4>3. v1'[f] = r
        BY <2>2, <3>1
      <4> QED  BY <3>0, <3>1, <4>2, <4>3, ViewsAssumption DEF Uses
    <3>2. CASE f \notin v2[c].listeners
      BY <1>0, <2>2, <3>0, <3>2
    <3> QED  BY <3>1, <3>2
  <2>4. v1' = [f \in Views |-> v1'[f]]
    BY <2>1
  <2>5. Off(v1, v1', c, closed)
    BY ONLY c \in Conns, <1>a, <2>3, <2>4 DEF Off, Alive
  <2> PICK g, dn : g = v1' /\ dn = v2'
    OBVIOUS
  <2>6. v3 \in {c, NoConn} /\ Wired(g, dn, NoConn, NoConn)
    BY <1>0, <2>1, <2>5, Ended DEF Alive
  <2>7. v3' = NoConn
    BY <2>1, <2>6
  <2> QED  BY <2>1, <2>6, <2>7 DEF McpInv
<1>4. CASE Mcp!releaseBrowserMCPConnection(c)
  <2> PICK refs, leaving : refs = v2[c].refs - 1 /\ leaving = v2[c].leaving - 1
    OBVIOUS
  <2> PICK s, k : s = Mcp!Released(c, refs) /\ k = [s EXCEPT !.leaving = @ - 1]
    OBVIOUS
  <2>1. v2[c].leaving > 0 /\ v2' = [v2 EXCEPT ![c] = k] /\ v1' = v1 /\ v3' = v3 /\ v4' = v4
    BY <1>0, <1>4 DEF Mcp!releaseBrowserMCPConnection
  <2>2. v2[c].state = "open" /\ refs \in Nat /\ leaving \in Nat /\ refs - leaving = v2[c].refs - v2[c].leaving
    BY ONLY <1>b, <2>1, refs = v2[c].refs - 1, leaving = v2[c].leaving - 1
  <2>3. /\ s = [state |-> "open", refs |-> refs, listeners |-> v2[c].listeners, timer |-> s.timer,
                waiters |-> v2[c].waiters, leaving |-> v2[c].leaving]
        /\ refs = 0 => s.timer = TRUE
    BY <2>2, Releases
  <2> PICK timer : timer = s.timer
    OBVIOUS
  <2>4. k = [state |-> "open", refs |-> refs, listeners |-> v2[c].listeners, timer |-> timer,
             waiters |-> v2[c].waiters, leaving |-> leaving]
    <3>1. s = [state |-> "open", refs |-> refs, listeners |-> v2[c].listeners, timer |-> timer,
               waiters |-> v2[c].waiters, leaving |-> v2[c].leaving]
      BY <2>3
    <3>2. s.leaving = v2[c].leaving
      BY ONLY <3>1
    <3>3. k = [s EXCEPT !.leaving = leaving]
      BY <3>2
    <3> QED  BY ONLY <3>1, <3>3
  <2>5. Retimed(c, refs, timer, v2[c].waiters, leaving, k)
    BY <1>b, <2>2, <2>3, <2>4 DEF Retimed
  <2> QED  BY <2>1, <2>2, <2>5, SameHolders
<1>5. CASE Mcp!DisposedLoad(c)
  <2> PICK refs, waiters : refs = v2[c].refs /\ waiters = v2[c].waiters - 1
    OBVIOUS
  <2> PICK s, k : s = Mcp!Released(c, refs) /\ k = [s EXCEPT !.waiters = @ - 1]
    OBVIOUS
  <2>1. v2[c].waiters > 0 /\ v2[c].state = "open" /\ v2' = [v2 EXCEPT ![c] = k]
        /\ v1' = v1 /\ v3' = v3 /\ v4' = v4
    BY <1>0, <1>5 DEF Mcp!DisposedLoad
  <2>2. refs \in Nat /\ waiters \in Nat /\ refs - v2[c].leaving = v2[c].refs - v2[c].leaving
    BY ONLY <1>b, <2>1, refs = v2[c].refs, waiters = v2[c].waiters - 1
  <2>3. /\ s = [state |-> "open", refs |-> refs, listeners |-> v2[c].listeners, timer |-> s.timer,
                waiters |-> v2[c].waiters, leaving |-> v2[c].leaving]
        /\ refs = 0 => s.timer = TRUE
    BY <2>1, Releases
  <2> PICK timer : timer = s.timer
    OBVIOUS
  <2>4. k = [state |-> "open", refs |-> refs, listeners |-> v2[c].listeners, timer |-> timer,
             waiters |-> waiters, leaving |-> v2[c].leaving]
    <3>1. s = [state |-> "open", refs |-> refs, listeners |-> v2[c].listeners, timer |-> timer,
               waiters |-> v2[c].waiters, leaving |-> v2[c].leaving]
      BY <2>3
    <3>2. s.waiters = v2[c].waiters
      BY ONLY <3>1
    <3>3. k = [s EXCEPT !.waiters = waiters]
      BY <3>2
    <3> QED  BY ONLY <3>1, <3>3
  <2>5. Retimed(c, refs, timer, waiters, v2[c].leaving, k)
    BY <1>b, <2>2, <2>3, <2>4 DEF Retimed
  <2> QED  BY <2>1, <2>5, SameHolders
<1>6. CASE Mcp!CloseTimer(c)
  <2>1. CASE v2[c].refs > 0 \/ v3 # c
    <3> PICK no, k : no = FALSE /\ k = [v2[c] EXCEPT !.timer = no]
      OBVIOUS
    <3>1. v2' = [v2 EXCEPT ![c] = k] /\ v1' = v1 /\ v3' = v3 /\ v4' = v4
      BY <1>0, <1>6, <2>1 DEF Mcp!CloseTimer
    <3>2. k = [state |-> v2[c].state, refs |-> v2[c].refs, listeners |-> v2[c].listeners, timer |-> no,
               waiters |-> v2[c].waiters, leaving |-> v2[c].leaving]
      BY <1>0 DEF IsConn
    <3>3. CASE v2[c].state = "open"
      <4>1. v2[c].refs > 0
        BY <1>0, <2>1, <3>3 DEF Wired, OneShared
      <4>2. k = [state |-> "open", refs |-> v2[c].refs, listeners |-> v2[c].listeners, timer |-> no,
                 waiters |-> v2[c].waiters, leaving |-> v2[c].leaving]
        BY <3>2, <3>3
      <4>3. Retimed(c, v2[c].refs, no, v2[c].waiters, v2[c].leaving, k)
        BY ONLY <1>b, <4>1, <4>2 DEF Retimed
      <4> QED  BY <3>1, <3>3, <4>3, SameHolders
    <3>4. CASE v2[c].state # "open"
      <4>1. /\ k = [state |-> k.state, refs |-> k.refs, listeners |-> k.listeners, timer |-> k.timer,
                    waiters |-> k.waiters, leaving |-> k.leaving]
            /\ k.state = v2[c].state /\ k.refs = v2[c].refs /\ k.listeners = v2[c].listeners
            /\ k.waiters = v2[c].waiters /\ k.leaving = v2[c].leaving
        BY ONLY <3>2
      <4>2. IsConn(k)
        BY ONLY <1>b, <4>1 DEF IsConn
      <4>3. Wanted(v1, k, c)
        <5>1. Wanted(v1, v2[c], c)
          BY <1>0 DEF Wired
        <5> QED  BY ONLY <3>4, <4>1, <5>1 DEF Wanted
      <4>4. \A f \in Views : f \in v2[c].listeners <=> Uses(v1[f], c)
        BY <1>0 DEF Wired, Told
      <4>5. Changed(v1, v1, c, k)
        BY ONLY c \in Conns, <1>0, <4>1, <4>2, <4>3, <4>4 DEF Changed
      <4> PICK dn : dn = v2'
        OBVIOUS
      <4>6. Wired(v1, dn, v3, v4)
        BY <1>0, <3>1, <4>1, <4>5, Rewired
      <4> QED  BY <3>1, <4>6 DEF McpInv
    <3> QED  BY <3>3, <3>4
  <2>2. CASE ~(v2[c].refs > 0 \/ v3 # c)
    <3>1. v2' = [v2 EXCEPT ![c] = closed] /\ v1' = v1 /\ v3' = NoConn /\ v4' = NoConn
      BY <1>6, <2>2 DEF Mcp!CloseTimer
    <3>2. v2[c].state = "open"
      BY <1>0, <2>2, ViewsAssumption DEF Wired, OneShared
    <3>3. v2[c].listeners = {}
      <4>1. Cardinality(v2[c].listeners) = 0
        BY ONLY <1>b, <2>2
      <4> QED  BY <1>b, <4>1, FS_EmptySet
    <3>4. \A f \in Views : ~Uses(v1[f], c)
      BY <1>0, <3>3 DEF Wired, Told
    <3>5. Off(v1, v1, c, closed)
      BY ONLY c \in Conns, <1>0, <1>a, <3>4 DEF Off, Alive
    <3> PICK dn : dn = v2'
      OBVIOUS
    <3>6. Wired(v1, dn, NoConn, NoConn)
      BY <1>0, <3>1, <3>2, <3>5, Ended DEF Alive
    <3> QED  BY <3>1, <3>6 DEF McpInv
  <2> QED  BY <2>1, <2>2
<1> QED  BY <1>1, <1>2, <1>3, <1>4, <1>5, <1>6 DEF Mcp!McpConnStep

LEMMA McpKept == ASSUME McpInv, Mcp!McpNext PROVE McpInv'
<1>1. CASE \E f \in Views : Mcp!McpFrameStep(f)
  BY <1>1, FrameKept
<1>2. CASE \E c \in Conns : Mcp!McpConnStep(c)
  BY <1>2, ConnKept
<1>3. CASE Mcp!ReadHTML \/ Mcp!HTMLExpires
  <2>1. v1' = v1 /\ v2' = v2 /\ v3' = v3 /\ v4' = v4
    BY <1>3 DEF Mcp!ReadHTML, Mcp!HTMLExpires
  <2> QED  BY <2>1 DEF McpInv
<1>4. ASSUME NEW invalid, Mcp!ReadFails(invalid)  PROVE McpInv'
  <2>0. Wired(v1, v2, v3, v4) /\ v1 = [f \in Views |-> v1[f]] /\ \A f \in Views : IsFrame(v1[f])
    BY DEF McpInv, Wired
  <2>1. v2' = v2 /\ v3' = v3 /\ v4' = v4
        /\ v1' = [f \in Views |-> IF v1[f].phase = "reading" THEN Mcp!LoadFailed(v1[f], invalid) ELSE v1[f]]
    BY <1>4 DEF Mcp!ReadFails
  <2>2. v1' = [f \in Views |-> v1'[f]]
        /\ \A f \in Views : v1'[f] = IF v1[f].phase = "reading" THEN Mcp!LoadFailed(v1[f], invalid) ELSE v1[f]
    BY <2>1
  <2>3. ASSUME NEW f \in Views
        PROVE  IsFrame(v1'[f]) /\ v1'[f].conn = v1[f].conn
               /\ (v1'[f].phase = "acquiring" <=> v1[f].phase = "acquiring")
    <3> PICK r : r = Mcp!LoadFailed(v1[f], invalid)
      OBVIOUS
    <3>1. IsFrame(r) /\ r.conn = v1[f].conn /\ r.phase = "error"
      BY <2>0, FailedLoad
    <3>2. v1'[f] = IF v1[f].phase = "reading" THEN r ELSE v1[f]
      BY <2>2
    <3> QED  BY <2>0, <3>1, <3>2
  <2>4. Stay(v1, v1')
    BY ONLY <2>2, <2>3 DEF Stay
  <2> PICK g : g = v1'
    OBVIOUS
  <2>5. Wired(g, v2, v3, v4)
    BY <2>0, <2>4, SameWires
  <2> QED  BY <2>1, <2>5 DEF McpInv
<1> QED  BY <1>1, <1>2, <1>3, <1>4 DEF Mcp!McpNext

LEMMA McpHolds == McpInv => Mcp!ReferencesExact /\ Mcp!OneConnection
<1> SUFFICES ASSUME McpInv  PROVE Mcp!ReferencesExact /\ Mcp!OneConnection
  OBVIOUS
<1>0. Wired(v1, v2, v3, v4)
  BY DEF McpInv
<1>1. \A c \in Conns, f \in Views : Mcp!Holds(f, c) <=> f \in v2[c].listeners
  BY <1>0 DEF Mcp!Holds, Wired, Told, Uses
<1>2. ASSUME NEW c \in Conns, v2[c].state = "open"
      PROVE  /\ v2[c].refs = Mcp!Cardinality({f \in Views : Mcp!Holds(f, c)}) + v2[c].leaving
             /\ \/ v2[c].refs > 0 \/ v2[c].timer \/ v2[c].waiters > 0
                \/ \E f \in Views : v1[f].conn = c
  <2>1. IsConn(v2[c]) /\ Wanted(v1, v2[c], c)
    BY <1>0 DEF Wired
  <2>2. {f \in Views : Mcp!Holds(f, c)} = v2[c].listeners
    BY <1>1, <2>1 DEF IsConn
  <2>3. v2[c].refs = Mcp!Cardinality({f \in Views : Mcp!Holds(f, c)}) + v2[c].leaving
    BY <2>1, <2>2 DEF IsConn, Mcp!Cardinality, Cardinality
  <2> QED  BY <1>2, <2>1, <2>3 DEF Wanted
<1>3. Mcp!Cardinality({c \in Conns : v2[c].state \in {"opening", "open"}}) <= 1
  <2> PICK live : live = {c \in Conns : v2[c].state \in {"opening", "open"}}
    OBVIOUS
  <2>1. live = {} \/ live = {v4}
    BY <1>0 DEF Wired, OneShared, Alive
  <2>2. Cardinality({}) = 0 /\ Cardinality({v4}) = 1
    BY FS_EmptySet, FS_Singleton
  <2>3. Cardinality(live) <= 1
    <3>1. CASE live = {}
      BY ONLY <2>2, <3>1
    <3>2. CASE live = {v4}
      BY ONLY <2>2, <3>2
    <3> QED  BY ONLY <2>1, <3>1, <3>2
  <2> QED  BY <2>3 DEF Mcp!Cardinality, Cardinality
<1>4. v3 # NoConn => v2[v3].state = "open" /\ v4 = v3
  BY <1>0 DEF Wired, OneShared, Alive
<1>5. Mcp!ReferencesExact
  BY ONLY <1>2 DEF Mcp!ReferencesExact
<1>6. Mcp!OneConnection
  BY ONLY <1>1, <1>3, <1>4 DEF Mcp!OneConnection
<1> QED  BY <1>5, <1>6

-----------------------------------------------------------------------------
(* The conversation pane.  While the question is held, a scroll event that *)
(* is queued is of the pane's own alignment or of the reader.              *)

ScrollType ==
  [pane : BOOLEAN, question : Nat, anchored : BOOLEAN, dragging : BOOLEAN, captured : BOOLEAN,
   at : {"question", "reader", "end", "moved"}, own : BOOLEAN, event : BOOLEAN, byReader : BOOLEAN]

Expected(s) == s.anchored /\ s.event => s.own \/ s.byReader

ScrollInv == v1 \in ScrollType /\ Expected(v1)

LEMMA DetachedShape == Scroll!Detached \in ScrollType /\ ~Scroll!Detached.event /\ Scroll!Detached.anchored
BY DEF Scroll!Detached, ScrollType

LEMMA ScrollStart == Scroll!ScrollInit => ScrollInv
BY DetachedShape DEF Scroll!ScrollInit, ScrollInv, Expected

LEMMA Moves ==
  ASSUME NEW s \in ScrollType, NEW place \in {"question", "reader", "end", "moved"}
  PROVE  LET t == Scroll!MovedTo(s, place)
         IN t \in ScrollType /\ t.own /\ t.anchored = s.anchored /\ t.byReader = s.byReader
<1> PICK event \in BOOLEAN : event <=> (s.event \/ s.at # place)
  OBVIOUS
<1>1. Scroll!MovedTo(s, place) = [s EXCEPT !.at = place, !.own = TRUE, !.event = event]
  <2>1. event = (s.event \/ s.at # place)
    BY DEF ScrollType
  <2> QED  BY <2>1 DEF Scroll!MovedTo, ScrollType
<1>2. [s EXCEPT !.at = place, !.own = TRUE, !.event = event] \in ScrollType
  BY DEF ScrollType
<1> QED  BY <1>1, <1>2 DEF ScrollType

LEMMA Captures ==
  ASSUME NEW s \in ScrollType
  PROVE  LET t == Scroll!captureAnchor(s)
         IN t \in ScrollType /\ t.anchored = s.anchored /\ t.byReader = s.byReader
BY DEF Scroll!captureAnchor, ScrollType

LEMMA Aligns ==
  ASSUME NEW s \in ScrollType
  PROVE  LET t == Scroll!align(s)
         IN /\ t \in ScrollType /\ t.anchored = s.anchored /\ t.byReader = s.byReader
            /\ t = s \/ ~t.anchored \/ t.own
            /\ s.pane /\ s.question # 0 => ~t.anchored \/ t.own
<1> PICK t : t = Scroll!align(s)
  OBVIOUS
<1>1. CASE ~s.pane \/ (s.anchored /\ s.question = 0)
  BY <1>1 DEF Scroll!align
<1>2. CASE s.pane /\ s.anchored /\ s.question # 0
  <2>1. t = Scroll!MovedTo(s, "question")
    BY <1>2 DEF Scroll!align
  <2> QED  BY <2>1, Moves
<1>3. CASE s.pane /\ ~s.anchored
  <2> PICK moved : moved = IF s.captured THEN Scroll!MovedTo(s, s.at) ELSE s
    OBVIOUS
  <2>1. moved \in ScrollType /\ moved.anchored = s.anchored /\ moved.byReader = s.byReader
    <3>1. s.at \in {"question", "reader", "end", "moved"}
      BY DEF ScrollType
    <3> QED  BY <3>1, Moves
  <2>2. t = Scroll!captureAnchor(moved)
    BY <1>3 DEF Scroll!align
  <2> QED  BY <1>3, <2>1, <2>2, Captures
<1> QED  BY <1>1, <1>2, <1>3

LEMMA ScrollKept ==
  ASSUME ScrollInv, Scroll!ScrollNext
  PROVE  ScrollInv' /\ Scroll!OnlyReaderReleases
<1>0. v1 \in ScrollType /\ Expected(v1)
  BY DEF ScrollInv
<1>1. CASE Scroll!scrollRef
  <2>1. PICK there \in BOOLEAN : v1' = Scroll!align([Scroll!Detached EXCEPT !.pane = there, !.question = v1.question])
    BY <1>1 DEF Scroll!scrollRef
  <2> PICK s : s = [Scroll!Detached EXCEPT !.pane = there, !.question = v1.question]
    OBVIOUS
  <2>2. s \in ScrollType /\ s.anchored /\ ~s.event
    BY <1>0 DEF Scroll!Detached, ScrollType
  <2>3. v1' \in ScrollType /\ v1'.anchored /\ (v1' = s \/ v1'.own)
    BY <2>1, <2>2, Aligns
  <2> QED  BY <2>2, <2>3 DEF ScrollInv, Expected, Scroll!OnlyReaderReleases
<1>2. CASE Scroll!Render
  <2>1. PICK q \in {v1.question, v1.question + 1} :
          /\ v1.pane
          /\ v1' = Scroll!align(IF q = v1.question THEN v1
                     ELSE [v1 EXCEPT !.question = q, !.anchored = TRUE, !.captured = FALSE])
    BY <1>2 DEF Scroll!Render
  <2>2. CASE q = v1.question
    <3>1. v1' = Scroll!align(v1)
      BY <2>1, <2>2
    <3>2. v1' \in ScrollType /\ v1'.anchored = v1.anchored /\ (v1' = v1 \/ ~v1'.anchored \/ v1'.own)
      BY <1>0, <3>1, Aligns
    <3> QED  BY <1>0, <3>2 DEF ScrollInv, Expected, Scroll!OnlyReaderReleases
  <2>3. CASE q # v1.question
    <3> PICK s : s = [v1 EXCEPT !.question = q, !.anchored = TRUE, !.captured = FALSE]
      OBVIOUS
    <3>0. q \in Nat /\ q # 0
      <4>1. v1.question \in Nat
        BY <1>0 DEF ScrollType
      <4> QED  BY ONLY <2>1, <2>3, <4>1
    <3>1. s \in ScrollType /\ s.anchored /\ s.question # 0 /\ s.pane
      BY ONLY <1>0, <2>1, <3>0, s = [v1 EXCEPT !.question = q, !.anchored = TRUE, !.captured = FALSE]
         DEF ScrollType
    <3>2. v1' = Scroll!align(s)
      BY <2>1, <2>3
    <3>3. v1' \in ScrollType /\ v1'.anchored /\ v1'.own
      BY <3>1, <3>2, Aligns
    <3> QED  BY <3>3 DEF ScrollInv, Expected, Scroll!OnlyReaderReleases
  <2> QED  BY <2>2, <2>3
<1>3. CASE Scroll!LayoutChanges
  <2>1. PICK clamped \in BOOLEAN :
          /\ v1.pane /\ v1.question # 0
          /\ v1' = Scroll!align([v1 EXCEPT !.own = @ /\ ~clamped, !.event = @ \/ clamped])
    BY <1>3 DEF Scroll!LayoutChanges
  <2> PICK s : s = [v1 EXCEPT !.own = @ /\ ~clamped, !.event = @ \/ clamped]
    OBVIOUS
  <2>2. s \in ScrollType /\ s.pane /\ s.question # 0 /\ s.anchored = v1.anchored
    BY <1>0, <2>1 DEF ScrollType
  <2>3. v1' \in ScrollType /\ v1'.anchored = v1.anchored /\ (~v1'.anchored \/ v1'.own)
    BY <2>1, <2>2, Aligns
  <2> QED  BY <2>3 DEF ScrollInv, Expected, Scroll!OnlyReaderReleases
<1>4. CASE Scroll!onScroll
  <2> PICK moved : moved = IF v1.dragging /\ ~v1.own THEN Scroll!release(v1) ELSE v1
    OBVIOUS
  <2> PICK s : s = IF moved.anchored THEN moved ELSE Scroll!captureAnchor(moved)
    OBVIOUS
  <2>1. v1.event /\ v1' = [s EXCEPT !.event = FALSE, !.byReader = FALSE]
    BY <1>4 DEF Scroll!onScroll
  <2>2. moved \in ScrollType /\ (moved.anchored = v1.anchored \/ (~v1.own /\ ~moved.anchored))
    <3> PICK loose : loose = [v1 EXCEPT !.anchored = FALSE]
      OBVIOUS
    <3>1. loose \in ScrollType /\ ~loose.anchored
      BY <1>0 DEF ScrollType
    <3>2. Scroll!release(v1) = Scroll!captureAnchor(loose)
      BY DEF Scroll!release
    <3>3. Scroll!release(v1) \in ScrollType /\ ~Scroll!release(v1).anchored
      BY <3>1, <3>2, Captures
    <3> QED  BY <1>0, <3>3
  <2>3. s \in ScrollType /\ s.anchored = moved.anchored
    BY <2>2, Captures
  <2>4. v1' \in ScrollType /\ v1'.anchored = s.anchored /\ ~v1'.event
    <3> PICK r : r = v1'
      OBVIOUS
    <3>1. r = [s EXCEPT !.event = FALSE, !.byReader = FALSE]
      BY <2>1
    <3>2. r \in ScrollType /\ r.anchored = s.anchored /\ ~r.event
      BY ONLY <2>3, <3>1 DEF ScrollType
    <3> QED  BY <3>2
  <2>5. v1.anchored /\ ~v1'.anchored => v1.byReader
    BY <1>0, <2>1, <2>2, <2>3, <2>4 DEF Expected
  <2> QED  BY <2>4, <2>5 DEF ScrollInv, Expected, Scroll!OnlyReaderReleases
<1>5. CASE Scroll!ReaderScrolls
  <2> PICK loose : loose = [v1 EXCEPT !.anchored = FALSE]
    OBVIOUS
  <2>1. loose \in ScrollType /\ ~loose.anchored
    BY <1>0 DEF ScrollType
  <2> PICK s : s = Scroll!release(v1)
    OBVIOUS
  <2>2. s \in ScrollType /\ ~s.anchored
    <3>1. s = Scroll!captureAnchor(loose)
      BY DEF Scroll!release
    <3> QED  BY <2>1, <3>1, Captures
  <2>3. v1' = [s EXCEPT !.at = "moved", !.own = FALSE, !.event = TRUE, !.byReader = TRUE]
    BY <1>5 DEF Scroll!ReaderScrolls
  <2>4. v1' \in ScrollType /\ ~v1'.anchored /\ v1'.byReader
    BY <2>2, <2>3 DEF ScrollType
  <2> QED  BY <2>4 DEF ScrollInv, Expected, Scroll!OnlyReaderReleases
<1>6. CASE Scroll!PointerDown \/ Scroll!PointerUp
  <2>1. v1' \in ScrollType /\ v1'.anchored = v1.anchored /\ v1'.event = v1.event
        /\ v1'.own = v1.own /\ v1'.byReader = v1.byReader
    BY <1>0, <1>6 DEF Scroll!PointerDown, Scroll!PointerUp, ScrollType
  <2> QED  BY <1>0, <2>1 DEF ScrollInv, Expected, Scroll!OnlyReaderReleases
<1>7. CASE Scroll!DragScrolls
  <2>1. v1' \in ScrollType /\ v1'.anchored = v1.anchored /\ v1'.byReader
    BY <1>0, <1>7 DEF Scroll!DragScrolls, ScrollType
  <2> QED  BY <2>1 DEF ScrollInv, Expected, Scroll!OnlyReaderReleases
<1>8. CASE Scroll!jumpToLatest
  <2> PICK s : s = Scroll!MovedTo(v1, "end")
    OBVIOUS
  <2> PICK t : t = [s EXCEPT !.anchored = FALSE]
    OBVIOUS
  <2>1. s \in ScrollType
    BY <1>0, Moves
  <2>2. t \in ScrollType /\ ~t.anchored
    BY <2>1 DEF ScrollType
  <2>3. v1' = Scroll!captureAnchor(t)
    BY <1>8 DEF Scroll!jumpToLatest
  <2>4. v1' \in ScrollType /\ ~v1'.anchored
    BY <2>2, <2>3, Captures
  <2> QED  BY <1>8, <2>4 DEF ScrollInv, Expected, Scroll!OnlyReaderReleases
<1> QED  BY <1>1, <1>2, <1>3, <1>4, <1>5, <1>6, <1>7, <1>8 DEF Scroll!ScrollNext

-----------------------------------------------------------------------------
(* The panels of an answer.  No query is newer than the fragment's; the    *)
(* one that is as new asks for what the filters and the time say.          *)

IsFragment(f) ==
  /\ f = [of |-> f.of, shown |-> f.shown, vars |-> f.vars, time |-> f.time, rendered |-> f.rendered,
          brush |-> f.brush, pending |-> f.pending, stale |-> f.stale, target |-> f.target,
          generation |-> f.generation, calls |-> f.calls]
  /\ f.generation \in Nat

Latest(f) ==
  /\ \A call \in f.calls :
       /\ call = [generation |-> call.generation, asked |-> call.asked]
       /\ call.generation \in Nat /\ call.generation <= f.generation
       /\ call.generation = f.generation => call.asked = Fragment!Asked(f)
  /\ f.pending = TRUE <=> \E call \in f.calls : call.generation = f.generation
  /\ f.pending = TRUE => f.stale = TRUE
  /\ f.shown # Fragment!Asked(f) => f.stale = TRUE

\* What a query leaves alone.
Alike(f, g) ==
  /\ g.of = f.of /\ g.vars = f.vars /\ g.time = f.time /\ g.shown = f.shown
  /\ g.pending = f.pending /\ g.stale = f.stale /\ g.generation = f.generation /\ g.calls = f.calls

LEMMA AlikeLatest ==
  ASSUME NEW f, NEW g, Latest(f), Alike(f, g)
  PROVE  Latest(g)
<1>1. Fragment!Asked(g) = Fragment!Asked(f)
  BY DEF Alike, Fragment!Asked
<1> QED  BY <1>1 DEF Alike, Latest

LEMMA ReceivedShape ==
  ASSUME NEW of, NEW generation \in Nat, NEW calls, NEW f, f = Fragment!Received(of, generation, calls),
         \A call \in calls : /\ call = [generation |-> call.generation, asked |-> call.asked]
                             /\ call.generation \in Nat /\ call.generation < generation
  PROVE  IsFragment(f) /\ Latest(f) /\ f.of = of
<1> PICK choice, brush, no, shown :
      /\ choice = Fragment!FirstFilter /\ brush = Fragment!Unzoomed /\ no = FALSE
      /\ shown = [of |-> of, vars |-> choice, time |-> "own"]
  OBVIOUS
<1>1. f = [of |-> of, shown |-> shown, vars |-> choice, time |-> "own", rendered |-> "own",
           brush |-> brush, pending |-> no, stale |-> no, target |-> NoPanel,
           generation |-> generation, calls |-> calls]
  BY DEF Fragment!Received
<1>2. /\ f = [of |-> f.of, shown |-> f.shown, vars |-> f.vars, time |-> f.time, rendered |-> f.rendered,
              brush |-> f.brush, pending |-> f.pending, stale |-> f.stale, target |-> f.target,
              generation |-> f.generation, calls |-> f.calls]
      /\ f.of = of /\ f.vars = choice /\ f.time = "own" /\ f.shown = shown /\ f.pending = no
      /\ f.generation = generation /\ f.calls = calls
  BY ONLY <1>1
<1>3. Fragment!Asked(f) = f.shown
  BY <1>2 DEF Fragment!Asked
<1>4. \A call \in calls : call.generation # generation
  OBVIOUS
<1> QED  BY <1>2, <1>3, <1>4 DEF IsFragment, Latest

LEMMA QueryMade ==
  ASSUME NEW f, IsFragment(f), Latest(f), NEW choice, NEW time, NEW q, q = Fragment!query(f, choice, time)
  PROVE  IsFragment(q) /\ Latest(q) /\ q.generation = f.generation + 1
<1> PICK generation, yes : generation = f.generation + 1 /\ yes = TRUE
  OBVIOUS
<1> PICK next : next = [f EXCEPT !.vars = choice, !.time = time, !.target = NoPanel,
                                 !.pending = yes, !.stale = yes, !.generation = generation]
  OBVIOUS
<1> PICK call : call = [generation |-> next.generation, asked |-> Fragment!Asked(next)]
  OBVIOUS
<1> PICK calls : calls = next.calls \cup {call}
  OBVIOUS
<1>1. q = [next EXCEPT !.calls = calls]
  <2>1. next = [f EXCEPT !.vars = choice, !.time = time, !.target = NoPanel,
                         !.pending = TRUE, !.stale = TRUE, !.generation = @ + 1]
    OBVIOUS
  <2> QED  BY <2>1 DEF Fragment!query
<1>2. next = [of |-> f.of, shown |-> f.shown, vars |-> choice, time |-> time, rendered |-> f.rendered,
              brush |-> f.brush, pending |-> yes, stale |-> yes, target |-> NoPanel,
              generation |-> generation, calls |-> f.calls]
  BY ONLY IsFragment(f), next = [f EXCEPT !.vars = choice, !.time = time, !.target = NoPanel,
                                 !.pending = yes, !.stale = yes, !.generation = generation] DEF IsFragment
<1>3. q = [of |-> f.of, shown |-> f.shown, vars |-> choice, time |-> time, rendered |-> f.rendered,
           brush |-> f.brush, pending |-> yes, stale |-> yes, target |-> NoPanel,
           generation |-> generation, calls |-> calls]
  BY ONLY <1>1, <1>2
<1>4. /\ q = [of |-> q.of, shown |-> q.shown, vars |-> q.vars, time |-> q.time, rendered |-> q.rendered,
              brush |-> q.brush, pending |-> q.pending, stale |-> q.stale, target |-> q.target,
              generation |-> q.generation, calls |-> q.calls]
      /\ q.of = f.of /\ q.vars = choice /\ q.time = time /\ q.pending = yes /\ q.stale = yes
      /\ q.generation = generation /\ q.calls = calls
  BY ONLY <1>3
<1>5. next.of = f.of /\ next.vars = choice /\ next.time = time /\ next.generation = generation
      /\ next.calls = f.calls
  BY ONLY <1>2
<1>6. Fragment!Asked(next) = Fragment!Asked(q)
  BY <1>4, <1>5 DEF Fragment!Asked
<1> PICK asked : asked = Fragment!Asked(q)
  OBVIOUS
<1>7. call = [generation |-> generation, asked |-> asked]
  BY <1>5, <1>6
<1>8. generation \in Nat /\ generation > f.generation /\ f.generation \in Nat
  BY DEF IsFragment
<1>9. \A c \in calls :
        /\ c = [generation |-> c.generation, asked |-> c.asked]
        /\ c.generation \in Nat /\ c.generation <= generation
        /\ c.generation = generation => c.asked = asked
  <2>1. \A c \in f.calls : c = [generation |-> c.generation, asked |-> c.asked]
                           /\ c.generation \in Nat /\ c.generation <= f.generation
    BY DEF Latest
  <2>2. call.generation = generation /\ call.asked = asked
        /\ call = [generation |-> call.generation, asked |-> call.asked]
    BY ONLY <1>7
  <2> QED  BY <1>5, <1>8, <2>1, <2>2
<1>10. call \in calls /\ call.generation = generation
  BY <1>7
<1>11. Latest(q)
  BY <1>4, <1>9, <1>10 DEF Latest
<1> QED  BY <1>4, <1>8, <1>11 DEF IsFragment

LEMMA AnswerTaken ==
  ASSUME NEW f, IsFragment(f), Latest(f), f = v1, NEW call \in f.calls, NEW ok \in BOOLEAN,
         Fragment!Answer(call, ok)
  PROVE  IsFragment(v1') /\ Latest(v1') /\ v1'.generation = f.generation
<1> PICK calls, d, no : calls = f.calls \ {call} /\ d = Fragment!Dropped(call) /\ no = FALSE
  OBVIOUS
<1> PICK g : g = v1'
  OBVIOUS
<1>1. d = [of |-> f.of, shown |-> f.shown, vars |-> f.vars, time |-> f.time, rendered |-> f.rendered,
           brush |-> f.brush, pending |-> f.pending, stale |-> f.stale, target |-> f.target,
           generation |-> f.generation, calls |-> calls]
  <2>1. d = [f EXCEPT !.calls = calls]
    BY DEF Fragment!Dropped
  <2> QED  BY ONLY <2>1, IsFragment(f) DEF IsFragment
<1>2. /\ d = [of |-> d.of, shown |-> d.shown, vars |-> d.vars, time |-> d.time, rendered |-> d.rendered,
              brush |-> d.brush, pending |-> d.pending, stale |-> d.stale, target |-> d.target,
              generation |-> d.generation, calls |-> d.calls]
      /\ d.of = f.of /\ d.vars = f.vars /\ d.time = f.time /\ d.shown = f.shown
      /\ d.pending = f.pending /\ d.stale = f.stale /\ d.generation = f.generation /\ d.calls = calls
  BY ONLY <1>1
<1>3. g = IF call.generation # f.generation THEN d
          ELSE IF ok THEN [d EXCEPT !.shown = call.asked, !.stale = no, !.pending = no]
          ELSE [d EXCEPT !.pending = no]
  BY DEF Fragment!Answer
<1>a. f.generation \in Nat
  BY DEF IsFragment
<1>4. CASE call.generation # f.generation
  <2>1. g = d
    BY <1>3, <1>4
  <2>2. Fragment!Asked(d) = Fragment!Asked(f)
    BY <1>2 DEF Fragment!Asked
  <2>3. (\E c \in f.calls : c.generation = f.generation) <=> \E c \in calls : c.generation = f.generation
    BY <1>4
  <2>4. Latest(d)
    BY <1>2, <2>2, <2>3 DEF Latest
  <2> QED  BY <1>2, <1>a, <2>1, <2>4 DEF IsFragment
<1>5. CASE call.generation = f.generation
  <2>1. \A c \in calls : c.generation # f.generation
    <3>1. ASSUME NEW c \in calls, c.generation = f.generation  PROVE FALSE
      <4>1. c = [generation |-> c.generation, asked |-> c.asked] /\ c.asked = Fragment!Asked(f)
            /\ call = [generation |-> call.generation, asked |-> call.asked] /\ call.asked = Fragment!Asked(f)
        BY <1>5, <3>1 DEF Latest
      <4>2. c = call
        BY <1>5, <3>1, <4>1
      <4> QED  BY <3>1, <4>2
    <3> QED  BY <3>1
  <2>2. \A c \in calls : /\ c = [generation |-> c.generation, asked |-> c.asked]
                         /\ c.generation \in Nat /\ c.generation <= f.generation
    BY DEF Latest
  <2>3. call.asked = Fragment!Asked(f)
    BY <1>5 DEF Latest
  <2> PICK asked : asked = call.asked
    OBVIOUS
  <2>4. CASE ok
    <3>1. g = [d EXCEPT !.shown = asked, !.stale = no, !.pending = no]
      BY <1>3, <1>5, <2>4
    <3>2. g = [of |-> f.of, shown |-> asked, vars |-> f.vars, time |-> f.time, rendered |-> f.rendered,
               brush |-> f.brush, pending |-> no, stale |-> no, target |-> f.target,
               generation |-> f.generation, calls |-> calls]
      BY ONLY <1>1, <3>1
    <3>3. /\ g = [of |-> g.of, shown |-> g.shown, vars |-> g.vars, time |-> g.time, rendered |-> g.rendered,
                  brush |-> g.brush, pending |-> g.pending, stale |-> g.stale, target |-> g.target,
                  generation |-> g.generation, calls |-> g.calls]
          /\ g.of = f.of /\ g.vars = f.vars /\ g.time = f.time /\ g.shown = asked
          /\ g.pending = no /\ g.stale = no /\ g.generation = f.generation /\ g.calls = calls
      BY ONLY <3>2
    <3>4. Fragment!Asked(g) = g.shown
      BY <2>3, <3>3 DEF Fragment!Asked
    <3>5. Latest(g)
      BY <2>1, <2>2, <3>3, <3>4 DEF Latest
    <3> QED  BY <1>a, <3>3, <3>5 DEF IsFragment
  <2>5. CASE ~ok
    <3>1. g = [d EXCEPT !.pending = no]
      BY <1>3, <1>5, <2>5
    <3>2. g = [of |-> f.of, shown |-> f.shown, vars |-> f.vars, time |-> f.time, rendered |-> f.rendered,
               brush |-> f.brush, pending |-> no, stale |-> f.stale, target |-> f.target,
               generation |-> f.generation, calls |-> calls]
      BY ONLY <1>1, <3>1
    <3>3. /\ g = [of |-> g.of, shown |-> g.shown, vars |-> g.vars, time |-> g.time, rendered |-> g.rendered,
                  brush |-> g.brush, pending |-> g.pending, stale |-> g.stale, target |-> g.target,
                  generation |-> g.generation, calls |-> g.calls]
          /\ g.of = f.of /\ g.vars = f.vars /\ g.time = f.time /\ g.shown = f.shown
          /\ g.pending = no /\ g.stale = f.stale /\ g.generation = f.generation /\ g.calls = calls
      BY ONLY <3>2
    <3>4. Fragment!Asked(g) = Fragment!Asked(f)
      BY <3>3 DEF Fragment!Asked
    <3>5. Latest(g)
      BY <2>1, <2>2, <3>3, <3>4 DEF Latest
    <3> QED  BY <1>a, <3>3, <3>5 DEF IsFragment
  <2> QED  BY <2>4, <2>5
<1> QED  BY <1>4, <1>5

\* A step of the view that asks for nothing.
LEMMA Overwritten ==
  ASSUME NEW f, IsFragment(f), Latest(f), NEW rendered, NEW brush, NEW target, NEW g,
         g = [of |-> f.of, shown |-> f.shown, vars |-> f.vars, time |-> f.time, rendered |-> rendered,
              brush |-> brush, pending |-> f.pending, stale |-> f.stale, target |-> target,
              generation |-> f.generation, calls |-> f.calls]
  PROVE  IsFragment(g) /\ Latest(g) /\ g.of = f.of /\ g.generation = f.generation
<1>1. /\ g = [of |-> g.of, shown |-> g.shown, vars |-> g.vars, time |-> g.time, rendered |-> g.rendered,
              brush |-> g.brush, pending |-> g.pending, stale |-> g.stale, target |-> g.target,
              generation |-> g.generation, calls |-> g.calls]
      /\ g.of = f.of /\ g.vars = f.vars /\ g.time = f.time /\ g.shown = f.shown
      /\ g.pending = f.pending /\ g.stale = f.stale /\ g.generation = f.generation /\ g.calls = f.calls
  OBVIOUS
<1>2. IsFragment(g)
  BY <1>1 DEF IsFragment
<1>3. Alike(f, g)
  BY ONLY <1>1 DEF Alike
<1> QED  BY <1>1, <1>2, <1>3, AlikeLatest

LEMMA Brushes ==
  ASSUME NEW f, IsFragment(f), Latest(f), NEW brush, NEW g, g = [f EXCEPT !.brush = brush]
  PROVE  IsFragment(g) /\ Latest(g) /\ g.of = f.of /\ g.generation = f.generation
<1>1. g = [of |-> f.of, shown |-> f.shown, vars |-> f.vars, time |-> f.time, rendered |-> f.rendered,
           brush |-> brush, pending |-> f.pending, stale |-> f.stale, target |-> f.target,
           generation |-> f.generation, calls |-> f.calls]
  BY DEF IsFragment
<1> PICK rendered, target : rendered = f.rendered /\ target = f.target
  OBVIOUS
<1>2. g = [of |-> f.of, shown |-> f.shown, vars |-> f.vars, time |-> f.time, rendered |-> rendered,
           brush |-> brush, pending |-> f.pending, stale |-> f.stale, target |-> target,
           generation |-> f.generation, calls |-> f.calls]
  BY <1>1
<1> QED  BY ONLY <1>2, IsFragment(f), Latest(f), Overwritten

LEMMA Targets ==
  ASSUME NEW f, IsFragment(f), Latest(f), NEW target, NEW g, g = [f EXCEPT !.target = target]
  PROVE  IsFragment(g) /\ Latest(g) /\ g.of = f.of /\ g.generation = f.generation
<1>1. g = [of |-> f.of, shown |-> f.shown, vars |-> f.vars, time |-> f.time, rendered |-> f.rendered,
           brush |-> f.brush, pending |-> f.pending, stale |-> f.stale, target |-> target,
           generation |-> f.generation, calls |-> f.calls]
  BY DEF IsFragment
<1> PICK rendered, brush : rendered = f.rendered /\ brush = f.brush
  OBVIOUS
<1>2. g = [of |-> f.of, shown |-> f.shown, vars |-> f.vars, time |-> f.time, rendered |-> rendered,
           brush |-> brush, pending |-> f.pending, stale |-> f.stale, target |-> target,
           generation |-> f.generation, calls |-> f.calls]
  BY <1>1
<1> QED  BY ONLY <1>2, IsFragment(f), Latest(f), Overwritten

LEMMA FragmentStart == Fragment!FragmentInit => IsFragment(v1) /\ Latest(v1)
<1> SUFFICES ASSUME Fragment!FragmentInit  PROVE IsFragment(v1) /\ Latest(v1)
  OBVIOUS
<1>1. PICK of \in Fragments : v1 = Fragment!Received(of, 0, {})
  BY DEF Fragment!FragmentInit
<1> PICK calls, zero : calls = {} /\ zero = 0
  OBVIOUS
<1>2. zero \in Nat /\ v1 = Fragment!Received(of, zero, calls) /\ \A call \in calls : FALSE
  BY <1>1
<1> QED  BY <1>2, ReceivedShape

LEMMA FragmentKept ==
  ASSUME IsFragment(v1), Latest(v1), Fragment!FragmentNext
  PROVE  IsFragment(v1') /\ Latest(v1') /\ Fragment!OneQueryPerBrush
<1> SUFFICES /\ IsFragment(v1') /\ Latest(v1')
             /\ ~Fragment!Settled /\ v1'.of = v1.of => v1'.generation = v1.generation
  BY DEF Fragment!OneQueryPerBrush
<1> PICK g, f : g = v1' /\ f = v1
  OBVIOUS
<1>0. IsFragment(f) /\ Latest(f) /\ f.generation \in Nat
  BY DEF IsFragment
<1>1. CASE Fragment!Render
  <2> PICK rendered, brush, target :
        rendered = f.time /\ brush = Fragment!Rendered(f.brush, f.rendered, f.time) /\ target = f.target
    OBVIOUS
  <2>1. g = [f EXCEPT !.rendered = rendered, !.brush = brush]
    <3>1. g = [v1 EXCEPT !.rendered = v1.time, !.brush = Fragment!Rendered(@, v1.rendered, v1.time)]
      BY <1>1 DEF Fragment!Render
    <3>2. [f EXCEPT !.rendered = rendered].brush = f.brush
      BY <1>0 DEF IsFragment
    <3> QED  BY <3>1, <3>2
  <2>2. g = [of |-> f.of, shown |-> f.shown, vars |-> f.vars, time |-> f.time, rendered |-> rendered,
             brush |-> brush, pending |-> f.pending, stale |-> f.stale, target |-> target,
             generation |-> f.generation, calls |-> f.calls]
    BY <1>0, <2>1 DEF IsFragment
  <2>3. IsFragment(g) /\ Latest(g) /\ g.generation = f.generation
    BY ONLY <1>0, <2>2, Overwritten
  <2> QED  BY <2>3
<1>2. ASSUME NEW of \in Fragments, Fragment!receive(of)
      PROVE  IsFragment(g) /\ Latest(g) /\ g.of # f.of
  <2> PICK generation, calls : generation = f.generation + 1 /\ calls = f.calls
    OBVIOUS
  <2>1. of # f.of /\ g = Fragment!Received(of, generation, calls)
    BY <1>2 DEF Fragment!receive
  <2>2. generation \in Nat
    BY <1>0
  <2>3. \A call \in calls : /\ call = [generation |-> call.generation, asked |-> call.asked]
                            /\ call.generation \in Nat /\ call.generation < generation
    BY <1>0 DEF Latest
  <2> QED  BY <2>1, <2>2, <2>3, ReceivedShape
<1>3. ASSUME NEW choice, Fragment!setVariable(choice)
      PROVE  IsFragment(g) /\ Latest(g) /\ Fragment!Settled
  <2> PICK time : time = f.time
    OBVIOUS
  <2>1. g = Fragment!query(f, choice, time) /\ Fragment!Settled
    BY <1>3 DEF Fragment!setVariable
  <2> QED  BY <1>0, <2>1, QueryMade
<1>4. ASSUME NEW span, Fragment!zoom(span)
      PROVE  IsFragment(g) /\ Latest(g) /\ Fragment!Settled
  <2> PICK choice, brush : choice = f.vars /\ brush = Fragment!Zoomed(f.brush, f.rendered, span)
    OBVIOUS
  <2> PICK q : q = Fragment!query(f, choice, span)
    OBVIOUS
  <2>1. IsFragment(q) /\ Latest(q) /\ q.brush = f.brush
    <3>1. IsFragment(q) /\ Latest(q)
      BY <1>0, QueryMade
    <3>2. q.brush = f.brush
      <4> PICK next : next = [f EXCEPT !.vars = choice, !.time = span, !.target = NoPanel,
                                       !.pending = TRUE, !.stale = TRUE, !.generation = @ + 1]
        OBVIOUS
      <4>1. next.brush = f.brush
        BY <1>0 DEF IsFragment
      <4>2. \E calls : q = [next EXCEPT !.calls = calls]
        BY DEF Fragment!query
      <4>3. DOMAIN next = DOMAIN f /\ "brush" \in DOMAIN f
        BY <1>0 DEF IsFragment
      <4> QED  BY <4>1, <4>2, <4>3
    <3> QED  BY <3>1, <3>2
  <2>2. g = [q EXCEPT !.brush = brush]
    <3>1. g = [q EXCEPT !.brush = Fragment!Zoomed(@, f.rendered, span)]
      BY <1>4 DEF Fragment!zoom
    <3> QED  BY <2>1, <3>1
  <2>3. IsFragment(g) /\ Latest(g)
    BY ONLY <2>1, <2>2, Brushes
  <2>4. Fragment!Settled
    BY <1>4 DEF Fragment!zoom, Fragment!Zooms
  <2> QED  BY <2>3, <2>4
<1>5. ASSUME Fragment!resetZoom
      PROVE  IsFragment(g) /\ Latest(g) /\ Fragment!Settled
  <2> PICK choice, brush : choice = f.vars /\ brush = Fragment!Unzoomed
    OBVIOUS
  <2>1. PICK time : g = [Fragment!query(f, choice, time) EXCEPT !.brush = brush] /\ Fragment!Settled
    BY <1>5 DEF Fragment!resetZoom
  <2> PICK q : q = Fragment!query(f, choice, time)
    OBVIOUS
  <2>2. IsFragment(q) /\ Latest(q)
    BY <1>0, QueryMade
  <2>3. g = [q EXCEPT !.brush = brush]
    BY <2>1
  <2>4. IsFragment(g) /\ Latest(g)
    BY ONLY <2>2, <2>3, Brushes
  <2> QED  BY <2>1, <2>4
<1>6. ASSUME NEW panel, NEW choice, Fragment!point(panel, choice)
      PROVE  IsFragment(g) /\ Latest(g) /\ Fragment!Settled
  <2> PICK time, q : time = f.time /\ q = IF choice = f.vars THEN f ELSE Fragment!query(f, choice, time)
    OBVIOUS
  <2>1. IsFragment(q) /\ Latest(q)
    <3> PICK r : r = Fragment!query(f, choice, time)
      OBVIOUS
    <3>1. IsFragment(r) /\ Latest(r)
      BY <1>0, QueryMade
    <3> QED  BY <1>0, <3>1
  <2>2. g = [q EXCEPT !.target = panel] /\ Fragment!Settled
    BY <1>6 DEF Fragment!point
  <2>3. IsFragment(g) /\ Latest(g)
    BY ONLY <2>1, <2>2, Targets
  <2> QED  BY <2>2, <2>3
<1>7. ASSUME Fragment!closeDrill
      PROVE  IsFragment(g) /\ Latest(g) /\ g.generation = f.generation
  <2>1. g = [f EXCEPT !.target = NoPanel]
    BY <1>7 DEF Fragment!closeDrill
  <2> PICK none : none = NoPanel
    OBVIOUS
  <2>2. g = [f EXCEPT !.target = none]
    BY <2>1
  <2> QED  BY ONLY <1>0, <2>2, Targets
<1>8. ASSUME NEW call \in f.calls, NEW ok \in BOOLEAN, Fragment!Answer(call, ok)
      PROVE  IsFragment(g) /\ Latest(g) /\ g.generation = f.generation
  BY <1>0, <1>8, AnswerTaken
<1>9. ASSUME Fragment!closeView \/ Fragment!requestDisplayMode \/ Fragment!hostCloses \/ Fragment!hear
             \/ \E panel \in Alone : Fragment!openView(panel)
      PROVE  g = f
  BY <1>9 DEF Fragment!closeView, Fragment!requestDisplayMode, Fragment!hostCloses, Fragment!hear, Fragment!openView
<1>10. \/ Fragment!Render \/ Fragment!resetZoom \/ Fragment!closeDrill
       \/ Fragment!closeView \/ Fragment!requestDisplayMode \/ Fragment!hostCloses \/ Fragment!hear
       \/ \E panel \in Alone : Fragment!openView(panel)
       \/ \E of \in Fragments : Fragment!receive(of)
       \/ \E choice \in Choices : Fragment!setVariable(choice)
       \/ \E span \in Brushed : Fragment!zoom(span)
       \/ \E panel \in Alone : \E choice \in Choices : Fragment!point(panel, choice)
       \/ \E call \in f.calls, ok \in BOOLEAN : Fragment!Answer(call, ok)
  BY DEF Fragment!FragmentNext
<1> QED  BY <1>0, <1>1, <1>2, <1>3, <1>4, <1>5, <1>6, <1>7, <1>8, <1>9, <1>10

\* The whole screen.  A message that says "fullscreen" is the newest, or one that
\* says "inline" is behind it; a panel is only put alone on the whole screen.
Modes == {"fullscreen", "inline"}
Messages == [kind : {"mode", "answer"}, mode : Modes, panel : Alone \cup {NoPanel}]
Requests == [mode : Modes, panel : Alone \cup {NoPanel}]

Full(m) == m.kind = "mode" /\ m.mode = "fullscreen"
Inline(m) == m.kind = "mode" /\ m.mode = "inline"
Opens(m) == m.kind = "answer" /\ m.mode = "fullscreen"

IsScreen(s) ==
  /\ s = [view |-> s.view, seen |-> s.seen, host |-> s.host, toHost |-> s.toHost, toView |-> s.toView]
  /\ s.seen \in Modes /\ s.host \in Modes /\ s.toHost \in Seq(Requests) /\ s.toView \in Seq(Messages)

\* The host is back in the chat: the view knows, or is about to hear.
Closing(s) ==
  \/ s.seen = "inline" /\ \A i \in 1 .. Len(s.toView) : ~Full(s.toView[i])
  \/ \E j \in 1 .. Len(s.toView) :
       Inline(s.toView[j]) /\ \A i \in 1 .. Len(s.toView) : i > j => ~Full(s.toView[i])

ScreenOk(s) ==
  /\ IsScreen(s)
  /\ s.view # NoPanel => s.seen = "fullscreen"
  /\ \A i \in 1 .. Len(s.toView) : Opens(s.toView[i]) =>
       IF i = 1 THEN s.seen = "fullscreen" ELSE Full(s.toView[i - 1])
  /\ s.host = "inline" => Closing(s)

\* One message more, that does not say "fullscreen".
LEMMA Tells ==
  ASSUME NEW s, ScreenOk(s), NEW m, m = [kind |-> "mode", mode |-> "inline", panel |-> NoPanel],
         NEW t, IsScreen(t), t.view = s.view, t.seen = s.seen, t.toView = Append(s.toView, m)
  PROVE  ScreenOk(t)
<1>1. s.toView \in Seq(Messages) /\ Len(s.toView) \in Nat
  BY LenProperties DEF ScreenOk, IsScreen
<1> PICK n, q, r : n = Len(s.toView) /\ q = s.toView /\ r = t.toView
  OBVIOUS
<1>2. n \in Nat /\ Len(r) = n + 1 /\ r[n + 1] = m /\ \A i \in 1 .. n : r[i] = q[i]
  BY <1>1, AppendProperties DEF Messages, Modes
<1>3. Inline(m) /\ ~Opens(m) /\ ~Full(m)
  BY DEF Inline, Opens, Full
<1>4. \A i \in 1 .. n : Opens(q[i]) => IF i = 1 THEN s.seen = "fullscreen" ELSE Full(q[i - 1])
  BY DEF ScreenOk
<1>5. ASSUME NEW i \in 1 .. n + 1, Opens(r[i])
      PROVE  IF i = 1 THEN s.seen = "fullscreen" ELSE Full(r[i - 1])
  <2>1. i \in 1 .. n
    BY <1>2, <1>3, <1>5
  <2>2. Opens(q[i])
    BY <1>2, <1>5, <2>1
  <2>3. i # 1 => i - 1 \in 1 .. n /\ r[i - 1] = q[i - 1]
    BY <1>2, <2>1
  <2> QED  BY ONLY <1>4, <2>1, <2>2, <2>3
<1>6. Closing(t)
  <2>1. n + 1 \in 1 .. Len(r) /\ Inline(r[n + 1]) /\ \A i \in 1 .. Len(r) : ~(i > n + 1)
    BY <1>2, <1>3
  <2> QED  BY <2>1 DEF Closing
<1> QED  BY <1>2, <1>5, <1>6 DEF ScreenOk

LEMMA ScreenKept ==
  ASSUME ScreenOk(v2), Fragment!FragmentNext
  PROVE  ScreenOk(v2')
<1> PICK s, t : s = v2 /\ t = v2'
  OBVIOUS
<1>0. /\ s = [view |-> s.view, seen |-> s.seen, host |-> s.host, toHost |-> s.toHost, toView |-> s.toView]
      /\ s.seen \in Modes /\ s.host \in Modes /\ s.toHost \in Seq(Requests) /\ s.toView \in Seq(Messages)
      /\ ScreenOk(s)
  BY DEF ScreenOk, IsScreen
<1> PICK n, q : n = Len(s.toView) /\ q = s.toView
  OBVIOUS
<1>a. n \in Nat /\ \A i \in 1 .. n : q[i] \in Messages
  BY <1>0, LenProperties, ElementOfSeq
<1>b. \A i \in 1 .. n : Opens(q[i]) => IF i = 1 THEN s.seen = "fullscreen" ELSE Full(q[i - 1])
  BY <1>0 DEF ScreenOk
<1>1. ASSUME NEW of \in Fragments, Fragment!receive(of)  PROVE ScreenOk(t)
  <2>1. t = [s EXCEPT !.view = NoPanel]
    BY <1>1 DEF Fragment!receive
  <2>2. /\ t = [view |-> t.view, seen |-> t.seen, host |-> t.host, toHost |-> t.toHost, toView |-> t.toView]
        /\ t.view = NoPanel /\ t.seen = s.seen /\ t.host = s.host /\ t.toHost = s.toHost /\ t.toView = s.toView
    BY ONLY <1>0, <2>1
  <2> QED  BY <1>0, <2>2 DEF ScreenOk, IsScreen, Closing
<1>2. ASSUME NEW panel \in Alone, Fragment!openView(panel)  PROVE ScreenOk(t)
  <2> PICK toHost, m : m = [mode |-> "fullscreen", panel |-> panel] /\ toHost = Append(s.toHost, m)
    OBVIOUS
  <2>1. m \in Requests
    BY DEF Requests, Modes
  <2>2. toHost \in Seq(Requests)
    BY <1>0, <2>1, AppendProperties
  <2>3. t = [s EXCEPT !.toHost = toHost]
    BY <1>2 DEF Fragment!openView
  <2>4. /\ t = [view |-> t.view, seen |-> t.seen, host |-> t.host, toHost |-> t.toHost, toView |-> t.toView]
        /\ t.view = s.view /\ t.seen = s.seen /\ t.host = s.host /\ t.toHost = toHost /\ t.toView = s.toView
    BY ONLY <1>0, <2>3
  <2> QED  BY <1>0, <2>2, <2>4 DEF ScreenOk, IsScreen, Closing
<1>3. ASSUME Fragment!closeView  PROVE ScreenOk(t)
  <2> PICK toHost, m : m = [mode |-> "inline", panel |-> NoPanel] /\ toHost = Append(s.toHost, m)
    OBVIOUS
  <2>1. m \in Requests
    BY DEF Requests, Modes
  <2>2. toHost \in Seq(Requests)
    BY <1>0, <2>1, AppendProperties
  <2>3. t = [s EXCEPT !.view = NoPanel, !.toHost = toHost]
    <3>1. t = [s EXCEPT !.view = NoPanel, !.toHost = Append(@, m)]
      BY <1>3 DEF Fragment!closeView
    <3>2. [s EXCEPT !.view = NoPanel].toHost = s.toHost
      BY <1>0
    <3> QED  BY <3>1, <3>2
  <2>4. /\ t = [view |-> t.view, seen |-> t.seen, host |-> t.host, toHost |-> t.toHost, toView |-> t.toView]
        /\ t.view = NoPanel /\ t.seen = s.seen /\ t.host = s.host /\ t.toHost = toHost /\ t.toView = s.toView
    BY ONLY <1>0, <2>3
  <2> QED  BY <1>0, <2>2, <2>4 DEF ScreenOk, IsScreen, Closing
<1>4. ASSUME Fragment!hostCloses  PROVE ScreenOk(t)
  <2> PICK toView, m : m = [kind |-> "mode", mode |-> "inline", panel |-> NoPanel] /\ toView = Append(s.toView, m)
    OBVIOUS
  <2>1. m \in Messages
    BY DEF Messages, Modes
  <2>2. toView \in Seq(Messages)
    BY <1>0, <2>1, AppendProperties
  <2>3. t = [s EXCEPT !.host = "inline", !.toView = toView]
    <3>1. t = [s EXCEPT !.host = "inline", !.toView = Append(@, m)]
      BY <1>4 DEF Fragment!hostCloses
    <3>2. [s EXCEPT !.host = "inline"].toView = s.toView
      BY <1>0
    <3> QED  BY <3>1, <3>2
  <2>4. /\ t = [view |-> t.view, seen |-> t.seen, host |-> t.host, toHost |-> t.toHost, toView |-> t.toView]
        /\ t.view = s.view /\ t.seen = s.seen /\ t.host = "inline" /\ t.toHost = s.toHost /\ t.toView = toView
    BY ONLY <1>0, <2>3
  <2>5. IsScreen(t)
    BY <1>0, <2>2, <2>4 DEF IsScreen, Modes
  <2> QED  BY <1>0, <2>4, <2>5, Tells
<1>5. ASSUME Fragment!requestDisplayMode  PROVE ScreenOk(t)
  <2> PICK request : request = Head(s.toHost)
    OBVIOUS
  <2> PICK m, a : /\ m = [kind |-> "mode", mode |-> request.mode, panel |-> NoPanel]
                  /\ a = [kind |-> "answer", mode |-> request.mode, panel |-> request.panel]
    OBVIOUS
  <2> PICK toHost, toView : toHost = Tail(s.toHost) /\ toView = s.toView \o <<m, a>>
    OBVIOUS
  <2>1. s.toHost # <<>>
    BY <1>5 DEF Fragment!requestDisplayMode
  <2>2. request \in Requests /\ toHost \in Seq(Requests)
    BY <1>0, <2>1, HeadTailProperties
  <2>3. m \in Messages /\ a \in Messages
    BY <2>2 DEF Messages, Requests
  <2>4. /\ toView \in Seq(Messages) /\ Len(toView) = n + 2 /\ toView[n + 1] = m /\ toView[n + 2] = a
        /\ \A i \in 1 .. n : toView[i] = q[i]
    <3>1. <<m, a>> \in Seq(Messages) /\ Len(<<m, a>>) = 2 /\ <<m, a>>[1] = m /\ <<m, a>>[2] = a
      BY <2>3
    <3> PICK two : two = <<m, a>>
      OBVIOUS
    <3>2. two \in Seq(Messages) /\ Len(two) = 2 /\ two[1] = m /\ two[2] = a
      BY <3>1
    <3>3. toView \in Seq(Messages) /\ Len(toView) = n + Len(two)
          /\ \A i \in 1 .. n + Len(two) : toView[i] = IF i <= n THEN q[i] ELSE two[i - n]
      BY <1>0, <3>2, ConcatProperties
    <3> QED  BY ONLY <1>a, <3>2, <3>3
  <2>5. t = [s EXCEPT !.toHost = toHost, !.host = request.mode, !.toView = toView]
    <3>1. t = [s EXCEPT !.toHost = Tail(@), !.host = request.mode, !.toView = @ \o <<m, a>>]
      BY <1>5 DEF Fragment!requestDisplayMode
    <3>2. [[s EXCEPT !.toHost = toHost] EXCEPT !.host = request.mode].toView = s.toView
      BY <1>0
    <3> QED  BY <3>1, <3>2
  <2> PICK mode : mode = request.mode
    OBVIOUS
  <2>6. t = [s EXCEPT !.toHost = toHost, !.host = mode, !.toView = toView]
    BY <2>5
  <2>7. /\ t = [view |-> t.view, seen |-> t.seen, host |-> t.host, toHost |-> t.toHost, toView |-> t.toView]
        /\ t.view = s.view /\ t.seen = s.seen /\ t.host = mode /\ t.toHost = toHost /\ t.toView = toView
    BY ONLY <1>0, <2>6
  <2>8. mode \in Modes /\ m.kind = "mode" /\ m.mode = mode /\ a.kind = "answer" /\ a.mode = mode
    BY <2>2 DEF Requests
  <2>9. IsScreen(t)
    BY ONLY <1>0, <2>2, <2>4, <2>7, <2>8 DEF IsScreen
  <2>10. ASSUME NEW i \in 1 .. n + 2, Opens(toView[i])
         PROVE  IF i = 1 THEN s.seen = "fullscreen" ELSE Full(toView[i - 1])
    <3>1. CASE i \in 1 .. n
      <4>1. Opens(q[i])
        BY <2>4, <2>10, <3>1
      <4>2. i # 1 => i - 1 \in 1 .. n
        BY ONLY <1>a, <3>1
      <4>3. i # 1 => toView[i - 1] = q[i - 1]
        BY ONLY <2>4, <4>2
      <4> QED  BY ONLY <1>b, <3>1, <4>1, <4>3
    <3>2. CASE i = n + 1
      BY ONLY <2>4, <2>8, <2>10, <3>2 DEF Opens
    <3>3. CASE i = n + 2
      <4>1. a.mode = "fullscreen"
        BY ONLY <2>4, <2>10, <3>3 DEF Opens
      <4>2. Full(m)
        BY ONLY <2>8, <4>1 DEF Full
      <4>3. i # 1 /\ i - 1 = n + 1
        BY <1>a, <3>3
      <4> QED  BY ONLY <2>4, <4>2, <4>3
    <3> QED  BY <1>a, <3>1, <3>2, <3>3
  <2>11. mode = "inline" => Closing(t)
    <3>1. mode = "inline" => Inline(m)
      BY <2>8 DEF Inline
    <3>2. ~Full(a)
      BY <2>8 DEF Full
    <3>3. \A i \in 1 .. n + 2 : i > n + 1 => i = n + 2
      BY <1>a
    <3>4. n + 1 \in 1 .. n + 2
      BY <1>a
    <3> QED  BY ONLY <2>4, <2>7, <3>1, <3>2, <3>3, <3>4 DEF Closing
  <2>12. s.view # NoPanel => s.seen = "fullscreen"
    BY <1>0 DEF ScreenOk
  <2> QED  BY ONLY <2>4, <2>7, <2>9, <2>10, <2>11, <2>12 DEF ScreenOk
<1>6. ASSUME Fragment!hear  PROVE ScreenOk(t)
  <2> PICK m, toView : m = Head(s.toView) /\ toView = Tail(s.toView)
    OBVIOUS
  <2>1. s.toView # <<>>
    BY <1>6 DEF Fragment!hear
  <2>2. /\ n > 0 /\ m = q[1] /\ m \in Messages /\ toView \in Seq(Messages) /\ Len(toView) = n - 1
        /\ \A i \in 1 .. n - 1 : toView[i] = q[i + 1]
    BY <1>0, <1>a, <2>1, HeadTailProperties
  <2> PICK seen, view :
        /\ seen = IF m.kind = "mode" THEN m.mode ELSE s.seen
        /\ view = IF m.kind = "mode"
                  THEN IF s.seen = "fullscreen" /\ m.mode = "inline" THEN NoPanel ELSE s.view
                  ELSE IF m.mode = "fullscreen" THEN m.panel ELSE s.view
    OBVIOUS
  <2>a. /\ seen = IF m.kind = "mode" THEN m.mode ELSE s.seen
        /\ view = IF m.kind = "mode"
                  THEN IF s.seen = "fullscreen" /\ m.mode = "inline" THEN NoPanel ELSE s.view
                  ELSE IF m.mode = "fullscreen" THEN m.panel ELSE s.view
    OBVIOUS
  <2>3. t = [view |-> view, seen |-> seen, host |-> s.host, toHost |-> s.toHost, toView |-> toView]
    <3> PICK heard : heard = [s EXCEPT !.toView = toView]
      OBVIOUS
    <3>1. heard = [view |-> s.view, seen |-> s.seen, host |-> s.host, toHost |-> s.toHost, toView |-> toView]
      BY ONLY <1>0, heard = [s EXCEPT !.toView = toView]
    <3>2. heard.view = s.view /\ heard.seen = s.seen
      BY ONLY <3>1
    <3>4. CASE m.kind = "mode"
      <4>1. t = [heard EXCEPT !.seen = seen, !.view = view]
        <5>1. t = [heard EXCEPT !.seen = seen,
                     !.view = IF s.seen = "fullscreen" /\ m.mode = "inline" THEN NoPanel ELSE @]
          BY <1>6, <3>4 DEF Fragment!hear
        <5>2. [heard EXCEPT !.seen = seen].view = s.view
          BY ONLY <3>1
        <5>3. view = IF s.seen = "fullscreen" /\ m.mode = "inline" THEN NoPanel ELSE s.view
          BY ONLY <2>a, <3>4
        <5> QED  BY ONLY <5>1, <5>2, <5>3
      <4> QED  BY ONLY <3>1, <4>1
    <3>5. CASE m.kind # "mode" /\ m.mode = "fullscreen"
      <4>1. t = [heard EXCEPT !.view = view] /\ seen = s.seen
        BY <1>6, <3>5 DEF Fragment!hear
      <4> QED  BY ONLY <3>1, <4>1
    <3>6. CASE m.kind # "mode" /\ m.mode # "fullscreen"
      <4>1. t = heard /\ seen = s.seen /\ view = s.view
        BY <1>6, <3>6 DEF Fragment!hear
      <4> QED  BY ONLY <3>1, <4>1
    <3> QED  BY <3>4, <3>5, <3>6
  <2>4. /\ t = [view |-> t.view, seen |-> t.seen, host |-> t.host, toHost |-> t.toHost, toView |-> t.toView]
        /\ t.view = view /\ t.seen = seen /\ t.host = s.host /\ t.toHost = s.toHost /\ t.toView = toView
    BY ONLY <2>3
  <2>5. m.kind \in {"mode", "answer"} /\ m.mode \in Modes
    BY <2>2 DEF Messages
  <2>6. IsScreen(t)
    BY ONLY <1>0, <2>2, <2>a, <2>4, <2>5 DEF IsScreen
  <2>7. seen = IF Full(m) THEN "fullscreen" ELSE IF Inline(m) THEN "inline" ELSE s.seen
    BY ONLY <2>a, <2>5 DEF Full, Inline, Modes
  <2>8. view # NoPanel => seen = "fullscreen"
    <3>1. s.view # NoPanel => s.seen = "fullscreen"
      BY <1>0 DEF ScreenOk
    <3>2. Opens(m) => s.seen = "fullscreen"
      BY <1>a, <1>b, <2>2
    <3> QED  BY ONLY <2>a, <2>5, <3>1, <3>2 DEF Opens, Modes
  <2>9. ASSUME NEW i \in 1 .. n - 1, Opens(toView[i])
        PROVE  IF i = 1 THEN seen = "fullscreen" ELSE Full(toView[i - 1])
    <3>1. i + 1 \in 1 .. n /\ i + 1 # 1 /\ (i + 1) - 1 = i /\ Opens(q[i + 1])
      BY <1>a, <2>2, <2>9
    <3>2. Full(q[i])
      BY ONLY <1>b, <3>1
    <3>3. CASE i = 1
      BY ONLY <2>2, <2>7, <3>2, <3>3
    <3>4. CASE i # 1
      <4>1. i - 1 \in 1 .. n - 1 /\ (i - 1) + 1 = i
        BY <1>a, <3>4
      <4>2. toView[i - 1] = q[i]
        BY <2>2, <4>1
      <4> QED  BY ONLY <3>2, <3>4, <4>2
    <3> QED  BY <3>3, <3>4
  <2>10. ASSUME s.host = "inline"  PROVE Closing(t)
    <3>1. Closing(s)
      BY <1>0, <2>10 DEF ScreenOk
    <3>2. \A i \in 1 .. n - 1 : i + 1 \in 1 .. n /\ toView[i] = q[i + 1]
      BY <1>a, <2>2
    <3>3. CASE s.seen = "inline" /\ \A i \in 1 .. n : ~Full(q[i])
      <4>1. seen = "inline"
        BY <1>a, <2>2, <2>7, <3>3
      <4>2. \A i \in 1 .. n - 1 : ~Full(toView[i])
        BY ONLY <3>2, <3>3
      <4> QED  BY ONLY <2>2, <2>4, <4>1, <4>2 DEF Closing
    <3>4. ASSUME NEW j \in 1 .. n, Inline(q[j]), \A i \in 1 .. n : i > j => ~Full(q[i])
          PROVE  Closing(t)
      <4>1. CASE j = 1
        <5>1. seen = "inline"
          BY ONLY <2>2, <2>7, <3>4, <4>1 DEF Inline, Full
        <5>2. \A i \in 1 .. n - 1 : ~Full(toView[i])
          BY <1>a, <3>2, <3>4, <4>1
        <5> QED  BY ONLY <2>2, <2>4, <5>1, <5>2 DEF Closing
      <4>2. CASE j # 1
        <5>1. j - 1 \in 1 .. n - 1 /\ toView[j - 1] = q[j]
          BY <1>a, <2>2, <4>2
        <5>2. \A i \in 1 .. n - 1 : i > j - 1 => ~Full(toView[i])
          BY <1>a, <3>2, <3>4
        <5>3. Inline(toView[j - 1])
          BY <3>4, <5>1
        <5> QED  BY ONLY <2>2, <2>4, <5>1, <5>2, <5>3 DEF Closing
      <4> QED  BY <4>1, <4>2
    <3> QED  BY <3>1, <3>3, <3>4 DEF Closing
  <2> QED  BY ONLY <2>2, <2>4, <2>6, <2>8, <2>9, <2>10 DEF ScreenOk
<1>7. ASSUME \/ Fragment!Render \/ Fragment!resetZoom \/ Fragment!closeDrill
             \/ \E choice \in Choices : Fragment!setVariable(choice)
             \/ \E span \in Brushed : Fragment!zoom(span)
             \/ \E panel \in Alone : \E choice \in Choices : Fragment!point(panel, choice)
             \/ \E call \in v1.calls, ok \in BOOLEAN : Fragment!Answer(call, ok)
      PROVE  t = s
  BY <1>7 DEF Fragment!Render, Fragment!resetZoom, Fragment!closeDrill, Fragment!setVariable,
              Fragment!zoom, Fragment!point, Fragment!Answer
<1>8. \/ Fragment!Render \/ Fragment!resetZoom \/ Fragment!closeDrill
      \/ Fragment!closeView \/ Fragment!requestDisplayMode \/ Fragment!hostCloses \/ Fragment!hear
      \/ \E panel \in Alone : Fragment!openView(panel)
      \/ \E of \in Fragments : Fragment!receive(of)
      \/ \E choice \in Choices : Fragment!setVariable(choice)
      \/ \E span \in Brushed : Fragment!zoom(span)
      \/ \E panel \in Alone : \E choice \in Choices : Fragment!point(panel, choice)
      \/ \E call \in v1.calls, ok \in BOOLEAN : Fragment!Answer(call, ok)
  BY DEF Fragment!FragmentNext
<1> QED  BY <1>0, <1>1, <1>2, <1>3, <1>4, <1>5, <1>6, <1>7, <1>8

LEMMA ScreenStart == Fragment!FragmentInit => ScreenOk(v2)
<1> SUFFICES ASSUME Fragment!FragmentInit  PROVE ScreenOk(v2)
  OBVIOUS
<1> PICK s, none : s = v2 /\ none = <<>>
  OBVIOUS
<1>1. s = [view |-> NoPanel, seen |-> "inline", host |-> "inline", toHost |-> none, toView |-> none]
  BY DEF Fragment!FragmentInit
<1>2. /\ s = [view |-> s.view, seen |-> s.seen, host |-> s.host, toHost |-> s.toHost, toView |-> s.toView]
      /\ s.view = NoPanel /\ s.seen = "inline" /\ s.host = "inline" /\ s.toHost = none /\ s.toView = none
  BY ONLY <1>1
<1>3. none \in Seq(Requests) /\ none \in Seq(Messages) /\ Len(none) = 0 /\ 1 .. Len(none) = {}
  OBVIOUS
<1> QED  BY ONLY s = v2, <1>2, <1>3 DEF ScreenOk, IsScreen, Closing, Modes

LEMMA FragmentHolds ==
  ASSUME IsFragment(v1), Latest(v1), ScreenOk(v2)
  PROVE  Fragment!ShownIsAsked /\ Fragment!AloneOnWholeScreen
<1>1. Fragment!ShownIsAsked
  BY DEF Latest, Fragment!ShownIsAsked
<1>2. Fragment!AloneOnWholeScreen
  <2>1. SUFFICES ASSUME v2.toView = <<>>, v2.view # NoPanel  PROVE v2.host = "fullscreen"
    BY DEF Fragment!AloneOnWholeScreen
  <2>2. v2.seen = "fullscreen" /\ v2.host \in Modes /\ (v2.host = "inline" => Closing(v2))
    BY <2>1 DEF ScreenOk, IsScreen
  <2>3. 1 .. Len(v2.toView) = {}
    BY <2>1
  <2>4. ~Closing(v2)
    BY ONLY <2>2, <2>3 DEF Closing
  <2> QED  BY <2>2, <2>4 DEF Modes
<1> QED  BY <1>1, <1>2

FragmentInv == IsFragment(v1) /\ Latest(v1) /\ ScreenOk(v2)

LEMMA FragmentBegins == Fragment!FragmentInit => FragmentInv
BY FragmentStart, ScreenStart DEF FragmentInv

LEMMA FragmentStep == ASSUME FragmentInv, Fragment!FragmentNext PROVE FragmentInv' /\ Fragment!OneQueryPerBrush
<1>1. IsFragment(v1') /\ Latest(v1') /\ Fragment!OneQueryPerBrush
  BY FragmentKept DEF FragmentInv
<1>2. ScreenOk(v2')
  BY ScreenKept DEF FragmentInv
<1> QED  BY <1>1, <1>2 DEF FragmentInv

-----------------------------------------------------------------------------
(* The pane: a behaviour is one of a single part, and what that part keeps  *)
(* to holds of it.                                                         *)

AssistantInv ==
  /\ part = "chat" => ChatInv
  /\ part = "mcp" => McpInv
  /\ part = "scroll" => ScrollInv
  /\ part = "fragment" => FragmentInv

LEMMA AssistantStart == Init => AssistantInv
<1> SUFFICES ASSUME Init  PROVE AssistantInv
  OBVIOUS
<1>1. part = "chat" => Chat!ChatInit
  BY DEF Init
<1>2. part = "mcp" => Mcp!McpInit
  BY DEF Init
<1>3. part = "scroll" => Scroll!ScrollInit
  BY DEF Init
<1>4. part = "fragment" => Fragment!FragmentInit
  BY DEF Init
<1> QED  BY <1>1, <1>2, <1>3, <1>4, ChatStart, McpStart, ScrollStart, FragmentBegins DEF AssistantInv

LEMMA AssistantStep == AssistantInv /\ [Next]_vars => AssistantInv'
<1> SUFFICES ASSUME AssistantInv, [Next]_vars  PROVE AssistantInv'
  OBVIOUS
<1>1. part' = part
  BY DEF Next, vars
<1>2. CASE UNCHANGED vars
  <2>1. v1' = v1 /\ v2' = v2 /\ v3' = v3 /\ v4' = v4 /\ v5' = v5
    BY <1>2 DEF vars
  <2>2. ChatInv => ChatInv'
    BY <2>1 DEF ChatInv
  <2>3. McpInv => McpInv'
    BY <2>1 DEF McpInv
  <2>4. ScrollInv => ScrollInv'
    BY <2>1 DEF ScrollInv
  <2>5. FragmentInv => FragmentInv'
    BY <2>1 DEF FragmentInv
  <2> QED  BY <1>1, <2>2, <2>3, <2>4, <2>5 DEF AssistantInv
<1>3. CASE Next
  <2>1. ASSUME part = "chat"  PROVE ChatInv'
    <3>1. ChatInv /\ Chat!ChatNext
      BY <1>3, <2>1 DEF AssistantInv, Next
    <3> QED  BY <3>1, ChatKept
  <2>2. ASSUME part = "mcp"  PROVE McpInv'
    <3>1. McpInv /\ Mcp!McpNext
      BY <1>3, <2>2 DEF AssistantInv, Next
    <3> QED  BY <3>1, McpKept
  <2>3. ASSUME part = "scroll"  PROVE ScrollInv'
    <3>1. ScrollInv /\ Scroll!ScrollNext
      BY <1>3, <2>3 DEF AssistantInv, Next
    <3> QED  BY <3>1, ScrollKept
  <2>4. ASSUME part = "fragment"  PROVE FragmentInv'
    <3>1. FragmentInv /\ Fragment!FragmentNext
      BY <1>3, <2>4 DEF AssistantInv, Next
    <3> QED  BY <3>1, FragmentStep
  <2> QED  BY <1>1, <2>1, <2>2, <2>3, <2>4 DEF AssistantInv
<1> QED  BY <1>2, <1>3

\* At any time of any part, what AssistantInv says of it is true.
THEOREM AssistantInvariant == Spec => []AssistantInv
BY AssistantStart, AssistantStep, PTL DEF Spec

\* The pane shows its thread and stops the run it listens to, its views count exactly
\* who holds their one connection, and a fragment shows what was last asked, for any
\* threads, frames, connections and panels and any order of answers, failures and
\* messages (app.tsx, mcp-app-frame.tsx, fragment-view.tsx).
THEOREM PaneIsKept == Spec => []PaneFollowsThread
<1>1. AssistantInv => PaneFollowsThread
  <2>1. FragmentInv => Fragment!ShownIsAsked /\ Fragment!AloneOnWholeScreen
    BY FragmentHolds DEF FragmentInv
  <2> QED  BY <2>1, ChatHolds, McpHolds DEF AssistantInv, PaneFollowsThread
<1> QED  BY <1>1, AssistantInvariant, PTL

\* No scroll event of the pane's own making lets go of the question, and no second
\* chart that reports a brush repeats its query (chat-scroll.ts, use-brush-zoom.ts).
THEOREM ReaderActs == Spec => OnlyTheReaderActs
<1>1. AssistantInv /\ [Next]_vars => [part = "scroll" => Scroll!OnlyReaderReleases]_vars
  <2> SUFFICES ASSUME AssistantInv, Next, part = "scroll"  PROVE Scroll!OnlyReaderReleases
    BY DEF vars
  <2>1. ScrollInv /\ Scroll!ScrollNext
    BY DEF AssistantInv, Next
  <2> QED  BY <2>1, ScrollKept
<1>2. AssistantInv /\ [Next]_vars => [part = "fragment" => Fragment!OneQueryPerBrush]_vars
  <2> SUFFICES ASSUME AssistantInv, Next, part = "fragment"  PROVE Fragment!OneQueryPerBrush
    BY DEF vars
  <2>1. FragmentInv /\ Fragment!FragmentNext
    BY DEF AssistantInv, Next
  <2> QED  BY <2>1, FragmentStep
<1> QED  BY <1>1, <1>2, AssistantInvariant, PTL DEF Spec, OnlyTheReaderActs
=============================================================================
