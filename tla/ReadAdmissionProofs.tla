------------------------ MODULE ReadAdmissionProofs ------------------------
(* Proofs about ReadAdmission, for every pool and every set of readers. *)
EXTENDS ReadAdmission, SequenceTheorems, FiniteSetTheorems, TLAPS

USE DEF slotVars, batchVars, cacheVars

(* The queues are sequences and the counters integers: what the arithmetic *)
(* of availableN needs.                                                    *)
SlotTypes ==
  /\ active \in [panel : Int, interactive : Int]
  /\ queue \in [panel : Seq(Flight), interactive : Seq(Interactive)]

SlotInv == SlotTypes /\ CapacityKept /\ NoIdleWaiter

LEMMA SharedType == Shared \in Nat \ {0} /\ Shared <= Slots
BY AdmissionAssumption DEF Shared

(* Cutting the first n elements off a queue. *)
LEMMA Cut ==
  ASSUME NEW S, NEW s \in Seq(S), NEW n \in 0..Len(s)
  PROVE  /\ SubSeq(s, n + 1, Len(s)) \in Seq(S)
         /\ Len(SubSeq(s, n + 1, Len(s))) = Len(s) - n
         /\ SubSeq(s, n + 1, Len(s)) # <<>> => n < Len(s)
<1>1. Len(s) \in Nat
  OBVIOUS
<1>2. \A k \in (n + 1)..Len(s) : s[k] \in S
  BY <1>1
<1> QED  BY <1>1, <1>2, SubSeqProperties, EmptySeq

(* Waking from counters and queues that are in order leaves them in order; *)
(* a panel granted past an interactive read that is left waiting runs      *)
(* alone.                                                                  *)
LEMMA WakeKeeps ==
  ASSUME NEW act \in [panel : Int, interactive : Int],
         NEW q \in [panel : Seq(Flight), interactive : Seq(Interactive)],
         act.panel + act.interactive <= Slots, act.panel <= Shared,
         NEW owned, NEW fl, NEW rd, Wake(act, owned, q, fl, rd)
  PROVE  /\ SlotInv'
         /\ active'.panel > act.panel /\ queue'.interactive # <<>>
              => active'.panel <= 1
<1>1. PICK aP \in Int, aI \in Int, lenP \in Nat, lenI \in Nat,
           slots \in Int, shared \in Int :
        /\ aP = act.panel /\ aI = act.interactive
        /\ lenP = Len(q.panel) /\ lenI = Len(q.interactive)
        /\ slots = Slots /\ shared = Shared /\ slots >= 1 /\ shared >= 1
  <2>1. /\ act.panel \in Int /\ act.interactive \in Int
        /\ Len(q.panel) \in Nat /\ Len(q.interactive) \in Nat
    OBVIOUS
  <2>2. Slots \in Int /\ Shared \in Int /\ Slots >= 1 /\ Shared >= 1
    BY SharedType, AdmissionAssumption
  <2> QED  BY <2>1, <2>2
<1>2. PICK kept \in Int :
        /\ kept = Least(1, Least(aP + lenP, Least(shared, slots - 1)))
        /\ kept <= 1
  BY <1>1 DEF Least
<1>3. KeptForPanels(act, q) = kept
  BY <1>1, <1>2 DEF KeptForPanels
<1>g. PICK i, p : i = InteractiveGrants(act, q) /\ p = PanelGrants(act, q)
  OBVIOUS
<1> DEFINE pq == SubSeq(q.panel, p + 1, Len(q.panel))
           iq == SubSeq(q.interactive, i + 1, Len(q.interactive))
<1>4. i = Greatest(0, Least(lenI, Least(slots - aP - aI, slots - kept - aI)))
  BY <1>g, <1>1, <1>3 DEF InteractiveGrants, InteractiveRoom
<1>5. p = Greatest(0, Least(lenP, Least(slots - aP - (aI + i), shared - aP)))
  <2> DEFINE after == [act EXCEPT !.interactive = @ + i]
  <2>1. after.panel = aP /\ after.interactive = aI + i
    BY <1>1
  <2>2. p = Greatest(0, Least(lenP, PanelRoom(after)))
    BY <1>g, <1>1 DEF PanelGrants
  <2> HIDE DEF after
  <2>3. PanelRoom(after) = Least(slots - aP - (aI + i), shared - aP)
    BY <2>1, <1>1 DEF PanelRoom
  <2> QED  BY <2>2, <2>3
<1>6. /\ active' = [panel |-> act.panel + p, interactive |-> act.interactive + i]
      /\ queue' = [panel |-> pq, interactive |-> iq]
  BY <1>g DEF Wake
<1>7. /\ i \in 0..lenI /\ p \in 0..lenP
      /\ aP + p <= shared /\ aP + p + (aI + i) <= slots
      /\ i < lenI => Least(slots - (aP + p) - (aI + i), slots - kept - (aI + i)) <= 0
      /\ p < lenP => Least(slots - (aP + p) - (aI + i), shared - (aP + p)) <= 0
      /\ i < lenI /\ p > 0 /\ kept <= 1 => aP + p <= 1
  <2>0. aP + aI <= slots /\ aP <= shared
    BY <1>1
  <2>1. i \in 0..lenI /\ aP + aI + i <= slots
    BY <2>0, <1>4 DEF Least, Greatest
  <2>2. p \in 0..lenP /\ aP + p <= shared /\ aP + p + (aI + i) <= slots
    BY <2>0, <2>1, <1>5 DEF Least, Greatest
  <2>3. i < lenI => aP + aI + i >= slots \/ aI + i >= slots - kept
    BY <1>4 DEF Least, Greatest
  <2>4. p < lenP => aP + p + (aI + i) >= slots \/ aP + p >= shared
    BY <2>1, <1>5 DEF Least, Greatest
  <2>5. i \in Int /\ p \in Int
    BY <2>1, <2>2
  <2>6. i < lenI => Least(slots - (aP + p) - (aI + i), slots - kept - (aI + i)) <= 0
    BY <2>2, <2>3, <2>5 DEF Least
  <2>7. p < lenP => Least(slots - (aP + p) - (aI + i), shared - (aP + p)) <= 0
    BY <2>4, <2>5 DEF Least
  <2>8. i < lenI /\ p > 0 /\ kept <= 1 => aP + p <= 1
    BY <2>2, <2>3, <2>5
  <2> QED  BY <2>1, <2>2, <2>6, <2>7, <2>8
<1>8. /\ pq \in Seq(Flight) /\ iq \in Seq(Interactive)
      /\ Len(pq) = lenP - p
      /\ pq # <<>> => p < lenP
      /\ iq # <<>> => i < lenI
  BY <1>1, <1>7, Cut
<1> HIDE DEF pq, iq
<1>9. /\ active'.panel = aP + p /\ active'.interactive = aI + i
      /\ queue'.panel = pq /\ queue'.interactive = iq
  BY <1>1, <1>6
<1>10. SlotTypes'
  <2>1. aP + p \in Int /\ aI + i \in Int
    BY <1>7
  <2> QED  BY <1>1, <1>6, <1>8, <2>1 DEF SlotTypes
<1>11. CapacityKept'
  BY <1>1, <1>7, <1>9 DEF CapacityKept, Shared
<1>12. KeptForPanels(active', queue') = kept
  <2>1. aP + p + (lenP - p) = aP + lenP
    BY <1>7
  <2>2. active'.panel + Len(queue'.panel) = aP + lenP
    BY <1>8, <1>9, <2>1
  <2> QED  BY <1>1, <1>2, <2>2 DEF KeptForPanels
<1>13. NoIdleWaiter'
  <2>1. PanelRoom(active')
          = Least(slots - (aP + p) - (aI + i), shared - (aP + p))
    BY <1>1, <1>9 DEF PanelRoom
  <2>2. InteractiveRoom(active', queue')
          = Least(slots - (aP + p) - (aI + i), slots - kept - (aI + i))
    BY <1>1, <1>9, <1>12 DEF InteractiveRoom
  <2> QED  BY <1>7, <1>8, <1>9, <2>1, <2>2 DEF NoIdleWaiter
<1>14. active'.panel > act.panel => p > 0
  <2>1. aP + p > aP => p > 0
    BY <1>7
  <2> QED  BY <1>1, <1>9, <2>1
<1>15. active'.panel > act.panel /\ queue'.interactive # <<>> => active'.panel <= 1
  BY <1>2, <1>7, <1>8, <1>9, <1>14
<1> QED  BY <1>10, <1>11, <1>13, <1>15 DEF SlotInv

(* Removing a waiter leaves a queue. *)
LEMMA RemoveAtType ==
  ASSUME NEW S, NEW q \in Seq(S), NEW i \in DOMAIN q
  PROVE  RemoveAt(q, i) \in Seq(S)
<1>1. i \in 1..Len(q) /\ Len(q) \in Nat
  OBVIOUS
<1>2. SubSeq(q, 1, i - 1) \in Seq(S) /\ SubSeq(q, i + 1, Len(q)) \in Seq(S)
  BY <1>1, SubSeqProperties
<1> QED  BY <1>2, ConcatProperties DEF RemoveAt

(* Every step keeps the slot invariant, and a panel never gains a slot past *)
(* a waiting interactive read unless it runs alone.                         *)
SlotStep ==
  /\ SlotInv'
  /\ active'.panel > active.panel /\ queue'.interactive # <<>>
       => active'.panel <= 1

LEMMA NextSlotInv == SlotInv /\ [Next]_vars => SlotStep
<1> SUFFICES ASSUME SlotInv, [Next]_vars PROVE SlotStep  OBVIOUS
<1>0. /\ active \in [panel : Int, interactive : Int]
      /\ queue \in [panel : Seq(Flight), interactive : Seq(Interactive)]
      /\ active.panel + active.interactive <= Slots /\ active.panel <= Shared
      /\ Slots \in Nat /\ Shared \in Nat
      /\ queue.panel # <<>> => PanelRoom(active) <= 0
      /\ queue.interactive # <<>> => InteractiveRoom(active, queue) <= 0
  BY SharedType, AdmissionAssumption DEF SlotInv, SlotTypes, CapacityKept, NoIdleWaiter
<1> DEFINE Lower == [active EXCEPT !.panel = @ - 1]
           LowerI == [active EXCEPT !.interactive = @ - 1]
<1>l. /\ Lower \in [panel : Int, interactive : Int]
      /\ Lower.panel + Lower.interactive <= Slots /\ Lower.panel <= Shared
      /\ LowerI \in [panel : Int, interactive : Int]
      /\ LowerI.panel + LowerI.interactive <= Slots /\ LowerI.panel <= Shared
      /\ Lower.panel = active.panel - 1 /\ LowerI.panel = active.panel
  BY <1>0
<1> HIDE DEF Lower, LowerI
<1>i. active.panel \in Int /\ active.interactive \in Int
  BY <1>0
<1>u. ASSUME UNCHANGED <<active, queue>> PROVE SlotStep
  <2>1. SlotInv'
    BY <1>u DEF SlotInv, SlotTypes, CapacityKept, NoIdleWaiter, PanelRoom,
                InteractiveRoom, KeptForPanels
  <2>2. ~(active'.panel > active.panel)
    BY <1>u, <1>i
  <2> QED  BY <2>1, <2>2 DEF SlotStep
(* Wake, from the counters as they are or with one slot returned. *)
<1>w. ASSUME NEW act \in {active, Lower, LowerI},
             NEW q \in [panel : Seq(Flight), interactive : Seq(Interactive)],
             NEW owned, NEW fl, NEW rd, Wake(act, owned, q, fl, rd)
      PROVE  SlotStep
  <2>1. /\ act \in [panel : Int, interactive : Int]
        /\ act.panel + act.interactive <= Slots /\ act.panel <= Shared
    BY <1>0, <1>l
  <2>2. /\ SlotInv'
        /\ active'.panel > act.panel /\ queue'.interactive # <<>>
             => active'.panel <= 1
    BY <1>w, <2>1, WakeKeeps
  <2>3. active'.panel > active.panel => active'.panel > act.panel
    <3>1. active'.panel \in Int
      BY <2>2 DEF SlotInv, SlotTypes
    <3> QED  BY <3>1, <1>i, <1>l
  <2> QED  BY <2>2, <2>3 DEF SlotStep
<1>k. KeptForPanels(active, queue) \in Int /\ KeptForPanels(active, queue) <= 1
  <2>1. Len(queue.panel) \in Nat
    BY <1>0
  <2> QED  BY <1>0, <1>i, <2>1 DEF KeptForPanels, Least
<1>1. ASSUME NEW r \in Interactive, Arrive(r) PROVE SlotStep
  <2>1. CASE AcquireInteractive(r)
    <3>1. /\ active' = [active EXCEPT !.interactive = @ + 1] /\ queue' = queue
          /\ queue.interactive = <<>> /\ InteractiveRoom(active, queue) > 0
      BY <2>1 DEF AcquireInteractive, InteractiveFits
    <3>2. active'.panel = active.panel /\ active'.interactive = active.interactive + 1
      BY <1>0, <3>1
    <3>3. active.interactive + active.panel + 1 <= Slots
      BY <1>0, <1>i, <1>k, <3>1 DEF InteractiveRoom, Least
    <3>4. SlotTypes' /\ CapacityKept'
      <4>1. CapacityKept'
        BY <1>0, <1>i, <3>2, <3>3 DEF CapacityKept, Shared
      <4>2. SlotTypes'
        BY <1>0, <3>1 DEF SlotTypes
      <4> QED  BY <4>1, <4>2
    <3>5. queue.panel # <<>> => PanelRoom(active') <= 0
      BY <1>0, <1>i, <3>2 DEF PanelRoom, Least
    <3>6. NoIdleWaiter'
      BY <3>1, <3>5 DEF NoIdleWaiter
    <3> QED  BY <1>i, <3>2, <3>4, <3>6 DEF SlotStep, SlotInv
  <2>2. CASE EnqueueInteractive(r)
    <3>1. /\ active' = active
          /\ queue' = [queue EXCEPT !.interactive = Append(@, r)]
          /\ ~InteractiveFits
      BY <2>2 DEF EnqueueInteractive
    <3>2. queue'.panel = queue.panel
      BY <1>0, <3>1
    <3>3. SlotTypes' /\ CapacityKept'
      <4>1. Append(queue.interactive, r) \in Seq(Interactive)
        BY <1>0
      <4> QED  BY <1>0, <3>1, <4>1 DEF SlotTypes, CapacityKept
    <3>4. InteractiveRoom(active, queue) <= 0
      <4>1. InteractiveRoom(active, queue) \in Int
        BY <1>0, <1>i, <1>k DEF InteractiveRoom, Least
      <4> QED  BY <1>0, <3>1, <4>1 DEF InteractiveFits
    <3>5. InteractiveRoom(active', queue') = InteractiveRoom(active, queue)
      BY <3>1, <3>2 DEF InteractiveRoom, KeptForPanels
    <3>6. NoIdleWaiter'
      BY <1>0, <3>1, <3>2, <3>4, <3>5 DEF NoIdleWaiter
    <3> QED  BY <1>i, <3>1, <3>3, <3>6 DEF SlotStep, SlotInv
  <2> QED  BY <1>1, <2>1, <2>2 DEF Arrive
<1>2. ASSUME NEW r \in Interactive, Read(r) PROVE SlotStep
  <2>1. CASE StartInteractive(r)
    BY <2>1, <1>u DEF StartInteractive
  <2>2. CASE ReleaseInteractive(r)
    <3>1. Wake(LowerI, batchActive, queue, flight, [reader EXCEPT ![r] = "idle"])
      BY <2>2 DEF ReleaseInteractive, LowerI
    <3> QED  BY <3>1, <1>0, <1>w
  <2> QED  BY <1>2, <2>1, <2>2 DEF Read
<1>3. ASSUME NEW r \in Interactive, AbandonInteractive(r) PROVE SlotStep
  <2>1. PICK i \in DOMAIN queue.interactive :
          Wake(active, batchActive, [queue EXCEPT !.interactive = RemoveAt(@, i)],
               flight, [reader EXCEPT ![r] = "idle"])
    BY <1>3 DEF AbandonInteractive
  <2>2. RemoveAt(queue.interactive, i) \in Seq(Interactive)
    BY <1>0, RemoveAtType
  <2>3. [queue EXCEPT !.interactive = RemoveAt(@, i)]
          \in [panel : Seq(Flight), interactive : Seq(Interactive)]
    BY <1>0, <2>2
  <2> QED  BY <2>1, <2>3, <1>w
<1>4. ASSUME NEW f \in Flight, Run(f) PROVE SlotStep
  <2>1. CASE AcquireSlot(f)
    <3>1. /\ active' = [active EXCEPT !.panel = @ + 1] /\ queue' = queue
          /\ queue.panel = <<>> /\ queue.interactive = <<>>
          /\ PanelRoom(active) > 0
      BY <2>1 DEF AcquireSlot, PanelFits
    <3>2. active'.panel = active.panel + 1 /\ active'.interactive = active.interactive
      BY <1>0, <3>1
    <3>3. /\ active.panel + active.interactive + 1 <= Slots
          /\ active.panel + 1 <= Shared
      BY <1>0, <1>i, <3>1 DEF PanelRoom, Least
    <3>4. CapacityKept'
      BY <1>0, <1>i, <3>2, <3>3 DEF CapacityKept, Shared
    <3>5. SlotTypes'
      BY <1>0, <3>1 DEF SlotTypes
    <3>6. NoIdleWaiter'
      BY <3>1 DEF NoIdleWaiter
    <3> QED  BY <3>1, <3>4, <3>5, <3>6 DEF SlotStep, SlotInv
  <2>2. CASE EnqueuePanel(f)
    <3>1. /\ active' = active /\ queue' = [queue EXCEPT !.panel = Append(@, f)]
          /\ ~PanelFits
      BY <2>2 DEF EnqueuePanel
    <3>2. /\ queue'.interactive = queue.interactive
          /\ queue'.panel = Append(queue.panel, f)
          /\ Append(queue.panel, f) \in Seq(Flight)
          /\ Len(queue'.panel) = Len(queue.panel) + 1 /\ Len(queue.panel) \in Nat
      BY <1>0, <3>1
    <3>3. SlotTypes' /\ CapacityKept'
      BY <1>0, <3>1, <3>2 DEF SlotTypes, CapacityKept
    (* Nobody in front of it: only an interactive read could be waiting, *)
    (* and then only because the pool is full.                           *)
    <3>4. PanelRoom(active) <= 0
      <4>1. PanelRoom(active) \in Int
        BY <1>0, <1>i DEF PanelRoom, Least
      <4>2. CASE queue.interactive = <<>>
        BY <1>0, <3>1, <4>1, <4>2 DEF PanelFits
      <4>3. CASE queue.panel = <<>> /\ queue.interactive # <<>>
        <5>1. Len(queue.panel) = 0
          BY <4>3
        <5>2. KeptForPanels(active, queue) <= active.panel
          BY <1>0, <1>i, <5>1 DEF KeptForPanels, Least
        <5>3. \/ Slots - active.panel - active.interactive <= 0
              \/ Slots - KeptForPanels(active, queue) - active.interactive <= 0
          BY <1>0, <4>3 DEF InteractiveRoom, Least
        <5>4. Slots - active.panel - active.interactive <= 0
          BY <1>0, <1>i, <1>k, <5>2, <5>3
        <5> QED  BY <1>0, <1>i, <5>4 DEF PanelRoom, Least
      <4> QED  BY <1>0, <4>2, <4>3
    <3>5. queue.interactive # <<>> => InteractiveRoom(active', queue') <= 0
      <4>1. /\ KeptForPanels(active', queue') \in Int
            /\ KeptForPanels(active', queue') >= KeptForPanels(active, queue)
        BY <1>0, <1>i, <3>1, <3>2 DEF KeptForPanels, Least
      <4> QED  BY <1>0, <1>i, <1>k, <3>1, <4>1 DEF InteractiveRoom, Least
    <3>6. NoIdleWaiter'
      BY <3>1, <3>2, <3>4, <3>5 DEF NoIdleWaiter
    <3> QED  BY <1>i, <3>1, <3>3, <3>6 DEF SlotStep, SlotInv
  <2>3. CASE ReleasePanel(f)
    <3>1. Wake(Lower, batchActive - 1, queue, [flight EXCEPT ![f] = "freed"], reader)
      BY <2>3 DEF ReleasePanel, Lower
    <3> QED  BY <3>1, <1>0, <1>w
  <2>4. ASSUME \/ AcquireLimit(f) \/ TakeReference(f) \/ StartPanel(f)
               \/ DropReference(f) \/ Publish(f) \/ ReleaseFlight(f)
        PROVE  SlotStep
    BY <2>4, <1>u DEF AcquireLimit, TakeReference, StartPanel, DropReference,
                      Publish, ReleaseFlight
  <2> QED  BY <1>4, <2>1, <2>2, <2>3, <2>4 DEF Run
<1>5. ASSUME NEW f \in Flight, AbandonPanel(f) PROVE SlotStep
  <2>1. PICK i \in DOMAIN queue.panel :
          Wake(active, batchActive, [queue EXCEPT !.panel = RemoveAt(@, i)],
               [flight EXCEPT ![f] = "freed"], reader)
    BY <1>5 DEF AbandonPanel
  <2>2. RemoveAt(queue.panel, i) \in Seq(Flight)
    BY <1>0, RemoveAtType
  <2>3. [queue EXCEPT !.panel = RemoveAt(@, i)]
          \in [panel : Seq(Flight), interactive : Seq(Interactive)]
    BY <1>0, <2>2
  <2> QED  BY <2>1, <2>3, <1>w
<1>6. ASSUME NEW f \in Flight, GiveBack(f) PROVE SlotStep
  <2>1. Wake(Lower, batchActive - 1, queue, [flight EXCEPT ![f] = "freed"], reader)
    BY <1>6 DEF GiveBack, Lower
  <2> QED  BY <2>1, <1>0, <1>w
<1>7. ASSUME NEW f \in Flight, CancelEarly(f) PROVE SlotStep
  BY <1>7, <1>u DEF CancelEarly
<1>8. ASSUME NEW b \in Batch, Admit(b) \/ Close(b) PROVE SlotStep
  BY <1>8, <1>u DEF Admit, Close
<1>9. ASSUME NEW b \in Batch, NEW k \in Key, Lookup(b, k) \/ CallerLeaves(b, k)
      PROVE  SlotStep
  BY <1>9, <1>u DEF Lookup, Answered, Join, StartFlight, CallerLeaves
<1>10. ASSUME NEW b \in Batch, Refresh(b) PROVE SlotStep
  <2>1. ASSUME NEW k \in Asks[b] PROVE k \in Key /\ <<b, k>> \in Flight
    BY AdmissionAssumption DEF Flight
  <2> QED  BY <1>10, <1>4, <1>8, <1>9, <2>1 DEF Refresh
<1>11. CASE UNCHANGED vars
  BY <1>11, <1>u DEF vars
<1>12. ASSUME NEW b \in Batch, NEW k \in Asks[b], CallerLeaves(b, k)
       PROVE  SlotStep
  BY <1>12, <1>9, AdmissionAssumption
<1> QED  BY <1>1, <1>2, <1>3, <1>5, <1>6, <1>7, <1>8, <1>12, <1>10, <1>11 DEF Next

LEMMA InitSlotInv == Init => SlotInv
<1> SUFFICES ASSUME Init PROVE SlotInv  OBVIOUS
<1>1. /\ active = [panel |-> 0, interactive |-> 0]
      /\ queue = [panel |-> <<>>, interactive |-> <<>>]
  BY DEF Init
<1> QED  BY <1>1, SharedType, AdmissionAssumption
         DEF SlotInv, SlotTypes, CapacityKept, NoIdleWaiter

-----------------------------------------------------------------------------
(* The books: who holds a slot, who stands in a queue, who has a ticket.    *)

(* The part of a queue a wake takes, and what is left of it. *)
LEMMA TakenSplit ==
  ASSUME NEW S, NEW s \in Seq(S), IsInjective(s), NEW n \in 0..Len(s)
  PROVE  /\ Taken(s, n) \subseteq ToSet(s)
         /\ ToSet(SubSeq(s, n + 1, Len(s))) = ToSet(s) \ Taken(s, n)
         /\ IsInjective(SubSeq(s, n + 1, Len(s)))
         /\ IsFiniteSet(Taken(s, n)) /\ Cardinality(Taken(s, n)) = n
<1>1. /\ Len(s) \in Nat /\ n \in Nat /\ n <= Len(s) /\ DOMAIN s = 1..Len(s)
      /\ \A i \in 1..Len(s) : s[i] \in S
  BY LenProperties
<1> DEFINE head == SubSeq(s, 1, n)
           rest == SubSeq(s, n + 1, Len(s))
<1>2. /\ head \in Seq(S) /\ Len(head) = n /\ \A i \in 1..n : head[i] = s[i]
  <2>1. \A i \in 1..n : s[i] \in S
    BY <1>1
  <2>2. /\ head \in Seq(S) /\ Len(head) = (IF 1 <= n THEN n - 1 + 1 ELSE 0)
        /\ \A i \in 1..(n - 1 + 1) : head[i] = s[1 + i - 1]
    BY <1>1, <2>1, SubSeqProperties
  <2> QED  BY <1>1, <2>2
<1>3. /\ rest \in Seq(S) /\ Len(rest) = Len(s) - n
      /\ \A i \in 1..(Len(s) - n) : rest[i] = s[n + i]
  <2>1. \A i \in (n + 1)..Len(s) : s[i] \in S
    BY <1>1
  <2>2. /\ rest \in Seq(S)
        /\ Len(rest) = (IF n + 1 <= Len(s) THEN Len(s) - (n + 1) + 1 ELSE 0)
        /\ \A i \in 1..(Len(s) - (n + 1) + 1) : rest[i] = s[n + 1 + i - 1]
    BY <1>1, <2>1, SubSeqProperties
  <2> QED  BY <1>1, <2>2
<1> HIDE DEF head, rest
<1>4. DOMAIN head = 1..n /\ DOMAIN rest = 1..(Len(s) - n)
  BY <1>2, <1>3, LenProperties
<1>5. Taken(s, n) = {s[i] : i \in 1..n}
  BY <1>2, <1>4 DEF Taken, ToSet, head
<1>6. ToSet(s) = {s[i] : i \in 1..Len(s)}
  BY <1>1 DEF ToSet
<1>7. ToSet(rest) = {s[i] : i \in (n + 1)..Len(s)}
  <2>1. ASSUME NEW x \in ToSet(rest) PROVE \E i \in (n + 1)..Len(s) : x = s[i]
    <3>1. PICK j \in 1..(Len(s) - n) : x = rest[j]
      BY <1>4 DEF ToSet
    <3>2. n + j \in (n + 1)..Len(s) /\ x = s[n + j]
      BY <1>1, <1>3, <3>1
    <3> QED  BY <3>2
  <2>2. ASSUME NEW i \in (n + 1)..Len(s) PROVE s[i] \in ToSet(rest)
    <3>1. i - n \in 1..(Len(s) - n) /\ n + (i - n) = i
      BY <1>1
    <3>2. rest[i - n] = s[i]
      BY <1>3, <3>1
    <3> QED  BY <1>4, <3>1, <3>2 DEF ToSet
  <2> QED  BY <2>1, <2>2
<1>8. \A i, j \in 1..Len(s) : s[i] = s[j] => i = j
  BY <1>1 DEF IsInjective
<1>9. ToSet(rest) = ToSet(s) \ Taken(s, n)
  <2>1. ASSUME NEW i \in (n + 1)..Len(s) PROVE i \in 1..Len(s) /\ i \notin 1..n
    BY <1>1
  <2>2. ASSUME NEW i \in 1..Len(s), i \notin 1..n PROVE i \in (n + 1)..Len(s)
    BY <1>1, <2>2
  <2>3. 1..n \subseteq 1..Len(s)
    BY <1>1
  <2> QED  BY <1>5, <1>6, <1>7, <1>8, <2>1, <2>2, <2>3
<1>10. IsInjective(rest)
  <2>1. ASSUME NEW i \in 1..(Len(s) - n), NEW j \in 1..(Len(s) - n), rest[i] = rest[j]
        PROVE  i = j
    <3>1. n + i \in 1..Len(s) /\ n + j \in 1..Len(s)
      BY <1>1
    <3>2. n + i = n + j
      BY <1>3, <1>8, <2>1, <3>1
    <3> QED  BY <1>1, <3>2
  <2> QED  BY <1>4, <2>1 DEF IsInjective
<1>11. IsFiniteSet(Taken(s, n)) /\ Cardinality(Taken(s, n)) = n
  <2>1. IsFiniteSet(1..n) /\ Cardinality(1..n) = n
    BY <1>1, FS_Interval
  <2> DEFINE g == [i \in 1..n |-> s[i]]
  <2>2. g \in Bijection(1..n, Taken(s, n))
    <3>1. 1..n \subseteq 1..Len(s)
      BY <1>1
    <3>2. g \in [1..n -> Taken(s, n)] /\ \A x \in Taken(s, n) : \E i \in 1..n : g[i] = x
      BY <1>5
    <3>3. \A i, j \in 1..n : g[i] = g[j] => i = j
      BY <1>8, <3>1
    <3> QED  BY <3>2, <3>3 DEF Bijection, Injection, Surjection, IsInjective
  <2>3. ExistsBijection(1..n, Taken(s, n))
    BY <2>2 DEF ExistsBijection
  <2> QED  BY <2>1, <2>3, FS_Bijection
<1> QED  BY <1>1, <1>5, <1>6, <1>9, <1>10, <1>11 DEF rest

(* A waiter that leaves takes nobody along. *)
LEMMA RemoveSplit ==
  ASSUME NEW S, NEW s \in Seq(S), IsInjective(s), NEW i \in DOMAIN s
  PROVE  /\ IsInjective(RemoveAt(s, i))
         /\ ToSet(RemoveAt(s, i)) = ToSet(s) \ {s[i]}
<1>1. /\ Len(s) \in Nat /\ DOMAIN s = 1..Len(s) /\ i \in 1..Len(s)
      /\ \A j \in 1..Len(s) : s[j] \in S
  BY LenProperties
<1> DEFINE before == SubSeq(s, 1, i - 1)
           after  == SubSeq(s, i + 1, Len(s))
           left   == RemoveAt(s, i)
<1>2. /\ before \in Seq(S) /\ Len(before) = i - 1
      /\ \A j \in 1..(i - 1) : before[j] = s[j]
  <2>1. \A j \in 1..(i - 1) : s[j] \in S
    BY <1>1
  <2>2. /\ before \in Seq(S) /\ Len(before) = (IF 1 <= i - 1 THEN i - 1 - 1 + 1 ELSE 0)
        /\ \A j \in 1..(i - 1 - 1 + 1) : before[j] = s[1 + j - 1]
    BY <1>1, <2>1, SubSeqProperties
  <2> QED  BY <1>1, <2>2
<1>3. /\ after \in Seq(S) /\ Len(after) = Len(s) - i
      /\ \A j \in 1..(Len(s) - i) : after[j] = s[i + j]
  <2>1. \A j \in (i + 1)..Len(s) : s[j] \in S
    BY <1>1
  <2>2. /\ after \in Seq(S)
        /\ Len(after) = (IF i + 1 <= Len(s) THEN Len(s) - (i + 1) + 1 ELSE 0)
        /\ \A j \in 1..(Len(s) - (i + 1) + 1) : after[j] = s[i + 1 + j - 1]
    BY <1>1, <2>1, SubSeqProperties
  <2>3. Len(s) - (i + 1) + 1 = Len(s) - i
    BY <1>1
  <2>4. i + 1 <= Len(s) \/ Len(s) - i = 0
    BY <1>1
  <2> HIDE DEF after
  <2>5. Len(after) = Len(s) - i
    BY <1>1, <2>2, <2>4
  <2>6. ASSUME NEW j \in 1..(Len(s) - i) PROVE after[j] = s[i + j]
    <3>1. after[j] = s[i + 1 + j - 1]
      BY <2>2, <2>3
    <3>2. i + 1 + j - 1 = i + j
      BY <1>1
    <3> QED  BY <3>1, <3>2
  <2> QED  BY <2>2, <2>5, <2>6
<1>4. left = before \o after
  BY DEF RemoveAt
<1> HIDE DEF before, after, left
<1>5. /\ left \in Seq(S) /\ Len(left) = Len(s) - 1
      /\ \A j \in 1..(Len(s) - 1) : left[j] = IF j < i THEN s[j] ELSE s[j + 1]
  <2>1. /\ left \in Seq(S) /\ Len(left) = Len(before) + Len(after)
        /\ \A j \in 1..(Len(before) + Len(after)) :
             left[j] = IF j <= Len(before) THEN before[j] ELSE after[j - Len(before)]
    BY <1>2, <1>3, <1>4, ConcatProperties
  <2>2. Len(before) + Len(after) = Len(s) - 1
    BY <1>1, <1>2, <1>3
  <2>3. ASSUME NEW j \in 1..(Len(s) - 1) PROVE left[j] = IF j < i THEN s[j] ELSE s[j + 1]
    <3>1. CASE j < i
      <4>1. j <= i - 1 /\ j \in 1..(i - 1)
        BY <1>1, <3>1
      <4> QED  BY <1>2, <2>1, <2>2, <3>1, <4>1
    <3>2. CASE ~(j < i)
      <4>1. ~(j <= i - 1) /\ j - (i - 1) \in 1..(Len(s) - i) /\ i + (j - (i - 1)) = j + 1
        BY <1>1, <3>2
      <4>2. after[j - (i - 1)] = s[j + 1]
        BY <1>3, <4>1
      <4> QED  BY <1>2, <2>1, <2>2, <3>2, <4>1, <4>2
    <3> QED  BY <3>1, <3>2
  <2> QED  BY <2>1, <2>2, <2>3
<1>6. DOMAIN left = 1..(Len(s) - 1)
  BY <1>5, LenProperties
<1>7. \A j, k \in 1..Len(s) : s[j] = s[k] => j = k
  BY <1>1 DEF IsInjective
<1> DEFINE from(j) == IF j < i THEN j ELSE j + 1
<1>8. ASSUME NEW j \in 1..(Len(s) - 1)
      PROVE  from(j) \in 1..Len(s) /\ from(j) # i /\ left[j] = s[from(j)]
  BY <1>1, <1>5
<1>9. ASSUME NEW k \in 1..Len(s), k # i
      PROVE  \E j \in 1..(Len(s) - 1) : from(j) = k
  <2>1. CASE k < i
    <3>1. k \in 1..(Len(s) - 1) /\ from(k) = k
      BY <1>1, <2>1
    <3> QED  BY <3>1
  <2>2. CASE k > i
    <3>1. k - 1 \in 1..(Len(s) - 1) /\ from(k - 1) = k
      BY <1>1, <2>2
    <3> QED  BY <3>1
  <2> QED  BY <1>1, <1>9, <2>1, <2>2
<1>10. \A j, k \in 1..(Len(s) - 1) : from(j) = from(k) => j = k
  BY <1>1
<1>11. ToSet(left) = {left[j] : j \in 1..(Len(s) - 1)} /\ ToSet(s) = {s[j] : j \in 1..Len(s)}
  BY <1>1, <1>6 DEF ToSet
<1> HIDE DEF from
<1>12. ToSet(left) = ToSet(s) \ {s[i]}
  <2>1. ASSUME NEW x \in ToSet(left) PROVE x \in ToSet(s) \ {s[i]}
    <3>1. PICK j \in 1..(Len(s) - 1) : x = left[j]
      BY <1>11
    <3> QED  BY <1>1, <1>7, <1>8, <1>11, <3>1
  <2>2. ASSUME NEW x \in ToSet(s) \ {s[i]} PROVE x \in ToSet(left)
    <3>1. PICK k \in 1..Len(s) : x = s[k] /\ k # i
      BY <1>11
    <3>2. PICK j \in 1..(Len(s) - 1) : from(j) = k
      BY <1>9, <3>1
    <3> QED  BY <1>8, <1>11, <3>1, <3>2
  <2> QED  BY <2>1, <2>2
<1>13. IsInjective(left)
  <2>1. ASSUME NEW j \in 1..(Len(s) - 1), NEW k \in 1..(Len(s) - 1), left[j] = left[k]
        PROVE  j = k
    BY <1>7, <1>8, <1>10, <2>1
  <2> QED  BY <1>6, <2>1 DEF IsInjective
<1> QED  BY <1>12, <1>13 DEF left

LEMMA AppendSplit ==
  ASSUME NEW S, NEW s \in Seq(S), NEW x \in S, IsInjective(s), x \notin ToSet(s)
  PROVE  /\ Append(s, x) \in Seq(S) /\ IsInjective(Append(s, x))
         /\ ToSet(Append(s, x)) = ToSet(s) \cup {x}
<1>1. /\ Len(s) \in Nat /\ DOMAIN s = 1..Len(s)
  BY LenProperties
<1> PICK t : t = Append(s, x)
  OBVIOUS
<1>2. /\ t \in Seq(S) /\ Len(t) = Len(s) + 1
      /\ \A i \in 1..Len(s) : t[i] = s[i]
      /\ t[Len(s) + 1] = x
  BY AppendProperties
<1>3. DOMAIN t = 1..(Len(s) + 1)
  BY <1>2, LenProperties
<1>4. \A i \in 1..(Len(s) + 1) : i \in 1..Len(s) \/ i = Len(s) + 1
  BY <1>1
<1>5. \A i \in 1..Len(s) : i \in 1..(Len(s) + 1)
  BY <1>1
<1>6. Len(s) + 1 \in 1..(Len(s) + 1)
  BY <1>1
<1>7. ToSet(t) = ToSet(s) \cup {x}
  <2>1. \A y \in ToSet(t) : y \in ToSet(s) \cup {x}
    BY <1>1, <1>2, <1>3, <1>4 DEF ToSet
  <2>2. \A y \in ToSet(s) \cup {x} : y \in ToSet(t)
    BY <1>1, <1>2, <1>3, <1>5, <1>6 DEF ToSet
  <2> QED  BY <2>1, <2>2
<1>8. IsInjective(t)
  <2> SUFFICES ASSUME NEW i \in 1..(Len(s) + 1), NEW j \in 1..(Len(s) + 1), t[i] = t[j]
               PROVE  i = j
    BY <1>3 DEF IsInjective
  <2>1. \A k \in 1..Len(s) : s[k] # x
    BY <1>1 DEF ToSet
  <2> QED  BY <1>1, <1>2, <1>4, <2>1 DEF IsInjective
<1> QED  BY <1>2, <1>7, <1>8

HoldsSlot == {"granted", "running"}

HeldFlights(fl)   == {f \in Flight : fl[f] \in HoldsSlot}
QueuedFlights(fl) == {f \in Flight : fl[f] = "queued"}
HeldReaders(rd)   == {r \in Interactive : rd[r] \in HoldsSlot}
QueuedReaders(rd) == {r \in Interactive : rd[r] = "queued"}

ReaderPhase == {"idle", "queued", "granted", "running"}

(* Counters and queues say what flights and readers do: nobody holds a     *)
(* slot that is not counted, and each waiter stands in its queue once.     *)
Booked(act, owned, q, fl, rd) ==
  /\ act \in [panel : Int, interactive : Int]
  /\ q \in [panel : Seq(Flight), interactive : Seq(Interactive)]
  /\ fl \in [Flight -> FlightPhase] /\ rd \in [Interactive -> ReaderPhase]
  /\ IsInjective(q.panel) /\ ToSet(q.panel) = QueuedFlights(fl)
  /\ IsInjective(q.interactive) /\ ToSet(q.interactive) = QueuedReaders(rd)
  /\ act.panel = Cardinality(HeldFlights(fl))
  /\ act.interactive = Cardinality(HeldReaders(rd))
  /\ owned = act.panel

SlotBooks == Booked(active, batchActive, queue, flight, reader)

LEMMA FlightsFinite ==
  /\ IsFiniteSet(Flight)
  /\ \A fl : IsFiniteSet(HeldFlights(fl)) /\ IsFiniteSet(QueuedFlights(fl))
  /\ \A rd : IsFiniteSet(HeldReaders(rd)) /\ IsFiniteSet(QueuedReaders(rd))
<1>1. IsFiniteSet(Batch \X Key)
  BY FS_Product, AdmissionAssumption
<1>2. IsFiniteSet(Flight)
  BY <1>1, FS_Subset DEF Flight
<1>3. /\ \A fl : HeldFlights(fl) \subseteq Flight /\ QueuedFlights(fl) \subseteq Flight
      /\ \A rd : HeldReaders(rd) \subseteq Interactive /\ QueuedReaders(rd) \subseteq Interactive
  BY DEF HeldFlights, QueuedFlights, HeldReaders, QueuedReaders
<1> QED  BY <1>2, <1>3, FS_Subset, AdmissionAssumption

(* What a wake makes of a flight. *)
Woken(fl) ==
  \A f \in Flight : flight'[f] = fl[f] \/ (fl[f] = "queued" /\ flight'[f] = "granted")

LEMMA WakeBooks ==
  ASSUME NEW act, NEW owned, NEW q, NEW fl, NEW rd,
         Booked(act, owned, q, fl, rd), Wake(act, owned, q, fl, rd)
  PROVE  SlotBooks' /\ Woken(fl)
<1>0. /\ act.panel \in Int /\ act.interactive \in Int
      /\ act = [panel |-> act.panel, interactive |-> act.interactive]
      /\ q.panel \in Seq(Flight) /\ q.interactive \in Seq(Interactive)
      /\ Len(q.panel) \in Nat /\ Len(q.interactive) \in Nat
      /\ Slots \in Int /\ Shared \in Int
  BY SharedType, AdmissionAssumption DEF Booked
<1>1. PICK i, p : i = InteractiveGrants(act, q) /\ p = PanelGrants(act, q)
  OBVIOUS
<1>2. i \in 0..Len(q.interactive) /\ i \in Int
  <2>1. KeptForPanels(act, q) \in Int
    BY <1>0 DEF KeptForPanels, Least
  <2>2. InteractiveRoom(act, q) \in Int
    BY <1>0, <2>1 DEF InteractiveRoom, Least
  <2> QED  BY <1>0, <1>1, <2>2 DEF InteractiveGrants, Least, Greatest
<1>3. p \in 0..Len(q.panel) /\ p \in Int
  <2> DEFINE after == [act EXCEPT !.interactive = @ + i]
  <2>1. after.panel \in Int /\ after.interactive \in Int
    BY <1>0, <1>2
  <2>2. p = Greatest(0, Least(Len(q.panel), PanelRoom(after)))
    BY <1>1 DEF PanelGrants
  <2> HIDE DEF after
  <2>3. PanelRoom(after) \in Int
    BY <1>0, <2>1 DEF PanelRoom, Least
  <2> QED  BY <1>0, <2>2, <2>3 DEF Least, Greatest
<1> DEFINE P == Taken(q.panel, p)
           I == Taken(q.interactive, i)
           pq == SubSeq(q.panel, p + 1, Len(q.panel))
           iq == SubSeq(q.interactive, i + 1, Len(q.interactive))
<1>4. /\ active' = [panel |-> act.panel + p, interactive |-> act.interactive + i]
      /\ batchActive' = owned + p
      /\ queue' = [panel |-> pq, interactive |-> iq]
      /\ flight' = [f \in Flight |-> IF f \in P THEN "granted" ELSE fl[f]]
      /\ reader' = [r \in Interactive |-> IF r \in I THEN "granted" ELSE rd[r]]
  BY <1>1 DEF Wake
<1>5. /\ IsInjective(q.panel) /\ ToSet(q.panel) = QueuedFlights(fl)
      /\ IsInjective(q.interactive) /\ ToSet(q.interactive) = QueuedReaders(rd)
  BY DEF Booked
<1>6. /\ P \subseteq QueuedFlights(fl) /\ ToSet(pq) = QueuedFlights(fl) \ P
      /\ IsInjective(pq) /\ IsFiniteSet(P) /\ Cardinality(P) = p /\ pq \in Seq(Flight)
  BY <1>0, <1>3, <1>5, TakenSplit, Cut
<1>7. /\ I \subseteq QueuedReaders(rd) /\ ToSet(iq) = QueuedReaders(rd) \ I
      /\ IsInjective(iq) /\ IsFiniteSet(I) /\ Cardinality(I) = i /\ iq \in Seq(Interactive)
  BY <1>0, <1>2, <1>5, TakenSplit, Cut
<1> HIDE DEF P, I, pq, iq
<1>8. /\ queue'.panel = pq /\ queue'.interactive = iq
      /\ queue' \in [panel : Seq(Flight), interactive : Seq(Interactive)]
      /\ active'.panel = act.panel + p /\ active'.interactive = act.interactive + i
      /\ active' \in [panel : Int, interactive : Int]
  BY <1>0, <1>2, <1>3, <1>4, <1>6, <1>7
<1>9. /\ flight' \in [Flight -> FlightPhase] /\ reader' \in [Interactive -> ReaderPhase]
  BY <1>4 DEF Booked, FlightPhase, ReaderPhase
<1>10. QueuedFlights(flight') = QueuedFlights(fl) \ P
  BY <1>4 DEF QueuedFlights
<1>11. HeldFlights(flight') = HeldFlights(fl) \cup P
  BY <1>4, <1>6 DEF QueuedFlights, HeldFlights, HoldsSlot
<1>12. QueuedReaders(reader') = QueuedReaders(rd) \ I
  BY <1>4 DEF QueuedReaders
<1>13. HeldReaders(reader') = HeldReaders(rd) \cup I
  BY <1>4, <1>7 DEF QueuedReaders, HeldReaders, HoldsSlot
<1>14. Cardinality(HeldFlights(flight')) = act.panel + p
  <2>1. HeldFlights(fl) \cap P = {}
    BY <1>6 DEF QueuedFlights, HeldFlights, HoldsSlot
  <2>2. IsFiniteSet(HeldFlights(fl)) /\ Cardinality(HeldFlights(fl)) = act.panel
    BY FlightsFinite DEF Booked
  <2>3. Cardinality(HeldFlights(fl) \cup P)
          = Cardinality(HeldFlights(fl)) + Cardinality(P) - Cardinality(HeldFlights(fl) \cap P)
    BY <1>6, <2>2, FS_Union
  <2>4. Cardinality(HeldFlights(fl) \cap P) = 0
    BY <2>1, FS_EmptySet
  <2>5. Cardinality(HeldFlights(fl) \cup P) = act.panel + p - 0
    BY ONLY <1>6, <2>2, <2>3, <2>4
  <2> QED  BY <1>0, <1>3, <1>11, <2>5
<1>15. Cardinality(HeldReaders(reader')) = act.interactive + i
  <2>1. HeldReaders(rd) \cap I = {}
    BY <1>7 DEF QueuedReaders, HeldReaders, HoldsSlot
  <2>2. IsFiniteSet(HeldReaders(rd)) /\ Cardinality(HeldReaders(rd)) = act.interactive
    BY FlightsFinite DEF Booked
  <2>3. Cardinality(HeldReaders(rd) \cup I)
          = Cardinality(HeldReaders(rd)) + Cardinality(I) - Cardinality(HeldReaders(rd) \cap I)
    BY <1>7, <2>2, FS_Union
  <2>4. Cardinality(HeldReaders(rd) \cap I) = 0
    BY <2>1, FS_EmptySet
  <2>5. Cardinality(HeldReaders(rd) \cup I) = act.interactive + i - 0
    BY ONLY <1>7, <2>2, <2>3, <2>4
  <2> QED  BY <1>0, <1>2, <1>13, <2>5
<1>16. SlotBooks'
  <2>1. batchActive' = active'.panel
    BY <1>4, <1>8 DEF Booked
  <2> QED  BY <1>6, <1>7, <1>8, <1>9, <1>10, <1>12, <1>14, <1>15, <2>1 DEF SlotBooks, Booked
<1>17. Woken(fl)
  BY <1>4, <1>6 DEF Woken, QueuedFlights
<1> QED  BY <1>16, <1>17

-----------------------------------------------------------------------------
(* What one reader or one flight does to the books.                        *)

(* A move between phases of which neither or both hold a slot. *)
LEMMA BookedAside ==
  ASSUME NEW act, NEW owned, NEW q, NEW fl, NEW rd, Booked(act, owned, q, fl, rd),
         NEW f \in Flight, NEW to \in FlightPhase,
         fl[f] # "queued", to # "queued", fl[f] \in HoldsSlot <=> to \in HoldsSlot
  PROVE  Booked(act, owned, q, [fl EXCEPT ![f] = to], rd)
<1> PICK fl2 : fl2 = [fl EXCEPT ![f] = to]
  OBVIOUS
<1>1. /\ fl2 \in [Flight -> FlightPhase]
      /\ HeldFlights(fl2) = HeldFlights(fl) /\ QueuedFlights(fl2) = QueuedFlights(fl)
  BY DEF Booked, HeldFlights, QueuedFlights
<1> QED  BY <1>1 DEF Booked

LEMMA BookedSlotTaken ==
  ASSUME NEW act, NEW owned, NEW q, NEW fl, NEW rd, Booked(act, owned, q, fl, rd),
         NEW f \in Flight, fl[f] = "referenced"
  PROVE  Booked([act EXCEPT !.panel = @ + 1], owned + 1, q, [fl EXCEPT ![f] = "running"], rd)
<1> PICK fl2 : fl2 = [fl EXCEPT ![f] = "running"]
  OBVIOUS
<1>1. /\ fl2 \in [Flight -> FlightPhase] /\ f \notin HeldFlights(fl)
      /\ HeldFlights(fl2) = HeldFlights(fl) \cup {f} /\ QueuedFlights(fl2) = QueuedFlights(fl)
  BY DEF Booked, HeldFlights, QueuedFlights, HoldsSlot, FlightPhase
<1>2. Cardinality(HeldFlights(fl2)) = act.panel + 1
  <2>1. IsFiniteSet(HeldFlights(fl))
    BY FlightsFinite
  <2>2. Cardinality(HeldFlights(fl) \cup {f}) = Cardinality(HeldFlights(fl)) + 1
    BY <1>1, <2>1, FS_AddElement
  <2> QED  BY <1>1, <2>2 DEF Booked
<1> PICK act2 : act2 = [act EXCEPT !.panel = @ + 1]
  OBVIOUS
<1>3. /\ act2 \in [panel : Int, interactive : Int]
      /\ act2.panel = act.panel + 1 /\ act2.interactive = act.interactive
  BY DEF Booked
<1>4. owned + 1 = act2.panel
  BY <1>3 DEF Booked
<1> QED  BY <1>1, <1>2, <1>3, <1>4 DEF Booked

LEMMA BookedSlotReturned ==
  ASSUME NEW act, NEW owned, NEW q, NEW fl, NEW rd, Booked(act, owned, q, fl, rd),
         NEW f \in Flight, fl[f] \in HoldsSlot
  PROVE  Booked([act EXCEPT !.panel = @ - 1], owned - 1, q, [fl EXCEPT ![f] = "freed"], rd)
<1> PICK fl2 : fl2 = [fl EXCEPT ![f] = "freed"]
  OBVIOUS
<1>1. /\ fl2 \in [Flight -> FlightPhase] /\ f \in HeldFlights(fl)
      /\ HeldFlights(fl2) = HeldFlights(fl) \ {f} /\ QueuedFlights(fl2) = QueuedFlights(fl)
  BY DEF Booked, HeldFlights, QueuedFlights, HoldsSlot, FlightPhase
<1>2. Cardinality(HeldFlights(fl2)) = act.panel - 1
  <2>1. IsFiniteSet(HeldFlights(fl))
    BY FlightsFinite
  <2>2. Cardinality(HeldFlights(fl) \ {f}) = Cardinality(HeldFlights(fl)) - 1
    BY <1>1, <2>1, FS_RemoveElement
  <2> QED  BY <1>1, <2>2 DEF Booked
<1> PICK act2 : act2 = [act EXCEPT !.panel = @ - 1]
  OBVIOUS
<1>3. /\ act2 \in [panel : Int, interactive : Int]
      /\ act2.panel = act.panel - 1 /\ act2.interactive = act.interactive
  BY DEF Booked
<1>4. owned - 1 = act2.panel
  BY <1>3 DEF Booked
<1> QED  BY <1>1, <1>2, <1>3, <1>4 DEF Booked

LEMMA BookedPanelQueues ==
  ASSUME NEW act, NEW owned, NEW q, NEW fl, NEW rd, Booked(act, owned, q, fl, rd),
         NEW f \in Flight, fl[f] = "referenced"
  PROVE  Booked(act, owned, [q EXCEPT !.panel = Append(@, f)], [fl EXCEPT ![f] = "queued"], rd)
<1> PICK fl2 : fl2 = [fl EXCEPT ![f] = "queued"]
  OBVIOUS
<1>1. /\ fl2 \in [Flight -> FlightPhase] /\ f \notin QueuedFlights(fl)
      /\ HeldFlights(fl2) = HeldFlights(fl) /\ QueuedFlights(fl2) = QueuedFlights(fl) \cup {f}
  BY DEF Booked, HeldFlights, QueuedFlights, HoldsSlot, FlightPhase
<1> PICK pq : pq = Append(q.panel, f)
  OBVIOUS
<1>2. pq \in Seq(Flight) /\ IsInjective(pq) /\ ToSet(pq) = QueuedFlights(fl) \cup {f}
  BY <1>1, AppendSplit DEF Booked
<1>3. [q EXCEPT !.panel = pq] = [panel |-> pq, interactive |-> q.interactive]
  <2>1. q \in [panel : Seq(Flight), interactive : Seq(Interactive)]
    BY DEF Booked
  <2> QED  BY ONLY <2>1
<1> QED  BY <1>1, <1>2, <1>3 DEF Booked

LEMMA BookedPanelLeaves ==
  ASSUME NEW act, NEW owned, NEW q, NEW fl, NEW rd, Booked(act, owned, q, fl, rd),
         NEW f \in Flight, NEW i \in DOMAIN q.panel, q.panel[i] = f
  PROVE  Booked(act, owned, [q EXCEPT !.panel = RemoveAt(@, i)], [fl EXCEPT ![f] = "freed"], rd)
<1> PICK fl2 : fl2 = [fl EXCEPT ![f] = "freed"]
  OBVIOUS
<1>0. fl[f] = "queued"
  BY DEF Booked, ToSet, QueuedFlights
<1>1. /\ fl2 \in [Flight -> FlightPhase]
      /\ HeldFlights(fl2) = HeldFlights(fl) /\ QueuedFlights(fl2) = QueuedFlights(fl) \ {f}
  BY <1>0 DEF Booked, HeldFlights, QueuedFlights, HoldsSlot, FlightPhase
<1> PICK pq : pq = RemoveAt(q.panel, i)
  OBVIOUS
<1>2. pq \in Seq(Flight) /\ IsInjective(pq) /\ ToSet(pq) = QueuedFlights(fl) \ {f}
  BY RemoveSplit, RemoveAtType DEF Booked
<1>3. [q EXCEPT !.panel = RemoveAt(@, i)] = [panel |-> pq, interactive |-> q.interactive]
  BY DEF Booked
<1> QED  BY <1>1, <1>2, <1>3 DEF Booked

LEMMA BookedReaderAside ==
  ASSUME NEW act, NEW owned, NEW q, NEW fl, NEW rd, Booked(act, owned, q, fl, rd),
         NEW r \in Interactive, rd[r] = "granted"
  PROVE  Booked(act, owned, q, fl, [rd EXCEPT ![r] = "running"])
<1> PICK rd2 : rd2 = [rd EXCEPT ![r] = "running"]
  OBVIOUS
<1>1. /\ rd2 \in [Interactive -> ReaderPhase]
      /\ HeldReaders(rd2) = HeldReaders(rd) /\ QueuedReaders(rd2) = QueuedReaders(rd)
  BY DEF Booked, HeldReaders, QueuedReaders, HoldsSlot, ReaderPhase
<1> QED  BY <1>1 DEF Booked

LEMMA BookedReaderTakes ==
  ASSUME NEW act, NEW owned, NEW q, NEW fl, NEW rd, Booked(act, owned, q, fl, rd),
         NEW r \in Interactive, rd[r] = "idle"
  PROVE  Booked([act EXCEPT !.interactive = @ + 1], owned, q, fl, [rd EXCEPT ![r] = "running"])
<1> PICK rd2 : rd2 = [rd EXCEPT ![r] = "running"]
  OBVIOUS
<1>1. /\ rd2 \in [Interactive -> ReaderPhase] /\ r \notin HeldReaders(rd)
      /\ HeldReaders(rd2) = HeldReaders(rd) \cup {r} /\ QueuedReaders(rd2) = QueuedReaders(rd)
  BY DEF Booked, HeldReaders, QueuedReaders, HoldsSlot, ReaderPhase
<1>2. Cardinality(HeldReaders(rd2)) = act.interactive + 1
  <2>1. IsFiniteSet(HeldReaders(rd))
    BY FlightsFinite
  <2>2. Cardinality(HeldReaders(rd) \cup {r}) = Cardinality(HeldReaders(rd)) + 1
    BY <1>1, <2>1, FS_AddElement
  <2> QED  BY <1>1, <2>2 DEF Booked
<1> PICK act2 : act2 = [act EXCEPT !.interactive = @ + 1]
  OBVIOUS
<1>3. /\ act2 \in [panel : Int, interactive : Int]
      /\ act2.interactive = act.interactive + 1 /\ act2.panel = act.panel
  BY DEF Booked
<1> QED  BY <1>1, <1>2, <1>3 DEF Booked

LEMMA BookedReaderReturns ==
  ASSUME NEW act, NEW owned, NEW q, NEW fl, NEW rd, Booked(act, owned, q, fl, rd),
         NEW r \in Interactive, rd[r] \in HoldsSlot
  PROVE  Booked([act EXCEPT !.interactive = @ - 1], owned, q, fl, [rd EXCEPT ![r] = "idle"])
<1> PICK rd2 : rd2 = [rd EXCEPT ![r] = "idle"]
  OBVIOUS
<1>1. /\ rd2 \in [Interactive -> ReaderPhase] /\ r \in HeldReaders(rd)
      /\ HeldReaders(rd2) = HeldReaders(rd) \ {r} /\ QueuedReaders(rd2) = QueuedReaders(rd)
  BY DEF Booked, HeldReaders, QueuedReaders, HoldsSlot, ReaderPhase
<1>2. Cardinality(HeldReaders(rd2)) = act.interactive - 1
  <2>1. IsFiniteSet(HeldReaders(rd))
    BY FlightsFinite
  <2>2. Cardinality(HeldReaders(rd) \ {r}) = Cardinality(HeldReaders(rd)) - 1
    BY <1>1, <2>1, FS_RemoveElement
  <2> QED  BY <1>1, <2>2 DEF Booked
<1> PICK act2 : act2 = [act EXCEPT !.interactive = @ - 1]
  OBVIOUS
<1>3. /\ act2 \in [panel : Int, interactive : Int]
      /\ act2.interactive = act.interactive - 1 /\ act2.panel = act.panel
  BY DEF Booked
<1> QED  BY <1>1, <1>2, <1>3 DEF Booked

LEMMA BookedReaderQueues ==
  ASSUME NEW act, NEW owned, NEW q, NEW fl, NEW rd, Booked(act, owned, q, fl, rd),
         NEW r \in Interactive, rd[r] = "idle"
  PROVE  Booked(act, owned, [q EXCEPT !.interactive = Append(@, r)], fl,
                [rd EXCEPT ![r] = "queued"])
<1> PICK rd2 : rd2 = [rd EXCEPT ![r] = "queued"]
  OBVIOUS
<1>1. /\ rd2 \in [Interactive -> ReaderPhase] /\ r \notin QueuedReaders(rd)
      /\ HeldReaders(rd2) = HeldReaders(rd) /\ QueuedReaders(rd2) = QueuedReaders(rd) \cup {r}
  BY DEF Booked, HeldReaders, QueuedReaders, HoldsSlot, ReaderPhase
<1> PICK iq : iq = Append(q.interactive, r)
  OBVIOUS
<1>2. iq \in Seq(Interactive) /\ IsInjective(iq) /\ ToSet(iq) = QueuedReaders(rd) \cup {r}
  BY <1>1, AppendSplit DEF Booked
<1>3. [q EXCEPT !.interactive = iq] = [panel |-> q.panel, interactive |-> iq]
  <2>1. q \in [panel : Seq(Flight), interactive : Seq(Interactive)]
    BY DEF Booked
  <2> QED  BY ONLY <2>1
<1> QED  BY <1>1, <1>2, <1>3 DEF Booked

LEMMA BookedReaderLeaves ==
  ASSUME NEW act, NEW owned, NEW q, NEW fl, NEW rd, Booked(act, owned, q, fl, rd),
         NEW r \in Interactive, NEW i \in DOMAIN q.interactive, q.interactive[i] = r
  PROVE  Booked(act, owned, [q EXCEPT !.interactive = RemoveAt(@, i)], fl,
                [rd EXCEPT ![r] = "idle"])
<1> PICK rd2 : rd2 = [rd EXCEPT ![r] = "idle"]
  OBVIOUS
<1>0. rd[r] = "queued"
  BY DEF Booked, ToSet, QueuedReaders
<1>1. /\ rd2 \in [Interactive -> ReaderPhase]
      /\ HeldReaders(rd2) = HeldReaders(rd) /\ QueuedReaders(rd2) = QueuedReaders(rd) \ {r}
  BY <1>0 DEF Booked, HeldReaders, QueuedReaders, HoldsSlot, ReaderPhase
<1> PICK iq : iq = RemoveAt(q.interactive, i)
  OBVIOUS
<1>2. iq \in Seq(Interactive) /\ IsInjective(iq) /\ ToSet(iq) = QueuedReaders(rd) \ {r}
  BY RemoveSplit, RemoveAtType DEF Booked
<1>3. [q EXCEPT !.interactive = RemoveAt(@, i)] = [panel |-> q.panel, interactive |-> iq]
  BY DEF Booked
<1> QED  BY <1>1, <1>2, <1>3 DEF Booked

-----------------------------------------------------------------------------
(* The books keep through every step.                                      *)

(* A panel still to be looked up has no flight of its own. *)
PendingInv == \A f \in Flight : panel[f] = "pending" => flight[f] = "none"

LEMMA NextSlotBooks ==
  ASSUME SlotBooks, PendingInv, [Next]_vars
  PROVE  SlotBooks'
<1> USE DEF SlotBooks
<1>t. /\ flight \in [Flight -> FlightPhase] /\ reader \in [Interactive -> ReaderPhase]
  BY DEF Booked
<1>u. ASSUME UNCHANGED <<active, queue, batchActive, flight, reader>> PROVE SlotBooks'
  BY <1>u
<1>m. ASSUME NEW f \in Flight, NEW from, NEW to \in FlightPhase, Step(f, from, to),
             from # "queued", to # "queued", from \in HoldsSlot <=> to \in HoldsSlot,
             UNCHANGED <<active, queue, batchActive, reader>>
      PROVE  SlotBooks'
  <2>1. flight[f] = from /\ flight' = [flight EXCEPT ![f] = to]
    BY <1>m DEF Step
  <2>2. Booked(active, batchActive, queue, [flight EXCEPT ![f] = to], reader)
    BY <1>m, <2>1, BookedAside
  <2> QED  BY <1>m, <2>1, <2>2
<1>1. ASSUME NEW r \in Interactive, Arrive(r) \/ Read(r) \/ AbandonInteractive(r)
      PROVE  SlotBooks'
  <2>1. CASE AcquireInteractive(r)
    BY <2>1, BookedReaderTakes DEF AcquireInteractive
  <2>2. CASE EnqueueInteractive(r)
    BY <2>2, BookedReaderQueues DEF EnqueueInteractive
  <2>3. CASE StartInteractive(r)
    BY <2>3, BookedReaderAside DEF StartInteractive
  <2>4. CASE ReleaseInteractive(r)
    <3>1. reader[r] \in HoldsSlot
      BY <2>4 DEF ReleaseInteractive, HoldsSlot
    <3>2. Booked([active EXCEPT !.interactive = @ - 1], batchActive, queue, flight,
                 [reader EXCEPT ![r] = "idle"])
      BY <3>1, BookedReaderReturns
    <3> QED  BY <2>4, <3>2, WakeBooks DEF ReleaseInteractive
  <2>5. CASE AbandonInteractive(r)
    <3>1. PICK i \in DOMAIN queue.interactive :
            /\ queue.interactive[i] = r
            /\ Wake(active, batchActive, [queue EXCEPT !.interactive = RemoveAt(@, i)],
                    flight, [reader EXCEPT ![r] = "idle"])
      BY <2>5 DEF AbandonInteractive
    <3>2. Booked(active, batchActive, [queue EXCEPT !.interactive = RemoveAt(@, i)],
                 flight, [reader EXCEPT ![r] = "idle"])
      BY <3>1, BookedReaderLeaves
    <3> QED  BY <3>1, <3>2, WakeBooks
  <2> QED  BY <1>1, <2>1, <2>2, <2>3, <2>4, <2>5 DEF Arrive, Read
<1>2. ASSUME NEW f \in Flight, Run(f) PROVE SlotBooks'
  <2>1. CASE AcquireLimit(f)
    BY <2>1, <1>m DEF AcquireLimit, FlightPhase, HoldsSlot
  <2>2. CASE TakeReference(f)
    <3>1. Step(f, "limited", "referenced") \/ Step(f, "limited", "ran")
      BY <2>2 DEF TakeReference
    <3>2. UNCHANGED <<active, queue, batchActive, reader>>
      BY <2>2 DEF TakeReference
    <3> QED  BY <3>1, <3>2, <1>m DEF FlightPhase, HoldsSlot
  <2>3. CASE AcquireSlot(f)
    BY <2>3, BookedSlotTaken DEF AcquireSlot, Step
  <2>4. CASE EnqueuePanel(f)
    BY <2>4, BookedPanelQueues DEF EnqueuePanel, Step
  <2>5. CASE StartPanel(f)
    BY <2>5, <1>m DEF StartPanel, FlightPhase, HoldsSlot
  <2>6. CASE ReleasePanel(f)
    <3>1. Booked([active EXCEPT !.panel = @ - 1], batchActive - 1, queue,
                 [flight EXCEPT ![f] = "freed"], reader)
      BY <2>6, BookedSlotReturned DEF ReleasePanel, HoldsSlot
    <3> QED  BY <2>6, <3>1, WakeBooks DEF ReleasePanel
  <2>7. CASE DropReference(f)
    BY <2>7, <1>m DEF DropReference, FlightPhase, HoldsSlot
  <2>8. CASE Publish(f)
    BY <2>8, <1>m DEF Publish, FlightPhase, HoldsSlot
  <2>9. CASE ReleaseFlight(f)
    BY <2>9, <1>m DEF ReleaseFlight, FlightPhase, HoldsSlot
  <2> QED  BY <1>2, <2>1, <2>2, <2>3, <2>4, <2>5, <2>6, <2>7, <2>8, <2>9 DEF Run
<1>3. ASSUME NEW f \in Flight, AbandonPanel(f) PROVE SlotBooks'
  <2>1. PICK i \in DOMAIN queue.panel :
          /\ queue.panel[i] = f
          /\ Wake(active, batchActive, [queue EXCEPT !.panel = RemoveAt(@, i)],
                  [flight EXCEPT ![f] = "freed"], reader)
    BY <1>3 DEF AbandonPanel
  <2>2. Booked(active, batchActive, [queue EXCEPT !.panel = RemoveAt(@, i)],
               [flight EXCEPT ![f] = "freed"], reader)
    BY <2>1, BookedPanelLeaves
  <2> QED  BY <2>1, <2>2, WakeBooks
<1>4. ASSUME NEW f \in Flight, GiveBack(f) PROVE SlotBooks'
  <2>1. Booked([active EXCEPT !.panel = @ - 1], batchActive - 1, queue,
               [flight EXCEPT ![f] = "freed"], reader)
    BY <1>4, BookedSlotReturned DEF GiveBack, HoldsSlot
  <2> QED  BY <1>4, <2>1, WakeBooks DEF GiveBack
<1>5. ASSUME NEW f \in Flight, CancelEarly(f) PROVE SlotBooks'
  <2>1. Step(f, "starting", "ran") \/ Step(f, "referenced", "freed")
    BY <1>5 DEF CancelEarly
  <2>2. UNCHANGED <<active, queue, batchActive, reader>>
    BY <1>5 DEF CancelEarly
  <2> QED  BY <2>1, <2>2, <1>m DEF FlightPhase, HoldsSlot
<1>6. ASSUME NEW b \in Batch, Admit(b) \/ Close(b) PROVE SlotBooks'
  BY <1>6, <1>u DEF Admit, Close
<1>7. ASSUME NEW b \in Batch, NEW k \in Asks[b], Lookup(b, k) \/ CallerLeaves(b, k)
      PROVE  SlotBooks'
  <2>1. CASE Answered(b, k) \/ Join(b, k) \/ CallerLeaves(b, k)
    BY <2>1, <1>u DEF Answered, Join, CallerLeaves
  <2>2. CASE StartFlight(b, k)
    <3>1. <<b, k>> \in Flight
      BY AdmissionAssumption DEF Flight
    <3>2. flight[<<b, k>>] = "none"
      BY <2>2, <3>1 DEF StartFlight, Looking, PendingInv
    <3> QED  BY <2>2, <3>1, <3>2, <1>m DEF StartFlight, Step, FlightPhase, HoldsSlot
  <2> QED  BY <1>7, <2>1, <2>2 DEF Lookup
<1>8. ASSUME NEW b \in Batch, Refresh(b) PROVE SlotBooks'
  <2>1. ASSUME NEW k \in Asks[b] PROVE <<b, k>> \in Flight
    BY AdmissionAssumption DEF Flight
  <2> QED  BY <1>2, <1>6, <1>7, <1>8, <2>1 DEF Refresh
<1>9. CASE UNCHANGED vars
  BY <1>9, <1>u DEF vars
<1> HIDE DEF SlotBooks
<1> QED  BY <1>1, <1>3, <1>4, <1>5, <1>6, <1>7, <1>8, <1>9 DEF Next

Refers == {"referenced", "queued", "granted", "running", "freed"}

RefKeys(b, fl)  == {k \in Asks[b] : fl[<<b, k>>] \in Refers}
BusyKeys(b, fl) == {k \in Asks[b] : fl[<<b, k>>] # "none"}

(* A batch has its ticket exactly while its response is open or a flight   *)
(* of it is unfinished, and its counters count its flights.                *)
TicketInv ==
  /\ batch \in [Batch -> {"idle", "open", "closed"}] /\ ticket \in [Batch -> BOOLEAN]
  /\ refs \in [Batch -> Int] /\ retained \in [Batch -> Int]
  /\ panel \in [Flight -> {"pending", "done"} \cup Batch]
  /\ registered \in [Key -> Batch \cup {None}]
  /\ batches = Cardinality({b \in Batch : ticket[b]})
  /\ \A b \in Batch :
       /\ refs[b] = Cardinality(RefKeys(b, flight))
       /\ retained[b] = Cardinality(BusyKeys(b, flight))
       /\ ticket[b] <=> batch[b] = "open" \/ BusyKeys(b, flight) # {}
       /\ batch[b] = "idle" => BusyKeys(b, flight) = {}
  /\ PendingInv

BookInv == SlotBooks /\ TicketInv

LEMMA AsksAreFlights ==
  ASSUME NEW b \in Batch, NEW k \in Asks[b]
  PROVE  <<b, k>> \in Flight /\ k \in Key
BY AdmissionAssumption DEF Flight

LEMMA FlightParts ==
  ASSUME NEW f \in Flight
  PROVE  \E b \in Batch, k \in Key : f = <<b, k>> /\ k \in Asks[b] /\ f[1] = b /\ f[2] = k
BY DEF Flight

LEMMA KeysFinite ==
  ASSUME NEW b \in Batch, NEW fl
  PROVE  /\ IsFiniteSet(RefKeys(b, fl)) /\ IsFiniteSet(BusyKeys(b, fl))
         /\ Cardinality(RefKeys(b, fl)) \in Nat /\ Cardinality(BusyKeys(b, fl)) \in Nat
<1>1. RefKeys(b, fl) \subseteq Key /\ BusyKeys(b, fl) \subseteq Key
  BY AdmissionAssumption DEF RefKeys, BusyKeys
<1>2. IsFiniteSet(RefKeys(b, fl)) /\ IsFiniteSet(BusyKeys(b, fl))
  BY <1>1, FS_Subset, AdmissionAssumption
<1> QED  BY <1>2, FS_CardinalityType

(* A step that leaves tickets alone and moves flights only between phases  *)
(* that count the same.                                                    *)
LEMMA TicketsAside ==
  ASSUME TicketInv, UNCHANGED batchVars,
         \A f \in Flight : /\ flight'[f] \in Refers <=> flight[f] \in Refers
                           /\ flight'[f] = "none" <=> flight[f] = "none",
         panel' \in [Flight -> {"pending", "done"} \cup Batch],
         registered' \in [Key -> Batch \cup {None}],
         \A f \in Flight : panel'[f] = "pending" => panel[f] = "pending"
  PROVE  TicketInv'
<1>1. \A b \in Batch : /\ RefKeys(b, flight') = RefKeys(b, flight)
                       /\ BusyKeys(b, flight') = BusyKeys(b, flight)
  BY AsksAreFlights DEF RefKeys, BusyKeys
<1>2. PendingInv'
  BY DEF TicketInv, PendingInv
<1>3. /\ batch' = batch /\ ticket' = ticket /\ refs' = refs /\ retained' = retained
      /\ batches' = batches
  OBVIOUS
<1> QED  BY <1>1, <1>2, <1>3 DEF TicketInv

(* A flight of batch b on its own, from and to whatever phase. *)
LEMMA KeysMove ==
  ASSUME flight \in [Flight -> FlightPhase],
         NEW b \in Batch, NEW k \in Asks[b], NEW to, flight' = [flight EXCEPT ![<<b, k>>] = to]
  PROVE  /\ \A c \in Batch \ {b} : /\ RefKeys(c, flight') = RefKeys(c, flight)
                                   /\ BusyKeys(c, flight') = BusyKeys(c, flight)
         /\ RefKeys(b, flight') = IF to \in Refers THEN RefKeys(b, flight) \cup {k}
                                  ELSE RefKeys(b, flight) \ {k}
         /\ BusyKeys(b, flight') = IF to # "none" THEN BusyKeys(b, flight) \cup {k}
                                   ELSE BusyKeys(b, flight) \ {k}
<1>1. flight'[<<b, k>>] = to /\ \A g \in Flight : g # <<b, k>> => flight'[g] = flight[g]
  BY AsksAreFlights
<1>2. ASSUME NEW c \in Batch, NEW j \in Asks[c], <<c, j>> # <<b, k>>
      PROVE  flight'[<<c, j>>] = flight[<<c, j>>]
  BY <1>1, <1>2, AsksAreFlights
<1>3. \A c \in Batch \ {b} : /\ RefKeys(c, flight') = RefKeys(c, flight)
                             /\ BusyKeys(c, flight') = BusyKeys(c, flight)
  <2> SUFFICES ASSUME NEW c \in Batch \ {b}
               PROVE  /\ RefKeys(c, flight') = RefKeys(c, flight)
                      /\ BusyKeys(c, flight') = BusyKeys(c, flight)
    OBVIOUS
  <2>1. \A j \in Asks[c] : flight'[<<c, j>>] = flight[<<c, j>>]
    BY <1>2
  <2> QED  BY <2>1 DEF RefKeys, BusyKeys
<1>4. \A j \in Asks[b] : j # k => flight'[<<b, j>>] = flight[<<b, j>>]
  BY <1>2
<1> QED  BY <1>1, <1>3, <1>4 DEF RefKeys, BusyKeys

(* What is left to show of a step that changes one batch. *)
LEMMA OneBatch ==
  ASSUME TicketInv, NEW b \in Batch,
         \A c \in Batch \ {b} :
           /\ RefKeys(c, flight') = RefKeys(c, flight)
           /\ BusyKeys(c, flight') = BusyKeys(c, flight)
           /\ refs'[c] = refs[c] /\ retained'[c] = retained[c]
           /\ ticket'[c] = ticket[c] /\ batch'[c] = batch[c],
         batch' \in [Batch -> {"idle", "open", "closed"}], ticket' \in [Batch -> BOOLEAN],
         refs' \in [Batch -> Int], retained' \in [Batch -> Int],
         panel' \in [Flight -> {"pending", "done"} \cup Batch],
         registered' \in [Key -> Batch \cup {None}],
         batches' = batches + (IF ticket'[b] THEN 1 ELSE 0) - (IF ticket[b] THEN 1 ELSE 0),
         refs'[b] = Cardinality(RefKeys(b, flight')),
         retained'[b] = Cardinality(BusyKeys(b, flight')),
         ticket'[b] <=> batch'[b] = "open" \/ BusyKeys(b, flight') # {},
         batch'[b] = "idle" => BusyKeys(b, flight') = {},
         PendingInv'
  PROVE  TicketInv'
<1> DEFINE T == {c \in Batch : ticket[c]}
           U == {c \in Batch : ticket'[c]}
<1>1. IsFiniteSet(T) /\ Cardinality(T) \in Int /\ batches = Cardinality(T)
  BY FS_Subset, FS_CardinalityType, AdmissionAssumption DEF TicketInv
<1>2. U = IF ticket'[b] THEN T \cup {b} ELSE T \ {b}
  OBVIOUS
<1>3. b \in T <=> ticket[b]
  OBVIOUS
<1> HIDE DEF T, U
<1>4. batches' = Cardinality(U)
  <2>1. Cardinality(T \cup {b}) = IF b \in T THEN Cardinality(T) ELSE Cardinality(T) + 1
    BY <1>1, FS_AddElement
  <2>2. Cardinality(T \ {b}) = IF b \in T THEN Cardinality(T) - 1 ELSE Cardinality(T)
    BY <1>1, FS_RemoveElement
  <2>3. CASE ticket'[b]
    BY <1>1, <1>2, <1>3, <2>1, <2>3
  <2>4. CASE ~ticket'[b]
    BY <1>1, <1>2, <1>3, <2>2, <2>4
  <2> QED  BY <2>3, <2>4
<1>5. \A c \in Batch :
        /\ refs'[c] = Cardinality(RefKeys(c, flight'))
        /\ retained'[c] = Cardinality(BusyKeys(c, flight'))
        /\ ticket'[c] <=> batch'[c] = "open" \/ BusyKeys(c, flight') # {}
        /\ batch'[c] = "idle" => BusyKeys(c, flight') = {}
  BY DEF TicketInv
<1> QED  BY <1>4, <1>5 DEF TicketInv, U

(* Every step keeps it. *)
LEMMA NextTicketInv ==
  ASSUME SlotBooks, TicketInv, [Next]_vars
  PROVE  TicketInv'
<1>t. flight \in [Flight -> FlightPhase]
  BY DEF SlotBooks, Booked
<1>y. /\ batch \in [Batch -> {"idle", "open", "closed"}] /\ ticket \in [Batch -> BOOLEAN]
      /\ refs \in [Batch -> Int] /\ retained \in [Batch -> Int]
      /\ panel \in [Flight -> {"pending", "done"} \cup Batch]
      /\ registered \in [Key -> Batch \cup {None}] /\ PendingInv
  BY DEF TicketInv
<1>b. \A b \in Batch :
        /\ refs[b] = Cardinality(RefKeys(b, flight)) /\ refs[b] \in Nat
        /\ retained[b] = Cardinality(BusyKeys(b, flight)) /\ retained[b] \in Nat
        /\ ticket[b] <=> batch[b] = "open" \/ BusyKeys(b, flight) # {}
        /\ batch[b] = "idle" => BusyKeys(b, flight) = {}
        /\ IsFiniteSet(RefKeys(b, flight)) /\ IsFiniteSet(BusyKeys(b, flight))
  BY KeysFinite DEF TicketInv
\* Nothing of the tickets moves, and the flight stays where it counts.
<1>m. ASSUME NEW f \in Flight, NEW to, flight' = [flight EXCEPT ![f] = to],
             to \in Refers <=> flight[f] \in Refers, to # "none", flight[f] # "none",
             UNCHANGED <<batchVars, cacheVars>>
      PROVE  TicketInv'
  <2>1. \A g \in Flight : /\ flight'[g] \in Refers <=> flight[g] \in Refers
                          /\ flight'[g] = "none" <=> flight[g] = "none"
    BY <1>m, <1>t
  <2> QED  BY <1>m, <1>y, <2>1, TicketsAside DEF cacheVars
<1>w. ASSUME NEW fl, Woken(fl), UNCHANGED <<batchVars, cacheVars>>,
             \A g \in Flight : /\ fl[g] \in Refers <=> flight[g] \in Refers
                               /\ fl[g] = "none" <=> flight[g] = "none"
      PROVE  TicketInv'
  <2>1. \A g \in Flight : /\ flight'[g] \in Refers <=> fl[g] \in Refers
                          /\ flight'[g] = "none" <=> fl[g] = "none"
    BY <1>w DEF Woken, Refers
  <2> QED  BY <1>w, <1>y, <2>1, TicketsAside DEF cacheVars
<1>s. ASSUME UNCHANGED <<batchVars, flight, registered>>,
             panel' \in [Flight -> {"pending", "done"} \cup Batch],
             \A f \in Flight : panel'[f] = "pending" => panel[f] = "pending"
      PROVE  TicketInv'
  BY <1>s, <1>y, TicketsAside
<1>f. ASSUME NEW f \in Flight, flight[f] \in Refers, NEW act, NEW owned, NEW q, NEW rd,
             Booked(act, owned, q, [flight EXCEPT ![f] = "freed"], rd),
             Wake(act, owned, q, [flight EXCEPT ![f] = "freed"], rd),
             UNCHANGED <<batchVars, cacheVars>>
      PROVE  TicketInv'
  <2> PICK fl : fl = [flight EXCEPT ![f] = "freed"]
    OBVIOUS
  <2>1. \A g \in Flight : /\ fl[g] \in Refers <=> flight[g] \in Refers
                          /\ fl[g] = "none" <=> flight[g] = "none"
    BY <1>f, <1>t DEF Refers
  <2>2. Woken(fl)
    BY <1>f, WakeBooks
  <2> QED  BY <1>f, <1>w, <2>1, <2>2
<1>1. ASSUME NEW r \in Interactive, Arrive(r) \/ Read(r) \/ AbandonInteractive(r)
      PROVE  TicketInv'
  <2>1. CASE AcquireInteractive(r) \/ EnqueueInteractive(r) \/ StartInteractive(r)
    <3>1. UNCHANGED <<batchVars, cacheVars, flight>>
      BY <2>1 DEF AcquireInteractive, EnqueueInteractive, StartInteractive
    <3> QED  BY <1>s, <1>y, <3>1 DEF cacheVars
  <2>2. CASE ReleaseInteractive(r)
    <3>1. reader[r] \in HoldsSlot
      BY <2>2 DEF ReleaseInteractive, HoldsSlot
    <3>2. Booked([active EXCEPT !.interactive = @ - 1], batchActive, queue, flight,
                 [reader EXCEPT ![r] = "idle"])
      BY <3>1, BookedReaderReturns DEF SlotBooks
    <3>3. Woken(flight)
      BY <2>2, <3>2, WakeBooks DEF ReleaseInteractive
    <3> QED  BY <1>w, <2>2, <3>3 DEF ReleaseInteractive
  <2>3. CASE AbandonInteractive(r)
    <3>1. PICK i \in DOMAIN queue.interactive :
            /\ queue.interactive[i] = r
            /\ Wake(active, batchActive, [queue EXCEPT !.interactive = RemoveAt(@, i)],
                    flight, [reader EXCEPT ![r] = "idle"])
      BY <2>3 DEF AbandonInteractive
    <3>2. Booked(active, batchActive, [queue EXCEPT !.interactive = RemoveAt(@, i)],
                 flight, [reader EXCEPT ![r] = "idle"])
      BY <3>1, BookedReaderLeaves DEF SlotBooks
    <3>3. Woken(flight)
      BY <3>1, <3>2, WakeBooks
    <3> QED  BY <1>w, <2>3, <3>3 DEF AbandonInteractive
  <2> QED  BY <1>1, <2>1, <2>2, <2>3 DEF Arrive, Read
<1>2. ASSUME NEW b \in Batch, NEW k \in Asks[b], Lookup(b, k) \/ CallerLeaves(b, k)
      PROVE  TicketInv'
  <2>0. <<b, k>> \in Flight /\ k \in Key
    BY AsksAreFlights
  <2>1. CASE Answered(b, k) \/ CallerLeaves(b, k)
    <3>1. /\ panel' = [panel EXCEPT ![<<b, k>>] = "done"]
          /\ UNCHANGED <<batchVars, flight, registered>>
      BY <2>1 DEF Answered, CallerLeaves
    <3> QED  BY <1>s, <1>y, <2>0, <3>1
  <2>2. CASE Join(b, k)
    <3>1. /\ panel' = [panel EXCEPT ![<<b, k>>] = registered[k]] /\ registered[k] \in Batch
          /\ UNCHANGED <<batchVars, flight, registered>>
      BY <1>y, <2>0, <2>2 DEF Join
    <3>2. registered[k] # "pending"
      BY <3>1, AdmissionAssumption
    <3> QED  BY <1>s, <1>y, <2>0, <3>1, <3>2
  <2>3. CASE StartFlight(b, k)
    <3>1. /\ batch[b] = "open" /\ panel[<<b, k>>] = "pending"
          /\ registered' = [registered EXCEPT ![k] = b]
          /\ retained' = [retained EXCEPT ![b] = @ + 1]
          /\ flight' = [flight EXCEPT ![<<b, k>>] = "starting"]
          /\ UNCHANGED <<batch, ticket, refs, batches>>
      BY <2>3 DEF StartFlight, Looking
    <3>2. PICK then \in {b, "done"} : panel' = [panel EXCEPT ![<<b, k>>] = then]
      BY <2>3 DEF StartFlight
    <3>3. flight[<<b, k>>] = "none"
      BY <1>y, <2>0, <3>1 DEF PendingInv
    <3>4. /\ \A c \in Batch \ {b} : /\ RefKeys(c, flight') = RefKeys(c, flight)
                                    /\ BusyKeys(c, flight') = BusyKeys(c, flight)
          /\ RefKeys(b, flight') = RefKeys(b, flight) \ {k}
          /\ BusyKeys(b, flight') = BusyKeys(b, flight) \cup {k}
      <4>1. "starting" \notin Refers /\ "starting" # "none"
        BY DEF Refers
      <4> QED  BY <1>t, <3>1, <4>1, KeysMove
    <3>5. k \notin RefKeys(b, flight) /\ k \notin BusyKeys(b, flight)
      BY <3>3 DEF RefKeys, BusyKeys, Refers
    <3>6. RefKeys(b, flight') = RefKeys(b, flight)
      BY <3>4, <3>5
    <3>7. retained'[b] = Cardinality(BusyKeys(b, flight'))
      <4>1. Cardinality(BusyKeys(b, flight) \cup {k}) = Cardinality(BusyKeys(b, flight)) + 1
        BY <1>b, <3>5, FS_AddElement
      <4> QED  BY <1>b, <1>y, <3>1, <3>4, <4>1
    <3>8. PendingInv'
      <4>1. then # "pending"
        BY <3>2, AdmissionAssumption
      <4>2. \A g \in Flight : panel'[g] = "pending" => g # <<b, k>> /\ panel[g] = "pending"
        BY <1>y, <2>0, <3>2, <4>1
      <4> QED  BY <1>t, <1>y, <3>1, <4>2 DEF PendingInv
    <3>9. /\ panel' \in [Flight -> {"pending", "done"} \cup Batch]
          /\ registered' \in [Key -> Batch \cup {None}]
          /\ retained' \in [Batch -> Int] /\ \A c \in Batch \ {b} : retained'[c] = retained[c]
      BY <1>y, <2>0, <3>1, <3>2
    <3>10. batches' = batches + (IF ticket'[b] THEN 1 ELSE 0) - (IF ticket[b] THEN 1 ELSE 0)
      <4>1. batches \in Int
        BY FS_Subset, FS_CardinalityType, AdmissionAssumption DEF TicketInv
      <4> QED  BY <3>1, <4>1
    <3>11. ticket'[b] /\ batch'[b] = "open" /\ refs'[b] = Cardinality(RefKeys(b, flight'))
      BY <1>b, <3>1, <3>6
    <3> QED  BY <1>y, <3>1, <3>4, <3>7, <3>8, <3>9, <3>10, <3>11, OneBatch
  <2> QED  BY <1>2, <2>1, <2>2, <2>3 DEF Lookup
<1>3. ASSUME NEW f \in Flight, Run(f) PROVE TicketInv'
  <2>0. PICK b \in Batch, k \in Key : f = <<b, k>> /\ k \in Asks[b] /\ f[1] = b /\ f[2] = k
    BY FlightParts
  <2>n. batches \in Int
    BY FS_Subset, FS_CardinalityType, AdmissionAssumption DEF TicketInv
  <2>1. CASE AcquireLimit(f)
    BY <1>m, <2>1 DEF AcquireLimit, Step, Refers
  <2>2. CASE AcquireSlot(f)
    BY <1>m, <2>2 DEF AcquireSlot, Step, Refers
  <2>3. CASE EnqueuePanel(f)
    BY <1>m, <2>3 DEF EnqueuePanel, Step, Refers
  <2>4. CASE StartPanel(f)
    BY <1>m, <2>4 DEF StartPanel, Step, Refers
  <2>5. CASE ReleasePanel(f)
    <3>1. flight[f] \in HoldsSlot /\ flight[f] \in Refers
      BY <2>5 DEF ReleasePanel, HoldsSlot, Refers
    <3>2. Booked([active EXCEPT !.panel = @ - 1], batchActive - 1, queue,
                 [flight EXCEPT ![f] = "freed"], reader)
      BY <3>1, BookedSlotReturned DEF SlotBooks
    <3> QED  BY <1>f, <2>5, <3>1, <3>2 DEF ReleasePanel
  <2>6. CASE Publish(f)
    <3>1. /\ flight[f] = "ran" /\ flight' = [flight EXCEPT ![f] = "answered"]
          /\ registered' = [registered EXCEPT ![f[2]] = IF @ = f[1] THEN None ELSE @]
          /\ panel' = [g \in Flight |->
                         IF g[2] = f[2] /\ panel[g] = f[1] THEN "done" ELSE panel[g]]
          /\ UNCHANGED batchVars
      BY <2>6 DEF Publish, Step
    <3>2. \A g \in Flight : /\ flight'[g] \in Refers <=> flight[g] \in Refers
                            /\ flight'[g] = "none" <=> flight[g] = "none"
      BY <1>t, <3>1 DEF Refers
    <3>3. /\ panel' \in [Flight -> {"pending", "done"} \cup Batch]
          /\ \A g \in Flight : panel'[g] = "pending" => panel[g] = "pending"
      BY <1>y, <3>1
    <3>4. registered' \in [Key -> Batch \cup {None}]
      BY <1>y, <3>1
    <3> QED  BY <3>1, <3>2, <3>3, <3>4, TicketsAside
  \* A step that reaches the tickets: one flight of one batch moves.
  <2>g. ASSUME NEW to, flight' = [flight EXCEPT ![f] = to], flight[f] # "none",
               UNCHANGED <<batch, cacheVars>>,
               refs' \in [Batch -> Int], retained' \in [Batch -> Int],
               ticket' \in [Batch -> BOOLEAN],
               \A c \in Batch \ {b} : /\ refs'[c] = refs[c] /\ retained'[c] = retained[c]
                                      /\ ticket'[c] = ticket[c],
               batches' = batches + (IF ticket'[b] THEN 1 ELSE 0) - (IF ticket[b] THEN 1 ELSE 0),
               refs'[b] = Cardinality(RefKeys(b, flight')),
               retained'[b] = Cardinality(BusyKeys(b, flight')),
               ticket'[b] <=> batch[b] = "open" \/ BusyKeys(b, flight') # {}
        PROVE  TicketInv'
    <3>1. flight' = [flight EXCEPT ![<<b, k>>] = to]
      BY <2>g, <2>0
    <3>2. /\ \A c \in Batch \ {b} : /\ RefKeys(c, flight') = RefKeys(c, flight)
                                    /\ BusyKeys(c, flight') = BusyKeys(c, flight)
      BY <1>t, <2>0, <3>1, KeysMove
    <3>3. k \in BusyKeys(b, flight)
      BY <2>0, <2>g DEF BusyKeys
    <3>4. batch[b] # "idle"
      BY <1>b, <3>3
    <3>5. PendingInv'
      BY <1>t, <1>y, <2>g DEF PendingInv, cacheVars
    <3>6. /\ batch' = batch /\ panel' = panel /\ registered' = registered
      BY <2>g DEF cacheVars
    <3> QED  BY <1>y, <2>g, <3>2, <3>4, <3>5, <3>6, OneBatch
  <2>7. CASE TakeReference(f)
    <3>1. flight[f] = "limited" /\ k \in BusyKeys(b, flight)
      BY <2>0, <2>7 DEF TakeReference, Step, BusyKeys
    <3>2. ticket[b]
      BY <1>b, <3>1
    <3>3. /\ flight' = [flight EXCEPT ![f] = "referenced"]
          /\ refs' = [refs EXCEPT ![b] = @ + 1] /\ ticket' = [ticket EXCEPT ![b] = TRUE]
          /\ batches' = batches + 0 /\ UNCHANGED <<batch, retained, cacheVars>>
      BY <2>0, <2>7, <3>2 DEF TakeReference, Step
    <3>4. /\ RefKeys(b, flight') = RefKeys(b, flight) \cup {k}
          /\ BusyKeys(b, flight') = BusyKeys(b, flight) \cup {k}
      <4>1. flight' = [flight EXCEPT ![<<b, k>>] = "referenced"]
        BY <2>0, <3>3
      <4> QED  BY <1>t, <2>0, <4>1, KeysMove DEF Refers
    <3>5. k \notin RefKeys(b, flight) /\ BusyKeys(b, flight') = BusyKeys(b, flight)
      BY <2>0, <3>1, <3>4 DEF RefKeys, Refers
    <3>6. refs'[b] = Cardinality(RefKeys(b, flight'))
      <4>1. Cardinality(RefKeys(b, flight) \cup {k}) = Cardinality(RefKeys(b, flight)) + 1
        BY <1>b, <3>5, FS_AddElement
      <4> QED  BY <1>b, <1>y, <3>3, <3>4, <4>1
    <3>7. /\ refs' \in [Batch -> Int] /\ \A c \in Batch \ {b} : refs'[c] = refs[c]
          /\ ticket' = ticket /\ retained' = retained /\ batches' = batches
      BY <1>y, <2>n, <3>2, <3>3
    <3>8. batches' = batches + (IF ticket'[b] THEN 1 ELSE 0) - (IF ticket[b] THEN 1 ELSE 0)
      BY <2>n, <3>7
    <3>9. /\ retained'[b] = Cardinality(BusyKeys(b, flight'))
          /\ ticket'[b] <=> batch[b] = "open" \/ BusyKeys(b, flight') # {}
      BY <1>b, <3>5, <3>7
    <3> QED  BY <1>y, <2>g, <3>1, <3>3, <3>6, <3>7, <3>8, <3>9
  <2>8. CASE DropReference(f)
    <3>1. flight[f] = "freed" /\ k \in BusyKeys(b, flight) /\ k \in RefKeys(b, flight)
      BY <2>0, <2>8 DEF DropReference, Step, BusyKeys, RefKeys, Refers
    <3>2. retained[b] # 0
      BY <1>b, <3>1, FS_EmptySet
    <3>3. ~TicketDue(b, refs[b] - 1, retained[b], Closed(b))
      BY <3>2 DEF TicketDue
    <3>4. /\ flight' = [flight EXCEPT ![f] = "ran"]
          /\ refs' = [refs EXCEPT ![b] = @ - 1] /\ UNCHANGED <<batch, retained, cacheVars>>
          /\ ReleaseTicket(b, refs[b] - 1, retained[b], Closed(b))
      BY <2>0, <2>8 DEF DropReference, Step
    <3>5. ticket' = ticket /\ batches' = batches
      <4>1. /\ ticket' = [ticket EXCEPT ![b] = ticket[b] /\ ~FALSE]
            /\ batches' = batches - (IF FALSE THEN 1 ELSE 0)
        BY <3>3, <3>4, Zenon DEF ReleaseTicket
      <4>2. ticket' = [ticket EXCEPT ![b] = ticket[b]]
        BY <1>y, <4>1
      <4> QED  BY <1>y, <2>n, <4>1, <4>2
    <3>6. /\ RefKeys(b, flight') = RefKeys(b, flight) \ {k}
          /\ BusyKeys(b, flight') = BusyKeys(b, flight) \cup {k}
      <4>1. flight' = [flight EXCEPT ![<<b, k>>] = "ran"]
        BY <2>0, <3>4
      <4>2. "ran" \notin Refers /\ "ran" # "none"
        BY DEF Refers
      <4>3. k \in Asks[b]
        BY <2>0
      <4> PICK to : to = "ran"
        OBVIOUS
      <4>4. flight' = [flight EXCEPT ![<<b, k>>] = to]
        BY <4>1
      <4>5. /\ \A c \in Batch \ {b} : /\ RefKeys(c, flight') = RefKeys(c, flight)
                                      /\ BusyKeys(c, flight') = BusyKeys(c, flight)
            /\ RefKeys(b, flight') = IF to \in Refers THEN RefKeys(b, flight) \cup {k}
                                     ELSE RefKeys(b, flight) \ {k}
            /\ BusyKeys(b, flight') = IF to # "none" THEN BusyKeys(b, flight) \cup {k}
                                      ELSE BusyKeys(b, flight) \ {k}
        BY ONLY <1>t, <4>3, <4>4, KeysMove
      <4> QED  BY <4>2, <4>5, Zenon
    <3>7. BusyKeys(b, flight') = BusyKeys(b, flight)
      BY <3>1, <3>6
    <3>8. refs'[b] = Cardinality(RefKeys(b, flight'))
      <4>1. Cardinality(RefKeys(b, flight) \ {k}) = Cardinality(RefKeys(b, flight)) - 1
        BY <1>b, <3>1, FS_RemoveElement
      <4> QED  BY <1>b, <1>y, <3>4, <3>6, <4>1
    <3>9. refs' \in [Batch -> Int] /\ \A c \in Batch \ {b} : refs'[c] = refs[c]
      BY <1>y, <3>4
    <3>10. batches' = batches + (IF ticket'[b] THEN 1 ELSE 0) - (IF ticket[b] THEN 1 ELSE 0)
      BY <2>n, <3>5
    <3>11. /\ retained'[b] = Cardinality(BusyKeys(b, flight'))
           /\ ticket'[b] <=> batch[b] = "open" \/ BusyKeys(b, flight') # {}
      BY <1>b, <3>4, <3>5, <3>7
    <3> QED  BY <1>y, <2>g, <3>1, <3>4, <3>5, <3>8, <3>9, <3>10, <3>11
  <2>9. CASE ReleaseFlight(f)
    <3>1. flight[f] = "answered" /\ k \in BusyKeys(b, flight) /\ k \notin RefKeys(b, flight)
      BY <2>0, <2>9 DEF ReleaseFlight, Step, BusyKeys, RefKeys, Refers
    <3>2. /\ flight' = [flight EXCEPT ![f] = "none"]
          /\ retained' = [retained EXCEPT ![b] = @ - 1] /\ UNCHANGED <<batch, refs, cacheVars>>
          /\ ReleaseTicket(b, refs[b], retained[b] - 1, Closed(b))
      BY <2>0, <2>9 DEF ReleaseFlight, Step
    <3>3. /\ RefKeys(b, flight') = RefKeys(b, flight) \ {k}
          /\ BusyKeys(b, flight') = BusyKeys(b, flight) \ {k}
      <4>1. flight' = [flight EXCEPT ![<<b, k>>] = "none"]
        BY <2>0, <3>2
      <4> QED  BY <1>t, <2>0, <4>1, KeysMove DEF Refers
    <3>4. RefKeys(b, flight') = RefKeys(b, flight)
      BY <3>1, <3>3
    <3>5. Cardinality(BusyKeys(b, flight')) = retained[b] - 1 /\ IsFiniteSet(BusyKeys(b, flight'))
      <4>1. /\ IsFiniteSet(BusyKeys(b, flight) \ {k})
            /\ Cardinality(BusyKeys(b, flight) \ {k}) = Cardinality(BusyKeys(b, flight)) - 1
        BY <1>b, <3>1, FS_RemoveElement
      <4> QED  BY <1>b, <3>3, <4>1
    <3>6. retained'[b] = Cardinality(BusyKeys(b, flight'))
      BY <1>y, <3>2, <3>5
    <3>7. retained[b] - 1 = 0 <=> BusyKeys(b, flight') = {}
      BY <3>5, FS_EmptySet
    <3>8. ticket[b] /\ batch[b] \in {"open", "closed"}
      BY <1>b, <1>y, <3>1
    <3>9. BusyKeys(b, flight') = {} => refs[b] = 0
      <4>1. RefKeys(b, flight') \subseteq BusyKeys(b, flight')
        BY DEF RefKeys, BusyKeys, Refers
      <4> QED  BY <1>b, <3>4, <4>1, FS_EmptySet
    <3>10. TicketDue(b, refs[b], retained[b] - 1, Closed(b))
             <=> batch[b] = "closed" /\ BusyKeys(b, flight') = {}
      BY <3>7, <3>8, <3>9 DEF TicketDue, Closed
    <3> DEFINE due == TicketDue(b, refs[b], retained[b] - 1, Closed(b))
    <3>11. /\ ticket' = [ticket EXCEPT ![b] = @ /\ ~due]
           /\ batches' = batches - (IF due THEN 1 ELSE 0)
      BY <3>2 DEF ReleaseTicket
    <3>12. due \in BOOLEAN
      BY DEF TicketDue
    <3> HIDE DEF due
    <3>13. /\ ticket' \in [Batch -> BOOLEAN] /\ ticket'[b] = ~due
           /\ \A c \in Batch \ {b} : ticket'[c] = ticket[c]
      BY <1>y, <3>8, <3>11, <3>12
    <3>14. batches' = batches + (IF ticket'[b] THEN 1 ELSE 0) - (IF ticket[b] THEN 1 ELSE 0)
      <4>1. CASE due
        <5>1. ticket[b] /\ ~ticket'[b]
          BY <3>8, <3>13, <4>1, Zenon
        <5>2. batches' = batches - 1
          BY <2>n, <3>8, <3>11, <4>1
        <5> QED  BY <2>n, <5>1, <5>2
      <4>2. CASE ~due
        <5>1. ticket[b] /\ ticket'[b]
          BY <3>8, <3>13, <4>2, Zenon
        <5>2. batches' = batches - 0
          BY <2>n, <3>8, <3>11, <4>2
        <5> QED  BY <2>n, <5>1, <5>2
      <4> QED  BY <4>1, <4>2
    <3>15. ticket'[b] <=> batch[b] = "open" \/ BusyKeys(b, flight') # {}
      BY <3>8, <3>10, <3>13 DEF due
    <3>16. retained' \in [Batch -> Int] /\ \A c \in Batch \ {b} : retained'[c] = retained[c]
      BY <1>y, <3>2
    <3>17. refs'[b] = Cardinality(RefKeys(b, flight')) /\ refs' = refs
      BY <1>b, <3>2, <3>4
    <3>18. flight[f] # "none"
      BY <3>1
    <3>19. retained'[b] = Cardinality(BusyKeys(b, flight')) /\ refs' \in [Batch -> Int]
      BY <1>y, <3>6, <3>17
    <3>20. \A c \in Batch \ {b} : /\ refs'[c] = refs[c] /\ retained'[c] = retained[c]
                                   /\ ticket'[c] = ticket[c]
      BY <3>13, <3>16, <3>17
    <3> QED  BY ONLY <2>g, <3>2, <3>13, <3>14, <3>15, <3>16, <3>17, <3>18, <3>19, <3>20
  <2> QED  BY <1>3, <2>1, <2>2, <2>3, <2>4, <2>5, <2>6, <2>7, <2>8, <2>9 DEF Run
<1>4. ASSUME NEW f \in Flight, CancelEarly(f) \/ AbandonPanel(f) \/ GiveBack(f)
      PROVE  TicketInv'
  <2>1. CASE CancelEarly(f)
    BY <1>m, <2>1 DEF CancelEarly, Step, Refers
  <2>2. CASE AbandonPanel(f)
    <3>1. PICK i \in DOMAIN queue.panel :
            /\ queue.panel[i] = f
            /\ Wake(active, batchActive, [queue EXCEPT !.panel = RemoveAt(@, i)],
                    [flight EXCEPT ![f] = "freed"], reader)
      BY <2>2 DEF AbandonPanel
    <3>2. Booked(active, batchActive, [queue EXCEPT !.panel = RemoveAt(@, i)],
                 [flight EXCEPT ![f] = "freed"], reader)
      BY <3>1, BookedPanelLeaves DEF SlotBooks
    <3>3. flight[f] \in Refers /\ UNCHANGED <<batchVars, cacheVars>>
      BY <2>2 DEF AbandonPanel, Refers
    <3> QED  BY <1>f, <3>1, <3>2, <3>3
  <2>3. CASE GiveBack(f)
    <3>1. flight[f] \in HoldsSlot /\ flight[f] \in Refers
      BY <2>3 DEF GiveBack, HoldsSlot, Refers
    <3>2. Booked([active EXCEPT !.panel = @ - 1], batchActive - 1, queue,
                 [flight EXCEPT ![f] = "freed"], reader)
      BY <3>1, BookedSlotReturned DEF SlotBooks
    <3> QED  BY <1>f, <2>3, <3>1, <3>2 DEF GiveBack
  <2> QED  BY <1>4, <2>1, <2>2, <2>3
<1>5. ASSUME NEW b \in Batch, Admit(b) PROVE TicketInv'
  <2>1. /\ batch[b] # "open" /\ \A k \in Asks[b] : flight[<<b, k>>] = "none"
        /\ batches' = batches + 1 /\ flight' = flight /\ registered' = registered
        /\ ticket' = [ticket EXCEPT ![b] = TRUE] /\ batch' = [batch EXCEPT ![b] = "open"]
        /\ refs' = [refs EXCEPT ![b] = 0] /\ retained' = [retained EXCEPT ![b] = 0]
        /\ panel' = [f \in Flight |-> IF f[1] = b THEN "pending" ELSE panel[f]]
    BY <1>5 DEF Admit
  <2>2. BusyKeys(b, flight) = {} /\ RefKeys(b, flight) = {}
    BY <2>1 DEF BusyKeys, RefKeys, Refers
  <2>3. ~ticket[b]
    BY <1>b, <2>1, <2>2
  <2>4. batches \in Int
    BY FS_Subset, FS_CardinalityType, AdmissionAssumption DEF TicketInv
  <2>5. /\ ticket'[b] = TRUE /\ batch'[b] = "open" /\ refs'[b] = 0 /\ retained'[b] = 0
        /\ ticket' \in [Batch -> BOOLEAN] /\ batch' \in [Batch -> {"idle", "open", "closed"}]
        /\ refs' \in [Batch -> Int] /\ retained' \in [Batch -> Int]
        /\ \A c \in Batch \ {b} : /\ refs'[c] = refs[c] /\ retained'[c] = retained[c]
                                  /\ ticket'[c] = ticket[c] /\ batch'[c] = batch[c]
    BY <1>y, <2>1
  <2>6. panel' \in [Flight -> {"pending", "done"} \cup Batch]
    BY <1>y, <2>1
  <2>7. PendingInv'
    <3>1. \A f \in Flight : f[1] = b => flight[f] = "none"
      BY <2>1, FlightParts
    <3> QED  BY <1>y, <2>1, <3>1 DEF PendingInv
  <2>8. batches' = batches + (IF ticket'[b] THEN 1 ELSE 0) - (IF ticket[b] THEN 1 ELSE 0)
    BY <2>1, <2>3, <2>4, <2>5
  <2>9. Cardinality(RefKeys(b, flight')) = 0 /\ Cardinality(BusyKeys(b, flight')) = 0
    BY <2>1, <2>2, FS_EmptySet
  <2>10. \A c \in Batch \ {b} : /\ RefKeys(c, flight') = RefKeys(c, flight)
                                /\ BusyKeys(c, flight') = BusyKeys(c, flight)
    BY <2>1
  <2> QED  BY <1>y, <2>1, <2>5, <2>6, <2>7, <2>8, <2>9, <2>10, OneBatch
<1>6. ASSUME NEW b \in Batch, Close(b) PROVE TicketInv'
  <2>1. /\ batch[b] = "open" /\ batch' = [batch EXCEPT ![b] = "closed"]
        /\ UNCHANGED <<refs, retained, cacheVars, flight>>
        /\ ReleaseTicket(b, refs[b], retained[b], TRUE)
    BY <1>6 DEF Close
  <2>2. ticket[b]
    BY <1>b, <2>1
  <2>3. retained[b] = 0 <=> BusyKeys(b, flight) = {}
    BY <1>b, FS_EmptySet
  <2>4. BusyKeys(b, flight) = {} => refs[b] = 0
    <3>1. RefKeys(b, flight) \subseteq BusyKeys(b, flight)
      BY DEF RefKeys, BusyKeys, Refers
    <3> QED  BY <1>b, <3>1, FS_EmptySet
  <2> DEFINE due == TicketDue(b, refs[b], retained[b], TRUE)
  <2>5. due <=> BusyKeys(b, flight) = {}
    BY <2>2, <2>3, <2>4 DEF TicketDue
  <2>6. /\ ticket' = [ticket EXCEPT ![b] = @ /\ ~due]
        /\ batches' = batches - (IF due THEN 1 ELSE 0)
    BY <2>1 DEF ReleaseTicket
  <2>7. due \in BOOLEAN
    BY DEF TicketDue
  <2> HIDE DEF due
  <2>8. /\ ticket' \in [Batch -> BOOLEAN] /\ ticket'[b] = ~due
        /\ \A c \in Batch \ {b} : ticket'[c] = ticket[c]
    BY <1>y, <2>2, <2>6, <2>7
  <2>9. batches \in Int
    BY FS_Subset, FS_CardinalityType, AdmissionAssumption DEF TicketInv
  <2>10. batches' = batches + (IF ticket'[b] THEN 1 ELSE 0) - (IF ticket[b] THEN 1 ELSE 0)
    <3>1. CASE due
      <4>1. ticket[b] /\ ~ticket'[b]
        BY <2>2, <2>8, <3>1, Zenon
      <4>2. batches' = batches - 1
        BY <2>2, <2>6, <2>9, <3>1
      <4> QED  BY <2>9, <4>1, <4>2
    <3>2. CASE ~due
      <4>1. ticket[b] /\ ticket'[b]
        BY <2>2, <2>8, <3>2, Zenon
      <4>2. batches' = batches - 0
        BY <2>2, <2>6, <2>9, <3>2
      <4> QED  BY <2>9, <4>1, <4>2
    <3> QED  BY <3>1, <3>2
  <2>11. /\ batch'[b] = "closed" /\ batch' \in [Batch -> {"idle", "open", "closed"}]
         /\ \A c \in Batch \ {b} : batch'[c] = batch[c]
    BY <1>y, <2>1
  <2>12. ticket'[b] <=> batch'[b] = "open" \/ BusyKeys(b, flight) # {}
    BY <2>5, <2>8, <2>11
  <2>13. /\ flight' = flight /\ refs' = refs /\ retained' = retained
         /\ panel' = panel /\ registered' = registered
    BY <2>1 DEF cacheVars
  <2>14. PendingInv'
    BY <1>y, <2>13 DEF PendingInv
  <2>15. refs'[b] = Cardinality(RefKeys(b, flight')) /\ retained'[b] = Cardinality(BusyKeys(b, flight'))
    BY <1>b, <2>13
  <2>16. /\ \A c \in Batch \ {b} : /\ RefKeys(c, flight') = RefKeys(c, flight)
                                   /\ BusyKeys(c, flight') = BusyKeys(c, flight)
         /\ ticket'[b] <=> batch'[b] = "open" \/ BusyKeys(b, flight') # {}
    BY <2>12, <2>13
  <2> QED  BY <1>y, <2>8, <2>10, <2>11, <2>13, <2>14, <2>15, <2>16, OneBatch
<1>7. ASSUME NEW b \in Batch, Refresh(b) PROVE TicketInv'
  <2>1. ASSUME NEW k \in Asks[b] PROVE <<b, k>> \in Flight
    BY AsksAreFlights
  <2> QED  BY <1>2, <1>3, <1>6, <1>7, <2>1 DEF Refresh
<1>8. CASE UNCHANGED vars
  BY <1>8, <1>s, <1>y DEF vars, cacheVars
<1> QED  BY <1>1, <1>2, <1>4, <1>5, <1>7, <1>8 DEF Next

(* Both classes together never hold more slots than the pool has, and      *)
(* panels never hold a reserved one, whatever grants race what contexts.   *)
THEOREM SlotsNeverOversubscribed == Spec => []CapacityKept
<1>1. SlotInv => CapacityKept
  BY DEF SlotInv
<1>2. SlotStep => SlotInv'
  BY DEF SlotStep
<1> QED  BY <1>1, <1>2, InitSlotInv, NextSlotInv, PTL DEF Spec

(* No wakeup is lost: whoever waits, waits because there is no room for    *)
(* its class, after every enqueue, release, abandonment and give-back.     *)
THEOREM NoWakeupLost == Spec => []NoIdleWaiter
<1>1. SlotInv => NoIdleWaiter
  BY DEF SlotInv
<1>2. SlotStep => SlotInv'
  BY DEF SlotStep
<1> QED  BY <1>1, <1>2, InitSlotInv, NextSlotInv, PTL DEF Spec

(* wake serves interactive reads first: a panel that gains a slot while    *)
(* one of them is left waiting is the only panel that runs.                *)
THEOREM InteractiveGoesFirst == Spec => InteractiveFirst
<1>1. SlotInv /\ [Next]_vars
        => [active.panel' > active.panel /\ queue'.interactive # <<>>
              => active.panel' <= 1]_vars
  BY NextSlotInv DEF SlotStep
<1>2. SlotStep => SlotInv'
  BY DEF SlotStep
<1> QED  BY <1>1, <1>2, InitSlotInv, NextSlotInv, PTL DEF Spec, InteractiveFirst

-----------------------------------------------------------------------------
LEMMA InitBookInv == Init => BookInv
<1> SUFFICES ASSUME Init PROVE BookInv
  OBVIOUS
<1>1. /\ active = [panel |-> 0, interactive |-> 0]
      /\ queue = [panel |-> <<>>, interactive |-> <<>>]
      /\ batches = 0 /\ batchActive = 0
      /\ batch = [b \in Batch |-> "idle"] /\ ticket = [b \in Batch |-> FALSE]
      /\ refs = [b \in Batch |-> 0] /\ retained = [b \in Batch |-> 0]
      /\ panel = [f \in Flight |-> "done"] /\ flight = [f \in Flight |-> "none"]
      /\ registered = [k \in Key |-> None] /\ reader = [r \in Interactive |-> "idle"]
  BY DEF Init
<1>2. Cardinality({}) = 0
  BY FS_EmptySet
<1>3. /\ HeldFlights(flight) = {} /\ QueuedFlights(flight) = {}
      /\ HeldReaders(reader) = {} /\ QueuedReaders(reader) = {}
  BY <1>1 DEF HeldFlights, QueuedFlights, HeldReaders, QueuedReaders, HoldsSlot
<1>4. \A S : IsInjective(<<>>) /\ ToSet(<<>>) = {} /\ <<>> \in Seq(S)
  BY DEF IsInjective, ToSet
<1>5. flight \in [Flight -> FlightPhase] /\ reader \in [Interactive -> ReaderPhase]
  BY <1>1 DEF FlightPhase, ReaderPhase
<1>6. SlotBooks
  <2>1. /\ queue.panel = <<>> /\ queue.interactive = <<>>
        /\ queue \in [panel : Seq(Flight), interactive : Seq(Interactive)]
    BY <1>1, <1>4
  <2>2. /\ active.panel = 0 /\ active.interactive = 0 /\ batchActive = 0
        /\ active \in [panel : Int, interactive : Int]
    BY <1>1
  <2> QED  BY <1>2, <1>3, <1>4, <1>5, <2>1, <2>2 DEF SlotBooks, Booked
<1>7. \A b \in Batch : RefKeys(b, flight) = {} /\ BusyKeys(b, flight) = {}
  <2>1. \A b \in Batch : \A k \in Asks[b] : flight[<<b, k>>] = "none"
    BY <1>1, AsksAreFlights
  <2> QED  BY <2>1 DEF RefKeys, BusyKeys, Refers
<1>8. {b \in Batch : ticket[b]} = {}
  BY <1>1
<1>9. /\ batch \in [Batch -> {"idle", "open", "closed"}] /\ ticket \in [Batch -> BOOLEAN]
      /\ refs \in [Batch -> Int] /\ retained \in [Batch -> Int]
      /\ panel \in [Flight -> {"pending", "done"} \cup Batch]
      /\ registered \in [Key -> Batch \cup {None}] /\ PendingInv
  BY <1>1 DEF PendingInv
<1>10. \A b \in Batch : refs[b] = 0 /\ retained[b] = 0 /\ ~ticket[b] /\ batch[b] = "idle"
  BY <1>1
<1>11. batches = Cardinality({b \in Batch : ticket[b]})
  BY <1>1, <1>2, <1>8
<1> QED  BY <1>2, <1>6, <1>7, <1>9, <1>10, <1>11 DEF BookInv, TicketInv

LEMMA BooksKept == Spec => []BookInv
<1>1. BookInv /\ [Next]_vars => BookInv'
  BY NextSlotBooks, NextTicketInv DEF BookInv, TicketInv
<1> QED  BY <1>1, InitBookInv, PTL DEF Spec

(* The state stays what the declarations in admission.go say: counters     *)
(* never go below zero, whatever is released in whatever order.            *)
THEOREM StateIsTyped == Spec => []TypeOK
<1>1. BookInv => TypeOK
  <2> SUFFICES ASSUME BookInv PROVE TypeOK
    OBVIOUS
  <2>1. /\ active.panel \in Nat /\ active.interactive \in Nat /\ batchActive = active.panel
        /\ active \in [panel : Int, interactive : Int]
    BY FlightsFinite, FS_CardinalityType DEF BookInv, SlotBooks, Booked
  <2>2. active \in [panel : Nat, interactive : Nat]
    BY <2>1
  <2>3. batches \in Nat
    BY FS_Subset, FS_CardinalityType, AdmissionAssumption DEF BookInv, TicketInv
  <2>4. refs \in [Batch -> Nat] /\ retained \in [Batch -> Nat]
    BY KeysFinite DEF BookInv, TicketInv
  <2> QED
    BY <2>1, <2>2, <2>3, <2>4 DEF TypeOK, BookInv, TicketInv, SlotBooks, Booked, ReaderPhase
<1> QED  BY <1>1, BooksKept, PTL

(* The slot counters, the tickets in use and the references and retained   *)
(* flights of every batch are what acquireWeighted, wake, retainFlight and *)
(* their releases account for: nothing leaks, nothing goes back twice.     *)
THEOREM NothingLeaks == Spec => []CountersExact
<1>1. BookInv => CountersExact
  <2> SUFFICES ASSUME BookInv PROVE CountersExact
    OBVIOUS
  <2>1. /\ active.panel = Cardinality(FlightsIn({"granted", "running"}))
        /\ active.interactive =
             Cardinality({r \in Interactive : reader[r] \in {"granted", "running"}})
        /\ batchActive = active.panel
    BY DEF BookInv, SlotBooks, Booked, FlightsIn, HeldFlights, HeldReaders, HoldsSlot
  <2>2. \A b \in Batch :
          /\ refs[b] = Cardinality({k \in Asks[b] : flight[<<b, k>>] \in
                         {"referenced", "queued", "granted", "running", "freed"}})
          /\ retained[b] = Cardinality(Unfinished(b))
    BY DEF BookInv, TicketInv, RefKeys, BusyKeys, Refers, Unfinished
  <2> QED  BY <2>1, <2>2 DEF BookInv, TicketInv, CountersExact
<1> QED  BY <1>1, BooksKept, PTL

(* A flight that was accepted keeps its batch's ticket until it is over,   *)
(* so acquire never has to reserve for it again, though its response may   *)
(* have closed long ago (panelBatchAdmission.acquire, retainFlight).       *)
THEOREM AcceptedNeverReenters == Spec => []AcceptedKeepsTicket
<1>1. BookInv => AcceptedKeepsTicket
  <2> SUFFICES ASSUME BookInv, NEW f \in Flight, flight[f] # "none" PROVE ticket[f[1]]
    BY DEF AcceptedKeepsTicket
  <2>1. PICK b \in Batch, k \in Key : f = <<b, k>> /\ k \in Asks[b] /\ f[1] = b /\ f[2] = k
    BY FlightParts
  <2>2. k \in BusyKeys(b, flight)
    BY <2>1 DEF BusyKeys
  <2> QED  BY <2>1, <2>2 DEF BookInv, TicketInv
<1> QED  BY <1>1, BooksKept, PTL

(* A batch whose response has closed and whose flights are over has given  *)
(* its ticket back: whichever of close, release and releaseFlight comes    *)
(* last does it.                                                           *)
THEOREM ClosedKeepsNothing == Spec => []ClosedReturnsTicket
<1>1. BookInv => ClosedReturnsTicket
  <2> SUFFICES ASSUME BookInv, NEW b \in Batch, Closed(b), Unfinished(b) = {} PROVE ~ticket[b]
    BY DEF ClosedReturnsTicket
  <2>1. BusyKeys(b, flight) = {} /\ batch[b] # "open"
    BY DEF BusyKeys, Unfinished, Closed
  <2> QED  BY <2>1 DEF BookInv, TicketInv
<1> QED  BY <1>1, BooksKept, PTL
=============================================================================
