----------------------- MODULE DashboardRollupsProofs -----------------------
(***************************************************************************)
(* What the rollups never miss, for every set of spans and every chunk,    *)
(* gap and sub-window.  The argument is that a stamp at or below a         *)
(* watermark, an unfinished window or a pass's horizon is settled: no      *)
(* attempt that could still make a row visible holds it, and none will.    *)
(***************************************************************************)
EXTENDS DashboardRollups, TLAPS

\* No attempt under way or to come has a stamp at or below h.
Settled(h) ==
  /\ h <= lastStamp
  /\ \A s \in Span : attempt[s] # 0 => h < attempt[s]

\* No row visible or to come has a stamp below m.
Below(m) ==
  /\ m <= lastStamp
  /\ \A s \in Span : /\ stamp[s] # 0 => m <= stamp[s]
                     /\ attempt[s] # 0 => m <= attempt[s]

StampsReserved ==
  \A s \in Span : stamp[s] <= lastStamp /\ attempt[s] <= lastStamp

ProgressSettled ==
  /\ \A r \in Rollup : Settled(watermark[r])
  /\ Settled(subWindow)
  /\ Settled(pass.horizon)

MinimumBelow ==
  /\ Below(minimumStamp)
  /\ Below(pass.minimum)
  /\ minimumStamp = 0 => \A s \in Span : attempt[s] = 0 /\ stamp[s] = 0

\* A pass has something to read.
PassAhead == \A r \in Rollup : pass.rollup = r => watermark[r] < pass.horizon

\* An unfinished window lies past the watermark, and what it holds is in the
\* edge summary or in a minute still to recompute.
ResumePoint ==
  cursor > 0 =>
    /\ subWindow > watermark["edge"]
    /\ \A b \in buckets : b >= cursor
    /\ \A c \in Span : CallWithin(c, subWindow) => c \in linked \/ Minute[c] \in buckets

RollupInv ==
  /\ TypeOK
  /\ StampsReserved
  /\ ProgressSettled
  /\ MinimumBelow
  /\ PassAhead
  /\ ServiceComplete
  /\ EdgesComplete
  /\ ResumePoint

-----------------------------------------------------------------------------
(* The initial state, and the actions of the repository.                   *)

\* Nothing is reserved, visible or read: RollupInv holds at the start.
LEMMA InitInv == Init => RollupInv
BY RollupAssumption
   DEF Init, NoPass, RollupInv, TypeOK, StampsReserved, ProgressSettled, MinimumBelow,
       PassAhead, ServiceComplete, EdgesComplete, CallWithin, ResumePoint, Settled, Below,
       Rollup, Stamp0

\* A new attempt is stamped past everything settled.
LEMMA BeginInv ==
  ASSUME RollupInv, NEW s \in Span, Begin(s)
  PROVE  RollupInv'
<1> USE RollupAssumption DEF directories, cache
<1>1. PICK now \in Stamp :
        /\ Reserved(now) <= MaxStamp
        /\ lastStamp' = Reserved(now)
        /\ attempt' = [attempt EXCEPT ![s] = Reserved(now)]
        /\ minimumStamp' = IF minimumStamp = 0 THEN Reserved(now) ELSE minimumStamp
  BY DEF Begin
<1>2. TypeOK
  BY DEF RollupInv
<1>3. /\ lastStamp \in Nat /\ Reserved(now) \in Stamp0
      /\ Reserved(now) > lastStamp
  BY <1>1, <1>2 DEF Reserved, Later, Stamp, Stamp0, TypeOK
<1>4. /\ UNCHANGED <<stamp, synced, client, watermark, cursor, subWindow, buckets,
                     counted, linked, pass, crashes, lastPublished>>
  BY DEF Begin
<1>5. TypeOK'
  BY <1>1, <1>2, <1>3, <1>4 DEF TypeOK
<1>6. StampsReserved'
  BY <1>1, <1>2, <1>3, <1>4 DEF RollupInv, StampsReserved, TypeOK, Stamp0
<1>7. ASSUME NEW h \in Stamp0, Settled(h)
      PROVE  h <= lastStamp' /\ \A q \in Span : attempt'[q] # 0 => h < attempt'[q]
  BY <1>1, <1>2, <1>3, <1>7 DEF Settled, TypeOK, Stamp0
<1>8. ProgressSettled'
  BY <1>2, <1>4, <1>7 DEF RollupInv, ProgressSettled, Settled, TypeOK
<1>9. MinimumBelow'
  BY <1>1, <1>2, <1>3, <1>4 DEF RollupInv, MinimumBelow, Below, StampsReserved, TypeOK, Stamp0
<1>10. PassAhead' /\ ServiceComplete' /\ EdgesComplete' /\ ResumePoint'
  BY <1>4 DEF RollupInv, PassAhead, ServiceComplete, EdgesComplete, ResumePoint, CallWithin
<1> QED
  BY <1>5, <1>6, <1>8, <1>9, <1>10 DEF RollupInv


\* A renamed batch carries the stamp of an attempt, which nothing settled.
LEMMA RenameInv ==
  ASSUME RollupInv, NEW s \in Span, Rename(s)
  PROVE  RollupInv'
<1> USE RollupAssumption DEF repository, cache
<1>1. /\ attempt[s] # 0
      /\ stamp' = [stamp EXCEPT ![s] = attempt[s]]
      /\ UNCHANGED <<lastStamp, lastPublished, minimumStamp, attempt, synced, client,
                     watermark, cursor, subWindow, buckets, counted, linked, pass,
                     crashes>>
  BY DEF Rename
<1>2. TypeOK
  BY DEF RollupInv
<1>3. TypeOK' /\ StampsReserved' /\ ProgressSettled' /\ MinimumBelow' /\ PassAhead'
  BY <1>1, <1>2 DEF RollupInv, TypeOK, StampsReserved, ProgressSettled, MinimumBelow,
                    PassAhead, Settled, Below
<1>4. ASSUME NEW h \in Stamp0, Settled(h), NEW q \in Span,
             stamp'[q] # 0, stamp'[q] <= h
      PROVE  stamp'[q] = stamp[q]
  BY <1>1, <1>2, <1>4 DEF Settled, TypeOK, Stamp0
<1>5. ASSUME NEW h \in Stamp0, Settled(h), NEW c \in Span, CallWithin(c, h)'
      PROVE  CallWithin(c, h)
  BY <1>1, <1>4, <1>5 DEF CallWithin
<1>6. /\ \A r \in Rollup : watermark[r] \in Stamp0 /\ Settled(watermark[r])
      /\ subWindow \in Stamp0 /\ Settled(subWindow)
      /\ "service" \in Rollup /\ "edge" \in Rollup
  BY <1>2 DEF RollupInv, ProgressSettled, TypeOK, Rollup
<1>7. ServiceComplete'
  BY <1>1, <1>4, <1>6 DEF RollupInv, ServiceComplete
<1>8. EdgesComplete'
  BY <1>1, <1>5, <1>6 DEF RollupInv, EdgesComplete
<1>9. ResumePoint'
  BY <1>1, <1>5, <1>6 DEF RollupInv, ResumePoint
<1> QED
  BY <1>3, <1>7, <1>8, <1>9 DEF RollupInv

\* The end of an attempt settles more and shows nothing new.
LEMMA FinishInv ==
  ASSUME RollupInv, NEW s \in Span, Succeed(s) \/ FailAttempt(s)
  PROVE  RollupInv'
<1> USE RollupAssumption DEF cache
<1>1. /\ attempt' = [attempt EXCEPT ![s] = 0]
      /\ UNCHANGED <<lastStamp, stamp, watermark, cursor, subWindow, buckets, counted,
                     linked, pass, crashes>>
  BY DEF Succeed, FailAttempt
<1>2. TypeOK
  BY DEF RollupInv
<1>3. minimumStamp' = minimumStamp
  <2>1. CASE Succeed(s)
    BY <1>2, <2>1 DEF Succeed, RollupInv, MinimumBelow, Below, TypeOK, Stamp0
  <2>2. CASE FailAttempt(s)
    BY <2>2 DEF FailAttempt
  <2> QED BY <2>1, <2>2
<1>4. TypeOK'
  <2>1. lastPublished' \in Stamp0
    BY <1>2 DEF Succeed, FailAttempt, TypeOK, Later, Stamp0
  <2>2. synced' \subseteq Span /\ client' \in [Span -> {"waiting", "acked", "dropped"}]
    BY <1>2 DEF Succeed, FailAttempt, TypeOK
  <2> QED BY <1>1, <1>2, <1>3, <2>1, <2>2 DEF TypeOK, Stamp0
<1>5. StampsReserved' /\ ProgressSettled' /\ MinimumBelow'
  BY <1>1, <1>2, <1>3 DEF RollupInv, TypeOK, StampsReserved, ProgressSettled,
                          MinimumBelow, Settled, Below, Stamp0
<1>6. PassAhead' /\ ServiceComplete' /\ EdgesComplete' /\ ResumePoint'
  BY <1>1 DEF RollupInv, PassAhead, ServiceComplete, EdgesComplete, ResumePoint, CallWithin
<1> QED
  BY <1>4, <1>5, <1>6 DEF RollupInv

-----------------------------------------------------------------------------
(* Passes.                                                                 *)

\* The horizon a pass reads is settled, and stays so.
LEMMA PassInv ==
  ASSUME RollupInv, NEW r \in Rollup, StartPass(r) \/ Abort
  PROVE  RollupInv'
<1> USE RollupAssumption DEF repository, directories, cache
<1>1. UNCHANGED <<lastStamp, lastPublished, minimumStamp, attempt, stamp, synced,
                  client, watermark, cursor, subWindow, buckets, counted, linked,
                  crashes>>
  BY DEF StartPass, Abort
<1>2. TypeOK /\ MinimumBelow /\ ProgressSettled
  BY DEF RollupInv
<1>3. /\ pass' \in [rollup : Rollup \cup {"none"}, horizon : Stamp0, minimum : Stamp0]
      /\ Settled(pass'.horizon) /\ Below(pass'.minimum)
      /\ \A q \in Rollup : pass'.rollup = q => watermark[q] < pass'.horizon
  <2>1. CASE StartPass(r)
    <3>1. PICK h \in Stamp0 :
            /\ IsHorizon(h)
            /\ h > watermark[r]
            /\ pass' = [rollup |-> r, horizon |-> h, minimum |-> minimumStamp]
      BY <2>1 DEF StartPass
    <3>2. Settled(h) /\ minimumStamp \in Stamp0 /\ Below(minimumStamp)
      BY <1>2, <3>1 DEF IsHorizon, Settled, MinimumBelow, TypeOK
    <3>3. watermark[r] \in Nat /\ h \in Nat
      BY <1>2, <3>1 DEF TypeOK, Stamp0
    <3> QED BY <3>1, <3>2, <3>3
  <2>2. CASE Abort
    <3>1. pass' = [rollup |-> "none", horizon |-> 0, minimum |-> 0] /\ 0 \in Stamp0
      BY <2>2 DEF Abort, NoPass, Stamp0
    <3>2. Settled(0) /\ Below(0)
      BY <1>2 DEF Settled, Below, TypeOK, Stamp0
    <3> QED BY <3>1, <3>2 DEF Rollup
  <2> QED BY <2>1, <2>2
<1>4. TypeOK'
  BY <1>1, <1>2, <1>3 DEF TypeOK
<1>5. ProgressSettled' /\ MinimumBelow' /\ PassAhead'
  BY <1>1, <1>2, <1>3 DEF PassAhead, ProgressSettled, MinimumBelow, Settled, Below
<1>6. StampsReserved' /\ ServiceComplete' /\ EdgesComplete' /\ ResumePoint'
  BY <1>1 DEF RollupInv, StampsReserved, ServiceComplete, EdgesComplete, ResumePoint,
              CallWithin
<1> QED
  BY <1>4, <1>5, <1>6 DEF RollupInv

\* A window ends at a settled stamp, and nothing visible lies between the
\* watermark and its start.
LEMMA WindowSettled ==
  ASSUME RollupInv, NEW last \in Stamp0, Settled(last), NEW size \in Nat
  PROVE  /\ WindowStart(last) \in Nat
         /\ WindowEnd(last, size) \in Stamp0
         /\ Settled(WindowEnd(last, size))
         /\ \A s \in Span : stamp[s] # 0 /\ stamp[s] <= WindowStart(last) => stamp[s] <= last
<1>1. /\ pass.horizon \in Nat /\ pass.minimum \in Nat /\ last \in Nat
      /\ \A s \in Span : stamp[s] \in Nat
  BY DEF RollupInv, TypeOK, Stamp0
<1>2. \A s \in Span : stamp[s] # 0 => pass.minimum <= stamp[s]
  BY DEF RollupInv, MinimumBelow, Below
<1>3. WindowStart(last) \in Nat
  BY <1>1 DEF WindowStart
<1>4. /\ WindowEnd(last, size) \in Nat
      /\ WindowEnd(last, size) <= pass.horizon
  BY <1>1, <1>3 DEF WindowEnd, Earlier
<1>5. Settled(WindowEnd(last, size)) /\ WindowEnd(last, size) \in Stamp0
  BY <1>4, RollupAssumption DEF RollupInv, ProgressSettled, Settled, TypeOK, Stamp0
<1> QED
  BY <1>1, <1>2, <1>3, <1>5 DEF WindowStart

\* The rows of a window are counted in the minutes they touch; an earlier row
\* of such a minute is counted again, and any other keeps its place.
LEMMA CommitServiceInv ==
  ASSUME RollupInv, CommitService
  PROVE  RollupInv'
<1> USE RollupAssumption DEF repository, directories
<1>1. PICK size \in 1..Chunk :
        LET end == WindowEnd(watermark["service"], size)
            affected == {Minute[s] : s \in Stamped(WindowStart(watermark["service"]), end)}
        IN /\ counted' = Replace(counted, affected, StartingIn(affected))
           /\ watermark' = [watermark EXCEPT !["service"] = end]
  BY DEF CommitService
<1> DEFINE last == watermark["service"]
           start == WindowStart(last)
           end == WindowEnd(last, size)
           affected == {Minute[s] : s \in Stamped(start, end)}
<1>2. /\ pass' = NoPass
      /\ UNCHANGED <<lastStamp, lastPublished, minimumStamp, attempt, stamp, synced,
                     client, cursor, subWindow, buckets, linked, crashes>>
  BY DEF CommitService
<1>3. /\ TypeOK /\ "service" \in Rollup /\ "edge" \in Rollup
      /\ last \in Stamp0 /\ Settled(last) /\ size \in Nat
  BY DEF RollupInv, TypeOK, ProgressSettled, Rollup
<1>4. /\ start \in Nat /\ end \in Stamp0 /\ Settled(end)
      /\ \A s \in Span : stamp[s] # 0 /\ stamp[s] <= start => stamp[s] <= last
  BY <1>3, WindowSettled
<1>5. /\ counted' = Replace(counted, affected, StartingIn(affected))
      /\ watermark' = [watermark EXCEPT !["service"] = end]
  BY <1>1
<1>6. /\ watermark' \in [Rollup -> Stamp0] /\ watermark'["service"] = end
      /\ watermark'["edge"] = watermark["edge"]
  BY <1>3, <1>4, <1>5 DEF TypeOK
<1>7. pass' = [rollup |-> "none", horizon |-> 0, minimum |-> 0] /\ 0 \in Stamp0
  BY <1>2 DEF NoPass, Stamp0
<1>8. counted' \subseteq Span
  BY <1>3, <1>5 DEF Replace, StartingIn, Snapshot, TypeOK
<1>9. TypeOK'
  BY <1>2, <1>3, <1>6, <1>7, <1>8 DEF TypeOK
<1>10. Settled(0) /\ Below(0)
  BY <1>3 DEF Settled, Below, TypeOK, Stamp0
<1>11. StampsReserved' /\ ProgressSettled' /\ MinimumBelow' /\ PassAhead'
  <2>1. \A r \in Rollup : Settled(watermark'[r])
    BY <1>4, <1>6 DEF RollupInv, ProgressSettled, Rollup
  <2> QED
    BY <1>2, <1>7, <1>10, <2>1 DEF RollupInv, StampsReserved, ProgressSettled,
                                   MinimumBelow, PassAhead, Settled, Below, Rollup
<1>12. ASSUME NEW s \in Span, stamp[s] # 0, stamp[s] <= end
       PROVE  s \in counted'
  <2>1. Minute[s] \in affected => s \in counted'
    BY <1>5, <1>12 DEF Replace, StartingIn, Snapshot
  <2>2. CASE stamp[s] <= start
    <3>1. s \in counted
      BY <1>4, <1>12, <2>2 DEF RollupInv, ServiceComplete
    <3> QED BY <1>5, <2>1, <3>1 DEF Replace
  <2>3. CASE ~(stamp[s] <= start)
    <3>1. start < stamp[s]
      BY <1>3, <1>4, <2>3 DEF TypeOK, Stamp0
    <3> QED BY <1>12, <2>1, <3>1 DEF Stamped, Snapshot
  <2> QED BY <2>2, <2>3
<1>13. ServiceComplete'
  BY <1>2, <1>6, <1>12 DEF ServiceComplete
<1>14. EdgesComplete' /\ ResumePoint'
  BY <1>2, <1>6 DEF RollupInv, EdgesComplete, ResumePoint, CallWithin
<1> QED
  BY <1>9, <1>11, <1>13, <1>14 DEF RollupInv

\* An edge pass reads up to a settled stamp past the watermark, and each call
\* it is due to count is counted or in one of its minutes.
LEMMA EdgeMinutesCover ==
  ASSUME RollupInv, pass.rollup = "edge"
  PROVE  /\ EdgeEnd \in Stamp0 /\ Settled(EdgeEnd)
         /\ watermark["edge"] < EdgeEnd
         /\ \A b \in EdgeMinutes : b \in Nat /\ cursor <= b
         /\ \A c \in Span : CallWithin(c, EdgeEnd) => c \in linked \/ Minute[c] \in EdgeMinutes
<1> USE RollupAssumption
<1>1. /\ TypeOK /\ "edge" \in Rollup
      /\ watermark["edge"] \in Stamp0 /\ Settled(watermark["edge"])
      /\ Chunk \in Nat
  BY DEF RollupInv, TypeOK, ProgressSettled, Rollup
<1>2. CASE Resuming
  <2>1. EdgeEnd = subWindow /\ EdgeMinutes = buckets
    BY <1>2 DEF EdgeEnd, EdgeMinutes
  <2>2. ResumePoint /\ Settled(subWindow)
    BY DEF RollupInv, ProgressSettled
  <2> QED BY <1>1, <1>2, <2>1, <2>2 DEF Resuming, ResumePoint, TypeOK, Stamp0
<1>3. CASE ~Resuming
  <2> DEFINE last == watermark["edge"]
             start == WindowStart(last)
             end == WindowEnd(last, Chunk)
             affected == Affected(start, end)
  <2>1. EdgeEnd = end /\ EdgeMinutes = {Minute[s] : s \in affected}
    BY <1>3 DEF EdgeEnd, EdgeMinutes
  <2>2. /\ start \in Nat /\ end \in Stamp0 /\ Settled(end)
        /\ \A s \in Span : stamp[s] # 0 /\ stamp[s] <= start => stamp[s] <= last
    BY <1>1, WindowSettled
  <2>3. last < end
    <3>1. last < pass.horizon /\ pass.horizon \in Nat /\ pass.minimum \in Nat
      BY <1>1 DEF RollupInv, PassAhead, TypeOK, Stamp0
    <3> QED BY <1>1, <3>1 DEF WindowEnd, WindowStart, Earlier, Stamp0
  <2>4. cursor = 0
    BY <1>1, <1>3 DEF Resuming, RollupInv, ResumePoint, TypeOK
  <2>5. \A s \in affected : s \in Span
    BY DEF Affected, Stamped, Snapshot
  <2>6. \A b \in EdgeMinutes : b \in Nat /\ cursor <= b
    BY <2>1, <2>4, <2>5
  <2>7. ASSUME NEW c \in Span, CallWithin(c, end)
        PROVE  c \in linked \/ c \in affected
    <3>1. /\ Parent[c] \in Span
          /\ stamp[c] \in Nat /\ stamp[c] # 0 /\ stamp[c] <= end
          /\ stamp[Parent[c]] \in Nat /\ stamp[Parent[c]] # 0 /\ stamp[Parent[c]] <= end
          /\ stamp[Parent[c]] - stamp[c] <= Gap
      BY <1>1, <2>7 DEF CallWithin, TypeOK, Stamp0
    <3>2. CASE start < stamp[c]
      BY <3>1, <3>2 DEF Affected, Stamped, Snapshot
    <3>3. CASE stamp[c] <= start /\ start < stamp[Parent[c]]
      <4>1. start - Gap < stamp[c]
        BY <2>2, <3>1, <3>3
      <4> QED BY <3>1, <3>3, <4>1 DEF Affected, Stamped, Snapshot
    <3>4. CASE stamp[c] <= start /\ stamp[Parent[c]] <= start
      <4>1. CallWithin(c, last)
        BY <2>2, <2>7, <3>1, <3>4 DEF CallWithin
      <4> QED BY <4>1 DEF RollupInv, EdgesComplete
    <3> QED BY <2>2, <3>1, <3>2, <3>3, <3>4
  <2> QED BY <2>1, <2>2, <2>3, <2>6, <2>7
<1> QED BY <1>2, <1>3

\* What an edge pass recomputes it counts; what it leaves stays due.
LEMMA Recomputed ==
  ASSUME NEW minutes, NEW c \in Span, NEW h, CallWithin(c, h),
         linked' = Replace(linked, minutes, Called(StartingIn(minutes)))
  PROVE  /\ c \in linked => c \in linked'
         /\ Minute[c] \in minutes => c \in linked'
<1>1. Parent[c] \in Span /\ stamp[c] # 0 /\ stamp[Parent[c]] # 0
  BY RollupAssumption DEF CallWithin
<1> QED
  BY <1>1 DEF Replace, Called, StartingIn, Snapshot

\* The watermark passes a window only when each of its minutes is recomputed;
\* until then the rest is stored with the place to resume.
LEMMA CommitEdgeInv ==
  ASSUME RollupInv, CommitEdge
  PROVE  RollupInv'
<1> USE RollupAssumption DEF repository, directories
<1>1. /\ pass.rollup = "edge" /\ pass' = NoPass
      /\ UNCHANGED <<lastStamp, lastPublished, minimumStamp, attempt, stamp, synced,
                     client, counted, crashes>>
  BY DEF CommitEdge
<1>2. /\ TypeOK /\ ProgressSettled /\ "service" \in Rollup /\ "edge" \in Rollup
      /\ 0 \in Stamp0 /\ Settled(0) /\ Below(0)
  BY DEF RollupInv, TypeOK, ProgressSettled, Rollup, Settled, Below, Stamp0
<1>3. /\ EdgeEnd \in Stamp0 /\ Settled(EdgeEnd)
      /\ watermark["edge"] < EdgeEnd
      /\ \A b \in EdgeMinutes : b \in Nat /\ cursor <= b
      /\ \A c \in Span : CallWithin(c, EdgeEnd) => c \in linked \/ Minute[c] \in EdgeMinutes
  BY <1>1, EdgeMinutesCover
<1>4. SUFFICES
        /\ linked' \subseteq Span
        /\ \/ /\ CompleteWindow
              /\ \A c \in Span : CallWithin(c, EdgeEnd) => c \in linked'
           \/ \E hi \in Nat :
                /\ hi > 0 /\ YieldWindow(hi)
                /\ \A c \in Span : CallWithin(c, EdgeEnd) => c \in linked' \/ Minute[c] \in buckets'
                /\ \A c \in Span : CallWithin(c, watermark["edge"]) => c \in linked'
  <2>1. CASE CompleteWindow /\ \A c \in Span : CallWithin(c, EdgeEnd) => c \in linked'
    <3>1. /\ watermark' = [watermark EXCEPT !["edge"] = EdgeEnd]
          /\ cursor' = 0 /\ subWindow' = 0 /\ buckets' = {}
      BY <2>1 DEF CompleteWindow
    <3>2. /\ watermark' \in [Rollup -> Stamp0] /\ watermark'["edge"] = EdgeEnd
          /\ watermark'["service"] = watermark["service"]
      BY <1>2, <1>3, <3>1 DEF TypeOK
    <3>3. TypeOK'
      BY <1>1, <1>2, <1>4, <3>1, <3>2 DEF TypeOK, NoPass
    <3>4. \A r \in Rollup : Settled(watermark'[r])
      BY <1>2, <1>3, <3>2 DEF ProgressSettled, Rollup
    <3>5. StampsReserved' /\ ProgressSettled' /\ MinimumBelow' /\ PassAhead'
      BY <1>1, <1>2, <3>1, <3>4 DEF RollupInv, StampsReserved, ProgressSettled,
                MinimumBelow, PassAhead, Settled, Below, NoPass, Rollup
    <3>6. ServiceComplete' /\ EdgesComplete' /\ ResumePoint'
      BY <1>1, <2>1, <3>1, <3>2 DEF RollupInv, ServiceComplete, EdgesComplete,
                ResumePoint, CallWithin
    <3> QED BY <3>3, <3>5, <3>6 DEF RollupInv
  <2>2. ASSUME NEW hi \in Nat, hi > 0, YieldWindow(hi),
               \A c \in Span : CallWithin(c, EdgeEnd) => c \in linked' \/ Minute[c] \in buckets',
               \A c \in Span : CallWithin(c, watermark["edge"]) => c \in linked'
        PROVE  RollupInv'
    <3>1. /\ watermark' = watermark /\ cursor' = hi /\ subWindow' = EdgeEnd
          /\ buckets' = {b \in EdgeMinutes : b >= hi}
      BY <2>2 DEF YieldWindow
    <3>2. TypeOK'
      BY <1>1, <1>2, <1>3, <1>4, <3>1 DEF TypeOK, NoPass
    <3>3. StampsReserved' /\ ProgressSettled' /\ MinimumBelow' /\ PassAhead'
      BY <1>1, <1>2, <1>3, <3>1 DEF RollupInv, StampsReserved, ProgressSettled,
                MinimumBelow, PassAhead, Settled, Below, NoPass, Rollup
    <3>4. ServiceComplete' /\ EdgesComplete' /\ ResumePoint'
      BY <1>1, <1>3, <2>2, <3>1 DEF RollupInv, ServiceComplete, EdgesComplete,
                ResumePoint, CallWithin
    <3> QED BY <3>2, <3>3, <3>4 DEF RollupInv
  <2> QED BY <1>4, <2>1, <2>2
<1>5. CASE EdgeMinutes = {} /\ CompleteWindow /\ UNCHANGED linked
  BY <1>2, <1>3, <1>5 DEF TypeOK
<1>6. CASE ~(EdgeMinutes = {} /\ CompleteWindow /\ UNCHANGED linked)
  <2>1. PICK first \in EdgeMinutes, last \in EdgeMinutes : \E hi \in (first + 1)..(last + 1) :
          LET minutes == {b \in EdgeMinutes : b >= cursor /\ b < hi}
          IN /\ IsSubWindow(first, last, hi)
             /\ linked' = Replace(linked, minutes, Called(StartingIn(minutes)))
             /\ IF hi <= last THEN YieldWindow(hi) ELSE CompleteWindow
    BY <1>6 DEF CommitEdge
  <2>2. first \in Nat /\ last \in Nat
    BY <1>3
  <2>3. PICK hi \in (first + 1)..(last + 1) :
          LET minutes == {b \in EdgeMinutes : b >= cursor /\ b < hi}
          IN /\ IsSubWindow(first, last, hi)
             /\ linked' = Replace(linked, minutes, Called(StartingIn(minutes)))
             /\ IF hi <= last THEN YieldWindow(hi) ELSE CompleteWindow
    BY <2>1
  <2> DEFINE minutes == {b \in EdgeMinutes : b >= cursor /\ b < hi}
  <2>4. /\ hi \in Nat /\ hi > 0
        /\ \A b \in EdgeMinutes : b <= last
        /\ linked' = Replace(linked, minutes, Called(StartingIn(minutes)))
    BY <2>2, <2>3 DEF IsSubWindow
  <2>5. linked' \subseteq Span
    BY <1>2, <2>4 DEF Replace, Called, StartingIn, Snapshot, TypeOK
  <2>6. \A c \in Span : CallWithin(c, watermark["edge"]) => c \in linked'
    BY <2>4, Recomputed DEF RollupInv, EdgesComplete
  <2>7. ASSUME NEW c \in Span, CallWithin(c, EdgeEnd)
        PROVE  c \in linked' \/ Minute[c] \in {b \in EdgeMinutes : b >= hi}
    <3>1. CASE c \in linked
      BY <2>4, <2>7, <3>1, Recomputed
    <3>2. CASE Minute[c] \in EdgeMinutes /\ Minute[c] < hi
      <4>1. Minute[c] \in minutes
        BY <1>2, <1>3, <3>2 DEF TypeOK
      <4> QED BY <2>4, <2>7, <4>1, Recomputed
    <3>3. CASE Minute[c] \in EdgeMinutes /\ ~(Minute[c] < hi)
      BY <1>3, <2>4, <3>3
    <3> QED BY <1>3, <2>7, <3>1, <3>2, <3>3
  <2>8. CASE hi <= last
    <3>1. YieldWindow(hi) /\ buckets' = {b \in EdgeMinutes : b >= hi}
      BY <2>3, <2>8 DEF YieldWindow
    <3> QED BY <2>4, <2>5, <2>6, <2>7, <3>1
  <2>9. CASE ~(hi <= last)
    <3>1. CompleteWindow
      BY <2>3, <2>9
    <3>2. hi \in Int /\ last \in Int /\ last < hi
      BY <2>2, <2>4, <2>9
    <3>3. \A b \in EdgeMinutes : b \in Int /\ b <= last
      BY <1>3, <2>4
    <3>4. \A b \in EdgeMinutes : ~(b >= hi)
      BY <3>2, <3>3
    <3>5. {b \in EdgeMinutes : b >= hi} = {}
      BY <3>4
    <3> QED BY <2>5, <2>7, <3>1, <3>5
  <2> QED BY <2>8, <2>9
<1> QED
  BY <1>5, <1>6

-----------------------------------------------------------------------------
(* Crashes.                                                                *)

\* A restart loses rows and reservations.  Progress past what it finds is
\* taken back, so the stamps it will reserve are past all progress again.
LEMMA CrashInv ==
  ASSUME RollupInv, Crash
  PROVE  RollupInv'
<1> USE RollupAssumption
<1>1. PICK lost \in SUBSET {s \in Span : stamp[s] # 0 /\ s \notin synced},
           high \in Stamp0, low \in Stamp0 :
        LET found == [s \in Span |-> IF s \in lost THEN 0 ELSE stamp[s]]
        IN /\ IsHighest(high, found) /\ IsLowest(low, found)
           /\ stamp' = found
           /\ client' = [s \in Span |-> IF client[s] = "waiting" /\ found[s] # 0
                                        THEN "dropped" ELSE client[s]]
           /\ lastStamp' = high /\ lastPublished' = high /\ minimumStamp' = low
           /\ \/ Rewind(high) /\ UNCHANGED <<counted, linked>>
              \/ Recreate
  BY DEF Crash
<1> DEFINE found == [s \in Span |-> IF s \in lost THEN 0 ELSE stamp[s]]
<1>2. /\ attempt' = [s \in Span |-> 0]
      /\ pass' = [rollup |-> "none", horizon |-> 0, minimum |-> 0]
      /\ crashes' = crashes + 1 /\ crashes < MaxCrashes /\ synced' = synced
  BY DEF Crash, NoPass
<1>3. /\ stamp' = found /\ IsHighest(high, found) /\ IsLowest(low, found)
      /\ lastStamp' = high /\ lastPublished' = high /\ minimumStamp' = low
      /\ client' = [s \in Span |-> IF client[s] = "waiting" /\ found[s] # 0
                                   THEN "dropped" ELSE client[s]]
  BY <1>1
<1>4. TypeOK /\ ProgressSettled /\ "service" \in Rollup /\ "edge" \in Rollup /\ 0 \in Stamp0
  BY DEF RollupInv, Rollup, Stamp0
<1>5. /\ \A s \in Span : stamp'[s] \in Stamp0 /\ (stamp'[s] # 0 => stamp'[s] = stamp[s])
      /\ \A s \in Span : stamp'[s] <= high /\ attempt'[s] = 0
      /\ \A s \in Span : stamp'[s] # 0 => low <= stamp'[s]
      /\ low = 0 => \A s \in Span : stamp'[s] = 0
      /\ low <= high
  BY <1>2, <1>3, <1>4 DEF IsHighest, IsLowest, TypeOK, Stamp0
<1>6. client' \in [Span -> {"waiting", "acked", "dropped"}]
  BY <1>3, <1>4 DEF TypeOK
<1>7. ASSUME NEW h, NEW k \in Stamp0, NEW c \in Span, h <= k, h \in Stamp0,
             /\ Parent[c] # NoSpan
             /\ stamp'[c] # 0 /\ stamp'[c] <= h
             /\ stamp'[Parent[c]] # 0 /\ stamp'[Parent[c]] <= h
             /\ stamp'[Parent[c]] - stamp'[c] <= Gap
      PROVE  CallWithin(c, k)
  <2>1. Parent[c] \in Span
    BY <1>7
  <2>2. stamp'[c] = stamp[c] /\ stamp'[Parent[c]] = stamp[Parent[c]]
    BY <1>5, <1>7, <2>1
  <2>3. stamp[c] <= k /\ stamp[Parent[c]] <= k
    BY <1>4, <1>7, <2>1, <2>2 DEF TypeOK, Stamp0
  <2> QED BY <1>7, <2>2, <2>3 DEF CallWithin
<1>8. StampsReserved' /\ MinimumBelow' /\ PassAhead'
  BY <1>2, <1>3, <1>5 DEF StampsReserved, MinimumBelow, PassAhead, Below, Rollup, Stamp0
<1>9. /\ lastStamp' \in Stamp0 /\ lastPublished' \in Stamp0 /\ minimumStamp' \in Stamp0
       /\ attempt' \in [Span -> Stamp0] /\ stamp' \in [Span -> Stamp0]
       /\ synced' \subseteq Span /\ crashes' \in 0..MaxCrashes
       /\ pass' \in [rollup : Rollup \cup {"none"}, horizon : Stamp0, minimum : Stamp0]
  BY <1>2, <1>3, <1>4, <1>5 DEF TypeOK
<1>10. CASE Rewind(high) /\ UNCHANGED <<counted, linked>>
  <2>1. /\ watermark' = [r \in Rollup |-> Earlier(watermark[r], high)]
        /\ counted' = counted /\ linked' = linked
    BY <1>10 DEF Rewind
  <2>2. \A r \in Rollup : /\ watermark'[r] \in Stamp0
                          /\ watermark'[r] <= watermark[r]
                          /\ watermark'[r] <= high
    BY <1>4, <2>1 DEF Earlier, TypeOK, Stamp0
  <2>3. \/ cursor' = 0 /\ subWindow' = 0 /\ buckets' = {}
        \/ /\ subWindow <= high
           /\ cursor' = cursor /\ subWindow' = subWindow /\ buckets' = buckets
    BY <1>4, <1>10 DEF Rewind, TypeOK, Stamp0
  <2>4. watermark' \in [Rollup -> Stamp0]
    BY <2>1, <2>2
  <2>5. TypeOK'
    <3>1. cursor' \in Nat /\ subWindow' \in Stamp0 /\ buckets' \subseteq Nat
      <4>1. cursor \in Nat /\ subWindow \in Stamp0 /\ buckets \subseteq Nat
        BY <1>4 DEF TypeOK
      <4>2. CASE cursor' = 0 /\ subWindow' = 0 /\ buckets' = {}
        BY <1>4, <4>2
      <4>3. CASE cursor' = cursor /\ subWindow' = subWindow /\ buckets' = buckets
        BY <4>1, <4>3
      <4> QED BY <2>3, <4>2, <4>3
    <3>2. counted' \subseteq Span /\ linked' \subseteq Span
      BY <1>4, <2>1 DEF TypeOK
    <3> QED BY <1>6, <1>9, <2>4, <3>1, <3>2 DEF TypeOK
  <2>6. ProgressSettled'
    BY <1>2, <1>3, <1>5, <2>2, <2>3 DEF ProgressSettled, Settled, Stamp0
  <2>7. ServiceComplete'
    BY <1>4, <1>5, <2>1, <2>2 DEF RollupInv, ServiceComplete, TypeOK, Stamp0
  <2>8. EdgesComplete'
    BY <1>4, <1>7, <2>1, <2>2 DEF RollupInv, EdgesComplete, CallWithin, TypeOK
  <2>9. ResumePoint'
    <3>1. CASE cursor' = 0
      BY <3>1 DEF ResumePoint
    <3>2. CASE /\ subWindow <= high
               /\ cursor' = cursor /\ subWindow' = subWindow /\ buckets' = buckets
      <4>1. subWindow \in Stamp0 /\ subWindow <= subWindow
        BY <1>4 DEF TypeOK, Stamp0
      <4>2. cursor > 0 => subWindow > watermark'["edge"]
        BY <1>4, <2>2 DEF RollupInv, ResumePoint, TypeOK, Stamp0
      <4> QED BY <1>7, <2>1, <3>2, <4>1, <4>2 DEF RollupInv, ResumePoint, CallWithin
    <3> QED BY <2>3, <3>1, <3>2
  <2> QED BY <1>8, <2>5, <2>6, <2>7, <2>8, <2>9 DEF RollupInv
<1>11. CASE Recreate
  <2>1. /\ counted' = {} /\ linked' = {} /\ watermark' = [r \in Rollup |-> 0]
        /\ cursor' = 0 /\ subWindow' = 0 /\ buckets' \subseteq Nat
    BY <1>4, <1>11 DEF Recreate, TypeOK
  <2>2. TypeOK'
    BY <1>4, <1>6, <1>9, <2>1 DEF TypeOK, Rollup
  <2>3. ProgressSettled'
    BY <1>2, <1>3, <1>5, <2>1 DEF ProgressSettled, Settled, Stamp0
  <2>4. \A s \in Span : ~(stamp'[s] # 0 /\ stamp'[s] <= 0)
    BY <1>5 DEF Stamp0
  <2>5. ServiceComplete' /\ EdgesComplete' /\ ResumePoint'
    BY <1>4, <2>1, <2>4 DEF ServiceComplete, EdgesComplete, ResumePoint, CallWithin
  <2> QED BY <1>8, <2>2, <2>3, <2>5 DEF RollupInv
<1> QED
  BY <1>1, <1>10, <1>11

-----------------------------------------------------------------------------
(* The theorems.                                                           *)

\* RollupInv holds in every reachable state.
LEMMA Inductive == Spec => []RollupInv
<1>1. RollupInv /\ [Next]_vars => RollupInv'
  <2> SUFFICES ASSUME RollupInv, [Next]_vars PROVE RollupInv'
    OBVIOUS
  <2>1. ASSUME NEW s \in Span, Commit(s) PROVE RollupInv'
    BY <2>1, BeginInv, RenameInv, FinishInv DEF Commit
  <2>2. ASSUME NEW r \in Rollup, StartPass(r) PROVE RollupInv'
    BY <2>2, PassInv
  <2>3. CASE Abort
    BY <2>3, PassInv DEF Rollup
  <2>4. CASE CommitService
    BY <2>4, CommitServiceInv
  <2>5. CASE CommitEdge
    BY <2>5, CommitEdgeInv
  <2>6. CASE Crash
    BY <2>6, CrashInv
  <2>7. CASE UNCHANGED vars
    BY <2>7 DEF vars, repository, directories, cache, RollupInv, TypeOK, StampsReserved,
       ProgressSettled, MinimumBelow, PassAhead, ServiceComplete, EdgesComplete,
       ResumePoint, Settled, Below, CallWithin
  <2> QED
    BY <2>1, <2>2, <2>3, <2>4, <2>5, <2>6, <2>7 DEF Next, Stopped
<1> QED
  BY <1>1, InitInv, PTL DEF Spec

\* Every reachable state is well typed: no stamp, window or watermark leaves
\* the range of what repository.beginPublication has reserved.
THEOREM TypeCorrect == Spec => []TypeOK
BY Inductive, PTL DEF RollupInv

\* refreshServiceRollup never advances its watermark past a row it has not
\* counted, through failed attempts, narrowed windows and restarts.
THEOREM ServiceNeverMisses == Spec => []ServiceComplete
BY Inductive, PTL DEF RollupInv

\* refreshEdgeRollupPass never advances its watermark past a call it owes,
\* however a window is cut into passes and wherever it is interrupted.
THEOREM EdgesNeverMissed == Spec => []EdgesComplete
BY Inductive, PTL DEF RollupInv

=============================================================================
