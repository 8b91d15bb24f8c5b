----------------------------- MODULE LandingMedia -----------------------------
(***************************************************************************)
(* The moving parts of the landing page (site/src/components/landing) and  *)
(* how its clips come there: the throughput replay, the product video, the *)
(* segments of site/scripts/clip-timeline.mjs, and the uploads of          *)
(* upload-clips.mjs.  Times are whole ticks.                               *)
(***************************************************************************)
EXTENDS Integers, Sequences, FiniteSets

LOCAL INSTANCE FiniteSetsExt
LOCAL INSTANCE SequencesExt

CONSTANTS
  Samples,    \* <<[at, value], ...>>: the measured scrapes, at unequal intervals
  Duration,   \* of the measured run
  WINDOW,     \* how much of it the chart shows
  Beat,       \* the timer's delay
  Late,       \* how late a timer may fire
  MaxElapsed, \* bound on the time replayed
  Final,      \* the labels of the full measured run
  MaxTasks,   \* bound on media events under way
  Length, Short, Slack,   \* of the raw clip; what a wait is cut to; tolerance
  MaxMarks,   \* bound on the freezes of one clip
  Files,      \* <<file, ...>>: the names and formats, in the order they are uploaded
  Takes,      \* contents of an encoded file
  NoFile

VARIABLES replay, video, clip, media

(***************************************************************************)
(* replayFrame: the points drawn `elapsed' into an endless replay.  One    *)
(* point is kept left of the window, the last value is held to its edge.   *)
(***************************************************************************)
BiggerOf(a, b) == IF a > b THEN a ELSE b
SmallerOf(a, b) == IF a < b THEN a ELSE b

Loop(n) == [i \in DOMAIN Samples |->
              [time |-> n * Duration + Samples[i].at, value |-> Samples[i].value]]

replayFrame(elapsed) ==
  LET min == elapsed - WINDOW
      from == BiggerOf(0, (min \div Duration) - 1)
      loops == [k \in 1 .. (elapsed \div Duration) - from + 1 |-> Loop(from + k - 1)]
      points == SelectSeq(FlattenSeq(loops), LAMBDA p : p.time <= elapsed)
      before == SelectSeq(points, LAMBDA p : p.time < min)
      visible == SubSeq(points, BiggerOf(1, Len(before)), Len(points))
      current == Last(visible)
  IN IF current.time < elapsed
     THEN Append(visible, [time |-> elapsed, value |-> current.value]) ELSE visible

(***************************************************************************)
(* mountReplay.  `since' is how long ago the timer was set, and `watched'  *)
(* how long the page, in view and not paused, has shown the moving chart.  *)
(***************************************************************************)
Start == SmallerOf(Samples[1].at + WINDOW, Last(Samples).at)

visible(r) == ~r.disposed /\ ~r.motion /\ r.inView /\ ~r.hidden
active(r) == visible(r) /\ ~r.paused

paint(r) == [r EXCEPT !.painted = r.elapsed, !.label = r.elapsed]

stop(r) ==
  IF r.timer THEN [r EXCEPT !.elapsed = @ + r.since, !.timer = FALSE, !.since = 0] ELSE r

schedule(r) ==
  IF ~active(r) \/ ~r.plot \/ r.timer THEN r ELSE [r EXCEPT !.timer = TRUE, !.since = 0]

\* The page changed: start loading, or go on from where the chart was left.
sync(r0) ==
  LET r == IF active(r0) THEN r0 ELSE stop(r0)
  IN CASE ~visible(r) -> r
       [] r.plot -> schedule(paint(r))
       [] OTHER -> [r EXCEPT !.pending = TRUE, !.failed = FALSE]

ReplayInit ==
  \E m \in BOOLEAN :
    replay = [elapsed |-> Start, painted |-> Start, label |-> Final, plot |-> FALSE,
              pending |-> FALSE, failed |-> FALSE, timer |-> FALSE, since |-> 0,
              inView |-> FALSE, hidden |-> FALSE, motion |-> m, paused |-> FALSE,
              disposed |-> FALSE, cached |-> FALSE, watched |-> 0]

Mounted == ~replay.disposed /\ ~replay.cached

\* create: the library is here, or cannot be loaded.
created ==
  /\ replay.pending /\ ~replay.cached
  /\ LET r == [replay EXCEPT !.pending = FALSE]
     IN replay' = IF visible(r) /\ ~r.plot THEN schedule(paint([r EXCEPT !.plot = TRUE]))
                  ELSE schedule(r)

createFailed ==
  /\ replay.pending /\ ~replay.cached
  /\ replay' = [replay EXCEPT !.pending = FALSE, !.failed = TRUE]

tick ==
  /\ replay.timer /\ replay.since >= Beat /\ ~replay.cached
  /\ LET r == [replay EXCEPT !.elapsed = @ + replay.since, !.timer = FALSE, !.since = 0]
     IN replay' = IF active(r) THEN schedule(paint(r)) ELSE r

\* The clock of the page, external to it.
Clock ==
  /\ replay.timer => replay.since < Beat + Late
  /\ replay.elapsed + replay.since < MaxElapsed
  /\ replay.watched < MaxElapsed
  /\ replay' = [replay EXCEPT !.since = IF replay.timer THEN @ + 1 ELSE @,
                              !.watched = IF active(replay) /\ replay.plot /\ ~replay.cached
                                          THEN @ + 1 ELSE @]

intersect == Mounted /\ replay' = sync([replay EXCEPT !.inView = ~@])
visibilitychange == Mounted /\ replay' = sync([replay EXCEPT !.hidden = ~@])
toggle == Mounted /\ replay.plot /\ ~replay.motion /\ replay' = sync([replay EXCEPT !.paused = ~@])

onMotion ==
  /\ Mounted
  /\ replay' = IF replay.motion THEN sync([replay EXCEPT !.motion = FALSE])
               ELSE [stop([replay EXCEPT !.motion = TRUE]) EXCEPT !.plot = FALSE, !.label = Final]

\* A bfcache page pauses and resumes; a departing page releases everything.
pagehide ==
  /\ Mounted
  /\ \E persisted \in BOOLEAN :
       replay' = IF persisted THEN [stop(replay) EXCEPT !.cached = TRUE]
                 ELSE [stop(replay) EXCEPT !.disposed = TRUE]

pageshow == replay.cached /\ replay' = sync([replay EXCEPT !.cached = FALSE])

ReplayNext ==
  \/ created \/ createFailed \/ tick \/ Clock
  \/ intersect \/ visibilitychange \/ toggle \/ onMotion \/ pagehide \/ pageshow

(***************************************************************************)
(* mountProductVideo.  A slot per theme; its player is created when it     *)
(* first may run.  `tasks' are the media events and the answers of play()  *)
(* in the order the browser queues them, `ready' the players whose data    *)
(* has come.  Browser behaviour is external.                               *)
(***************************************************************************)
Slots == {"light", "dark"}

allowed(v) == ~v.disposed /\ v.visible /\ ~v.hidden /\ ~v.motion

Runs(v, s) == allowed(v) /\ ~v.paused /\ s = v.theme

\* play() of a player that is paused: refused, under way, or playing at once.
Played(v, s, refused) ==
  CASE v.on[s] -> v
    [] refused -> [v EXCEPT !.tasks = Append(@, <<"refused", s>>)]
    [] s \in v.ready -> [v EXCEPT !.on[s] = TRUE, !.tasks = Append(@, <<"playing", s>>)]
    [] OTHER -> [v EXCEPT !.on[s] = TRUE]

Paused(v, s) ==
  IF v.on[s] /\ s \notin v.ready
  THEN [v EXCEPT !.on[s] = FALSE, !.tasks = Append(@, <<"aborted", s>>)]
  ELSE [v EXCEPT !.on[s] = FALSE]

UpdateSlot(v, s, refused) ==
  LET w == IF Runs(v, s) THEN Played(v, s, refused) ELSE Paused(v, s)
  IN IF v.motion \/ s # v.theme THEN [w EXCEPT !.shown[s] = FALSE] ELSE w

update(v, refused) == UpdateSlot(UpdateSlot(v, "light", refused), "dark", refused)

VideoInit ==
  \E m \in BOOLEAN, t \in Slots :
    video = [theme |-> t, visible |-> FALSE, hidden |-> FALSE, motion |-> m, paused |-> FALSE,
             disposed |-> FALSE, on |-> [s \in Slots |-> FALSE], ready |-> {},
             shown |-> [s \in Slots |-> FALSE], tasks |-> <<>>]

Changed(v) == \E refused \in BOOLEAN : video' = update(v, refused)

Here == ~video.disposed /\ Len(video.tasks) < MaxTasks

seen == Here /\ Changed([video EXCEPT !.visible = ~@])
hide == Here /\ Changed([video EXCEPT !.hidden = ~@])
retheme == Here /\ Changed([video EXCEPT !.theme = IF @ = "light" THEN "dark" ELSE "light"])
remotion == Here /\ Changed([video EXCEPT !.motion = ~@])
control == Here /\ allowed(video) /\ Changed([video EXCEPT !.paused = ~@])
leave == Here /\ Changed([video EXCEPT !.disposed = TRUE])

\* External: the data of a player that was started arrives.
Arrive ==
  \E s \in Slots \ video.ready :
    /\ video.on[s] /\ Len(video.tasks) < MaxTasks
    /\ video' = [video EXCEPT !.ready = @ \cup {s}, !.tasks = Append(@, <<"playing", s>>)]

\* The listeners of the player and the catch of play(), in order.
Deliver ==
  /\ video.tasks # <<>>
  /\ LET s == Head(video.tasks)[2]
         kind == Head(video.tasks)[1]
         v == [video EXCEPT !.tasks = Tail(@)]
         away == [v EXCEPT !.shown[s] = FALSE]
     IN video' =
          CASE kind = "playing" ->
                 IF ~v.disposed /\ ~v.motion /\ v.on[s] THEN [v EXCEPT !.shown[s] = TRUE] ELSE v
            [] kind = "refused" /\ ~v.disposed -> update([away EXCEPT !.paused = TRUE], FALSE)
            [] OTHER -> away

VideoNext == seen \/ hide \/ retheme \/ remotion \/ control \/ leave \/ Arrive \/ Deliver

(***************************************************************************)
(* clip-timeline: freezedetect's lines become frozen intervals, and these  *)
(* with the waits that were recorded become segments of the clip.          *)
(***************************************************************************)
Interval(a, b) == [start |-> a, end |-> b]

\* Mutant of freezeLine: a start within the freeze before it is taken.
freezeUnordered(c, kind, at) ==
  LET bad == [c EXCEPT !.bad = TRUE]
      to == SmallerOf(at, Length)
  IN IF at > Length + Slack THEN bad
     ELSE IF kind = "start"
     THEN IF c.open # -1 THEN bad ELSE [c EXCEPT !.open = to]
     ELSE IF c.open = -1 \/ at <= c.open THEN bad
     ELSE [c EXCEPT !.open = -1,
                    !.freezes = IF to > c.open THEN Append(@, Interval(c.open, to)) ELSE @]

\* parseFreezeDetect, line by line; a line out of order is an error.
freezeLine(c, kind, at) ==
  LET bad == [c EXCEPT !.bad = TRUE]
      to == SmallerOf(at, Length)
      after == IF c.freezes = <<>> THEN 0 ELSE Last(c.freezes).end
  IN IF at > Length + Slack THEN bad
     ELSE IF kind = "start"
     THEN IF c.open # -1 \/ at < after THEN bad ELSE [c EXCEPT !.open = to]
     ELSE IF c.open = -1 \/ at <= c.open THEN bad
     ELSE [c EXCEPT !.open = -1,
                    !.freezes = IF to > c.open THEN Append(@, Interval(c.open, to)) ELSE @]

\* A freeze still open at the end of the recording lasts to its end.
frozen(c) ==
  IF c.open # -1 /\ c.open < Length THEN Append(c.freezes, Interval(c.open, Length)) ELSE c.freezes

mergeIntervals(intervals) ==
  FoldLeft(LAMBDA merged, i :
             IF merged # <<>> /\ i.start <= Last(merged).end
             THEN [merged EXCEPT ![Len(merged)].end = BiggerOf(@, i.end)]
             ELSE Append(merged, i),
           <<>>, SetToSortSeq(intervals, LAMBDA a, b : a.start < b.start
                                                    \/ (a.start = b.start /\ a.end < b.end)))

\* What is left of a wait between the holds, in order.
outsideHolds(wait, holds) ==
  LET done == FoldLeft(LAMBDA acc, hold :
                IF hold.end <= acc.cursor \/ hold.start >= wait.end \/ acc.cursor >= wait.end THEN acc
                ELSE [cursor |-> BiggerOf(acc.cursor, hold.end),
                      out |-> IF hold.start > acc.cursor
                              THEN Append(acc.out, Interval(acc.cursor, hold.start)) ELSE acc.out],
                [cursor |-> wait.start, out |-> <<>>], holds)
  IN IF done.cursor < wait.end THEN Append(done.out, Interval(done.cursor, wait.end)) ELSE done.out

Clipped(i, from) == Interval(BiggerOf(from, SmallerOf(i.start, Length)), SmallerOf(i.end, Length))

Whole(intervals) == {i \in intervals : i.end > i.start}

\* Without a typing mark everything before the first wait is kept.
opening(waits, freezes, from) ==
  LET end == Min({Length} \cup {w.start : w \in {v \in waits : v.kind # "hold"}})
  IN IF freezes # <<>> /\ (\A w \in waits : w.kind # "typing") /\ end > from
     THEN {Interval(from, SmallerOf(end, Length))} ELSE {}

Protected(waits, freezes, from) ==
  Whole({Clipped(w, from) : w \in {v \in waits : v.kind \in {"hold", "typing"}}})
    \cup opening(waits, freezes, from)

Idle(waits, freezes, from) ==
  Whole({Clipped(w, from) : w \in {v \in waits : v.kind \notin {"hold", "typing"}}}
          \cup {Clipped(freezes[i], from) : i \in DOMAIN freezes})

clipSegments(waits, freezes, from) ==
  LET holds == mergeIntervals(Protected(waits, freezes, from))
      idle == mergeIntervals(Idle(waits, freezes, from))
      cut == FlattenSeq([i \in DOMAIN idle |-> outsideHolds(idle[i], holds)])
      Seg(a, b, seconds) == IF b > a THEN <<[start |-> a, end |-> b, seconds |-> seconds]>> ELSE <<>>
      all == FoldLeft(LAMBDA acc, w :
               [cursor |-> w.end,
                segs |-> acc.segs \o Seg(acc.cursor, w.start, w.start - acc.cursor)
                           \o Seg(w.start, w.end, SmallerOf(Short, w.end - w.start))],
               [cursor |-> from, segs |-> <<>>], cut)
  IN all.segs \o Seg(all.cursor, Length, Length - all.cursor)

\* Marks outside the recording are refused before anything is cut.
Marks == {w \in [kind : {"hold", "typing", "wait"}, start : 0 .. Length, end : 1 .. Length + Slack] :
            w.start < w.end}

NoClip == [freezes |-> <<>>, open |-> -1, bad |-> FALSE, waits |-> {}, from |-> 0, segments |-> <<>>]

ClipInit == clip = NoClip

Line ==
  \E kind \in {"start", "end"}, at \in 0 .. Length + Slack + 1 :
    /\ ~clip.bad /\ clip.segments = <<>> /\ Len(clip.freezes) < MaxMarks
    /\ clip' = freezeLine(clip, kind, at)

Cut ==
  \E waits \in {{}} \cup {{a, b} : a \in Marks, b \in Marks}, from \in 0 .. 1 :
    /\ ~clip.bad /\ clip.segments = <<>>
    /\ clip' = [clip EXCEPT !.waits = waits, !.from = from,
                            !.segments = clipSegments(waits, frozen(clip), from)]

ClipNext == Line \/ Cut

(***************************************************************************)
(* uploadClips: each encoded file that the manifest does not name yet goes *)
(* to an object named by its contents, then the manifest is replaced.  A   *)
(* failed upload throws, and the process may end anywhere.                 *)
(***************************************************************************)
MediaFiles == Range(Files)

MediaInit ==
  media = [input |-> [f \in MediaFiles |-> NoFile], objects |-> {}, at |-> 0,
           manifest |-> [f \in MediaFiles |-> NoFile], draft |-> [f \in MediaFiles |-> NoFile]]

\* A retake may hold only some of the files.
Retake ==
  /\ media.at = 0
  /\ \E input \in [MediaFiles -> Takes \cup {NoFile}] : media' = [media EXCEPT !.input = input]

Begin == media.at = 0 /\ media' = [media EXCEPT !.at = 1, !.draft = media.manifest]

Upload ==
  /\ media.at \in DOMAIN Files
  /\ LET f == Files[media.at]
         file == media.input[f]
     IN media' = IF file \in {NoFile, media.draft[f]} THEN [media EXCEPT !.at = @ + 1]
                 ELSE [media EXCEPT !.at = @ + 1, !.draft[f] = file, !.objects = @ \cup {<<f, file>>}]

WriteManifest ==
  /\ media.at > Len(Files)
  /\ media' = [media EXCEPT !.at = 0, !.manifest = media.draft]

\* (A put that failed after it stored its object ends before the next step.)
Ends == media.at > 0 /\ media' = [media EXCEPT !.at = 0]

MediaNext == Retake \/ Begin \/ Upload \/ WriteManifest \/ Ends

(***************************************************************************)
(* Properties                                                              *)
(***************************************************************************)

(***************************************************************************)
(* Time that is hidden, off screen, paused or spent in the bfcache never   *)
(* counts, and none that was watched is lost, however late the timer is.   *)
(***************************************************************************)
OnlyWatchedTimeCounts == replay.elapsed + replay.since = Start + replay.watched

(***************************************************************************)
(* A page that may move does: it has a chart, or loads it, or could not;   *)
(* a chart in view runs.  Without motion the labels are those of the run.  *)
(***************************************************************************)
ReplayFollowsThePage ==
  ~replay.disposed =>
    /\ visible(replay) => replay.plot \/ replay.pending \/ replay.failed
    /\ (active(replay) /\ replay.plot /\ ~replay.cached) <=> (replay.timer /\ ~replay.cached)
    /\ replay.motion => ~replay.plot /\ replay.label = Final

(***************************************************************************)
(* What is drawn was measured: the points are, in order, the samples of    *)
(* the window and the last one before it, and the value at the edge is the *)
(* last one received, in any round of the replay.                          *)
(***************************************************************************)
Measured(t) ==
  {p \in [time : 0 .. t, value : {Samples[i].value : i \in DOMAIN Samples}] :
     \E i \in DOMAIN Samples :
       p.value = Samples[i].value /\ p.time % Duration = Samples[i].at}

FramesAreMeasured ==
  LET e == replay.painted
      drawn == replayFrame(e)
      inside == {p \in Measured(e) : p.time >= e - WINDOW}
      left == {p \in Measured(e) : p.time < e - WINDOW}
      latest(S) == {p \in S : \A q \in S : q.time <= p.time}
      edge == {[time |-> e, value |-> p.value] : p \in latest(Measured(e))}
  IN /\ {drawn[i] : i \in DOMAIN drawn} = inside \cup latest(left) \cup edge
     /\ \A i \in DOMAIN drawn, j \in DOMAIN drawn : i < j => drawn[i].time < drawn[j].time

(***************************************************************************)
(* The clip seen is the one of the theme, never against reduced motion; at *)
(* most that one runs, and once its events are in, a clip that runs is     *)
(* seen instead of the poster.                                             *)
(***************************************************************************)
ClipSeenIsTheThemes ==
  \A s \in Slots :
    /\ video.on[s] => Runs(video, s)
    /\ (video.shown[s] /\ ~video.disposed) => (s = video.theme /\ ~video.motion)
    /\ (video.tasks = <<>> /\ video.on[s] /\ s \in video.ready) => video.shown[s]

(***************************************************************************)
(* The segments cover the clip from its start to the end of the recording, *)
(* what is held or typed keeps its speed, nothing but idle time is cut, to *)
(* Short and not below, and idle time longer than that is never kept.      *)
(***************************************************************************)
Cells(i) == i.start .. i.end - 1

ClipKeepsTheStory ==
  clip.segments # <<>> =>
    LET segs == clip.segments
        keep == UNION {Cells(i) : i \in Protected(clip.waits, frozen(clip), clip.from)}
        idle == UNION {Cells(i) : i \in Idle(clip.waits, frozen(clip), clip.from)} \ keep
    IN /\ segs[1].start = clip.from /\ Last(segs).end = Length
       /\ \A i \in DOMAIN segs :
            /\ i > 1 => segs[i].start = segs[i - 1].end
            /\ segs[i].end > segs[i].start
            /\ IF Cells(segs[i]) \subseteq idle
               THEN segs[i].seconds = SmallerOf(Short, segs[i].end - segs[i].start)
               ELSE Cells(segs[i]) \cap idle = {} /\ segs[i].seconds = segs[i].end - segs[i].start

\* The frozen intervals are in order, apart, and inside the recording.
FreezesInOrder ==
  ~clip.bad =>
    LET f == frozen(clip)
    IN \A i \in DOMAIN f :
         /\ 0 <= f[i].start /\ f[i].start < f[i].end /\ f[i].end <= Length
         /\ i > 1 => f[i - 1].end <= f[i].start

\* The page's manifest never names an object that is not stored, however an
\* upload ended, and a retake of some clips drops none of the others
\* (upload-clips.mjs, the comments on the manifest).
PublishedIsStored ==
  /\ \A f \in MediaFiles : media.manifest[f] # NoFile => <<f, media.manifest[f]>> \in media.objects
  /\ \A f \in MediaFiles : media.draft[f] = NoFile => media.manifest[f] = NoFile
=============================================================================
