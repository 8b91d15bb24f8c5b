------------------------ MODULE WebDashboardsProofs --------------------------
(* Proofs about a dashboard of the web app, for any panels, ranges, times, *)
(* variables, results and bounds.                                          *)
EXTENDS WebDashboards, SequenceTheorems, FiniteSetTheorems, TLAPS

-----------------------------------------------------------------------------
(* The view: while a zoom can come back, the history says where to; a time *)
(* in the address that the brush does not know of ends it when rendered.   *)

Url == [time : Time, view : OpenPanels \cup {NoPanel}, drill : OpenPanels \cup {NoPanel},
        edit : BOOLEAN, compare : BOOLEAN]

IsView(p) ==
  /\ p = [history |-> p.history, at |-> p.at, shown |-> p.shown, brush |-> p.brush,
          panels |-> p.panels, ranges |-> p.ranges]
  /\ p.history \in Seq(Url) /\ p.at \in 1 .. Len(p.history) /\ p.shown \in Url

IsBrush(b) == b = [last |-> b.last, restore |-> b.restore, zoomed |-> b.zoomed]
              /\ (b.zoomed = TRUE <=> b.restore # {})

\* The way back: entry i has the time, all entries since then are brushed ones.
WayBack(h, at, times) ==
  \E i \in 1 .. at - 1 :
    /\ times = {h[i].time} /\ h[i + 1].time # h[i].time
    /\ \A j \in i + 1 .. at : h[j].time \in Spans

Zooming(p) == p.brush.restore # {} => WayBack(p.history, p.at, p.brush.restore)

ViewOk(p) ==
  /\ IsView(p) /\ IsBrush(p.brush)
  /\ p.shown.time = p.history[p.at].time => p.brush.last = NoSpan /\ Zooming(p)
  /\ p.shown.time # p.history[p.at].time =>
       \/ p.brush.last = p.history[p.at].time /\ Zooming(p)
       \/ p.brush.last = NoSpan

ViewInv == ViewOk(v1)

LEMMA ViewHolds == ViewInv => View!ZoomComesBack
<1> SUFFICES ASSUME ViewInv, v1.shown = v1.history[v1.at], v1.brush.zoomed
    PROVE  \E i \in 1..v1.at - 1 :
             /\ v1.brush.restore = {v1.history[i].time}
             /\ \A j \in i + 1..v1.at : v1.history[j].time \in Spans
  BY DEF View!ZoomComesBack, View!Settled, View!Address
<1>1. v1.brush.restore # {} /\ Zooming(v1)
  BY DEF ViewInv, ViewOk, IsBrush
<1> QED  BY <1>1 DEF Zooming, WayBack

LEMMA UnzoomedShape ==
  View!Unzoomed = [last |-> NoSpan, restore |-> {}, zoomed |-> FALSE] /\ IsBrush(View!Unzoomed)
  /\ View!Unzoomed.last = NoSpan /\ View!Unzoomed.restore = {}
<1> PICK b : b = View!Unzoomed
  OBVIOUS
<1>1. b = [last |-> NoSpan, restore |-> {}, zoomed |-> FALSE]
  BY DEF View!Unzoomed
<1>2. IsBrush(b) /\ b.last = NoSpan /\ b.restore = {}
  BY ONLY <1>1 DEF IsBrush
<1> QED  BY <1>1, <1>2

LEMMA ViewStart == View!ViewInit => ViewInv
<1> SUFFICES ASSUME NEW blank, blank = View!Blank, NEW b, b = View!Unzoomed,
       v1 = [history |-> <<blank>>, at |-> 1, shown |-> blank, brush |-> b,
             panels |-> OpenPanels, ranges |-> {}]
    PROVE ViewInv
  BY DEF View!ViewInit
<1>1. blank \in Url
  BY DEF View!Blank, Url, Time
<1> PICK h : h = <<blank>>
  OBVIOUS
<1>2. h \in Seq(Url) /\ Len(h) = 1 /\ h[1] = blank
  BY <1>1
<1>3. IsBrush(b) /\ b.last = NoSpan /\ b.restore = {}
  BY UnzoomedShape
<1> PICK v : v = v1
  OBVIOUS
<1>4. /\ v = [history |-> v.history, at |-> v.at, shown |-> v.shown, brush |-> v.brush,
              panels |-> v.panels, ranges |-> v.ranges]
      /\ v.history = h /\ v.at = 1 /\ v.shown = blank /\ v.brush = b
  OBVIOUS
<1>5. ViewOk(v)
  BY ONLY <1>1, <1>2, <1>3, <1>4 DEF ViewOk, IsView, Zooming
<1> QED  BY <1>5 DEF ViewInv

\* A link opens a new entry behind the one shown.
LEMMA Pushed ==
  ASSUME NEW p, IsView(p), NEW url \in Url, url # p.history[p.at],
         NEW q, q = View!Push(p, url)
  PROVE  /\ IsView(q) /\ q.shown = p.shown /\ q.brush = p.brush /\ q.at = p.at + 1
         /\ \A j \in 1 .. p.at : q.history[j] = p.history[j]
         /\ q.history[p.at + 1] = url
<1> PICK old, h : old = SubSeq(p.history, 1, p.at) /\ h = Append(old, url)
  OBVIOUS
<1> PICK n : n = p.at
  OBVIOUS
<1>1. n \in Nat /\ n >= 1 /\ n <= Len(p.history) /\ Len(p.history) \in Nat
  BY LenProperties DEF IsView
<1>2. \A i \in 1 .. n : p.history[i] \in Url
  BY <1>1, ElementOfSeq DEF IsView
<1>3. /\ SubSeq(p.history, 1, n) \in Seq(Url)
      /\ Len(SubSeq(p.history, 1, n)) = (IF 1 <= n THEN n - 1 + 1 ELSE 0)
      /\ \A i \in 1 .. n - 1 + 1 : SubSeq(p.history, 1, n)[i] = p.history[1 + i - 1]
  BY ONLY <1>1, <1>2, SubSeqProperties
<1>4. old \in Seq(Url) /\ Len(old) = n /\ \A j \in 1 .. n : old[j] = p.history[j]
  BY <1>1, <1>3
<1>5. /\ Append(old, url) \in Seq(Url) /\ Len(Append(old, url)) = n + 1
      /\ \A j \in 1 .. n : Append(old, url)[j] = old[j]
      /\ Append(old, url)[n + 1] = url
  BY ONLY <1>4, url \in Url, AppendProperties
<1>6. h \in Seq(Url) /\ Len(h) = n + 1 /\ (\A j \in 1 .. n : h[j] = p.history[j]) /\ h[n + 1] = url
  BY <1>4, <1>5
<1>7. q = [history |-> h, at |-> n + 1, shown |-> p.shown, brush |-> p.brush,
           panels |-> p.panels, ranges |-> p.ranges]
  BY DEF View!Push, View!Address, IsView
<1>8. /\ q = [history |-> q.history, at |-> q.at, shown |-> q.shown, brush |-> q.brush,
              panels |-> q.panels, ranges |-> q.ranges]
      /\ q.history = h /\ q.at = n + 1 /\ q.shown = p.shown /\ q.brush = p.brush
  BY ONLY <1>7
<1>9. IsView(q)
  BY ONLY <1>1, <1>6, <1>8, IsView(p) DEF IsView
<1> QED  BY ONLY <1>6, <1>8, <1>9, n = p.at

LEMMA ViewFacts ==
  ASSUME NEW p, ViewOk(p)
  PROVE  /\ p.at \in Nat /\ p.at >= 1 /\ Len(p.history) \in Nat /\ p.at <= Len(p.history)
         /\ \A j \in 1 .. p.at : p.history[j] \in Url
         /\ p.shown \in Url /\ IsBrush(p.brush)
BY LenProperties, ElementOfSeq DEF ViewOk, IsView

\* What was opened behind a settled page keeps its time or ends the zoom.
LEMMA OpenedBehind ==
  ASSUME NEW p, ViewOk(p), p.shown = p.history[p.at], NEW q, NEW url \in Url,
         IsView(q), q.shown = p.shown, q.at = p.at + 1,
         \A j \in 1 .. p.at : q.history[j] = p.history[j],
         q.history[p.at + 1] = url,
         IsBrush(q.brush), q.brush.last = NoSpan, q.brush = p.brush \/ q.brush.restore = {}
  PROVE  ViewOk(q)
<1>1. Zooming(p) /\ p.at \in Nat /\ p.at >= 1
  BY ViewFacts DEF ViewOk
<1>2. ASSUME q.brush.restore # {}, p.shown.time = url.time  PROVE WayBack(q.history, q.at, q.brush.restore)
  <2>1. WayBack(p.history, p.at, p.brush.restore) /\ q.brush = p.brush
    BY <1>1, <1>2 DEF Zooming
  <2> PICK i \in 1 .. p.at - 1 :
        /\ p.brush.restore = {p.history[i].time} /\ p.history[i + 1].time # p.history[i].time
        /\ \A j \in i + 1 .. p.at : p.history[j].time \in Spans
    BY <2>1 DEF WayBack
  <2>2. i \in 1 .. q.at - 1 /\ i \in 1 .. p.at /\ i + 1 \in 1 .. p.at /\ p.at \in i + 1 .. p.at
    BY <1>1
  <2>3. ASSUME NEW j \in i + 1 .. q.at  PROVE q.history[j].time \in Spans
    <3>1. CASE j = p.at + 1
      BY <1>2, <2>2, <3>1
    <3>2. CASE j # p.at + 1
      <4>1. j \in i + 1 .. p.at /\ j \in 1 .. p.at
        BY <1>1, <3>2
      <4> QED  BY <4>1
    <3> QED  BY <3>1, <3>2
  <2> QED  BY <2>1, <2>2, <2>3 DEF WayBack
<1> QED  BY <1>2 DEF ViewOk, Zooming

LEMMA SameEntry ==
  ASSUME NEW p, ViewOk(p), p.shown = p.history[p.at], NEW q,
         IsView(q), q.shown = p.shown, q.at = p.at, q.history = p.history,
         IsBrush(q.brush), q.brush.last = NoSpan, q.brush = p.brush \/ q.brush.restore = {}
  PROVE  ViewOk(q)
BY DEF ViewOk, Zooming

\* The same view, with another brush.
Brushed(p, b) == [p EXCEPT !.brush = b]

LEMMA BrushedShape ==
  ASSUME NEW p, IsView(p), NEW b
  PROVE  /\ IsView(Brushed(p, b)) /\ Brushed(p, b).brush = b
         /\ Brushed(p, b).history = p.history /\ Brushed(p, b).at = p.at
         /\ Brushed(p, b).shown = p.shown
<1> PICK q : q = Brushed(p, b)
  OBVIOUS
<1>1. q = [history |-> p.history, at |-> p.at, shown |-> p.shown, brush |-> b,
           panels |-> p.panels, ranges |-> p.ranges]
  BY DEF Brushed, IsView
<1>2. /\ q = [history |-> q.history, at |-> q.at, shown |-> q.shown, brush |-> q.brush,
              panels |-> q.panels, ranges |-> q.ranges]
      /\ q.history = p.history /\ q.at = p.at /\ q.shown = p.shown /\ q.brush = b
  BY ONLY <1>1
<1> QED  BY <1>2 DEF IsView

LEMMA PushStep ==
  ASSUME NEW p, IsView(p), p.shown = p.history[p.at], NEW old, ViewOk(old), old.shown = p.shown,
         old.history = p.history, old.at = p.at, NEW url \in Url,
         IsBrush(p.brush), p.brush.last = NoSpan, p.brush = old.brush \/ p.brush.restore = {}
  PROVE  ViewOk(View!Push(p, url))
<1> PICK q : q = View!Push(p, url)
  OBVIOUS
<1>1. CASE url = p.history[p.at]
  <2>1. q = p
    BY <1>1 DEF View!Push, View!Address
  <2> QED  BY <2>1, SameEntry
<1>2. CASE url # p.history[p.at]
  <2>1. /\ IsView(q) /\ q.shown = p.shown /\ q.brush = p.brush /\ q.at = p.at + 1
        /\ \A j \in 1 .. p.at : q.history[j] = p.history[j]
        /\ q.history[p.at + 1] = url
    BY ONLY <1>2, Pushed, IsView(p), url \in Url, q = View!Push(p, url)
  <2> QED  BY OpenedBehind, <2>1
<1> QED  BY <1>1, <1>2

\* A replaced address of the same time.
LEMMA ReplaceStep ==
  ASSUME NEW p, ViewOk(p), p.shown = p.history[p.at], NEW url \in Url, url.time = p.shown.time
  PROVE  ViewOk(View!Replace(p, url))
<1> PICK q : q = View!Replace(p, url)
  OBVIOUS
<1>0. IsView(p) /\ p.at \in 1 .. Len(p.history) /\ p.at \in Nat /\ p.history \in Seq(Url)
      /\ Zooming(p) /\ p.brush.last = NoSpan /\ IsBrush(p.brush)
  BY DEF ViewOk, IsView
<1> PICK h : h = [p.history EXCEPT ![p.at] = url]
  OBVIOUS
<1>1. q = [history |-> h, at |-> p.at, shown |-> p.shown, brush |-> p.brush,
           panels |-> p.panels, ranges |-> p.ranges]
  BY <1>0 DEF View!Replace, IsView
<1>2. /\ q = [history |-> q.history, at |-> q.at, shown |-> q.shown, brush |-> q.brush,
              panels |-> q.panels, ranges |-> q.ranges]
      /\ q.shown = p.shown /\ q.brush = p.brush /\ q.at = p.at /\ q.history = h
  BY ONLY <1>1
<1>3. h \in Seq(Url) /\ Len(h) = Len(p.history) /\ h[p.at] = url
      /\ \A j \in 1 .. Len(p.history) : h[j].time = p.history[j].time
  BY <1>0
<1>4. IsView(q)
  BY <1>0, <1>2, <1>3 DEF IsView
<1>5. ASSUME p.brush.restore # {}  PROVE WayBack(h, p.at, p.brush.restore)
  <2> PICK i \in 1 .. p.at - 1 :
        /\ p.brush.restore = {p.history[i].time} /\ p.history[i + 1].time # p.history[i].time
        /\ \A j \in i + 1 .. p.at : p.history[j].time \in Spans
    BY <1>0, <1>5 DEF Zooming, WayBack
  <2>1. /\ i \in 1 .. Len(p.history) /\ i + 1 \in 1 .. Len(p.history)
        /\ \A j \in i + 1 .. p.at : j \in 1 .. Len(p.history)
    BY <1>0
  <2>2. \A j \in i + 1 .. p.at : h[j].time \in Spans
    BY <1>3, <2>1
  <2>3. p.brush.restore = {h[i].time} /\ h[i + 1].time # h[i].time
    BY <1>3, <2>1
  <2> QED  BY <2>2, <2>3 DEF WayBack
<1> QED  BY <1>0, <1>2, <1>3, <1>4, <1>5 DEF ViewOk, Zooming

\* The panels there are and the ranges selected on them leave the view alone.
Sided(p, panels, ranges) == [p EXCEPT !.panels = panels, !.ranges = ranges]

LEMMA SidesStep ==
  ASSUME NEW p, ViewOk(p), NEW panels, NEW ranges
  PROVE  ViewOk(Sided(p, panels, ranges))
<1> PICK q : q = Sided(p, panels, ranges)
  OBVIOUS
<1>1. q = [history |-> p.history, at |-> p.at, shown |-> p.shown, brush |-> p.brush,
           panels |-> panels, ranges |-> ranges]
  BY DEF Sided, ViewOk, IsView
<1>2. /\ q = [history |-> q.history, at |-> q.at, shown |-> q.shown, brush |-> q.brush,
              panels |-> q.panels, ranges |-> q.ranges]
      /\ q.shown = p.shown /\ q.brush = p.brush /\ q.at = p.at /\ q.history = p.history
  BY ONLY <1>1
<1> QED  BY <1>2 DEF ViewOk, IsView, Zooming

LEMMA RenderStep == ViewInv /\ View!Render => ViewInv'
<1> SUFFICES ASSUME NEW p, ViewOk(p), p.shown # p.history[p.at], NEW now, now = p.history[p.at],
       NEW b, b = View!Rendered(p.brush, p.shown.time, now.time),
       NEW q, q = [p EXCEPT !.shown = now, !.brush = b]
    PROVE  ViewOk(q)
  BY DEF ViewInv, View!Render, View!Settled, View!Address
<1>1. now \in Url /\ IsView(p) /\ IsBrush(p.brush)
  BY ViewFacts DEF ViewOk
<1>2. q = [history |-> p.history, at |-> p.at, shown |-> now, brush |-> b,
           panels |-> p.panels, ranges |-> p.ranges]
  BY <1>1 DEF IsView
<1>3. /\ q = [history |-> q.history, at |-> q.at, shown |-> q.shown, brush |-> q.brush,
              panels |-> q.panels, ranges |-> q.ranges]
      /\ q.history = p.history /\ q.at = p.at /\ q.shown = now /\ q.brush = b
  BY ONLY <1>2
<1>4. IsView(q)
  BY <1>1, <1>3 DEF IsView
<1>5. CASE p.shown.time = now.time
  <2>1. b = p.brush
    BY <1>5 DEF View!Rendered
  <2> QED  BY <1>1, <1>3, <1>4, <1>5, <2>1 DEF ViewOk, Zooming
<1>6. CASE p.shown.time # now.time /\ p.brush.last # now.time
  <2>1. b = View!Unzoomed
    BY <1>6 DEF View!Rendered
  <2> QED  BY <1>3, <1>4, <2>1, UnzoomedShape DEF ViewOk, Zooming
<1>7. CASE p.shown.time # now.time /\ p.brush.last = now.time
  <2>1. now.time # NoSpan
    BY <1>1, SpansAssumption DEF Url
  <2>2. Zooming(p)
    BY <1>7, <2>1 DEF ViewOk
  <2>3. b = [p.brush EXCEPT !.last = NoSpan]
    BY <1>7 DEF View!Rendered
  <2> PICK d : d = p.brush
    OBVIOUS
  <2>4. b = [last |-> NoSpan, restore |-> d.restore, zoomed |-> d.zoomed]
    BY <1>1, <2>3 DEF IsBrush
  <2>5. b = [last |-> b.last, restore |-> b.restore, zoomed |-> b.zoomed] /\ b.last = NoSpan
        /\ b.restore = d.restore /\ b.zoomed = d.zoomed
    BY ONLY <2>4
  <2>6. IsBrush(b)
    BY <1>1, <2>5 DEF IsBrush
  <2> QED  BY <1>3, <1>4, <2>2, <2>5, <2>6 DEF ViewOk, Zooming
<1> QED  BY <1>5, <1>6, <1>7

LEMMA BrowseStep ==
  ASSUME NEW p, ViewOk(p), p.shown = p.history[p.at],
         NEW to \in 1 .. Len(p.history), to \in {p.at - 1, p.at + 1},
         NEW q, q = [p EXCEPT !.at = to]
  PROVE  ViewOk(q)
<1>1. /\ p.at \in Nat /\ p.at >= 1 /\ Len(p.history) \in Nat /\ p.at <= Len(p.history)
      /\ IsView(p) /\ IsBrush(p.brush) /\ Zooming(p) /\ p.brush.last = NoSpan
  BY ViewFacts DEF ViewOk
<1>2. q = [history |-> p.history, at |-> to, shown |-> p.shown, brush |-> p.brush,
           panels |-> p.panels, ranges |-> p.ranges]
  BY <1>1 DEF IsView
<1>3. /\ q = [history |-> q.history, at |-> q.at, shown |-> q.shown, brush |-> q.brush,
              panels |-> q.panels, ranges |-> q.ranges]
      /\ q.history = p.history /\ q.at = to /\ q.shown = p.shown /\ q.brush = p.brush
  BY ONLY <1>2
<1>4. IsView(q)
  BY <1>1, <1>3 DEF IsView
<1>5. ASSUME p.shown.time = p.history[to].time, p.brush.restore # {}
      PROVE  WayBack(p.history, to, p.brush.restore)
  <2> PICK i \in 1 .. p.at - 1 :
        /\ p.brush.restore = {p.history[i].time} /\ p.history[i + 1].time # p.history[i].time
        /\ \A j \in i + 1 .. p.at : p.history[j].time \in Spans
    BY <1>1, <1>5 DEF Zooming, WayBack
  <2>1. CASE to = p.at + 1
    <3>1. i \in 1 .. to - 1 /\ p.at \in i + 1 .. p.at
      BY <1>1, <2>1
    <3>2. ASSUME NEW j \in i + 1 .. to  PROVE p.history[j].time \in Spans
      <4>1. CASE j = to
        BY <1>5, <3>1, <4>1
      <4>2. CASE j # to
        <5>1. j \in i + 1 .. p.at
          BY <1>1, <2>1, <4>2
        <5> QED  BY <5>1
      <4> QED  BY <4>1, <4>2
    <3> QED  BY <3>1, <3>2 DEF WayBack
  <2>2. CASE to = p.at - 1
    <3>1. i # to
      BY <1>1, <1>5, <2>2
    <3>2. i \in 1 .. to - 1 /\ \A j \in i + 1 .. to : j \in i + 1 .. p.at
      BY <1>1, <2>2, <3>1
    <3> QED  BY <3>2 DEF WayBack
  <2> QED  BY <2>1, <2>2
<1> QED  BY <1>1, <1>3, <1>4, <1>5 DEF ViewOk, Zooming

LEMMA ZoomStep ==
  ASSUME NEW p, ViewOk(p), p.shown = p.history[p.at], NEW span \in Spans, span # p.shown.time,
         NEW url, url = [p.shown EXCEPT !.time = span],
         NEW b, b = View!Zoomed(p.brush, p.shown.time, span),
         NEW r, r = View!Push(p, url), NEW q, q = [r EXCEPT !.brush = b]
  PROVE  ViewOk(q)
<1>1. /\ p.at \in Nat /\ p.at >= 1 /\ Len(p.history) \in Nat /\ p.at <= Len(p.history)
      /\ IsView(p) /\ IsBrush(p.brush) /\ Zooming(p) /\ p.brush.last = NoSpan /\ p.shown \in Url
  BY ViewFacts DEF ViewOk
<1>2. span \in Time
  BY SpansAssumption DEF Time
<1>3. url \in Url /\ url.time = span
  BY <1>1, <1>2 DEF Url
<1>4. url # p.history[p.at]
  BY <1>3
<1>5. /\ IsView(r) /\ r.shown = p.shown /\ r.brush = p.brush /\ r.at = p.at + 1
      /\ \A j \in 1 .. p.at : r.history[j] = p.history[j]
      /\ r.history[p.at + 1] = url
  BY ONLY <1>1, <1>3, <1>4, Pushed, r = View!Push(p, url)
<1>6. q = [history |-> r.history, at |-> r.at, shown |-> r.shown, brush |-> b,
           panels |-> r.panels, ranges |-> r.ranges]
  BY <1>5 DEF IsView
<1>7. /\ q = [history |-> q.history, at |-> q.at, shown |-> q.shown, brush |-> q.brush,
              panels |-> q.panels, ranges |-> q.ranges]
      /\ q.history = r.history /\ q.at = r.at /\ q.shown = r.shown /\ q.brush = b
  BY ONLY <1>6
<1>15. IsView(q)
  BY <1>5, <1>7 DEF IsView
<1>8. /\ q.at = p.at + 1 /\ q.history[p.at + 1].time = span /\ q.shown = p.shown
       /\ \A j \in 1 .. p.at : q.history[j] = p.history[j]
  BY ONLY <1>3, <1>5, <1>7
<1> PICK back : back = IF p.brush.restore = {} THEN {p.shown.time} ELSE p.brush.restore
  OBVIOUS
<1>9. b = [last |-> span, restore |-> back, zoomed |-> TRUE]
  BY DEF View!Zoomed
<1>10. b = [last |-> b.last, restore |-> b.restore, zoomed |-> b.zoomed] /\ b.last = span
       /\ b.restore = back /\ b.zoomed = TRUE
  BY ONLY <1>9
<1>11. IsBrush(b)
  BY <1>10 DEF IsBrush
<1>12. WayBack(q.history, p.at + 1, back)
  <2>1. CASE p.brush.restore = {}
    <3>1. p.at \in 1 .. (p.at + 1) - 1 /\ p.at \in 1 .. p.at
          /\ \A j \in p.at + 1 .. p.at + 1 : j = p.at + 1
      BY <1>1
    <3>2. back = {q.history[p.at].time} /\ q.history[p.at + 1].time # q.history[p.at].time
      BY ONLY <1>8, <2>1, <3>1, p.shown = p.history[p.at], span # p.shown.time,
         back = IF p.brush.restore = {} THEN {p.shown.time} ELSE p.brush.restore
    <3> QED  BY ONLY <1>8, <3>1, <3>2, span \in Spans DEF WayBack
  <2>2. CASE p.brush.restore # {}
    <3> PICK i \in 1 .. p.at - 1 :
          /\ p.brush.restore = {p.history[i].time} /\ p.history[i + 1].time # p.history[i].time
          /\ \A j \in i + 1 .. p.at : p.history[j].time \in Spans
      BY <1>1, <2>2 DEF Zooming, WayBack
    <3>1. i \in 1 .. (p.at + 1) - 1 /\ i \in 1 .. p.at /\ i + 1 \in 1 .. p.at
      BY <1>1
    <3>2. ASSUME NEW j \in i + 1 .. p.at + 1  PROVE q.history[j].time \in Spans
      <4>1. CASE j = p.at + 1
        BY ONLY <1>8, <4>1, span \in Spans
      <4>2. CASE j # p.at + 1
        <5>1. j \in i + 1 .. p.at /\ j \in 1 .. p.at
          BY <1>1, <4>2
        <5> QED  BY <1>8, <5>1
      <4> QED  BY <4>1, <4>2
    <3>3. back = {q.history[i].time} /\ q.history[i + 1].time # q.history[i].time
      BY <1>8, <2>2, <3>1
    <3> QED  BY <3>1, <3>2, <3>3 DEF WayBack
  <2> QED  BY <2>1, <2>2
<1>13. q.shown.time # q.history[q.at].time /\ q.brush.last = q.history[q.at].time
  BY ONLY <1>8, <1>7, <1>10, span # p.shown.time
<1>14. Zooming(q)
  BY ONLY <1>5, <1>7, <1>10, <1>12 DEF Zooming
<1> QED  BY <1>7, <1>15, <1>11, <1>13, <1>14 DEF ViewOk

LEMMA WiderTime == \A time \in Time : View!Wider(View!effectiveTime(time)) \in Time
<1> TAKE time \in Time
<1>1. 1 \in DOMAIN Ranges /\ DOMAIN Ranges = 1 .. Len(Ranges) /\ Len(Ranges) \in Nat
  BY RangesAssumption
<1> PICK t : t = View!effectiveTime(time)
  OBVIOUS
<1>2. t \in Time /\ (t = NoTime => View!Relative(t))
  BY <1>1 DEF View!effectiveTime, View!Relative, Time
<1>3. CASE ~View!Relative(t)
  <2>1. t \in Int \X Int
    BY <1>2, <1>3 DEF View!Relative, Time
  <2>2. View!Wider(t) = <<t[1] - 1, t[2] + 1>>
    BY <1>3 DEF View!Wider
  <2>3. <<t[1] - 1, t[2] + 1>> \in Int \X Int
    BY <2>1
  <2> QED  BY <2>2, <2>3 DEF Time
<1>4. CASE View!Relative(t) /\ t = Ranges[Len(Ranges)]
  BY <1>2, <1>4 DEF View!Wider
<1>5. CASE View!Relative(t) /\ t # Ranges[Len(Ranges)]
  <2> PICK i : i = CHOOSE n \in DOMAIN Ranges : Ranges[n] = t
    OBVIOUS
  <2>1. i \in DOMAIN Ranges /\ Ranges[i] = t
    BY <1>5 DEF View!Relative
  <2>2. 1 + i \in DOMAIN Ranges
    BY <1>1, <1>5, <2>1
  <2>3. View!Wider(t) = Ranges[1 + i]
    BY <1>5 DEF View!Wider
  <2> QED  BY <2>2, <2>3 DEF Time
<1> QED  BY <1>3, <1>4, <1>5

LEMMA ViewStep == ViewInv /\ View!ViewNext => ViewInv'
<1> SUFFICES ASSUME ViewInv, View!ViewNext  PROVE ViewInv'
  OBVIOUS
<1> PICK p : p = v1
  OBVIOUS
<1> PICK q : q = v1'
  OBVIOUS
<1> SUFFICES ViewOk(q)
  BY DEF ViewInv
<1>0. ViewOk(p) /\ IsView(p) /\ IsBrush(p.brush) /\ p.shown \in Url
  BY ViewFacts DEF ViewInv, ViewOk
<1> DEFINE settled == p.shown = p.history[p.at]
<1>a. View!Settled <=> settled
  BY DEF View!Settled, View!Address
<1>b. settled => p.brush.last = NoSpan /\ Zooming(p)
  BY <1>0 DEF ViewOk
\* What a link does to a settled page, with its brush and without.
<1>c. ASSUME settled, NEW url \in Url  PROVE ViewOk(View!Push(p, url))
  BY <1>0, <1>b, <1>c, PushStep
<1>d. ASSUME settled, NEW url \in Url  PROVE ViewOk(View!Push(View!reset(p), url))
  <2> PICK b : b = View!Unzoomed
    OBVIOUS
  <2> PICK r : r = Brushed(p, b)
    OBVIOUS
  <2>1. r = View!reset(p)
    BY DEF View!reset, Brushed
  <2>2. IsView(r) /\ r.brush = b /\ r.history = p.history /\ r.at = p.at /\ r.shown = p.shown
    BY <1>0, BrushedShape
  <2>3. IsBrush(b) /\ b.last = NoSpan /\ b.restore = {}
    BY UnzoomedShape
  <2>4. ViewOk(View!Push(r, url))
    BY ONLY <1>0, <1>d, <2>2, <2>3, PushStep
  <2> QED  BY <2>1, <2>4
<1>e. ASSUME NEW time \in Time  PROVE [p.shown EXCEPT !.time = time] \in Url
  BY <1>0 DEF Url
<1>1. ASSUME NEW time \in Time, View!pickTime(time)  PROVE ViewOk(q)
  <2> PICK url : url = [p.shown EXCEPT !.time = time]
    OBVIOUS
  <2>1. url \in Url
    BY <1>e
  <2> PICK r : r = View!reset(p)
    OBVIOUS
  <2>2. r.shown = p.shown
    BY <1>0, BrushedShape DEF View!reset, Brushed
  <2>3. q = View!Push(r, url)
    BY <1>1, <2>2 DEF View!pickTime, View!onSearch
  <2> QED  BY <1>1, <1>a, <1>d, <2>1, <2>3 DEF View!pickTime
<1>2. ASSUME NEW span \in Spans, View!zoom(span)  PROVE ViewOk(q)
  <2> PICK url, b : url = [p.shown EXCEPT !.time = span] /\ b = View!Zoomed(p.brush, p.shown.time, span)
    OBVIOUS
  <2> PICK r : r = View!Push(p, url)
    OBVIOUS
  <2>1. settled /\ span # p.shown.time /\ q = [View!Push(p, url) EXCEPT !.brush = View!Zoomed(@, p.shown.time, span)]
    BY <1>2, <1>a DEF View!zoom, View!Zooms, View!onSearch
  <2>2. r.brush = p.brush
    <3>1. url # p.history[p.at] /\ url \in Url
      BY <1>0, <2>1, <1>e, SpansAssumption DEF Url, Time
    <3> QED  BY ONLY <1>0, <3>1, Pushed, r = View!Push(p, url)
  <2>3. q = [r EXCEPT !.brush = b]
    BY <2>1, <2>2
  <2> QED  BY ONLY <1>0, <2>1, <2>3, ZoomStep, span \in Spans, url = [p.shown EXCEPT !.time = span],
                   b = View!Zoomed(p.brush, p.shown.time, span), r = View!Push(p, url)
<1>3. ASSUME View!zoomOut  PROVE ViewOk(q)
  <2> PICK time : time = View!Wider(View!effectiveTime(p.shown.time))
    OBVIOUS
  <2>1. p.shown.time \in Time
    BY <1>0 DEF Url
  <2>2. time \in Time
    BY <2>1, WiderTime
  <2>3. q = View!Push(p, [p.shown EXCEPT !.time = time])
    BY <1>3 DEF View!zoomOut, View!onSearch
  <2> QED  BY <1>3, <1>a, <1>c, <1>e, <2>2, <2>3 DEF View!zoomOut
<1>4. ASSUME View!resetZoom  PROVE ViewOk(q)
  <2> PICK time : time \in p.brush.restore /\ q = View!onSearch(View!reset(p), time)
    BY <1>4 DEF View!resetZoom
  <2>1. time \in Time
    <3>1. WayBack(p.history, p.at, p.brush.restore)
      BY <1>4, <1>a, <1>b DEF View!resetZoom, Zooming
    <3> PICK i \in 1 .. p.at - 1 : p.brush.restore = {p.history[i].time}
      BY <3>1 DEF WayBack
    <3>2. i \in 1 .. p.at
      BY <1>0, ViewFacts
    <3>3. p.history[i] \in Url
      BY <1>0, <3>2, ViewFacts
    <3> QED  BY <3>3 DEF Url
  <2> PICK url : url = [p.shown EXCEPT !.time = time]
    OBVIOUS
  <2>2. url \in Url
    BY <1>e, <2>1
  <2> PICK r : r = View!reset(p)
    OBVIOUS
  <2>3. r.shown = p.shown
    BY <1>0, BrushedShape DEF View!reset, Brushed
  <2>4. q = View!Push(r, url)
    BY <2>3 DEF View!onSearch
  <2> QED  BY <1>4, <1>a, <1>d, <2>2, <2>4 DEF View!resetZoom
<1>5. ASSUME NEW to \in 1..MaxHistory, View!browse(to)  PROVE ViewOk(q)
  <2>1. settled /\ to \in DOMAIN p.history /\ to \in {p.at - 1, p.at + 1} /\ q = [p EXCEPT !.at = to]
    BY <1>5, <1>a DEF View!browse
  <2>2. to \in 1 .. Len(p.history)
    BY <1>0, <2>1, LenProperties DEF IsView
  <2> QED  BY <1>0, <2>1, <2>2, BrowseStep
<1>6. ASSUME View!edit  PROVE ViewOk(q)
  <2>1. [p.shown EXCEPT !.edit = ~@] \in Url
    BY <1>0 DEF Url
  <2>2. settled /\ q = View!Push(p, [p.shown EXCEPT !.edit = ~@])
    BY <1>6, <1>a DEF View!edit
  <2> QED  BY <2>1, <2>2, <1>c
<1>7. ASSUME View!compare  PROVE ViewOk(q)
  <2> PICK url : url = [p.shown EXCEPT !.compare = ~@]
    OBVIOUS
  <2>1. url \in Url /\ url.time = p.shown.time
    BY <1>0 DEF Url
  <2>2. settled /\ q = View!Replace(p, url)
    BY <1>7, <1>a DEF View!compare
  <2> QED  BY <1>0, <2>1, <2>2, ReplaceStep
<1>8. ASSUME View!closeView  PROVE ViewOk(q)
  <2> PICK url : url = [p.shown EXCEPT !.view = NoPanel]
    OBVIOUS
  <2>1. url \in Url /\ url.time = p.shown.time
    BY <1>0 DEF Url
  <2>2. settled /\ q = View!Replace(p, url)
    BY <1>8, <1>a DEF View!closeView
  <2> QED  BY <1>0, <2>1, <2>2, ReplaceStep
<1>9. ASSUME NEW panel \in OpenPanels, View!onView(panel)  PROVE ViewOk(q)
  <2>1. [p.shown EXCEPT !.view = panel] \in Url
    BY <1>0 DEF Url
  <2>2. settled /\ q = View!Push(p, [p.shown EXCEPT !.view = panel])
    BY <1>9, <1>a DEF View!onView
  <2> QED  BY <2>1, <2>2, <1>c
<1>10. ASSUME NEW panel \in OpenPanels \cup {NoPanel}, View!drillInto(panel)  PROVE ViewOk(q)
  <2>1. [p.shown EXCEPT !.drill = panel] \in Url
    BY <1>0 DEF Url
  <2>2. settled /\ q = View!Push(p, [p.shown EXCEPT !.drill = panel])
    BY <1>10, <1>a DEF View!drillInto
  <2> QED  BY <2>1, <2>2, <1>c
<1>11. ASSUME NEW panels \in SUBSET OpenPanels, View!restored(panels)  PROVE ViewOk(q)
  <2> DEFINE kept(panel) == IF panel \in panels THEN panel ELSE NoPanel
  <2> PICK url : url = [p.shown EXCEPT !.view = kept(@), !.drill = kept(@)]
    OBVIOUS
  <2>1. url \in Url /\ url.time = p.shown.time
    BY <1>0 DEF Url
  <2> PICK r : r = View!Replace(p, url)
    OBVIOUS
  <2>2. settled /\ q = [r EXCEPT !.panels = panels, !.ranges = @ \cap panels]
    BY <1>11, <1>a DEF View!restored
  <2>3. ViewOk(r)
    BY <1>0, <2>1, <2>2, ReplaceStep
  <2>4. q = Sided(r, panels, r.ranges \cap panels)
    BY <2>2 DEF Sided
  <2> QED  BY ONLY <2>3, <2>4, SidesStep
<1>12. ASSUME NEW panel \in OpenPanels, View!removePanel(panel)  PROVE ViewOk(q)
  <2>1. q = Sided(p, p.panels \ {panel}, p.ranges \ {panel})
    BY <1>12 DEF View!removePanel, Sided
  <2> QED  BY ONLY <1>0, <2>1, SidesStep
<1>13. ASSUME NEW panel \in OpenPanels, NEW pending \in BOOLEAN, View!rangePending(panel, pending)
       PROVE  ViewOk(q)
  <2> PICK ranges : ranges = IF pending THEN p.ranges \cup {panel} ELSE p.ranges \ {panel}
    OBVIOUS
  <2>1. q = Sided(p, p.panels, ranges)
    BY <1>0, <1>13 DEF View!rangePending, IsView, Sided
  <2> QED  BY ONLY <1>0, <2>1, SidesStep
<1>14. ASSUME View!Render  PROVE ViewOk(q)
  BY <1>14, RenderStep DEF ViewInv
<1>15. (\A i \in DOMAIN Ranges : Ranges[i] \in Time) /\ Spans \subseteq Time
  BY SpansAssumption DEF Time
<1> QED  BY <1>1, <1>2, <1>3, <1>4, <1>5, <1>6, <1>7, <1>8, <1>9, <1>10, <1>11, <1>12, <1>13, <1>14, <1>15
         DEF View!ViewNext

-----------------------------------------------------------------------------
(* The variable bar: what was read is what the server has for its key, and *)
(* a request is the value resolved from what was read under its key.       *)

\* What was read under a key: at most one list.
Read(p, key) == IF key \in DOMAIN p.cache THEN {p.cache[key]} ELSE {}

IsBar(p) ==
  /\ p = [variable |-> p.variable, stored |-> p.stored, time |-> p.time, supplied |-> p.supplied,
          cache |-> p.cache, shown |-> p.shown, failed |-> p.failed, reads |-> p.reads,
          asked |-> p.asked]
  /\ p.variable \in Variables /\ p.supplied \in Bar!Supplied

ReadsTrue(p) ==
  /\ \A key \in DOMAIN p.cache : p.cache[key] = p.stored[key.time]
  /\ p.variable.kind # "query" => DOMAIN p.cache = {} /\ p.shown = {}
  /\ Bar!Key(p) \in DOMAIN p.cache => p.shown = Read(p, Bar!Key(p))

AskedTrue(p) ==
  \A r \in p.asked : r.value = Bar!resolved(p.variable, r.key.supplied, Read(p, r.key))

BarOk(p) == IsBar(p) /\ ReadsTrue(p) /\ AskedTrue(p)

BarInv == BarOk(v1)

LEMMA KeyIs ==
  ASSUME NEW p
  PROVE  /\ Bar!Key(p).time = p.time /\ Bar!Key(p).supplied = p.supplied
         /\ Bar!currentData(p) = Read(p, Bar!Key(p))
BY DEF Bar!Key, Bar!currentData, Read

\* The choices of an address, by kind.
LEMMA Chosen ==
  ASSUME NEW s \in Bar!Supplied
  PROVE  /\ s = [kind |-> s.kind, list |-> s.list] /\ s.kind \in {"none", "all", "one", "list"}
         /\ s.kind \in {"none", "all"} => s.list = <<>>
         /\ s.kind = "one" => s.list # <<>>
<1>1. CASE s \in {[kind |-> "none", list |-> <<>>], [kind |-> "all", list |-> <<>>]}
  BY <1>1
<1>2. CASE s \in [kind : {"one"}, list : {<<v>> : v \in Values}]
  <2> PICK v \in Values : s.list = <<v>>
    BY <1>2
  <2>1. Len(s.list) = 1 /\ Len(<<>>) = 0
    OBVIOUS
  <2> QED  BY <1>2, <2>1
<1>3. CASE s \in [kind : {"list"}, list : Bar!Lists]
  BY <1>3
<1> QED  BY <1>1, <1>2, <1>3 DEF Bar!Supplied

\* The value of a choice: what it falls back to, all, or the choice itself, filtered.
LEMMA ValueIs ==
  ASSUME NEW v \in Variables, NEW s \in Bar!Supplied, NEW read, NEW c, c = Bar!currentValue(v, s, read)
  PROVE  \/ c = Bar!Fallback(v, Bar!Options(v, read))
         \/ c = Bar!AllOf /\ v.all
         \/ c = s /\ s.kind = "one" /\ s.list # <<>>
         \/ c = s /\ s.kind = "list" /\ (v.multi \/ s.list # <<>>)
         \/ c.kind = s.kind /\ s.kind \in {"one", "list"} /\ c.list # <<>>
            /\ v.kind # "text" /\ Bar!Options(v, read) # {}
<1> PICK options, f, valid : options = Bar!Options(v, read) /\ f = Bar!Fallback(v, options)
                             /\ valid = Bar!Valid(s.list, options)
  OBVIOUS
<1> PICK none : none = Bar!Many(<<>>)
  OBVIOUS
<1>0. none.kind = "list" /\ none.list = <<>>
  BY DEF Bar!Many
<1>1. s = [kind |-> s.kind, list |-> s.list] /\ s.kind \in {"none", "all", "one", "list"}
      /\ (s.kind = "one" => s.list # <<>>) /\ (s.kind = "list" /\ s.list = <<>> <=> s = none)
  BY Chosen DEF Bar!Many
<1>2. c = CASE s.kind = "none" \/ (s = none /\ ~v.multi) -> f
            [] s.kind = "all" -> IF v.all THEN Bar!AllOf ELSE f
            [] OTHER ->
                 IF v.kind = "text" \/ options = {} \/ s = none THEN s
                 ELSE IF valid # <<>> THEN [s EXCEPT !.list = valid]
                 ELSE f
  BY DEF Bar!currentValue
<1>3. CASE s.kind = "none" \/ (s = none /\ ~v.multi)
  BY <1>0, <1>2, <1>3
<1>4. CASE s.kind = "all"
  BY <1>0, <1>2, <1>4
<1>5. CASE s.kind \in {"one", "list"} /\ ~(s = none /\ ~v.multi)
  <2>1. c = IF v.kind = "text" \/ options = {} \/ s = none THEN s
            ELSE IF valid # <<>> THEN [s EXCEPT !.list = valid]
            ELSE f
    BY <1>2, <1>5
  <2>2. CASE v.kind = "text" \/ options = {} \/ s = none
    BY <1>1, <1>5, <2>1, <2>2
  <2>3. CASE ~(v.kind = "text" \/ options = {} \/ s = none) /\ valid = <<>>
    BY <2>1, <2>3
  <2>4. CASE ~(v.kind = "text" \/ options = {} \/ s = none) /\ valid # <<>>
    <3>1. c = [kind |-> s.kind, list |-> valid]
      BY <1>1, <2>1, <2>4
    <3>2. c.kind = s.kind /\ c.list = valid
      BY ONLY <3>1
    <3> QED  BY <1>5, <2>4, <3>2
  <2> QED  BY <2>2, <2>3, <2>4
<1> QED  BY <1>1, <1>3, <1>4, <1>5

\* The server runs a variable with the value it is given, once its options are known.
LEMMA ServerAgrees ==
  ASSUME NEW v \in Variables, NEW s \in Bar!Supplied, NEW read, NEW stored,
         v.kind = "query" => read = {stored},
         v.kind \notin {"query", "custom"} => read = {}
  PROVE  Bar!values(v, Bar!resolved(v, s, read), stored) = Bar!currentValue(v, s, read)
<1> PICK c : c = Bar!currentValue(v, s, read)
  OBVIOUS
<1> PICK r : r = Bar!resolved(v, s, read)
  OBVIOUS
<1> PICK known : known = Bar!Options(v, read)
  OBVIOUS
<1> PICK served : served = CASE v.kind = "custom" -> v.options [] v.kind = "query" -> stored [] OTHER -> <<>>
  OBVIOUS
<1>0. v.multi \in BOOLEAN /\ v.all \in BOOLEAN
  BY VariablesAssumption
<1>1. Bar!Fallback(v, {served}) = Bar!Fallback(v, known)
  <2>1. CASE v.kind \in {"custom", "query"}
    <3>1. known = {served}
      BY <2>1 DEF Bar!Options
    <3> QED  BY <3>1
  <2>2. CASE v.kind \notin {"custom", "query"}
    <3>1. known = {} /\ served = <<>>
      BY <2>2 DEF Bar!Options
    <3> QED  BY <3>1 DEF Bar!Fallback
  <2> QED  BY <2>1, <2>2
<1>2. Bar!values(v, r, stored) = Bar!chooseValue(v, r, served)
  BY DEF Bar!values
<1>3. Bar!chooseValue(v, r, served) =
        IF \/ r.kind = "all" /\ v.all
           \/ r.kind \in {"one", "list", "empty"} /\ (v.multi \/ r.list # <<>>)
        THEN r ELSE Bar!Fallback(v, known)
  BY <1>1 DEF Bar!chooseValue
<1>4. r = IF c = Bar!Empty /\ v.kind = "query" THEN [kind |-> "none", list |-> <<>>] ELSE c
  BY DEF Bar!resolved
<1>5. CASE c = Bar!Fallback(v, known)
  <2> PICK f : f = Bar!Fallback(v, known)
    OBVIOUS
  <2>2. CASE c = Bar!Empty /\ v.kind = "query"
    <3>1. r.kind = "none"
      BY <1>4, <2>2
    <3> QED  BY <1>2, <1>3, <1>5, <3>1
  <2>3. CASE ~(c = Bar!Empty /\ v.kind = "query")
    BY <1>2, <1>3, <1>4, <1>5, <2>3
  <2> QED  BY <2>2, <2>3
<1>6. CASE c = Bar!AllOf /\ v.all
  <2>1. c.kind = "all" /\ c # Bar!Empty
    BY <1>6 DEF Bar!AllOf, Bar!Empty
  <2> QED  BY <1>2, <1>3, <1>4, <1>6, <2>1
<1>7. CASE \/ c = s /\ s.kind = "one" /\ s.list # <<>>
           \/ c = s /\ s.kind = "list" /\ (v.multi \/ s.list # <<>>)
           \/ c.kind = s.kind /\ s.kind \in {"one", "list"} /\ c.list # <<>>
  <2>1. c.kind \in {"one", "list"} /\ (v.multi \/ c.list # <<>>)
    BY <1>7
  <2>2. c # Bar!Empty
    BY <2>1 DEF Bar!Empty
  <2> QED  BY <1>2, <1>3, <1>4, <2>1, <2>2
<1> QED  BY <1>5, <1>6, <1>7, ValueIs

\* Without options a variable is asked with the choice, all, its default or nothing.
LEMMA WithoutOptions ==
  ASSUME NEW v \in Variables, NEW s \in Bar!Supplied, v.kind = "query"
  PROVE  Bar!resolved(v, s, {}) \in {s, Bar!AllOf, [kind |-> "none", list |-> <<>>]}
           \cup (IF v.default = NoValue THEN {} ELSE {Bar!Default(v)})
<1> PICK read : read = {}
  OBVIOUS
<1> PICK c : c = Bar!currentValue(v, s, read)
  OBVIOUS
<1>1. Bar!Options(v, read) = {}
  BY DEF Bar!Options
<1>2. c = Bar!Fallback(v, {}) \/ c = Bar!AllOf \/ c = s
  <2>1. \/ c = Bar!Fallback(v, Bar!Options(v, read))
        \/ c = Bar!AllOf /\ v.all
        \/ c = s /\ s.kind = "one" /\ s.list # <<>>
        \/ c = s /\ s.kind = "list" /\ (v.multi \/ s.list # <<>>)
        \/ c.kind = s.kind /\ s.kind \in {"one", "list"} /\ c.list # <<>>
           /\ v.kind # "text" /\ Bar!Options(v, read) # {}
    BY ONLY v \in Variables, s \in Bar!Supplied, c = Bar!currentValue(v, s, read), ValueIs
  <2>2. Bar!Fallback(v, Bar!Options(v, read)) = Bar!Fallback(v, {})
    BY <1>1
  <2> QED  BY <1>1, <2>1, <2>2
<1>3. Bar!Fallback(v, {}) = Bar!AllOf \/ Bar!Fallback(v, {}) = Bar!Empty
      \/ (v.default # NoValue /\ Bar!Fallback(v, {}) = Bar!Default(v))
  BY DEF Bar!Fallback
<1>4. Bar!resolved(v, s, {}) = IF c = Bar!Empty THEN [kind |-> "none", list |-> <<>>] ELSE c
  BY DEF Bar!resolved
<1> QED  BY <1>2, <1>3, <1>4

LEMMA BarHolds == BarInv => Bar!BarSaysWhatRuns /\ Bar!PlaceholdersNeverAsk
<1> SUFFICES ASSUME BarInv  PROVE Bar!BarSaysWhatRuns /\ Bar!PlaceholdersNeverAsk
  OBVIOUS
<1> PICK p : p = v1
  OBVIOUS
<1>1. IsBar(p) /\ ReadsTrue(p) /\ AskedTrue(p)
  BY DEF BarInv, BarOk
<1> PICK key : key = Bar!Key(p)
  OBVIOUS
<1>2. key.time = p.time /\ key.supplied = p.supplied /\ Bar!currentData(p) = Read(p, key)
  BY KeyIs
<1>3. ASSUME Bar!currentData(p) # {} \/ p.variable.kind # "query", NEW r \in p.asked, r.key = key
      PROVE  Bar!Bar(p) = Bar!values(p.variable, r.value, Bar!Stored(p.time))
  <2> PICK stored, read, v, s : stored = p.stored[p.time] /\ read = p.shown /\ v = p.variable /\ s = p.supplied
    OBVIOUS
  <2>1. v \in Variables /\ s \in Bar!Supplied
    BY <1>1 DEF IsBar
  <2>2. (v.kind = "query" => read = {stored}) /\ (v.kind # "query" => read = {}) /\ read = Read(p, key)
    BY <1>1, <1>2, <1>3 DEF ReadsTrue, Read
  <2>3. r.value = Bar!resolved(v, s, read)
    BY <1>1, <1>2, <1>3, <2>2 DEF AskedTrue
  <2>4. Bar!values(v, Bar!resolved(v, s, read), stored) = Bar!currentValue(v, s, read)
    BY ONLY <2>1, <2>2, ServerAgrees
  <2> QED  BY <2>3, <2>4 DEF Bar!Bar, Bar!Stored
<1>4. ASSUME NEW r \in p.asked, r.key = key, Bar!currentData(p) = {}, p.variable.kind = "query"
      PROVE  r.value \in {p.supplied, Bar!AllOf, [kind |-> "none", list |-> <<>>]}
               \cup (IF p.variable.default = NoValue THEN {} ELSE {Bar!Default(p.variable)})
  <2>1. r.value = Bar!resolved(p.variable, p.supplied, {})
    BY <1>1, <1>2, <1>4 DEF AskedTrue
  <2> QED  BY <1>1, <1>4, <2>1, WithoutOptions DEF IsBar
<1> QED  BY <1>3, <1>4 DEF Bar!BarSaysWhatRuns, Bar!PlaceholdersNeverAsk

LEMMA BarStart == Bar!VariablesInit => BarInv
<1> SUFFICES ASSUME NEW variable \in Variables, NEW stored, NEW time, NEW supplied \in Bar!Supplied, NEW cache,
       NEW failed, cache = [k \in {} |-> <<>>], NEW p,
       p = [variable |-> variable, stored |-> stored, time |-> time, supplied |-> supplied,
            cache |-> cache, shown |-> {}, failed |-> failed, reads |-> 0, asked |-> {}]
    PROVE BarOk(p)
  BY DEF Bar!VariablesInit, BarInv
<1>1. /\ p = [variable |-> p.variable, stored |-> p.stored, time |-> p.time, supplied |-> p.supplied,
              cache |-> p.cache, shown |-> p.shown, failed |-> p.failed, reads |-> p.reads,
              asked |-> p.asked]
      /\ p.variable = variable /\ p.supplied = supplied /\ p.cache = cache /\ p.shown = {} /\ p.asked = {}
  OBVIOUS
<1>2. DOMAIN cache = {}
  OBVIOUS
<1> QED  BY ONLY <1>1, <1>2, variable \in Variables, supplied \in Bar!Supplied
         DEF BarOk, IsBar, ReadsTrue, AskedTrue

\* The panels are asked with what was read for the choices and the time on screen.
LEMMA AskingKeeps ==
  ASSUME NEW p, IsBar(p), ReadsTrue(p), AskedTrue(p) \/ Bar!ready(p)
  PROVE  BarOk(Bar!Asking(p))
<1> PICK q : q = Bar!Asking(p)
  OBVIOUS
<1> PICK key, value : key = Bar!Key(p) /\ value = Bar!resolved(p.variable, p.supplied, Bar!currentData(p))
  OBVIOUS
<1>1. key.time = p.time /\ key.supplied = p.supplied /\ Bar!currentData(p) = Read(p, key)
  BY KeyIs
<1>2. CASE ~Bar!ready(p)
  BY <1>2 DEF Bar!Asking, BarOk
<1>3. CASE Bar!ready(p)
  <2> PICK asked : asked = {[key |-> key, value |-> value]}
    OBVIOUS
  <2>1. q = [variable |-> p.variable, stored |-> p.stored, time |-> p.time, supplied |-> p.supplied,
             cache |-> p.cache, shown |-> p.shown, failed |-> p.failed, reads |-> p.reads,
             asked |-> asked]
    BY <1>3 DEF Bar!Asking, IsBar
  <2>2. /\ q = [variable |-> q.variable, stored |-> q.stored, time |-> q.time, supplied |-> q.supplied,
                cache |-> q.cache, shown |-> q.shown, failed |-> q.failed, reads |-> q.reads,
                asked |-> q.asked]
        /\ q.variable = p.variable /\ q.supplied = p.supplied /\ q.cache = p.cache /\ q.shown = p.shown
        /\ q.time = p.time /\ q.stored = p.stored /\ q.asked = asked
    BY ONLY <2>1
  <2>3. Bar!Key(q) = Bar!Key(p)
    BY <2>2 DEF Bar!Key
  <2>4. IsBar(q) /\ ReadsTrue(q)
    BY <2>2, <2>3 DEF IsBar, ReadsTrue, Read
  <2>5. AskedTrue(q)
    <3> SUFFICES ASSUME NEW r \in asked  PROVE r.value = Bar!resolved(p.variable, r.key.supplied, Read(p, r.key))
      BY <2>2 DEF AskedTrue, Read
    <3>1. r.key = key /\ r.value = value
      OBVIOUS
    <3> QED  BY <1>1, <3>1
  <2> QED  BY <2>4, <2>5 DEF BarOk
<1> QED  BY <1>2, <1>3

LEMMA BarStep == BarInv /\ Bar!VariablesNext => BarInv'
<1> SUFFICES ASSUME BarInv, Bar!VariablesNext  PROVE BarInv'
  OBVIOUS
<1> PICK p : p = v1
  OBVIOUS
<1> PICK q : q = v1'
  OBVIOUS
<1> SUFFICES BarOk(q)
  BY DEF BarInv
<1>0. BarOk(p) /\ IsBar(p) /\ ReadsTrue(p) /\ AskedTrue(p)
  BY DEF BarInv, BarOk
<1> PICK key : key = Bar!Key(p)
  OBVIOUS
<1>k. key.time = p.time /\ key.supplied = p.supplied /\ Bar!currentData(p) = Read(p, key)
  BY KeyIs
<1>1. ASSUME NEW ok \in BOOLEAN, Bar!resolveVariables(ok)  PROVE BarOk(q)
  <2> PICK list : list = p.stored[p.time]
    OBVIOUS
  <2>0. p.variable.kind = "query" /\ key \notin DOMAIN p.cache
    BY <1>1, <1>k DEF Bar!resolveVariables, Read
  <2>1. CASE ok
    <3> PICK cache, n : cache = Bar!Cached(p.cache, key, list) /\ n = p.reads + 1
      OBVIOUS
    <3> PICK r : r = [p EXCEPT !.cache = cache, !.shown = {list}, !.reads = n]
      OBVIOUS
    <3>1. q = Bar!Asking(r)
      BY <1>1, <2>1 DEF Bar!resolveVariables, Bar!Stored
    <3>2. r = [variable |-> p.variable, stored |-> p.stored, time |-> p.time, supplied |-> p.supplied,
               cache |-> cache, shown |-> {list}, failed |-> p.failed, reads |-> n, asked |-> p.asked]
      BY <1>0 DEF IsBar
    <3>3. /\ r = [variable |-> r.variable, stored |-> r.stored, time |-> r.time, supplied |-> r.supplied,
                  cache |-> r.cache, shown |-> r.shown, failed |-> r.failed, reads |-> r.reads,
                  asked |-> r.asked]
          /\ r.variable = p.variable /\ r.supplied = p.supplied /\ r.cache = cache /\ r.shown = {list}
          /\ r.time = p.time /\ r.stored = p.stored /\ r.asked = p.asked
      BY ONLY <3>2
    <3>4. Bar!Key(r) = key
      BY <3>3 DEF Bar!Key
    <3>5. /\ DOMAIN cache = DOMAIN p.cache \cup {key} /\ cache[key] = list
          /\ \A k \in DOMAIN p.cache : cache[k] = p.cache[k]
      BY <2>0 DEF Bar!Cached
    <3>6. IsBar(r) /\ ReadsTrue(r)
      BY <1>0, <1>k, <2>0, <3>3, <3>4, <3>5 DEF IsBar, ReadsTrue, Read
    <3>7. Bar!ready(r)
      <4>1. Bar!currentData(r) # {}
        BY ONLY <3>3, <3>4, <3>5, KeyIs DEF Read
      <4> QED  BY <4>1 DEF Bar!ready
    <3> QED  BY <3>1, <3>6, <3>7, AskingKeeps
  <2>2. CASE ~ok
    <3> PICK r, n : n = p.reads + 1 /\ r = [p EXCEPT !.failed = key, !.reads = n]
      OBVIOUS
    <3>1. q = Bar!Asking(r)
      BY <1>1, <2>2 DEF Bar!resolveVariables
    <3>2. r = [variable |-> p.variable, stored |-> p.stored, time |-> p.time, supplied |-> p.supplied,
               cache |-> p.cache, shown |-> p.shown, failed |-> key, reads |-> n, asked |-> p.asked]
      BY <1>0 DEF IsBar
    <3>3. /\ r = [variable |-> r.variable, stored |-> r.stored, time |-> r.time, supplied |-> r.supplied,
                  cache |-> r.cache, shown |-> r.shown, failed |-> r.failed, reads |-> r.reads,
                  asked |-> r.asked]
          /\ r.variable = p.variable /\ r.supplied = p.supplied /\ r.cache = p.cache /\ r.shown = p.shown
          /\ r.time = p.time /\ r.stored = p.stored /\ r.asked = p.asked
      BY ONLY <3>2
    <3>4. Bar!Key(r) = key
      BY <3>3 DEF Bar!Key
    <3>5. IsBar(r) /\ ReadsTrue(r) /\ AskedTrue(r)
      BY <1>0, <3>3, <3>4 DEF IsBar, ReadsTrue, AskedTrue, Read
    <3> QED  BY <3>1, <3>5, AskingKeeps
  <2> QED  BY <2>1, <2>2
<1>2. ASSUME NEW supplied \in Bar!Supplied, NEW time, NEW r, q = Bar!Turned(r), IsBar(r),
             r.variable = p.variable, r.supplied = supplied, r.cache = p.cache, r.shown = p.shown,
             r.time = time, r.stored = p.stored, r.asked = p.asked
      PROVE  BarOk(q)
  <2> PICK k, shown : k = Bar!Key(r) /\ shown = IF Bar!currentData(r) # {} THEN Bar!currentData(r) ELSE r.shown
    OBVIOUS
  <2> PICK t : t = [r EXCEPT !.shown = shown]
    OBVIOUS
  <2>1. q = Bar!Asking(t)
    BY <1>2 DEF Bar!Turned
  <2>2. t = [variable |-> r.variable, stored |-> r.stored, time |-> r.time, supplied |-> r.supplied,
             cache |-> r.cache, shown |-> shown, failed |-> r.failed, reads |-> r.reads, asked |-> r.asked]
    BY <1>2 DEF IsBar
  <2>3. /\ t = [variable |-> t.variable, stored |-> t.stored, time |-> t.time, supplied |-> t.supplied,
                cache |-> t.cache, shown |-> t.shown, failed |-> t.failed, reads |-> t.reads,
                asked |-> t.asked]
        /\ t.variable = r.variable /\ t.supplied = r.supplied /\ t.cache = r.cache /\ t.shown = shown
        /\ t.time = r.time /\ t.stored = r.stored /\ t.asked = r.asked
    BY ONLY <2>2
  <2>4. Bar!Key(t) = k /\ Bar!currentData(r) = Read(r, k) /\ Read(r, k) = Read(t, k)
    BY <2>3, KeyIs DEF Bar!Key, Read
  <2>7. IsBar(t)
    BY ONLY <1>2, <2>3 DEF IsBar
  <2>8. (Read(r, k) # {} => shown = Read(r, k)) /\ (Read(r, k) = {} => shown = r.shown)
    BY ONLY <2>4, shown = IF Bar!currentData(r) # {} THEN Bar!currentData(r) ELSE r.shown
  <2>9. Read(r, k) = {} <=> k \notin DOMAIN t.cache
    BY <2>3 DEF Read
  <2>5. ReadsTrue(t)
    BY ONLY <1>0, <1>2, <2>3, <2>4, <2>8, <2>9 DEF ReadsTrue
  <2>6. AskedTrue(t)
    <3>1. \A x \in p.asked : Read(t, x.key) = Read(p, x.key)
      BY <1>2, <2>3 DEF Read
    <3> QED  BY <1>0, <1>2, <2>3, <3>1 DEF AskedTrue
  <2> QED  BY <2>1, <2>5, <2>6, <2>7, AskingKeeps
<1>3. ASSUME NEW supplied \in Bar!Supplied, Bar!setVar(supplied)  PROVE BarOk(q)
  <2> PICK r : r = [p EXCEPT !.supplied = supplied]
    OBVIOUS
  <2>1. q = Bar!Turned(r)
    BY <1>3 DEF Bar!setVar
  <2>2. r = [variable |-> p.variable, stored |-> p.stored, time |-> p.time, supplied |-> supplied,
             cache |-> p.cache, shown |-> p.shown, failed |-> p.failed, reads |-> p.reads, asked |-> p.asked]
    BY <1>0 DEF IsBar
  <2>3. /\ IsBar(r) /\ r.variable = p.variable /\ r.supplied = supplied /\ r.cache = p.cache
        /\ r.shown = p.shown /\ r.time = p.time /\ r.stored = p.stored /\ r.asked = p.asked
    BY <1>0, <2>2 DEF IsBar
  <2> QED  BY ONLY <1>2, <2>1, <2>3, supplied \in Bar!Supplied
<1>4. ASSUME NEW time \in Times, Bar!pickTime(time)  PROVE BarOk(q)
  <2> PICK r : r = [p EXCEPT !.time = time]
    OBVIOUS
  <2>1. q = Bar!Turned(r)
    BY <1>4 DEF Bar!pickTime
  <2>2. r = [variable |-> p.variable, stored |-> p.stored, time |-> time, supplied |-> p.supplied,
             cache |-> p.cache, shown |-> p.shown, failed |-> p.failed, reads |-> p.reads, asked |-> p.asked]
    BY <1>0 DEF IsBar
  <2>3. /\ IsBar(r) /\ r.variable = p.variable /\ r.supplied = p.supplied /\ r.cache = p.cache
        /\ r.shown = p.shown /\ r.time = time /\ r.stored = p.stored /\ r.asked = p.asked
    BY <1>0, <2>2 DEF IsBar
  <2>4. p.supplied \in Bar!Supplied
    BY <1>0 DEF IsBar
  <2> QED  BY ONLY <1>2, <2>1, <2>3, <2>4
<1> QED  BY <1>1, <1>3, <1>4 DEF Bar!VariablesNext

-----------------------------------------------------------------------------
(* The results of the panels: what one change of the hook's state does to  *)
(* the frames that are shown, and what is asked for once it has settled.   *)

IsCell(r) == r = [frame |-> r.frame, note |-> r.note] /\ r.frame \in {"none", "old", "new"}

IsFetch(f) ==
  /\ f = [on |-> f.on, sent |-> f.sent, busy |-> f.busy, todo |-> f.todo, later |-> f.later,
          group |-> f.group, got |-> f.got, tries |-> f.tries]
  /\ f.on \in BOOLEAN

IsKept(k) ==
  /\ k = [here |-> k.here, seen |-> k.seen, results |-> k.results]
  /\ k.here \in BOOLEAN /\ k.seen \in BOOLEAN
  /\ k.results = [p \in Panels |-> k.results[p]] /\ \A p \in Panels : IsCell(k.results[p])

IsRequested(r) == r = [here |-> r.here, ids |-> r.ids] /\ r.here \in BOOLEAN

IsResults(s) ==
  /\ s = [visible |-> s.visible, fetch |-> s.fetch, data |-> s.data, kept |-> s.kept,
          requested |-> s.requested, lazy |-> s.lazy, queuedRefresh |-> s.queuedRefresh,
          queuedRetry |-> s.queuedRetry, held |-> s.held]
  /\ IsFetch(s.fetch) /\ IsKept(s.kept) /\ IsRequested(s.requested)
  /\ s.queuedRefresh \in BOOLEAN /\ s.visible \subseteq Panels

Frame(s, p) == Batches!results(s)[p].frame

\* Results that come in, and the frames that the start of a batch ages.
Newer(s, t) == \A p \in Panels : Frame(t, p) = Frame(s, p) \/ Frame(t, p) = "new"

Older(s, t) ==
  \A p \in Panels : \/ Frame(t, p) = Frame(s, p)
                    \/ Frame(s, p) = "new" /\ Frame(t, p) = "old" /\ Batches!Sends(t)

\* A refresh waits for a fetch only, but for one that a retry with nothing to send held.
Heeded(s) == ~s.fetch.on /\ ~s.held => ~s.queuedRefresh

\* A queue of panels belongs to a fetch, and what is in view was asked for.
Quiet(s) ==
  /\ ~s.fetch.on => s.lazy = {}
  /\ Heeded(s)
  /\ ~s.fetch.on /\ ~s.queuedRefresh =>
       \A p \in s.visible : p \in Batches!attempted(s) \/ Batches!results(s)[p] # Batches!Blank

ResultsOk(s) == IsResults(s) /\ Quiet(s)

ResultsInv == ResultsOk(v1)

LEMMA BlankCell == IsCell(Batches!Blank) /\ Batches!Blank.frame = "none"
<1> PICK b : b = Batches!Blank
  OBVIOUS
<1>1. b = [frame |-> "none", note |-> "none"]
  BY DEF Batches!Blank
<1>2. IsCell(b) /\ b.frame = "none"
  BY ONLY <1>1 DEF IsCell
<1> QED  BY <1>2

LEMMA ShownCells == ASSUME NEW s, IsResults(s), NEW p \in Panels  PROVE IsCell(Batches!results(s)[p])
BY BlankCell DEF IsResults, IsKept, Batches!results

LEMMA MergedCell ==
  ASSUME NEW r, IsCell(r), NEW answer, NEW age \in {"old", "new"}
  PROVE  LET m == Batches!MergeOne(r, answer, age) IN
         IsCell(m) /\ (m.frame = r.frame \/ (answer = "ok" /\ m.frame = age))
<1> PICK m : m = Batches!MergeOne(r, answer, age)
  OBVIOUS
<1>1. CASE answer = "none"
  BY <1>1 DEF Batches!MergeOne
<1>2. CASE answer = "ok"
  <2>1. m = [frame |-> age, note |-> "none"]
    BY <1>2 DEF Batches!MergeOne
  <2>2. IsCell(m) /\ m.frame = age
    BY ONLY <2>1, age \in {"old", "new"} DEF IsCell
  <2> QED  BY <1>2, <2>2
<1>3. CASE answer \notin {"none", "ok"}
  <2>1. m = [r EXCEPT !.note = answer]
    BY <1>3 DEF Batches!MergeOne
  <2>2. m = [frame |-> r.frame, note |-> answer]
    BY <2>1 DEF IsCell
  <2>3. IsCell(m) /\ m.frame = r.frame
    BY ONLY <2>2, IsCell(r) DEF IsCell
  <2> QED  BY <2>3
<1> QED  BY <1>1, <1>2, <1>3

\* Everything but what is kept.
Around(s, t) ==
  /\ t.visible = s.visible /\ t.fetch = s.fetch /\ t.requested = s.requested /\ t.lazy = s.lazy
  /\ t.queuedRefresh = s.queuedRefresh /\ t.queuedRetry = s.queuedRetry /\ t.held = s.held

LEMMA Merged ==
  ASSUME NEW s, IsResults(s), NEW data, NEW newer \in BOOLEAN, NEW age \in {"old", "new"},
         NEW failed, NEW note, note # "ok"
  PROVE  LET t == Batches!merge(s, data, newer, age, failed, note) IN
         /\ IsResults(t) /\ Around(s, t) /\ t.kept.here = TRUE
         /\ (newer => age = "new") => Newer(s, t)
<1> PICK t : t = Batches!merge(s, data, newer, age, failed, note)
  OBVIOUS
<1> DEFINE fresh == IF newer THEN data ELSE Batches!Nothing
           second(p) == IF p \in failed THEN note ELSE "none"
           cell(p) == Batches!MergeOne(Batches!MergeOne(Batches!results(s)[p], fresh[p], age), second(p), age)
<1> PICK cells : cells = [p \in Panels |-> cell(p)]
  OBVIOUS
<1> PICK seen : seen = (newer \/ (s.kept.here /\ s.kept.seen))
  OBVIOUS
<1>1. ASSUME NEW p \in Panels
      PROVE  /\ IsCell(cells[p])
             /\ (newer => age = "new") => cells[p].frame = Frame(s, p) \/ cells[p].frame = "new"
  <2> PICK was : was = Batches!results(s)[p]
    OBVIOUS
  <2> PICK answer : answer = fresh[p]
    OBVIOUS
  <2> PICK mid : mid = Batches!MergeOne(was, answer, age)
    OBVIOUS
  <2>1. IsCell(was) /\ Frame(s, p) = was.frame
    BY ShownCells DEF Frame
  <2>2. (newer => age = "new") /\ answer = "ok" => age = "new"
    BY DEF Batches!Nothing
  <2>3. IsCell(mid) /\ ((newer => age = "new") => mid.frame = was.frame \/ mid.frame = "new")
    BY ONLY <2>1, <2>2, MergedCell, mid = Batches!MergeOne(was, answer, age), age \in {"old", "new"}
  <2> PICK last : last = second(p)
    OBVIOUS
  <2>4. last # "ok"
    OBVIOUS
  <2>5. cells[p] = Batches!MergeOne(mid, last, age)
    OBVIOUS
  <2>6. IsCell(cells[p]) /\ cells[p].frame = mid.frame
    BY ONLY <2>3, <2>4, <2>5, MergedCell, age \in {"old", "new"}
  <2> QED  BY <2>1, <2>3, <2>6
<1>2. seen \in BOOLEAN
  BY DEF IsResults, IsKept
<1> PICK kept : kept = [here |-> TRUE, seen |-> seen, results |-> cells]
  OBVIOUS
<1>3. kept.here = TRUE /\ kept.results = cells /\ IsKept(kept)
  <2>1. /\ kept = [here |-> kept.here, seen |-> kept.seen, results |-> kept.results]
        /\ kept.here = TRUE /\ kept.seen = seen /\ kept.results = cells
    OBVIOUS
  <2>2. cells = [p \in Panels |-> cells[p]]
    OBVIOUS
  <2> QED  BY ONLY <1>1, <1>2, <2>1, <2>2 DEF IsKept
<1>4. t = [s EXCEPT !.kept = kept]
  BY DEF Batches!merge
<1>5. t = [visible |-> s.visible, fetch |-> s.fetch, data |-> s.data, kept |-> kept,
           requested |-> s.requested, lazy |-> s.lazy, queuedRefresh |-> s.queuedRefresh,
           queuedRetry |-> s.queuedRetry, held |-> s.held]
  BY <1>4 DEF IsResults
<1>6. /\ t = [visible |-> t.visible, fetch |-> t.fetch, data |-> t.data, kept |-> t.kept,
              requested |-> t.requested, lazy |-> t.lazy, queuedRefresh |-> t.queuedRefresh,
              queuedRetry |-> t.queuedRetry, held |-> t.held]
      /\ Around(s, t) /\ t.kept = kept
  BY ONLY <1>5 DEF Around
<1>7. IsResults(t)
  BY ONLY <1>3, <1>6, IsResults(s) DEF IsResults, Around
<1>8. \A p \in Panels : Frame(t, p) = cells[p].frame
  BY <1>3, <1>6 DEF Frame, Batches!results
<1> QED  BY <1>1, <1>3, <1>6, <1>7, <1>8 DEF Newer

\* Same results, whatever else there is.
LEMMA SameFrames ==
  ASSUME NEW s, NEW t, t.kept = s.kept
  PROVE  /\ Batches!results(t) = Batches!results(s) /\ Newer(s, t) /\ Older(s, t)
         /\ \A p \in Panels : Frame(t, p) = Frame(s, p)
BY DEF Batches!results, Frame, Newer, Older

LEMMA Forgotten ==
  ASSUME NEW s, IsResults(s)
  PROVE  LET t == Batches!Forget(s) IN
         /\ IsResults(t) /\ t.kept = s.kept /\ t.visible = s.visible /\ t.fetch = s.fetch
         /\ t.lazy = s.lazy /\ t.queuedRefresh = s.queuedRefresh /\ t.queuedRetry = s.queuedRetry
         /\ t.held = s.held
<1> PICK t : t = Batches!Forget(s)
  OBVIOUS
<1> PICK ids : ids = IF ~s.requested.here THEN s.requested.ids
                     ELSE {p \in s.requested.ids : Batches!results(s)[p].note # "busy" \/ p \in s.visible}
  OBVIOUS
<1> PICK requested : requested = [here |-> s.requested.here, ids |-> ids]
  OBVIOUS
<1>1. t = [s EXCEPT !.requested.ids = ids]
  BY DEF Batches!Forget
<1>2. [s.requested EXCEPT !.ids = ids] = requested
  <2> PICK was : was = s.requested
    OBVIOUS
  <2>1. was = [here |-> was.here, ids |-> was.ids]
    BY DEF IsResults, IsRequested
  <2>2. [was EXCEPT !.ids = ids] = [here |-> was.here, ids |-> ids]
    BY ONLY <2>1
  <2> QED  BY <2>2
<1>3. t = [visible |-> s.visible, fetch |-> s.fetch, data |-> s.data, kept |-> s.kept,
           requested |-> requested, lazy |-> s.lazy, queuedRefresh |-> s.queuedRefresh,
           queuedRetry |-> s.queuedRetry, held |-> s.held]
  BY <1>1, <1>2 DEF IsResults
<1>4. /\ t = [visible |-> t.visible, fetch |-> t.fetch, data |-> t.data, kept |-> t.kept,
              requested |-> t.requested, lazy |-> t.lazy, queuedRefresh |-> t.queuedRefresh,
              queuedRetry |-> t.queuedRetry, held |-> t.held]
      /\ t.kept = s.kept /\ t.visible = s.visible /\ t.fetch = s.fetch /\ t.requested = requested
      /\ t.lazy = s.lazy /\ t.queuedRefresh = s.queuedRefresh /\ t.queuedRetry = s.queuedRetry
      /\ t.held = s.held
  BY ONLY <1>3
<1>5. IsRequested(requested)
  <2>1. /\ requested = [here |-> requested.here, ids |-> requested.ids]
        /\ requested.here = s.requested.here
    OBVIOUS
  <2> QED  BY <2>1 DEF IsRequested, IsResults
<1>6. IsResults(t)
  BY ONLY <1>4, <1>5, IsResults(s) DEF IsResults
<1> QED  BY <1>4, <1>6

\* A batch is sent: nothing of it has come in.
IsSent(s, t, tries) ==
  /\ IsResults(t) /\ t.kept = s.kept /\ t.visible = s.visible /\ t.lazy = s.lazy
  /\ t.fetch.on = TRUE /\ t.fetch.got = Batches!Nothing /\ t.fetch.tries = tries

LEMMA Sent ==
  ASSUME NEW s, IsResults(s), NEW tries
  PROVE  IsSent(s, Batches!Send(s, tries), tries)
<1> PICK t : t = Batches!Send(s, tries)
  OBVIOUS
<1> DEFINE batch == IF s.lazy # {} THEN s.lazy ELSE IF s.visible = {} THEN Panels ELSE s.visible
           busy == {p \in batch : Batches!results(s)[p].note = "busy"}
<1> PICK requested : requested = [here |-> TRUE, ids |-> Batches!attempted(s) \cup batch]
  OBVIOUS
<1> PICK sent, todo, later, none : sent = batch /\ todo = batch \ busy /\ later = busy /\ none = Batches!Nothing
  OBVIOUS
<1> PICK idle : idle = Batches!NoFetch
  OBVIOUS
<1>1. idle = [on |-> FALSE, sent |-> {}, busy |-> {}, todo |-> {}, later |-> {}, group |-> {},
             got |-> none, tries |-> 0]
  BY DEF Batches!NoFetch
<1> PICK fetch : fetch = [idle EXCEPT !.on = TRUE, !.sent = sent, !.busy = later, !.todo = todo,
                                      !.later = later, !.tries = tries]
  OBVIOUS
<1>2. fetch = [on |-> TRUE, sent |-> sent, busy |-> later, todo |-> todo, later |-> later, group |-> {},
              got |-> none, tries |-> tries]
  BY ONLY <1>1, fetch = [idle EXCEPT !.on = TRUE, !.sent = sent, !.busy = later, !.todo = todo,
                                     !.later = later, !.tries = tries]
<1>3. IsFetch(fetch) /\ fetch.on = TRUE /\ fetch.got = none /\ fetch.tries = tries
  BY ONLY <1>2 DEF IsFetch
<1>4. t = [s EXCEPT !.requested = requested, !.held = FALSE, !.fetch = fetch]
  BY DEF Batches!Send
<1>5. t = [visible |-> s.visible, fetch |-> fetch, data |-> s.data, kept |-> s.kept,
           requested |-> requested, lazy |-> s.lazy, queuedRefresh |-> s.queuedRefresh,
           queuedRetry |-> s.queuedRetry, held |-> FALSE]
  BY <1>4 DEF IsResults
<1>6. /\ t = [visible |-> t.visible, fetch |-> t.fetch, data |-> t.data, kept |-> t.kept,
              requested |-> t.requested, lazy |-> t.lazy, queuedRefresh |-> t.queuedRefresh,
              queuedRetry |-> t.queuedRetry, held |-> t.held]
      /\ t.kept = s.kept /\ t.visible = s.visible /\ t.fetch = fetch /\ t.requested = requested
      /\ t.lazy = s.lazy /\ t.queuedRefresh = s.queuedRefresh
  BY ONLY <1>5
<1>7. IsRequested(requested)
  BY DEF IsRequested
<1>8. IsResults(t)
  BY ONLY <1>3, <1>6, <1>7, IsResults(s) DEF IsResults
<1> QED  BY <1>3, <1>6, <1>8 DEF IsSent

\* Frames of the last batch are of the one before once a new one is sent.
LEMMA AgedCell ==
  ASSUME NEW r, IsCell(r)
  PROVE  LET a == Batches!Aged(r) IN
         IsCell(a) /\ (a.frame = r.frame \/ (r.frame = "new" /\ a.frame = "old"))
<1> PICK a : a = Batches!Aged(r)
  OBVIOUS
<1>1. CASE r.frame # "new"
  BY <1>1 DEF Batches!Aged
<1>2. CASE r.frame = "new"
  <2>1. a = [r EXCEPT !.frame = "old"]
    BY <1>2 DEF Batches!Aged
  <2>2. a = [frame |-> "old", note |-> r.note]
    BY <2>1 DEF IsCell
  <2>3. IsCell(a) /\ a.frame = "old"
    BY ONLY <2>2 DEF IsCell
  <2> QED  BY <1>2, <2>3
<1> QED  BY <1>1, <1>2

LEMMA Started ==
  ASSUME NEW s, IsResults(s)
  PROVE  LET t == Batches!Start(s) IN
         /\ IsResults(t) /\ Older(s, t) /\ t.visible = s.visible
         /\ t.fetch.on = TRUE \/ (/\ Batches!knownEmpty(s) /\ s.lazy = {} /\ t.lazy = {} /\ t.fetch = s.fetch
                                  /\ t.kept = s.kept /\ t.requested = s.requested
                                  /\ t.queuedRefresh = s.queuedRefresh)
<1> PICK t : t = Batches!Start(s)
  OBVIOUS
<1>1. CASE Batches!knownEmpty(s) /\ s.lazy = {}
  <2>1. t = [s EXCEPT !.data = {}]
    BY <1>1 DEF Batches!Start
  <2>2. t = [visible |-> s.visible, fetch |-> s.fetch, data |-> {}, kept |-> s.kept,
             requested |-> s.requested, lazy |-> s.lazy, queuedRefresh |-> s.queuedRefresh,
             queuedRetry |-> s.queuedRetry, held |-> s.held]
    BY <2>1 DEF IsResults
  <2>3. /\ t = [visible |-> t.visible, fetch |-> t.fetch, data |-> t.data, kept |-> t.kept,
                requested |-> t.requested, lazy |-> t.lazy, queuedRefresh |-> t.queuedRefresh,
                queuedRetry |-> t.queuedRetry, held |-> t.held]
        /\ t.kept = s.kept /\ Around(s, t)
    BY ONLY <2>2 DEF Around
  <2> QED  BY <1>1, <2>3, SameFrames DEF IsResults, Around
<1>2. CASE ~(Batches!knownEmpty(s) /\ s.lazy = {})
  <2> PICK cells : cells = [p \in Panels |-> Batches!Aged(s.kept.results[p])]
    OBVIOUS
  <2> PICK kept : kept = [here |-> s.kept.here, seen |-> s.kept.seen, results |-> cells]
    OBVIOUS
  <2> PICK m : m = [s EXCEPT !.kept = kept]
    OBVIOUS
  <2>1. [s.kept EXCEPT !.results = cells] = kept
    <3> PICK was : was = s.kept
      OBVIOUS
    <3>1. was = [here |-> was.here, seen |-> was.seen, results |-> was.results]
      BY DEF IsResults, IsKept
    <3>2. [was EXCEPT !.results = cells] = [here |-> was.here, seen |-> was.seen, results |-> cells]
      BY ONLY <3>1
    <3> QED  BY <3>2
  <2>2. [s EXCEPT !.kept.results = [p \in Panels |-> Batches!Aged(@[p])]] = m
    BY <2>1
  <2>3. t = Batches!Send(m, 0)
    BY <1>2, <2>2 DEF Batches!Start
  <2>4. m = [visible |-> s.visible, fetch |-> s.fetch, data |-> s.data, kept |-> kept,
             requested |-> s.requested, lazy |-> s.lazy, queuedRefresh |-> s.queuedRefresh,
             queuedRetry |-> s.queuedRetry, held |-> s.held]
    BY DEF IsResults
  <2>5. /\ m = [visible |-> m.visible, fetch |-> m.fetch, data |-> m.data, kept |-> m.kept,
                requested |-> m.requested, lazy |-> m.lazy, queuedRefresh |-> m.queuedRefresh,
                queuedRetry |-> m.queuedRetry, held |-> m.held]
        /\ m.kept = kept /\ Around(s, m)
    BY ONLY <2>4 DEF Around
  <2>6. ASSUME NEW p \in Panels
        PROVE  /\ IsCell(cells[p])
               /\ \/ cells[p].frame = s.kept.results[p].frame
                  \/ s.kept.results[p].frame = "new" /\ cells[p].frame = "old"
    <3>1. IsCell(s.kept.results[p]) /\ cells[p] = Batches!Aged(s.kept.results[p])
      BY DEF IsResults, IsKept
    <3> QED  BY ONLY <3>1, AgedCell
  <2>7. IsKept(kept) /\ kept.here = s.kept.here /\ kept.results = cells
    <3>1. /\ kept = [here |-> kept.here, seen |-> kept.seen, results |-> kept.results]
          /\ kept.here = s.kept.here /\ kept.seen = s.kept.seen /\ kept.results = cells
      OBVIOUS
    <3>2. cells = [p \in Panels |-> cells[p]] /\ s.kept.here \in BOOLEAN /\ s.kept.seen \in BOOLEAN
      BY DEF IsResults, IsKept
    <3> QED  BY ONLY <2>6, <3>1, <3>2 DEF IsKept
  <2>8. IsResults(m)
    BY ONLY <2>5, <2>7, IsResults(s) DEF IsResults, Around
  <2>9. /\ IsResults(t) /\ t.kept = m.kept /\ t.visible = m.visible
        /\ t.fetch.on = TRUE /\ t.fetch.got = Batches!Nothing /\ t.fetch.tries = 0
    <3>1. IsSent(m, t, 0)
      BY ONLY <2>3, <2>8, Sent
    <3> QED  BY <3>1 DEF IsSent
  <2>10. Batches!Sends(t)
    BY <2>9 DEF Batches!Sends
  <2>11. Older(s, t)
    BY <2>5, <2>6, <2>7, <2>9, <2>10 DEF Older, Frame, Batches!results
  <2> QED  BY <2>5, <2>9, <2>11 DEF Around
<1> QED  BY <1>1, <1>2

\* What is queued, as the effects take it.
Queued(s, lazy, refresh, retry, held) ==
  [s EXCEPT !.lazy = lazy, !.queuedRefresh = refresh, !.queuedRetry = retry, !.held = held]

LEMMA QueuedShape ==
  ASSUME NEW s, IsResults(s), NEW lazy, NEW refresh \in BOOLEAN, NEW retry, NEW held
  PROVE  LET t == Queued(s, lazy, refresh, retry, held) IN
         /\ IsResults(t) /\ t.lazy = lazy /\ t.queuedRefresh = refresh /\ t.queuedRetry = retry
         /\ t.held = held
         /\ t.kept = s.kept /\ t.visible = s.visible /\ t.fetch = s.fetch /\ t.requested = s.requested
<1> PICK t : t = Queued(s, lazy, refresh, retry, held)
  OBVIOUS
<1>1. t = [visible |-> s.visible, fetch |-> s.fetch, data |-> s.data, kept |-> s.kept,
           requested |-> s.requested, lazy |-> lazy, queuedRefresh |-> refresh,
           queuedRetry |-> retry, held |-> held]
  BY DEF Queued, IsResults
<1>2. /\ t = [visible |-> t.visible, fetch |-> t.fetch, data |-> t.data, kept |-> t.kept,
              requested |-> t.requested, lazy |-> t.lazy, queuedRefresh |-> t.queuedRefresh,
              queuedRetry |-> t.queuedRetry, held |-> t.held]
      /\ t.kept = s.kept /\ t.visible = s.visible /\ t.fetch = s.fetch /\ t.requested = s.requested
      /\ t.lazy = lazy /\ t.queuedRefresh = refresh /\ t.queuedRetry = retry /\ t.held = held
  BY ONLY <1>1
<1> QED  BY <1>2 DEF IsResults

LEMMA QueuedIs ==
  ASSUME NEW s, IsResults(s), NEW lazy, NEW retry, NEW refresh, NEW held
  PROVE  /\ [s EXCEPT !.lazy = lazy] = Queued(s, lazy, s.queuedRefresh, s.queuedRetry, s.held)
         /\ [s EXCEPT !.queuedRetry = retry] = Queued(s, s.lazy, s.queuedRefresh, retry, s.held)
         /\ [s EXCEPT !.queuedRefresh = refresh] = Queued(s, s.lazy, refresh, s.queuedRetry, s.held)
         /\ [s EXCEPT !.held = held] = Queued(s, s.lazy, s.queuedRefresh, s.queuedRetry, held)
         /\ [s EXCEPT !.queuedRefresh = refresh, !.lazy = lazy, !.held = held] =
              Queued(s, lazy, refresh, s.queuedRetry, held)
BY DEF Queued, IsResults

\* The effects leave nothing in view without a result that was not asked for.
LEMMA FetchedLazy ==
  ASSUME NEW s, IsResults(s), ~s.fetch.on => s.lazy = {}, Heeded(s)
  PROVE  LET t == Batches!FetchLazy(s) IN ResultsOk(t) /\ Older(s, t) /\ t.visible = s.visible
<1> PICK t : t = Batches!FetchLazy(s)
  OBVIOUS
<1>1. CASE s.fetch.on \/ s.queuedRefresh \/ s.lazy # {} \/ Batches!missing(s) = {}
  <2>1. t = s
    BY <1>1 DEF Batches!FetchLazy
  <2>2. Quiet(s)
    BY <1>1 DEF Quiet, Batches!missing
  <2> QED  BY <2>1, <2>2, SameFrames DEF ResultsOk
<1>2. CASE ~(s.fetch.on \/ s.queuedRefresh \/ s.lazy # {} \/ Batches!missing(s) = {})
  <2> PICK lazy : lazy = Batches!missing(s)
    OBVIOUS
  <2> PICK m : m = Queued(s, lazy, s.queuedRefresh, s.queuedRetry, s.held)
    OBVIOUS
  <2>1. t = Batches!Start(m)
    BY <1>2 DEF Batches!FetchLazy, Queued, IsResults
  <2>2. IsResults(m) /\ m.lazy = lazy /\ m.kept = s.kept /\ m.visible = s.visible
    BY QueuedShape DEF IsResults
  <2>3. IsResults(t) /\ Older(m, t) /\ t.visible = m.visible /\ t.fetch.on = TRUE
    BY ONLY <1>2, <2>1, <2>2, Started, lazy = Batches!missing(s)
  <2> QED  BY <2>2, <2>3, SameFrames DEF ResultsOk, Quiet, Heeded, Older
<1> QED  BY <1>1, <1>2

LEMMA OlderTwice ==
  ASSUME NEW s, NEW m, NEW t, m.kept = s.kept, Older(m, t)
  PROVE  Older(s, t)
BY SameFrames DEF Older

LEMMA Effected ==
  ASSUME NEW s, IsResults(s), ~s.fetch.on => s.lazy = {}
  PROVE  LET t == Batches!Effects(s) IN ResultsOk(t) /\ Older(s, t)
<1> PICK t : t = Batches!Effects(s)
  OBVIOUS
<1> PICK again : again = {p \in s.queuedRetry : Batches!RequestError(s, p)}
  OBVIOUS
<1> PICK taken : taken = Queued(s, s.lazy, s.queuedRefresh, {}, s.held)
  OBVIOUS
<1>0. /\ IsResults(taken) /\ taken.lazy = s.lazy /\ taken.queuedRefresh = s.queuedRefresh
      /\ taken.kept = s.kept /\ taken.visible = s.visible /\ taken.fetch = s.fetch
      /\ taken.held = s.held
  BY QueuedShape DEF IsResults
<1>a. [s EXCEPT !.queuedRetry = {}] = taken
  BY DEF Queued, IsResults
<1>b. t = IF s.fetch.on THEN s
          ELSE IF s.queuedRetry # {}
               THEN (IF again # {} THEN Batches!Start([taken EXCEPT !.lazy = again])
                     ELSE Batches!FetchLazy([taken EXCEPT !.held = s.queuedRefresh]))
               ELSE IF s.queuedRefresh THEN Batches!RunRefresh(taken) ELSE Batches!FetchLazy(taken)
  BY <1>a DEF Batches!Effects
<1>1. CASE s.fetch.on
  <2>1. t = s /\ Quiet(s)
    BY <1>1, <1>b DEF Quiet, Heeded
  <2> QED  BY <2>1, SameFrames DEF ResultsOk
<1>2. CASE ~s.fetch.on /\ s.queuedRetry # {} /\ again # {}
  <2> PICK m : m = Queued(taken, again, taken.queuedRefresh, taken.queuedRetry, taken.held)
    OBVIOUS
  <2>1. t = Batches!Start(m)
    <3>1. [taken EXCEPT !.lazy = again] = m
      BY <1>0, QueuedIs
    <3>2. t = Batches!Start([taken EXCEPT !.lazy = again])
      BY <1>2, <1>b
    <3> QED  BY ONLY <3>1, <3>2
  <2>2. IsResults(m) /\ m.lazy = again /\ m.kept = s.kept
    BY <1>0, QueuedShape DEF IsResults
  <2>3. IsResults(t) /\ Older(m, t) /\ t.fetch.on = TRUE
    BY ONLY <1>2, <2>1, <2>2, Started
  <2> QED  BY <2>2, <2>3, OlderTwice DEF ResultsOk, Quiet, Heeded
<1>3. CASE ~s.fetch.on /\ s.queuedRetry = {} /\ ~s.queuedRefresh
  <2>1. t = Batches!FetchLazy(taken)
    BY <1>3, <1>b
  <2>2. Heeded(taken)
    BY <1>0, <1>3 DEF Heeded
  <2>3. ResultsOk(t) /\ Older(taken, t)
    BY ONLY <1>0, <2>1, <2>2, FetchedLazy, ~s.fetch.on => s.lazy = {}
  <2> QED  BY <1>0, <2>3, OlderTwice
\* The retry that has nothing to send holds what is queued behind it.
<1>5. CASE ~s.fetch.on /\ s.queuedRetry # {} /\ again = {}
  <2> PICK held : held = s.queuedRefresh
    OBVIOUS
  <2> PICK m : m = Queued(taken, taken.lazy, taken.queuedRefresh, taken.queuedRetry, held)
    OBVIOUS
  <2>1. t = Batches!FetchLazy(m)
    <3>1. [taken EXCEPT !.held = held] = m
      BY <1>0, QueuedIs
    <3>2. t = Batches!FetchLazy([taken EXCEPT !.held = held])
      BY <1>5, <1>b
    <3> QED  BY ONLY <3>1, <3>2
  <2>2. /\ IsResults(m) /\ m.lazy = s.lazy /\ m.kept = s.kept /\ m.fetch = s.fetch
        /\ m.held = s.queuedRefresh /\ m.queuedRefresh = s.queuedRefresh
    BY <1>0, QueuedShape DEF IsResults
  <2>3. Heeded(m)
    BY <2>2 DEF Heeded
  <2>4. ResultsOk(t) /\ Older(m, t)
    BY ONLY <2>1, <2>2, <2>3, FetchedLazy, ~s.fetch.on => s.lazy = {}
  <2> QED  BY <2>2, <2>4, OlderTwice
<1>4. CASE ~s.fetch.on /\ s.queuedRetry = {} /\ s.queuedRefresh
  <2> PICK m : m = Queued(taken, {}, FALSE, taken.queuedRetry, FALSE)
    OBVIOUS
  <2>1. t = IF Batches!knownEmpty(taken) THEN m ELSE Batches!Start(m)
    <3>1. [taken EXCEPT !.queuedRefresh = FALSE, !.lazy = {}, !.held = FALSE] = m
      BY <1>0 DEF Queued, IsResults
    <3>2. t = Batches!RunRefresh(taken)
      BY <1>4, <1>b
    <3>3. t = IF Batches!knownEmpty(taken) THEN [taken EXCEPT !.queuedRefresh = FALSE, !.lazy = {}, !.held = FALSE]
              ELSE Batches!Start([taken EXCEPT !.queuedRefresh = FALSE, !.lazy = {}, !.held = FALSE])
      BY ONLY <3>2 DEF Batches!RunRefresh
    <3> QED  BY ONLY <3>1, <3>3
  <2>2. /\ IsResults(m) /\ m.lazy = {} /\ m.kept = s.kept /\ m.visible = s.visible
        /\ m.fetch = s.fetch /\ ~m.queuedRefresh
    <3> PICK no : no = FALSE
      OBVIOUS
    <3>1. m = Queued(taken, {}, no, taken.queuedRetry, no) /\ no \in BOOLEAN /\ ~no
      OBVIOUS
    <3>2. /\ IsResults(m) /\ m.lazy = {} /\ m.kept = taken.kept /\ m.visible = taken.visible
          /\ m.fetch = taken.fetch /\ m.queuedRefresh = no
      BY ONLY <1>0, <3>1, QueuedShape
    <3> QED  BY <1>0, <3>2
  <2>3. CASE Batches!knownEmpty(taken)
    <3>1. m.visible = {} /\ t = m
      BY <1>0, <2>1, <2>2, <2>3 DEF Batches!knownEmpty
    <3> QED  BY <2>2, <3>1, SameFrames DEF ResultsOk, Quiet, Heeded
  <2>4. CASE ~Batches!knownEmpty(taken)
    <3>1. ~Batches!knownEmpty(m)
      BY <1>0, <2>2, <2>4 DEF Batches!knownEmpty
    <3>2. t = Batches!Start(m)
      BY <2>1, <2>4
    <3>3. IsResults(t) /\ Older(m, t) /\ t.fetch.on = TRUE
      BY ONLY <2>2, <3>1, <3>2, Started
    <3> QED  BY <2>2, <3>3, OlderTwice DEF ResultsOk, Quiet, Heeded
  <2> QED  BY <2>3, <2>4
<1> QED  BY <1>1, <1>2, <1>3, <1>4, <1>5 DEF IsResults

LEMMA ResultsHold == ResultsInv => Batches!VisibleAsked
BY DEF ResultsInv, ResultsOk, Quiet, Heeded, Batches!VisibleAsked

LEMMA ResultsStart == Batches!PanelsInit => ResultsInv
<1> SUFFICES ASSUME NEW none, none = Batches!NoFetch, NEW nothing, nothing = Batches!Nothing,
       NEW cells, cells = [p \in Panels |-> Batches!Blank],
       NEW kept, kept = [here |-> TRUE, seen |-> FALSE, results |-> cells],
       NEW requested, requested = [here |-> TRUE, ids |-> {}],
       NEW s, s = [visible |-> Panels, fetch |-> none, data |-> {}, kept |-> kept, requested |-> requested,
                   lazy |-> {}, queuedRefresh |-> FALSE, queuedRetry |-> {}, held |-> FALSE]
    PROVE  ResultsOk(Batches!Start(s))
  BY DEF Batches!PanelsInit, Batches!PanelsOff, ResultsInv
<1>1. none = [on |-> FALSE, sent |-> {}, busy |-> {}, todo |-> {}, later |-> {}, group |-> {},
             got |-> nothing, tries |-> 0]
  BY DEF Batches!NoFetch
<1>2. IsFetch(none)
  BY ONLY <1>1 DEF IsFetch
<1>3. IsRequested(requested)
  BY DEF IsRequested
<1>4. IsKept(kept) /\ kept.seen = FALSE
  <2>1. /\ kept = [here |-> kept.here, seen |-> kept.seen, results |-> kept.results]
        /\ kept.here = TRUE /\ kept.seen = FALSE /\ kept.results = cells
    OBVIOUS
  <2>2. cells = [p \in Panels |-> cells[p]] /\ \A p \in Panels : IsCell(cells[p])
    BY BlankCell
  <2> QED  BY ONLY <2>1, <2>2 DEF IsKept
<1>5. /\ s = [visible |-> s.visible, fetch |-> s.fetch, data |-> s.data, kept |-> s.kept,
              requested |-> s.requested, lazy |-> s.lazy, queuedRefresh |-> s.queuedRefresh,
              queuedRetry |-> s.queuedRetry, held |-> s.held]
      /\ s.fetch = none /\ s.kept = kept /\ s.requested = requested /\ s.queuedRefresh = FALSE
      /\ s.visible = Panels
  OBVIOUS
<1>6. IsResults(s) /\ ~Batches!knownEmpty(s)
  BY ONLY <1>2, <1>3, <1>4, <1>5 DEF IsResults, Batches!knownEmpty
<1>7. IsResults(Batches!Start(s)) /\ Batches!Start(s).fetch.on = TRUE
  BY ONLY <1>6, Started
<1> QED  BY <1>7 DEF ResultsOk, Quiet, Heeded

\* No frame goes away, and none is of the batch before, but for a batch that is sent.
FramesStay(s, t) ==
  \A p \in Panels :
    /\ Frame(s, p) # "none" => Frame(t, p) # "none"
    /\ Frame(s, p) = "new" /\ Frame(t, p) = "old" => Batches!Sends(t)

LEMMA OlderStay == ASSUME NEW s, NEW t, Older(s, t)  PROVE FramesStay(s, t)
BY DEF Older, FramesStay

LEMMA NewerStay == ASSUME NEW s, NEW t, Newer(s, t)  PROVE FramesStay(s, t)
BY DEF Newer, FramesStay

LEMMA NewerThenOlder == ASSUME NEW s, NEW m, NEW t, Newer(s, m), Older(m, t)  PROVE FramesStay(s, t)
<1> SUFFICES ASSUME NEW p \in Panels
             PROVE  /\ Frame(s, p) # "none" => Frame(t, p) # "none"
                    /\ Frame(s, p) = "new" /\ Frame(t, p) = "old" => Batches!Sends(t)
  BY DEF FramesStay
<1>1. Frame(m, p) = Frame(s, p) \/ Frame(m, p) = "new"
  BY DEF Newer
<1>2. Frame(t, p) = Frame(m, p) \/ (Frame(m, p) = "new" /\ Frame(t, p) = "old" /\ Batches!Sends(t))
  BY DEF Older
<1> QED  BY <1>1, <1>2

\* The fetch of a batch, and what it has got, replaced.
Fetching(s, f) == [s EXCEPT !.fetch = f]

LEMMA FetchingShape ==
  ASSUME NEW s, IsResults(s), NEW f, IsFetch(f)
  PROVE  LET t == Fetching(s, f) IN
         IsResults(t) /\ t.fetch = f /\ t.kept = s.kept /\ t.visible = s.visible
<1> PICK t : t = Fetching(s, f)
  OBVIOUS
<1>1. t = [visible |-> s.visible, fetch |-> f, data |-> s.data, kept |-> s.kept,
           requested |-> s.requested, lazy |-> s.lazy, queuedRefresh |-> s.queuedRefresh,
           queuedRetry |-> s.queuedRetry, held |-> s.held]
  BY DEF Fetching, IsResults
<1>2. /\ t = [visible |-> t.visible, fetch |-> t.fetch, data |-> t.data, kept |-> t.kept,
              requested |-> t.requested, lazy |-> t.lazy, queuedRefresh |-> t.queuedRefresh,
              queuedRetry |-> t.queuedRetry, held |-> t.held]
      /\ t.kept = s.kept /\ t.visible = s.visible /\ t.fetch = f /\ t.requested = s.requested
      /\ t.lazy = s.lazy /\ t.queuedRefresh = s.queuedRefresh
  BY ONLY <1>1
<1> QED  BY <1>2 DEF IsResults

\* The fetch is over, with the data of a batch.
Over(s, data) == [s EXCEPT !.fetch = Batches!NoFetch, !.lazy = {}, !.data = data]

LEMMA OverShape ==
  ASSUME NEW s, IsResults(s), NEW data
  PROVE  LET t == Over(s, data) IN
         IsResults(t) /\ t.fetch.on = FALSE /\ t.lazy = {} /\ t.kept = s.kept /\ t.visible = s.visible
<1> PICK none, nothing : none = Batches!NoFetch /\ nothing = Batches!Nothing
  OBVIOUS
<1>1. none = [on |-> FALSE, sent |-> {}, busy |-> {}, todo |-> {}, later |-> {}, group |-> {},
             got |-> nothing, tries |-> 0]
  BY DEF Batches!NoFetch
<1>2. IsFetch(none) /\ none.on = FALSE
  BY ONLY <1>1 DEF IsFetch
<1> PICK t : t = Over(s, data)
  OBVIOUS
<1>3. t = [visible |-> s.visible, fetch |-> none, data |-> data, kept |-> s.kept,
           requested |-> s.requested, lazy |-> {}, queuedRefresh |-> s.queuedRefresh,
           queuedRetry |-> s.queuedRetry, held |-> s.held]
  BY DEF Over, IsResults
<1>4. /\ t = [visible |-> t.visible, fetch |-> t.fetch, data |-> t.data, kept |-> t.kept,
              requested |-> t.requested, lazy |-> t.lazy, queuedRefresh |-> t.queuedRefresh,
              queuedRetry |-> t.queuedRetry, held |-> t.held]
      /\ t.kept = s.kept /\ t.visible = s.visible /\ t.fetch = none /\ t.requested = s.requested
      /\ t.lazy = {} /\ t.queuedRefresh = s.queuedRefresh
  BY ONLY <1>3
<1> QED  BY <1>2, <1>4 DEF IsResults

\* Merged, forgotten, and what is asked for next.
Lands(s, m) ==
  /\ IsResults(m) /\ m.fetch = s.fetch /\ (~m.fetch.on => m.lazy = {})
  /\ ResultsOk(Batches!Effects(m))

Stays(s, m) == FramesStay(s, Batches!Effects(m)) /\ FramesStay(s, m)

Landed(s, data, newer, age, failed, note) == Batches!Forget(Batches!merge(s, data, newer, age, failed, note))

LEMMA MergedThenEffected ==
  ASSUME NEW s, IsResults(s), ~s.fetch.on => s.lazy = {}, NEW data, NEW newer \in BOOLEAN,
         NEW age \in {"old", "new"}, NEW failed, NEW note, note # "ok"
  PROVE  LET m == Landed(s, data, newer, age, failed, note)
         IN Lands(s, m) /\ ((newer => age = "new") => Stays(s, m))
<1> PICK g : g = Batches!merge(s, data, newer, age, failed, note)
  OBVIOUS
<1>1. IsResults(g) /\ Around(s, g) /\ ((newer => age = "new") => Newer(s, g))
  BY ONLY Merged, IsResults(s), newer \in BOOLEAN, age \in {"old", "new"}, note # "ok",
          g = Batches!merge(s, data, newer, age, failed, note)
<1> PICK m : m = Batches!Forget(g)
  OBVIOUS
<1>2. IsResults(m) /\ m.kept = g.kept /\ m.fetch = g.fetch /\ m.lazy = g.lazy
  BY ONLY <1>1, Forgotten, m = Batches!Forget(g)
<1>3. ~m.fetch.on => m.lazy = {}
  BY <1>1, <1>2 DEF Around
<1> PICK t : t = Batches!Effects(m)
  OBVIOUS
<1>4. ResultsOk(t) /\ Older(m, t)
  BY ONLY <1>2, <1>3, Effected, t = Batches!Effects(m)
<1>5. Older(g, t)
  BY ONLY <1>2, <1>4, OlderTwice
<1>6. (newer => age = "new") => FramesStay(s, t)
  BY ONLY <1>1, <1>5, NewerThenOlder
<1>7. (newer => age = "new") => Newer(s, m)
  BY <1>1, <1>2, SameFrames DEF Newer
<1>8. m = Landed(s, data, newer, age, failed, note)
  BY DEF Landed
<1> QED  BY <1>1, <1>2, <1>3, <1>4, <1>6, <1>7, <1>8, NewerStay DEF Around, Lands, Stays

LEMMA LandedFresh ==
  ASSUME NEW s, IsResults(s), ~s.fetch.on => s.lazy = {}, NEW data
  PROVE  LET m == Landed(s, data, TRUE, "new", {}, "none") IN Lands(s, m) /\ Stays(s, m)
BY MergedThenEffected, Zenon

LEMMA LandedBroken ==
  ASSUME NEW s, IsResults(s), ~s.fetch.on => s.lazy = {}, NEW data, NEW failed,
         NEW note, note # "ok"
  PROVE  LET m == Landed(s, data, FALSE, "old", failed, note) IN Lands(s, m) /\ Stays(s, m)
BY MergedThenEffected, Zenon

\* A start that is not of an empty view.
LEMMA StartedOk ==
  ASSUME NEW s, IsResults(s), ~(Batches!knownEmpty(s) /\ s.lazy = {})
  PROVE  ResultsOk(Batches!Start(s)) /\ FramesStay(s, Batches!Start(s))
<1> PICK t : t = Batches!Start(s)
  OBVIOUS
<1>1. IsResults(t) /\ Older(s, t) /\ t.fetch.on = TRUE
  BY ONLY Started, IsResults(s), ~(Batches!knownEmpty(s) /\ s.lazy = {}), t = Batches!Start(s)
<1> QED  BY <1>1, OlderStay DEF ResultsOk, Quiet, Heeded

\* Another key: nothing is being fetched, and what is kept may be of another one.
LEMMA ChangedShape ==
  ASSUME IsResults(v1), NEW back \in BOOLEAN
  PROVE  LET c == Batches!Changed(back) IN
         IsResults(c) /\ c.fetch.on = FALSE /\ c.lazy = {} /\ c.kept.here \in BOOLEAN
<1> PICK s : s = v1
  OBVIOUS
<1> PICK c : c = Batches!Changed(back)
  OBVIOUS
<1> PICK none, nothing : none = Batches!NoFetch /\ nothing = Batches!Nothing
  OBVIOUS
<1>1. none = [on |-> FALSE, sent |-> {}, busy |-> {}, todo |-> {}, later |-> {}, group |-> {},
             got |-> nothing, tries |-> 0]
  BY DEF Batches!NoFetch
<1>2. IsFetch(none) /\ none.on = FALSE
  BY ONLY <1>1 DEF IsFetch
<1> PICK was, asked : was = s.kept /\ asked = s.requested
  OBVIOUS
<1>3. IsResults(s) /\ IsKept(was) /\ IsRequested(asked)
  BY DEF IsResults
<1> PICK here, there : here = (~was.here /\ back) /\ there = (~asked.here /\ back)
  OBVIOUS
<1>4. here \in BOOLEAN /\ there \in BOOLEAN
  BY <1>3 DEF IsKept, IsRequested
<1> PICK kept, requested : kept = [was EXCEPT !.here = here] /\ requested = [asked EXCEPT !.here = there]
  OBVIOUS
<1>5. IsKept(kept) /\ kept.here \in BOOLEAN
  <2>1. kept = [here |-> here, seen |-> was.seen, results |-> was.results]
    BY <1>3 DEF IsKept
  <2>2. kept = [here |-> kept.here, seen |-> kept.seen, results |-> kept.results]
        /\ kept.here = here /\ kept.seen = was.seen /\ kept.results = was.results
    BY ONLY <2>1
  <2> QED  BY <1>3, <1>4, <2>2 DEF IsKept
<1>6. IsRequested(requested)
  <2>1. requested = [here |-> there, ids |-> asked.ids]
    BY <1>3 DEF IsRequested
  <2>2. requested = [here |-> requested.here, ids |-> requested.ids] /\ requested.here = there
    BY ONLY <2>1
  <2> QED  BY <1>4, <2>2 DEF IsRequested
<1>7. c = [visible |-> s.visible, fetch |-> none, data |-> {}, kept |-> kept, requested |-> requested,
           lazy |-> {}, queuedRefresh |-> s.queuedRefresh, queuedRetry |-> {}, held |-> s.held]
  BY <1>3 DEF Batches!Changed, IsResults
<1>8. /\ c = [visible |-> c.visible, fetch |-> c.fetch, data |-> c.data, kept |-> c.kept,
              requested |-> c.requested, lazy |-> c.lazy, queuedRefresh |-> c.queuedRefresh,
              queuedRetry |-> c.queuedRetry, held |-> c.held]
      /\ c.fetch = none /\ c.kept = kept /\ c.requested = requested /\ c.visible = s.visible
      /\ c.lazy = {} /\ c.queuedRefresh = s.queuedRefresh
  BY ONLY <1>7
<1>9. IsResults(c)
  BY ONLY <1>2, <1>3, <1>5, <1>6, <1>8 DEF IsResults
<1> QED  BY <1>2, <1>5, <1>8, <1>9

LEMMA ResultsStep == ResultsInv /\ Batches!PanelsNext => ResultsInv' /\ Batches!FramesKept
<1> SUFFICES ASSUME ResultsInv, Batches!PanelsNext  PROVE ResultsInv' /\ Batches!FramesKept
  OBVIOUS
<1> PICK s : s = v1
  OBVIOUS
<1> PICK t : t = v1'
  OBVIOUS
<1>0. IsResults(s) /\ Quiet(s) /\ IsFetch(s.fetch) /\ IsKept(s.kept) /\ s.queuedRefresh \in BOOLEAN
  BY DEF ResultsInv, ResultsOk, IsResults
<1> SUFFICES ResultsOk(t) /\ (FramesStay(s, t) \/ Batches!ChangeKey)
  BY DEF ResultsInv, Batches!FramesKept, FramesStay, Frame
<1> DEFINE good(u) == ResultsOk(u) /\ FramesStay(s, u)
<1>a. ASSUME NEW f, IsFetch(f), f.on = TRUE  PROVE good(Fetching(s, f))
  <2>1. IsResults(Fetching(s, f)) /\ Fetching(s, f).fetch = f /\ Fetching(s, f).kept = s.kept
    BY ONLY <1>0, <1>a, FetchingShape
  <2> QED  BY <1>a, <2>1, SameFrames, NewerStay DEF ResultsOk, Quiet, Heeded
<1>b. ASSUME NEW lazy, NEW refresh \in BOOLEAN, NEW retry, s.fetch.on
      PROVE  good(Queued(s, lazy, refresh, retry, s.held))
  <2> PICK u : u = Queued(s, lazy, refresh, retry, s.held)
    OBVIOUS
  <2>1. IsResults(u) /\ u.fetch = s.fetch /\ u.kept = s.kept
    BY ONLY <1>0, QueuedShape, refresh \in BOOLEAN, u = Queued(s, lazy, refresh, retry, s.held)
  <2> QED  BY <1>b, <2>1, SameFrames, NewerStay DEF ResultsOk, Quiet, Heeded
<1>1. ASSUME NEW p \in Panels, NEW answer \in Batches!Answers, Batches!partial(p, answer)  PROVE good(t)
  <2> PICK f : f = [s.fetch EXCEPT !.todo = @ \ {p}, !.got[p] = answer]
    OBVIOUS
  <2> PICK data : data = [Batches!Nothing EXCEPT ![p] = answer]
    OBVIOUS
  <2> PICK u : u = Fetching(s, f)
    OBVIOUS
  <2>1. s.fetch.on /\ t = Batches!Forget(Batches!merge([s EXCEPT !.fetch.todo = @ \ {p}, !.fetch.got[p] = answer], data, TRUE, "new", {}, "none"))
    BY <1>1 DEF Batches!partial
  <2>2. [s EXCEPT !.fetch.todo = @ \ {p}, !.fetch.got[p] = answer] = u
    BY <1>0 DEF Fetching, IsResults, IsFetch
  <2>3. IsFetch(f) /\ f.on = TRUE
    <3> PICK was, todo, got : was = s.fetch /\ todo = s.fetch.todo \ {p} /\ got = [s.fetch.got EXCEPT ![p] = answer]
      OBVIOUS
    <3>1. f = [on |-> was.on, sent |-> was.sent, busy |-> was.busy, todo |-> todo, later |-> was.later,
               group |-> was.group, got |-> got, tries |-> was.tries]
      BY <1>0 DEF IsFetch
    <3>2. /\ f = [on |-> f.on, sent |-> f.sent, busy |-> f.busy, todo |-> f.todo, later |-> f.later,
                  group |-> f.group, got |-> f.got, tries |-> f.tries]
          /\ f.on = was.on
      BY ONLY <3>1
    <3> QED  BY <1>0, <2>1, <3>2 DEF IsFetch
  <2>4. IsResults(u) /\ u.fetch = f /\ u.kept = s.kept
    BY ONLY <1>0, <2>3, FetchingShape, u = Fetching(s, f)
  <2>5. t = Landed(u, data, TRUE, "new", {}, "none")
    BY <2>1, <2>2 DEF Landed
  <2>6. IsResults(t) /\ t.fetch = f /\ FramesStay(u, t)
    BY ONLY <2>3, <2>4, <2>5, LandedFresh DEF Lands, Stays
  <2>7. FramesStay(s, t)
    BY <2>4, <2>6, SameFrames DEF FramesStay
  <2> QED  BY <2>3, <2>6, <2>7 DEF ResultsOk, Quiet, Heeded
<1>2. ASSUME Batches!NextGroup  PROVE good(t)
  <2> PICK g : t = [s EXCEPT !.fetch.todo = g, !.fetch.later = @ \ g, !.fetch.group = g]
    BY <1>2 DEF Batches!NextGroup
  <2> PICK f : f = [s.fetch EXCEPT !.todo = g, !.later = @ \ g, !.group = g]
    OBVIOUS
  <2>1. t = Fetching(s, f)
    BY <1>0 DEF Fetching, IsResults, IsFetch
  <2>2. IsFetch(f) /\ f.on = TRUE
    <3> PICK was, later : was = s.fetch /\ later = s.fetch.later \ g
      OBVIOUS
    <3>1. f = [on |-> was.on, sent |-> was.sent, busy |-> was.busy, todo |-> g, later |-> later,
               group |-> g, got |-> was.got, tries |-> was.tries]
      BY <1>0 DEF IsFetch
    <3>2. /\ f = [on |-> f.on, sent |-> f.sent, busy |-> f.busy, todo |-> f.todo, later |-> f.later,
                  group |-> f.group, got |-> f.got, tries |-> f.tries]
          /\ f.on = was.on
      BY ONLY <3>1
    <3> QED  BY <1>0, <1>2, <3>2 DEF IsFetch, Batches!NextGroup
  <2> QED  BY <1>a, <2>1, <2>2
<1>c. ASSUME NEW last
      PROVE  LET u == Over(s, last) IN
             IsResults(u) /\ (~u.fetch.on => u.lazy = {}) /\ u.kept = s.kept
  BY <1>0, OverShape
<1>3. ASSUME NEW last, NEW m, t = Batches!Effects(m), Lands(Over(s, last), m), Stays(Over(s, last), m)
      PROVE  good(t)
  <2>1. \A p \in Panels : Frame(Over(s, last), p) = Frame(s, p)
    BY <1>c, SameFrames
  <2>2. ResultsOk(t) /\ FramesStay(Over(s, last), t)
    BY <1>3 DEF Lands, Stays
  <2> QED  BY <2>1, <2>2 DEF FramesStay
<1>4. ASSUME Batches!BatchEnds  PROVE good(t)
  <2> PICK answers : answers = [p \in Panels |->
                               IF p \in Batches!Unlanded(s.fetch) \ s.fetch.busy THEN "request" ELSE s.fetch.got[p]]
    OBVIOUS
  <2> PICK last : last = {p \in Panels : answers[p] = "ok"}
    OBVIOUS
  <2> PICK u : u = Over(s, last)
    OBVIOUS
  <2>1. u = [s EXCEPT !.fetch = Batches!NoFetch, !.lazy = {}, !.data = last]
    BY DEF Over
  <2>2. t = Batches!Effects(Batches!Forget(Batches!merge([s EXCEPT !.fetch = Batches!NoFetch, !.lazy = {}, !.data = last],
                                                         answers, TRUE, "new", {}, "none")))
    BY <1>4 DEF Batches!BatchEnds
  <2> PICK m : m = Landed(u, answers, TRUE, "new", {}, "none")
    OBVIOUS
  <2>3. t = Batches!Effects(m)
    BY <2>1, <2>2 DEF Landed
  <2>4. Lands(u, m) /\ Stays(u, m)
    BY ONLY <1>c, LandedFresh, m = Landed(u, answers, TRUE, "new", {}, "none"), u = Over(s, last)
  <2> QED  BY ONLY <1>3, <2>3, <2>4, u = Over(s, last)
<1>5. ASSUME Batches!BatchFails  PROVE good(t)
  <2> DEFINE unlanded == Batches!Unlanded(s.fetch)
  <2>1. CASE t = Batches!Send(s, s.fetch.tries + 1)
    <3> PICK tries : tries = s.fetch.tries + 1
      OBVIOUS
    <3>1. IsSent(s, t, tries)
      BY ONLY <1>0, <2>1, Sent, tries = s.fetch.tries + 1
    <3> QED  BY <3>1, SameFrames, NewerStay DEF IsSent, ResultsOk, Quiet, Heeded
  <2>2. ASSUME NEW note \in {"request", "error"}, NEW u, u = [s EXCEPT !.fetch = Batches!NoFetch, !.lazy = {}],
               t = Batches!Effects(Batches!Forget(Batches!merge(u, Batches!Frames(s.data), FALSE, "old", unlanded, note)))
        PROVE  good(t)
    <3> PICK failed, data, last : failed = unlanded /\ data = Batches!Frames(s.data) /\ last = s.data
      OBVIOUS
    <3>1. u = Over(s, last)
      BY <1>0, <2>2 DEF Over, IsResults
    <3> PICK m : m = Landed(u, data, FALSE, "old", failed, note)
      OBVIOUS
    <3>2. t = Batches!Effects(m)
      BY <2>2 DEF Landed
    <3>3. Lands(u, m) /\ Stays(u, m)
      BY ONLY <1>c, <3>1, LandedBroken, m = Landed(u, data, FALSE, "old", failed, note), note \in {"request", "error"}
    <3> QED  BY ONLY <1>3, <3>1, <3>2, <3>3
  <2> QED  BY <1>5, <2>1, <2>2 DEF Batches!BatchFails
<1>6. ASSUME Batches!refetchInterval  PROVE good(t)
  <2>1. ~Batches!knownEmpty(s) /\ t = Batches!Start(s)
    BY <1>6 DEF Batches!refetchInterval
  <2> QED  BY ONLY <1>0, <2>1, StartedOk
<1>7. ASSUME Batches!refetch  PROVE good(t)
  <2>1. CASE ~s.fetch.on
    <3>1. ~Batches!knownEmpty(s) /\ t = Batches!Start(s)
      BY <1>7, <2>1 DEF Batches!refetch
    <3> QED  BY ONLY <1>0, <3>1, StartedOk
  <2>2. CASE s.fetch.on
    <3> PICK refresh : refresh = (s.queuedRefresh \/ s.lazy # {})
      OBVIOUS
    <3>1. t = [s EXCEPT !.queuedRefresh = refresh]
      BY <1>7, <2>2 DEF Batches!refetch
    <3>2. t = Queued(s, s.lazy, refresh, s.queuedRetry, s.held) /\ refresh \in BOOLEAN
      BY <1>0, <3>1, QueuedIs
    <3> QED  BY ONLY <1>b, <2>2, <3>2
  <2> QED  BY <2>1, <2>2
<1>8. ASSUME NEW p \in Panels, Batches!retry(p)  PROVE good(t)
  <2>1. CASE ~s.fetch.on
    <3> PICK lazy : lazy = {p}
      OBVIOUS
    <3> PICK u : u = Queued(s, lazy, s.queuedRefresh, s.queuedRetry, s.held)
      OBVIOUS
    <3>1. t = Batches!Start([s EXCEPT !.lazy = lazy])
      BY <1>8, <2>1 DEF Batches!retry
    <3>2. [s EXCEPT !.lazy = lazy] = u
      BY <1>0, QueuedIs
    <3>3. IsResults(u) /\ u.lazy # {} /\ u.kept = s.kept
      BY <1>0, QueuedShape
    <3>4. ResultsOk(t) /\ FramesStay(u, t)
      BY ONLY <3>1, <3>2, <3>3, StartedOk
    <3> QED  BY <3>3, <3>4, SameFrames DEF FramesStay
  <2>2. CASE s.fetch.on
    <3> PICK retry : retry = s.queuedRetry \cup {p}
      OBVIOUS
    <3>1. t = [s EXCEPT !.queuedRetry = retry]
      BY <1>8, <2>2 DEF Batches!retry
    <3>2. t = Queued(s, s.lazy, s.queuedRefresh, retry, s.held)
      BY ONLY <1>0, <3>1, QueuedIs
    <3> QED  BY ONLY <1>b, <1>0, <2>2, <3>2
  <2> QED  BY <2>1, <2>2
<1>9. ASSUME Batches!onVisible  PROVE good(t)
  <2> PICK ids \in SUBSET Panels :
        t = LET u == Batches!Forget([s EXCEPT !.visible = ids])
            IN IF Batches!knownEmpty(u) # Batches!knownEmpty(s) THEN Batches!Effects(u) ELSE Batches!FetchLazy(u)
    BY <1>9 DEF Batches!onVisible
  <2> PICK w : w = [s EXCEPT !.visible = ids]
    OBVIOUS
  <2>1. /\ IsResults(w) /\ w.kept = s.kept /\ w.fetch = s.fetch /\ w.lazy = s.lazy
        /\ w.queuedRefresh = s.queuedRefresh /\ w.held = s.held
    <3>1. w = [visible |-> ids, fetch |-> s.fetch, data |-> s.data, kept |-> s.kept,
               requested |-> s.requested, lazy |-> s.lazy, queuedRefresh |-> s.queuedRefresh,
               queuedRetry |-> s.queuedRetry, held |-> s.held]
      BY <1>0 DEF IsResults
    <3>2. /\ w = [visible |-> w.visible, fetch |-> w.fetch, data |-> w.data, kept |-> w.kept,
                  requested |-> w.requested, lazy |-> w.lazy, queuedRefresh |-> w.queuedRefresh,
                  queuedRetry |-> w.queuedRetry, held |-> w.held]
          /\ w.visible = ids /\ w.kept = s.kept /\ w.fetch = s.fetch /\ w.lazy = s.lazy
          /\ w.requested = s.requested /\ w.queuedRefresh = s.queuedRefresh /\ w.held = s.held
      BY ONLY <3>1
    <3> QED  BY <1>0, <3>2 DEF IsResults
  <2> PICK u : u = Batches!Forget(w)
    OBVIOUS
  <2>2. /\ IsResults(u) /\ u.kept = w.kept /\ u.fetch = w.fetch /\ u.lazy = w.lazy
        /\ u.queuedRefresh = w.queuedRefresh /\ u.held = w.held
    BY ONLY <2>1, Forgotten, u = Batches!Forget(w)
  <2>3. (~u.fetch.on => u.lazy = {}) /\ Heeded(u)
    BY <1>0, <2>1, <2>2 DEF Quiet, Heeded
  <2>4. t = Batches!Effects(u) \/ t = Batches!FetchLazy(u)
    OBVIOUS
  <2>5. ResultsOk(t) /\ Older(u, t)
    BY ONLY <2>2, <2>3, <2>4, Effected, FetchedLazy
  <2>6. Older(s, t)
    <3>1. u.kept = s.kept
      BY <2>1, <2>2
    <3> QED  BY ONLY <2>5, <3>1, OlderTwice
  <2> QED  BY <2>5, <2>6, OlderStay
<1>10. ASSUME Batches!ChangeKey  PROVE ResultsOk(t)
  <2>1. ASSUME NEW back \in BOOLEAN
        PROVE  LET c == Batches!Changed(back) IN
               IsResults(c) /\ c.fetch.on = FALSE /\ c.lazy = {} /\ c.kept.here \in BOOLEAN
    BY <1>0, ChangedShape
  <2>2. ASSUME NEW u, IsResults(u), u.fetch.on = FALSE, u.lazy = {}
        PROVE  ResultsOk(Batches!Effects(Batches!Start(u)))
    <3> PICK v : v = Batches!Start(u)
      OBVIOUS
    <3>1. IsResults(v) /\ (~v.fetch.on => v.lazy = {})
      BY ONLY <2>2, Started, v = Batches!Start(u)
    <3> QED  BY ONLY <3>1, Effected, v = Batches!Start(u)
  <2>3. CASE \E back \in BOOLEAN : t = Batches!Effects(Batches!Start(Batches!Changed(back)))
    BY <2>1, <2>2, <2>3
  <2>4. ASSUME NEW stale \in BOOLEAN, NEW data, NEW u, u = [Batches!Changed(TRUE) EXCEPT !.data = data],
               NEW errors, NEW shown,
               shown = Batches!Forget(Batches!merge(u, Batches!Frames(data), ~u.kept.here, "old", errors, "request")),
               t = Batches!Effects(IF stale THEN Batches!Start(shown) ELSE shown)
        PROVE  ResultsOk(t)
    <3> PICK c : c = Batches!Changed(TRUE)
      OBVIOUS
    <3>1. IsResults(c) /\ c.fetch.on = FALSE /\ c.lazy = {}
      BY <2>1
    <3>2. IsResults(u) /\ u.fetch.on = FALSE /\ u.lazy = {} /\ u.kept.here \in BOOLEAN
      <4>1. u = [visible |-> c.visible, fetch |-> c.fetch, data |-> data, kept |-> c.kept,
                 requested |-> c.requested, lazy |-> c.lazy, queuedRefresh |-> c.queuedRefresh,
                 queuedRetry |-> c.queuedRetry, held |-> c.held]
        BY <2>4, <3>1 DEF IsResults
      <4>2. /\ u = [visible |-> u.visible, fetch |-> u.fetch, data |-> u.data, kept |-> u.kept,
                    requested |-> u.requested, lazy |-> u.lazy, queuedRefresh |-> u.queuedRefresh,
                    queuedRetry |-> u.queuedRetry, held |-> u.held]
            /\ u.visible = c.visible /\ u.kept = c.kept /\ u.fetch = c.fetch /\ u.lazy = c.lazy
            /\ u.requested = c.requested /\ u.queuedRefresh = c.queuedRefresh
        BY ONLY <4>1
      <4> QED  BY <3>1, <4>2 DEF IsResults, IsKept
    <3> PICK frames, newer : frames = Batches!Frames(data) /\ newer = ~u.kept.here
      OBVIOUS
    <3>3. shown = Landed(u, frames, newer, "old", errors, "request") /\ newer \in BOOLEAN
      BY <2>4 DEF Landed
    <3>7. Lands(u, shown)
      BY ONLY <3>2, <3>3, MergedThenEffected, Zenon
    <3>4. IsResults(shown) /\ shown.fetch = u.fetch /\ (~shown.fetch.on => shown.lazy = {})
          /\ ResultsOk(Batches!Effects(shown))
      BY <3>7 DEF Lands
    <3>5. CASE stale
      <4>1. shown.fetch.on = FALSE /\ shown.lazy = {}
        BY <3>2, <3>4
      <4> QED  BY <2>2, <2>4, <3>4, <3>5, <4>1
    <3>6. CASE ~stale
      BY <2>4, <3>4, <3>6
    <3> QED  BY <3>5, <3>6
  <2> QED  BY <1>10, <2>3, <2>4 DEF Batches!ChangeKey
<1> QED  BY <1>1, <1>2, <1>4, <1>5, <1>6, <1>7, <1>8, <1>9, <1>10 DEF Batches!PanelsNext

-----------------------------------------------------------------------------
(* The keyboard on a chart: which point it is at, and what one render does *)
(* to the range, the highlight and the selection of any chart.             *)

Point == Nat \X Nat

\* What is known of a reader before the effects of a render, and after them.
IsReader(k) ==
  /\ k = [result |-> k.result, active |-> k.active, focused |-> k.focused, pointer |-> k.pointer,
          inside |-> k.inside, selected |-> k.selected, saved |-> k.saved, pending |-> k.pending,
          highlighted |-> k.highlighted, brush |-> k.brush, zoomed |-> k.zoomed]
  /\ k.result \in Charts /\ k.active \in BOOLEAN /\ k.focused \in BOOLEAN
  /\ k.selected \in Point \cup {NoPoint} /\ k.saved \in Point \cup {NoPoint}

IsRange(g) ==
  /\ g = [window |-> g.window, from |-> g.from, to |-> g.to]
  /\ g.window = [from |-> g.window.from, to |-> g.window.to]
  /\ g.from \in Int /\ g.to \in Int /\ g.window.from \in Int /\ g.window.to \in Int
  /\ g.window.from < g.window.to /\ g.from < g.to /\ g.from < g.window.to /\ g.window.to <= g.to

Ready(k) ==
  /\ IsReader(k)
  /\ k.focused => k.active
  /\ ~k.focused => k.highlighted = NoPoint
  /\ k.pending = NoRange \/ IsRange(k.pending)

Ranged(k) ==
  IF k.pending = NoRange THEN k.brush = NoRange
  ELSE /\ IsRange(k.pending)
       /\ k.result.from <= k.pending.from /\ k.pending.to <= k.result.to
       /\ k.brush = [from |-> k.pending.from, to |-> k.pending.to]

\* The point selected is the one that a refresh looks for.
Remembered(k) == k.selected \in Reader!points(k) => k.saved = k.selected

ReaderOk(k) ==
  /\ Ready(k) /\ Ranged(k) /\ Remembered(k)
  /\ k.focused => k.highlighted = Reader!current(k)

ReaderInv == ReaderOk(v1)

LEMMA ReaderHolds == ReaderInv => Reader!RangeHolds /\ Reader!HighlightOnChart
BY DEF ReaderInv, ReaderOk, Ready, Ranged, IsRange, Reader!RangeHolds, Reader!HighlightOnChart

\* Among numbers there is a least one, and among bounded ones a greatest.
LEMMA Least ==
  ASSUME NEW S \in SUBSET Nat, S # {}
  PROVE  \E m \in S : \A k \in S : m <= k
<1> DEFINE T == {0 .. m - 1 : m \in S}
<1>1. \A m \in S : 0 .. m - 1 \in FiniteSubsetsOf(Nat)
  BY FS_Interval DEF FiniteSubsetsOf
<1>2. T \subseteq FiniteSubsetsOf(Nat) /\ T # {}
  BY <1>1
<1> HIDE DEF T
<1>3. PICK x \in T : \A y \in T : ~(<<y, x>> \in StrictSubsetOrdering(Nat))
  BY <1>2, FS_StrictSubsetOrderingWellFounded, WFMin
<1>4. \A y \in T : ~(y \subseteq x /\ x # y)
  BY <1>2, <1>3 DEF StrictSubsetOrdering, FiniteSubsetsOf
<1>5. PICK m \in S : x = 0 .. m - 1
  BY DEF T
<1>6. \A k \in S : 0 .. k - 1 \in T
  BY DEF T
<1>7. ASSUME NEW k \in S, k < m  PROVE FALSE
  <2>1. 0 .. k - 1 \subseteq x /\ k \in x /\ k \notin 0 .. k - 1
    BY <1>5, <1>7
  <2> QED  BY <1>4, <1>6, <2>1
<1> QED  BY <1>7

LEMMA Greatest ==
  ASSUME NEW S \in SUBSET Nat, S # {}, NEW b \in Nat, \A k \in S : k <= b
  PROVE  \E m \in S : \A k \in S : k <= m
<1> DEFINE T == {b - k : k \in S}
<1>0. \A k \in S : k \in Nat /\ k <= b /\ b - k \in Nat
  OBVIOUS
<1>1. T \in SUBSET Nat /\ T # {}
  BY <1>0
<1> HIDE DEF T
<1>2. PICK d \in T : \A e \in T : d <= e
  BY <1>1, Least
<1>3. PICK m \in S : d = b - m
  BY DEF T
<1>4. \A k \in S : b - k \in T
  BY DEF T
<1>5. ASSUME NEW k \in S  PROVE k <= m
  BY <1>0, <1>2, <1>3, <1>4
<1> QED  BY <1>5

\* The same for what is measured of points.
LEMMA LeastOf ==
  ASSUME NEW S, S # {}, NEW f, \A p \in S : f[p] \in Nat
  PROVE  \E m \in S : \A q \in S : f[m] <= f[q]
<1> DEFINE T == {f[p] : p \in S}
<1>1. T \in SUBSET Nat /\ T # {}
  OBVIOUS
<1> HIDE DEF T
<1>2. PICK n \in T : \A k \in T : n <= k
  BY <1>1, Least
<1>3. \A q \in S : f[q] \in T
  BY DEF T
<1>4. PICK m \in S : n = f[m]
  BY DEF T
<1> QED  BY <1>2, <1>3, <1>4

LEMMA FirstIsOne ==
  ASSUME NEW S \in SUBSET Point, S # {}
  PROVE  Reader!First(S) \in S
<1> DEFINE f == [p \in S |-> p[1]]
<1>1. \A p \in S : f[p] \in Nat /\ f[p] = p[1] /\ p[2] \in Nat
  BY DEF Point
<1> HIDE DEF f
<1>2. PICK a \in S : \A q \in S : f[a] <= f[q]
  BY <1>1, LeastOf
<1> DEFINE Q == {p \in S : p[1] = a[1]}  g == [p \in Q |-> p[2]]
<1>3. Q # {} /\ \A p \in Q : g[p] \in Nat /\ g[p] = p[2]
  BY <1>1
<1>4. \A p : p \in Q <=> p \in S /\ p[1] = a[1]
  OBVIOUS
<1> HIDE DEF g, Q
<1>5. PICK m \in Q : \A q \in Q : g[m] <= g[q]
  BY <1>3, LeastOf
<1>6. m \in S /\ \A q \in S : Reader!Before(m, q)
  <2> SUFFICES ASSUME NEW q \in S  PROVE Reader!Before(m, q)
    BY <1>4
  <2>1. m \in S /\ m[1] = a[1] /\ a[1] <= q[1] /\ a[1] \in Nat /\ q[1] \in Nat
    BY <1>1, <1>2, <1>4
  <2>2. q[1] = a[1] => m[2] <= q[2]
    BY <1>3, <1>4, <1>5
  <2> QED  BY <2>1, <2>2 DEF Reader!Before
<1> QED  BY <1>6 DEF Reader!First

LEMMA NearestIsOne ==
  ASSUME NEW p \in Point, NEW S \in SUBSET Point, S # {}
  PROVE  Reader!Nearest(p, S) \in S
<1> DEFINE f == [q \in S |-> Reader!Distance(q, p)]
<1>1. \A q \in S : f[q] \in Nat /\ f[q] = Reader!Distance(q, p)
  BY DEF Point, Reader!Distance
<1> HIDE DEF f
<1>2. PICK m \in S : \A q \in S : f[m] <= f[q]
  BY <1>1, LeastOf
<1> DEFINE Q == {q \in S : \A r \in S : Reader!Distance(q, p) <= Reader!Distance(r, p)}
<1>3. m \in Q /\ Q \in SUBSET Point /\ Q \in SUBSET S
  BY <1>1, <1>2
<1>4. Reader!Nearest(p, S) = Reader!First(Q)
  BY DEF Reader!Nearest
<1> HIDE DEF Q
<1> QED  BY <1>3, <1>4, FirstIsOne

LEMMA PointsOf ==
  ASSUME NEW k, IsReader(k)
  PROVE  /\ Reader!points(k) \in SUBSET Point /\ NoPoint \notin Reader!points(k)
         /\ k.result.from \in Nat /\ k.result.to \in Nat /\ k.result.from < k.result.to
         /\ \A p \in Reader!points(k) :
              p[1] \in Nat /\ p[2] \in Nat /\ k.result.from < p[2] + Interval /\ p[2] < k.result.to
<1>1. Reader!points(k) = k.result.points \/ Reader!points(k) = {}
  BY DEF Reader!points
<1>2. k.result \in Charts
  BY DEF IsReader
<1> PICK r : r = k.result
  OBVIOUS
<1>3. /\ r.points \subseteq Nat \X Nat /\ r.from \in Nat /\ r.to \in Nat /\ r.from < r.to
      /\ \A p \in r.points : r.from < p[2] + Interval /\ p[2] < r.to
  BY <1>2, ChartsAssumption
<1> PICK all : all = Reader!points(k)
  OBVIOUS
<1>4. NoPoint \notin Nat \X Nat
  BY ChartsAssumption
<1>5. all \in SUBSET (Nat \X Nat) /\ \A p \in all : r.from < p[2] + Interval /\ p[2] < r.to
  BY <1>1, <1>3
<1>6. \A p \in all : p[1] \in Nat /\ p[2] \in Nat
  BY <1>5
<1> QED  BY <1>3, <1>4, <1>5, <1>6 DEF Point

LEMMA CurrentIsPoint ==
  ASSUME NEW k, IsReader(k)
  PROVE  /\ Reader!points(k) = {} => Reader!current(k) = NoPoint
         /\ Reader!points(k) # {} => Reader!current(k) \in Reader!points(k)
         /\ k.selected \in Reader!points(k) => Reader!current(k) = k.selected
<1> PICK all : all = Reader!points(k)
  OBVIOUS
<1>1. all \in SUBSET Point /\ NoPoint \notin all
  BY PointsOf
<1>2. all # {} => Reader!First(all) \in all
  BY <1>1, FirstIsOne
<1> DEFINE c == IF k.saved = NoPoint \/ Reader!Peers(k.saved, all) = {} THEN all
                ELSE Reader!Peers(k.saved, all)
<1>3. c \in SUBSET all /\ (all # {} => c # {})
  BY DEF Reader!Peers
<1>4. Reader!current(k) =
        IF all = {} THEN NoPoint
        ELSE IF k.selected = NoPoint THEN Reader!First(all)
        ELSE IF k.selected \in all THEN k.selected
        ELSE IF k.saved = NoPoint THEN Reader!First(all) ELSE Reader!Nearest(k.saved, c)
  BY DEF Reader!current
<1> HIDE DEF c
<1>5. k.saved # NoPoint /\ all # {} => Reader!Nearest(k.saved, c) \in c
  <2> SUFFICES ASSUME k.saved # NoPoint, all # {}  PROVE Reader!Nearest(k.saved, c) \in c
    OBVIOUS
  <2>1. k.saved \in Point /\ c \in SUBSET Point /\ c # {}
    BY <1>1, <1>3 DEF IsReader
  <2> QED  BY <2>1, NearestIsOne
<1> QED  BY <1>1, <1>2, <1>3, <1>4, <1>5

\* The point depends on the frame, the selection and what was remembered.
LEMMA CurrentSame ==
  ASSUME NEW k, NEW j, k.result = j.result, k.active = j.active, k.selected = j.selected, k.saved = j.saved
  PROVE  Reader!points(k) = Reader!points(j) /\ Reader!current(k) = Reader!current(j)
<1>1. Reader!points(k) = Reader!points(j)
  BY DEF Reader!points
<1> QED  BY <1>1 DEF Reader!current

\* A reader with some fields new.
Renewed(k, selected, saved, pending, highlighted, brush) ==
  [result |-> k.result, active |-> k.active, focused |-> k.focused, pointer |-> k.pointer,
   inside |-> k.inside, selected |-> selected, saved |-> saved, pending |-> pending,
   highlighted |-> highlighted, brush |-> brush, zoomed |-> k.zoomed]

SameChart(k, t) == t.result = k.result /\ t.active = k.active /\ t.focused = k.focused

IsRenewed(t, k, selected, saved, pending, highlighted, brush) ==
  /\ IsReader(t) /\ SameChart(k, t)
  /\ t.selected = selected /\ t.saved = saved /\ t.pending = pending
  /\ t.highlighted = highlighted /\ t.brush = brush

LEMMA RenewedIs ==
  ASSUME NEW k, IsReader(k), NEW selected \in Point \cup {NoPoint}, NEW saved \in Point \cup {NoPoint},
         NEW pending, NEW highlighted, NEW brush,
         NEW t, t = Renewed(k, selected, saved, pending, highlighted, brush)
  PROVE  IsRenewed(t, k, selected, saved, pending, highlighted, brush)
<1>1. t = [result |-> k.result, active |-> k.active, focused |-> k.focused, pointer |-> k.pointer,
           inside |-> k.inside, selected |-> selected, saved |-> saved, pending |-> pending,
           highlighted |-> highlighted, brush |-> brush, zoomed |-> k.zoomed]
  BY DEF Renewed
<1>2. /\ t.result = k.result /\ t.active = k.active /\ t.focused = k.focused
      /\ t.selected = selected /\ t.saved = saved /\ t.pending = pending
      /\ t.highlighted = highlighted /\ t.brush = brush
      /\ t = [result |-> t.result, active |-> t.active, focused |-> t.focused, pointer |-> t.pointer,
              inside |-> t.inside, selected |-> t.selected, saved |-> t.saved, pending |-> t.pending,
              highlighted |-> t.highlighted, brush |-> t.brush, zoomed |-> t.zoomed]
  BY ONLY <1>1
<1> QED  BY <1>2 DEF IsReader, SameChart, IsRenewed

LEMMA RenewedBy ==
  ASSUME NEW k, IsReader(k), NEW p
  PROVE  /\ [k EXCEPT !.saved = p, !.selected = p] = Renewed(k, p, p, k.pending, k.highlighted, k.brush)
         /\ [k EXCEPT !.saved = p] = Renewed(k, k.selected, p, k.pending, k.highlighted, k.brush)
         /\ [k EXCEPT !.highlighted = p] = Renewed(k, k.selected, k.saved, k.pending, p, k.brush)
         /\ [k EXCEPT !.pending = p] = Renewed(k, k.selected, k.saved, p, k.highlighted, k.brush)
         /\ [k EXCEPT !.brush = p] = Renewed(k, k.selected, k.saved, k.pending, k.highlighted, p)
<1>1. k = [result |-> k.result, active |-> k.active, focused |-> k.focused, pointer |-> k.pointer,
           inside |-> k.inside, selected |-> k.selected, saved |-> k.saved, pending |-> k.pending,
           highlighted |-> k.highlighted, brush |-> k.brush, zoomed |-> k.zoomed]
  BY DEF IsReader
<1>2. [k EXCEPT !.saved = p, !.selected = p] = Renewed(k, p, p, k.pending, k.highlighted, k.brush)
  <2> PICK u : u = [k EXCEPT !.saved = p]
    OBVIOUS
  <2>1. u = [result |-> k.result, active |-> k.active, focused |-> k.focused, pointer |-> k.pointer,
             inside |-> k.inside, selected |-> k.selected, saved |-> p, pending |-> k.pending,
             highlighted |-> k.highlighted, brush |-> k.brush, zoomed |-> k.zoomed]
    BY <1>1
  <2>2. [u EXCEPT !.selected = p] = Renewed(k, p, p, k.pending, k.highlighted, k.brush)
    BY ONLY <2>1 DEF Renewed
  <2> QED  BY <2>2
<1>3. [k EXCEPT !.saved = p] = Renewed(k, k.selected, p, k.pending, k.highlighted, k.brush)
  BY <1>1 DEF Renewed
<1>4. [k EXCEPT !.highlighted = p] = Renewed(k, k.selected, k.saved, k.pending, p, k.brush)
  BY <1>1 DEF Renewed
<1>5. [k EXCEPT !.pending = p] = Renewed(k, k.selected, k.saved, p, k.highlighted, k.brush)
  BY <1>1 DEF Renewed
<1>6. [k EXCEPT !.brush = p] = Renewed(k, k.selected, k.saved, k.pending, k.highlighted, p)
  BY <1>1 DEF Renewed
<1> QED  BY <1>2, <1>3, <1>4, <1>5, <1>6

LEMMA FollowedOk ==
  ASSUME NEW k, IsReader(k), NEW t, t = Reader!Followed(k)
  PROVE  /\ IsReader(t) /\ SameChart(k, t)
         /\ t.pending = k.pending /\ t.highlighted = k.highlighted
         /\ Remembered(t) /\ Reader!current(t) = Reader!current(k)
<1> PICK now : now = Reader!current(k)
  OBVIOUS
<1>1. /\ now # NoPoint => now \in Reader!points(k) /\ now \in Point
      /\ k.selected \in Reader!points(k) => now = k.selected
  BY CurrentIsPoint, PointsOf
<1>2. SameChart(k, t) => Reader!points(t) = Reader!points(k)
  BY DEF Reader!points, SameChart
<1>3. CASE now # NoPoint /\ t = [k EXCEPT !.saved = now, !.selected = now]
  <2>1. /\ IsReader(t) /\ SameChart(k, t) /\ t.selected = now /\ t.saved = now
        /\ t.pending = k.pending /\ t.highlighted = k.highlighted
    <3>1. t = Renewed(k, now, now, k.pending, k.highlighted, k.brush)
      BY <1>3, RenewedBy
    <3>2. IsRenewed(t, k, now, now, k.pending, k.highlighted, k.brush)
      BY <1>1, <1>3, <3>1, RenewedIs
    <3> QED  BY <3>2 DEF IsRenewed
  <2>2. Reader!current(t) = now
    BY <1>1, <1>2, <1>3, <2>1, CurrentIsPoint
  <2> QED  BY <2>1, <2>2 DEF Remembered
<1>4. CASE now # NoPoint /\ k.selected \in Reader!points(k) /\ t = [k EXCEPT !.saved = now]
  <2>1. /\ IsReader(t) /\ SameChart(k, t) /\ t.selected = k.selected /\ t.saved = now
        /\ t.pending = k.pending /\ t.highlighted = k.highlighted
    <3>1. t = Renewed(k, k.selected, now, k.pending, k.highlighted, k.brush)
      BY <1>4, RenewedBy
    <3>2. k.selected \in Point \cup {NoPoint}
      BY DEF IsReader
    <3>3. IsRenewed(t, k, k.selected, now, k.pending, k.highlighted, k.brush)
      BY <1>1, <1>4, <3>1, <3>2, RenewedIs
    <3> QED  BY <3>3 DEF IsRenewed
  <2>2. Reader!current(t) = now
    BY <1>1, <1>2, <1>4, <2>1, CurrentIsPoint
  <2> QED  BY <1>1, <1>4, <2>1, <2>2 DEF Remembered
<1>5. CASE t = k /\ (now = NoPoint \/ k.selected \notin Reader!points(k))
  <2>1. now = NoPoint => Reader!points(k) = {}
    BY CurrentIsPoint, PointsOf
  <2> QED  BY <1>5, <2>1 DEF Remembered, SameChart
<1> QED  BY <1>3, <1>4, <1>5 DEF Reader!Followed, Reader!Selected

\* What a render leaves is in order, on the same chart, at the same point.
Rendered(k, t) ==
  ReaderOk(t) /\ SameChart(k, t) /\ Reader!current(t) = Reader!current(k)

LEMMA EffectsOk ==
  ASSUME NEW k, Ready(k), NEW t, t = Reader!Effects(k)
  PROVE  Rendered(k, t)
<1> PICK now : now = Reader!current(k)
  OBVIOUS
<1> PICK f : f = Reader!Followed(k)
  OBVIOUS
<1> PICK l : l = Reader!Lit(f, now)
  OBVIOUS
<1> PICK h : h = Reader!Held(l)
  OBVIOUS
<1>1. t = Reader!Painted(h)
  BY DEF Reader!Effects
<1>2. /\ IsReader(f) /\ SameChart(k, f) /\ f.pending = k.pending /\ f.highlighted = k.highlighted
      /\ Remembered(f) /\ Reader!current(f) = now
  BY FollowedOk DEF Ready
<1>3. /\ IsReader(l) /\ SameChart(f, l) /\ l.pending = f.pending
      /\ l.selected = f.selected /\ l.saved = f.saved
      /\ l.highlighted = IF f.focused THEN now ELSE f.highlighted
  <2>1. CASE f.focused
    <3>1. l = [f EXCEPT !.highlighted = now]
      BY <2>1 DEF Reader!Lit
    <3>2. l = Renewed(f, f.selected, f.saved, f.pending, now, f.brush)
      BY ONLY <1>2, <3>1, RenewedBy
    <3>3. f.selected \in Point \cup {NoPoint} /\ f.saved \in Point \cup {NoPoint}
      BY <1>2 DEF IsReader
    <3>4. IsRenewed(l, f, f.selected, f.saved, f.pending, now, f.brush)
      BY ONLY <1>2, <3>2, <3>3, RenewedIs
    <3> QED  BY <2>1, <3>4 DEF IsRenewed
  <2>2. CASE ~f.focused
    BY <1>2, <2>2 DEF Reader!Lit, SameChart
  <2> QED  BY <2>1, <2>2
<1>4. /\ IsReader(h) /\ SameChart(l, h)
      /\ h.selected = l.selected /\ h.saved = l.saved /\ h.highlighted = l.highlighted
      /\ h.pending # NoRange =>
           h.pending = l.pending /\ ~(l.pending.from < l.result.from) /\ ~(l.pending.to > l.result.to)
  <2>1. CASE h = [l EXCEPT !.pending = NoRange]
    <3>1. h = Renewed(l, l.selected, l.saved, NoRange, l.highlighted, l.brush)
      BY ONLY <1>3, <2>1, RenewedBy
    <3>2. l.selected \in Point \cup {NoPoint} /\ l.saved \in Point \cup {NoPoint}
      BY <1>3 DEF IsReader
    <3>3. IsRenewed(h, l, l.selected, l.saved, NoRange, l.highlighted, l.brush)
      BY ONLY <1>3, <3>1, <3>2, RenewedIs
    <3> QED  BY <3>3 DEF IsRenewed
  <2>2. CASE h = l /\ (l.pending # NoRange =>
                         ~(l.pending.from < l.result.from) /\ ~(l.pending.to > l.result.to))
    BY <1>3, <2>2 DEF SameChart
  <2> QED  BY <2>1, <2>2 DEF Reader!Held
<1> PICK brush : brush = IF h.pending = NoRange THEN NoRange
                         ELSE [from |-> h.pending.from, to |-> h.pending.to]
  OBVIOUS
<1>5. t = [h EXCEPT !.brush = brush]
  BY <1>1 DEF Reader!Painted
<1>6. /\ IsReader(t) /\ SameChart(h, t) /\ t.selected = h.selected /\ t.saved = h.saved
      /\ t.pending = h.pending /\ t.highlighted = h.highlighted /\ t.brush = brush
  <2>1. t = Renewed(h, h.selected, h.saved, h.pending, h.highlighted, brush)
    BY ONLY <1>4, <1>5, RenewedBy
  <2>2. h.selected \in Point \cup {NoPoint} /\ h.saved \in Point \cup {NoPoint}
    BY <1>4 DEF IsReader
  <2>3. IsRenewed(t, h, h.selected, h.saved, h.pending, h.highlighted, brush)
    BY ONLY <1>4, <2>1, <2>2, RenewedIs
  <2> QED  BY <2>3 DEF IsRenewed
<1>7. SameChart(k, t) /\ t.selected = f.selected /\ t.saved = f.saved
      /\ t.result = f.result /\ t.active = f.active
  BY <1>2, <1>3, <1>4, <1>6 DEF SameChart
<1>8. Reader!current(t) = now /\ Remembered(t)
  <2>1. Reader!points(t) = Reader!points(f) /\ Reader!current(t) = Reader!current(f)
    BY <1>7, CurrentSame
  <2> QED  BY <1>2, <1>7, <2>1 DEF Remembered
<1>9. t.focused => t.highlighted = now
  BY <1>3, <1>4, <1>6 DEF SameChart
<1>10. ~t.focused => t.highlighted = NoPoint
  BY <1>2, <1>3, <1>4, <1>6 DEF SameChart, Ready
<1>11. (t.focused => t.active) /\ (t.pending = NoRange \/ IsRange(t.pending))
  BY <1>2, <1>3, <1>4, <1>6, <1>7 DEF SameChart, Ready
<1>12. Ranged(t)
  <2>1. CASE t.pending = NoRange
    BY <1>6, <2>1 DEF Ranged
  <2>2. CASE t.pending # NoRange
    <3>1. /\ t.pending = l.pending /\ l.result = t.result /\ IsRange(t.pending)
          /\ ~(t.pending.from < t.result.from) /\ ~(t.pending.to > t.result.to)
      BY <1>4, <1>6, <1>11, <2>2 DEF SameChart
    <3>2. t.result.from \in Nat /\ t.result.to \in Nat
      BY <1>6, PointsOf
    <3>3. t.result.from <= t.pending.from /\ t.pending.to <= t.result.to
      BY <3>1, <3>2 DEF IsRange
    <3> QED  BY <1>6, <2>2, <3>1, <3>3 DEF Ranged
  <2> QED  BY <2>1, <2>2
<1> QED  BY <1>6, <1>7, <1>8, <1>9, <1>10, <1>11, <1>12 DEF Rendered, ReaderOk, Ready

\* A reader with other flags, result or zoom, and the range and the highlight put out or kept.
Flagged(t, k, result, active, focused, pointer, inside) ==
  /\ t.result = result /\ t.active = active /\ t.focused = focused /\ t.pointer = pointer
  /\ t.inside = inside
  /\ t.selected = k.selected /\ t.saved = k.saved
  /\ t.pending = k.pending \/ t.pending = NoRange
  /\ t = [result |-> t.result, active |-> t.active, focused |-> t.focused, pointer |-> t.pointer,
          inside |-> t.inside, selected |-> t.selected, saved |-> t.saved, pending |-> t.pending,
          highlighted |-> t.highlighted, brush |-> t.brush, zoomed |-> t.zoomed]

LEMMA FlaggedReady ==
  ASSUME NEW k, ReaderOk(k), NEW t, NEW result \in Charts, NEW active \in BOOLEAN, NEW focused \in BOOLEAN,
         NEW pointer, NEW inside,
         Flagged(t, k, result, active, focused, pointer, inside),
         focused => active, ~focused => t.highlighted = NoPoint
  PROVE  Ready(t)
BY DEF Flagged, ReaderOk, Ready, IsReader

\* What a key sets before the render.
LEMMA PendingReady ==
  ASSUME NEW k, Ready(k), NEW g, g = NoRange \/ IsRange(g), NEW t, t = [k EXCEPT !.pending = g]
  PROVE  Ready(t) /\ SameChart(k, t)
<1>1. IsReader(k) /\ k.selected \in Point \cup {NoPoint} /\ k.saved \in Point \cup {NoPoint}
  BY DEF Ready, IsReader
<1>2. t = Renewed(k, k.selected, k.saved, g, k.highlighted, k.brush)
  BY ONLY <1>1, RenewedBy, t = [k EXCEPT !.pending = g]
<1>3. IsRenewed(t, k, k.selected, k.saved, g, k.highlighted, k.brush)
  BY ONLY <1>1, <1>2, RenewedIs
<1> QED  BY <1>3 DEF IsRenewed, Ready, SameChart

LEMMA SelectedReady ==
  ASSUME NEW k, Ready(k), NEW p \in Point, NEW t, t = Reader!Selected(k, p)
  PROVE  Ready(t) /\ SameChart(k, t)
<1>1. IsReader(k)
  BY DEF Ready
<1>2. t = Renewed(k, p, p, k.pending, k.highlighted, k.brush)
  BY ONLY <1>1, RenewedBy, t = Reader!Selected(k, p) DEF Reader!Selected
<1>3. IsRenewed(t, k, p, p, k.pending, k.highlighted, k.brush)
  BY ONLY <1>1, <1>2, p \in Point, RenewedIs
<1> QED  BY <1>3 DEF IsRenewed, Ready, SameChart

\* A range grows to the bucket chosen: it lies in the window and reaches over the
\* bucket that it was begun at.
LEMMA ExtendedRange ==
  ASSUME NEW k, ReaderOk(k), Reader!current(k) # NoPoint, NEW p \in Reader!points(k)
  PROVE  Reader!Extended(k, p) = k
         \/ \E g : IsRange(g) /\ Reader!Extended(k, p) = [k EXCEPT !.pending = g]
<1> PICK from : from = Reader!current(k)
  OBVIOUS
<1>1. from \in Reader!points(k) /\ IsReader(k)
  BY CurrentIsPoint DEF ReaderOk, Ready
<1> PICK r : r = k.result
  OBVIOUS
<1>2. /\ r.from \in Nat /\ r.to \in Nat /\ r.from < r.to /\ Interval \in Nat /\ Interval > 0
      /\ from[2] \in Nat /\ r.from < from[2] + Interval /\ from[2] < r.to
      /\ p[2] \in Nat /\ r.from < p[2] + Interval /\ p[2] < r.to
  BY <1>1, PointsOf, ChartsAssumption
<1>3. ASSUME NEW a \in Int, NEW b \in Int
      PROVE  /\ Reader!Min({a, b}) = IF a <= b THEN a ELSE b
             /\ Reader!Max({a, b}) = IF a >= b THEN a ELSE b
  <2>1. Reader!Min({a, b}) \in {a, b} /\ \A c \in {a, b} : Reader!Min({a, b}) <= c
    <3> DEFINE m == IF a <= b THEN a ELSE b
    <3>1. m \in {a, b} /\ \A c \in {a, b} : m <= c
      OBVIOUS
    <3> HIDE DEF m
    <3> QED  BY <3>1 DEF Reader!Min
  <2>2. Reader!Max({a, b}) \in {a, b} /\ \A c \in {a, b} : Reader!Max({a, b}) >= c
    <3> DEFINE m == IF a >= b THEN a ELSE b
    <3>1. m \in {a, b} /\ \A c \in {a, b} : m >= c
      OBVIOUS
    <3> HIDE DEF m
    <3> QED  BY <3>1 DEF Reader!Max
  <2> QED  BY <2>1, <2>2
<1> PICK e : e = Reader!Min({from[2] + Interval, r.to})
  OBVIOUS
<1> PICK f : f = Reader!Min({p[2] + Interval, r.to})
  OBVIOUS
<1>4. /\ e \in Int /\ from[2] < e /\ r.from < e /\ e <= r.to
      /\ f \in Int /\ p[2] < f /\ r.from < f /\ f <= r.to
  <2> PICK s, t : s = from[2] + Interval /\ t = p[2] + Interval
    OBVIOUS
  <2>1. s \in Int /\ t \in Int /\ r.to \in Int /\ from[2] < s /\ p[2] < t /\ r.from < s /\ r.from < t
    BY <1>2
  <2>2. e = IF s <= r.to THEN s ELSE r.to
    BY <1>3, <2>1
  <2>3. f = IF t <= r.to THEN t ELSE r.to
    BY <1>3, <2>1
  <2> QED  BY ONLY <1>2, <2>1, <2>2, <2>3
<1> PICK w : w = IF k.pending = NoRange THEN [from |-> from[2], to |-> e] ELSE k.pending.window
  OBVIOUS
<1>5. /\ w = [from |-> w.from, to |-> w.to] /\ w.from \in Int /\ w.to \in Int
      /\ r.from < w.to /\ w.to <= r.to
      /\ w.from < w.to
  <2>1. CASE k.pending = NoRange
    <3>1. w = [from |-> from[2], to |-> e]
      BY <2>1
    <3> QED  BY ONLY <1>2, <1>4, <3>1
  <2>2. CASE k.pending # NoRange
    <3> PICK h : h = k.pending
      OBVIOUS
    <3>1. IsRange(h) /\ r.from <= h.from /\ h.to <= r.to /\ w = h.window
      BY <2>2 DEF ReaderOk, Ranged
    <3> QED  BY <1>2, <2>2, <3>1 DEF IsRange
  <2> QED  BY <2>1, <2>2
<1> PICK low : low = Reader!Max({r.from, Reader!Min({w.from, p[2]})})
  OBVIOUS
<1> PICK high : high = Reader!Min({r.to, Reader!Max({w.to, f})})
  OBVIOUS
<1>6. low \in Int /\ high \in Int /\ low < w.to /\ w.to <= high
  <2> PICK a, b : a = Reader!Min({w.from, p[2]}) /\ b = Reader!Max({w.to, f})
    OBVIOUS
  <2>1. w.from \in Int /\ p[2] \in Int /\ w.to \in Int /\ f \in Int /\ r.from \in Int /\ r.to \in Int
    BY <1>2, <1>4, <1>5
  <2>2. a = (IF w.from <= p[2] THEN w.from ELSE p[2]) /\ b = (IF w.to >= f THEN w.to ELSE f)
    BY <1>3, <2>1
  <2>3. a \in Int /\ b \in Int
    BY <2>1, <2>2
  <2>4. low = Reader!Max({r.from, a}) /\ high = Reader!Min({r.to, b})
    OBVIOUS
  <2>5. low = (IF r.from >= a THEN r.from ELSE a)
    BY ONLY <1>3, <2>1, <2>3, <2>4
  <2>6. high = (IF r.to <= b THEN r.to ELSE b)
    BY ONLY <1>3, <2>1, <2>3, <2>4
  <2> QED  BY ONLY <1>2, <1>4, <1>5, <2>2, <2>3, <2>5, <2>6
<1> PICK g : g = [window |-> w, from |-> low, to |-> high]
  OBVIOUS
<1>7. low < high => IsRange(g)
  <2>1. g = [window |-> g.window, from |-> g.from, to |-> g.to] /\ g.window = w /\ g.from = low /\ g.to = high
    OBVIOUS
  <2> QED  BY <1>5, <1>6, <2>1 DEF IsRange
<1>8. Reader!Extended(k, p) = IF low < high THEN [k EXCEPT !.pending = g] ELSE k
  BY DEF Reader!Extended, Reader!pointWindow
<1> QED  BY <1>7, <1>8

\* Where the keys move to from a point.
Beside(at, all, left) ==
  LET beyond == {p \in Reader!Peers(at, all) : IF left THEN p[2] < at[2] ELSE p[2] > at[2]}
  IN IF beyond = {} THEN at
     ELSE CHOOSE p \in beyond : \A q \in beyond : Reader!Distance(p, at) <= Reader!Distance(q, at)

EndOf(at, all, last) ==
  CHOOSE p \in Reader!Peers(at, all) :
    \A q \in Reader!Peers(at, all) : IF last THEN q[2] <= p[2] ELSE p[2] <= q[2]

InSeries(at, all, up) ==
  LET series == {p[1] : p \in all}
      beyond == {s \in series : IF up THEN s < at[1] ELSE s > at[1]}
      to == IF beyond = {} THEN at[1] ELSE IF up THEN Reader!Max(beyond) ELSE Reader!Min(beyond)
  IN Reader!Nearest(at, {p \in all : p[1] = to})

\* Every key moves to a point of the chart.
LEMMA Moves ==
  ASSUME NEW k, IsReader(k), Reader!current(k) # NoPoint,
         NEW at, at = Reader!current(k), NEW all, all = Reader!points(k)
  PROVE  /\ at \in all /\ all \in SUBSET Point
         /\ \A b \in BOOLEAN : Beside(at, all, b) \in all /\ EndOf(at, all, b) \in all
<1>1. at \in all /\ all \in SUBSET Point /\ at \in Point
  BY CurrentIsPoint, PointsOf
<1> PICK peers : peers = Reader!Peers(at, all)
  OBVIOUS
<1>2. peers \in SUBSET all /\ at \in peers
  BY <1>1 DEF Reader!Peers
<1> PICK to : to = k.result.to
  OBVIOUS
<1>3. to \in Nat /\ \A p \in all : p[1] \in Nat /\ p[2] \in Nat /\ p[2] < to
  BY PointsOf
<1>4. ASSUME NEW left \in BOOLEAN, NEW beyond \in SUBSET peers, beyond # {}
      PROVE  (CHOOSE p \in beyond : \A q \in beyond : Reader!Distance(p, at) <= Reader!Distance(q, at)) \in all
  <2> DEFINE f == [p \in beyond |-> Reader!Distance(p, at)]
  <2>1. \A p \in beyond : f[p] = Reader!Distance(p, at)
    OBVIOUS
  <2>2. \A p \in beyond : f[p] \in Nat
    BY <1>1, <1>2, <1>3, <2>1 DEF Reader!Distance
  <2> HIDE DEF f
  <2>3. PICK m \in beyond : \A q \in beyond : f[m] <= f[q]
    BY <1>4, <2>2, LeastOf
  <2>4. \A q \in beyond : Reader!Distance(m, at) <= Reader!Distance(q, at)
    BY <2>1, <2>3
  <2>5. (CHOOSE p \in beyond : \A q \in beyond : Reader!Distance(p, at) <= Reader!Distance(q, at)) \in beyond
    BY ONLY <2>4, m \in beyond
  <2> QED  BY <1>2, <2>5
<1>5. \E p \in peers : \A q \in peers : p[2] <= q[2]
  <2> DEFINE f == [p \in peers |-> p[2]]
  <2>1. \A p \in peers : f[p] = p[2] /\ f[p] \in Nat
    BY <1>2, <1>3
  <2> HIDE DEF f
  <2>2. PICK m \in peers : \A q \in peers : f[m] <= f[q]
    BY <1>2, <2>1, LeastOf
  <2> QED  BY <2>1, <2>2
<1>6. \E p \in peers : \A q \in peers : q[2] <= p[2]
  <2> DEFINE f == [p \in peers |-> to - p[2]]
  <2>1. \A p \in peers : f[p] = to - p[2] /\ f[p] \in Nat
    BY <1>2, <1>3
  <2> HIDE DEF f
  <2>2. PICK m \in peers : \A q \in peers : f[m] <= f[q]
    BY <1>2, <2>1, LeastOf
  <2>3. ASSUME NEW q \in peers  PROVE q[2] <= m[2]
    BY <1>2, <1>3, <2>1, <2>2
  <2> QED  BY <2>3
<1>7. ASSUME NEW last \in BOOLEAN
      PROVE  (CHOOSE p \in peers : \A q \in peers : IF last THEN q[2] <= p[2] ELSE p[2] <= q[2]) \in all
  <2>1. \E p \in peers : \A q \in peers : IF last THEN q[2] <= p[2] ELSE p[2] <= q[2]
    BY <1>5, <1>6
  <2> PICK e : e = CHOOSE p \in peers : \A q \in peers : IF last THEN q[2] <= p[2] ELSE p[2] <= q[2]
    OBVIOUS
  <2>2. e \in peers
    BY <2>1
  <2> QED  BY <1>2, <2>2
<1>8. ASSUME NEW left \in BOOLEAN,
             NEW beyond, beyond = {p \in peers : IF left THEN p[2] < at[2] ELSE p[2] > at[2]}
      PROVE  (IF beyond = {} THEN at
              ELSE CHOOSE p \in beyond : \A q \in beyond : Reader!Distance(p, at) <= Reader!Distance(q, at))
             \in all
  <2>1. beyond \in SUBSET peers
    BY <1>8
  <2>2. beyond # {} =>
          (CHOOSE p \in beyond : \A q \in beyond : Reader!Distance(p, at) <= Reader!Distance(q, at)) \in all
    BY <1>4, <2>1
  <2> QED  BY <1>1, <2>2
<1>9. \A left \in BOOLEAN : Beside(at, all, left) \in all
  BY <1>8 DEF Beside
<1>10. \A last \in BOOLEAN : EndOf(at, all, last) \in all
  BY <1>7 DEF EndOf
<1> QED  BY <1>1, <1>9, <1>10

LEMMA SeriesMoves ==
  ASSUME NEW k, IsReader(k), Reader!current(k) # NoPoint,
         NEW at, at = Reader!current(k), NEW all, all = Reader!points(k), NEW up \in BOOLEAN
  PROVE  InSeries(at, all, up) \in all
<1> PICK series : series = {p[1] : p \in all}
  OBVIOUS
<1> PICK beyond : beyond = {s \in series : IF up THEN s < at[1] ELSE s > at[1]}
  OBVIOUS
<1> PICK to : to = IF beyond = {} THEN at[1] ELSE IF up THEN Reader!Max(beyond) ELSE Reader!Min(beyond)
  OBVIOUS
<1>1. at \in all /\ all \in SUBSET Point /\ at \in Point
  BY CurrentIsPoint, PointsOf
<1>2. \A p \in all : p[1] \in Nat
  BY PointsOf
<1>3. series \in SUBSET Nat /\ beyond \in SUBSET series /\ beyond \in SUBSET Nat /\ at[1] \in Nat
  BY <1>1, <1>2
<1>4. to \in series
  <2>1. CASE beyond = {}
    BY <1>1, <2>1
  <2>2. CASE beyond # {} /\ up
    <3>1. \A s \in beyond : s <= at[1]
      BY <1>3, <2>2
    <3>2. PICK m \in beyond : \A s \in beyond : s <= m
      BY <1>3, <2>2, <3>1, Greatest
    <3>3. m \in beyond /\ \A s \in beyond : m >= s
      BY <1>3, <3>2
    <3>4. Reader!Max(beyond) \in beyond
      BY ONLY <3>3 DEF Reader!Max
    <3> QED  BY <1>3, <2>2, <3>4
  <2>3. CASE beyond # {} /\ ~up
    <3>1. PICK m \in beyond : \A s \in beyond : m <= s
      BY <1>3, <2>3, Least
    <3>2. Reader!Min(beyond) \in beyond
      BY ONLY <3>1 DEF Reader!Min
    <3> QED  BY <1>3, <2>3, <3>2
  <2> QED  BY <2>1, <2>2, <2>3
<1> PICK there : there = {p \in all : p[1] = to}
  OBVIOUS
<1>5. there # {} /\ there \in SUBSET Point /\ there \in SUBSET all
  <2>1. PICK p \in all : to = p[1]
    BY <1>4
  <2> QED  BY <1>1, <2>1
<1>6. Reader!Nearest(at, there) \in there
  BY ONLY <1>1, <1>5, NearestIsOne
<1>7. InSeries(at, all, up) = Reader!Nearest(at, there)
  BY DEF InSeries
<1> QED  BY <1>5, <1>6, <1>7

LEMMA ChosenPoint ==
  ASSUME NEW k, ReaderOk(k), Reader!current(k) # NoPoint, NEW p \in Reader!points(k), NEW extend \in BOOLEAN,
         NEW t, t = Reader!Effects(Reader!Selected(IF extend THEN Reader!Extended(k, p) ELSE k, p))
  PROVE  ReaderOk(t) /\ t.result = k.result
<1> PICK m : m = IF extend THEN Reader!Extended(k, p) ELSE k
  OBVIOUS
<1>1. Ready(k) /\ p \in Point
  BY PointsOf DEF ReaderOk, Ready
<1>2. m = k \/ \E g : IsRange(g) /\ m = [k EXCEPT !.pending = g]
  BY ExtendedRange
<1>3. Ready(m) /\ SameChart(k, m)
  <2>1. CASE m = k
    BY <1>1, <2>1 DEF SameChart
  <2>2. ASSUME NEW g, IsRange(g), m = [k EXCEPT !.pending = g]  PROVE Ready(m) /\ SameChart(k, m)
    BY ONLY <1>1, <2>2, PendingReady
  <2> QED  BY <1>2, <2>1, <2>2
<1> PICK u : u = Reader!Selected(m, p)
  OBVIOUS
<1>4. Ready(u) /\ SameChart(m, u)
  BY <1>1, <1>3, SelectedReady
<1>5. t = Reader!Effects(u)
  OBVIOUS
<1>6. Rendered(u, t)
  BY ONLY <1>4, <1>5, EffectsOk
<1> QED  BY <1>3, <1>4, <1>6 DEF Rendered, SameChart

LEMMA ReaderStart == Reader!KeyboardInit => ReaderInv
<1> SUFFICES ASSUME NEW r \in Charts,
       v1 = [result |-> r, active |-> FALSE, focused |-> FALSE, pointer |-> FALSE, inside |-> FALSE,
             selected |-> NoPoint, saved |-> NoPoint, pending |-> NoRange,
             highlighted |-> NoPoint, brush |-> NoRange, zoomed |-> NoRange]
    PROVE  ReaderInv
  BY DEF Reader!KeyboardInit
<1> PICK k : k = v1
  OBVIOUS
<1>1. /\ k = [result |-> k.result, active |-> k.active, focused |-> k.focused, pointer |-> k.pointer,
              inside |-> k.inside, selected |-> k.selected, saved |-> k.saved, pending |-> k.pending,
              highlighted |-> k.highlighted, brush |-> k.brush, zoomed |-> k.zoomed]
      /\ k.result = r /\ k.active = FALSE /\ k.focused = FALSE /\ k.selected = NoPoint
      /\ k.saved = NoPoint /\ k.pending = NoRange /\ k.highlighted = NoPoint /\ k.brush = NoRange
  OBVIOUS
<1>2. Reader!points(k) = {}
  BY <1>1 DEF Reader!points
<1> QED  BY <1>1, <1>2 DEF ReaderInv, ReaderOk, Ready, IsReader, Ranged, Remembered

\* A refresh that keeps the selected bucket keeps it, and one that keeps its series stays there.
LEMMA RefreshKeeps ==
  ASSUME NEW k, ReaderOk(k), k.focused, NEW r \in Charts, NEW u, u.result = r, u.active = k.active,
         IsReader(u), u.selected = k.selected, u.saved = k.saved,
         Reader!current(k) \in {k.selected} \ {NoPoint}
  PROVE  /\ Reader!current(k) \in r.points => Reader!current(u) = Reader!current(k)
         /\ Reader!Peers(Reader!current(k), r.points) # {} =>
              Reader!current(u)[1] = Reader!current(k)[1]
<1> PICK p : p = k.selected
  OBVIOUS
<1>1. Reader!current(k) = p /\ p # NoPoint /\ p \in Reader!points(k) /\ p \in Point
  BY CurrentIsPoint, PointsOf DEF ReaderOk, Ready
<1>2. k.saved = p /\ u.saved = p /\ u.selected = p
  BY <1>1 DEF ReaderOk, Remembered
<1>3. Reader!points(u) = r.points /\ r.points \in SUBSET Point
  <2>1. Reader!points(u) = r.points
    BY DEF ReaderOk, Ready, Reader!points
  <2> QED  BY <2>1, PointsOf
<1>4. p \in r.points => Reader!current(u) = p
  BY <1>2, <1>3, CurrentIsPoint
<1> PICK peers : peers = Reader!Peers(p, r.points)
  OBVIOUS
<1>5. peers \in SUBSET r.points /\ \A q \in peers : q[1] = p[1]
  BY DEF Reader!Peers
<1>6. ASSUME peers # {}, p \notin r.points  PROVE Reader!current(u)[1] = p[1]
  <2>1. Reader!current(u) = Reader!Nearest(p, peers)
    BY <1>1, <1>2, <1>3, <1>5, <1>6 DEF Reader!current
  <2>2. peers \in SUBSET Point
    BY <1>3, <1>5
  <2>3. Reader!Nearest(p, peers) \in peers
    BY ONLY <1>1, <1>6, <2>2, NearestIsOne
  <2> QED  BY <1>5, <2>1, <2>3
<1> QED  BY <1>1, <1>4, <1>6

LEMMA ReaderStep == ReaderInv /\ Reader!KeyboardNext => ReaderInv' /\ Reader!RefreshKeepsPoint
<1> SUFFICES ASSUME ReaderInv, Reader!KeyboardNext  PROVE ReaderInv' /\ Reader!RefreshKeepsPoint
  OBVIOUS
<1> PICK k, t : k = v1 /\ t = v1'
  OBVIOUS
<1> DEFINE good == ReaderOk(t) /\ t.result = k.result
<1>0. ReaderOk(k) /\ Ready(k) /\ IsReader(k)
  BY DEF ReaderInv, ReaderOk, Ready
<1>g. good => ReaderInv' /\ Reader!RefreshKeepsPoint
  BY DEF ReaderInv, Reader!RefreshKeepsPoint
<1>f. ASSUME NEW u, NEW active \in BOOLEAN, NEW focused \in BOOLEAN, NEW pointer, NEW inside,
             Flagged(u, k, k.result, active, focused, pointer, inside),
             focused => active, ~focused => u.highlighted = NoPoint,
             t = Reader!Effects(u)
      PROVE  good
  <2>1. k.result \in Charts
    BY <1>0 DEF IsReader
  <2>2. Ready(u)
    BY ONLY <1>0, <1>f, <2>1, FlaggedReady
  <2>3. Rendered(u, t)
    BY ONLY <1>f, <2>2, EffectsOk
  <2> QED  BY <1>f, <2>3 DEF Rendered, SameChart, Flagged
<1> HIDE DEF good
<1>k. k = [result |-> k.result, active |-> k.active, focused |-> k.focused, pointer |-> k.pointer,
           inside |-> k.inside, selected |-> k.selected, saved |-> k.saved, pending |-> k.pending,
           highlighted |-> k.highlighted, brush |-> k.brush, zoomed |-> k.zoomed]
      /\ k.active \in BOOLEAN /\ k.focused \in BOOLEAN /\ (k.focused => k.active)
      /\ (~k.focused => k.highlighted = NoPoint)
  BY <1>0 DEF IsReader, Ready
<1>1. ASSUME NEW r \in Charts, Reader!refreshed(r)  PROVE ReaderInv' /\ Reader!RefreshKeepsPoint
  <2> PICK u : u = [k EXCEPT !.result = r]
    OBVIOUS
  <2>1. t = Reader!Effects(u)
    BY <1>1 DEF Reader!refreshed, Reader!Becomes
  <2>2. u = [result |-> r, active |-> k.active, focused |-> k.focused, pointer |-> k.pointer,
             inside |-> k.inside, selected |-> k.selected, saved |-> k.saved, pending |-> k.pending,
             highlighted |-> k.highlighted, brush |-> k.brush, zoomed |-> k.zoomed]
    BY ONLY <1>k, u = [k EXCEPT !.result = r]
  <2>3. Flagged(u, k, r, k.active, k.focused, k.pointer, k.inside) /\ u.highlighted = k.highlighted
    BY ONLY <2>2 DEF Flagged
  <2>4. Ready(u)
    BY ONLY <1>0, <1>k, <2>3, r \in Charts, FlaggedReady
  <2>5. Rendered(u, t)
    BY ONLY <2>1, <2>4, EffectsOk
  <2>6. ASSUME k.focused, Reader!current(k) \in {k.selected} \ {NoPoint}
        PROVE  /\ Reader!current(k) \in r.points => Reader!current(t) = Reader!current(k)
               /\ Reader!Peers(Reader!current(k), r.points) # {} =>
                    Reader!current(t)[1] = Reader!current(k)[1]
    <3>1. /\ u.result = r /\ u.active = k.active /\ IsReader(u)
          /\ u.selected = k.selected /\ u.saved = k.saved
      BY <2>3, <2>4 DEF Flagged, Ready
    <3>2. /\ Reader!current(k) \in r.points => Reader!current(u) = Reader!current(k)
          /\ Reader!Peers(Reader!current(k), r.points) # {} =>
               Reader!current(u)[1] = Reader!current(k)[1]
      BY ONLY <1>0, <2>6, <3>1, r \in Charts, RefreshKeeps
    <3> QED  BY <2>5, <3>2 DEF Rendered
  <2>7. t.result = r /\ ReaderOk(t)
    BY <2>3, <2>5 DEF Rendered, SameChart, Flagged
  <2> QED  BY <2>6, <2>7 DEF ReaderInv, Reader!RefreshKeepsPoint
<1>2. ASSUME Reader!takeKeyboard  PROVE good
  <2> PICK u : u = [k EXCEPT !.pointer = FALSE, !.focused = TRUE, !.active = TRUE]
    OBVIOUS
  <2>1. t = Reader!Effects(u)
    BY <1>2 DEF Reader!takeKeyboard, Reader!Becomes
  <2>2. u = [result |-> k.result, active |-> TRUE, focused |-> TRUE, pointer |-> FALSE,
             inside |-> k.inside, selected |-> k.selected, saved |-> k.saved, pending |-> k.pending,
             highlighted |-> k.highlighted, brush |-> k.brush, zoomed |-> k.zoomed]
    BY ONLY <1>k, u = [k EXCEPT !.pointer = FALSE, !.focused = TRUE, !.active = TRUE]
  <2>3. Flagged(u, k, k.result, TRUE, TRUE, FALSE, k.inside)
    BY ONLY <2>2 DEF Flagged
  <2> QED  BY <1>f, <2>1, <2>3
<1>3. ASSUME Reader!blur  PROVE good
  <2> PICK u : u = [k EXCEPT !.inside = FALSE, !.pointer = FALSE, !.focused = FALSE, !.active = FALSE,
                             !.pending = NoRange, !.highlighted = NoPoint]
    OBVIOUS
  <2>1. t = Reader!Effects(u)
    BY <1>3 DEF Reader!blur, Reader!Becomes
  <2>2. u = [result |-> k.result, active |-> FALSE, focused |-> FALSE, pointer |-> FALSE,
             inside |-> FALSE, selected |-> k.selected, saved |-> k.saved, pending |-> NoRange,
             highlighted |-> NoPoint, brush |-> k.brush, zoomed |-> k.zoomed]
    BY ONLY <1>k, u = [k EXCEPT !.inside = FALSE, !.pointer = FALSE, !.focused = FALSE, !.active = FALSE,
                                !.pending = NoRange, !.highlighted = NoPoint]
  <2>3. Flagged(u, k, k.result, FALSE, FALSE, FALSE, FALSE) /\ u.highlighted = NoPoint
    BY ONLY <2>2 DEF Flagged
  <2> QED  BY <1>f, <2>1, <2>3
<1>4. ASSUME Reader!escape  PROVE good
  <2>1. CASE k.pending # NoRange
    <3> PICK u : u = [k EXCEPT !.pending = NoRange]
      OBVIOUS
    <3>1. t = Reader!Effects(u)
      BY <1>4, <2>1 DEF Reader!escape, Reader!Becomes
    <3>2. Ready(u) /\ SameChart(k, u)
      BY ONLY <1>0, PendingReady, u = [k EXCEPT !.pending = NoRange]
    <3>3. Rendered(u, t)
      BY ONLY <3>1, <3>2, EffectsOk
    <3> QED  BY <3>2, <3>3 DEF good, Rendered, SameChart
  <2>2. CASE k.pending = NoRange
    <3> PICK u : u = [k EXCEPT !.inside = FALSE, !.focused = FALSE, !.active = FALSE, !.highlighted = NoPoint]
      OBVIOUS
    <3>1. t = Reader!Effects(u)
      BY <1>4, <2>2 DEF Reader!escape, Reader!Becomes
    <3>2. u = [result |-> k.result, active |-> FALSE, focused |-> FALSE, pointer |-> k.pointer,
               inside |-> FALSE, selected |-> k.selected, saved |-> k.saved, pending |-> k.pending,
               highlighted |-> NoPoint, brush |-> k.brush, zoomed |-> k.zoomed]
      BY ONLY <1>k, u = [k EXCEPT !.inside = FALSE, !.focused = FALSE, !.active = FALSE, !.highlighted = NoPoint]
    <3>3. Flagged(u, k, k.result, FALSE, FALSE, k.pointer, FALSE) /\ u.highlighted = NoPoint
      BY ONLY <3>2 DEF Flagged
    <3> QED  BY <1>f, <3>1, <3>3
  <2> QED  BY <2>1, <2>2
<1>5. ASSUME Reader!focus  PROVE good
  <2>1. CASE k.pointer
    <3>1. t = [k EXCEPT !.inside = TRUE]
      BY <1>5, <2>1 DEF Reader!focus
    <3>2. t = [result |-> k.result, active |-> k.active, focused |-> k.focused, pointer |-> k.pointer,
               inside |-> TRUE, selected |-> k.selected, saved |-> k.saved, pending |-> k.pending,
               highlighted |-> k.highlighted, brush |-> k.brush, zoomed |-> k.zoomed]
      BY ONLY <1>k, <3>1
    <3>3. /\ Flagged(t, k, k.result, k.active, k.focused, k.pointer, TRUE)
          /\ t.highlighted = k.highlighted /\ t.pending = k.pending /\ t.brush = k.brush
      BY ONLY <3>2 DEF Flagged
    <3>4. Ready(t)
      BY ONLY <1>0, <1>k, <3>3, FlaggedReady DEF IsReader
    <3>5. Reader!points(t) = Reader!points(k) /\ Reader!current(t) = Reader!current(k)
      BY <3>3, CurrentSame DEF Flagged
    <3> QED  BY <1>0, <3>3, <3>4, <3>5 DEF good, ReaderOk, Ranged, Remembered, Flagged
  <2>2. CASE ~k.pointer
    <3> PICK u : u = [k EXCEPT !.inside = TRUE, !.active = TRUE, !.focused = TRUE]
      OBVIOUS
    <3>1. t = Reader!Effects(u)
      BY <1>5, <2>2 DEF Reader!focus, Reader!Becomes
    <3>2. u = [result |-> k.result, active |-> TRUE, focused |-> TRUE, pointer |-> k.pointer,
               inside |-> TRUE, selected |-> k.selected, saved |-> k.saved, pending |-> k.pending,
               highlighted |-> k.highlighted, brush |-> k.brush, zoomed |-> k.zoomed]
      BY ONLY <1>k, u = [k EXCEPT !.inside = TRUE, !.active = TRUE, !.focused = TRUE]
    <3>3. Flagged(u, k, k.result, TRUE, TRUE, k.pointer, TRUE)
      BY ONLY <3>2 DEF Flagged
    <3> QED  BY <1>f, <3>1, <3>3
  <2> QED  BY <2>1, <2>2
<1>6. ASSUME Reader!pointerDown  PROVE good
  <2> PICK lit : lit = IF k.focused THEN NoPoint ELSE k.highlighted
    OBVIOUS
  <2> PICK u : u = [k EXCEPT !.pointer = TRUE, !.inside = TRUE, !.focused = FALSE, !.active = FALSE,
                             !.highlighted = lit]
    OBVIOUS
  <2>1. t = Reader!Effects(u)
    BY <1>6 DEF Reader!pointerDown, Reader!Becomes
  <2>2. u = [result |-> k.result, active |-> FALSE, focused |-> FALSE, pointer |-> TRUE,
             inside |-> TRUE, selected |-> k.selected, saved |-> k.saved, pending |-> k.pending,
             highlighted |-> lit, brush |-> k.brush, zoomed |-> k.zoomed]
    BY ONLY <1>k, u = [k EXCEPT !.pointer = TRUE, !.inside = TRUE, !.focused = FALSE, !.active = FALSE,
                                !.highlighted = lit]
  <2>3. Flagged(u, k, k.result, FALSE, FALSE, TRUE, TRUE) /\ u.highlighted = lit
    BY ONLY <2>2 DEF Flagged
  <2>4. lit = NoPoint
    BY <1>k
  <2> QED  BY <1>f, <2>1, <2>3, <2>4
<1>7. ASSUME NEW z, t = Reader!Effects([k EXCEPT !.zoomed = z, !.pending = NoRange])  PROVE good
  <2> PICK u : u = [k EXCEPT !.zoomed = z, !.pending = NoRange]
    OBVIOUS
  <2>1. u = [result |-> k.result, active |-> k.active, focused |-> k.focused, pointer |-> k.pointer,
             inside |-> k.inside, selected |-> k.selected, saved |-> k.saved, pending |-> NoRange,
             highlighted |-> k.highlighted, brush |-> k.brush, zoomed |-> z]
    BY ONLY <1>k, u = [k EXCEPT !.zoomed = z, !.pending = NoRange]
  <2>2. /\ Flagged(u, k, k.result, k.active, k.focused, k.pointer, k.inside)
        /\ u.highlighted = k.highlighted
    BY ONLY <2>1 DEF Flagged
  <2>3. t = Reader!Effects(u)
    BY <1>7
  <2> QED  BY ONLY <1>f, <1>k, <2>2, <2>3
<1>8. Reader!zoomToRange => good
  BY <1>7 DEF Reader!zoomToRange, Reader!Becomes
<1>9. ASSUME NEW from, NEW to, Reader!brushEnd(from, to)  PROVE good
  <2> PICK z : z = [from |-> from, to |-> to]
    OBVIOUS
  <2>1. t = Reader!Effects([k EXCEPT !.zoomed = z, !.pending = NoRange])
    BY <1>9 DEF Reader!brushEnd, Reader!Becomes
  <2> QED  BY <1>7, <2>1
<1>c. ASSUME Reader!current(k) # NoPoint, NEW p \in Reader!points(k), NEW extend \in BOOLEAN,
             Reader!choose(p, extend)
      PROVE  good
  <2>1. t = Reader!Effects(Reader!Selected(IF extend THEN Reader!Extended(k, p) ELSE k, p))
    BY <1>c DEF Reader!choose, Reader!Becomes
  <2> QED  BY ONLY <1>0, <1>c, <2>1, ChosenPoint DEF good
<1> PICK at, all : at = Reader!current(k) /\ all = Reader!points(k)
  OBVIOUS
<1>10. ASSUME NEW left \in BOOLEAN, NEW extend \in BOOLEAN, Reader!movePoint(left, extend)  PROVE good
  <2> PICK next : next = Beside(at, all, left)
    OBVIOUS
  <2>1. at # NoPoint /\ Reader!choose(next, extend)
    BY <1>10 DEF Reader!movePoint, Beside
  <2>2. next \in all
    BY ONLY <1>0, <2>1, Moves, at = Reader!current(k), all = Reader!points(k), next = Beside(at, all, left)
  <2> QED  BY <1>c, <2>1, <2>2
<1>11. ASSUME NEW up \in BOOLEAN, Reader!moveSeries(up)  PROVE good
  <2> PICK next : next = InSeries(at, all, up)
    OBVIOUS
  <2>1. at # NoPoint /\ Reader!choose(next, FALSE)
    BY <1>11 DEF Reader!moveSeries, InSeries
  <2>2. next \in all
    BY ONLY <1>0, <2>1, SeriesMoves, at = Reader!current(k), all = Reader!points(k), next = InSeries(at, all, up)
  <2> QED  BY <1>c, <2>1, <2>2
<1>12. ASSUME NEW last \in BOOLEAN, Reader!moveEnd(last)  PROVE good
  <2> PICK next : next = EndOf(at, all, last)
    OBVIOUS
  <2>1. at # NoPoint /\ Reader!choose(next, FALSE)
    BY <1>12 DEF Reader!moveEnd, EndOf
  <2>2. next \in all
    BY ONLY <1>0, <2>1, Moves, at = Reader!current(k), all = Reader!points(k), next = EndOf(at, all, last)
  <2> QED  BY <1>c, <2>1, <2>2
<1> QED  BY <1>g, <1>1, <1>2, <1>3, <1>4, <1>5, <1>6, <1>8, <1>9, <1>10, <1>11, <1>12 DEF Reader!KeyboardNext

-----------------------------------------------------------------------------
(* The service map: the layout on the canvas is of what is drawn, and the  *)
(* reader's fitted view is the fit of it.                                  *)

Laid(f) == [key |-> Map!structure(Map!serviceMapModel(f)), model |-> Map!serviceMapModel(f)]

IsMap(m) ==
  /\ m = [width |-> m.width, cached |-> m.cached, worker |-> m.worker, error |-> m.error,
          view |-> m.view, fittedKey |-> m.fittedKey, previousFit |-> m.previousFit,
          hover |-> m.hover, drag |-> m.drag, suppress |-> m.suppress, opened |-> m.opened]
  /\ m.cached = NoLayout \/ \E f \in Maps : m.cached = Laid(f)
  /\ m.worker = NoLayout \/ \E f \in Maps : m.worker = Laid(f)
  /\ m.error \in BOOLEAN /\ m.suppress \in BOOLEAN /\ m.opened \in BOOLEAN

\* What a layout or a size that differs starts from: the fit before it is known.
Fits(m) ==
  IF m.cached = NoLayout THEN m.fittedKey = NoLayout
  ELSE /\ m.fittedKey = m.cached.key /\ m.previousFit = Map!Fitted(m.cached.key, m.width)
       /\ m.view[1] = "fitted" => m.view = m.previousFit

\* The layout that is under way, or there, is of the frame f.
Follows(m, f) ==
  LET key == Map!structure(Map!serviceMapModel(f)) IN
  /\ m.worker # NoLayout => m.worker.key = key
  /\ m.worker = NoLayout /\ ~m.error => m.cached # NoLayout /\ m.cached.key = key

MapOk(m, f) == IsMap(m) /\ Fits(m) /\ Follows(m, f)

MapInv == v1 \in Maps /\ MapOk(v2, v1)

LEMMA LaidKeys ==
  ASSUME NEW f \in Maps
  PROVE  /\ Laid(f) # NoLayout /\ Laid(f).key # NoLayout
         /\ Laid(f).key = Map!structure(Laid(f).model)
         /\ Laid(f).key = Map!structure(Map!serviceMapModel(f))
<1> PICK model, key : model = Map!serviceMapModel(f) /\ key = Map!structure(model)
  OBVIOUS
<1>1. NoLayout # key /\ NoLayout # [key |-> key, model |-> model]
  BY MapsAssumption
<1>2. Laid(f) = [key |-> key, model |-> model]
  BY DEF Laid
<1> QED  BY <1>1, <1>2

LEMMA MapHolds == MapInv => Map!DrawnIsLaidOut /\ Map!FitFollows
<1> SUFFICES ASSUME MapInv  PROVE Map!DrawnIsLaidOut /\ Map!FitFollows
  OBVIOUS
<1>1. v2.cached # NoLayout => v2.cached.key = Map!structure(v2.cached.model)
  BY LaidKeys DEF MapInv, MapOk, IsMap
<1> PICK key, model : model = Map!serviceMapModel(v1) /\ key = Map!structure(model)
  OBVIOUS
<1>2. /\ v2.worker # NoLayout => v2.worker.key = key
      /\ v2.worker = NoLayout /\ ~v2.error => v2.cached # NoLayout /\ v2.cached.key = key
  BY DEF MapInv, MapOk, Follows
<1>3. Map!Model = model
  BY DEF Map!Model
<1>4. Map!Drawn = IF v2.cached = NoLayout THEN NoLayout
                  ELSE IF v2.cached.key = key THEN model ELSE v2.cached.model
  BY <1>3 DEF Map!Drawn
<1>5. Map!Drawn # NoLayout => v2.cached.key = Map!structure(Map!Drawn)
  BY <1>1, <1>4
<1>6. Map!DrawnIsLaidOut
  BY <1>2, <1>3, <1>4, <1>5 DEF Map!DrawnIsLaidOut
<1>7. Map!FitFollows
  BY DEF MapInv, MapOk, Fits, Map!FitFollows, Map!Fit, Map!CachedKey
<1> QED  BY <1>6, <1>7

\* A map with some of its fields new.
Mapped(m, width, cached, worker, error, view, fittedKey, previousFit) ==
  [width |-> width, cached |-> cached, worker |-> worker, error |-> error,
   view |-> view, fittedKey |-> fittedKey, previousFit |-> previousFit,
   hover |-> m.hover, drag |-> m.drag, suppress |-> m.suppress, opened |-> m.opened]

IsMapped(t, m, width, cached, worker, error, view, fittedKey, previousFit) ==
  /\ t = [width |-> t.width, cached |-> t.cached, worker |-> t.worker, error |-> t.error,
          view |-> t.view, fittedKey |-> t.fittedKey, previousFit |-> t.previousFit,
          hover |-> t.hover, drag |-> t.drag, suppress |-> t.suppress, opened |-> t.opened]
  /\ t.width = width /\ t.cached = cached /\ t.worker = worker /\ t.error = error
  /\ t.view = view /\ t.fittedKey = fittedKey /\ t.previousFit = previousFit
  /\ t.drag = m.drag /\ t.suppress = m.suppress /\ t.opened = m.opened

LEMMA MappedIs ==
  ASSUME NEW m, NEW width, NEW cached, NEW worker, NEW error, NEW view, NEW fittedKey, NEW previousFit,
         NEW t, t = Mapped(m, width, cached, worker, error, view, fittedKey, previousFit)
  PROVE  IsMapped(t, m, width, cached, worker, error, view, fittedKey, previousFit)
BY DEF Mapped, IsMapped

\* What the layout effect does, on the same drag.
SameDrag(m, t) == t.drag = m.drag /\ t.suppress = m.suppress /\ t.opened = m.opened

LEMMA Refitted ==
  ASSUME NEW m, IsMap(m), m.cached # NoLayout,
         m.fittedKey # m.cached.key \/ (m.view[1] = "fitted" => m.view = m.previousFit),
         NEW t, t = Map!Refit(m, m.cached.key)
  PROVE  IsMap(t) /\ Fits(t) /\ SameDrag(m, t) /\ t.cached = m.cached /\ t.worker = m.worker /\ t.error = m.error
<1> PICK f \in Maps : m.cached = Laid(f)
  BY DEF IsMap
<1> PICK key : key = m.cached.key
  OBVIOUS
<1>1. key # NoLayout
  BY LaidKeys
<1> PICK fit : fit = Map!Fitted(key, m.width)
  OBVIOUS
<1> PICK view : view = IF key # m.fittedKey \/ m.view = m.previousFit THEN fit ELSE m.view
  OBVIOUS
<1>2. t = [m EXCEPT !.view = view, !.fittedKey = key, !.previousFit = fit]
  BY <1>1 DEF Map!Refit
<1>3. m = [width |-> m.width, cached |-> m.cached, worker |-> m.worker, error |-> m.error,
           view |-> m.view, fittedKey |-> m.fittedKey, previousFit |-> m.previousFit,
           hover |-> m.hover, drag |-> m.drag, suppress |-> m.suppress, opened |-> m.opened]
  BY DEF IsMap
<1>4. t = Mapped(m, m.width, m.cached, m.worker, m.error, view, key, fit)
  BY ONLY <1>2, <1>3 DEF Mapped
<1>5. IsMapped(t, m, m.width, m.cached, m.worker, m.error, view, key, fit)
  BY ONLY <1>4, MappedIs
<1>6. IsMap(t) /\ SameDrag(m, t)
  BY <1>5 DEF IsMapped, IsMap, SameDrag
<1>7. view[1] = "fitted" => view = fit
  OBVIOUS
<1>8. Fits(t)
  BY <1>5, <1>7 DEF IsMapped, Fits
<1> QED  BY <1>5, <1>6, <1>8 DEF IsMapped

LEMMA LayoutOk ==
  ASSUME NEW m, IsMap(m), Fits(m), NEW f \in Maps, NEW t \in Map!Layout(m, Map!serviceMapModel(f))
  PROVE  MapOk(t, f) /\ SameDrag(m, t)
<1> PICK model, key : model = Map!serviceMapModel(f) /\ key = Map!structure(model)
  OBVIOUS
<1> PICK laid : laid = [key |-> key, model |-> model]
  OBVIOUS
<1>1. laid = Laid(f) /\ laid # NoLayout /\ key # NoLayout /\ laid.key = key
  BY LaidKeys DEF Laid
<1> PICK c : c = [m EXCEPT !.error = FALSE, !.worker = NoLayout]
  OBVIOUS
<1>2. m = [width |-> m.width, cached |-> m.cached, worker |-> m.worker, error |-> m.error,
           view |-> m.view, fittedKey |-> m.fittedKey, previousFit |-> m.previousFit,
           hover |-> m.hover, drag |-> m.drag, suppress |-> m.suppress, opened |-> m.opened]
  BY DEF IsMap
<1>3. c = Mapped(m, m.width, m.cached, NoLayout, FALSE, m.view, m.fittedKey, m.previousFit)
  BY ONLY <1>2, c = [m EXCEPT !.error = FALSE, !.worker = NoLayout] DEF Mapped
<1>4. IsMapped(c, m, m.width, m.cached, NoLayout, FALSE, m.view, m.fittedKey, m.previousFit)
  <2> PICK error : error = FALSE
    OBVIOUS
  <2>1. c = Mapped(m, m.width, m.cached, NoLayout, error, m.view, m.fittedKey, m.previousFit)
    BY <1>3
  <2>2. IsMapped(c, m, m.width, m.cached, NoLayout, error, m.view, m.fittedKey, m.previousFit)
    BY ONLY <2>1, MappedIs
  <2> QED  BY <2>2
<1>5. \/ t = Map!Refit([c EXCEPT !.cached = laid], key)
      \/ t = [c EXCEPT !.worker = laid]
      \/ t = [c EXCEPT !.error = TRUE]
  BY DEF Map!Layout
<1>6. /\ c = [width |-> c.width, cached |-> c.cached, worker |-> c.worker, error |-> c.error,
              view |-> c.view, fittedKey |-> c.fittedKey, previousFit |-> c.previousFit,
              hover |-> c.hover, drag |-> c.drag, suppress |-> c.suppress, opened |-> c.opened]
      /\ c.width = m.width /\ c.cached = m.cached /\ c.worker = NoLayout /\ c.error = FALSE
      /\ c.view = m.view /\ c.fittedKey = m.fittedKey /\ c.previousFit = m.previousFit
      /\ c.drag = m.drag /\ c.suppress = m.suppress /\ c.opened = m.opened
  BY <1>4 DEF IsMapped
<1>7. ASSUME t = Map!Refit([c EXCEPT !.cached = laid], key)  PROVE MapOk(t, f) /\ SameDrag(m, t)
  <2> PICK d : d = [c EXCEPT !.cached = laid]
    OBVIOUS
  <2>1. d = Mapped(c, c.width, laid, c.worker, c.error, c.view, c.fittedKey, c.previousFit)
    BY ONLY <1>6, d = [c EXCEPT !.cached = laid] DEF Mapped
  <2>2. IsMapped(d, c, c.width, laid, c.worker, c.error, c.view, c.fittedKey, c.previousFit)
    BY ONLY <2>1, MappedIs
  <2>3. IsMap(d) /\ d.cached = laid /\ SameDrag(m, d) /\ d.worker = NoLayout /\ d.error = FALSE
    BY <1>1, <1>6, <2>2 DEF IsMap, IsMapped, SameDrag
  <2>4. d.fittedKey # d.cached.key \/ (d.view[1] = "fitted" => d.view = d.previousFit)
    BY <1>1, <1>6, <2>2 DEF IsMapped, Fits
  <2>5. t = Map!Refit(d, d.cached.key) /\ d.cached # NoLayout
    BY <1>1, <1>7, <2>3
  <2>6. IsMap(t) /\ Fits(t) /\ SameDrag(d, t) /\ t.cached = d.cached /\ t.worker = d.worker /\ t.error = d.error
    BY ONLY <2>3, <2>4, <2>5, Refitted
  <2>7. Follows(t, f)
    BY <1>1, <2>3, <2>6 DEF Follows
  <2> QED  BY <2>3, <2>6, <2>7 DEF MapOk, SameDrag
<1>8. ASSUME t = [c EXCEPT !.worker = laid]  PROVE MapOk(t, f) /\ SameDrag(m, t)
  <2>1. t = Mapped(c, c.width, c.cached, laid, c.error, c.view, c.fittedKey, c.previousFit)
    BY ONLY <1>6, <1>8 DEF Mapped
  <2>2. IsMapped(t, c, c.width, c.cached, laid, c.error, c.view, c.fittedKey, c.previousFit)
    BY ONLY <2>1, MappedIs
  <2>3. IsMap(t) /\ SameDrag(m, t)
    BY <1>1, <1>6, <2>2 DEF IsMap, IsMapped, SameDrag
  <2>4. Fits(t) /\ Follows(t, f)
    BY <1>1, <1>6, <2>2 DEF IsMapped, Fits, Follows
  <2> QED  BY <2>3, <2>4 DEF MapOk
<1>9. ASSUME t = [c EXCEPT !.error = TRUE]  PROVE MapOk(t, f) /\ SameDrag(m, t)
  <2> PICK error : error = TRUE
    OBVIOUS
  <2>1. t = Mapped(c, c.width, c.cached, c.worker, error, c.view, c.fittedKey, c.previousFit)
    BY ONLY <1>6, <1>9, error = TRUE DEF Mapped
  <2>2. IsMapped(t, c, c.width, c.cached, c.worker, error, c.view, c.fittedKey, c.previousFit)
    BY ONLY <2>1, MappedIs
  <2>5. error \in BOOLEAN
    OBVIOUS
  <2>3. IsMap(t) /\ SameDrag(m, t)
    BY ONLY <1>6, <2>2, <2>5, IsMap(m) DEF IsMap, IsMapped, SameDrag
  <2>4. Fits(t) /\ Follows(t, f)
    BY <1>6, <2>2 DEF IsMapped, Fits, Follows
  <2> QED  BY <2>3, <2>4 DEF MapOk
<1> QED  BY <1>5, <1>7, <1>8, <1>9

LEMMA MapStart == Map!MapInit => MapInv
<1> SUFFICES ASSUME v1 \in Maps, NEW width \in Widths,
       NEW m \in Map!Layout([width |-> width, cached |-> NoLayout, worker |-> NoLayout, error |-> FALSE,
                             view |-> Map!Unlaid, fittedKey |-> NoLayout, previousFit |-> Map!Unlaid,
                             hover |-> NoService, drag |-> "none", suppress |-> FALSE, opened |-> FALSE],
                            Map!serviceMapModel(v1)),
       v2 = m
    PROVE  MapInv
  BY DEF Map!MapInit
<1> PICK fit : fit = Map!Unlaid
  OBVIOUS
<1> PICK k : k = [width |-> width, cached |-> NoLayout, worker |-> NoLayout, error |-> FALSE,
                  view |-> fit, fittedKey |-> NoLayout, previousFit |-> fit,
                  hover |-> NoService, drag |-> "none", suppress |-> FALSE, opened |-> FALSE]
  OBVIOUS
<1>1. /\ k = [width |-> k.width, cached |-> k.cached, worker |-> k.worker, error |-> k.error,
              view |-> k.view, fittedKey |-> k.fittedKey, previousFit |-> k.previousFit,
              hover |-> k.hover, drag |-> k.drag, suppress |-> k.suppress, opened |-> k.opened]
      /\ k.cached = NoLayout /\ k.worker = NoLayout /\ k.fittedKey = NoLayout
      /\ k.error = FALSE /\ k.suppress = FALSE /\ k.opened = FALSE
  BY ONLY k = [width |-> width, cached |-> NoLayout, worker |-> NoLayout, error |-> FALSE,
                  view |-> fit, fittedKey |-> NoLayout, previousFit |-> fit,
                  hover |-> NoService, drag |-> "none", suppress |-> FALSE, opened |-> FALSE]
<1>2. IsMap(k) /\ Fits(k)
  BY <1>1 DEF IsMap, Fits
<1>3. m \in Map!Layout(k, Map!serviceMapModel(v1))
  OBVIOUS
<1>4. MapOk(m, v1)
  BY ONLY <1>2, <1>3, v1 \in Maps, LayoutOk
<1> QED  BY <1>4 DEF MapInv

\* What the reader does: the view and the drag, on the same layout.
Looked(m, view, hover, drag, suppress, opened) ==
  [width |-> m.width, cached |-> m.cached, worker |-> m.worker, error |-> m.error,
   view |-> view, fittedKey |-> m.fittedKey, previousFit |-> m.previousFit,
   hover |-> hover, drag |-> drag, suppress |-> suppress, opened |-> opened]

IsLooked(t, m, view, suppress, opened) ==
  /\ IsMapped(t, t, m.width, m.cached, m.worker, m.error, view, m.fittedKey, m.previousFit)
  /\ t.suppress = suppress /\ t.opened = opened

LEMMA LookedIs ==
  ASSUME NEW m, NEW view, NEW hover, NEW drag, NEW suppress, NEW opened,
         NEW t, t = Looked(m, view, hover, drag, suppress, opened)
  PROVE  IsLooked(t, m, view, suppress, opened)
BY DEF Looked, IsLooked, IsMapped

LEMMA MapStep == MapInv /\ Map!MapNext => MapInv' /\ Map!DragOpensNothing
<1> SUFFICES ASSUME MapInv, Map!MapNext  PROVE MapInv' /\ Map!DragOpensNothing
  OBVIOUS
<1> PICK m, t, f, g : m = v2 /\ t = v2' /\ f = v1 /\ g = v1'
  OBVIOUS
<1>0. f \in Maps /\ MapOk(m, f) /\ IsMap(m) /\ Fits(m) /\ Follows(m, f)
  BY DEF MapInv, MapOk
<1>g. g \in Maps /\ MapOk(t, g) /\ (~m.opened /\ t.opened => m.drag # "moved") => MapInv' /\ Map!DragOpensNothing
  BY DEF MapInv, Map!DragOpensNothing
<1> DEFINE good == g \in Maps /\ MapOk(t, g) /\ (~m.opened /\ t.opened => m.drag # "moved")
<1>m. m = [width |-> m.width, cached |-> m.cached, worker |-> m.worker, error |-> m.error,
           view |-> m.view, fittedKey |-> m.fittedKey, previousFit |-> m.previousFit,
           hover |-> m.hover, drag |-> m.drag, suppress |-> m.suppress, opened |-> m.opened]
      /\ m.error \in BOOLEAN /\ m.suppress \in BOOLEAN /\ m.opened \in BOOLEAN
  BY <1>0 DEF IsMap
<1>r. ASSUME g = f, NEW width, NEW view, view = m.view \/ view[1] # "fitted" \/ (m.cached # NoLayout /\ view = Map!Fit(m)),
             width = m.width,
             IsMapped(t, t, width, m.cached, m.worker, m.error, view, m.fittedKey, m.previousFit),
             t.suppress \in BOOLEAN, t.opened \in BOOLEAN,
             ~m.opened /\ t.opened => m.drag # "moved"
      PROVE  good
  <2>1. IsMap(t)
    BY <1>0, <1>r DEF IsMapped, IsMap
  <2>2. Follows(t, f)
    BY <1>0, <1>r DEF IsMapped, Follows
  <2>3. Fits(t)
    BY <1>0, <1>r DEF IsMapped, Fits, Map!Fit, Map!CachedKey
  <2> QED  BY <1>0, <1>r, <2>1, <2>2, <2>3 DEF MapOk
<1>1. ASSUME NEW h \in Maps, Map!refresh(h)  PROVE good
  <2>1. g = h
    BY <1>1 DEF Map!refresh
  <2>2. CASE Map!structure(Map!serviceMapModel(h)) = Map!structure(Map!Model)
    <3>1. t = m
      BY <1>1, <2>2 DEF Map!refresh
    <3>2. Map!structure(Map!serviceMapModel(h)) = Map!structure(Map!serviceMapModel(f))
      BY <2>2 DEF Map!Model
    <3> QED  BY <1>0, <2>1, <3>1, <3>2 DEF MapOk, Follows
  <2>3. CASE Map!structure(Map!serviceMapModel(h)) # Map!structure(Map!Model)
    <3>1. t \in Map!Layout(m, Map!serviceMapModel(h))
      BY <1>1, <2>3 DEF Map!refresh
    <3>2. MapOk(t, h) /\ SameDrag(m, t)
      BY ONLY <1>0, <3>1, h \in Maps, LayoutOk
    <3> QED  BY <2>1, <3>2 DEF SameDrag
  <2> QED  BY <2>2, <2>3
<1>2. ASSUME Map!workerAnswers  PROVE good
  <2> PICK w : w = m.worker
    OBVIOUS
  <2> PICK d : d = [m EXCEPT !.worker = NoLayout, !.cached = w]
    OBVIOUS
  <2>1. w # NoLayout /\ t = Map!Refit(d, w.key) /\ g = f
    BY <1>2 DEF Map!workerAnswers
  <2>2. d = Mapped(m, m.width, w, NoLayout, m.error, m.view, m.fittedKey, m.previousFit)
    BY ONLY <1>m, d = [m EXCEPT !.worker = NoLayout, !.cached = w] DEF Mapped
  <2>3. IsMapped(d, m, m.width, w, NoLayout, m.error, m.view, m.fittedKey, m.previousFit)
    BY ONLY <2>2, MappedIs
  <2>4. PICK h \in Maps : w = Laid(h)
    BY <1>0, <2>1 DEF IsMap
  <2>5. IsMap(d) /\ SameDrag(m, d) /\ d.cached = w /\ d.worker = NoLayout
    BY <1>0, <2>3, <2>4 DEF IsMapped, IsMap, SameDrag
  <2>6. w.key # NoLayout
    BY <2>4, LaidKeys
  <2>7. d.fittedKey # d.cached.key \/ (d.view[1] = "fitted" => d.view = d.previousFit)
    BY <1>0, <2>3, <2>6 DEF IsMapped, Fits
  <2>8. d.cached # NoLayout /\ t = Map!Refit(d, d.cached.key)
    BY <2>1, <2>5
  <2>9. IsMap(t) /\ Fits(t) /\ SameDrag(d, t) /\ t.cached = d.cached /\ t.worker = d.worker
    BY ONLY <2>5, <2>7, <2>8, Refitted
  <2>10. Follows(t, f)
    BY <1>0, <2>1, <2>5, <2>9 DEF Follows
  <2> QED  BY <1>0, <2>1, <2>5, <2>9, <2>10 DEF MapOk, SameDrag
<1>3. ASSUME Map!workerFails  PROVE good
  <2> PICK error : error = TRUE
    OBVIOUS
  <2>1. t = [m EXCEPT !.worker = NoLayout, !.error = error] /\ g = f
    BY <1>3 DEF Map!workerFails
  <2>2. t = Mapped(m, m.width, m.cached, NoLayout, error, m.view, m.fittedKey, m.previousFit)
    BY ONLY <1>m, <2>1 DEF Mapped
  <2>3. IsMapped(t, m, m.width, m.cached, NoLayout, error, m.view, m.fittedKey, m.previousFit)
    BY ONLY <2>2, MappedIs
  <2>4. error \in BOOLEAN
    OBVIOUS
  <2>5. IsMap(t) /\ Fits(t)
    BY ONLY <1>0, <2>3, <2>4 DEF IsMapped, IsMap, Fits
  <2>6. Follows(t, f)
    BY <2>3 DEF IsMapped, Follows
  <2> QED  BY <1>0, <2>1, <2>3, <2>5, <2>6 DEF MapOk, IsMapped
<1>4. ASSUME NEW width \in Widths, Map!resize(width)  PROVE good
  <2> PICK d : d = [m EXCEPT !.width = width]
    OBVIOUS
  <2>1. t = Map!Refit(d, Map!CachedKey(m)) /\ g = f
    BY <1>4 DEF Map!resize
  <2>2. d = Mapped(m, width, m.cached, m.worker, m.error, m.view, m.fittedKey, m.previousFit)
    BY ONLY <1>m, d = [m EXCEPT !.width = width] DEF Mapped
  <2>3. IsMapped(d, m, width, m.cached, m.worker, m.error, m.view, m.fittedKey, m.previousFit)
    BY ONLY <2>2, MappedIs
  <2>4. IsMap(d) /\ SameDrag(m, d) /\ d.cached = m.cached /\ d.worker = m.worker /\ d.error = m.error
    BY <1>0, <2>3 DEF IsMapped, IsMap, SameDrag
  <2>5. CASE m.cached = NoLayout
    <3> PICK fit : fit = Map!Fitted(NoLayout, d.width)
      OBVIOUS
    <3>1. t = [d EXCEPT !.previousFit = fit]
      BY <2>1, <2>5 DEF Map!CachedKey, Map!Refit
    <3>2. d = [width |-> d.width, cached |-> d.cached, worker |-> d.worker, error |-> d.error,
               view |-> d.view, fittedKey |-> d.fittedKey, previousFit |-> d.previousFit,
               hover |-> d.hover, drag |-> d.drag, suppress |-> d.suppress, opened |-> d.opened]
      BY <2>3 DEF IsMapped
    <3>3. t = Mapped(d, d.width, d.cached, d.worker, d.error, d.view, d.fittedKey, fit)
      BY ONLY <3>1, <3>2 DEF Mapped
    <3>4. IsMapped(t, d, d.width, d.cached, d.worker, d.error, d.view, d.fittedKey, fit)
      BY ONLY <3>3, MappedIs
    <3>5. IsMap(t) /\ SameDrag(m, t) /\ t.cached = m.cached /\ t.worker = m.worker /\ t.error = m.error
      BY ONLY <2>4, <3>4 DEF IsMapped, IsMap, SameDrag
    <3>6. Fits(t)
      BY <1>0, <2>3, <2>5, <3>4 DEF IsMapped, Fits
    <3>7. Follows(t, f)
      BY <1>0, <3>5 DEF Follows
    <3> QED  BY <1>0, <2>1, <3>5, <3>6, <3>7 DEF MapOk, SameDrag
  <2>6. CASE m.cached # NoLayout
    <3>1. d.cached # NoLayout /\ t = Map!Refit(d, d.cached.key)
      BY <2>1, <2>4, <2>6 DEF Map!CachedKey
    <3>2. d.fittedKey # d.cached.key \/ (d.view[1] = "fitted" => d.view = d.previousFit)
      BY <1>0, <2>3, <2>6 DEF IsMapped, Fits
    <3>3. IsMap(t) /\ Fits(t) /\ SameDrag(d, t) /\ t.cached = d.cached /\ t.worker = d.worker
          /\ t.error = d.error
      BY ONLY <2>4, <3>1, <3>2, Refitted
    <3>4. Follows(t, f)
      BY <1>0, <2>4, <3>3 DEF Follows
    <3> QED  BY <1>0, <2>1, <2>4, <3>3, <3>4 DEF MapOk, SameDrag
  <2> QED  BY <2>5, <2>6
<1>v. ASSUME g = f, NEW view, view = m.view \/ view[1] # "fitted" \/ (m.cached # NoLayout /\ view = Map!Fit(m)),
             NEW suppress \in BOOLEAN, NEW opened \in BOOLEAN,
             IsLooked(t, m, view, suppress, opened),
             ~m.opened /\ opened => m.drag # "moved"
      PROVE  good
  <2>1. IsMapped(t, t, m.width, m.cached, m.worker, m.error, view, m.fittedKey, m.previousFit)
        /\ t.suppress = suppress /\ t.opened = opened
    BY <1>v DEF IsLooked
  <2> HIDE DEF good
  <2>2. t.suppress \in BOOLEAN /\ t.opened \in BOOLEAN /\ (~m.opened /\ t.opened => m.drag # "moved")
    BY <1>v, <2>1
  <2> PICK width : width = m.width
    OBVIOUS
  <2>3. IsMapped(t, t, width, m.cached, m.worker, m.error, view, m.fittedKey, m.previousFit)
    BY <2>1
  <2> QED  BY ONLY <1>r, <1>v, <2>2, <2>3, width = m.width
<1> HIDE DEF good
<1>s. ASSUME g = f, NEW view, t = [m EXCEPT !.view = view],
             view[1] # "fitted" \/ (m.cached # NoLayout /\ view = Map!Fit(m))
      PROVE  good
  <2>1. t = Looked(m, view, m.hover, m.drag, m.suppress, m.opened)
    BY ONLY <1>m, <1>s DEF Looked
  <2>2. IsLooked(t, m, view, m.suppress, m.opened)
    BY ONLY <2>1, LookedIs
  <2> QED  BY ONLY <1>m, <1>v, <1>s, <2>2
<1>5. ASSUME NEW b \in BOOLEAN, Map!fit(b)  PROVE good
  <2> PICK view : view = IF m.view[1] = "overview" \/ ~b THEN Map!Fit(m)
                         ELSE Map!Overview(Map!CachedKey(m), m.width)
    OBVIOUS
  <2>1. t = [m EXCEPT !.view = view] /\ g = f /\ m.cached # NoLayout
    BY <1>5 DEF Map!fit
  <2>2. view[1] # "fitted" \/ view = Map!Fit(m)
    BY DEF Map!Overview
  <2> QED  BY <1>s, <2>1, <2>2
<1>6. ASSUME NEW b \in BOOLEAN, Map!wheel(b)  PROVE good
  <2> PICK view : view = IF b THEN Map!Fit(m) ELSE Map!Moved
    OBVIOUS
  <2>1. t = [m EXCEPT !.view = view] /\ g = f /\ m.cached # NoLayout
    BY <1>6 DEF Map!wheel
  <2>2. view[1] # "fitted" \/ view = Map!Fit(m)
    BY DEF Map!Moved
  <2> QED  BY <1>s, <2>1, <2>2
<1>d. ASSUME g = f, NEW hover, NEW drag, NEW suppress \in BOOLEAN, NEW opened \in BOOLEAN,
             ~m.opened /\ opened => m.drag # "moved",
             t = Looked(m, m.view, hover, drag, suppress, opened)
      PROVE  good
  <2> PICK view : view = m.view
    OBVIOUS
  <2>1. t = Looked(m, view, hover, drag, suppress, opened)
    BY <1>d
  <2>2. IsLooked(t, m, view, suppress, opened)
    BY ONLY <2>1, LookedIs
  <2> QED  BY ONLY <1>v, <1>d, <2>2, view = m.view
<1>7. ASSUME Map!pointerDown  PROVE good
  <2> PICK no : no = FALSE
    OBVIOUS
  <2>1. g = f /\ t = [m EXCEPT !.suppress = no, !.drag = "held", !.opened = no]
    BY <1>7 DEF Map!pointerDown
  <2>2. t = Looked(m, m.view, m.hover, "held", no, no)
    BY ONLY <1>m, <2>1 DEF Looked
  <2>3. no \in BOOLEAN /\ ~no
    OBVIOUS
  <2> PICK held : held = "held"
    OBVIOUS
  <2>4. t = Looked(m, m.view, m.hover, held, no, no)
    BY <2>2
  <2> QED  BY ONLY <1>d, <2>1, <2>3, <2>4
<1>8. ASSUME Map!pointerMove  PROVE good
  <2> PICK view : view = Map!Moved
    OBVIOUS
  <2> PICK drag : drag = "moved"
    OBVIOUS
  <2>1. g = f /\ t = [m EXCEPT !.drag = drag, !.view = view]
    BY <1>8 DEF Map!pointerMove
  <2>2. t = Looked(m, view, m.hover, drag, m.suppress, m.opened)
    BY ONLY <1>m, <2>1 DEF Looked
  <2>3. IsLooked(t, m, view, m.suppress, m.opened)
    BY ONLY <2>2, LookedIs
  <2>4. view[1] # "fitted"
    BY DEF Map!Moved
  <2> QED  BY ONLY <1>m, <1>v, <2>1, <2>3, <2>4
<1>9. ASSUME Map!pointerCancel  PROVE good
  <2> PICK drag, no : drag = "none" /\ no = FALSE
    OBVIOUS
  <2>1. g = f /\ t = [m EXCEPT !.drag = drag, !.suppress = no]
    BY <1>9 DEF Map!pointerCancel
  <2>2. t = Looked(m, m.view, m.hover, drag, no, m.opened)
    BY ONLY <1>m, <2>1 DEF Looked
  <2>3. no \in BOOLEAN
    OBVIOUS
  <2> QED  BY ONLY <1>m, <1>d, <2>1, <2>2, <2>3
\* A click opens a service only where no drag has ended.
<1>c. ASSUME g = f, NEW r, NEW drag, NEW suppress \in BOOLEAN, suppress \/ m.drag # "moved",
             r = Looked(m, m.view, m.hover, drag, suppress, m.opened),
             t = r \/ t = Map!Select(r)
      PROVE  good
  <2>1. /\ r = [width |-> m.width, cached |-> m.cached, worker |-> m.worker, error |-> m.error,
                view |-> m.view, fittedKey |-> m.fittedKey, previousFit |-> m.previousFit,
                hover |-> m.hover, drag |-> drag, suppress |-> suppress, opened |-> m.opened]
        /\ r.suppress = suppress
    BY ONLY <1>c DEF Looked
  <2>2. CASE t = r
    <3>1. t = Looked(m, m.view, m.hover, drag, suppress, m.opened)
      BY <1>c, <2>2
    <3> QED  BY ONLY <1>m, <1>c, <1>d, <3>1
  <2>3. CASE t = Map!Select(r) /\ suppress
    <3> PICK no : no = FALSE
      OBVIOUS
    <3>1. t = [r EXCEPT !.suppress = no]
      BY <2>1, <2>3 DEF Map!Select
    <3>2. t = Looked(m, m.view, m.hover, drag, no, m.opened)
      BY ONLY <2>1, <3>1 DEF Looked
    <3>3. no \in BOOLEAN
      OBVIOUS
    <3> QED  BY ONLY <1>m, <1>c, <1>d, <3>2, <3>3
  <2>4. CASE t = Map!Select(r) /\ ~suppress
    <3> PICK yes : yes = TRUE
      OBVIOUS
    <3>1. t = [r EXCEPT !.opened = yes]
      BY <2>1, <2>4 DEF Map!Select
    <3>2. t = Looked(m, m.view, m.hover, drag, suppress, yes)
      BY ONLY <2>1, <3>1 DEF Looked
    <3>3. yes \in BOOLEAN /\ m.drag # "moved"
      BY <1>c, <2>4
    <3> QED  BY ONLY <1>c, <1>d, <3>2, <3>3
  <2> QED  BY <1>c, <2>2, <2>3, <2>4
<1>10. ASSUME NEW onCard \in BOOLEAN, Map!pointerUp(onCard)  PROVE good
  <2> PICK drag, suppress : drag = "none" /\ suppress = (m.drag = "moved")
    OBVIOUS
  <2> PICK r : r = [m EXCEPT !.suppress = suppress, !.drag = drag]
    OBVIOUS
  <2>1. g = f /\ (t = r \/ t = Map!Select(r))
    BY <1>10 DEF Map!pointerUp
  <2>2. r = Looked(m, m.view, m.hover, drag, suppress, m.opened)
    BY ONLY <1>m, r = [m EXCEPT !.suppress = suppress, !.drag = drag] DEF Looked
  <2>3. suppress \in BOOLEAN /\ (suppress \/ m.drag # "moved")
    OBVIOUS
  <2> QED  BY ONLY <1>c, <2>1, <2>2, <2>3
<1>11. ASSUME Map!enter  PROVE good
  <2> PICK no : no = FALSE
    OBVIOUS
  <2> PICK r : r = [m EXCEPT !.suppress = no]
    OBVIOUS
  <2>1. g = f /\ t = Map!Select(r) /\ m.drag = "none"
    BY <1>11 DEF Map!enter
  <2>2. r = Looked(m, m.view, m.hover, m.drag, no, m.opened)
    BY ONLY <1>m, r = [m EXCEPT !.suppress = no] DEF Looked
  <2>3. no \in BOOLEAN /\ m.drag # "moved"
    BY <2>1
  <2> QED  BY ONLY <1>c, <2>1, <2>2, <2>3
<1>12. ASSUME NEW s, Map!hover(s)  PROVE good
  <2>1. g = f /\ t = [m EXCEPT !.hover = s]
    BY <1>12 DEF Map!hover
  <2>2. t = Looked(m, m.view, s, m.drag, m.suppress, m.opened)
    BY ONLY <1>m, <2>1 DEF Looked
  <2> QED  BY ONLY <1>m, <1>d, <2>1, <2>2
<1>13. good
  BY <1>1, <1>2, <1>3, <1>4, <1>5, <1>6, <1>7, <1>8, <1>9, <1>10, <1>11, <1>12 DEF Map!MapNext
<1> QED  BY <1>g, <1>13 DEF good

-----------------------------------------------------------------------------
(* The edits: everything that writes a dashboard, for any number of its    *)
(* versions and of requests in flight.                                     *)

SpecType == [panels : SUBSET Nat, rest : SUBSET Nat]

CallType ==
  [kind : {"get", "reload", "replace", "patch", "restore"},
   by : {"page", "grid", "editor", "drawer"}, base : Nat, spec : SpecType, own : BOOLEAN,
   answer : {"pending", "ok", "conflict", "failed"}, got : Nat]

IsRestore(c) == c.kind = "restore"

(* What a request carries: until it is served, a save that replaces the    *)
(* spec was drawn over the version it names, and a restore names one; an   *)
(* answer is a version the server has.                                     *)
CallKnown(c, vs) ==
  /\ c \in CallType
  /\ Edits!Ok(c) => c.got \in 1..Len(vs)
  /\ IsRestore(c) => c.by = "drawer"
  /\ IsRestore(c) /\ c.answer = "pending" => c.base \in 1..Len(vs)
  /\ c.kind = "replace" /\ c.answer = "pending" => c.base \in 1..Len(vs) /\ c.spec = vs[c.base]

(* The requests in flight, while the drawer says whether one of them is a  *)
(* restore, and whether it was asked for in this session of the drawer,    *)
(* and the page must not go back behind floor.                             *)
CallsOk(cs, vs, submitting, asked, floor) ==
  /\ \A c \in cs : CallKnown(c, vs)
  /\ \A c, d \in cs : IsRestore(c) /\ IsRestore(d) => c = d
  /\ submitting <=> \E c \in cs : IsRestore(c)
  /\ \A c \in cs : IsRestore(c) /\ c.own => asked
  /\ \A c \in cs : c.kind = "get" /\ Edits!Ok(c) => c.got >= floor

PageType ==
  [version : 1..Len(v1), editing : BOOLEAN, dirty : BOOLEAN, conflict : BOOLEAN,
   floor : 1..Len(v1), behind : BOOLEAN]

(* The page is below the last answer only where nothing orders an answer.  *)
PageInv ==
  /\ v1 \in Seq(SpecType) /\ Len(v1) >= 1
  /\ v2 \in PageType
  /\ v2.version < v2.floor => v2.behind
  /\ v3 \in [open : BOOLEAN, base : Nat, saving : BOOLEAN,
                 conflict : {"none", "stale", "loading"}, replaced : BOOLEAN]
  /\ v3.open => v3.base \in 1..Len(v1)
  /\ v4 \in [open : BOOLEAN, submitting : BOOLEAN, success : BOOLEAN, asked : BOOLEAN]

(* A layout that is still unsaved beside an editor was drawn over the      *)
(* version the editor opened with: whatever else the page shows drops it.  *)
DraftInv == v3.open /\ v2.dirty /\ ~v3.replaced => v2.version = v3.base

EditsInv ==
  /\ PageInv /\ DraftInv /\ Edits!ConfirmsItsRestore
  /\ CallsOk(v5, v1, v4.submitting, v4.asked, v2.floor)

-----------------------------------------------------------------------------
(* What happens to the requests in flight.                                 *)

LEMMA CallSent ==
  ASSUME NEW cs, NEW vs, NEW submitting, NEW asked, NEW floor, CallsOk(cs, vs, submitting, asked, floor),
         NEW c, CallKnown(c, vs), c.answer = "pending", ~IsRestore(c)
  PROVE  CallsOk(cs \cup {c}, vs, submitting, asked, floor)
BY DEF CallsOk, Edits!Ok

LEMMA RestoreSent ==
  ASSUME NEW cs, NEW vs, NEW asked, NEW floor, CallsOk(cs, vs, FALSE, asked, floor),
         NEW c, CallKnown(c, vs), c.answer = "pending", IsRestore(c)
  PROVE  CallsOk(cs \cup {c}, vs, TRUE, TRUE, floor)
BY DEF CallsOk, Edits!Ok

LEMMA CallsDropped ==
  ASSUME NEW cs, NEW vs, NEW submitting, NEW asked, NEW floor, CallsOk(cs, vs, submitting, asked, floor),
         NEW ds \in SUBSET cs, \A c \in cs : IsRestore(c) => c \in ds
  PROVE  CallsOk(ds, vs, submitting, asked, floor)
BY DEF CallsOk

LEMMA RestoreDropped ==
  ASSUME NEW cs, NEW vs, NEW submitting, NEW asked, NEW floor, CallsOk(cs, vs, submitting, asked, floor),
         NEW c \in cs, IsRestore(c)
  PROVE  CallsOk(cs \ {c}, vs, FALSE, asked, floor)
BY DEF CallsOk

LEMMA NoSpecType == Edits!NoSpec \in SpecType
BY DEF Edits!NoSpec, SpecType

DisownedIn(cs, by) == {IF c.by = by THEN [c EXCEPT !.own = FALSE] ELSE c : c \in cs}

\* The drawer disowns its restore when it forgets that one was asked for.
LEMMA CallsDisowned ==
  ASSUME NEW cs, NEW vs, NEW submitting, NEW asked, NEW floor, CallsOk(cs, vs, submitting, asked, floor),
         NEW by, NEW after, by = "drawer" \/ after = asked
  PROVE  CallsOk(DisownedIn(cs, by), vs, submitting, after, floor)
<1> DEFINE less(c) == IF c.by = by THEN [c EXCEPT !.own = FALSE] ELSE c
           ds == {less(c) : c \in cs}
<1>1. ASSUME NEW c \in cs
      PROVE  /\ CallKnown(less(c), vs) /\ (IsRestore(less(c)) <=> IsRestore(c))
             /\ less(c).kind = c.kind /\ less(c).answer = c.answer /\ less(c).got = c.got
             /\ IsRestore(c) /\ less(c).own => after
  <2>1. c \in CallType /\ CallKnown(c, vs) /\ (IsRestore(c) /\ c.own => asked)
    BY DEF CallsOk, CallKnown
  <2> PICK d : d = less(c)
    OBVIOUS
  <2>2. /\ d \in CallType /\ d.kind = c.kind /\ d.answer = c.answer /\ d.got = c.got
        /\ d.base = c.base /\ d.spec = c.spec /\ d.by = c.by
        /\ d.own = (c.own /\ c.by # by)
    BY <2>1 DEF CallType
  <2>3. IsRestore(c) /\ d.own => after
    BY <2>1, <2>2 DEF CallKnown
  <2>4. CallKnown(d, vs) /\ (IsRestore(d) <=> IsRestore(c))
    BY <2>1, <2>2 DEF CallKnown, Edits!Ok, IsRestore
  <2> QED  BY <2>2, <2>3, <2>4
<1> HIDE DEF less
<1>2. CallsOk(ds, vs, submitting, after, floor)
  BY <1>1 DEF CallsOk, Edits!Ok
<1> QED  BY <1>2 DEF less, DisownedIn

LEMMA FloorRaised ==
  ASSUME NEW cs, NEW vs, NEW submitting, NEW asked, NEW floor, CallsOk(cs, vs, submitting, asked, floor),
         NEW to, \A c \in cs : c.kind # "get"
  PROVE  CallsOk(cs, vs, submitting, asked, to)
BY DEF CallsOk

LEMMA CallAnswered ==
  ASSUME NEW cs, NEW vs, NEW submitting, NEW asked, NEW floor, CallsOk(cs, vs, submitting, asked, floor),
         NEW c \in cs, NEW a \in {"ok", "conflict", "failed"}, NEW v \in Nat,
         a = "ok" => v \in 1..Len(vs) /\ v >= floor
  PROVE  CallsOk((cs \ {c}) \cup {[c EXCEPT !.answer = a, !.got = v, !.base = 0, !.spec = Edits!NoSpec]},
                 vs, submitting, asked, floor)
<1> PICK none : none = Edits!NoSpec
  OBVIOUS
<1> PICK d : d = [c EXCEPT !.answer = a, !.got = v, !.base = 0, !.spec = none]
  OBVIOUS
<1>0. none \in SpecType
  BY NoSpecType
<1>1. c \in CallType /\ CallKnown(c, vs) /\ (IsRestore(c) /\ c.own => asked)
  BY DEF CallsOk, CallKnown
<1>2. /\ d \in CallType /\ d.kind = c.kind /\ d.answer = a /\ d.got = v
      /\ d.by = c.by /\ d.own = c.own
  BY <1>0, <1>1 DEF CallType
<1>3. CallKnown(d, vs) /\ (IsRestore(d) <=> IsRestore(c))
  BY <1>1, <1>2 DEF CallKnown, Edits!Ok, IsRestore
<1>4. CallsOk((cs \ {c}) \cup {d}, vs, submitting, asked, floor)
  BY <1>1, <1>2, <1>3 DEF CallsOk, Edits!Ok
<1> QED  BY <1>4

LEMMA VersionAdded ==
  ASSUME NEW vs \in Seq(SpecType), NEW spec \in SpecType,
         NEW cs, NEW submitting, NEW asked, NEW floor, CallsOk(cs, vs, submitting, asked, floor)
  PROVE  /\ CallsOk(cs, Append(vs, spec), submitting, asked, floor)
         /\ Append(vs, spec) \in Seq(SpecType) /\ Len(Append(vs, spec)) = Len(vs) + 1
         /\ \A v \in 1..Len(vs) : Append(vs, spec)[v] = vs[v]
         /\ Append(vs, spec)[Len(vs) + 1] = spec
<1> PICK ws : ws = Append(vs, spec)
  OBVIOUS
<1>1. /\ ws \in Seq(SpecType) /\ Len(ws) = Len(vs) + 1
      /\ \A v \in 1..Len(vs) : ws[v] = vs[v]
      /\ ws[Len(vs) + 1] = spec
  BY AppendProperties
<1>2. 1..Len(vs) \subseteq 1..Len(ws)
  BY <1>1
<1>3. \A c \in cs : CallKnown(c, ws)
  BY <1>1, <1>2 DEF CallsOk, CallKnown
<1> QED  BY <1>1, <1>3 DEF CallsOk
-----------------------------------------------------------------------------
LEMMA EditsStart == Edits!EditsInit => EditsInv
<1> SUFFICES ASSUME Edits!EditsInit PROVE EditsInv
  OBVIOUS
<1>1. [panels |-> {1}, rest |-> {1}] \in SpecType
  BY DEF SpecType
<1>2. v1 \in Seq(SpecType) /\ Len(v1) = 1
  BY <1>1 DEF Edits!EditsInit
<1> QED
  BY <1>2 DEF Edits!EditsInit, EditsInv, PageType, PageInv, DraftInv, Edits!ConfirmsItsRestore,
              CallsOk, Edits!NoEditor

(* What the actions of the page, the editor and the drawer send is known.  *)
LEMMA CallMade ==
  ASSUME NEW cs, NEW vs, NEW submitting, NEW asked, NEW floor, CallsOk(cs, vs, submitting, asked, floor),
         NEW kind \in {"get", "reload", "replace", "patch"},
         NEW by \in {"page", "grid", "editor", "drawer"}, NEW base \in Nat, NEW spec \in SpecType,
         kind = "replace" => base \in 1..Len(vs) /\ spec = vs[base]
  PROVE  CallsOk(cs \cup {Edits!Call(kind, by, base, spec)}, vs, submitting, asked, floor)
<1> PICK c : c = Edits!Call(kind, by, base, spec)
  OBVIOUS
<1>1. CallKnown(c, vs) /\ c.answer = "pending" /\ ~IsRestore(c)
  BY DEF Edits!Call, CallKnown, CallType, IsRestore, Edits!Ok
<1> QED  BY <1>1, CallSent

LEMMA EditsKept ==
  ASSUME EditsInv, Edits!EditsNext
  PROVE  EditsInv'
<1> USE DEF PageType, PageInv, DraftInv, Edits!ConfirmsItsRestore
<1>t. /\ v1 \in Seq(SpecType) /\ Len(v1) \in Nat /\ Len(v1) >= 1
      /\ \A v \in 1..Len(v1) : v1[v] \in SpecType
      /\ CallsOk(v5, v1, v4.submitting, v4.asked, v2.floor)
      /\ v2.floor \in 1..Len(v1) /\ v2.version \in 1..Len(v1)
  BY LenProperties DEF EditsInv
<1>p. PageInv /\ DraftInv /\ Edits!ConfirmsItsRestore
  BY DEF EditsInv
<1>d. /\ \A by : CallsOk(Edits!Disowned(by), v1, v4.submitting, v4.asked, v2.floor)
      /\ CallsOk(Edits!Disowned("drawer"), v1, v4.submitting, FALSE, v2.floor)
  <2>1. ASSUME NEW by, NEW after, by = "drawer" \/ after = v4.asked
        PROVE  CallsOk(Edits!Disowned(by), v1, v4.submitting, after, v2.floor)
    <3>1. CallsOk(DisownedIn(v5, by), v1, v4.submitting, after, v2.floor)
      BY <1>t, <2>1, CallsDisowned
    <3> QED  BY <3>1 DEF Edits!Disowned, DisownedIn
  <2> PICK no : no = FALSE
    OBVIOUS
  <2>2. CallsOk(Edits!Disowned("drawer"), v1, v4.submitting, no, v2.floor)
    BY <2>1
  <2> QED  BY <2>1, <2>2
<1>1. CASE Edits!Refetch
  <2>1. v5' = v5 \cup {Edits!Call("get", "page", 0, Edits!NoSpec)}
    BY <1>1 DEF Edits!Refetch, Edits!Sends
  <2>2. CallsOk(v5', v1, v4.submitting, v4.asked, v2.floor)
    BY <1>t, <2>1, CallMade, NoSpecType
  <2> QED  BY <1>1, <1>p, <2>2 DEF Edits!Refetch, EditsInv
<1>2. CASE Edits!edit
  <2>1. CallsOk(v5', v1, v4.submitting, v4.asked, v2.floor)
    BY <1>2, <1>t, <1>d DEF Edits!edit
  <2>2. v2' = [v2 EXCEPT !.editing = ~@, !.conflict = FALSE]
        /\ UNCHANGED <<v1, v3, v4>>
    BY <1>2 DEF Edits!edit
  <2>3. /\ v2'.floor = v2.floor /\ v2'.version = v2.version /\ v2'.dirty = v2.dirty
        /\ PageInv'
    BY <1>p, <2>2
  <2> QED  BY <1>p, <2>1, <2>2, <2>3 DEF EditsInv
<1>3. CASE Edits!changeLayout
  <2>1. v2' = [v2 EXCEPT !.dirty = TRUE] /\ ~v3.open
        /\ UNCHANGED <<v1, v3, v4, v5>>
    BY <1>3 DEF Edits!changeLayout, Edits!Uncovered
  <2>2. v2'.floor = v2.floor /\ PageInv'
    BY <1>p, <2>1
  <2> QED  BY <1>p, <1>t, <2>1, <2>2 DEF EditsInv
<1>4. CASE Edits!GridSaves
  <2>1. UNCHANGED <<v1, v2, v3, v4>>
    BY <1>4 DEF Edits!GridSaves
  <2>2. CallsOk(v5', v1, v4.submitting, v4.asked, v2.floor)
    <3>1. CASE v2.dirty
      <4>1. v5' = v5 \cup {Edits!Call("replace", "grid", v2.version, Edits!Spec(v2.version))}
        BY <1>4, <3>1 DEF Edits!GridSaves, Edits!Sends
      <4>2. /\ Edits!Spec(v2.version) \in SpecType /\ Edits!Spec(v2.version) = v1[v2.version]
            /\ v2.version \in Nat
        BY <1>t DEF Edits!Spec
      <4> QED  BY <1>t, <4>1, <4>2, CallMade
    <3>2. CASE ~v2.dirty
      <4>1. v5' = v5 \cup {Edits!Call("patch", "grid", v2.version, Edits!NoSpec)}
        BY <1>4, <3>2 DEF Edits!GridSaves, Edits!Sends
      <4>2. v2.version \in Nat
        BY <1>t
      <4> QED  BY <1>t, <4>1, <4>2, CallMade, NoSpecType
    <3> QED  BY <3>1, <3>2
  <2> QED  BY <1>p, <2>1, <2>2 DEF EditsInv
<1>5. CASE Edits!loadLatest
  <2> DEFINE cs == {c \in Edits!Disowned("grid") : c.kind # "get"}
  <2>1. /\ v5' = cs \cup {Edits!Call("get", "page", 0, Edits!NoSpec)}
        /\ v2' = [v2 EXCEPT !.conflict = FALSE, !.editing = FALSE]
        /\ UNCHANGED <<v1, v3, v4>>
    BY <1>5 DEF Edits!loadLatest
  <2>2. CallsOk(cs, v1, v4.submitting, v4.asked, v2.floor)
    BY <1>d, CallsDropped DEF IsRestore
  <2> HIDE DEF cs
  <2>3. CallsOk(v5', v1, v4.submitting, v4.asked, v2.floor)
    BY <1>t, <2>1, <2>2, CallMade, NoSpecType
  <2>4. v2'.floor = v2.floor /\ v2'.version = v2.version /\ v2'.dirty = v2.dirty
        /\ PageInv'
    BY <1>p, <2>1
  <2> QED  BY <1>p, <2>1, <2>3, <2>4 DEF EditsInv
<1>6. CASE Edits!OpenEditor
  <2>1. v3' = [Edits!NoEditor EXCEPT !.open = TRUE, !.base = v2.version]
        /\ UNCHANGED <<v1, v2, v4, v5>>
    BY <1>6 DEF Edits!OpenEditor
  <2>2. v3' = [open |-> TRUE, base |-> v2.version, saving |-> FALSE,
                   conflict |-> "none", replaced |-> FALSE]
    BY <2>1 DEF Edits!NoEditor
  <2>3. v3'.base = v2.version /\ v2.version \in Nat
    BY <1>t, <2>2
  <2>4. v3' \in [open : BOOLEAN, base : Nat, saving : BOOLEAN,
                     conflict : {"none", "stale", "loading"}, replaced : BOOLEAN]
    BY <2>2, <2>3
  <2> QED  BY <1>p, <1>t, <2>1, <2>3, <2>4 DEF EditsInv
<1>7. CASE Edits!onClose
  <2>1. /\ v3' = Edits!NoEditor /\ v5' = Edits!Disowned("editor") /\ UNCHANGED <<v1, v2, v4>>
    BY <1>7 DEF Edits!onClose
  <2> QED  BY <1>p, <1>d, <2>1 DEF EditsInv, Edits!NoEditor
<1>8. CASE Edits!save
  <2>1. /\ UNCHANGED <<v1, v2, v4>> /\ v3' = [v3 EXCEPT !.saving = TRUE]
        /\ v3.open
    BY <1>8 DEF Edits!save
  <2>2. CallsOk(v5', v1, v4.submitting, v4.asked, v2.floor)
    <3>1. CASE Edits!SavesLayout
      <4>1. v5' = v5 \cup {Edits!Call("replace", "editor", v3.base, Edits!withLayout)}
        BY <1>8, <3>1 DEF Edits!save, Edits!Sends
      <4>2. v2.version = v3.base
        BY <1>p, <2>1, <3>1 DEF Edits!SavesLayout
      <4>3. /\ Edits!withLayout = v1[v3.base] /\ Edits!withLayout \in SpecType
            /\ v3.base \in Nat /\ v3.base \in 1..Len(v1)
        BY <1>t, <4>2 DEF Edits!withLayout, Edits!Spec, SpecType
      <4> QED  BY <1>t, <4>1, <4>2, <4>3, CallMade
    <3>2. CASE ~Edits!SavesLayout
      <4>1. v5' = v5 \cup {Edits!Call("patch", "editor", v3.base, Edits!NoSpec)}
        BY <1>8, <3>2 DEF Edits!save, Edits!Sends
      <4>2. v3.base \in Nat
        BY <1>p
      <4> QED  BY <1>t, <4>1, <4>2, CallMade, NoSpecType
    <3> QED  BY <3>1, <3>2
  <2>4. /\ v3'.open = v3.open /\ v3'.base = v3.base
        /\ v3'.replaced = v3.replaced /\ PageInv'
    BY <1>p, <2>1
  <2> QED  BY <1>p, <2>1, <2>2, <2>4 DEF EditsInv
<1>9. CASE Edits!reload
  <2>1. /\ v5' = v5 \cup {Edits!Call("reload", "editor", 0, Edits!NoSpec)}
        /\ v3' = [v3 EXCEPT !.conflict = "loading"] /\ UNCHANGED <<v1, v2, v4>>
    BY <1>9 DEF Edits!reload, Edits!Sends
  <2>2. CallsOk(v5', v1, v4.submitting, v4.asked, v2.floor)
    BY <1>t, <2>1, CallMade, NoSpecType
  <2>3. /\ v3'.open = v3.open /\ v3'.base = v3.base
        /\ v3'.replaced = v3.replaced /\ PageInv'
    BY <1>p, <2>1
  <2> QED  BY <1>p, <2>1, <2>2, <2>3 DEF EditsInv
<1>10. CASE Edits!OpenHistory
  <2>1. v4' = [v4 EXCEPT !.open = TRUE] /\ UNCHANGED <<v1, v2, v3, v5>>
    BY <1>10 DEF Edits!OpenHistory
  <2>2. /\ v4'.open /\ v4'.submitting = v4.submitting
        /\ v4'.success = v4.success /\ v4'.asked = v4.asked /\ PageInv'
    BY <1>p, <2>1
  <2> QED  BY <1>p, <1>t, <2>1, <2>2 DEF EditsInv
<1>11. ASSUME NEW open \in BOOLEAN, Edits!resetFeedback(open) PROVE EditsInv'
  <2>1. /\ v4' = [v4 EXCEPT !.open = open, !.success = FALSE, !.asked = FALSE]
        /\ v5' = Edits!Disowned("drawer") /\ UNCHANGED <<v1, v2, v3>>
    BY <1>11 DEF Edits!resetFeedback
  <2>2. v4'.submitting = v4.submitting /\ v4'.asked = FALSE /\ ~v4'.success /\ PageInv'
    BY <1>p, <2>1
  <2> QED  BY <1>p, <1>d, <2>1, <2>2 DEF EditsInv
<1>12. ASSUME NEW v \in 1..MaxVersion, Edits!submit(v) PROVE EditsInv'
  <2>1. /\ ~v4.submitting /\ v \in 1..Len(v1)
        /\ v5' = v5 \cup {Edits!Call("restore", "drawer", v, Edits!NoSpec)}
        /\ v4' = [v4 EXCEPT !.submitting = TRUE, !.success = FALSE, !.asked = TRUE]
        /\ UNCHANGED <<v1, v2, v3>>
    BY <1>12, <1>t, LenProperties DEF Edits!submit, Edits!Sends
  <2>2. CallsOk(v5', v1, TRUE, TRUE, v2.floor)
    <3> PICK c : c = Edits!Call("restore", "drawer", v, Edits!NoSpec)
      OBVIOUS
    <3>1. CallKnown(c, v1) /\ c.answer = "pending" /\ IsRestore(c)
      BY <2>1, NoSpecType DEF Edits!Call, CallKnown, CallType, IsRestore, Edits!Ok
    <3>2. v4.submitting = FALSE
      BY <1>p, <2>1
    <3>3. CallsOk(v5, v1, FALSE, v4.asked, v2.floor)
      BY <1>t, <3>2
    <3> QED  BY <2>1, <3>1, <3>3, RestoreSent
  <2>3. v4'.submitting = TRUE /\ v4'.asked = TRUE /\ ~v4'.success /\ PageInv'
    BY <1>p, <2>1
  <2> QED  BY <1>p, <2>1, <2>2, <2>3 DEF EditsInv
\* The server has one version more.
<1>w. ASSUME NEW spec \in SpecType, v1' = Append(v1, spec)
      PROVE  /\ \A cs, submitting, asked, floor :
                  CallsOk(cs, v1, submitting, asked, floor) => CallsOk(cs, v1', submitting, asked, floor)
             /\ v1' \in Seq(SpecType) /\ Len(v1') = Len(v1) + 1
  BY <1>t, <1>w, VersionAdded
<1>e. ASSUME NEW spec \in SpecType PROVE Edits!Edited(spec) \in SpecType
  BY <1>t DEF Edits!Edited, SpecType, Edits!Current
<1>s. ASSUME UNCHANGED <<v2, v3, v4>>, v1' \in Seq(SpecType),
             Len(v1') \in {Len(v1), Len(v1) + 1},
             CallsOk(v5', v1', v4.submitting, v4.asked, v2.floor)
      PROVE  EditsInv'
  <2>1. 1..Len(v1) \subseteq 1..Len(v1') /\ Len(v1') >= 1
    BY <1>t, <1>s
  <2> QED  BY <1>p, <1>s, <2>1 DEF EditsInv
<1>13. CASE Edits!OtherSaves
  <2> DEFINE spec == [Edits!Edited(Edits!Spec(Edits!Current)) EXCEPT !.rest = @ \cup {Edits!Current + 1}]
  <2>1. spec \in SpecType
    <3>1. Edits!Edited(Edits!Spec(Edits!Current)) \in SpecType
      BY <1>t, <1>e DEF Edits!Current, Edits!Spec
    <3> QED  BY <1>t, <3>1 DEF SpecType, Edits!Current
  <2>2. v1' = Append(v1, spec) /\ UNCHANGED <<v2, v3, v4, v5>>
    BY <1>13 DEF Edits!OtherSaves, Edits!Writes
  <2> HIDE DEF spec
  <2> QED  BY <1>t, <1>w, <1>s, <2>1, <2>2
<1>14. ASSUME NEW c \in v5, Edits!ServeCall(c) PROVE EditsInv'
  <2>0. /\ UNCHANGED <<v2, v3, v4>> /\ CallKnown(c, v1) /\ c \in CallType /\ c.answer = "pending"
    BY <1>14, <1>t DEF Edits!ServeCall, CallsOk, CallKnown
  <2>1. CASE Edits!ServeRead(c)
    <3>1. /\ v1' = v1
          /\ v5' = (v5 \ {c}) \cup {[c EXCEPT !.answer = "ok", !.got = Len(v1), !.base = 0, !.spec = Edits!NoSpec]}
      BY <2>1 DEF Edits!ServeRead, Edits!Answer, Edits!Current
    <3>2. Len(v1) \in Nat /\ Len(v1) \in 1..Len(v1) /\ Len(v1) >= v2.floor
      BY <1>t
    <3>3. CallsOk(v5', v1, v4.submitting, v4.asked, v2.floor)
      BY <1>t, <3>1, <3>2, CallAnswered
    <3> QED  BY <1>s, <1>t, <2>0, <3>1, <3>3
  <2>2. CASE Edits!ServeSave(c) /\ c.base = Edits!Current
    <3> DEFINE spec == Edits!Edited(IF c.kind = "replace" THEN c.spec ELSE Edits!Spec(Edits!Current))
    <3>1. /\ v1' = Append(v1, spec)
          /\ v5' = (v5 \ {c}) \cup {[c EXCEPT !.answer = "ok", !.got = Len(v1) + 1, !.base = 0, !.spec = Edits!NoSpec]}
      BY <2>2 DEF Edits!ServeSave, Edits!Answer, Edits!Writes, Edits!Current
    <3>2. spec \in SpecType
      BY <1>e, <1>t, <2>0 DEF Edits!Current, Edits!Spec, CallType
    <3> HIDE DEF spec
    <3>3. CallsOk(v5, v1', v4.submitting, v4.asked, v2.floor) /\ Len(v1') = Len(v1) + 1
          /\ v1' \in Seq(SpecType)
      BY <1>t, <1>w, <3>1, <3>2
    <3>4. Len(v1) + 1 \in Nat /\ Len(v1) + 1 \in 1..Len(v1') /\ Len(v1) + 1 >= v2.floor
      BY <1>t, <3>3
    <3>5. CallsOk(v5', v1', v4.submitting, v4.asked, v2.floor)
      BY <3>1, <3>3, <3>4, CallAnswered
    <3> QED  BY <1>s, <2>0, <3>3, <3>5
  <2>3. CASE Edits!ServeSave(c) /\ c.base # Edits!Current
    <3>1. /\ v1' = v1
          /\ v5' = (v5 \ {c}) \cup {[c EXCEPT !.answer = "conflict", !.got = 0, !.base = 0, !.spec = Edits!NoSpec]}
      BY <2>3 DEF Edits!ServeSave, Edits!Answer
    <3>2. CallsOk(v5', v1, v4.submitting, v4.asked, v2.floor)
      BY <1>t, <3>1, CallAnswered
    <3> QED  BY <1>s, <1>t, <2>0, <3>1, <3>2
  <2>4. CASE Edits!ServeRestore(c)
    <3>1. /\ v1' = Append(v1, v1[c.base]) /\ IsRestore(c)
          /\ v5' = (v5 \ {c}) \cup {[c EXCEPT !.answer = "ok", !.got = Len(v1) + 1, !.base = 0, !.spec = Edits!NoSpec]}
      BY <2>4 DEF Edits!ServeRestore, Edits!Answer, Edits!Writes, Edits!Current, Edits!Spec, IsRestore
    <3>2. v1[c.base] \in SpecType
      BY <1>t, <2>0, <3>1 DEF CallKnown
    <3>3. CallsOk(v5, v1', v4.submitting, v4.asked, v2.floor) /\ Len(v1') = Len(v1) + 1
          /\ v1' \in Seq(SpecType)
      BY <1>t, <1>w, <3>1, <3>2
    <3>4. Len(v1) + 1 \in Nat /\ Len(v1) + 1 \in 1..Len(v1') /\ Len(v1) + 1 >= v2.floor
      BY <1>t, <3>3
    <3>5. CallsOk(v5', v1', v4.submitting, v4.asked, v2.floor)
      BY <3>1, <3>3, <3>4, CallAnswered
    <3> QED  BY <1>s, <2>0, <3>3, <3>5
  <2> QED  BY <1>14, <2>1, <2>2, <2>3, <2>4 DEF Edits!ServeCall
<1>15. ASSUME NEW c \in v5, Edits!CallFails(c) PROVE EditsInv'
  <2>1. /\ UNCHANGED <<v1, v2, v3, v4>>
        /\ v5' = (v5 \ {c}) \cup {[c EXCEPT !.answer = "failed", !.got = 0, !.base = 0, !.spec = Edits!NoSpec]}
    BY <1>15 DEF Edits!CallFails, Edits!Answer
  <2>2. CallsOk(v5', v1, v4.submitting, v4.asked, v2.floor)
    BY <1>t, <2>1, CallAnswered
  <2> QED  BY <1>s, <1>t, <2>1, <2>2
\* The page shows version v, and perhaps confirms it.
<1>v. ASSUME NEW v \in 1..Len(v1)
      PROVE  /\ Edits!Shows(v) \in PageType
             /\ Edits!Shows(v).floor = v2.floor /\ Edits!Shows(v).version = v
             /\ Edits!Shows(v).dirty => v2.dirty /\ v = v2.version
             /\ [Edits!Shows(v) EXCEPT !.floor = v] \in
                  PageType
             /\ [Edits!Shows(v) EXCEPT !.floor = v].floor = v
             /\ [Edits!Shows(v) EXCEPT !.floor = v].version = v
             /\ [Edits!Shows(v) EXCEPT !.floor = v].dirty => v2.dirty /\ v = v2.version
             /\ Edits!ShowsUnordered(v) \in PageType
             /\ Edits!ShowsUnordered(v).floor = v2.floor /\ Edits!ShowsUnordered(v).version = v
             /\ Edits!ShowsUnordered(v).dirty => v2.dirty /\ v = v2.version
             /\ v < v2.floor => Edits!ShowsUnordered(v).behind
  <2> PICK shown, unordered : shown = Edits!Shows(v) /\ unordered = Edits!ShowsUnordered(v)
    OBVIOUS
  <2>1. /\ shown \in PageType /\ shown.floor = v2.floor /\ shown.version = v
        /\ shown.dirty => v2.dirty /\ v = v2.version
    BY <1>p DEF Edits!Shows
  <2>2. /\ [shown EXCEPT !.floor = v] \in PageType /\ [shown EXCEPT !.floor = v].floor = v
        /\ [shown EXCEPT !.floor = v].version = v /\ [shown EXCEPT !.floor = v].dirty = shown.dirty
    BY <2>1
  <2> PICK below : below = (v < v2.floor)
    OBVIOUS
  <2>3. unordered = [shown EXCEPT !.behind = below] /\ below \in BOOLEAN
    BY <1>p DEF Edits!ShowsUnordered
  <2>4. /\ unordered \in PageType /\ unordered.floor = shown.floor /\ unordered.version = shown.version
        /\ unordered.dirty = shown.dirty /\ unordered.behind = below
    BY ONLY <2>1, <2>3 DEF PageType
  <2> QED  BY <2>1, <2>2, <2>4
<1>16. ASSUME NEW c \in v5, Edits!ReceiveCall(c) PROVE EditsInv'
  <2>0. v1' = v1 /\ CallKnown(c, v1) /\ c \in CallType
    BY <1>16, <1>t DEF Edits!ReceiveCall, CallsOk, CallKnown
  <2>c. ~IsRestore(c) => CallsOk(v5 \ {c}, v1, v4.submitting, v4.asked, v2.floor)
    <3> PICK ds : ds = v5 \ {c}
      OBVIOUS
    <3>1. ds \in SUBSET v5 /\ (~IsRestore(c) => \A d \in v5 : IsRestore(d) => d \in ds)
      OBVIOUS
    <3> QED  BY <1>t, <3>1, CallsDropped
  <2>1. CASE Edits!ReceiveGet(c)
    <3>1. /\ ~IsRestore(c) /\ v2' = (IF Edits!Ok(c) THEN Edits!Shows(c.got) ELSE v2)
          /\ v5' = v5 \ {c} /\ UNCHANGED <<v3, v4>>
      BY <2>1 DEF Edits!ReceiveGet, IsRestore
    <3>0. Edits!Ok(c) => c.got \in 1..Len(v1) /\ c.got >= v2.floor
      BY <1>t, <2>0, <2>1 DEF CallsOk, CallKnown, Edits!ReceiveGet
    <3>2. /\ v2' \in PageType /\ (v2'.version < v2'.floor => v2'.behind)
          /\ v2'.floor = v2.floor /\ (v2'.dirty => v2.dirty /\ v2'.version = v2.version)
      <4>1. CASE Edits!Ok(c)
        <5>1. /\ v2' = Edits!Shows(c.got) /\ v2.floor \in Nat
              /\ c.got \in 1..Len(v1) /\ c.got >= v2.floor /\ c.got \in Nat
          BY <1>t, <3>0, <3>1, <4>1
        <5>2. v2' \in PageType /\ v2'.version = c.got /\ v2'.floor = v2.floor
              /\ (v2'.dirty => v2.dirty /\ v2'.version = v2.version)
          BY <1>v, <5>1
        <5>3. ~(c.got < v2.floor)
          BY ONLY <5>1
        <5> QED  BY <5>2, <5>3
      <4>2. CASE ~Edits!Ok(c)
        BY <1>p, <3>1, <4>2
      <4> QED  BY <4>1, <4>2
    <3> QED  BY <1>p, <2>0, <2>c, <3>1, <3>2 DEF EditsInv
  <2>2. CASE Edits!ReceiveGridSave(c)
    <3>1. /\ v2' = IF Edits!Ok(c) THEN Edits!ShowsUnordered(c.got)
                     ELSE [v2 EXCEPT !.conflict = @ \/ (c.answer = "conflict" /\ c.own)]
          /\ v5' = v5 \ {c} /\ UNCHANGED <<v3, v4>> /\ c.by = "grid"
      BY <2>2 DEF Edits!ReceiveGridSave
    <3>2. /\ v2' \in PageType /\ (v2'.version < v2'.floor => v2'.behind)
          /\ v2'.floor = v2.floor /\ (v2'.dirty => v2.dirty /\ v2'.version = v2.version)
      BY <1>p, <1>v, <2>0, <3>1 DEF CallKnown, CallType
    <3>3. ~IsRestore(c)
      BY <2>0, <3>1 DEF CallKnown, IsRestore
    <3> QED  BY <1>p, <2>0, <2>c, <3>1, <3>2, <3>3 DEF EditsInv
  <2>3. CASE Edits!ReceiveEditorSave(c)
    <3>0. c.by = "editor" /\ ~IsRestore(c) /\ v4' = v4
      BY <2>0, <2>3 DEF Edits!ReceiveEditorSave, CallKnown, IsRestore
    <3>1. CASE Edits!Ok(c)
      <4> DEFINE cs == Edits!Cancelled(v5 \ {c})
                 ds == DisownedIn(cs, "editor")
      <4>1. /\ v2' = [Edits!Shows(c.got) EXCEPT !.floor = c.got] /\ v3' = Edits!NoEditor
            /\ v5' = ds
        BY <2>3, <3>1 DEF Edits!ReceiveEditorSave, DisownedIn
      <4>2. cs \in SUBSET v5 /\ (\A d \in v5 : IsRestore(d) => d \in cs)
            /\ \A d \in cs : d.kind # "get"
        BY <3>0 DEF Edits!Cancelled, IsRestore
      <4> HIDE DEF cs
      <4>3. CallsOk(cs, v1, v4.submitting, v4.asked, v2.floor)
        BY <1>t, <4>2, CallsDropped
      <4>4. CallsOk(cs, v1, v4.submitting, v4.asked, c.got)
        BY <4>2, <4>3, FloorRaised
      <4>5. CallsOk(ds, v1, v4.submitting, v4.asked, c.got)
        BY <4>4, CallsDisowned
      <4> HIDE DEF ds
      <4>6. v2'.floor = c.got
        BY <1>v, <2>0, <3>1, <4>1 DEF CallKnown
      <4>7. /\ v2' \in PageType /\ v2'.version = c.got
            /\ v3' \in [open : BOOLEAN, base : Nat, saving : BOOLEAN,
                            conflict : {"none", "stale", "loading"}, replaced : BOOLEAN]
            /\ ~v3'.open
        BY <1>v, <2>0, <3>1, <4>1 DEF CallKnown, Edits!NoEditor
      <4> QED  BY <1>p, <2>0, <3>0, <4>1, <4>5, <4>6, <4>7 DEF EditsInv
    <3>2. CASE ~Edits!Ok(c)
      <4>1. /\ v3' = IF ~c.own THEN v3
                         ELSE [v3 EXCEPT !.saving = FALSE,
                                 !.conflict = IF c.answer = "conflict" THEN "stale" ELSE @]
            /\ v5' = v5 \ {c} /\ v2' = v2
        BY <2>3, <3>2 DEF Edits!ReceiveEditorSave
      <4>2. /\ v3' \in [open : BOOLEAN, base : Nat, saving : BOOLEAN,
                            conflict : {"none", "stale", "loading"}, replaced : BOOLEAN]
            /\ v3'.open = v3.open /\ v3'.base = v3.base
            /\ v3'.replaced = v3.replaced
        BY <1>p, <4>1
      <4> QED  BY <1>p, <2>0, <2>c, <3>0, <4>1, <4>2 DEF EditsInv
    <3> QED  BY <3>1, <3>2
  <2>4. CASE Edits!ReceiveReload(c)
    <3>1. /\ ~IsRestore(c) /\ v2' = (IF Edits!Ok(c) THEN Edits!ShowsUnordered(c.got) ELSE v2)
          /\ v3' = IF ~c.own THEN v3
                       ELSE IF Edits!Ok(c) THEN [v3 EXCEPT !.base = c.got, !.replaced = TRUE,
                                                         !.conflict = "none"]
                       ELSE [v3 EXCEPT !.conflict = "stale"]
          /\ v5' = v5 \ {c} /\ v4' = v4
      BY <2>4 DEF Edits!ReceiveReload, IsRestore
    <3>2. /\ v2' \in PageType /\ (v2'.version < v2'.floor => v2'.behind)
          /\ v2'.floor = v2.floor /\ (v2'.dirty => v2.dirty /\ v2'.version = v2.version)
      BY <1>p, <1>v, <2>0, <3>1 DEF CallKnown
    <3>3. /\ v3' \in [open : BOOLEAN, base : Nat, saving : BOOLEAN,
                          conflict : {"none", "stale", "loading"}, replaced : BOOLEAN]
          /\ v3'.open = v3.open
          /\ v3'.base \in {v3.base, c.got}
          /\ v3'.base # v3.base => Edits!Ok(c)
          /\ ~v3'.replaced => v3'.base = v3.base /\ ~v3.replaced
      BY <1>p, <2>0, <3>1 DEF CallKnown, CallType
    <3>4. v3'.open => v3'.base \in 1..Len(v1)
      BY <1>p, <2>0, <3>3 DEF CallKnown
    <3> QED  BY <1>p, <2>0, <2>c, <3>1, <3>2, <3>3, <3>4 DEF EditsInv
  <2>5. CASE Edits!ReceiveRestore(c)
    <3>1. /\ IsRestore(c) /\ v3' = v3
          /\ v2' = (IF Edits!Ok(c) THEN [Edits!Shows(c.got) EXCEPT !.floor = c.got] ELSE v2)
          /\ v4' = [v4 EXCEPT !.submitting = FALSE,
                                      !.success = @ \/ (Edits!Ok(c) /\ c.own /\ v4.open)]
          /\ v5' = IF Edits!Ok(c) THEN Edits!Cancelled(v5 \ {c}) ELSE v5 \ {c}
      BY <2>5 DEF Edits!ReceiveRestore, IsRestore
    <3>2. /\ v4' \in [open : BOOLEAN, submitting : BOOLEAN, success : BOOLEAN, asked : BOOLEAN]
          /\ v4'.submitting = FALSE /\ v4'.open = v4.open /\ v4'.asked = v4.asked
          /\ v4'.success => v4.open /\ v4.asked
      <4>1. c.own => v4.asked
        BY <1>t, <3>1 DEF CallsOk
      <4> QED  BY <1>p, <2>0, <3>1, <4>1 DEF Edits!Ok, CallType
    <3>3. CallsOk(v5 \ {c}, v1, FALSE, v4.asked, v2.floor)
      BY <1>t, <3>1, RestoreDropped
    <3>4. CASE Edits!Ok(c)
      <4> DEFINE cs == Edits!Cancelled(v5 \ {c})
      <4>1. cs \in SUBSET (v5 \ {c}) /\ \A d \in cs : d.kind # "get"
        BY DEF Edits!Cancelled
      <4>2. \A d \in v5 \ {c} : ~IsRestore(d)
        BY <3>3 DEF CallsOk
      <4> HIDE DEF cs
      <4>3. CallsOk(cs, v1, FALSE, v4.asked, v2.floor)
        BY <3>3, <4>1, <4>2, CallsDropped
      <4>4. CallsOk(cs, v1, FALSE, v4.asked, c.got)
        BY <4>1, <4>3, FloorRaised
      <4>5. v5' = cs /\ v2'.floor = c.got
        BY <1>v, <2>0, <3>1, <3>4 DEF CallKnown, cs
      <4>6. /\ v2' \in PageType /\ v2'.version = c.got
            /\ v2'.dirty => v2.dirty /\ v2'.version = v2.version
        BY <1>v, <2>0, <3>1, <3>4 DEF CallKnown
      <4>7. ~(v2'.version < v2'.floor)
        BY <2>0, <3>4, <4>5, <4>6 DEF CallKnown
      <4>8. PageInv'
        BY ONLY <1>p, <2>0, <3>1, <3>2, <4>6, <4>7 DEF PageInv, PageType
      <4> QED  BY <1>p, <2>0, <3>1, <3>2, <4>4, <4>5, <4>6, <4>8 DEF EditsInv
    <3>5. CASE ~Edits!Ok(c)
      BY <1>p, <2>0, <3>1, <3>2, <3>3, <3>5 DEF EditsInv
    <3> QED  BY <3>4, <3>5
  <2> QED  BY <1>16, <2>1, <2>2, <2>3, <2>4, <2>5 DEF Edits!ReceiveCall
<1> QED  BY <1>1, <1>2, <1>3, <1>4, <1>5, <1>6, <1>7, <1>8, <1>9, <1>10, <1>11, <1>12, <1>13,
            <1>14, <1>15, <1>16 DEF Edits!EditsNext

LEMMA EditsLoseNothing ==
  ASSUME EditsInv, Edits!EditsNext
  PROVE  Edits!NoEditLost
<1> SUFFICES ASSUME v1' # v1
             PROVE  \/ Edits!Keeps(v1'[Edits!Current + 1], Edits!Spec(Edits!Current))
                    \/ \E c \in v5 : Edits!ServeRestore(c)
  BY DEF Edits!NoEditLost
<1>t. /\ v1 \in Seq(SpecType) /\ Len(v1) \in Nat /\ Len(v1) >= 1
      /\ v1[Len(v1)] \in SpecType
  BY LenProperties DEF EditsInv, PageInv
<1>e. ASSUME NEW spec \in SpecType PROVE Edits!Edited(spec) \in SpecType /\ Edits!Keeps(Edits!Edited(spec), spec)
  BY <1>t DEF Edits!Edited, SpecType, Edits!Current, Edits!Keeps
<1>k. ASSUME NEW spec \in SpecType, v1' = Append(v1, spec),
             Edits!Keeps(spec, v1[Len(v1)])
      PROVE  Edits!Keeps(v1'[Edits!Current + 1], Edits!Spec(Edits!Current))
  BY <1>t, <1>k, AppendProperties DEF Edits!Current, Edits!Spec
<1>1. CASE Edits!OtherSaves
  <2> PICK edited : edited = Edits!Edited(Edits!Spec(Edits!Current))
    OBVIOUS
  <2> PICK spec : spec = [edited EXCEPT !.rest = @ \cup {Edits!Current + 1}]
    OBVIOUS
  <2>1. edited \in SpecType /\ Edits!Keeps(edited, v1[Len(v1)])
    BY <1>t, <1>e DEF Edits!Current, Edits!Spec
  <2>2. spec \in SpecType /\ Edits!Keeps(spec, v1[Len(v1)])
    BY <1>t, <2>1 DEF SpecType, Edits!Keeps, Edits!Current
  <2>3. v1' = Append(v1, spec)
    BY <1>1 DEF Edits!OtherSaves, Edits!Writes
  <2> QED  BY <1>k, <2>2, <2>3
<1>2. ASSUME NEW c \in v5, c.answer = "pending", Edits!ServeSave(c), c.base = Edits!Current
      PROVE  Edits!Keeps(v1'[Edits!Current + 1], Edits!Spec(Edits!Current))
  <2> PICK spec : spec = Edits!Edited(IF c.kind = "replace" THEN c.spec ELSE Edits!Spec(Edits!Current))
    OBVIOUS
  <2>1. (IF c.kind = "replace" THEN c.spec ELSE Edits!Spec(Edits!Current)) = v1[Len(v1)]
    BY <1>2 DEF EditsInv, CallsOk, CallKnown, Edits!Current, Edits!Spec
  <2>2. spec \in SpecType /\ Edits!Keeps(spec, v1[Len(v1)])
    BY <1>t, <1>e, <2>1
  <2>3. v1' = Append(v1, spec)
    BY <1>2 DEF Edits!ServeSave, Edits!Writes
  <2> QED  BY <1>k, <2>2, <2>3
<1>3. ASSUME NEW c \in v5, Edits!ServeCall(c)
      PROVE  \/ Edits!Keeps(v1'[Edits!Current + 1], Edits!Spec(Edits!Current))
             \/ \E d \in v5 : Edits!ServeRestore(d)
  <2>1. ~Edits!ServeRead(c)
    BY DEF Edits!ServeRead
  <2>2. Edits!ServeSave(c) => c.base = Edits!Current
    BY DEF Edits!ServeSave
  <2> QED  BY <1>2, <1>3, <2>1, <2>2 DEF Edits!ServeCall
<1>4. ASSUME NEW c \in v5, Edits!CallFails(c) \/ Edits!ReceiveCall(c) PROVE FALSE
  BY <1>4 DEF Edits!CallFails, Edits!ReceiveCall
<1>5. ~(Edits!Refetch \/ Edits!edit \/ Edits!changeLayout \/ Edits!GridSaves \/ Edits!loadLatest \/ Edits!OpenEditor \/ Edits!onClose)
  BY DEF Edits!Refetch, Edits!edit, Edits!changeLayout, Edits!GridSaves, Edits!loadLatest, Edits!OpenEditor, Edits!onClose
<1>6. ~(Edits!save \/ Edits!reload \/ Edits!OpenHistory)
  BY DEF Edits!save, Edits!reload, Edits!OpenHistory
<1>7. (\A open \in BOOLEAN : ~Edits!resetFeedback(open)) /\ (\A v \in 1..MaxVersion : ~Edits!submit(v))
  BY DEF Edits!resetFeedback, Edits!submit
<1> QED  BY <1>1, <1>3, <1>4, <1>5, <1>6, <1>7 DEF Edits!EditsNext

LEMMA EditsHold ==
  EditsInv => Edits!OneRestore /\ Edits!ReadsKeepAnswer /\ Edits!ConfirmsItsRestore
<1> SUFFICES ASSUME EditsInv  PROVE Edits!OneRestore /\ Edits!ReadsKeepAnswer /\ Edits!ConfirmsItsRestore
  OBVIOUS
<1> DEFINE rs == {c \in v5 : c.kind = "restore"}
<1>1. \A c, d \in rs : c = d
  BY DEF EditsInv, CallsOk, IsRestore
<1>2. v4.submitting <=> \E c \in v5 : c.kind = "restore"
  BY DEF EditsInv, CallsOk, IsRestore
<1> HIDE DEF rs
<1>3. Cardinality(rs) <= 1
  <2>1. CASE rs = {}
    <3>1. Cardinality(rs) = 0
      BY <2>1, FS_EmptySet
    <3> QED  BY <3>1
  <2>2. CASE rs # {}
    <3>1. PICK c : rs = {c}
      BY <1>1, <2>2
    <3>2. Cardinality({c}) = 1
      BY FS_Singleton
    <3> QED  BY <3>1, <3>2
  <2> QED  BY <2>1, <2>2
<1>4. Edits!OneRestore
  BY <1>2, <1>3 DEF Edits!OneRestore, Edits!Cardinality, Cardinality, rs
<1>5. Edits!ReadsKeepAnswer /\ Edits!ConfirmsItsRestore
  BY DEF EditsInv, PageInv, CallsOk, Edits!ReadsKeepAnswer
<1> QED  BY <1>4, <1>5

-----------------------------------------------------------------------------
(* The dashboards together: a behaviour is one of a single part, and what   *)
(* that part keeps to holds of it.                                          *)

DashboardsInv ==
  /\ part = "edits" => EditsInv
  /\ part = "view" => ViewInv
  /\ part = "bar" => BarInv
  /\ part = "results" => ResultsInv
  /\ part = "map" => MapInv
  /\ part = "reader" => ReaderInv

LEMMA DashboardsStart == Init => DashboardsInv
<1> SUFFICES ASSUME Init  PROVE DashboardsInv
  OBVIOUS
<1>1. part = "edits" => Edits!EditsInit
  BY DEF Init
<1>2. part = "view" => View!ViewInit
  BY DEF Init
<1>3. part = "bar" => Bar!VariablesInit
  BY DEF Init
<1>4. part = "results" => Batches!PanelsInit
  BY DEF Init
<1>5. part = "map" => Map!MapInit
  BY DEF Init
<1>6. part = "reader" => Reader!KeyboardInit
  BY DEF Init
<1> QED  BY <1>1, <1>2, <1>3, <1>4, <1>5, <1>6, EditsStart, ViewStart, BarStart, ResultsStart,
            MapStart, ReaderStart DEF DashboardsInv

LEMMA DashboardsStep == DashboardsInv /\ [Next]_vars => DashboardsInv'
<1> SUFFICES ASSUME DashboardsInv, [Next]_vars  PROVE DashboardsInv'
  OBVIOUS
<1>1. part' = part
  BY DEF Next, vars
<1>2. CASE UNCHANGED vars
  <2>1. v1' = v1 /\ v2' = v2 /\ v3' = v3 /\ v4' = v4 /\ v5' = v5
    BY <1>2 DEF vars
  <2>2. EditsInv => EditsInv'
    <3>1. PageInv => PageInv'
      BY <2>1 DEF PageInv, PageType
    <3>2. DraftInv => DraftInv'
      BY <2>1 DEF DraftInv
    <3>3. Edits!ConfirmsItsRestore => Edits!ConfirmsItsRestore'
      BY <2>1 DEF Edits!ConfirmsItsRestore
    <3>4. CallsOk(v5, v1, v4.submitting, v4.asked, v2.floor)
             => CallsOk(v5, v1, v4.submitting, v4.asked, v2.floor)'
      BY <2>1
    <3> QED  BY <3>1, <3>2, <3>3, <3>4 DEF EditsInv
  <2>3. ViewInv => ViewInv'
    BY <2>1 DEF ViewInv
  <2>4. BarInv => BarInv'
    BY <2>1 DEF BarInv
  <2>5. ResultsInv => ResultsInv'
    BY <2>1 DEF ResultsInv
  <2>6. MapInv => MapInv'
    BY <2>1 DEF MapInv
  <2>7. ReaderInv => ReaderInv'
    BY <2>1 DEF ReaderInv
  <2> QED  BY <1>1, <2>2, <2>3, <2>4, <2>5, <2>6, <2>7 DEF DashboardsInv
<1>3. CASE Next
  <2>1. ASSUME part = "edits"  PROVE EditsInv'
    <3>1. EditsInv /\ Edits!EditsNext
      BY <1>3, <2>1 DEF DashboardsInv, Next
    <3> QED  BY <3>1, EditsKept
  <2>2. ASSUME part = "view"  PROVE ViewInv'
    <3>1. ViewInv /\ View!ViewNext
      BY <1>3, <2>2 DEF DashboardsInv, Next
    <3> QED  BY <3>1, ViewStep
  <2>3. ASSUME part = "bar"  PROVE BarInv'
    <3>1. BarInv /\ Bar!VariablesNext
      BY <1>3, <2>3 DEF DashboardsInv, Next
    <3> QED  BY <3>1, BarStep
  <2>4. ASSUME part = "results"  PROVE ResultsInv'
    <3>1. ResultsInv /\ Batches!PanelsNext
      BY <1>3, <2>4 DEF DashboardsInv, Next
    <3> QED  BY <3>1, ResultsStep
  <2>5. ASSUME part = "map"  PROVE MapInv'
    <3>1. MapInv /\ Map!MapNext
      BY <1>3, <2>5 DEF DashboardsInv, Next
    <3> QED  BY <3>1, MapStep
  <2>6. ASSUME part = "reader"  PROVE ReaderInv'
    <3>1. ReaderInv /\ Reader!KeyboardNext
      BY <1>3, <2>6 DEF DashboardsInv, Next
    <3> QED  BY <3>1, ReaderStep
  <2> QED  BY <1>1, <2>1, <2>2, <2>3, <2>4, <2>5, <2>6 DEF DashboardsInv
<1> QED  BY <1>2, <1>3

\* At any time of any part, what DashboardsInv says of it is true.
THEOREM DashboardsInvariant == Spec => []DashboardsInv
BY DashboardsStart, DashboardsStep, PTL DEF Spec

\* For any panels, variables, times and interleaving of edits, reads and answers: one
\* restore at a time, confirmed by the drawer that asked for it; the page goes below the
\* last answered restore or panel save by nothing but the two answers that nothing orders,
\* an editor's "Load latest" and a late save of the grid; a zoom comes back; the bar shows
\* the values that run; what is in view was asked for, and a refresh waits for a batch
\* only, or behind a retry with nothing left to send (history.tsx, dashboards/page.tsx,
\* use-brush-zoom.ts, use-variables.ts, use-panel-results.ts).
THEOREM DashboardIsKept == Spec => []DashboardIsCurrent
<1>1. DashboardsInv => DashboardIsCurrent
  BY EditsHold, ViewHolds, BarHolds, ResultsHold DEF DashboardsInv, DashboardIsCurrent
<1> QED  BY <1>1, DashboardsInvariant, PTL

\* The service map draws what it has laid out, and the keyboard's point and range are
\* on the chart, whatever results a refresh brings (service-map.tsx, chart-keyboard.tsx).
THEOREM PointersAreHeld == Spec => []PointersHold
<1>1. DashboardsInv => PointersHold
  BY MapHolds, ReaderHolds DEF DashboardsInv, PointersHold
<1> QED  BY <1>1, DashboardsInvariant, PTL

\* No draft that was open loses an edit saved meanwhile, no failed batch a frame, no
\* drag opens a service, no refresh moves the reader off a point that is still there
\* (grid.tsx, use-panel-results.ts, service-map.tsx, chart-keyboard.tsx).
THEOREM NothingMoves == Spec => NothingMovesUnasked

<1>1. DashboardsInv /\ [Next]_vars => [part = "edits" => Edits!NoEditLost]_vars
  <2> SUFFICES ASSUME DashboardsInv, Next, part = "edits"  PROVE Edits!NoEditLost
    BY DEF vars
  <2>1. EditsInv /\ Edits!EditsNext
    BY DEF DashboardsInv, Next
  <2> QED  BY <2>1, EditsLoseNothing
<1>2. DashboardsInv /\ [Next]_vars => [part = "results" => Batches!FramesKept]_vars
  <2> SUFFICES ASSUME DashboardsInv, Next, part = "results"  PROVE Batches!FramesKept
    BY DEF vars
  <2>1. ResultsInv /\ Batches!PanelsNext
    BY DEF DashboardsInv, Next
  <2> QED  BY <2>1, ResultsStep
<1>3. DashboardsInv /\ [Next]_vars => [part = "map" => Map!DragOpensNothing]_vars
  <2> SUFFICES ASSUME DashboardsInv, Next, part = "map"  PROVE Map!DragOpensNothing
    BY DEF vars
  <2>1. MapInv /\ Map!MapNext
    BY DEF DashboardsInv, Next
  <2> QED  BY <2>1, MapStep
<1>4. DashboardsInv /\ [Next]_vars => [part = "reader" => Reader!RefreshKeepsPoint]_vars
  <2> SUFFICES ASSUME DashboardsInv, Next, part = "reader"  PROVE Reader!RefreshKeepsPoint
    BY DEF vars
  <2>1. ReaderInv /\ Reader!KeyboardNext
    BY DEF DashboardsInv, Next
  <2> QED  BY <2>1, ReaderStep
<1> QED  BY <1>1, <1>2, <1>3, <1>4, DashboardsInvariant, PTL DEF Spec, NothingMovesUnasked
=============================================================================
