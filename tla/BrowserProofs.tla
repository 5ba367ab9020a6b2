--------------------------- MODULE BrowserProofs ----------------------------
(***************************************************************************)
(* xBrowser's window and its web view, for every address set, retry        *)
(* budget, frame pool and queue bound.                                     *)
(***************************************************************************)
EXTENDS Browser, Webview, SequenceTheorems, Iteration

-----------------------------------------------------------------------------
(* The window *)

UI == [history: Seq(Urls), historyNav: BOOLEAN, currentUrl: Urls \cup {None},
       loadRetries: 0 .. MaxRetries, retryTicks: 0 .. RetryTicks,
       retryUrl: Urls \cup {None}]

Notices == [kind: {"url", "failed"}, url: Urls]

\* The inductive invariant: BrTypeOK, and what travels between window and engine.
BrInv ==
    /\ ui \in UI
    /\ commands \in Seq(Urls \cup {"stop"})
    /\ notices \in Seq(Notices)
    /\ loading \in Urls \cup {None}

\* A notice leaves BrowserWidget's members well-typed.
LEMMA NotifiedType ==
    ASSUME NEW u \in UI, NEW e \in Notices
    PROVE  Notified(u, e) \in UI
<1>1. e.url \in Urls
  BY DEF Notices
<1>2. Append(u.history, e.url) \in Seq(Urls)
  BY <1>1 DEF UI
<1>3. onHtmlUrlChanged(u, e.url) \in UI
  BY <1>1, <1>2 DEF onHtmlUrlChanged, UI
<1>4. u.loadRetries < MaxRetries => u.loadRetries + 1 \in 0 .. MaxRetries
  BY BrowserConstants DEF UI
<1>5. RetryTicks \in 0 .. RetryTicks
  BY BrowserConstants
<1>6. onTaskFailed(u, e.url) \in UI
  BY <1>1, <1>4, <1>5 DEF onTaskFailed, UI
<1> QED
  BY <1>3, <1>6 DEF Notified

\* So do all the notices of one ewebview_tick().
LEMMA DrainedType ==
    ASSUME BrInv
    PROVE  Drained \in UI
<1> DEFINE n == Len(notices)
           st == [i \in 1 .. n |-> [u \in UI |-> Notified(u, notices[i])]]
           Body(f) == [i \in 0 .. n |-> IF i = 0 THEN ui ELSE Notified(f[i - 1], notices[i])]
<1>1. n \in Nat /\ ui \in UI /\ \A i \in 1 .. n : notices[i] \in Notices
  BY DEF BrInv
<1>2. st \in [1 .. n -> [UI -> UI]]
  BY <1>1, NotifiedType
<1>3. \E f : IsRun(f, UI, ui, n, st)
  <2> HIDE DEF st, n
  <2> QED
    BY <1>1, <1>2, RunExists, Zenon
<1>4. PICK f : /\ f \in [0 .. n -> UI] /\ f[0] = ui
               /\ \A i \in 1 .. n : f[i] = st[i][f[i - 1]]
  BY <1>3 DEF IsRun
<1>5. f = Body(f)
  <2>1. ASSUME NEW i \in 0 .. n, i # 0
        PROVE  f[i] = Notified(f[i - 1], notices[i])
    <3>1. i \in 1 .. n /\ i - 1 \in 0 .. n
      BY <1>1, <2>1
    <3> QED
      BY <1>4, <3>1
  <2> QED
    BY <1>4, <2>1
<1>6. Tick = CHOOSE g : g = Body(g)
  BY DEF Tick
<1>7. Tick = Body(Tick)
  <2> HIDE DEF Body
  <2> QED
    BY <1>5, <1>6
<1> DEFINE G == {i \in 0 .. n : Tick[i] \in UI}
<1>8. 0 \in G
  BY <1>1, <1>7
<1>9. ASSUME NEW i \in 1 .. n, i - 1 \in G
      PROVE  i \in G
  <2>1. i \in 0 .. n /\ i # 0
    BY <1>1
  <2>2. Tick[i] = Notified(Tick[i - 1], notices[i])
    BY <1>7, <2>1
  <2> QED
    BY <1>1, <1>9, <2>1, <2>2, NotifiedType
<1>10. n \in 0 .. n
  BY <1>1
<1>11. n \in G
  <2> HIDE DEF G, n
  <2> QED
    BY <1>1, <1>8, <1>9, <1>10, Induction
<1> QED
  BY <1>11 DEF Drained

\* The members stay well-typed, and the retry budget of onTaskFailed() is kept
\* whatever the engine reports and however the user navigates.
THEOREM BrowserTypes == BrSpec => []BrTypeOK
<1>1. BrInit => BrInv
  BY BrowserConstants DEF BrInit, BrInv, UI
<1>2. BrInv /\ [BrNext]_brVars => BrInv'
  <2> SUFFICES ASSUME BrInv, [BrNext]_brVars
               PROVE  BrInv'
    OBVIOUS
  <2> DEFINE Cmd == Urls \cup {"stop"}
  <2>0. \A c \in Cmd : Append(commands, c) \in Seq(Cmd)
    BY DEF BrInv
  <2>1. ASSUME NEW url \in Urls, onInputFunc(url) \/ FollowLink(url)
        PROVE  BrInv'
    BY <2>0, <2>1 DEF onInputFunc, FollowLink, loadHtml, BrInv
  <2>2. CASE goBack
    <3> DEFINE h == ui.history
               m == Len(h) - 1
    <3>1. h \in Seq(Urls) /\ Len(h) >= 2 /\ m \in Nat /\ m >= 1 /\ m <= Len(h)
      BY <2>2 DEF goBack, BrInv, UI
    <3>2. Front(h) = SubSeq(h, 1, m)
      BY DEF Front
    <3>3. \A i \in 1 .. m : h[i] \in Urls
      BY <3>1
    <3>4. 1 \in Int /\ m \in Int
      BY <3>1
    <3> HIDE DEF h, m
    <3>5. /\ SubSeq(h, 1, m) \in Seq(Urls)
          /\ Len(SubSeq(h, 1, m)) = (IF 1 <= m THEN m - 1 + 1 ELSE 0)
      BY <3>3, <3>4, SubSeqProperties
    <3>6. Front(h) \in Seq(Urls) /\ Len(Front(h)) = m /\ m \in 1 .. m
      BY <3>1, <3>2, <3>5
    <3>7. Last(Front(h)) \in Urls
      BY <3>6 DEF Last
    <3>8. ui' = [ui EXCEPT !.history = Front(h), !.historyNav = TRUE]
      BY <2>2 DEF goBack, h
    <3>9. ui' \in UI
      BY <3>6, <3>8 DEF UI, BrInv
    <3> QED
      BY <2>0, <2>2, <3>7, <3>9 DEF goBack, loadHtml, BrInv, h
  <2>3. CASE reload
    <3> DEFINE url == IF ui.currentUrl = None THEN InitialUrl ELSE ui.currentUrl
    <3>1. url \in Urls
      BY BrowserConstants DEF BrInv, UI
    <3> QED
      BY <2>0, <2>3, <3>1 DEF reload, loadHtml, BrInv, UI
  <2>4. CASE stop
    BY <2>0, <2>4 DEF stop, loadHtml, BrInv
  <2>5. CASE BrowserWidget_onTimer
    <3> DEFINE u == Drained
               fires == u.retryTicks = 1 /\ u.retryUrl # None
               first == IF started THEN <<>> ELSE <<InitialUrl>>
               again == IF fires THEN <<u.retryUrl>> ELSE <<>>
               ticks == IF u.retryTicks > 0 THEN u.retryTicks - 1 ELSE 0
               url == IF fires THEN None ELSE u.retryUrl
    <3>1. u \in UI
      BY DrainedType
    <3>2. /\ ui' = [u EXCEPT !.retryTicks = ticks, !.retryUrl = url]
          /\ commands' = commands \o first \o again
          /\ notices' = <<>> /\ loading' = loading
      BY <2>5 DEF BrowserWidget_onTimer
    <3> HIDE DEF u
    <3>3. ticks \in 0 .. RetryTicks /\ url \in Urls \cup {None}
      BY <3>1, BrowserConstants DEF UI
    <3>4. <<>> \in Seq(Cmd) /\ \A c \in Cmd : <<c>> \in Seq(Cmd)
      OBVIOUS
    <3>5. first \in Seq(Cmd)
      BY <3>4, BrowserConstants, Zenon
    <3>6. fires => u.retryUrl \in Cmd
      BY <3>1 DEF UI
    <3>7. again \in Seq(Cmd)
      BY <3>4, <3>6, Zenon
    <3> HIDE DEF ticks, url, first, again
    <3>8. commands \in Seq(Cmd)
      BY DEF BrInv
    <3> HIDE DEF Cmd
    <3>9. commands' \in Seq(Cmd)
      BY <3>2, <3>5, <3>7, <3>8
    <3>10. ui' \in UI
      BY <3>1, <3>2, <3>3 DEF UI
    <3> QED
      BY <3>2, <3>9, <3>10 DEF BrInv, Cmd
  <2>6. CASE EngineTake
    <3>1. Head(commands) \in Cmd /\ Tail(commands) \in Seq(Cmd)
      BY <2>6 DEF EngineTake, BrInv
    <3> QED
      BY <2>6, <3>1 DEF EngineTake, BrInv
  <2>7. ASSUME NEW kind \in {"url", "failed"}, EngineEvent(kind)
        PROVE  BrInv'
    <3>1. [kind |-> kind, url |-> loading] \in Notices
      BY <2>7 DEF EngineEvent, Notices, BrInv
    <3>2. notices' \in Seq(Notices)
      BY <2>7, <3>1 DEF EngineEvent, BrInv
    <3> QED
      BY <2>7, <3>2 DEF EngineEvent, BrInv
  <2>8. CASE UNCHANGED brVars
    BY <2>8 DEF brVars, BrInv
  <2> QED
    BY <2>1, <2>2, <2>3, <2>4, <2>5, <2>6, <2>7, <2>8
       DEF BrNext, EngineAccept, EngineFail
<1>3. BrInv => BrTypeOK
  BY DEF BrInv, BrTypeOK, UI
<1> QED
  BY <1>1, <1>2, <1>3, PTL DEF BrSpec

-----------------------------------------------------------------------------
(* The web view *)

FrameEvents == [kind: {"frame"}, frame: Frames, at: Nat, doc: Nat]
ScrollEvents == [kind: {"scroll"}, frame: {NoFrame}, at: Nat, doc: Nat]
Events == FrameEvents \cup ScrollEvents

Widgets == [front: Frames \cup {NoFrame}, frameScroll: Nat, docH: Nat, scrollY: Nat,
            freed: SUBSET Frames]

IsFrame(i) == events[i].kind = "frame"

WvTypes ==
    /\ displayCache \in Frames \cup {NoFrame}
    /\ frameScroll \in Nat /\ docH \in Nat /\ scrollY \in Nat /\ asked \in Nat
    /\ viewH \in Nat /\ dragStep \in Nat
    /\ pool \subseteq Frames
    /\ events \in Seq(Events)

\* The inductive invariant: no two events carry the same frame.
WvInv ==
    /\ WvTypes
    /\ FrameOwnership
    /\ ScrollerFresh
    /\ \A i, j \in 1 .. Len(events) :
          IsFrame(i) /\ IsFrame(j) /\ events[i].frame = events[j].frame => i = j

\* An event leaves the widget well-typed.
LEMMA HandledType ==
    ASSUME NEW s \in Widgets, NEW e \in Events
    PROVE  Handled(s, e) \in Widgets
<1>1. e.kind = "frame" => e.frame \in Frames
  BY DEF Events, FrameEvents, ScrollEvents
<1>2. e.at \in Nat /\ e.doc \in Nat
  BY DEF Events, FrameEvents, ScrollEvents
<1> DEFINE freed == IF s.front = NoFrame THEN s.freed ELSE s.freed \cup {s.front}
<1>3. freed \in SUBSET Frames
  BY DEF Widgets
<1>4. adoptFrame(s, e) = [s EXCEPT !.front = e.frame, !.frameScroll = e.at, !.docH = e.doc,
                                   !.freed = freed]
  BY DEF adoptFrame
<1> HIDE DEF freed
<1>5. e.kind = "frame" => adoptFrame(s, e) \in Widgets
  BY <1>1, <1>2, <1>3, <1>4 DEF Widgets
<1>6. cbScroll(s, e) \in Widgets
  BY <1>2 DEF cbScroll, Widgets
<1> QED
  BY <1>5, <1>6 DEF Handled

\* What the events of one tick add up to, event by event.
LEMMA AfterSteps ==
    ASSUME WvTypes
    PROVE  /\ \A i \in 0 .. Len(events) : After[i] \in Widgets
           /\ After[0] = State
           /\ \A i \in 1 .. Len(events) : After[i] = Handled(After[i - 1], events[i])
<1> DEFINE n == Len(events)
           st == [i \in 1 .. n |-> [s \in Widgets |-> Handled(s, events[i])]]
           Body(f) == [i \in 0 .. n |-> IF i = 0 THEN State ELSE Handled(f[i - 1], events[i])]
<1>1. n \in Nat /\ \A i \in 1 .. n : events[i] \in Events
  BY DEF WvTypes
<1>2. State \in Widgets
  BY DEF State, Widgets, WvTypes
<1>3. st \in [1 .. n -> [Widgets -> Widgets]]
  BY <1>1, HandledType
<1>4. \E f : IsRun(f, Widgets, State, n, st)
  <2> HIDE DEF st, n
  <2> QED
    BY <1>1, <1>2, <1>3, RunExists, Zenon
<1>5. PICK f : /\ f \in [0 .. n -> Widgets] /\ f[0] = State
               /\ \A i \in 1 .. n : f[i] = st[i][f[i - 1]]
  BY <1>4 DEF IsRun
<1>6. f = Body(f)
  <2>1. ASSUME NEW i \in 0 .. n, i # 0
        PROVE  f[i] = Handled(f[i - 1], events[i])
    <3>1. i \in 1 .. n /\ i - 1 \in 0 .. n
      BY <1>1, <2>1
    <3> QED
      BY <1>5, <3>1
  <2> QED
    BY <1>5, <2>1
<1>7. After = CHOOSE g : g = Body(g)
  BY DEF After
<1>8. After = Body(After)
  <2> HIDE DEF Body
  <2> QED
    BY <1>6, <1>7
<1>9. After[0] = State
  BY <1>1, <1>8
<1>10. ASSUME NEW i \in 1 .. n
       PROVE  After[i] = Handled(After[i - 1], events[i])
  <2>1. i \in 0 .. n /\ i # 0
    BY <1>1
  <2> QED
    BY <1>8, <2>1
<1> DEFINE G == {i \in 0 .. n : After[i] \in Widgets}
<1>11. 0 \in G
  BY <1>1, <1>2, <1>9
<1>12. ASSUME NEW i \in 1 .. n, i - 1 \in G
       PROVE  i \in G
  BY <1>1, <1>10, <1>12, HandledType
<1>13. \A i \in 0 .. n : i \in G
  <2> HIDE DEF G, n
  <2> QED
    BY <1>1, <1>11, <1>12, Induction
<1> QED
  BY <1>9, <1>10, <1>13

\* The frames of the first i events.
Arrived(i) == {events[j].frame : j \in {k \in 1 .. i : IsFrame(k)}}

Shown == {displayCache} \ {NoFrame}

\* Of the frames that were shown or arrived, one at most is in front at any
\* moment of a tick, and adoptFrame() has handed all the others back.
LEMMA AfterFrames ==
    ASSUME WvInv
    PROVE  \A i \in 0 .. Len(events) :
              /\ After[i].freed \cup ({After[i].front} \ {NoFrame}) = Arrived(i) \cup Shown
              /\ After[i].front \notin After[i].freed
<1> DEFINE n == Len(events)
           P(i) == /\ After[i].freed \cup ({After[i].front} \ {NoFrame}) = Arrived(i) \cup Shown
                   /\ After[i].front \notin After[i].freed
           G == {i \in 0 .. n : P(i)}
<1>1. WvTypes /\ n \in Nat /\ \A i \in 1 .. n : events[i] \in Events
  BY DEF WvInv, WvTypes
<1>2. 0 \in G
  <2>1. Arrived(0) = {}
    BY DEF Arrived
  <2>2. After[0].freed = {} /\ After[0].front = displayCache
    BY <1>1, AfterSteps DEF State
  <2> QED
    BY <1>1, <2>1, <2>2 DEF Shown
<1>3. ASSUME NEW i \in 1 .. n, i - 1 \in G
      PROVE  i \in G
  <2> DEFINE s == After[i - 1]
             e == events[i]
  <2>1. i \in 0 .. n /\ i - 1 \in 0 .. n /\ \A k : k \in 1 .. i <=> k \in 1 .. i - 1 \/ k = i
    BY <1>1
  <2>2. s \in Widgets /\ After[i] = Handled(s, e) /\ e \in Events /\ P(i - 1)
    BY <1>1, <1>3, <2>1, AfterSteps
  <2>3. CASE e.kind = "frame"
    <3>1. e.frame \in Frames /\ e.frame # NoFrame
      BY <2>2, <2>3, WebviewConstants DEF Events, FrameEvents, ScrollEvents
    <3>2. Arrived(i) = Arrived(i - 1) \cup {e.frame}
      BY <2>1, <2>3 DEF Arrived, IsFrame
    <3>3. e.frame \notin Arrived(i - 1)
      <4>1. \A k \in 1 .. i - 1 : k \in 1 .. n /\ k # i
        BY <1>1
      <4> QED
        BY <2>3, <4>1 DEF Arrived, WvInv, IsFrame
    <3>4. e.frame \notin Shown
      BY <2>3, <1>1 DEF Shown, WvInv, FrameOwnership, InFlight
    <3>5. /\ After[i].front = e.frame
          /\ After[i].freed = IF s.front = NoFrame THEN s.freed ELSE s.freed \cup {s.front}
      BY <2>2, <2>3 DEF Handled, adoptFrame, Widgets
    <3>6. s.freed \cup ({s.front} \ {NoFrame}) = Arrived(i - 1) \cup Shown
      BY <2>2
    <3>7. After[i].freed = Arrived(i - 1) \cup Shown
      BY <3>5, <3>6
    <3>8. P(i)
      BY <3>1, <3>2, <3>3, <3>4, <3>5, <3>7
    <3> QED
      BY <2>1, <3>8
  <2>4. CASE e.kind # "frame"
    <3>1. After[i].front = s.front /\ After[i].freed = s.freed
      BY <2>2, <2>4 DEF Handled, cbScroll, Widgets
    <3>2. Arrived(i) = Arrived(i - 1)
      BY <2>1, <2>4 DEF Arrived, IsFrame
    <3>3. P(i)
      BY <2>2, <3>1, <3>2
    <3> QED
      BY <2>1, <3>3
  <2> QED
    BY <2>3, <2>4
<1>4. \A i \in 0 .. n : i \in G
  <2> HIDE DEF G, n
  <2> QED
    BY <1>1, <1>2, <1>3, Induction
<1> QED
  BY <1>4

\* Each step keeps the frames apart and the scrollbar fresh.
LEMMA ViewInductive == WvInv /\ [WvNext]_wvVars => WvInv'
<1> SUFFICES ASSUME WvInv, [WvNext]_wvVars
             PROVE  WvInv'
  OBVIOUS
<1> DEFINE n == Len(events)
<1>0. WvTypes /\ n \in Nat /\ \A i \in 1 .. n : events[i] \in Events
  BY DEF WvInv, WvTypes
<1>1. CASE WidgetWebview_onTimer
  <2> DEFINE s == After[n]
  <2>1. n \in 0 .. n
    BY <1>0
  <2>2. s \in Widgets
    BY <1>0, <2>1, AfterSteps
  <2>3. /\ s.freed \cup ({s.front} \ {NoFrame}) = Arrived(n) \cup Shown
        /\ s.front \notin s.freed
    BY <2>1, AfterFrames
  <2>4. Arrived(n) = InFlight
    <3>1. 1 .. n = DOMAIN events
      BY <1>0 DEF WvTypes
    <3> QED
      BY <3>1 DEF Arrived, InFlight, IsFrame
  <2>5. events = <<>> => s = State
    BY <1>0, AfterSteps
  <2>6. /\ displayCache' = s.front /\ frameScroll' = s.frameScroll
        /\ docH' = s.docH /\ scrollY' = s.scrollY /\ pool' = pool \cup s.freed
        /\ scroller' = IF events = <<>> THEN scroller
                       ELSE [doc |-> s.docH, at |-> s.scrollY, view |-> viewH]
        /\ events' = <<>>
        /\ UNCHANGED <<open, viewH, dragStep, asked>>
    BY <1>1 DEF WidgetWebview_onTimer
  <2> HIDE DEF s
  <2>7. events' \in Seq(Events) /\ Len(events') = 0 /\ InFlight' = {}
    BY <2>6 DEF InFlight
  <2>8. WvTypes'
    BY <1>0, <2>2, <2>6, <2>7 DEF WvTypes, Widgets
  <2>9. FrameOwnership'
    <3>1. pool \cup InFlight \cup Shown = Frames /\ (pool \cap (InFlight \cup Shown)) = {}
      BY DEF WvInv, FrameOwnership, Shown
    <3>2. NoFrame \notin s.freed /\ NoFrame \notin pool
      BY <1>0, <2>2, WebviewConstants DEF Widgets, WvTypes
    <3>3. s.front \notin pool
      BY <2>3, <2>4, <3>1, <3>2
    <3>4. pool \cup s.freed \cup ({s.front} \ {NoFrame}) = Frames
      BY <2>3, <2>4, <3>1
    <3> QED
      BY <2>3, <2>6, <2>7, <3>3, <3>4 DEF FrameOwnership
  <2>10. ScrollerFresh'
    <3>1. events = <<>> => s.docH = docH /\ s.scrollY = scrollY
      BY <2>5 DEF State
    <3> QED
      BY <2>6, <3>1 DEF ScrollerFresh, WvInv
  <2>11. 1 .. Len(events') = {}
    BY <2>7
  <2> QED
    BY <2>8, <2>9, <2>10, <2>11 DEF WvInv
<1>2. CASE Destroy
  <2>1. WvTypes'
    BY <1>0, <1>2 DEF Destroy, WvTypes
  <2>2. FrameOwnership'
    BY <1>0, <1>2, WebviewConstants DEF Destroy, WvInv, WvTypes, FrameOwnership, InFlight
  <2> QED
    BY <1>2, <2>1, <2>2 DEF Destroy, WvInv, ScrollerFresh, IsFrame
<1>3. ASSUME NEW step \in Steps, onScroll(step)
      PROVE  WvInv'
  <2> DEFINE y == scrollY - step * dragStep
             to == Clamp(y)
  <2>1. /\ uiLocalScroll(y)
        /\ UNCHANGED <<open, displayCache, frameScroll, docH, viewH, dragStep, pool, events>>
    BY <1>3 DEF onScroll
  <2>2. step \in Int /\ y \in Int
    BY <1>0, WebviewConstants DEF WvTypes
  <2> HIDE DEF y
  <2>3. MaxScroll \in Nat
    BY <1>0 DEF MaxScroll, WvTypes
  <2>4. to \in Nat
    BY <2>2, <2>3 DEF Clamp
  <2> HIDE DEF to
  <2>5. \/ to = scrollY /\ UNCHANGED <<scrollY, asked, scroller>>
        \/ /\ scrollY' = to /\ asked' = to
           /\ scroller' = [doc |-> docH, at |-> to, view |-> viewH]
    BY <2>1 DEF uiLocalScroll, to
  <2>6. WvTypes'
    BY <1>0, <2>1, <2>4, <2>5 DEF WvTypes
  <2>7. ScrollerFresh'
    BY <2>1, <2>5 DEF WvInv, ScrollerFresh
  <2> QED
    BY <2>1, <2>6, <2>7 DEF WvInv, FrameOwnership, InFlight, IsFrame
<1>4. ASSUME NEW h \in Views, onResize(h)
      PROVE  WvInv'
  <2>1. h \in Nat /\ h \div 4 \in Nat
    BY WebviewConstants
  <2>2. WvTypes'
    BY <1>0, <1>4, <2>1 DEF onResize, engineVars, WvTypes
  <2> QED
    BY <1>4, <2>2 DEF onResize, engineVars, WvInv, ScrollerFresh, FrameOwnership, InFlight, IsFrame
<1>5. ASSUME NEW e \in Events, events' = Append(events, e),
             UNCHANGED <<displayCache, frameScroll, docH, scrollY, viewH, dragStep, scroller>>,
             asked' \in Nat,
             e.kind = "frame" => e.frame \in pool,
             pool' = pool \ (IF e.kind = "frame" THEN {e.frame} ELSE {})
      PROVE  WvInv'
  <2>1. /\ events' \in Seq(Events) /\ Len(events') = n + 1
        /\ events'[n + 1] = e
        /\ \A i \in 1 .. n : events'[i] = events[i]
    BY <1>0, <1>5 DEF WvTypes
  <2>2. \A i : i \in 1 .. n + 1 <=> i \in 1 .. n \/ i = n + 1
    BY <1>0
  <2>3. DOMAIN events = 1 .. n /\ DOMAIN events' = 1 .. n + 1
    BY <1>0, <2>1 DEF WvTypes
  <2>4. InFlight' = InFlight \cup (IF e.kind = "frame" THEN {e.frame} ELSE {})
    BY <2>1, <2>2, <2>3 DEF InFlight
  <2>5. FrameOwnership'
    BY <1>5, <2>4 DEF WvInv, FrameOwnership
  <2>6. \A i \in 1 .. n : IsFrame(i) => events[i].frame \in InFlight
    BY <2>3 DEF IsFrame, InFlight
  <2>7. e.kind = "frame" => e.frame \notin InFlight
    BY <1>5 DEF WvInv, FrameOwnership
  <2>8. ASSUME NEW i \in 1 .. n + 1, NEW j \in 1 .. n + 1,
               events'[i].kind = "frame", events'[j].kind = "frame",
               events'[i].frame = events'[j].frame
        PROVE  i = j
    BY <2>1, <2>2, <2>6, <2>7, <2>8 DEF WvInv, IsFrame
  <2>9. WvTypes'
    BY <1>0, <1>5, <2>1 DEF WvTypes
  <2> QED
    BY <1>5, <2>1, <2>5, <2>8, <2>9 DEF WvInv, ScrollerFresh, IsFrame
<1>6. CASE EngineRender
  <2>1. PICK f \in pool, h \in Heights :
           /\ pool' = pool \ {f}
           /\ events' = Append(events, [kind |-> "frame", frame |-> f, at |-> asked, doc |-> h])
    BY <1>6 DEF EngineRender
  <2> DEFINE e == [kind |-> "frame", frame |-> f, at |-> asked, doc |-> h]
  <2>2. e \in Events /\ e.kind = "frame" /\ e.frame = f /\ e.frame \in pool
    BY <1>0, WebviewConstants DEF WvTypes, Events, FrameEvents
  <2>3. /\ UNCHANGED <<displayCache, frameScroll, docH, scrollY, viewH, dragStep, scroller>>
        /\ asked' \in Nat /\ events' = Append(events, e) /\ pool' = pool \ {e.frame}
    BY <1>0, <1>6, <2>1, <2>2 DEF EngineRender, WvTypes
  <2> HIDE DEF e
  <2> QED
    BY <1>5, <2>2, <2>3
<1>7. CASE EngineScroll
  <2>1. PICK h \in Heights : \E y \in {0, IF h > viewH THEN h - viewH ELSE 0} :
           /\ asked' = y
           /\ events' = Append(events, [kind |-> "scroll", frame |-> NoFrame,
                                        at |-> y, doc |-> h])
    BY <1>7 DEF EngineScroll
  <2>2. PICK y \in {0, IF h > viewH THEN h - viewH ELSE 0} :
           /\ asked' = y
           /\ events' = Append(events, [kind |-> "scroll", frame |-> NoFrame,
                                        at |-> y, doc |-> h])
    BY <2>1
  <2> DEFINE e == [kind |-> "scroll", frame |-> NoFrame, at |-> y, doc |-> h]
  <2>3. h \in Nat /\ y \in Nat
    BY <1>0, WebviewConstants DEF WvTypes
  <2>4. e \in Events /\ e.kind # "frame"
    BY <2>3 DEF Events, ScrollEvents
  <2>5. /\ UNCHANGED <<displayCache, frameScroll, docH, scrollY, viewH, dragStep, scroller>>
        /\ asked' \in Nat /\ events' = Append(events, e) /\ pool' = pool \ {}
    BY <1>7, <2>2, <2>3 DEF EngineScroll
  <2> HIDE DEF e
  <2> QED
    BY <1>5, <2>4, <2>5
<1>8. CASE UNCHANGED wvVars
  BY <1>0, <1>8 DEF wvVars, WvInv, WvTypes, ScrollerFresh, FrameOwnership, InFlight, IsFrame
<1> QED
  BY <1>1, <1>2, <1>3, <1>4, <1>6, <1>7, <1>8 DEF WvNext

\* The invariant holds at the start and is kept.
THEOREM ViewInvariant == WvSpec => []WvInv
<1>1. WvInit => WvInv
  <2> SUFFICES ASSUME WvInit
               PROVE  WvInv
    OBVIOUS
  <2>1. events \in Seq(Events) /\ Len(events) = 0 /\ InFlight = {} /\ 1 .. Len(events) = {}
    BY DEF WvInit, InFlight
  <2>2. viewH \in Nat /\ dragStep \in Nat
    BY WebviewConstants DEF WvInit
  <2>3. WvTypes
    BY <2>1, <2>2 DEF WvInit, WvTypes
  <2>4. FrameOwnership
    BY <2>1, WebviewConstants DEF WvInit, FrameOwnership
  <2> QED
    BY <2>1, <2>3, <2>4 DEF WvInit, WvInv, ScrollerFresh
<1> QED
  BY <1>1, ViewInductive, PTL DEF WvSpec

\* Every frame is in exactly one place at all times, whatever the order of
\* rendering, ticks, scrolls and the destructor: the engine never draws into
\* the buffer on display, and no frame leaks (adoptFrame, ~WidgetWebview).
THEOREM ViewOwnsFrames == WvSpec => []FrameOwnership
<1>1. WvInv => FrameOwnership
  BY DEF WvInv
<1> QED
  BY <1>1, ViewInvariant, PTL

\* The scrollbar never shows a stale document height, offset or size
\* (updateScroller).
THEOREM ViewScrollerFresh == WvSpec => []ScrollerFresh
<1>1. WvInv => ScrollerFresh
  BY DEF WvInv
<1> QED
  BY <1>1, ViewInvariant, PTL
=============================================================================
