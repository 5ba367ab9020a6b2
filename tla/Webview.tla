------------------------------ MODULE Webview -------------------------------
(***************************************************************************)
(* WidgetWebview (src/libs/widget++/src/WidgetWebview/WidgetWebview.cc):   *)
(* the widget that shows the frames an ewebview engine renders. Frames     *)
(* come from a pool the engine owns; one travels to the widget in an       *)
(* on_frame event, is its front buffer until the next one replaces it, and *)
(* is then handed back. The live scroll offset moves ahead of the engine   *)
(* on the UI thread, and the engine may overrule it.                       *)
(*                                                                         *)
(* One vertical axis, in logical pixels (dpr 1). The engine is a library   *)
(* outside this repository, modelled by what this file says of it.         *)
(***************************************************************************)
EXTENDS Integers, Sequences

CONSTANTS
    Frames,      \* the engine's frame pool
    NoFrame,
    Heights,     \* document heights the engine may report
    Views,       \* widget heights
    Steps,       \* wheel and drag steps
    EventCap     \* bound: events waiting for a tick

ASSUME WebviewConstants ==
    /\ NoFrame \notin Frames
    /\ Heights \subseteq Nat /\ Views \subseteq Nat /\ Steps \subseteq Int

VARIABLES
    open,          \* m_view # nullptr
    displayCache,  \* the front buffer
    frameScroll,   \* the offset it was rendered at
    docH, scrollY, \* last-known document height, live offset
    viewH,         \* area.h / dpr
    dragStep,
    scroller,      \* what updateScroller() last told the scrollbar
    pool,          \* frames the engine may render into
    events,        \* engine -> UI
    asked          \* the offset last requested with ewebview_scroll()

wvVars == <<open, displayCache, frameScroll, docH, scrollY, viewH, dragStep,
            scroller, pool, events, asked>>

engineVars == <<pool, events, asked>>

WvInit ==
    /\ open = TRUE
    /\ displayCache = NoFrame
    /\ frameScroll = 0 /\ docH = 0 /\ scrollY = 0
    /\ viewH \in Views
    /\ dragStep = viewH \div 4
    /\ scroller = [doc |-> 0, at |-> 0, view |-> viewH]
    /\ pool = Frames
    /\ events = <<>>
    /\ asked = 0

-----------------------------------------------------------------------------
(* Events from the engine, drained by ewebview_tick() in onTimer() *)

State == [front |-> displayCache, frameScroll |-> frameScroll, docH |-> docH,
          scrollY |-> scrollY, freed |-> {}]

\* [mutant] the previous front buffer is not handed back
AdoptWithoutRelease(s, e) ==
    [s EXCEPT !.front = e.frame, !.frameScroll = e.at, !.docH = e.doc]

\* Take the frame over as the front buffer and release the previous one. The engine
\* sends no event without a frame; the code would ignore one.
adoptFrame(s, e) ==
    [s EXCEPT !.front = e.frame, !.frameScroll = e.at, !.docH = e.doc,
              !.freed = IF s.front = NoFrame THEN @ ELSE @ \cup {s.front}]

\* The engine's word on the offset: page swap, window.scrollTo, end of a script.
cbScroll(s, e) == [s EXCEPT !.scrollY = e.at, !.docH = e.doc]

Handled(s, e) == IF e.kind = "frame" THEN adoptFrame(s, e) ELSE cbScroll(s, e)

\* The widget after the first i events
After[i \in 0 .. Len(events)] == IF i = 0 THEN State ELSE Handled(After[i - 1], events[i])

WidgetWebview_onTimer ==
    /\ open
    /\ LET s == After[Len(events)]
       IN /\ displayCache' = s.front
          /\ frameScroll' = s.frameScroll
          /\ docH' = s.docH
          /\ scrollY' = s.scrollY
          /\ pool' = pool \cup s.freed
          /\ scroller' = IF events = <<>> THEN scroller
                         ELSE [doc |-> s.docH, at |-> s.scrollY, view |-> viewH]
    /\ events' = <<>>
    /\ UNCHANGED <<open, viewH, dragStep, asked>>

-----------------------------------------------------------------------------
(* The user *)

MaxScroll == IF docH > viewH THEN docH - viewH ELSE 0

Clamp(y) == IF y < 0 THEN 0 ELSE IF y > MaxScroll THEN MaxScroll ELSE y

\* uiLocalScroll(): move the live offset, then tell the engine.
uiLocalScroll(y) ==
    LET to == Clamp(y)
    IN IF to = scrollY THEN UNCHANGED <<scrollY, asked, scroller>>
       ELSE /\ scrollY' = to
            /\ asked' = to
            /\ scroller' = [doc |-> docH, at |-> to, view |-> viewH]

onScroll(step) ==
    /\ open
    /\ uiLocalScroll(scrollY - step * dragStep)
    /\ UNCHANGED <<open, displayCache, frameScroll, docH, viewH, dragStep, pool, events>>

\* [mutant] the scrollbar keeps the old geometry
ResizeQuietly(h) ==
    /\ open
    /\ viewH' = h
    /\ dragStep' = h \div 4
    /\ UNCHANGED <<open, displayCache, frameScroll, docH, scrollY, scroller>>
    /\ UNCHANGED engineVars

\* The offset is left to the engine, which lays the page out again.
onResize(h) ==
    /\ open
    /\ viewH' = h
    /\ dragStep' = h \div 4
    /\ scroller' = [doc |-> docH, at |-> scrollY, view |-> h]
    /\ UNCHANGED <<open, displayCache, frameScroll, docH, scrollY>>
    /\ UNCHANGED engineVars

\* ~WidgetWebview(): the front buffer goes back first, then the pool is freed.
Destroy ==
    /\ open
    /\ open' = FALSE
    /\ displayCache' = NoFrame
    /\ pool' = IF displayCache = NoFrame THEN pool ELSE pool \cup {displayCache}
    /\ UNCHANGED <<frameScroll, docH, scrollY, viewH, dragStep, scroller, events, asked>>

-----------------------------------------------------------------------------
(* The engine's thread *)

EngineRender ==
    /\ open
    /\ Len(events) < EventCap
    /\ \E f \in pool, h \in Heights :
          /\ pool' = pool \ {f}
          /\ events' = Append(events, [kind |-> "frame", frame |-> f, at |-> asked, doc |-> h])
    /\ UNCHANGED <<open, displayCache, frameScroll, docH, scrollY, viewH, dragStep,
                   scroller, asked>>

EngineScroll ==
    /\ open
    /\ Len(events) < EventCap
    /\ \E h \in Heights :
          LET top == IF h > viewH THEN h - viewH ELSE 0
          IN \E y \in {0, top} :
               /\ asked' = y
               /\ events' = Append(events, [kind |-> "scroll", frame |-> NoFrame,
                                            at |-> y, doc |-> h])
    /\ UNCHANGED <<open, displayCache, frameScroll, docH, scrollY, viewH, dragStep,
                   scroller, pool>>

WvNext ==
    \/ WidgetWebview_onTimer \/ Destroy
    \/ \E step \in Steps : onScroll(step)
    \/ \E h \in Views : onResize(h)
    \/ EngineRender \/ EngineScroll

WvSpec == WvInit /\ [][WvNext]_wvVars

\* The window timer ticks for as long as the widget lives.
WvFairSpec == WvSpec /\ WF_wvVars(WidgetWebview_onTimer)

-----------------------------------------------------------------------------
(* Properties *)

InFlight == {events[i].frame : i \in {j \in DOMAIN events : events[j].kind = "frame"}}

\* Every frame is in exactly one place: free for rendering, travelling in an
\* event, or on display; the engine never draws into the buffer being shown,
\* and none is lost by adoptFrame() or the destructor.
FrameOwnership ==
    /\ pool \cup InFlight \cup ({displayCache} \ {NoFrame}) = Frames
    /\ pool \cap InFlight = {}
    /\ displayCache \notin pool \cup InFlight

\* The scrollbar always shows the geometry the widget has: every path that
\* changes the document, the offset or the size refreshes it.
ScrollerFresh == scroller = [doc |-> docH, at |-> scrollY, view |-> viewH]

\* The engine is never starved of frames for good: those waiting are adopted,
\* and each adoption gives one back.
PoolRecovers == (open /\ pool = {}) ~> (~open \/ pool # {})
=============================================================================
