------------------------------ MODULE MCBrowser -----------------------------
(***************************************************************************)
(* xBrowser's window and its web view.  They run on one UI thread against  *)
(* one engine and share none of the state modelled, so a behaviour moves   *)
(* one of them and leaves the other as it starts.                          *)
(***************************************************************************)
EXTENDS Browser, Webview

VARIABLE part   \* the one that moves

\* two ticks of the wheel, up or down
StepSet == {-2, 2}

webVars == <<part, brVars, wvVars>>

WebInit ==
    /\ part \in {"window", "view"}
    /\ BrInit /\ WvInit
    /\ part = "window" => viewH = CHOOSE h \in Views : TRUE

InWindow(A) == part = "window" /\ A /\ UNCHANGED <<part, wvVars>>
InView(A) == part = "view" /\ A /\ UNCHANGED <<part, brVars>>

WebNext == InWindow(BrNext) \/ InView(WvNext)

\* The fairness of BrFairSpec and WvFairSpec.
WebSpec ==
    /\ WebInit /\ [][WebNext]_webVars
    /\ WF_webVars(InWindow(BrowserWidget_onTimer))
    /\ WF_webVars(InWindow(EngineTake))
    /\ WF_webVars(InView(WidgetWebview_onTimer))
=============================================================================
