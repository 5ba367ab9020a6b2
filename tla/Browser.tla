------------------------------ MODULE Browser -------------------------------
(***************************************************************************)
(* xBrowser's navigation (src/apps/xBrowser/src/main.cpp): the toolbar,    *)
(* the session history and the retry of a failed page, all on the UI       *)
(* thread, against the ewebview engine, which runs on threads of its own.  *)
(*                                                                         *)
(* The two sides only exchange messages: loadHtml() and stopLoading()      *)
(* queue commands into the engine, and the engine's url and failure        *)
(* notices wait until the window timer drains them in ewebview_tick().     *)
(* The engine is a library outside this repository: it aborts the load in  *)
(* progress when it takes a command, reports the URL of every page it      *)
(* accepts, and reports a page that could not be fetched.                  *)
(***************************************************************************)
EXTENDS Integers, Sequences, SequencesExt

CONSTANTS
    Urls, InitialUrl,   \* the addresses, and the one loaded at start
    None,               \* no address
    MaxRetries,         \* how many failed pages are retried in a session: 6
    RetryTicks,         \* timer ticks before a retry: 45
    MayFail,            \* whether a page may fail to load
    QueueCap,           \* bound: commands the user, and notices the engine, may pile up
    HistoryCap          \* bound: pages remembered

ASSUME BrowserConstants ==
    /\ InitialUrl \in Urls /\ None \notin Urls
    /\ MaxRetries \in Nat /\ RetryTicks \in Nat \ {0}
    /\ MayFail \in BOOLEAN

VARIABLES
    ui,         \* BrowserWidget's members: history, historyNav, currentUrl,
                \* loadRetries, retryTicks, retryUrl
    started,    \* m_initialLoadStarted
    commands,   \* UI -> engine: a URL to load, or "stop"
    notices,    \* engine -> UI: [kind, url]
    loading,    \* the page the engine is fetching
    displayed   \* whether a page is displayed, so that links can be followed

brVars == <<ui, started, commands, notices, loading, displayed>>

BrInit ==
    /\ ui = [history |-> <<>>, historyNav |-> FALSE, currentUrl |-> None,
             loadRetries |-> 0, retryTicks |-> 0, retryUrl |-> None]
    /\ started = FALSE
    /\ commands = <<>> /\ notices = <<>>
    /\ loading = None
    /\ displayed = FALSE

\* Nothing is under way between the window and the engine.
Settled == commands = <<>> /\ notices = <<>> /\ loading = None /\ ui.retryTicks = 0

UserActs == Len(commands) < QueueCap

\* The pages a user may still open; going back is always possible.
Room == Len(ui.history) < HistoryCap

-----------------------------------------------------------------------------
(* Toolbar *)

loadHtml(url) == commands' = Append(commands, url)

\* Enter in the address bar
onInputFunc(url) ==
    /\ UserActs /\ Room
    /\ loadHtml(url)
    /\ UNCHANGED <<ui, started, notices, loading, displayed>>

goBack ==
    /\ UserActs
    /\ Len(ui.history) >= 2
    /\ ui' = [ui EXCEPT !.history = Front(@), !.historyNav = TRUE]
    /\ loadHtml(Last(Front(ui.history)))
    /\ UNCHANGED <<started, notices, loading, displayed>>

reload ==
    /\ UserActs /\ Room
    /\ ui' = [ui EXCEPT !.historyNav = TRUE]
    /\ loadHtml(IF ui.currentUrl = None THEN InitialUrl ELSE ui.currentUrl)
    /\ UNCHANGED <<started, notices, loading, displayed>>

stop ==
    /\ UserActs
    /\ loadHtml("stop")
    /\ UNCHANGED <<ui, started, notices, loading, displayed>>

-----------------------------------------------------------------------------
(* The window timer *)

\* cbUrl(): mirror the URL; a page that is new lands on the back stack.
onHtmlUrlChanged(u, url) ==
    [u EXCEPT !.historyNav = FALSE,
              !.currentUrl = url,
              !.history = IF u.historyNav \/ (@ # <<>> /\ Last(@) = url)
                          THEN @ ELSE Append(@, url)]

\* [mutant] one retry too many
RetryOneMore(u, url) ==
    IF u.loadRetries <= MaxRetries
    THEN [u EXCEPT !.loadRetries = @ + 1, !.retryUrl = url, !.retryTicks = RetryTicks]
    ELSE u

\* [mutant] retries are not counted
RetryForever(u, url) == [u EXCEPT !.retryUrl = url, !.retryTicks = RetryTicks]

onTaskFailed(u, url) ==
    IF u.loadRetries < MaxRetries
    THEN [u EXCEPT !.loadRetries = @ + 1, !.retryUrl = url, !.retryTicks = RetryTicks]
    ELSE u

Notified(u, e) ==
    IF e.kind = "url" THEN onHtmlUrlChanged(u, e.url) ELSE onTaskFailed(u, e.url)

\* ewebview_tick(): the first i waiting notices, in order; then all of them
Tick[i \in 0 .. Len(notices)] == IF i = 0 THEN ui ELSE Notified(Tick[i - 1], notices[i])

Drained == Tick[Len(notices)]

\* Drain the engine, start the first load, and count a retry down.
BrowserWidget_onTimer ==
    /\ LET u == Drained
           fires == u.retryTicks = 1 /\ u.retryUrl # None
           first == IF started THEN <<>> ELSE <<InitialUrl>>
           again == IF fires THEN <<u.retryUrl>> ELSE <<>>
       IN /\ ui' = [u EXCEPT !.retryTicks = IF @ > 0 THEN @ - 1 ELSE 0,
                             !.retryUrl = IF fires THEN None ELSE @]
          /\ commands' = commands \o first \o again
    /\ started' = TRUE
    /\ notices' = <<>>
    /\ UNCHANGED <<loading, displayed>>

-----------------------------------------------------------------------------
(* The engine's threads *)

\* The engine takes a command: a load aborts and replaces the one in flight.
EngineTake ==
    /\ commands # <<>>
    /\ commands' = Tail(commands)
    /\ loading' = IF Head(commands) = "stop" THEN None ELSE Head(commands)
    /\ UNCHANGED <<ui, started, notices, displayed>>

EngineEvent(kind) ==
    /\ loading # None
    /\ Len(notices) < QueueCap
    /\ notices' = Append(notices, [kind |-> kind, url |-> loading])
    /\ loading' = None
    /\ UNCHANGED <<ui, started, commands>>

EngineAccept == EngineEvent("url") /\ displayed' = TRUE

EngineFail == MayFail /\ EngineEvent("failed") /\ UNCHANGED displayed

\* A link is clicked, or a script sets location.href.
FollowLink(url) ==
    /\ displayed /\ Room
    /\ loading' = url
    /\ UNCHANGED <<ui, started, commands, notices, displayed>>

BrNext ==
    \/ \E url \in Urls : onInputFunc(url) \/ FollowLink(url)
    \/ goBack \/ reload \/ stop \/ BrowserWidget_onTimer
    \/ EngineTake \/ EngineAccept \/ EngineFail

BrSpec == BrInit /\ [][BrNext]_brVars

\* The window timer runs at 30 Hz for as long as the window is open, and the
\* engine's thread serves its command queue.
BrFairSpec == BrSpec /\ WF_brVars(BrowserWidget_onTimer) /\ WF_brVars(EngineTake)

-----------------------------------------------------------------------------
(* Properties *)

\* The types; the retry budget is never exceeded.
BrTypeOK ==
    /\ ui.history \in Seq(Urls)
    /\ ui.historyNav \in BOOLEAN
    /\ ui.currentUrl \in Urls \cup {None}
    /\ ui.loadRetries \in 0 .. MaxRetries
    /\ ui.retryTicks \in 0 .. RetryTicks
    /\ ui.retryUrl \in Urls \cup {None}
    /\ loading \in Urls \cup {None}

\* Once nothing is under way the top of the history is the page on display:
\* "back stack of visited page URLs, top = current page".
TopIsCurrentPage ==
    Settled /\ ui.history # <<>> => Last(ui.history) = ui.currentUrl

\* A retry that was scheduled is made: however often pages fail meanwhile, the
\* countdown of onTaskFailed() and onTimer() comes to its end.
RetryFires == ui.retryTicks > 0 ~> ui.retryTicks = 0
=============================================================================
