----------------------------- MODULE PageLoader -----------------------------
(***************************************************************************)
(* Navigation inside the browser (loadPage of base.js): a click fetches    *)
(* the next page and puts its content into the page that is open.          *)
(* Nothing orders or cancels fetches, so their answers may come in any     *)
(* order, and the back button changes the address before its answer comes. *)
(* A page's script file is loaded once in the life of the document; on     *)
(* later visits its pjax:complete handler initialises the page instead.    *)
(* The spinner (AppLoader) and the progress bar (AppProgress) are driven   *)
(* by timers that the same clicks and answers set and clear.               *)
(***************************************************************************)
EXTENDS Naturals, Sequences

CONSTANTS
    Pages,     \* the addresses of the menu
    Home,      \* the page the document is opened with
    Tabbed,    \* pages with tabs of their own (onclick)
    Scripts,   \* the page scripts with a src
    PageOf,    \* the page each script belongs to
    Handled,   \* scripts that register a pjax:complete handler
    Nowhere,   \* no full load is on its way
    MaxNavs,   \* bound on the navigations
    MaxTabs    \* bound on the clicks on tabs

ASSUME PageAssumption ==
    /\ Home \in Pages /\ Nowhere \notin Pages /\ Tabbed \subseteq Pages /\ Handled \subseteq Scripts
    /\ PageOf \in [Scripts -> Pages]
    /\ MaxNavs \in Nat /\ MaxTabs \in Nat

Navs == [id : 1 .. MaxNavs, page : Pages, push : BOOLEAN]
ScriptStates == {"absent", "loading", "failed", "executed", "listening"}

VARIABLES
    entries,   \* the history of the tab, as a sequence of pages
    pos,       \* where in it the tab is
    content,   \* the page whose content is shown
    navs,      \* fetches of pages without an answer
    leaving,   \* the page of location.href while a full load is on its way
    script,    \* _pjaxLoadedScripts, and how far each has got
    inits,     \* scripts that have initialised the content shown
    showTimer, \* AppLoader._showTimer: off, or set by a page or by a tab
    showing,   \* AppLoader._showing
    hideTimer, \* AppLoader._hideTimer is set
    bar,       \* the progress bar is visible
    fades,     \* timers of AppProgress.done that are set
    lastFade,  \* AppProgress._timer
    clicks, tabs,  \* navigations and clicks on tabs so far
    alone      \* history: no back or forward has had another fetch beside it

loadVars  == <<entries, pos, content, navs, leaving>>
pageVars  == <<script, inits>>
spinVars  == <<showTimer, showing, hideTimer>>
barVars   == <<bar, fades, lastFade>>
boundVars == <<clicks, tabs, alone>>
vars == <<loadVars, pageVars, spinVars, barVars, boundVars>>

Url == entries[pos]
Absent == [s \in Scripts |-> "absent"]
ScriptsOn(p) == {s \in Scripts : PageOf[s] = p}

TypeOK ==
    /\ entries \in Seq(Pages) /\ pos \in 1 .. Len(entries)
    /\ content \in Pages
    /\ navs \subseteq Navs
    /\ leaving \in Pages \cup {Nowhere}
    /\ script \in [Scripts -> ScriptStates] /\ inits \subseteq Scripts
    /\ showTimer \in {"off", "page", "tab"}
    /\ showing \in BOOLEAN /\ hideTimer \in BOOLEAN
    /\ bar \in BOOLEAN /\ fades \subseteq 1 .. MaxNavs /\ lastFade \in 0 .. MaxNavs
    /\ clicks \in 0 .. MaxNavs /\ tabs \in 0 .. MaxTabs
    /\ alone \in BOOLEAN

\* A document has been loaded in full: its scripts have run.
Loaded(p) == [s \in Scripts |-> IF PageOf[s] = p THEN "listening" ELSE "absent"]

Init ==
    /\ entries = <<Home>> /\ pos = 1 /\ content = Home
    /\ navs = {} /\ leaving = Nowhere
    /\ script = Loaded(Home) /\ inits = ScriptsOn(Home)
    /\ showTimer = "off" /\ showing = FALSE /\ hideTimer = FALSE
    /\ bar = FALSE /\ fades = {} /\ lastFade = 0
    /\ clicks = 0 /\ tabs = 0 /\ alone = TRUE

-----------------------------------------------------------------------------
(* AppLoader.                                                              *)

\* showDelayed: nothing but the pending timer goes when the spinner is there.
ShowDelayed(why) ==
    /\ showTimer' = IF showing THEN "off" ELSE why
    /\ UNCHANGED <<showing, hideTimer>>

\* (Mutant: a pending timer is left to fire.)
Finish_KeepsTimer ==
    /\ hideTimer' = IF showing THEN TRUE ELSE hideTimer
    /\ UNCHANGED <<showing, showTimer>>

\* finish: a spinner that did not appear yet never will; else it stays a bit.
Finish ==
    /\ showTimer' = "off"
    /\ hideTimer' = IF showing THEN TRUE ELSE hideTimer
    /\ UNCHANGED showing

Hide ==
    /\ showTimer' = "off" /\ hideTimer' = FALSE /\ showing' = FALSE

ShowTimerFires ==
    /\ showTimer # "off"
    /\ showing' = TRUE /\ showTimer' = "off"
    /\ hideTimer' = IF showTimer = "tab" THEN TRUE ELSE hideTimer
    /\ UNCHANGED <<loadVars, pageVars, barVars, boundVars>>

HideTimerFires ==
    /\ hideTimer
    /\ Hide
    /\ UNCHANGED <<loadVars, pageVars, barVars, boundVars>>

-----------------------------------------------------------------------------
(* AppProgress.                                                            *)

BarStarts == /\ bar' = TRUE /\ fades' = fades \ {lastFade} /\ UNCHANGED lastFade
BarDone(n) == /\ fades' = fades \cup {n} /\ lastFade' = n /\ UNCHANGED bar

BarFades ==
    /\ \E n \in fades : fades' = fades \ {n}
    /\ bar' = FALSE
    /\ UNCHANGED <<lastFade, loadVars, pageVars, spinVars, boundVars>>

-----------------------------------------------------------------------------
(* loadPage.                                                               *)

Fetch(p, push) ==
    /\ clicks < MaxNavs /\ clicks' = clicks + 1
    /\ navs' = navs \cup {[id |-> clicks', page |-> p, push |-> push]}
    /\ alone' = (alone /\ (push => \A n \in navs : n.push) /\ (~push => navs = {}))
    /\ BarStarts /\ ShowDelayed("page")
    /\ UNCHANGED <<entries, content, leaving, pageVars, tabs>>

\* A click on an item of the menu, or on a tab with an address.
Click(p) == Fetch(p, TRUE) /\ UNCHANGED pos

\* Back and forward: the browser has changed the address when popstate comes.
Travel ==
    \E q \in {pos - 1, pos + 1} \cap DOMAIN entries :
        pos' = q /\ Fetch(entries[q], FALSE)

\* A click on a tab of the page itself.
ClickTab ==
    /\ content \in Tabbed /\ tabs < MaxTabs /\ tabs' = tabs + 1
    /\ ShowDelayed("tab")
    /\ UNCHANGED <<loadVars, pageVars, barVars, clicks, alone>>

\* (Mutant: a click leaves the history alone.)
PushState_Skipped(p) == UNCHANGED <<entries, pos>>

PushState(p) ==
    /\ entries' = Append(SubSeq(entries, 1, pos), p) /\ pos' = pos + 1

\* Scripts seen for the first time are appended; they run when they come.
Appended(p) ==
    [s \in Scripts |-> IF PageOf[s] = p /\ script[s] = "absent"
                       THEN "loading" ELSE script[s]]

\* (Mutant: pjax:complete reaches nobody.)
Notified_Nobody(p) == {}

\* pjax:complete reaches the handlers registered by then.
Notified(p) ==
    {s \in ScriptsOn(p) \cap Handled : script[s] \in {"executed", "listening"}}

\* location.href = p: the document goes on until the new one comes.
FullNavigation(p) == leaving' = p /\ Hide

Shown(n) ==
    /\ content' = n.page
    /\ IF n.push THEN PushState(n.page) ELSE UNCHANGED <<entries, pos>>
    /\ script' = Appended(n.page)
    /\ inits' = Notified(n.page)

\* The answer has content.  A handler that throws is taken for a failed fetch.
Answer(n) ==
    /\ Shown(n)
    /\ \/ Finish /\ UNCHANGED leaving
       \/ Notified(n.page) # {} /\ FullNavigation(n.page)
    /\ navs' = navs \ {n} /\ BarDone(n.id)
    /\ UNCHANGED boundVars

\* The fetch fails, or its answer has no content.
Fail(n) ==
    /\ FullNavigation(n.page)
    /\ navs' = navs \ {n} /\ BarDone(n.id)
    /\ UNCHANGED <<entries, pos, content, pageVars, boundVars>>

\* A new document replaces everything but the history.
FullLoad ==
    /\ leaving # Nowhere
    /\ IF leaving = Url THEN UNCHANGED <<entries, pos>> ELSE PushState(leaving)
    /\ content' = leaving /\ leaving' = Nowhere
    /\ navs' = {}
    /\ script' = Loaded(leaving) /\ inits' = ScriptsOn(leaving)
    /\ showTimer' = "off" /\ showing' = FALSE /\ hideTimer' = FALSE
    /\ bar' = FALSE /\ fades' = {} /\ lastFade' = 0
    /\ UNCHANGED boundVars

\* A script file comes: it registers its handler and asks for ready.
ScriptRuns(s) ==
    /\ script[s] = "loading"
    /\ script' = [script EXCEPT ![s] = "executed"]
    /\ UNCHANGED <<inits, loadVars, spinVars, barVars, boundVars>>

\* It stays in _pjaxLoadedScripts: nothing loads it again.
ScriptFails(s) ==
    /\ script[s] = "loading"
    /\ script' = [script EXCEPT ![s] = "failed"]
    /\ UNCHANGED <<inits, loadVars, spinVars, barVars, boundVars>>

\* $(document).ready calls its function in a task of its own, whatever page
\* is shown by then; only on its own page does it find anything.
Ready(s) ==
    /\ script[s] = "executed"
    /\ script' = [script EXCEPT ![s] = "listening"]
    /\ inits' = IF PageOf[s] = content THEN inits \cup {s} ELSE inits
    /\ UNCHANGED <<loadVars, spinVars, barVars, boundVars>>

Next ==
    \/ \E p \in Pages : Click(p)
    \/ Travel
    \/ ClickTab
    \/ \E n \in navs : Answer(n) \/ Fail(n)
    \/ FullLoad
    \/ \E s \in Scripts : ScriptRuns(s) \/ ScriptFails(s) \/ Ready(s)
    \/ ShowTimerFires \/ HideTimerFires \/ BarFades

(***************************************************************************)
(* The browser settles every fetch, loads the document it navigates to,    *)
(* fires timers and runs or refuses the scripts it was given.  Users need  *)
(* not click.                                                              *)
(***************************************************************************)
Fairness ==
    /\ WF_vars(\E n \in navs : Answer(n) \/ Fail(n))
    /\ WF_vars(FullLoad)
    /\ \A s \in Scripts : WF_vars(ScriptRuns(s) \/ ScriptFails(s)) /\ WF_vars(Ready(s))
    /\ WF_vars(ShowTimerFires) /\ WF_vars(HideTimerFires) /\ WF_vars(BarFades)

Spec == Init /\ [][Next]_vars /\ Fairness

-----------------------------------------------------------------------------
(***************************************************************************)
(* The spinner and the bar go away after every sequence of clicks, however *)
(* the answers, the failures and the five kinds of timers fall.            *)
(***************************************************************************)
IndicatorsGo == (showing \/ bar) ~> (~showing /\ ~bar)

(***************************************************************************)
(* A page that was opened comes to life: each of its scripts that listens  *)
(* for pjax:complete initialises the content shown, on the first visit by  *)
(* running and on later ones by its handler, also when the user has left   *)
(* and come back while its file was on the way.  Only a file that failed   *)
(* to load leaves it dead.                                                 *)
(***************************************************************************)
PagesComeAlive ==
    \A s \in Handled :
        content = PageOf[s] ~> (content # PageOf[s] \/ s \in inits \/ script[s] = "failed")

(***************************************************************************)
(* Once everything has been answered the address is that of the content    *)
(* shown, so a reload or a bookmark gives the same page; unless a back or  *)
(* forward had another fetch beside it, whose answers may come in either   *)
(* order.                                                                  *)
(***************************************************************************)
AddressFitsContent ==
    (alone /\ navs = {} /\ leaving = Nowhere) => content = Url
=============================================================================
