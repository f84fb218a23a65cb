---------------------------- MODULE DocumentProofs ----------------------------
(***************************************************************************)
(* What lives in a browser's document, for any pages, scripts, tasks,      *)
(* sockets, proxies and bounds.  Each part keeps an invariant of its own,  *)
(* and a step of the document is a step of one part that leaves the others *)
(* alone.                                                                  *)
(*                                                                         *)
(* The loader: the types, and that the address is that of the content once *)
(* everything has been answered.  Clicks and their answers may overlap as  *)
(* they like, since an answer moves both; a back or forward has moved the  *)
(* address before, and so must be alone.                                   *)
(*                                                                         *)
(* The panel: the types.                                                   *)
(*                                                                         *)
(* The table: the types, and that what is taken from the table is what it  *)
(* shows.  The rows of its cells are always those the key names, and are   *)
(* gone while another page is shown; so a patch rewrites every cell it     *)
(* shows, and a table drawn behind another page has no cells to contradict.*)
(***************************************************************************)
EXTENDS MCDocument, Integers, FiniteSets, FiniteSetTheorems, TLAPS

documentVars == <<part, vars, ofPanel, ofTable>>

-----------------------------------------------------------------------------
(* The parts.                                                              *)

LEMMA DocumentBegins ==
    DocumentInit => /\ Init
                    /\ Panel!Init \/ PanelAtRest
                    /\ Table!Init \/ TableAtRest
BY DEF DocumentInit

LEMMA LoaderInDocument == [DocumentNext]_documentVars => [Next]_vars
BY DEF DocumentNext, documentVars

LEMMA PanelInDocument == [DocumentNext]_documentVars => [Panel!Next]_(Panel!vars)
BY DEF DocumentNext, documentVars, ofPanel, Panel!vars, Panel!sockVars, Panel!panelVars,
       Panel!pageVars

LEMMA TableInDocument == [DocumentNext]_documentVars => [Table!Next]_(Table!vars)
BY DEF DocumentNext, documentVars, ofTable, Table!vars, Table!drawVars, Table!tableVars,
       Table!userVars

-----------------------------------------------------------------------------
(* The loader.                                                             *)

(* Only clicks are on the way, and the address is that of the content, or  *)
(* of the document that will replace it.                                   *)
OnlyClicks == (\A n \in navs : n.push) /\ (leaving = Nowhere => content = Url)

(* One back or forward is on the way, to the address that is there.        *)
OneTravel == \E n \in navs : navs = {n} /\ ~n.push /\ n.page = Url

LoaderInv == TypeOK /\ (alone => OnlyClicks \/ OneTravel)

-----------------------------------------------------------------------------
(* A new entry takes the place of those ahead of it.                       *)
LEMMA PushFacts ==
    ASSUME TypeOK, NEW p \in Pages, PushState(p)
    PROVE  /\ entries' \in Seq(Pages) /\ pos' \in 1 .. Len(entries')
           /\ Url' = p
<1>1. SubSeq(entries, 1, pos) \in Seq(Pages) /\ Len(SubSeq(entries, 1, pos)) = pos
  BY DEF TypeOK
<1>2. /\ Len(entries') = pos + 1 /\ entries' \in Seq(Pages)
      /\ entries'[pos + 1] = p
  BY <1>1 DEF PushState, TypeOK
<1> QED
  BY <1>2 DEF PushState, TypeOK, Url

(* Init establishes the invariant.                                         *)
LEMMA InitEstablishes == Init => LoaderInv
<1> SUFFICES ASSUME Init PROVE LoaderInv
  OBVIOUS
<1> USE PageAssumption
<1>1. entries \in Seq(Pages) /\ pos \in 1 .. Len(entries) /\ Url = Home
  BY DEF Init, Url
<1>2. script \in [Scripts -> ScriptStates] /\ inits \subseteq Scripts
  BY DEF Init, Loaded, ScriptsOn, ScriptStates
<1>3. showing \in BOOLEAN /\ hideTimer \in BOOLEAN /\ bar \in BOOLEAN /\ alone \in BOOLEAN
  BY Zenon DEF Init
<1>4. /\ clicks \in 0 .. MaxNavs /\ tabs \in 0 .. MaxTabs
      /\ lastFade \in 0 .. MaxNavs /\ fades \subseteq 1 .. MaxNavs
      /\ content \in Pages /\ navs \subseteq Navs /\ leaving \in Pages \cup {Nowhere}
      /\ showTimer \in {"off", "page", "tab"}
  BY DEF Init
<1>5. TypeOK
  BY <1>1, <1>2, <1>3, <1>4 DEF TypeOK
<1>6. OnlyClicks
  BY <1>1 DEF Init, OnlyClicks
<1> QED
  BY <1>5, <1>6 DEF LoaderInv

-----------------------------------------------------------------------------
(* A fetch adds one navigation and leaves the content alone.               *)
LEMMA FetchKeepsTypes ==
    ASSUME TypeOK, NEW p \in Pages, NEW push \in BOOLEAN, Fetch(p, push),
           pos' \in 1 .. Len(entries)
    PROVE  TypeOK'
<1> USE PageAssumption DEF TypeOK
<1>1. clicks' \in 1 .. MaxNavs
  BY DEF Fetch
<1>2. navs' \subseteq Navs
  BY <1>1 DEF Fetch, Navs
<1>3. showTimer' \in {"off", "page", "tab"} /\ UNCHANGED <<showing, hideTimer>>
  BY DEF Fetch, ShowDelayed
<1>4. bar' \in BOOLEAN /\ fades' \subseteq 1 .. MaxNavs /\ lastFade' \in 0 .. MaxNavs
  BY DEF Fetch, BarStarts
<1>5. /\ entries' \in Seq(Pages) /\ pos' \in 1 .. Len(entries')
      /\ UNCHANGED <<content, leaving, script, inits, tabs>> /\ alone' \in BOOLEAN
  BY DEF Fetch, pageVars
<1> QED
  BY <1>1, <1>2, <1>3, <1>4, <1>5

(* An answer or a failure ends one navigation.                             *)
LEMMA AnswerKeepsTypes ==
    ASSUME TypeOK, NEW n \in navs, Answer(n) \/ Fail(n)
    PROVE  TypeOK'
<1> USE PageAssumption
<1>1. n.id \in 1 .. MaxNavs /\ n.page \in Pages /\ n.push \in BOOLEAN
  BY DEF TypeOK, Navs
<1>2. /\ navs' = navs \ {n} /\ fades' = fades \cup {n.id} /\ lastFade' = n.id
      /\ UNCHANGED <<bar, clicks, tabs, alone>>
  BY DEF Answer, Fail, BarDone, boundVars
<1>3. /\ leaving' \in Pages \cup {Nowhere}
      /\ showTimer' \in {"off", "page", "tab"}
      /\ showing' \in BOOLEAN /\ hideTimer' \in BOOLEAN
  BY <1>1 DEF Answer, Fail, FullNavigation, Hide, Finish, TypeOK
<1>4. entries' \in Seq(Pages) /\ pos' \in 1 .. Len(entries')
  <2>1. UNCHANGED <<entries, pos>> \/ PushState(n.page)
    BY DEF Answer, Fail, Shown
  <2> QED
    BY <1>1, <2>1, PushFacts DEF TypeOK
<1>5. /\ content' \in Pages
      /\ script' \in [Scripts -> ScriptStates] /\ inits' \subseteq Scripts
  BY <1>1 DEF Answer, Fail, Shown, Appended, Notified, ScriptsOn, TypeOK, ScriptStates,
              pageVars
<1>6. bar' \in BOOLEAN /\ alone' \in BOOLEAN
  BY <1>2, Zenon DEF TypeOK
<1>7. navs' \subseteq Navs /\ fades' \subseteq 1 .. MaxNavs /\ lastFade' \in 0 .. MaxNavs
  <2>1. n.id \in 0 .. MaxNavs
    BY <1>1
  <2> QED
    BY <1>1, <1>2, <2>1 DEF TypeOK
<1>8. clicks' \in 0 .. MaxNavs /\ tabs' \in 0 .. MaxTabs
  BY <1>2 DEF TypeOK
<1> QED
  BY <1>3, <1>4, <1>5, <1>6, <1>7, <1>8 DEF TypeOK

(* A full load starts over with the page it was asked for.                 *)
LEMMA FullLoadFacts ==
    ASSUME TypeOK, FullLoad
    PROVE  TypeOK' /\ navs' = {} /\ content' = Url'
<1> USE PageAssumption
<1>1. leaving \in Pages /\ content' = leaving /\ leaving' = Nowhere /\ navs' = {}
  BY DEF FullLoad, TypeOK
<1>2. /\ entries' \in Seq(Pages) /\ pos' \in 1 .. Len(entries')
      /\ Url' = leaving
  <2>1. CASE leaving = Url
    BY <2>1 DEF FullLoad, TypeOK, Url
  <2>2. CASE leaving # Url
    BY <1>1, <2>2, PushFacts DEF FullLoad
  <2> QED
    BY <2>1, <2>2
<1>3. script' \in [Scripts -> ScriptStates] /\ inits' \subseteq Scripts
  BY DEF FullLoad, Loaded, ScriptsOn, ScriptStates
<1>4. showing' \in BOOLEAN /\ hideTimer' \in BOOLEAN /\ bar' \in BOOLEAN
  BY Zenon DEF FullLoad
<1>5. /\ showTimer' = "off" /\ fades' = {} /\ lastFade' = 0
      /\ UNCHANGED <<clicks, tabs, alone>>
  BY DEF FullLoad, boundVars
<1>6. TypeOK'
  BY <1>1, <1>2, <1>3, <1>4, <1>5 DEF TypeOK
<1> QED
  BY <1>1, <1>2, <1>6

(* The steps that leave the history, the content and the fetches alone.    *)
LEMMA QuietKeeps ==
    ASSUME LoaderInv,
           \/ ClickTab \/ ShowTimerFires \/ HideTimerFires \/ BarFades
           \/ \E s \in Scripts : ScriptRuns(s) \/ ScriptFails(s) \/ Ready(s)
           \/ UNCHANGED vars
    PROVE  LoaderInv'
<1> USE PageAssumption DEF LoaderInv
<1>1. UNCHANGED loadVars /\ UNCHANGED alone
  BY DEF ClickTab, ShowTimerFires, HideTimerFires, BarFades, ScriptRuns, ScriptFails,
         Ready, vars, boundVars
<1>2. TypeOK'
  <2>1. CASE ClickTab
    BY <2>1 DEF ClickTab, ShowDelayed, TypeOK, loadVars, pageVars, barVars
  <2>2. CASE ShowTimerFires \/ HideTimerFires \/ BarFades
    BY <2>2 DEF ShowTimerFires, HideTimerFires, BarFades, Hide, TypeOK, loadVars,
                pageVars, spinVars, barVars, boundVars
  <2>3. ASSUME NEW s \in Scripts, ScriptRuns(s) \/ ScriptFails(s) \/ Ready(s)
        PROVE  TypeOK'
    <3>1. script' \in [Scripts -> ScriptStates] /\ inits' \subseteq Scripts
      BY <2>3 DEF ScriptRuns, ScriptFails, Ready, TypeOK, ScriptStates
    <3> QED
      BY <2>3, <3>1 DEF ScriptRuns, ScriptFails, Ready, TypeOK, loadVars, spinVars,
                        barVars, boundVars
  <2>4. CASE UNCHANGED vars
    BY <2>4 DEF vars, loadVars, pageVars, spinVars, barVars, boundVars, TypeOK
  <2> QED
    BY <2>1, <2>2, <2>3, <2>4
<1> QED
  BY <1>1, <1>2 DEF loadVars, OnlyClicks, OneTravel, Url

-----------------------------------------------------------------------------
(* Each step keeps the invariant.                                          *)
LEMMA StepKeeps == ASSUME LoaderInv, [Next]_vars PROVE LoaderInv'
<1> USE PageAssumption
<1>0. TypeOK /\ (alone => OnlyClicks \/ OneTravel)
  BY DEF LoaderInv
<1>1. ASSUME NEW p \in Pages, Click(p) PROVE LoaderInv'
  <2>1. TypeOK'
    BY <1>0, <1>1, FetchKeepsTypes DEF Click, TypeOK
  <2>2. alone' => alone /\ \A n \in navs : n.push
    BY <1>1, Zenon DEF Click, Fetch
  <2>4. /\ \A n \in navs' : n \in navs \/ n.push
        /\ UNCHANGED <<entries, pos, content, leaving>>
    BY <1>1 DEF Click, Fetch
  <2>3. (\A n \in navs : n.push) => ~OneTravel
    BY DEF OneTravel
  <2> QED
    BY <1>0, <2>1, <2>2, <2>3, <2>4 DEF LoaderInv, OnlyClicks, Url
<1>2. CASE Travel
  <2>1. PICK q \in {pos - 1, pos + 1} \cap DOMAIN entries :
               pos' = q /\ Fetch(entries[q], FALSE)
    BY <1>2 DEF Travel
  <2>2. q \in 1 .. Len(entries) /\ entries[q] \in Pages
    BY <1>0, <2>1 DEF TypeOK
  <2>3. TypeOK'
    BY <1>0, <2>1, <2>2, FetchKeepsTypes
  <2> DEFINE n == [id |-> clicks', page |-> entries[q], push |-> FALSE]
  <2>4. alone' => navs = {}
    BY <2>1, Zenon DEF Fetch
  <2>5. navs' = navs \cup {n} /\ Url' = entries[q]
    BY <2>1 DEF Fetch, Url
  <2>6. n.page = entries[q] /\ ~n.push
    OBVIOUS
  <2> HIDE DEF n
  <2>7. alone' => OneTravel'
    BY <2>4, <2>5, <2>6 DEF OneTravel
  <2> QED
    BY <2>3, <2>7 DEF LoaderInv
<1>3. ASSUME NEW n \in navs, Answer(n) PROVE LoaderInv'
  <2>1. TypeOK'
    BY <1>0, <1>3, AnswerKeepsTypes
  <2>2. n.page \in Pages /\ navs' = navs \ {n} /\ content' = n.page /\ alone' = alone
    BY <1>0, <1>3 DEF Answer, Shown, boundVars, TypeOK, Navs
  <2>3. CASE alone /\ OnlyClicks
    <3>1. PushState(n.page)
      BY <1>3, <2>3 DEF Answer, Shown, OnlyClicks
    <3>2. Url' = n.page
      BY <1>0, <2>2, <3>1, PushFacts
    <3> QED
      BY <2>1, <2>2, <2>3, <3>2 DEF LoaderInv, OnlyClicks
  <2>4. CASE alone /\ OneTravel
    <3>1. navs = {n} /\ ~n.push /\ n.page = Url
      BY <2>4 DEF OneTravel
    <3>2. Url' = Url
      BY <1>3, <3>1 DEF Answer, Shown, Url
    <3> QED
      BY <2>1, <2>2, <3>1, <3>2 DEF LoaderInv, OnlyClicks
  <2> QED
    BY <1>0, <2>1, <2>2, <2>3, <2>4 DEF LoaderInv
<1>4. ASSUME NEW n \in navs, Fail(n) PROVE LoaderInv'
  <2>1. TypeOK'
    BY <1>0, <1>4, AnswerKeepsTypes
  <2>2. leaving' # Nowhere /\ navs' = navs \ {n} /\ alone' = alone
    BY <1>0, <1>4 DEF Fail, FullNavigation, boundVars, TypeOK, Navs
  <2>3. alone => \A m \in navs' : m.push
    BY <1>0, <2>2 DEF OnlyClicks, OneTravel
  <2> QED
    BY <2>1, <2>2, <2>3 DEF LoaderInv, OnlyClicks
<1>5. CASE FullLoad
  BY <1>0, <1>5, FullLoadFacts DEF LoaderInv, OnlyClicks
<1>6. CASE \/ ClickTab \/ ShowTimerFires \/ HideTimerFires \/ BarFades
           \/ \E s \in Scripts : ScriptRuns(s) \/ ScriptFails(s) \/ Ready(s)
           \/ UNCHANGED vars
  BY <1>6, QuietKeeps
<1> QED
  BY <1>1, <1>2, <1>3, <1>4, <1>5, <1>6 DEF Next

(* The invariant holds in every behaviour.                                 *)
LEMMA LoaderInvHolds == DocumentSpec => []LoaderInv
<1>1. DocumentSpec => DocumentInit /\ [][DocumentNext]_documentVars
  BY DEF DocumentSpec, documentVars
<1> QED
  BY <1>1, DocumentBegins, InitEstablishes, LoaderInDocument, StepKeeps, PTL

(* When nothing is on the way the address is that of the content, unless a *)
(* back or forward had company: any number of clicks may overlap (loadPage *)
(* and popstate of base.js).                                               *)
THEOREM AddressIsRight == DocumentSpec => []AddressFitsContent
<1>1. LoaderInv => AddressFitsContent
  BY DEF LoaderInv, OnlyClicks, OneTravel, AddressFitsContent
<1> QED
  BY <1>1, LoaderInvHolds, PTL

-----------------------------------------------------------------------------
(* The panel.                                                              *)

PanelFlags == {visible, isCollecting, registered, misled} \subseteq BOOLEAN

PanelCounts ==
    /\ attempts \in 0 .. maxReconnectAttempts /\ retries \in Nat
    /\ changes \in 0 .. MaxChanges /\ breaks \in 0 .. MaxBreaks

\* What is known of tasks.
PanelTasks ==
    /\ running \subseteq Tasks
    /\ taskId \in Tasks \cup {None}
    /\ saved \in [collecting : BOOLEAN, task : Tasks \cup {None}]
    /\ checks \subseteq Panel!Asked
    /\ ru \in Panel!Page \cup {None}

\* Only an open socket has messages.
PanelSockets ==
    /\ sock \in [Slots -> {"none", "connecting", "open"}]
    /\ inbox \in [Slots -> Seq(Panel!Messages)]
    /\ \A s \in Slots : Len(inbox[s]) <= MaxInbox /\ (sock[s] # "open" => inbox[s] = << >>)
    /\ ws \in Slots \cup {None}

PanelInv == PanelFlags /\ PanelCounts /\ PanelTasks /\ PanelSockets

LEMMA PanelBegins == Panel!Init \/ PanelAtRest => PanelInv
<1> SUFFICES ASSUME Panel!Init \/ PanelAtRest PROVE PanelInv
  OBVIOUS
<1> USE DocumentAssumption DEF Panel!PanelAssumption
<1>1. PanelFlags
  BY Zenon DEF Panel!Init, PanelAtRest, PanelFlags
<1>2. PanelCounts
  BY DEF Panel!Init, PanelAtRest, PanelCounts
<1>3. PanelTasks
  <2>1. /\ running \subseteq Tasks /\ taskId = None /\ checks = {} /\ ru = None
        /\ saved = [collecting |-> FALSE, task |-> None]
    BY DEF Panel!Init, PanelAtRest
  <2> QED
    BY <2>1 DEF PanelTasks
<1>4. PanelSockets
  <2>1. << >> \in Seq(Panel!Messages) /\ Len(<< >>) = 0
    OBVIOUS
  <2>2. /\ inbox = [s \in Slots |-> << >>] /\ ws \in Slots \cup {None}
        /\ sock \in [Slots -> {"none", "connecting", "open"}]
    <3>1. CASE Panel!Init
      <4>1. PICK s \in Slots :
               sock = [r \in Slots |-> IF r = s THEN "connecting" ELSE "none"] /\ ws = s
        BY <3>1 DEF Panel!Init
      <4>2. inbox = [r \in Slots |-> << >>]
        BY <3>1 DEF Panel!Init
      <4> QED
        BY <4>1, <4>2
    <3>2. CASE PanelAtRest
      BY <3>2 DEF PanelAtRest
    <3> QED
      BY <3>1, <3>2
  <2> QED
    BY <2>1, <2>2 DEF PanelSockets
<1> QED
  BY <1>1, <1>2, <1>3, <1>4 DEF PanelInv

\* A message is of one of two shapes, and is handled by its shape.
LEMMA MessageHandled ==
    ASSUME PanelFlags, PanelTasks, NEW m \in Panel!Messages, Panel!handleMessage(m)
    PROVE  /\ {isCollecting', registered', misled'} \subseteq BOOLEAN
           /\ taskId' \in Tasks \cup {None}
           /\ saved' \in [collecting : BOOLEAN, task : Tasks \cup {None}]
           /\ ru' \in Panel!Page \cup {None}
<1>1. CASE m \in [tasks : SUBSET Tasks]
  <2>1. m.tasks \subseteq Tasks /\ Panel!Initial(m.tasks)
    BY <1>1 DEF Panel!handleMessage
  <2>2. CASE m.tasks = {}
    BY <2>1, <2>2 DEF Panel!Initial, Panel!panelVars, Panel!pageVars, PanelFlags, PanelTasks
  <2>3. CASE m.tasks # {}
    <3>1. /\ isCollecting' = TRUE /\ misled' = FALSE /\ taskId' \in Tasks
          /\ saved' = [collecting |-> TRUE, task |-> taskId]
          /\ ru' = IF ru = None THEN None ELSE [task |-> taskId', background |-> TRUE]
          /\ registered' = (registered \/ ru # None)
      BY <2>1, <2>3 DEF Panel!Initial, Panel!setCollecting, Panel!Follow
    <3>2. registered' \in BOOLEAN
      BY <3>1, Zenon DEF PanelFlags
    <3> QED
      BY <3>1, <3>2 DEF PanelTasks, Panel!Page
  <2> QED
    BY <2>2, <2>3
<1>2. CASE m \in [status : Panel!Statuses, task : Tasks]
  <2>1. /\ m.task \in Tasks /\ m.status \in {"collecting", "stopped", "started"}
        /\ "tasks" \notin DOMAIN m
    BY <1>2 DEF Panel!Statuses
  <2>2. Panel!Stopped \/ Panel!Started(m.task) \/ Panel!Collecting(m.task)
    BY <2>1 DEF Panel!handleMessage
  <2>3. /\ isCollecting' \in BOOLEAN /\ misled' = FALSE /\ taskId' \in Tasks \cup {None}
        /\ saved' = [collecting |-> isCollecting', task |-> taskId]
        /\ registered' = registered
    BY <2>1, <2>2 DEF Panel!Stopped, Panel!Started, Panel!Collecting, Panel!setCollecting,
                      Panel!pageVars
  <2>4. ru' \in Panel!Page \cup {None}
    <3>1. /\ [task |-> m.task, background |-> TRUE] \in Panel!Page
          /\ [task |-> None, background |-> FALSE] \in Panel!Page
      BY <2>1 DEF Panel!Page
    <3>2. \/ ru' \in {ru, None}
          \/ ru' = [task |-> m.task, background |-> TRUE]
          \/ ru' = [task |-> None, background |-> FALSE]
      BY <2>2 DEF Panel!Stopped, Panel!Started, Panel!Collecting, Panel!Follow,
                  Panel!pageVars
    <3> QED
      BY <3>1, <3>2 DEF PanelTasks
  <2> QED
    BY <2>3, <2>4 DEF PanelFlags, PanelTasks
<1> QED
  BY <1>1, <1>2 DEF Panel!Messages

\* What a step that stays with the tasks and the page keeps.
LEMMA FlagsKept ==
    ASSUME PanelInv, [Panel!Next]_(Panel!vars)
    PROVE  PanelFlags' /\ PanelTasks'
<1> USE DocumentAssumption DEF Panel!PanelAssumption
<1>0. PanelFlags /\ PanelTasks
  BY DEF PanelInv
<1> DEFINE same == UNCHANGED <<Panel!panelVars, Panel!pageVars, misled>>
<1>1. CASE \E t \in Tasks : Panel!Starts(t) \/ Panel!Stops(t) \/ Panel!Collects(t)
  BY <1>0, <1>1 DEF Panel!Starts, Panel!Stops, Panel!Collects, Panel!Broadcast,
         Panel!panelVars, Panel!pageVars, PanelFlags, PanelTasks
<1>2. CASE Panel!AnswersCheck
  <2>1. PICK k \in checks :
           checks' = (checks \ {k}) \cup
               {[k EXCEPT !.answer = IF k.task \in running THEN "running" ELSE "gone"]}
    BY <1>2 DEF Panel!AnswersCheck
  <2>2. checks' \subseteq Panel!Asked
    <3>1. k \in Panel!Asked
      BY <1>0 DEF PanelTasks
    <3>2. [k EXCEPT !.answer = IF k.task \in running THEN "running" ELSE "gone"]
              \in Panel!Asked
      BY <3>1 DEF Panel!Asked
    <3> QED
      BY <1>0, <2>1, <3>2 DEF PanelTasks
  <2>3. UNCHANGED <<running, visible, Panel!panelVars, Panel!pageVars, misled>>
    BY <1>2 DEF Panel!AnswersCheck
  <2> QED
    BY <1>0, <2>2, <2>3 DEF Panel!panelVars, Panel!pageVars, PanelFlags, PanelTasks
<1>3. CASE Panel!CheckAnswered
  <2>1. PICK k \in checks :
           /\ isCollecting' = (k.answer = "running")
           /\ saved' = [collecting |-> isCollecting', task |-> taskId]
           /\ misled' = (k.answer = "running" /\ (k.task \notin running \/ k.task # taskId))
           /\ checks' = checks \ {k}
           /\ UNCHANGED <<running, visible, taskId, Panel!pageVars>>
    BY <1>3 DEF Panel!CheckAnswered
  <2>2. {isCollecting', misled'} \subseteq BOOLEAN
    BY <2>1, Zenon
  <2> QED
    BY <1>0, <2>1, <2>2 DEF Panel!pageVars, PanelFlags, PanelTasks
<1>4. CASE Panel!CheckFails
  BY <1>0, <1>4 DEF Panel!CheckFails, Panel!panelVars, Panel!pageVars, PanelFlags, PanelTasks
<1>5. ASSUME NEW s \in Slots, Panel!Receive(s) PROVE PanelFlags' /\ PanelTasks'
  <2>1. Head(inbox[s]) \in Panel!Messages
    BY <1>5 DEF Panel!Receive, PanelInv, PanelSockets
  <2>2. Panel!handleMessage(Head(inbox[s])) /\ UNCHANGED <<running, visible, checks>>
    BY <1>5 DEF Panel!Receive
  <2>3. /\ {isCollecting', registered', misled'} \subseteq BOOLEAN
        /\ taskId' \in Tasks \cup {None}
        /\ saved' \in [collecting : BOOLEAN, task : Tasks \cup {None}]
        /\ ru' \in Panel!Page \cup {None}
    BY <1>0, <2>1, <2>2, MessageHandled
  <2> QED
    BY <1>0, <2>2, <2>3 DEF PanelFlags, PanelTasks
<1>6. ASSUME NEW s \in Slots, Panel!Opens(s) PROVE PanelFlags' /\ PanelTasks'
  <2>1. checks' \subseteq Panel!Asked
    <3>1. taskId # None => [task |-> taskId, answer |-> "none"] \in Panel!Asked
      BY <1>0 DEF PanelTasks, Panel!Asked
    <3> QED
      BY <1>0, <1>6, <3>1 DEF Panel!Opens, Panel!ChecksOnOpen, PanelTasks
  <2> QED
    BY <1>0, <1>6, <2>1 DEF Panel!Opens, Panel!panelVars, Panel!pageVars, PanelFlags,
                            PanelTasks
<1>7. ASSUME NEW s \in Slots, Panel!Closes(s, "lost") \/ Panel!Closes(s, "ended")
      PROVE  PanelFlags' /\ PanelTasks'
  BY <1>0, <1>7 DEF Panel!Closes, Panel!panelVars, Panel!pageVars, PanelFlags, PanelTasks
<1>8. CASE Panel!RetryTimer \/ Panel!Hidden \/ Panel!Shown
  BY <1>0, <1>8 DEF Panel!RetryTimer, Panel!Hidden, Panel!Shown, Panel!panelVars,
                    Panel!pageVars, PanelFlags, PanelTasks
<1>9. CASE Panel!Reload
  <2>1. isCollecting' \in BOOLEAN
    BY <1>9, Zenon DEF Panel!Reload
  <2>2. taskId' \in Tasks \cup {None}
    BY <1>0, <1>9 DEF Panel!Reload, PanelTasks
  <2>3. /\ visible' = TRUE /\ registered' = FALSE /\ misled' = FALSE /\ checks' = {}
        /\ ru' = None /\ UNCHANGED <<running, saved>>
    BY <1>9 DEF Panel!Reload
  <2> QED
    BY <1>0, <2>1, <2>2, <2>3 DEF PanelFlags, PanelTasks
<1>10. CASE Panel!OpenPage
  <2>1. registered' \in BOOLEAN
    BY <1>0, <1>10, Zenon DEF Panel!OpenPage, PanelFlags
  <2> DEFINE task == IF taskId # None THEN taskId ELSE IF ru = None THEN None ELSE ru.task
             bg == taskId # None \/ (ru # None /\ ru.background)
  <2>2. ru' = [task |-> task, background |-> bg]
    BY <1>10 DEF Panel!OpenPage
  <2>3. task \in Tasks \cup {None}
    BY <1>0 DEF PanelTasks, Panel!Page
  <2>4. bg \in BOOLEAN
    OBVIOUS
  <2> HIDE DEF task, bg
  <2>5. ru' \in Panel!Page
    BY <2>2, <2>3, <2>4 DEF Panel!Page
  <2>6. UNCHANGED <<running, visible, Panel!panelVars, checks, misled>>
    BY <1>10 DEF Panel!OpenPage
  <2> QED
    BY <1>0, <2>1, <2>5, <2>6 DEF Panel!panelVars, PanelFlags, PanelTasks
<1>11. CASE UNCHANGED Panel!vars
  BY <1>0, <1>11 DEF Panel!vars, Panel!panelVars, Panel!pageVars, PanelFlags, PanelTasks
<1> QED
  BY <1>1, <1>2, <1>3, <1>4, <1>5, <1>6, <1>7, <1>8, <1>9, <1>10, <1>11 DEF Panel!Next

LEMMA SocketsKept ==
    ASSUME PanelInv, [Panel!Next]_(Panel!vars)
    PROVE  PanelCounts' /\ PanelSockets'
<1> USE DocumentAssumption DEF Panel!PanelAssumption
<1>0. PanelCounts /\ PanelSockets
  BY DEF PanelInv
<1>1. ASSUME NEW t \in Tasks, NEW m \in Panel!Statuses, Panel!Broadcast(m, t)
      PROVE  PanelSockets' /\ UNCHANGED <<attempts, retries, breaks>>
  <2>1. [status |-> m, task |-> t] \in Panel!Messages
    BY DEF Panel!Messages
  <2>2. ASSUME NEW s \in Slots
        PROVE  /\ inbox'[s] \in Seq(Panel!Messages) /\ Len(inbox'[s]) <= MaxInbox
               /\ sock[s] # "open" => inbox'[s] = << >>
    <3>1. /\ inbox[s] \in Seq(Panel!Messages) /\ Len(inbox[s]) < MaxInbox
          /\ sock[s] # "open" => inbox[s] = << >>
      BY <1>0, <1>1 DEF Panel!Broadcast, PanelSockets
    <3>2. inbox'[s] = IF sock[s] = "open"
                      THEN Append(inbox[s], [status |-> m, task |-> t]) ELSE inbox[s]
      BY <1>1 DEF Panel!Broadcast
    <3>3. Len(inbox[s]) \in Nat
      BY <3>1
    <3> QED
      BY <2>1, <3>1, <3>2, <3>3
  <2>3. /\ inbox' = [s \in Slots |-> inbox'[s]]
        /\ UNCHANGED <<sock, ws, attempts, retries, breaks>>
    BY <1>1 DEF Panel!Broadcast
  <2>4. inbox' \in [Slots -> Seq(Panel!Messages)]
    BY <2>2, <2>3
  <2> QED
    BY <1>0, <2>2, <2>3, <2>4 DEF PanelSockets
<1>2. CASE \E t \in Tasks : Panel!Starts(t) \/ Panel!Stops(t) \/ Panel!Collects(t)
  <2>1. \E t \in Tasks, m \in Panel!Statuses : Panel!Broadcast(m, t)
    BY <1>2 DEF Panel!Starts, Panel!Stops, Panel!Collects, Panel!Statuses
  <2>2. changes' \in 0 .. MaxChanges
    BY <1>0, <1>2 DEF Panel!Starts, Panel!Stops, Panel!Collects, PanelCounts
  <2> QED
    BY <1>0, <1>1, <2>1, <2>2 DEF PanelCounts
<1>3. CASE Panel!AnswersCheck \/ Panel!CheckAnswered \/ Panel!CheckFails \/ Panel!OpenPage
  BY <1>0, <1>3 DEF Panel!AnswersCheck, Panel!CheckAnswered, Panel!CheckFails,
         Panel!OpenPage, Panel!sockVars, PanelCounts, PanelSockets
<1>4. ASSUME NEW s \in Slots, Panel!Receive(s) PROVE PanelCounts' /\ PanelSockets'
  <2>1. /\ inbox' = [inbox EXCEPT ![s] = Tail(inbox[s])] /\ inbox[s] # << >>
        /\ UNCHANGED <<sock, ws, attempts, retries, changes, breaks>>
    BY <1>4 DEF Panel!Receive
  <2>2. inbox[s] \in Seq(Panel!Messages) /\ Len(inbox[s]) <= MaxInbox /\ sock[s] = "open"
    BY <1>0, <2>1 DEF PanelSockets
  <2>3. Tail(inbox[s]) \in Seq(Panel!Messages) /\ Len(Tail(inbox[s])) <= MaxInbox
    BY <2>1, <2>2
  <2> QED
    BY <1>0, <2>1, <2>2, <2>3 DEF PanelCounts, PanelSockets
<1>5. ASSUME NEW s \in Slots, Panel!Opens(s) PROVE PanelCounts' /\ PanelSockets'
  <2>1. [tasks |-> running] \in Panel!Messages
    BY DEF PanelInv, PanelTasks, Panel!Messages
  <2>2. <<[tasks |-> running]>> \in Seq(Panel!Messages) /\ Len(<<[tasks |-> running]>>) = 1
    BY <2>1
  <2>3. /\ inbox' = [inbox EXCEPT ![s] = <<[tasks |-> running]>>]
        /\ sock' = [sock EXCEPT ![s] = "open"]
        /\ attempts' = 0 /\ UNCHANGED <<ws, retries, changes, breaks>>
    BY <1>5 DEF Panel!Opens
  <2> HIDE <1>5
  <2> QED
    BY <1>0, <2>2, <2>3 DEF PanelCounts, PanelSockets
<1>6. ASSUME NEW s \in Slots, Panel!Closes(s, "lost") \/ Panel!Closes(s, "ended")
      PROVE  PanelCounts' /\ PanelSockets'
  <2>1. << >> \in Seq(Panel!Messages) /\ Len(<< >>) = 0
    OBVIOUS
  <2>2. PanelCounts'
    BY <1>0, <1>6 DEF Panel!Closes, PanelCounts
  <2>3. /\ sock' = [sock EXCEPT ![s] = "none"] /\ ws' = None
        /\ inbox' = [inbox EXCEPT ![s] = << >>]
    BY <1>6 DEF Panel!Closes
  <2>4. PanelSockets'
    <3>1. \A r \in Slots : /\ inbox'[r] \in {inbox[r], << >>}
                            /\ sock'[r] # sock[r] => inbox'[r] = << >>
      BY <1>0, <2>3 DEF PanelSockets
    <3>2. /\ inbox' \in [Slots -> Seq(Panel!Messages)]
          /\ sock' \in [Slots -> {"none", "connecting", "open"}]
      BY <1>0, <2>1, <2>3 DEF PanelSockets
    <3> QED
      BY <1>0, <2>1, <2>3, <3>1, <3>2 DEF PanelSockets
  <2> QED
    BY <2>2, <2>4
<1>7. ASSUME Panel!connect, UNCHANGED inbox PROVE PanelSockets'
  BY <1>0, <1>7 DEF Panel!connect, Panel!Free, PanelSockets
<1>8. CASE Panel!RetryTimer
  <2>1. PanelCounts'
    BY <1>0, <1>8 DEF Panel!RetryTimer, PanelCounts
  <2>2. UNCHANGED inbox /\ (Panel!connect \/ UNCHANGED <<sock, ws>>)
    BY <1>8 DEF Panel!RetryTimer
  <2>3. CASE UNCHANGED <<sock, ws>>
    BY <1>0, <2>1, <2>2, <2>3 DEF PanelSockets
  <2> QED
    BY <1>7, <2>1, <2>2, <2>3
<1>9. CASE Panel!Shown
  <2>1. PanelCounts'
    BY <1>0, <1>9 DEF Panel!Shown, PanelCounts
  <2>2. UNCHANGED inbox /\ (Panel!connect \/ UNCHANGED <<sock, ws>>)
    BY <1>9 DEF Panel!Shown
  <2>3. CASE UNCHANGED <<sock, ws>>
    BY <1>0, <2>1, <2>2, <2>3 DEF PanelSockets
  <2> QED
    BY <1>7, <2>1, <2>2, <2>3
<1>10. CASE Panel!Hidden
  BY <1>0, <1>10 DEF Panel!Hidden, Panel!sockVars, PanelCounts, PanelSockets
<1>11. CASE Panel!Reload
  <2>1. << >> \in Seq(Panel!Messages) /\ Len(<< >>) = 0
    OBVIOUS
  <2>2. PanelCounts'
    BY <1>0, <1>11 DEF Panel!Reload, PanelCounts
  <2>3. PanelSockets'
    BY <1>11, <2>1 DEF Panel!Reload, PanelSockets
  <2> QED
    BY <2>2, <2>3
<1>12. CASE UNCHANGED Panel!vars
  BY <1>0, <1>12 DEF Panel!vars, Panel!sockVars, PanelCounts, PanelSockets
<1> QED
  BY <1>2, <1>3, <1>4, <1>5, <1>6, <1>8, <1>9, <1>10, <1>11, <1>12 DEF Panel!Next

LEMMA PanelInvHolds == DocumentSpec => []PanelInv
<1>1. DocumentSpec => DocumentInit /\ [][DocumentNext]_documentVars
  BY DEF DocumentSpec, documentVars
<1>2. PanelInv /\ [DocumentNext]_documentVars => PanelInv'
  BY PanelInDocument, FlagsKept, SocketsKept DEF PanelInv
<1> QED
  BY <1>1, <1>2, DocumentBegins, PanelBegins, PTL

-----------------------------------------------------------------------------
(* Numbers and series.                                                     *)

(* What holds of 0 and passes from each number to the next holds of every  *)
(* number: else adding one would put a finite set into a smaller one.      *)
LEMMA SetInduction ==
    ASSUME NEW S, 0 \in S, \A n \in Nat : n \in S => n + 1 \in S
    PROVE  Nat \subseteq S
<1> SUFFICES ASSUME NEW m \in Nat, m \notin S PROVE FALSE
  OBVIOUS
<1> DEFINE T == S \cap (0 .. m)
           next == [n \in T |-> n + 1]
<1>1. IsFiniteSet(T) /\ 0 \in T
  <2>1. IsFiniteSet(0 .. m)
    BY FS_Interval
  <2>2. T \in SUBSET (0 .. m) /\ 0 \in T
    OBVIOUS
  <2> HIDE DEF T
  <2> QED
    BY <2>1, <2>2, FS_Subset
<1>2. IsFiniteSet(T \ {0}) /\ Cardinality(T \ {0}) < Cardinality(T)
  <2>1. Cardinality(T) \in Nat
    BY <1>1, FS_CardinalityType
  <2>2. IsFiniteSet(T \ {0}) /\ Cardinality(T \ {0}) = Cardinality(T) - 1
    BY <1>1, FS_RemoveElement
  <2> QED
    BY <2>1, <2>2
<1>3. next \in [T -> T \ {0}]
  <2>1. ASSUME NEW n \in T PROVE n + 1 \in T \ {0}
    <3>1. n \in Nat /\ n # m /\ n + 1 \in S
      OBVIOUS
    <3> QED
      BY <3>1
  <2> QED
    BY <2>1
<1>4. \A i, j \in T : next[i] = next[j] => i = j
  OBVIOUS
<1> HIDE DEF T, next
<1> QED
  BY <1>1, <1>2, <1>3, <1>4, FS_PigeonHole

(* The points that are left of a series are some of its own: the function  *)
(* that picks them exists, point by point, and never adds one.             *)
LEMMA SinceFacts ==
    ASSUME NEW S, NEW s \in Seq(S), NEW cutoff
    PROVE  Table!Since(s, cutoff) \in Seq(S) /\ Len(Table!Since(s, cutoff)) <= Len(s)
<1> DEFINE Fits(f, n) == f[n] = IF n = 0 THEN << >>
                 ELSE IF s[n] >= cutoff THEN Append(f[n - 1], s[n]) ELSE f[n - 1]
           Built == {m \in Nat : m <= Len(s) =>
                        \E f \in [0 .. m -> Seq(S)] : \A n \in 0 .. m : Fits(f, n)}
<1>1. 0 \in Built
  <2> DEFINE f == [n \in 0 .. 0 |-> << >>]
  <2>1. f \in [0 .. 0 -> Seq(S)]
    BY << >> \in Seq(S)
  <2>2. \A n \in 0 .. 0 : Fits(f, n)
    OBVIOUS
  <2> HIDE DEF f
  <2> QED
    BY <2>1, <2>2
<1>2. ASSUME NEW m \in Nat, m \in Built PROVE m + 1 \in Built
  <2> SUFFICES ASSUME m + 1 <= Len(s)
               PROVE  \E f \in [0 .. m + 1 -> Seq(S)] : \A n \in 0 .. m + 1 : Fits(f, n)
    OBVIOUS
  <2>1. PICK f \in [0 .. m -> Seq(S)] : \A n \in 0 .. m : Fits(f, n)
    BY <1>2
  <2> DEFINE end == IF s[m + 1] >= cutoff THEN Append(f[m], s[m + 1]) ELSE f[m]
             g == [n \in 0 .. m + 1 |-> IF n = m + 1 THEN end ELSE f[n]]
  <2>2. end \in Seq(S)
    <3>1. f[m] \in Seq(S) /\ s[m + 1] \in S
      OBVIOUS
    <3> QED
      BY <3>1
  <2>3. g \in [0 .. m + 1 -> Seq(S)]
    BY <2>2
  <2>4. ASSUME NEW n \in 0 .. m + 1 PROVE Fits(g, n)
    <3>1. CASE n = m + 1
      <4>1. n # 0 /\ n - 1 = m /\ g[n] = end /\ g[m] = f[m]
        BY <3>1
      <4> QED
        BY <4>1, <3>1
    <3>2. CASE n \in 0 .. m
      <4>1. g[n] = f[n] /\ (n # 0 => n - 1 \in 0 .. m /\ g[n - 1] = f[n - 1])
        BY <3>2
      <4> QED
        BY <2>1, <3>2, <4>1
    <3> QED
      BY <3>1, <3>2
  <2> QED
    BY <2>3, <2>4
<1> DEFINE kept[n \in 0 .. Len(s)] == IF n = 0 THEN << >>
                 ELSE IF s[n] >= cutoff THEN Append(kept[n - 1], s[n]) ELSE kept[n - 1]
<1>3. kept = [n \in 0 .. Len(s) |-> IF n = 0 THEN << >>
                 ELSE IF s[n] >= cutoff THEN Append(kept[n - 1], s[n]) ELSE kept[n - 1]]
  <2>1. Len(s) \in Built
    <3> HIDE DEF Built
    <3> QED
      BY <1>1, <1>2, SetInduction
  <2>2. PICK f \in [0 .. Len(s) -> Seq(S)] : \A n \in 0 .. Len(s) : Fits(f, n)
    BY <2>1
  <2>3. f = [n \in 0 .. Len(s) |-> IF n = 0 THEN << >>
                 ELSE IF s[n] >= cutoff THEN Append(f[n - 1], s[n]) ELSE f[n - 1]]
    BY <2>2
  <2> QED
    BY <2>3
<1>4. Table!Since(s, cutoff) = kept[Len(s)]
  BY DEF Table!Since
<1> HIDE DEF kept
<1> DEFINE Good == {m \in Nat : m <= Len(s) => kept[m] \in Seq(S) /\ Len(kept[m]) <= m}
<1>5. 0 \in Good
  <2>1. kept[0] = << >>
    BY <1>3
  <2>2. kept[0] \in Seq(S) /\ Len(kept[0]) <= 0
    BY <2>1
  <2> QED
    BY <2>2
<1>6. ASSUME NEW m \in Nat, m \in Good PROVE m + 1 \in Good
  <2> SUFFICES ASSUME m + 1 <= Len(s)
               PROVE  kept[m + 1] \in Seq(S) /\ Len(kept[m + 1]) <= m + 1
    OBVIOUS
  <2>1. kept[m] \in Seq(S) /\ Len(kept[m]) <= m /\ s[m + 1] \in S
    BY <1>6
  <2>2. kept[m + 1] = IF s[m + 1] >= cutoff THEN Append(kept[m], s[m + 1]) ELSE kept[m]
    <3>1. m + 1 \in 0 .. Len(s) /\ m + 1 # 0 /\ (m + 1) - 1 = m
      OBVIOUS
    <3> QED
      BY <1>3, <3>1
  <2> QED
    BY <2>1, <2>2
<1>7. Len(s) \in Good
  <2> HIDE DEF Good
  <2> QED
    BY <1>5, <1>6, SetInduction
<1> QED
  BY <1>4, <1>7

(* A point more, or another for the last one, and the oldest gives way.    *)
LEMMA PushedFacts ==
    ASSUME NEW S, NEW s \in Seq(S), Len(s) <= bufferMaxPoints, NEW x \in S
    PROVE  Table!Pushed(s, x) \in Seq(S) /\ Len(Table!Pushed(s, x)) <= bufferMaxPoints
<1> DEFINE added == IF s # << >> /\ Table!Last(s) = x THEN s ELSE Append(s, x)
<1>1. added \in Seq(S) /\ Len(added) <= bufferMaxPoints + 1 /\ Len(added) \in Nat
      /\ bufferMaxPoints \in Nat \ {0}
  BY DocumentAssumption DEF Table!TableAssumption
<1>2. Table!Pushed(s, x) = IF Len(added) > bufferMaxPoints THEN Tail(added) ELSE added
  BY DEF Table!Pushed
<1> HIDE DEF added
<1> QED
  BY <1>1, <1>2

-----------------------------------------------------------------------------
(* The table.                                                              *)

TableFlags == {here, inView, timer, isUpdating, skeleton, wrap} \subseteq BOOLEAN

\* Every row there is comes from some collection, so none is empty.
TableNumbers ==
    /\ clock \in 1 .. MaxTime /\ latest \in [Proxies -> 1 .. MaxTime]
    /\ acts \in 0 .. MaxActs
    /\ selection \subseteq Proxies /\ rowKey \subseteq Proxies
    /\ polls \subseteq [from : [Proxies -> 1 .. MaxTime], ids : SUBSET Proxies]

TableRows ==
    /\ frames \in Seq(Table!Frames)
    /\ {pending, lastData, savedTable, cells} \subseteq Table!RowSets
    /\ restoring \subseteq Table!RowSets

TableSeries ==
    /\ buffer \in [Proxies -> Seq(Table!Times)]
    /\ \A x \in Proxies : Len(buffer[x]) <= bufferMaxPoints

\* The key names the rows there are; behind another page there are none; and
\* the data of the table is that of its rows, but for a change of group.
TableShows ==
    /\ rowKey = DOMAIN cells
    /\ ~here => rowKey = {}
    /\ rowKey # {} => lastData \in {<< >>, cells}

TableInv == TableFlags /\ TableNumbers /\ TableRows /\ TableSeries /\ TableShows

LEMMA RowSetFacts ==
    /\ << >> \in Table!RowSets /\ DOMAIN << >> = {}
    /\ \A x : x \in Table!RowSets <=>
                 \E D \in SUBSET Proxies : x \in [D -> Table!Times \ {0}]
<1>1. {} \in SUBSET Proxies /\ << >> \in [{} -> Table!Times \ {0}] /\ DOMAIN << >> = {}
  OBVIOUS
<1> QED
  BY <1>1 DEF Table!RowSets

LEMMA TableBegins == Table!Init \/ TableAtRest => TableInv
<1> SUFFICES ASSUME Table!Init \/ TableAtRest PROVE TableInv
  OBVIOUS
<1> USE DocumentAssumption DEF Table!TableAssumption
<1>1. TableFlags
  BY Zenon DEF Table!Init, TableAtRest, TableFlags
<1>2. TableNumbers
  BY DEF Table!Init, TableAtRest, TableNumbers
<1>3. TableRows
  BY RowSetFacts DEF Table!Init, TableAtRest, TableRows, Table!NoRows
<1>4. TableSeries
  <2>1. << >> \in Seq(Table!Times) /\ Len(<< >>) = 0
    OBVIOUS
  <2>2. buffer = [x \in Proxies |-> << >>]
    BY DEF Table!Init, TableAtRest
  <2>3. \A x \in Proxies : buffer[x] = << >> /\ Len(buffer[x]) <= bufferMaxPoints
    BY <2>1, <2>2
  <2> QED
    BY <2>1, <2>2, <2>3 DEF TableSeries
<1>5. TableShows
  BY RowSetFacts DEF Table!Init, TableAtRest, TableShows, Table!NoRows
<1> QED
  BY <1>1, <1>2, <1>3, <1>4, <1>5 DEF TableInv

LEMMA TableFlagsKept ==
    ASSUME TableInv, [Table!Next]_(Table!vars)
    PROVE  TableFlags'
<1>0. TableFlags
  BY DEF TableInv
<1>1. CASE Table!Completed \/ \E k \in polls : Table!Receive(k) \/ Table!ReceiveSome(k)
  BY <1>0, <1>1 DEF Table!Completed, Table!Receive, Table!ReceiveSome, Table!Received,
                    Table!drawVars, Table!tableVars, Table!userVars, TableFlags
<1>2. CASE Table!UpdateTimer \/ Table!SkeletonTimer
  BY <1>0, <1>2 DEF Table!UpdateTimer, Table!SkeletonTimer, Table!showSkeleton,
                    Table!drawVars, Table!tableVars, Table!userVars, TableFlags
<1>3. CASE Table!Frame
  BY <1>0, <1>3 DEF Table!Frame, Table!doUpdate, Table!updateTable,
                    Table!tableVars, Table!userVars, TableFlags
<1>4. CASE \E S \in SUBSET Proxies : Table!SelectProxies(S) \/ Table!ChangeGroup(S)
  BY <1>0, <1>4 DEF Table!SelectProxies, Table!ChangeGroup, Table!showSkeleton,
                    Table!drawVars, Table!tableVars, Table!userVars, TableFlags
<1>5. CASE \/ Table!Leave \/ Table!Return \/ Table!Resync \/ Table!Hidden \/ Table!Shown
           \/ UNCHANGED Table!vars
  BY <1>0, <1>5 DEF Table!Leave, Table!Return, Table!Resync, Table!Hidden, Table!Shown,
                    Table!vars, Table!drawVars, Table!tableVars, Table!userVars, TableFlags
<1>6. ASSUME NEW rows \in restoring, Table!Restore(rows) PROVE TableFlags'
  BY <1>0, <1>6 DEF Table!Restore, Table!showSkeleton, TableFlags
<1> QED
  BY <1>1, <1>2, <1>3, <1>4, <1>5, <1>6 DEF Table!Next

LEMMA TableNumbersKept ==
    ASSUME TableInv, [Table!Next]_(Table!vars)
    PROVE  TableNumbers'
<1> USE DocumentAssumption DEF Table!TableAssumption
<1>0. TableNumbers /\ TableRows
  BY DEF TableInv
<1>1. CASE Table!Completed
  <2>1. clock' \in 1 .. MaxTime
    BY <1>0, <1>1 DEF Table!Completed, TableNumbers
  <2>2. latest' \in [Proxies -> 1 .. MaxTime]
    BY <1>0, <1>1, <2>1 DEF Table!Completed, TableNumbers
  <2>3. [from |-> latest', ids |-> Table!Selected]
            \in [from : [Proxies -> 1 .. MaxTime], ids : SUBSET Proxies]
    BY <1>0, <2>2 DEF Table!Selected, TableNumbers
  <2>4. polls' \subseteq polls \cup {[from |-> latest', ids |-> Table!Selected]}
    BY <1>1 DEF Table!Completed
  <2>5. UNCHANGED <<acts, selection, rowKey>>
    BY <1>1 DEF Table!Completed, Table!tableVars, Table!userVars
  <2> QED
    BY <1>0, <2>1, <2>2, <2>3, <2>4, <2>5 DEF TableNumbers
<1>2. CASE \E k \in polls : Table!Receive(k) \/ Table!ReceiveSome(k)
  <2>1. /\ polls' \subseteq polls /\ UNCHANGED <<clock, latest, selection, rowKey>>
        /\ acts' \in {acts, acts + 1} /\ acts' \in 0 .. MaxActs
    BY <1>0, <1>2 DEF Table!Receive, Table!ReceiveSome, Table!Received, Table!tableVars,
                      Table!userVars, TableNumbers
  <2> QED
    BY <1>0, <2>1 DEF TableNumbers
<1>3. CASE Table!UpdateTimer \/ Table!SkeletonTimer
  BY <1>0, <1>3 DEF Table!UpdateTimer, Table!SkeletonTimer, Table!showSkeleton,
                    Table!drawVars, Table!tableVars, Table!userVars, TableNumbers
<1>4. CASE Table!Frame
  <2>1. UNCHANGED <<clock, latest, polls, selection, acts>>
    BY <1>4 DEF Table!Frame, Table!userVars
  <2>2. rowKey' \in {rowKey, DOMAIN Head(frames).rows}
    BY <1>4 DEF Table!Frame, Table!doUpdate, Table!patchCells, Table!buildTable,
                Table!tableVars
  <2>3. DOMAIN Head(frames).rows \subseteq Proxies
    <3>1. Head(frames) \in Table!Frames
      BY <1>0, <1>4 DEF Table!Frame, TableRows
    <3>2. Head(frames).rows \in Table!RowSets
      BY <3>1 DEF Table!Frames
    <3> QED
      BY <3>2, RowSetFacts
  <2> QED
    BY <1>0, <2>1, <2>2, <2>3 DEF TableNumbers
<1>5. CASE \E S \in SUBSET Proxies : Table!SelectProxies(S) \/ Table!ChangeGroup(S)
  BY <1>0, <1>5 DEF Table!SelectProxies, Table!ChangeGroup, Table!showSkeleton, Table!Acts,
                    TableNumbers
<1>6. CASE Table!Resync
  <2>1. [from |-> latest, ids |-> Table!Selected]
            \in [from : [Proxies -> 1 .. MaxTime], ids : SUBSET Proxies]
    BY <1>0 DEF Table!Selected, TableNumbers
  <2> QED
    BY <1>0, <1>6, <2>1 DEF Table!Resync, Table!Acts, Table!tableVars, TableNumbers
<1>7. CASE \/ Table!Leave \/ Table!Return \/ Table!Hidden \/ Table!Shown
           \/ UNCHANGED Table!vars
  BY <1>0, <1>7 DEF Table!Leave, Table!Return, Table!Hidden, Table!Shown, Table!Acts,
                    Table!vars, Table!drawVars, Table!tableVars, Table!userVars,
                    TableNumbers
<1>8. ASSUME NEW rows \in restoring, Table!Restore(rows) PROVE TableNumbers'
  <2>1. /\ selection' \in {selection, {}} /\ rowKey' \in {rowKey, {}}
        /\ UNCHANGED <<clock, latest, polls, acts>>
    BY <1>8 DEF Table!Restore, Table!showSkeleton
  <2> QED
    BY <1>0, <2>1 DEF TableNumbers
<1> QED
  BY <1>1, <1>2, <1>3, <1>4, <1>5, <1>6, <1>7, <1>8 DEF Table!Next

LEMMA TableRowsKept ==
    ASSUME TableInv, [Table!Next]_(Table!vars)
    PROVE  TableRows'
<1> USE DocumentAssumption DEF Table!TableAssumption
<1>0. TableNumbers /\ TableRows /\ TableShows
  BY DEF TableInv
<1>1. ASSUME NEW d \in {"completed", "resync", "draw"}, NEW r \in Table!RowSets
      PROVE  Append(frames, [do |-> d, rows |-> r]) \in Seq(Table!Frames)
  <2>1. [do |-> d, rows |-> r] \in Table!Frames
    BY DEF Table!Frames
  <2> QED
    BY <1>0, <2>1 DEF TableRows
<1>2. CASE Table!Completed
  BY <1>0, <1>2 DEF Table!Completed, Table!drawVars, Table!tableVars, Table!userVars,
                    TableRows
<1>3. ASSUME NEW k \in polls, NEW answered \in SUBSET k.ids,
             Table!Received(k, answered, "completed"), UNCHANGED restoring
      PROVE  TableRows'
  <2>1. PICK rows \in Table!RowsOf(k, answered) :
               frames' = IF Table!IsEmpty(rows) THEN frames
                         ELSE Append(frames, [do |-> "completed", rows |-> rows])
    BY <1>3 DEF Table!Received
  <2>2. rows \in Table!RowSets
    <3>1. /\ answered \in SUBSET Proxies
          /\ k.from \in [Proxies -> 1 .. MaxTime] /\ latest \in [Proxies -> 1 .. MaxTime]
      BY <1>0 DEF TableNumbers
    <3>2. /\ rows \in [answered -> Table!Times]
          /\ \A x \in answered : rows[x] \in k.from[x] .. latest[x]
      BY DEF Table!RowsOf
    <3>3. \A x \in answered : rows[x] \in Table!Times \ {0}
      BY <3>1, <3>2 DEF Table!Times
    <3>4. rows \in [answered -> Table!Times \ {0}]
      BY <3>2, <3>3
    <3> QED
      BY <3>1, <3>4, RowSetFacts
  <2>3. UNCHANGED <<pending, lastData, savedTable, cells, restoring>>
    BY <1>3 DEF Table!Received, Table!tableVars
  <2> QED
    BY <1>0, <1>1, <2>1, <2>2, <2>3 DEF TableRows
<1>4. CASE \E k \in polls : Table!Receive(k) \/ Table!ReceiveSome(k)
  BY <1>3, <1>4 DEF Table!Receive, Table!ReceiveSome, Table!userVars
<1>5. CASE Table!UpdateTimer
  BY <1>0, <1>1, <1>5, RowSetFacts DEF Table!UpdateTimer, Table!tableVars, Table!userVars,
         Table!NoRows, TableRows
<1>6. CASE Table!SkeletonTimer
  BY <1>0, <1>6, RowSetFacts DEF Table!SkeletonTimer, Table!showSkeleton, Table!drawVars,
         Table!NoRows, TableRows
<1>7. CASE Table!Frame
  <2>1. frames # << >> /\ frames' = Tail(frames) /\ Head(frames) \in Table!Frames
    BY <1>0, <1>7 DEF Table!Frame, TableRows
  <2>6. UNCHANGED restoring
    BY <1>7 DEF Table!Frame, Table!userVars
  <2>2. frames' \in Seq(Table!Frames)
    BY <1>0, <2>1 DEF TableRows
  <2>3. Head(frames).rows \in Table!RowSets
    BY <2>1 DEF Table!Frames
  <2>4. CASE Head(frames).do # "draw"
    <3>1. UNCHANGED <<lastData, savedTable, cells>> /\ pending' = Head(frames).rows
      BY <1>7, <2>4 DEF Table!Frame, Table!updateTable, Table!tableVars
    <3> QED
      BY <1>0, <2>2, <2>3, <2>6, <3>1 DEF TableRows
  <2>5. CASE Head(frames).do = "draw"
    <3>1. UNCHANGED pending /\ Table!doUpdate(Head(frames).rows)
      BY <1>7, <2>5 DEF Table!Frame
    <3>2. {lastData', savedTable'} \subseteq Table!RowSets
      BY <1>0, <2>3, <3>1 DEF Table!doUpdate, TableRows
    <3>3. cells' \in {cells, Head(frames).rows}
      <4>1. CASE rowKey = DOMAIN Head(frames).rows
        <5>1. [x \in DOMAIN cells |-> Head(frames).rows[x]] = Head(frames).rows
          BY <1>0, <2>3, <4>1, RowSetFacts DEF TableShows
        <5> QED
          BY <3>1, <4>1, <5>1 DEF Table!doUpdate, Table!patchCells
      <4>2. CASE rowKey # DOMAIN Head(frames).rows
        BY <3>1, <4>2 DEF Table!doUpdate, Table!buildTable
      <4> QED
        BY <4>1, <4>2
    <3> QED
      BY <1>0, <2>2, <2>3, <2>6, <3>1, <3>2, <3>3 DEF TableRows
  <2> QED
    BY <2>4, <2>5
<1>8. CASE \E S \in SUBSET Proxies : Table!SelectProxies(S) \/ Table!ChangeGroup(S)
  BY <1>0, <1>8, RowSetFacts DEF Table!SelectProxies, Table!ChangeGroup,
         Table!showSkeleton, Table!drawVars, Table!NoRows, TableRows
<1>9. CASE Table!Return
  BY <1>0, <1>9, RowSetFacts DEF Table!Return, Table!drawVars, TableRows
<1>11. ASSUME NEW rows \in restoring, Table!Restore(rows) PROVE TableRows'
  <2>1. /\ frames' = IF Table!IsEmpty(rows) THEN frames
                    ELSE Append(frames, [do |-> "resync", rows |-> rows])
        /\ restoring' \subseteq restoring /\ UNCHANGED <<pending, savedTable>>
        /\ lastData' \in {lastData, << >>} /\ cells' \in {cells, << >>}
    BY <1>11 DEF Table!Restore, Table!showSkeleton, Table!NoRows
  <2> QED
    BY <1>0, <1>1, <2>1, RowSetFacts DEF TableRows
<1>10. CASE \/ Table!Leave \/ Table!Resync \/ Table!Hidden \/ Table!Shown
            \/ UNCHANGED Table!vars
  BY <1>0, <1>10, RowSetFacts DEF Table!Leave, Table!Resync, Table!Hidden, Table!Shown,
         Table!vars, Table!drawVars, Table!tableVars, Table!userVars, Table!NoRows, TableRows
<1> QED
  BY <1>2, <1>4, <1>5, <1>6, <1>7, <1>8, <1>9, <1>10, <1>11 DEF Table!Next

LEMMA TableSeriesKept ==
    ASSUME TableInv, [Table!Next]_(Table!vars)
    PROVE  TableSeries'
<1> USE DocumentAssumption DEF Table!TableAssumption
<1>0. TableSeries /\ TableRows
  BY DEF TableInv
<1>1. UNCHANGED buffer => TableSeries'
  BY <1>0 DEF TableSeries
<1>2. << >> \in Seq(Table!Times) /\ Len(<< >>) = 0
  OBVIOUS
<1>3. ASSUME NEW rows \in Table!RowSets, Table!bufferAppendBatch(rows)
      PROVE  TableSeries'
  <2>1. \A x \in DOMAIN rows : rows[x] \in Table!Times
    BY RowSetFacts
  <2>2. ASSUME NEW x \in Proxies
        PROVE  buffer'[x] \in Seq(Table!Times) /\ Len(buffer'[x]) <= bufferMaxPoints
    <3>1. buffer[x] \in Seq(Table!Times) /\ Len(buffer[x]) <= bufferMaxPoints
      BY <1>0 DEF TableSeries
    <3>2. CASE x \in DOMAIN rows
      <4> DEFINE q == Table!Pushed(buffer[x], rows[x])
      <4>1. q \in Seq(Table!Times) /\ Len(q) <= bufferMaxPoints
        BY <2>1, <3>1, <3>2, PushedFacts
      <4>2. buffer'[x] = Table!Since(q, clock - Window)
        BY <1>3, <3>2 DEF Table!bufferAppendBatch
      <4> HIDE DEF q
      <4>3. buffer'[x] \in Seq(Table!Times) /\ Len(buffer'[x]) <= Len(q)
        BY <4>1, <4>2, SinceFacts
      <4>4. Len(buffer'[x]) \in Nat /\ Len(q) \in Nat
        BY <4>1, <4>3
      <4> QED
        BY <4>1, <4>3, <4>4
    <3>3. CASE x \notin DOMAIN rows
      <4>1. buffer'[x] = buffer[x] \/ buffer'[x] = << >>
        BY <1>3, <3>3 DEF Table!bufferAppendBatch
      <4>2. CASE buffer'[x] = << >>
        <5>1. Len(buffer'[x]) = 0 /\ buffer'[x] \in Seq(Table!Times)
          BY <1>2, <4>2
        <5> QED
          BY <5>1
      <4> QED
        BY <3>1, <4>1, <4>2
    <3> QED
      BY <3>2, <3>3
  <2>3. buffer' = [x \in Proxies |-> buffer'[x]]
    BY <1>3 DEF Table!bufferAppendBatch
  <2> QED
    BY <2>2, <2>3 DEF TableSeries
<1>4. CASE Table!Frame
  <2>1. Head(frames).rows \in Table!RowSets
    <3>1. Head(frames) \in Table!Frames
      BY <1>0, <1>4 DEF Table!Frame, TableRows
    <3> QED
      BY <3>1 DEF Table!Frames
  <2>2. UNCHANGED buffer \/ Table!bufferAppendBatch(Head(frames).rows)
    BY <1>4 DEF Table!Frame
  <2> QED
    BY <1>1, <1>3, <2>1, <2>2
<1>5. CASE Table!Return
  BY <1>2, <1>5 DEF Table!Return, TableSeries
<1>6. ASSUME ~Table!Frame, ~Table!Return PROVE UNCHANGED buffer
  BY <1>6 DEF Table!Next, Table!Completed, Table!Receive, Table!ReceiveSome,
         Table!Received, Table!UpdateTimer, Table!SkeletonTimer, Table!SelectProxies,
         Table!ChangeGroup, Table!Leave, Table!Restore, Table!Resync, Table!Hidden,
         Table!Shown, Table!vars
<1> QED
  BY <1>1, <1>4, <1>5, <1>6

LEMMA TableShowsKept ==
    ASSUME TableInv, [Table!Next]_(Table!vars)
    PROVE  TableShows'
<1>0. TableShows /\ TableRows /\ TableFlags
  BY DEF TableInv
<1>1. CASE /\ UNCHANGED <<cells, rowKey, lastData>>
           /\ here' = here
  BY <1>0, <1>1 DEF TableShows
<1>2. CASE Table!Completed \/ Table!UpdateTimer \/ Table!Resync \/ Table!Hidden
           \/ Table!Shown \/ UNCHANGED Table!vars
           \/ \E k \in polls : Table!Receive(k) \/ Table!ReceiveSome(k)
  BY <1>1, <1>2 DEF Table!Completed, Table!UpdateTimer, Table!Resync, Table!Hidden,
         Table!Shown, Table!vars, Table!Receive, Table!ReceiveSome, Table!Received,
         Table!tableVars, Table!userVars
<1>3. CASE Table!Frame
  <2>1. UNCHANGED here
    BY <1>3 DEF Table!Frame, Table!userVars
  <2>2. CASE Head(frames).do # "draw"
    BY <1>1, <1>3, <2>1, <2>2 DEF Table!Frame, Table!tableVars
  <2>3. CASE Head(frames).do = "draw"
    <3>1. Table!doUpdate(Head(frames).rows)
      BY <1>3, <2>3 DEF Table!Frame
    <3>2. Head(frames).rows \in Table!RowSets
      <4>1. Head(frames) \in Table!Frames
        BY <1>0, <1>3 DEF Table!Frame, TableRows
      <4> QED
        BY <4>1 DEF Table!Frames
    <3>3. CASE ~here
      BY <1>0, <2>1, <3>1, <3>3 DEF Table!doUpdate, TableShows
    <3>4. CASE here /\ rowKey = DOMAIN Head(frames).rows
      <4>1. [x \in DOMAIN cells |-> Head(frames).rows[x]] = Head(frames).rows
        BY <1>0, <3>2, <3>4, RowSetFacts DEF TableShows
      <4> QED
        BY <2>1, <3>1, <3>4, <4>1 DEF Table!doUpdate, Table!patchCells, TableShows
    <3>5. CASE here /\ rowKey # DOMAIN Head(frames).rows
      BY <2>1, <3>1, <3>5 DEF Table!doUpdate, Table!buildTable, TableShows
    <3> QED
      BY <3>3, <3>4, <3>5
  <2> QED
    BY <2>2, <2>3
<1>4. CASE Table!SkeletonTimer \/ \E S \in SUBSET Proxies : Table!SelectProxies(S)
  BY <1>0, <1>4, RowSetFacts DEF Table!SkeletonTimer, Table!SelectProxies,
         Table!showSkeleton, Table!NoRows, TableShows
<1>5. CASE \E S \in SUBSET Proxies : Table!ChangeGroup(S)
  <2>1. /\ here /\ here' = here /\ lastData' = << >>
        /\ \/ UNCHANGED <<cells, rowKey>>
           \/ cells' = << >> /\ rowKey' = {}
    BY <1>5 DEF Table!ChangeGroup, Table!showSkeleton, Table!NoRows
  <2> QED
    BY <1>0, <2>1, RowSetFacts DEF TableShows
<1>6. CASE Table!Leave
  BY <1>6, RowSetFacts DEF Table!Leave, Table!NoRows, TableShows
<1>7. CASE Table!Return
  BY <1>0, <1>7 DEF Table!Return, TableShows
<1>8. ASSUME NEW rows \in restoring, Table!Restore(rows) PROVE TableShows'
  <2>1. /\ here' = here
        /\ \/ UNCHANGED <<cells, rowKey, lastData>>
           \/ here /\ UNCHANGED <<cells, rowKey>> /\ lastData' = << >>
           \/ here /\ cells' = << >> /\ rowKey' = {}
    BY <1>8 DEF Table!Restore, Table!showSkeleton, Table!NoRows
  <2> QED
    BY <1>0, <2>1, RowSetFacts DEF TableShows
<1> QED
  BY <1>2, <1>3, <1>4, <1>5, <1>6, <1>7, <1>8 DEF Table!Next

LEMMA TableInvHolds == DocumentSpec => []TableInv
<1>1. DocumentSpec => DocumentInit /\ [][DocumentNext]_documentVars
  BY DEF DocumentSpec, documentVars
<1>2. TableInv /\ [DocumentNext]_documentVars => TableInv'
  BY TableInDocument, TableFlagsKept, TableNumbersKept, TableRowsKept, TableSeriesKept,
     TableShowsKept DEF TableInv
<1> QED
  BY <1>1, <1>2, DocumentBegins, TableBegins, PTL

(* What the details and the copy take from lastData is what the cells      *)
(* show, though the table is patched in place and drawn late, and though   *)
(* the user comes and goes (doUpdate of resource_usage_heatmap.js).        *)
THEOREM ShownIsTaken == DocumentSpec => []TakesWhatIsShown
<1>1. TableInv => TakesWhatIsShown
  <2> SUFFICES ASSUME TableInv, DOMAIN cells # {}
               PROVE  /\ Table!copyCurrentValues \in {Table!NoRows, cells}
                      /\ \A x \in DOMAIN cells :
                            \/ Table!IsEmpty(Table!openProxyDetail(x))
                            \/ Table!openProxyDetail(x)[x] = cells[x]
    BY DEF TakesWhatIsShown, Table!TakesWhatIsShown, Table!IsEmpty
  <2>1. lastData \in {<< >>, cells}
    BY DEF TableInv, TableShows
  <2>2. CASE lastData = << >>
    BY <2>2 DEF Table!copyCurrentValues, Table!NoRows, Table!IsEmpty,
                Table!openProxyDetail
  <2>3. CASE lastData = cells
    BY <2>3 DEF Table!copyCurrentValues, Table!openProxyDetail
  <2> QED
    BY <2>1, <2>2, <2>3
<1> QED
  BY <1>1, TableInvHolds, PTL

-----------------------------------------------------------------------------
(* Every variable of the document keeps its type (base.js and the scripts  *)
(* of the usage page): the address is always an entry of the history, only *)
(* an open socket has messages, every row is of a collection that took     *)
(* place, and no series outgrows its limit.                                *)
THEOREM TypeCorrect == DocumentSpec => []PartsTypeOK
<1>1. LoaderInv => TypeOK
  BY DEF LoaderInv
<1>2. PanelInv => Panel!TypeOK
  <2>1. PanelFlags => /\ visible \in BOOLEAN /\ isCollecting \in BOOLEAN
                      /\ registered \in BOOLEAN /\ misled \in BOOLEAN
    BY DEF PanelFlags
  <2> QED
    BY <2>1 DEF PanelInv, PanelCounts, PanelTasks, PanelSockets, Panel!TypeOK
<1>3. TableInv => Table!TypeOK
  <2> SUFFICES ASSUME TableInv PROVE Table!TypeOK
    OBVIOUS
  <2>1. /\ here \in BOOLEAN /\ inView \in BOOLEAN /\ timer \in BOOLEAN
        /\ isUpdating \in BOOLEAN /\ skeleton \in BOOLEAN /\ wrap \in BOOLEAN
    BY DEF TableInv, TableFlags
  <2>2. /\ clock \in Table!Times /\ latest \in [Proxies -> Table!Times]
        /\ polls \subseteq Table!Polls
        /\ selection \subseteq Proxies /\ rowKey \subseteq Proxies /\ acts \in 0 .. MaxActs
    <3>1. 1 .. MaxTime \subseteq Table!Times
      BY DEF Table!Times
    <3>2. TableNumbers
      BY DEF TableInv
    <3> QED
      BY <3>1, <3>2 DEF TableNumbers, Table!Polls
  <2> QED
    BY <2>1, <2>2 DEF TableInv, TableRows, TableSeries, Table!TypeOK
<1> QED
  BY <1>1, <1>2, <1>3, LoaderInvHolds, PanelInvHolds, TableInvHolds, PTL DEF PartsTypeOK
=============================================================================
