--------------------------- MODULE CollectorPanel ---------------------------
(***************************************************************************)
(* The browser's end of the status web socket: ResourceUsageCollector of   *)
(* base.js, which lives as long as the document, and the task the usage    *)
(* page follows (window.ru, ResourceUsagePolling).  The server is what     *)
(* CollectionFeed promises: a client is told what runs when it connects    *)
(* and every change from then on, in order.  Sockets drop, tabs are hidden *)
(* and documents reloaded, and a status asked for over HTTP may be         *)
(* overtaken by the messages of the socket.                                *)
(***************************************************************************)
EXTENDS Naturals, Sequences, FiniteSets

CONSTANTS
    Tasks,       \* ids of collection tasks
    Slots,       \* web sockets that may be there at a time
    None,        \* no task, no socket
    maxReconnectAttempts,  \* 5
    MaxInbox,    \* bound on the messages under way in a socket
    MaxChanges,  \* bound on starts and stops
    MaxBreaks    \* bound on drops, refusals, reloads and turns of the tab

PanelAssumption ==
    /\ None \notin Tasks \cup Slots
    /\ {maxReconnectAttempts, MaxChanges, MaxBreaks} \subseteq Nat
    /\ MaxInbox \in Nat \ {0}

\* error changes nothing and completed only calls the page (UsageTable).
Statuses == {"collecting", "stopped", "started"}
Messages == [status : Statuses, task : Tasks] \cup [tasks : SUBSET Tasks]
Asked == [task : Tasks, answer : {"none", "running", "gone"}]

VARIABLES
    running,    \* the server: tasks that run
    sock,       \* what has become of each WebSocket object
    inbox,      \* messages sent to it and not handled
    ws,         \* ResourceUsageCollector.ws
    attempts,   \* reconnectAttempts
    retries,    \* reconnect timers that are set
    visible,    \* document.visibilityState
    isCollecting, taskId,  \* ResourceUsageCollector's, shown in the menu
    saved,      \* ru_collecting and ru_task_id of localStorage
    checks,     \* calls of checkStatus under way
    ru,         \* the task of the usage page, if its script is there
    registered, \* ResourceUsagePolling.onCollectionComplete is set
    misled,     \* history: nothing has been heard from the socket since an
                \* answer to checkStatus was lost, or came too late
    changes, breaks  \* counters of the bounds

sockVars   == <<sock, inbox, ws, attempts, retries>>
panelVars  == <<isCollecting, taskId, saved>>
pageVars   == <<ru, registered>>
vars == <<running, sockVars, visible, panelVars, checks, pageVars, misled,
          changes, breaks>>

Page == [task : Tasks \cup {None}, background : BOOLEAN]

TypeOK ==
    /\ running \subseteq Tasks
    /\ sock \in [Slots -> {"none", "connecting", "open"}]
    /\ inbox \in [Slots -> Seq(Messages)]
    /\ \A s \in Slots : Len(inbox[s]) <= MaxInbox /\ (sock[s] # "open" => inbox[s] = << >>)
    /\ ws \in Slots \cup {None}
    /\ attempts \in 0 .. maxReconnectAttempts /\ retries \in Nat
    /\ visible \in BOOLEAN
    /\ isCollecting \in BOOLEAN /\ taskId \in Tasks \cup {None}
    /\ saved \in [collecting : BOOLEAN, task : Tasks \cup {None}]
    /\ checks \subseteq Asked
    /\ ru \in Page \cup {None} /\ registered \in BOOLEAN
    /\ misled \in BOOLEAN
    /\ changes \in 0 .. MaxChanges /\ breaks \in 0 .. MaxBreaks

Free == {s \in Slots : sock[s] = "none"}
OneSocket == Cardinality(Slots \ Free) <= 1
Connected == \E s \in Slots : sock[s] = "open"

\* The first connection of a document is being made.
Init ==
    /\ running \in SUBSET Tasks
    /\ \E s \in Slots :
          /\ sock = [r \in Slots |-> IF r = s THEN "connecting" ELSE "none"]
          /\ ws = s
    /\ inbox = [s \in Slots |-> << >>]
    /\ attempts = 0 /\ retries = 0 /\ visible = TRUE
    /\ isCollecting = FALSE /\ taskId = None
    /\ saved = [collecting |-> FALSE, task |-> None]
    /\ checks = {} /\ ru = None /\ registered = FALSE /\ misled = FALSE
    /\ changes = 0 /\ breaks = 0

-----------------------------------------------------------------------------
(* The server.                                                             *)

Broadcast(m, t) ==
    /\ \A s \in Slots : Len(inbox[s]) < MaxInbox
    /\ inbox' = [s \in Slots |->
                   IF sock[s] = "open"
                   THEN Append(inbox[s], [status |-> m, task |-> t]) ELSE inbox[s]]
    /\ UNCHANGED <<sock, ws, attempts, retries, visible, panelVars, checks, pageVars,
                   misled, breaks>>

Starts(t) ==
    /\ t \notin running /\ changes < MaxChanges
    /\ running' = running \cup {t} /\ changes' = changes + 1
    /\ Broadcast("started", t)

Stops(t) ==
    /\ t \in running /\ changes < MaxChanges
    /\ running' = running \ {t} /\ changes' = changes + 1
    /\ Broadcast("stopped", t)

\* _periodic_collect: the beginning of a collection.
Collects(t) ==
    /\ t \in running
    /\ Broadcast("collecting", t) /\ UNCHANGED <<running, changes>>

AnswersCheck ==
    \E c \in checks :
        /\ c.answer = "none"
        /\ checks' = (checks \ {c}) \cup
               {[c EXCEPT !.answer = IF c.task \in running THEN "running" ELSE "gone"]}
        /\ UNCHANGED <<running, sockVars, visible, panelVars, pageVars, misled,
                       changes, breaks>>

-----------------------------------------------------------------------------
(* The panel.  setCollecting saves the task id of before the message: the  *)
(* handlers set it afterwards.                                             *)

setCollecting(on) ==
    /\ isCollecting' = on
    /\ saved' = [collecting |-> on, task |-> taskId]
    /\ misled' = FALSE

\* (Mutant: a page that has a task keeps it.)
Follow_OnlyFirst(t) ==
    ru' = IF ru # None /\ ru.task = None THEN [task |-> t, background |-> TRUE] ELSE ru

\* A page that is loaded is told of the task too.
Follow(t) ==
    ru' = IF ru = None THEN None ELSE [task |-> t, background |-> TRUE]

Stopped ==
    /\ setCollecting(FALSE)
    /\ taskId' = None
    /\ ru' = IF ru # None /\ ru.task = taskId
             THEN [task |-> None, background |-> FALSE] ELSE ru
    /\ UNCHANGED registered

Started(t) ==
    /\ setCollecting(TRUE) /\ taskId' = t
    /\ Follow(t) /\ UNCHANGED registered

Collecting(t) ==
    /\ setCollecting(TRUE) /\ taskId' = t
    /\ UNCHANGED pageVars

\* initial_status: the first key is kept, and nothing is said if there is none.
Initial(ts) ==
    IF ts = {} THEN UNCHANGED <<panelVars, pageVars, misled>>
    ELSE /\ setCollecting(TRUE) /\ taskId' \in ts
         /\ Follow(taskId')
         /\ registered' = (registered \/ ru # None)

handleMessage(m) ==
    IF "tasks" \in DOMAIN m THEN Initial(m.tasks)
    ELSE CASE m.status = "stopped" -> Stopped
           [] m.status = "started" -> Started(m.task)
           [] m.status = "collecting" -> Collecting(m.task)

Receive(s) ==
    /\ inbox[s] # << >>
    /\ handleMessage(Head(inbox[s]))
    /\ inbox' = [inbox EXCEPT ![s] = Tail(@)]
    /\ UNCHANGED <<running, sock, ws, attempts, retries, visible, checks,
                   changes, breaks>>

\* The answer to checkStatus comes, whatever the socket has said since.
CheckAnswered ==
    \E c \in checks :
        /\ c.answer # "none" /\ checks' = checks \ {c}
        /\ isCollecting' = (c.answer = "running")
        /\ saved' = [collecting |-> isCollecting', task |-> taskId]
        /\ misled' = (c.answer = "running" /\ (c.task \notin running \/ c.task # taskId))
        /\ UNCHANGED <<running, sockVars, visible, taskId, pageVars, changes, breaks>>

CheckFails ==
    \E c \in checks :
        /\ checks' = checks \ {c} /\ misled' = TRUE
        /\ UNCHANGED <<running, sockVars, visible, panelVars, pageVars, changes, breaks>>

-----------------------------------------------------------------------------
(* Sockets.                                                                *)

\* connect: the object that ws held before is not closed.
connect ==
    \E s \in Free :
        /\ sock' = [sock EXCEPT ![s] = "connecting"]
        /\ ws' = s

\* (Mutant: a socket that opens again asks nothing.)
ChecksOnOpen_Never == checks

\* checkStatus, if a task is thought to run.
ChecksOnOpen ==
    IF isCollecting /\ taskId # None
    THEN checks \cup {[task |-> taskId, answer |-> "none"]} ELSE checks

\* The server has taken the socket, and onopen runs.
Opens(s) ==
    /\ sock[s] = "connecting"
    /\ sock' = [sock EXCEPT ![s] = "open"]
    /\ inbox' = [inbox EXCEPT ![s] = <<[tasks |-> running]>>]
    /\ attempts' = 0
    /\ checks' = ChecksOnOpen
    /\ UNCHANGED <<running, ws, retries, visible, panelVars, pageVars, misled,
                   changes, breaks>>

\* A refusal, a drop or a close by the server; only codes 1000 and 1001 are
\* taken for an end.  After the last attempt nothing tries again.
Closes(s, code) ==
    /\ sock[s] # "none" /\ breaks < MaxBreaks /\ breaks' = breaks + 1
    /\ sock' = [sock EXCEPT ![s] = "none"]
    /\ inbox' = [inbox EXCEPT ![s] = << >>]
    /\ ws' = None
    /\ IF code = "lost" /\ attempts < maxReconnectAttempts
       THEN attempts' = attempts + 1 /\ retries' = retries + 1
       ELSE attempts' = 0 /\ UNCHANGED retries
    /\ UNCHANGED <<running, visible, panelVars, checks, pageVars, misled, changes>>

\* The reconnect timer: in a hidden tab the attempt is given up.
RetryTimer ==
    /\ retries > 0 /\ retries' = retries - 1
    /\ IF visible THEN connect ELSE UNCHANGED <<sock, ws>>
    /\ UNCHANGED <<running, inbox, attempts, visible, panelVars, checks, pageVars,
                   misled, changes, breaks>>

Hidden ==
    /\ visible /\ breaks < MaxBreaks /\ breaks' = breaks + 1
    /\ visible' = FALSE
    /\ UNCHANGED <<running, sockVars, panelVars, checks, pageVars, misled, changes>>

\* A socket is wanted again only while something is thought to be collected.
Shown ==
    /\ ~visible /\ visible' = TRUE
    /\ IF ws = None /\ isCollecting
       THEN connect /\ attempts' = 0 ELSE UNCHANGED <<sock, ws, attempts>>
    /\ UNCHANGED <<running, inbox, retries, panelVars, checks, pageVars, misled,
                   changes, breaks>>

\* beforeunload, then init of the new document from localStorage.
Reload ==
    /\ breaks < MaxBreaks /\ breaks' = breaks + 1
    /\ isCollecting' = (saved.collecting /\ saved.task # None)
    /\ taskId' = IF saved.collecting THEN saved.task ELSE None
    /\ \E s \in Slots :
          /\ sock' = [r \in Slots |-> IF r = s THEN "connecting" ELSE "none"]
          /\ ws' = s
    /\ inbox' = [s \in Slots |-> << >>]
    /\ attempts' = 0 /\ retries' = 0 /\ visible' = TRUE
    /\ checks' = {} /\ ru' = None /\ registered' = FALSE /\ misled' = FALSE
    /\ UNCHANGED <<running, saved, changes>>

-----------------------------------------------------------------------------
(* The usage page.                                                         *)

\* initResourceUsage, on the first visit and on every later one.
OpenPage ==
    /\ LET task == IF taskId # None THEN taskId ELSE IF ru = None THEN None ELSE ru.task
       IN ru' = [task |-> task,
                 background |-> taskId # None \/ (ru # None /\ ru.background)]
    /\ registered' = (registered \/ taskId # None)
    /\ UNCHANGED <<running, sockVars, visible, panelVars, checks, misled, changes, breaks>>

Next ==
    \/ \E t \in Tasks : Starts(t) \/ Stops(t) \/ Collects(t)
    \/ AnswersCheck \/ CheckAnswered \/ CheckFails
    \/ \E s \in Slots :
          Receive(s) \/ Opens(s) \/ Closes(s, "lost") \/ Closes(s, "ended")
    \/ RetryTimer \/ Hidden \/ Shown \/ Reload \/ OpenPage

(***************************************************************************)
(* The server goes on collecting and answers, open sockets deliver, and    *)
(* timers fire.  Nothing obliges users or networks.                        *)
(***************************************************************************)
Fairness ==
    /\ \A t \in Tasks : WF_vars(Collects(t))
    /\ WF_vars(AnswersCheck) /\ WF_vars(CheckAnswered)
    /\ \A s \in Slots : WF_vars(Receive(s)) /\ WF_vars(Opens(s))
    /\ WF_vars(RetryTimer)

Spec == Init /\ [][Next]_vars /\ Fairness

-----------------------------------------------------------------------------
(***************************************************************************)
(* The menu comes to show whether anything is collected.  While some task  *)
(* goes on running and a socket is open it says so: the stop of another    *)
(* task and a late answer to checkStatus put it out only until the next    *)
(* message.  When everything has been stopped, while the tab was connected *)
(* or not, it says that too, although initial_status says nothing then: a  *)
(* stop that was missed is found by checkStatus.  Excepted is a tab whose  *)
(* checkStatus failed, or was answered after a message of the socket had   *)
(* made taskId another, and that has heard nothing since; and a tab with   *)
(* two sockets, which Shown and a retry timer together give it.            *)
(***************************************************************************)
MenuShowsWhatRuns ==
    /\ \A t \in Tasks : <>[](t \in running /\ Connected) => <>[]isCollecting
    /\ []OneSocket => (<>[](running = {} /\ Connected /\ ~misled) => <>[]~isCollecting)

(***************************************************************************)
(* The usage page comes to follow the task that runs, whatever was missed: *)
(* only a completed of its own task makes it fetch rows.  This needs tasks *)
(* that run one at a time and one socket: the stop of a task takes the     *)
(* page from another, and so does a second socket that is still behind.    *)
(***************************************************************************)
PageFollowsTask ==
    [](Cardinality(running) <= 1 /\ OneSocket) =>
        \A t \in Tasks :
            <>[](t \in running /\ Connected /\ ru # None) => <>[](ru # None /\ ru.task = t)
=============================================================================
