----------------------------- MODULE MCDocument -----------------------------
(***************************************************************************)
(* An instance for TLC of what lives in a browser's document: the loader   *)
(* of pages, the collector's panel and the table of the usage page.  They  *)
(* share no state that the modules leave open, so each behaviour is one of *)
(* a single part, chosen at the start; the others stay as they begin.      *)
(***************************************************************************)
EXTENDS PageLoader, TLC

CONSTANTS
    tl, tla, set, logs,     \* scripts, and the page of traffic logs
    Tasks, Slots, None, maxReconnectAttempts, MaxInbox, MaxChanges, MaxBreaks,
    Proxies, bufferMaxPoints, Window, MaxTime, MaxPolls, MaxFrames, MaxActs

MCPageOf == [s \in Scripts |-> IF s = set THEN Home ELSE logs]

VARIABLES
    part,
    running, sock, inbox, ws, attempts, retries, visible, isCollecting, taskId,
    saved, checks, ru, registered, misled, changes, breaks,
    clock, latest, here, inView, selection, restoring, polls, frames, pending, timer,
    isUpdating, skeleton, lastData, savedTable, cells, rowKey, wrap, buffer, acts

ofPanel == <<running, sock, inbox, ws, attempts, retries, visible, isCollecting, taskId,
             saved, checks, ru, registered, misled, changes, breaks>>
ofTable == <<clock, latest, here, inView, selection, restoring, polls, frames, pending, timer,
             isUpdating, skeleton, lastData, savedTable, cells, rowKey, wrap, buffer, acts>>

Panel == INSTANCE CollectorPanel
Table == INSTANCE UsageTable WITH visible <- inView, saved <- savedTable

ASSUME DocumentAssumption == Panel!PanelAssumption /\ Table!TableAssumption

\* A part that is not chosen stands still where no timer is set and nothing
\* is due, so that its fairness asks for nothing.
PanelAtRest ==
    /\ running = {} /\ sock = [s \in Slots |-> "none"] /\ inbox = [s \in Slots |-> << >>]
    /\ ws = None /\ attempts = 0 /\ retries = 0 /\ visible = TRUE
    /\ isCollecting = FALSE /\ taskId = None
    /\ saved = [collecting |-> FALSE, task |-> None]
    /\ checks = {} /\ ru = None /\ registered = FALSE /\ misled = FALSE
    /\ changes = 0 /\ breaks = 0

TableAtRest ==
    /\ clock = MaxTime /\ latest = [x \in Proxies |-> MaxTime]
    /\ here = FALSE /\ inView = TRUE /\ selection = {} /\ restoring = {}
    /\ polls = {} /\ frames = << >> /\ pending = << >> /\ timer = FALSE
    /\ isUpdating = FALSE /\ skeleton = FALSE
    /\ lastData = << >> /\ savedTable = << >> /\ cells = << >> /\ rowKey = {}
    /\ wrap = FALSE /\ buffer = [x \in Proxies |-> << >>] /\ acts = 0

DocumentInit ==
    /\ Init
    /\ \/ part = "loader" /\ PanelAtRest /\ TableAtRest
       \/ part = "panel" /\ Panel!Init /\ TableAtRest
       \/ part = "table" /\ PanelAtRest /\ Table!Init

DocumentNext ==
    /\ UNCHANGED part
    /\ \/ part = "loader" /\ Next /\ UNCHANGED <<ofPanel, ofTable>>
       \/ part = "panel" /\ Panel!Next /\ UNCHANGED <<vars, ofTable>>
       \/ part = "table" /\ Table!Next /\ UNCHANGED <<vars, ofPanel>>

DocumentSpec ==
    /\ DocumentInit /\ [][DocumentNext]_<<part, vars, ofPanel, ofTable>>
    /\ Fairness /\ Panel!Fairness /\ Table!Fairness

PartsTypeOK == TypeOK /\ Panel!TypeOK /\ Table!TypeOK
MenuShowsWhatRuns == Panel!MenuShowsWhatRuns
PageFollowsTask == Panel!PageFollowsTask
TableFollowsSelection == Table!TableFollowsSelection
TakesWhatIsShown == Table!TakesWhatIsShown
=============================================================================
