------------------------------ MODULE MCParts ------------------------------
(***************************************************************************)
(* An instance for TLC of the pages, of the batch files behind the session *)
(* browser and of the database file behind them all.  They share no state  *)
(* that the modules leave open, so each behaviour is one of a single part, *)
(* chosen at the start; the others stay as they begin.  No part is asked   *)
(* to do anything here: there is no fairness, and the properties are       *)
(* invariants.                                                             *)
(***************************************************************************)
EXTENDS DeviceSelector, Sequences, TLC

CONSTANTS
    h, g,       \* hosts of the bulk dialog
    FormProxies, Old, WithOids, Group, None, Texts, FormActs,
    Blank, Stored, Typed, Imported, MaxSaves, SettingsActs,
    Blocks, First, MaxCollects, MaxGrids,
    MaxWatches, MaxPolls,
    MaxLoads, MaxSearches, MaxDeletes, Panels, MaxRuns, MaxActs,
    MaxTime, MaxRows, MaxBatches, IndexSize, TimeSize, ProxySize,
    DbRows, NoDb, MaxDamages, DiskMayFill, MovesMayFail

\* A host twice, once on a line that is no proxy, with another line before.
MCTexts ==
    LET L(host, good) == [host |-> host, good |-> good]
    IN {<< >>, <<L(h, FALSE), L(g, TRUE)>>, <<L(g, TRUE), L(h, FALSE), L(h, TRUE)>>}

VARIABLES
    part,
    saved, grouped, hosts, form, formShown, options, gets, lists, puts, text, preview,
    bulkRows, parse, canSubmit, bulkShown, sent, formActs,
    server, fields, initial, hasChanges, settingsHere, settingsVisit, settingsLoads, filled,
    settingsPuts, outcome, saves, imports, settingsSent, overlap, wiped, cfgStatus,
    settingsActs,
    version, trafficHere, trafficSelection, trafficLoading, collects, trafficMade,
    trafficGrid, grids, reads, blocksShown, mixed, trafficUnheard, trafficActs,
    watchHere, watched, interval, timers, idle, table, calls, watchAnswers, live,
    watches, polls, excused,
    sessionHere, sessionLoading, loads, sessionRecords, sessionGrid, restore, ops, read,
    kept, stamp, analysis, cpu, cpuFetched, fetches, sessionMade, sessionVisits,
    sessionActs, newest, sessionCrossed, sessionTorn, unread, late,
    records, historyVisit, searches, results, lastData, deletes, modal, enhanced, found,
    removed, crossed, unheard, historyActs,
    runs, answered, cache, filter, offered, shown, asked, acts,
    now, files, latest, storeCache, batch, storeAnswers, stage, held, storeNewest, torn,
    unlinked,
    db, wal, recovered, corrupt, unrecoverable, fresh, full, pc, committed, damages,
    unmoved, starved, checkedSince, dayOld, overdue

ofForm == <<saved, grouped, hosts, form, formShown, options, gets, lists, puts, text,
            preview, bulkRows, parse, canSubmit, bulkShown, sent, formActs>>
ofSettings == <<server, fields, initial, hasChanges, settingsHere, settingsVisit,
                settingsLoads, filled, settingsPuts, outcome, saves, imports, settingsSent,
                overlap, wiped, cfgStatus, settingsActs>>
ofTraffic == <<version, trafficHere, trafficSelection, trafficLoading, collects,
               trafficMade, trafficGrid, grids, reads, blocksShown, mixed, trafficUnheard,
               trafficActs>>
ofWatch == <<watchHere, watched, interval, timers, idle, table, calls, watchAnswers, live,
             watches, polls, excused>>
ofSession == <<sessionHere, sessionLoading, loads, sessionRecords, sessionGrid, restore,
               ops, read, kept, stamp, analysis, cpu, cpuFetched, fetches, sessionMade,
               sessionVisits, sessionActs, newest, sessionCrossed, sessionTorn, unread, late>>
ofHistory == <<records, historyVisit, searches, results, lastData, deletes, modal, enhanced,
               found, removed, crossed, unheard, historyActs>>
ofAnalysis == <<runs, answered, cache, filter, offered, shown, asked, acts>>
ofStore == <<now, files, latest, storeCache, batch, storeAnswers, stage, held, storeNewest,
             torn, unlinked>>
ofDb == <<db, wal, recovered, corrupt, unrecoverable, fresh, full, pc, committed, damages,
          unmoved, starved, checkedSince, dayOld, overdue>>

Form == INSTANCE ProxyForm
            WITH Proxies <- FormProxies, MaxActs <- FormActs, shown <- formShown,
                 acts <- formActs
Settings == INSTANCE SettingsPage
            WITH MaxActs <- SettingsActs, form <- fields, here <- settingsHere,
                 visit <- settingsVisit, loads <- settingsLoads, puts <- settingsPuts,
                 sent <- settingsSent, acts <- settingsActs
Traffic == INSTANCE TrafficPage
            WITH here <- trafficHere, selection <- trafficSelection,
                 loading <- trafficLoading, made <- trafficMade, grid <- trafficGrid,
                 shown <- blocksShown, unheard <- trafficUnheard, acts <- trafficActs
Watch == INSTANCE LiveWatch WITH here <- watchHere, answers <- watchAnswers
Session == INSTANCE SessionPage
            WITH here <- sessionHere, loading <- sessionLoading,
                 records <- sessionRecords, grid <- sessionGrid, made <- sessionMade,
                 visits <- sessionVisits, acts <- sessionActs, crossed <- sessionCrossed,
                 torn <- sessionTorn
History == INSTANCE HistoryPage WITH visit <- historyVisit, acts <- historyActs
Analysis == INSTANCE AnalysisPage
Store == INSTANCE SessionStore
            WITH Proxies <- Old, cache <- storeCache, answers <- storeAnswers,
                 newest <- storeNewest
Db == INSTANCE DbRecovery WITH Rows <- DbRows, NoFile <- NoDb

ASSUME PartsAssumption ==
    /\ Form!FormAssumption /\ Settings!SettingsAssumption /\ Traffic!PageAssumption
    /\ Watch!WatchAssumption /\ Session!SessionAssumption /\ History!HistoryAssumption
    /\ Analysis!AnalysisAssumption /\ Store!SizesAssumption
    /\ Db!DamagesAssumption /\ Db!NoFileAssumption

PartsInit ==
    /\ part \in {"selector", "form", "settings", "traffic", "watch", "session", "history",
                 "analysis", "store", "db"}
    /\ Init
    /\ part # "selector" => at = [p \in Proxies |-> CHOOSE x \in Groups : TRUE] /\ ~usage
    /\ Form!Init /\ Settings!Init /\ Traffic!Init /\ Watch!Init
    /\ Session!Init /\ History!Init /\ Analysis!Init /\ Store!Init
    /\ Db!Init

PartsNext ==
    /\ UNCHANGED part
    /\ \/ /\ part = "selector" /\ Next
          /\ UNCHANGED <<ofForm, ofSettings, ofTraffic, ofWatch, ofSession, ofHistory,
                         ofAnalysis, ofStore, ofDb>>
       \/ /\ part = "form" /\ Form!Next
          /\ UNCHANGED <<vars, ofSettings, ofTraffic, ofWatch, ofSession, ofHistory,
                         ofAnalysis, ofStore, ofDb>>
       \/ /\ part = "settings" /\ Settings!Next
          /\ UNCHANGED <<vars, ofForm, ofTraffic, ofWatch, ofSession, ofHistory,
                         ofAnalysis, ofStore, ofDb>>
       \/ /\ part = "traffic" /\ Traffic!Next
          /\ UNCHANGED <<vars, ofForm, ofSettings, ofWatch, ofSession, ofHistory,
                         ofAnalysis, ofStore, ofDb>>
       \/ /\ part = "watch" /\ Watch!Next
          /\ UNCHANGED <<vars, ofForm, ofSettings, ofTraffic, ofSession, ofHistory,
                         ofAnalysis, ofStore, ofDb>>
       \/ /\ part = "session" /\ Session!Next
          /\ UNCHANGED <<vars, ofForm, ofSettings, ofTraffic, ofWatch, ofHistory,
                         ofAnalysis, ofStore, ofDb>>
       \/ /\ part = "history" /\ History!Next
          /\ UNCHANGED <<vars, ofForm, ofSettings, ofTraffic, ofWatch, ofSession,
                         ofAnalysis, ofStore, ofDb>>
       \/ /\ part = "analysis" /\ Analysis!Next
          /\ UNCHANGED <<vars, ofForm, ofSettings, ofTraffic, ofWatch, ofSession,
                         ofHistory, ofStore, ofDb>>
       \/ /\ part = "store" /\ Store!Next
          /\ UNCHANGED <<vars, ofForm, ofSettings, ofTraffic, ofWatch, ofSession,
                         ofHistory, ofAnalysis, ofDb>>
       \/ /\ part = "db" /\ Db!Next
          /\ UNCHANGED <<vars, ofForm, ofSettings, ofTraffic, ofWatch, ofSession,
                         ofHistory, ofAnalysis, ofStore>>

PartsSpec ==
    PartsInit /\ [][PartsNext]_<<part, vars, ofForm, ofSettings, ofTraffic, ofWatch,
                                 ofSession, ofHistory, ofAnalysis, ofStore, ofDb>>

\* Each variable of each part keeps its type.
PartsTypeOK ==
    /\ TypeOK /\ Form!TypeOK /\ Settings!TypeOK /\ Traffic!TypeOK /\ Watch!TypeOK
    /\ Session!TypeOK /\ History!TypeOK /\ Analysis!TypeOK /\ Store!TypeOK
    /\ Db!TypeOK

\* The properties of the parts, stated and explained there.
ProxiesStayApart == Form!ProxiesStayApart
ResultsStayWithRows == Form!ResultsStayWithRows
SavedIsStored == Settings!SavedIsStored
GridIsCurrent == Traffic!GridIsCurrent
EntriesGo == Watch!EntriesGo
ListIsKept == Session!ListIsKept
CpuIsOfAnalysis == Session!CpuIsOfAnalysis
ShowsSurvivors == History!ShowsSurvivors
PanelsAgree == Analysis!PanelsAgree
NewestIsShown == Store!NewestIsShown
DetailsOpen == Store!DetailsOpen
CommittedRowsAreServed == Db!CommittedRowsAreServed
NothingSparedIsDestroyed == Db!NothingSparedIsDestroyed
LaterStartsFindDamage == Db!LaterStartsFindDamage
=============================================================================
