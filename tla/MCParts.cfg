SPECIFICATION PartsSpec
CONSTANTS
    h = h
    g = g
    Proxies = {p, q}
    Groups = {x, y}
    All = All
    Gone = Gone
    MaxVisits = 2
    MaxMoves = 1
    MaxPicks = 1
    FormProxies = {1, 2, 3}
    Old = {1, 2}
    WithOids = {1}
    Group = Group
    None = None
    Texts <- MCTexts
    FormActs = 5
    Blank = Blank
    Stored = Stored
    Typed = Typed
    Imported = Imported
    MaxSaves = 2
    SettingsActs = 1
    Blocks = {0, 1}
    First = 0
    MaxCollects = 2
    MaxGrids = 3
    MaxWatches = 2
    MaxPolls = 3
    MaxLoads = 2
    MaxSearches = 2
    MaxDeletes = 2
    Panels = {s, t}
    MaxRuns = 2
    MaxActs = 3
    MaxTime = 1
    MaxRows = 1
    MaxBatches = 2
    IndexSize = 2
    TimeSize = 4
    ProxySize = 4
    DbRows = {r1, r2}
    NoDb = NoDb
    MaxDamages = 1
    DiskMayFill = TRUE
    MovesMayFail = TRUE
INVARIANTS PartsTypeOK ChoiceIsKept ProxiesStayApart ResultsStayWithRows SavedIsStored
           GridIsCurrent EntriesGo ListIsKept CpuIsOfAnalysis ShowsSurvivors PanelsAgree
           NewestIsShown DetailsOpen CommittedRowsAreServed NothingSparedIsDestroyed
           LaterStartsFindDamage
CHECK_DEADLOCK FALSE
