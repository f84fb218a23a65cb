SPECIFICATION DocumentSpec
CONSTANTS
    set = set
    tl = tl
    tla = tla
    logs = logs
    Pages = {home, logs}
    Home = home
    Nowhere = Nowhere
    Tabbed = {logs}
    Scripts = {tl, tla}
    PageOf <- MCPageOf
    Handled = {tl}
    MaxNavs = 3
    MaxTabs = 1
    Tasks = {a, b}
    Slots = {s1}
    None = None
    maxReconnectAttempts = 1
    MaxInbox = 2
    MaxChanges = 2
    MaxBreaks = 2
    Proxies = {p, q}
    bufferMaxPoints = 2
    Window = 1
    MaxTime = 2
    MaxPolls = 2
    MaxFrames = 1
    MaxActs = 1
INVARIANTS PartsTypeOK AddressFitsContent TakesWhatIsShown
PROPERTIES IndicatorsGo PagesComeAlive MenuShowsWhatRuns PageFollowsTask TableFollowsSelection
CHECK_DEADLOCK FALSE
