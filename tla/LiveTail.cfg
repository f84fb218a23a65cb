CONSTANTS
    Polls = {v1, v2}
    MaxLines = 2
    MaxFiles = 2
    InitialScan = 2
    InitialSize = 1
    Scan = 1
    Limit = 1
SPECIFICATION FairSpec
INVARIANT OffsetIsCovered
PROPERTY LinesAreShown
