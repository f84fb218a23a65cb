CONSTANTS
    Proxies = {1, 2}
    MaxTime = 2
    MaxRows = 3
    MaxBatches = 3
    IndexSize = 2
    TimeSize = 4
    ProxySize = 4
SPECIFICATION Spec
INVARIANT RecordIdsAreStable
