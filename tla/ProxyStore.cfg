CONSTANTS
    MaxId = 2
    MaxBirth = 2
    Requests = {r1}
    Jobs = {j1}
SPECIFICATION FairSpec
INVARIANTS TypeOK StrangersAreLate
PROPERTY LeftoversGo
