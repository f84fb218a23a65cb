CONSTANTS
    m1 = m1
    Nobody = Nobody
    Handlers = {h1, h2}
    Tasks = {k1, k2, k3, k4}
    Clients = {w1}
    Proxies = {p1}
    Configs = {c1}
    Communities = {m1}
    Payloads = {d1}
    CommunityOf <- MCCommunityOf
    Collectable = {c1}
SYMMETRY Symmetry
SPECIFICATION FeedSpec
INVARIANTS ClientsKnowWhatRuns
PROPERTIES KeepsPromise
