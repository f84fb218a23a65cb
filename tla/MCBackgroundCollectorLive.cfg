CONSTANTS
    c1 = c1
    c2 = c2
    c3 = c3
    c4 = c4
    m1 = m1
    m2 = m2
    Nobody = Nobody
    Handlers = {h1}
    Tasks = {k1, k2}
    Clients = {w1}
    Proxies = {p1}
    Configs = {c1}
    Communities = {m1}
    Payloads = {}
    CommunityOf <- MCCommunityOf
    Collectable <- MCCollectable
SPECIFICATION FairSpec
PROPERTIES RequestsAreAnswered CollectorsKeepCollecting ClientsAreRegistered
