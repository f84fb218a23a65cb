CONSTANTS
    c1 = c1
    c2 = c2
    c3 = c3
    c4 = c4
    m1 = m1
    m2 = m2
    Nobody = Nobody
    Handlers = {h1}
    Tasks = {k1, k2, k3, k4}
    Clients = {w1}
    Proxies = {p1}
    Configs = {c1, c2, c3, c4}
    Communities = {m1, m2}
    Payloads = {d1}
    CommunityOf <- MCCommunityOf
    Collectable <- MCCollectable
SYMMETRY Symmetry
SPECIFICATION Spec
INVARIANTS AutoCollectsSavedConfig OneAutoCollector
