SPECIFICATION RelaySpec
CONSTANTS
    Handlers = {h1, h2}
    Sockets = {s1, s2}
    MaxJobs = 1
    MaxQueued = 2
    MaxAborts = 1
    Codes = {k1}
    Devices = {d1, d2}
    NoCode = NoCode
    Settings <- MCSettings
    g1 = g1
    g2 = g2
    r1 = r1
    r2 = r2
    w1 = w1
    w2 = w2
    HostOrder <- MCHostOrder
    Services <- MCServices
    Roots = {r1, r2}
    Saves = {w1, w2}
    Plans <- MCPlans
    c1 = c1
    c2 = c2
    f1 = f1
    f2 = f2
    n1 = n1
    m1 = m1
    Cids = {c1, c2}
    Files = {f1, f2}
    Nodes = {n1}
    Scripts = {m1}
    Visitors = {v1}
    Syncs = {y1, y2}
    Sites <- MCSites
SYMMETRY Symmetry
INVARIANTS
    HandedOutOnce OpenConnectionIsFound PairingClaimedOnce EnabledTunnelsWork
    SavedWasAccepted PendingIsUnderWay ReadersAreServed RoutesFollowInventory
CHECK_DEADLOCK FALSE
