SPECIFICATION CatalogueSpec
CONSTANTS
    Auctions = {a1}
    Tokens = {t1}
    Ticks = {p1, p2}
    BlockWindow = 2
    MaxBlocks = 3
    MaxFailures = 1
    MaxOverruns = 1
    t1 = t1
    t2 = t2
    b1 = b1
    TokenOrder <- MCTokenOrder
    MaxAuctions = 2
    Pages = {b1}
    Markets <- MCMarkets
    top = top
    a1st = a1st
    b2nd = b2nd
    inner = inner
    other = other
    d1 = d1
    w1 = w1
    w2 = w2
    w3 = w3
    d2 = d2
    Assets = {top, a1st, b2nd, inner}
    RootFile = top
    Elsewhere = other
    Depicted = {d1, d2}
    Archivings = {w1, w2, w3}
    MaxDepth = 2
    Webs <- MCWebs
    s1 = s1
    s2 = s2
    i1 = i1
    i2 = i2
    Backfills = {s1, s2}
    Visits = {i1, i2}
    Circles <- MCCircles
INVARIANTS NoEventSkipped StoredListingsAreTrue ReferencesFollowed FoundBySearch NobodyIsMissed
PROPERTIES CheckpointIsExact CatchesUp
CHECK_DEADLOCK FALSE
