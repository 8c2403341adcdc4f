SPECIFICATION IngressSpec
CONSTANTS
  d1 = d1
  d2 = d2
  p1 = p1
  p2 = p2
  Daemons = {d1, d2}
  Pages = {p1, p2}
  j1 = j1
  j2 = j2
  Jobs = {j1, j2}
  Nobody = Nobody
  Casts <- MCCasts
  Limit = 1
  MaxTries = 2
  x = x
  y = y
  s = s
  w1 = w1
  w2 = w2
  Contracts = {x, y, s}
  Seeds = {s}
  Workers = {w1, w2}
  NoOne = NoOne
  Batch = 1
  Ledgers <- MCLedgers
  Catalogues <- MCCatalogues
INVARIANTS WorkingIsShown CheckpointsAreTrue
PROPERTIES JobsAreRescued WorksInReachAreFound ShownAsSaved
CHECK_DEADLOCK FALSE
