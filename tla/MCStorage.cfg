SPECIFICATION StorageSpec
CONSTANTS
  a1 = a1
  a2 = a2
  r1 = r1
  r2 = r2
  r3 = r3
  c1 = c1
  c2 = c2
  Artworks = {a1, a2}
  Roots = {r1, r2, r3}
  NoRoot = NoRoot
  Worlds <- MCStorageWorlds
  Size <- MCSize
  Ceiling = 2
  Callers = {c1, c2}
  Unheld = Unheld
  Setups <- MCSetups
  Pins = {p1, p2, p3, p4, p5}
  MaxSlots = 2
INVARIANT StatusIsTrue
INVARIANT FilesKept
INVARIANT NoSlotIsWasted
PROPERTY ContentKept
PROPERTY EveryRootEndsSaved
CHECK_DEADLOCK FALSE
