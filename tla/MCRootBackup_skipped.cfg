SPECIFICATION Spec
CONSTANTS
  a1 = a1
  a2 = a2
  r1 = r1
  r2 = r2
  r3 = r3
  Artworks = {a1, a2}
  Roots = {r1, r2, r3}
  NoRoot = NoRoot
  Worlds <- MCSkipWorlds
  Size <- MCSize
  Ceiling = 2
PROPERTY PinIsNotSkipped
CHECK_DEADLOCK FALSE
