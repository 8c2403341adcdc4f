SPECIFICATION WatchedSpec
CONSTANTS
  d1 = d1
  p1 = p1
  Daemons = {d1}
  Pages = {p1}
  Jobs = {j1}
  Nobody = Nobody
  Casts <- HealthyCasts
  Limit = 1
  MaxTries = 2
PROPERTY LiveJobsAreLeftAlone
CHECK_DEADLOCK FALSE
