SPECIFICATION PartsSpec
CONSTANTS
    Keys = {a1, a2}
    Workers = {w1, w2}
    Clients = {r1, c1, c2}
    Rebalancers = {r1}
    BatchLimit = 2
    MaxAttempts = 2
    MaxStalls = 1
    MaxCrashes = 0
    MaxRequests = 3
    QueueBudget = 1
    DiscoveryPerPage = 0
    RepairLane = 1
    Readings <- MCReadings
    PageSize = 1
SYMMETRY Symmetry
INVARIANTS ExclusiveClaim RetryBudget BudgetKept FiltersAgree PagesMissNothing
PROPERTIES FreshRequestsHonoured
CHECK_DEADLOCK FALSE
