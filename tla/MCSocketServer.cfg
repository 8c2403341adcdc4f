SPECIFICATION SocketSpec
CONSTANTS
    Callers = {k1, k2}
    Fetches = {f1, f2}
    Clients = {b1}
    MaxVersion = 2
    MaxRejections = 1
    MaxLosses = 1
    MaxStartFailures = 1
    MaxDisconnects = 1
    MaxRestarts = 1
    MaxSurfacedEvents = 2
    MaxStagedEvents = 2
    MaxWire = 2
    Tabs <- MCTabs
INVARIANT NewsIsRefreshed
PROPERTIES SnapshotsNeverGoBack BrowsersCatchUp BoardCatchesUp
CHECK_DEADLOCK FALSE
