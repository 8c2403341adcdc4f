SPECIFICATION FeedFairSpec
CONSTANTS
    Callers = {k1}
    Fetches = {f1}
    Clients = {b1}
    MaxVersion = 1
    MaxRejections = 0
    MaxLosses = 1
    MaxStartFailures = 1
    MaxDisconnects = 0
    MaxRestarts = 0
PROPERTY FailedStartIsRetried
