SPECIFICATION FairSpec
CONSTANTS
    Keys = {a1, a2}
    Workers = {w1, w2}
    Clients = {c1}
    BatchLimit = 1
    MaxAttempts = 2
    MaxStalls = 0
    MaxCrashes = 1
    MaxRequests = 2
PROPERTIES ImplementsLifecycle RunningSettles PublicJobSettles
