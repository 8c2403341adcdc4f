SPECIFICATION Spec
CONSTANTS
    Keys = {a1}
    Workers = {w1, w2}
    Clients = {c1, c2}
    BatchLimit = 1
    MaxAttempts = 2
    MaxStalls = 0
    MaxCrashes = 0
    MaxRequests = 3
SYMMETRY Symmetry
INVARIANT NoDoubleExecution
