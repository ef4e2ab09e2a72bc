SPECIFICATION Spec
CONSTANTS
    MaxConns = 2
    MaxCalls = 2
    MaxTimers = 2
    MaxAttempts = 1
    MaxFlush = 1
    Msg = {m1, m2}
SYMMETRY MsgSymmetry
INVARIANTS
    QueuedIsStored
