SPECIFICATION Spec
CONSTANTS
    MaxConns = 3
    MaxCalls = 1
    MaxTimers = 1
    MaxAttempts = 1
    MaxFlush = 2
    Msg = {m1, m2}
SYMMETRY MsgSymmetry
INVARIANTS
    TypeOK
    NothingForgotten
