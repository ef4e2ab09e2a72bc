SPECIFICATION LinkFairSpec
CONSTANTS
    MaxConns = 3
    MaxCalls = 2
    MaxTimers = 3
    MaxAttempts = 1
INVARIANTS
    LinkTypeOK
    WriterWatched
PROPERTIES
    LostNoticed
