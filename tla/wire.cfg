SPECIFICATION Spec
CONSTANTS
    Size = {1, 5, 6}
    ServerMax = 5
    ClientMax = 15
    LegacyMax = 5
    ReadMax = 6
    MaxFrames = 3
INVARIANTS TypeOK BufferBounded ClientNeverGarbled
PROPERTY ChannelSpec
CHECK_DEADLOCK FALSE
