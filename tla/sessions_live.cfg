SPECIFICATION FairSpec
CONSTANTS
    ann = ann
    bob = bob
    User = {ann, bob}
    Friends <- MCFriends
    NoUser = NoUser
    NoSession = NoSession
    Session = {s1, s2}
    MaxConnections = 1
    RateLimit = 1
    MaxBatch = 2
INVARIANTS
    TypeOK
PROPERTIES
    HalfOpenReclaimed
    ClosedReleased
