SPECIFICATION Spec
CONSTANTS
    ann = ann
    bob = bob
    User = {ann, bob}
    Friends <- MCFriends
    NoUser = NoUser
    NoSession = NoSession
    Session = {s1, s2}
    MaxConnections = 2
    RateLimit = 1
    MaxBatch = 2
SYMMETRY SessionSymmetry
INVARIANTS
    RouteSound
    RoutedIsOnline
    FriendViewFresh
    PoolWatched
