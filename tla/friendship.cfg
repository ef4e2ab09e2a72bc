SPECIFICATION Spec
CONSTANTS
    ann = ann
    bob = bob
    s1 = s1
    s2 = s2
    s3 = s3
    User = {ann, bob}
    Session = {s1, s2, s3}
    NoSession = NoSession
    Slots <- MCSlots
    MaxUp = 1
    MaxDown = 2
SYMMETRY SessionSymmetry
INVARIANTS
    TypeOK
    OneLiveRow
    FriendsAgree
PROPERTIES
    RejectedUntilRemoved
