SPECIFICATION Spec
CONSTANTS
    User = {ann, bob}
    Group = Group
    None = None
    Uses = {}
    Limit = 1
    MaxMessages = 2
    MaxText = 1
    MaxClock = 1
    MaxDead = 1
    MaxDown = 1
SYMMETRY UserSymmetry
INVARIANTS
    TypeOK
    WaitingIsNew
    OfflinePushed
