SPECIFICATION Spec
CONSTANTS
    User = {ann, bob}
    Group = Group
    None = None
    Uses = {"group", "edit", "delete", "react", "read"}
    Limit = 1
    MaxMessages = 1
    MaxText = 2
    MaxClock = 0
    MaxDead = 0
    MaxDown = 2
SYMMETRY UserSymmetry
INVARIANTS
    ShownAsStored
PROPERTIES
    DeletedForGood
