SPECIFICATION Spec
CONSTANTS
    Users = 2
    Threads = 3
    MaxGroups = 1
    Scenarios <- MCScenarios
INVARIANTS TypeOK FriendsAgree MembersAgree NoGhostUsers PrivateInOrder
CHECK_DEADLOCK FALSE
