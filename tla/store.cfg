SPECIFICATION Spec
CONSTANTS
    Name = {"ann", "bob"}
    Password = {"p"}
    Legacy <- MCLegacy
    Old <- MCOld
    MaxUser = 1001
    MaxGroup = 2002
    Scopes <- MCScopes
INVARIANTS TypeOK ConfirmedIsStored MembersHaveGroups IdsUnique SchemaComplete
