CONSTANTS
    r1 = r1
    r2 = r2
    r3 = r3
    r4 = r4
    r5 = r5
    r6 = r6
    r7 = r7
    u1 = u1
    u2 = u2
    a1 = a1
    Requests = {r1, r2, r3, r4, r5, r6, r7}
    Users = {u1, u2}
    Ids = {a1}
    Kind <- MCKind
    User <- MCUser
    Id <- MCId
    NoRow = NoRow

SPECIFICATION Spec
INVARIANTS RowsHaveAccounts DefaultsOnce DefaultsInOrder
PROPERTY OnlyOwnersChange
CHECK_DEADLOCK FALSE
