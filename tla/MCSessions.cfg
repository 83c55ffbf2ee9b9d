CONSTANTS
    r1 = r1
    r2 = r2
    r3 = r3
    r4 = r4
    r5 = r5
    u1 = u1
    d1 = d1
    Requests = {r2, r3, r4, r5}
    Users = {u1}
    DeviceIds = {d1}
    Kind <- MCKind
    User <- MCUser
    Device <- MCDevice
    Timestamp <- MCTimestamp
    Signed = {r2, r3, r5}
    Known = {u1}
    Valid = 1
    MaxTime = 3

SPECIFICATION Spec
INVARIANTS RevokedIsOlder RevokedStaysOut
CHECK_DEADLOCK FALSE
