CONSTANTS
    r1 = r1
    r2 = r2
    r3 = r3
    r4 = r4
    r5 = r5
    u1 = u1
    d1 = d1
    Requests = {r3, r4, r5}
    Users = {u1}
    DeviceIds = {d1}
    Kind <- MCKind
    User <- MCUser
    Device <- MCDevice
    Timestamp <- MCTimestamp
    Signed = {r3, r5}
    Known = {u1}
    Valid = 1
    MaxTime = 2

SPECIFICATION Spec
INVARIANT RevokeHolds
CHECK_DEADLOCK FALSE
