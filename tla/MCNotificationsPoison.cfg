CONSTANTS
    m1 = m1
    m2 = m2
    m3 = m3
    a1 = a1
    a2 = a2
    u1 = u1
    u2 = u2
    d1 = d1
    d2 = d2
    Messages = {m1, m2}
    Accounts = {a1, a2}
    Users = {u1, u2}
    Devices = {d1, d2}
    From <- MCFrom
    To <- MCTo
    Owner <- MCOwner
    WithCallback = {a1}
    Stored = {a1}
    Registered <- MCRegistered
    NoAccount = NoAccount
    NoMessage = NoMessage
    Malformed = {m2}
    Faults = {}
    MaxFaults = 0
    MaxChanges = 0

SPECIFICATION FairSpec
PROPERTY CallbackIsPublished
CHECK_DEADLOCK FALSE
