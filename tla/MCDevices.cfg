CONSTANTS
    s1 = s1
    x1 = x1
    x2 = x2
    x3 = x3
    c1 = c1
    c2 = c2
    d1 = d1
    d2 = d2
    u1 = u1
    k1 = k1
    k2 = k2
    Adds = {x1, x2, x3}
    Confirms = {c1, c2}
    SignUps = {s1}
    DeviceIds = {d1, d2}
    Users = {u1}
    Keys = {k1, k2}
    Device <- MCDevice
    User <- MCUser
    Key <- MCKey
    Token <- MCToken
    Given <- MCGiven
    Known = {}
    Setups <- MCSetups
    EmailTimeout = 2
    Expiration = 2
    MaxTime = 3
    NoDevice = NoDevice
    NoKey = NoKey
    NoToken = NoToken
    NoStamp = NoStamp

SPECIFICATION Spec
INVARIANTS DevicesAreConfirmed GrantsAreSpaced TokensAreUnique ConfirmsRepeat
PROPERTY RefusalsAreDue
CHECK_DEADLOCK FALSE
