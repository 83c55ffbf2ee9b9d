CONSTANTS
    t1 = t1
    t2 = t2
    t3 = t3
    u1 = u1
    u2 = u2
    x1 = x1
    x2 = x2
    x3 = x3
    Accounts = {1, 2, 3}
    Transactions = {t1, t2, t3}
    Users = {u1, u2}
    Owner <- MCOwner
    Address <- MCAddress
    Ends <- MCEnds
    Stored <- MCStored
    Requests <- MCRequests
    Base = 3
    Width = 40
    Checked = FALSE
    Numerics <- MCNumerics

SPECIFICATION Spec
INVARIANTS HistoryIsComplete AccountsAreComplete ListedIsOwn
CHECK_DEADLOCK FALSE
