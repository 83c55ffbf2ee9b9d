CONSTANTS
    r1 = r1
    r2 = r2
    r3 = r3
    r4 = r4
    t1 = t1
    t2 = t2
    a1 = a1
    a2 = a2
    a3 = a3
    u1 = u1
    u2 = u2
    f1 = f1
    f2 = f2
    Requests = {r1, r2, r3, r4}
    Ids = {t1, t2}
    Accounts = {a1, a2, a3}
    Users = {u1, u2}
    FiatValues = {f1, f2}
    User <- MCUser
    Id <- MCId
    From <- MCFrom
    To <- MCTo
    Fiat <- MCFiat
    Owner <- MCOwner
    Stored = {a1, a2}
    NoAccount = NoAccount
    NoFiat = NoFiat
    NoRequest = NoRequest

SPECIFICATION Spec
INVARIANTS FiatBeforeLedger FiatSentOnce SentByOwner AnswerIsTrue
CHECK_DEADLOCK FALSE
