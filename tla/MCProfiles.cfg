CONSTANTS
    r1 = r1
    r2 = r2
    r3 = r3
    r4 = r4
    r5 = r5
    r6 = r6
    r7 = r7
    Requests = {r1, r2, r3, r4, r5, r6, r7}
    Kind <- MCKind
    Sets <- MCSets
    Initial <- MCInitial
    Absent = Absent

SPECIFICATION Spec
INVARIANTS RowFollowsStoriqa FieldsAgree
CHECK_DEADLOCK FALSE
