SPECIFICATION AnswerSpec
INVARIANTS OnlyStoriqaBlames RefusalsLeaveNothing SuccessIsWhole
CHECK_DEADLOCK FALSE
