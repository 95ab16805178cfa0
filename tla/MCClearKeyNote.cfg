SPECIFICATION ExamSpec
CONSTANTS
    U64 = 1048576
    Images <- MCShortVmk
    Requests <- MCRequests
INVARIANT ClearKeyUnlocks
\* A call that has returned does nothing more.
CHECK_DEADLOCK FALSE
