SPECIFICATION ExamSpec
CONSTANTS
    U64 = 1048576
    Images <- MCImages
    Requests <- MCRequests
INVARIANTS FindingsDescribeFirstCopy InventoryMatchesUnlock GradesMatchUnlock SameEvidence
\* The examination ends.
CHECK_DEADLOCK FALSE
