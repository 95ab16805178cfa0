SPECIFICATION Spec
CONSTANTS
    U64 = 1048576
    Images <- MCImages
    Requests <- MCRequests
INVARIANT AuthFailureMeansWrongCredential
\* A call that has returned does nothing more.
CHECK_DEADLOCK FALSE
