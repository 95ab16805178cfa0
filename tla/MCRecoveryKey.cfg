SPECIFICATION Spec
CONSTANTS
    GroupCount = 3
    MaxValue = 999999
    MaxWord = 65535
    Passwords <- MCPasswords
INVARIANTS TypeOK AcceptsExactlyTheForm KeyDeterminesPassword
\* The function returns.
CHECK_DEADLOCK FALSE
