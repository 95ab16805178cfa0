SPECIFICATION SessionSpec
CONSTANTS
    U64 = 1048576
    Images <- MCImages
    Requests <- MCRequests
    Truths <- MCTruths
    BlockCount = 2
    ReadSectors <- MCReadSectors
INVARIANTS TypeOK UnlockIsSound UnlockDecides VistaStaysInRange UnlockedIsEncrypted
    ReadsBackWhatWasWritten SectorsAreBoundToAddresses
PROPERTY UnlockEnds
\* A call that has failed leaves nothing to read.
CHECK_DEADLOCK FALSE
