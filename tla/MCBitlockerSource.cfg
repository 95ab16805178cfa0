SPECIFICATION FairSpec
CONSTANTS
    SectorSize = 2
    U64 = 16
    Threads = {t1, t2}
    NoThread = NoThread
    Image <- MCImage
    Decrypt <- MCDecrypt
    Zero <- MCZero
    Stale <- MCStale
    Volumes <- MCVolumes
    Offsets <- MCOffsets
    Lens <- MCLens
INVARIANTS TypeOK ReadsAreIsolated CursorIsOwned
PROPERTIES EachThreadHasItsView MutexIsReleased PendingCallsReturn
