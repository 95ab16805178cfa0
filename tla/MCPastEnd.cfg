SPECIFICATION Spec
CONSTANTS
    SectorSize = 2
    U64 = 16
    BlockHeaderLen = 1
    Image <- MCImage
    Decrypt <- MCDecrypt
    Zero <- MCZero
    Stale <- MCStale
    Volumes <- MCVolumes
    Offsets <- MCOffsets
    Lens <- MCLens
    Deltas <- MCDeltas
INVARIANT PastEndReadsZero
