SPECIFICATION OpenFairSpec
CONSTANTS
    U64 = 1048576
    Images <- MCImages
    Offers <- MCOffers
    Requests = {}
INVARIANTS OpenTypeOK OpenDecides AsksOnlyIfNothingTried
PROPERTY OpenEnds
\* Once open has returned there is nothing more to do.
CHECK_DEADLOCK FALSE
