SPECIFICATION FairSpec
CONSTANTS
    HeaderLen = 2
    MetaStart = 1
    EntriesStart = 2
    Lens <- MCLens
    Sizes <- MCSizes
    Claims <- MCClaims
INVARIANTS TypeOK EntriesTile NothingDropped
PROPERTIES MovesForward ParserStops
\* The parser returns.
CHECK_DEADLOCK FALSE
