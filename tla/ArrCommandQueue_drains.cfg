SPECIFICATION FairSpec
CONSTANTS
    Commands = {c1,c2}
    Kinds = {"search","other"}
    DrainCount = 2
    DrainAge = 1
    BurstCount = 2
    BurstRate = 1
    WedgeAfter = 2
    MaxFaults = 1
    MaxCrashes = 1
INVARIANT TypeOK
PROPERTY OnlyBareSearches
PROPERTY BurstIsReal
PROPERTY NoStalePile
PROPERTY WedgeRelieved
