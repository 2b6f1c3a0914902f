SPECIFICATION Spec
CONSTANTS
    Commands = {c1,c2}
    Kinds = {"search","research"}
    DrainCount = 2
    DrainAge = 1
    BurstCount = 2
    BurstRate = 1
    WedgeAfter = 2
    MaxFaults = 0
    MaxCrashes = 0
PROPERTY ResearchKept
