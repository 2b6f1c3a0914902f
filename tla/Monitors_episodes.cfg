\* Without faults, and where each listing has both episodes of a file.
SPECIFICATION OneSpec
CONSTANTS
    bare = bare
    hdr = hdr
    both = both
    e1 = e1
    e2 = e2
    Slots = {e1, e2}
    Files <- FileSet
    NoFile = NoFile
    SlotsOf <- Held
    SizeOf <- Size
    ContentOf <- Content
    QaJobs = {"recent", "backfill"}
    ImposterJobs = {"imposter"}
    FullJobs = {"recent", "backfill"}
    MaxFaults = 0
    Items = {i1, i2}
    ArtDebounce = 2
    AutoRefresh = TRUE
    MaxArtEdits = 2
    MaxArtFaults = 2
    Containers = {"c1", "c2"}
    PidDebounce = 2
    MaxLoads = 4
    MaxPidFaults = 2
    Paths = {p1, p2, p3}
    Owners = {1000, 33, 0}
    Expected = 1000
    Named = {0}
    BatchSize = 2
    MaxFiles = 3
    MaxChanges = 4
    MaxSshFaults = 2
    MaxPermRestarts = 1
    Qbit = "qBittorrent"
    Arrs = {"Sonarr"}
    Dirs = {d1, d2}
    MaxMountChanges = 2
    MaxExecFaults = 2
INVARIANT EpisodesSearched
