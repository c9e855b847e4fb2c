SPECIFICATION FairSpec
CONSTANTS
    Endpoint = {e1, e2}
    Entry = {d}
    Tries = 2
CHECK_DEADLOCK FALSE
INVARIANTS
    RepositoryLeftClean
    VolumesVouched
PROPERTIES
    DeveloperFilesKept
    ClosedPortsWereFree
    RunEnds
