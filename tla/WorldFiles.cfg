SPECIFICATION Spec
CONSTANTS
    Jobs = {j1, j2}
    j1 = j1
    j2 = j2
    w1 = w1
    w2 = w2
    Worlds = {w1, w2}
    Requests = {"backup", "restore", "reset-backup", "duplicate", "start"}
    Keep = 1
    IncludeConfig = {TRUE}
    MaxArchives = 2
    MaxFaults = 1
    Careful = TRUE
    Dies = TRUE
INVARIANTS TypeOK FilesHaveOneOwner ReadsAreWhole
PROPERTIES RestoreKeepsTheWorld WorldsLeaveOnPurpose ArchivesAreKept ImplementsVault
SYMMETRY Symmetry
CHECK_DEADLOCK FALSE
