SPECIFICATION HostSpec
CONSTANTS
    Proc = {p1, p2}
    MaxAttempts = 2
    MaxFaults = 3
    MaxSaves = 1
    JSONValues <- MCJSONValues
    maxPlanJSONDepth = 2
    maxPlanObjectKeys = 2
    StateFiles = {"f", "g"}
    Contents = {"c1", "c2"}
    MaxManifestClock = 2
    MaxManifestLife = 1
    MaxFileEdits = 2
    RefScopes <- MCRefScopes
    RefNames = {"A", "B", "C", "D", "M"}
    MaxRefDepth = 2
    MaxInits = 2
    MaxOutsideWrites = 1
    Backends = {"aws", "gcp", "oci", "azure"}
    Leaves <- MCLeaves
    Paths <- MCPaths
    MaxPuts = 2
    CmdKeys = {"A", "B"}
    Hooks = 2
    Attempts = 2
    MaxOther = 1
INVARIANTS V1Survives VerdictIsRight DuplicatesAreFound VerifiedWasTrue ResolutionIsExact
    PreviousConfigKept StoredIsInjected BatchIsWhole
PROPERTIES RecoveryDecides ImportKeepsExisting
CHECK_DEADLOCK FALSE
