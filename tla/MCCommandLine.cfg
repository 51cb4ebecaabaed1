SPECIFICATION Spec
CONSTANTS
    Clients = {p1, p2}
    Values = {"v1", "v2"}
    Kinds = {"aws", "gcp", "oci", "azure"}
    MaxOps = 1
    MaxVersions = 4
    MaxLost = 2
    Shells = {p1, p2}
    Secrets = {"A", "B"}
    RotateAt = 1
    MaxCrashes = 1
    WatchKeys = {"A", "B", "b"}
    EnvName <- MCEnvName
    Required = {"A"}
    MaxEdits = 2
    MaxPollErrors = 1
    Scopes = {"s1", "s2"}
    Bodies = {"b1", "b2"}
    Handlers = {p1, p2}
    MaxEnvelopeTTL = 2
    ReplayCapacity = 1
    MaxEnvelopes = 2
    MaxEnvelopeClock = 3
    JournalKeys = {"k1", "k2"}
    Hashes = {"h1", "h2"}
    Capabilities = {"cas", "owner_risk", "blocked"}
    MaxOperations = 3
    Terminals = {p1, p2}
    PolicyScopes = {"p1", "p2"}
    MaxCredRuns = 3
    MaxMinted = 2
SYMMETRY Symmetry
INVARIANTS WriteIsReported NoMissedChange JournalIsSound
PROPERTIES OutcomeIsHonest LocalStoreIsKept NonceIsSingleUse OthersAreKept
CHECK_DEADLOCK FALSE
