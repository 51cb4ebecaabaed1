SPECIFICATION Spec
CONSTANTS
    ServicesOf <- MCServicesOf
    DependsOn <- MCDependsOn
    MaxManifestTTL = 2
    MaxAge = 1
    Procs = {1, 2}
    Windows = {1, 2}
    MaxTime = 4
    MaxContainers = 3
    MaxStarts = 2
    MaxFaults = 1
    Keys = 2
    HeartbeatInterval = 2
    HeartbeatSafetyFactor = 3
    MaxHeartbeatTimeout = 8
    MaxDelay = 2
    MaxClock = 14
    Services = {s1, s2}
    EnvNames = {token, port}
    SecretLike = {token}
    allowedParentVars = {port}
INVARIANTS HeartbeatDecides ChildEnvironmentIsComplete
PROPERTIES AuthorityAges NewerGenerationKept FailsClosed
CHECK_DEADLOCK FALSE
