CONSTANTS
    Proc = {p1}
    MaxAttempts = 1
    MaxFaults = 0
    MaxSaves = 1
SPECIFICATION Spec
PROPERTIES ReplacementKept
CHECK_DEADLOCK FALSE
