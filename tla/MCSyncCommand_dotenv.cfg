CONSTANTS
    Key = {k1, k2}
    Value = {v1, v2}
    None = None
    Proc = {p1}
    NoProc = NoProc
    Target = "dotenv"
    Modes = {"skip"}
    MaxEdits = 0
    MaxFaults = 0
    MaxDomain = 1
SPECIFICATION Spec
INVARIANTS SkippedIsPresent
