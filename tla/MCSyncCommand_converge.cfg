CONSTANTS
    Key = {k1, k2}
    Value = {v1, v2}
    None = None
    Proc = {p1, p2}
    NoProc = NoProc
    Target = "k8s"
    Modes = {"plain", "rotate"}
    MaxEdits = 1
    MaxFaults = 1
    MaxDomain = 2
SPECIFICATION FairSpec
PROPERTIES Converges
