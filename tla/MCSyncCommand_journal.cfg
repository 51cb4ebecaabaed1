SPECIFICATION Spec
CONSTANTS
    Key = {k1, k2}
    Value = {v1, v2}
    None = None
    Proc = {p1, p2}
    NoProc = NoProc
    Target = "github"
    Modes = {"plain", "skip", "noov", "rotate"}
    MaxEdits = 1
    MaxFaults = 2
    MaxDomain = 1
SYMMETRY Symmetry
INVARIANTS TypeOK CacheTruthful UnknownIsHandled
PROPERTIES NothingIsLost ImplementsLedger
