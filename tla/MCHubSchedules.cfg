SPECIFICATION SchedulesSpec
CONSTANTS
    i1 = i1
    i2 = i2
    i3 = i3
    None = None
    Request <- LaneRequests
    Invocation = {i1, i2, i3}
    opOf <- InvokedOp
    MaxActive = 2
    Lifetime = 1
    MaxStart = 1
    MaxDelay = 0
    MaxTime = 2
    MaxFaults = 1
    Run = {r1, r2, r3, r4, r5}
    NoRun = NoRun
    UnknownRun = UnknownRun
    Call = {c1, c2}
    MaxExits = 1
    MaxPlannerFaults = 2
    MaxResets = 1
    MaxPlannerClock = 1
    Threshold = 1
SYMMETRY CallSymmetry
INVARIANTS LaneDiscipline RunsAreTold HealthIsEarned
