SPECIFICATION PlannerFairSpec
CONSTANTS
    Run = {r1, r2, r3, r4, r5}
    NoRun = NoRun
    UnknownRun = UnknownRun
    Call = {c1, c2}
    MaxExits = 1
    MaxPlannerFaults = 2
    MaxResets = 0
    MaxPlannerClock = 0
    Threshold = 1
PROPERTIES PlannerComesBack
