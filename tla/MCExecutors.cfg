SPECIFICATION ExecutorsSpec
CONSTANTS
    i1 = i1
    j1 = j1
    i2 = i2
    a = a
    b = b
    t1 = t1
    None = None
    Handler = {h1, h2}
    Request <- ClientRequests
    Invocation = {i1, j1, i2}
    opOf <- InvokedOp
    MaxActive = 2
    Lifetime = 1
    MaxStart = 1
    MaxDelay = 1
    MaxTime = 3
    MaxFaults = 0
INVARIANTS ExecutorsAgree
PROPERTIES TerminalIsFinal AcceptedEnds
CHECK_DEADLOCK FALSE
