CONSTANTS
    e1 = e1
    f1 = f1
    e2 = e2
    k1 = k1
    k2 = k2
    a = a
    b = b
    j = j
    l = l
    None = None
    o1 = o1
    o2 = o2
    t1 = t1
    Nonce = {n1}
    Route = {"worker"}
    Request <- GatedRequests
    Invocation = {1, 2}
    MaxTime = 1
    MigrationRequest <- Requests
    Envelope = {e1, f1, e2}
    requestOf <- RequestOf
    MaxActive = 2
    Lifetime = 1
    Handler = {h1, h2}
    notAfter = 2
    Ttl = 2
    SweepLimit = 1
    MaxHandling = 2
    MaxExecutorTime = 4
    MaxFaults = 2
    Unset = None
    Migration = {m1, m2}
    Epoch = {1, 2}
    Key = {k1, k2}
    Digest = {a, b}
    RowSet <- Rows
    ScanId = {s1, s2}
    Found <- FoundRows
    Required = {1, 2}
    MaxStamp = 1
    Missing = None
    Document <- Documents
    Caller = {c1, c2}
    Subject <- Subjects
    MaxClock = 2
SPECIFICATION HubSpec
SYMMETRY Symmetry
INVARIANTS WritesAreFenced OutcomesHold ExecutedAndAcked LedgerIsSafe ChainIntact
PROPERTIES RecordsAreFinal
CHECK_DEADLOCK FALSE
