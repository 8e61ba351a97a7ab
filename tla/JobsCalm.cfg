\* Workers that keep their heartbeats, crashing all the same: who runs what at once.
SPECIFICATION Spec
CONSTANTS
    j1 = j1  j2 = j2  j3 = j3  j4 = j4
    w1 = w1  w2 = w2  w3 = w3
    n1 = n1  n2 = n2
    None = None
    Jobs <- CalmJobs
    Workers = {w1, w2, w3}
    Schedulers = {n1, n2}
    Kinds <- AllKinds
    Kind <- CalmKind
    MaxAttempts <- CalmAttempts
    Handles <- TwoPools
    Limited = {"webhook"}
    Most <- OneWebhook
    Scheduled = {"stats"}
    Slow = {}
    Stalls = FALSE
    MaxFaults = 1
    MaxRetries = 0
SYMMETRY AnyTwin
INVARIANTS
    NeverTwice
    LimitKept
    OneOfEachScheduled
