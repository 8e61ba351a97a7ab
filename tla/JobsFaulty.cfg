\* Crashes, stalled workers, lost results: what holds all the same.
SPECIFICATION Spec
CONSTANTS
    j1 = j1  j2 = j2  j3 = j3  j4 = j4
    w1 = w1  w2 = w2  w3 = w3
    n1 = n1  n2 = n2
    None = None
    Jobs <- FaultyJobs
    Workers = {w1, w2}
    Schedulers = {}
    Kinds <- AllKinds
    Kind <- FaultyKind
    MaxAttempts <- Twice
    Handles <- AllHandle
    Limited = {"webhook"}
    Most <- OneWebhook
    Scheduled = {}
    Slow = {}
    Stalls = TRUE
    MaxFaults = 1
    MaxRetries = 1
SYMMETRY AnyWorker
INVARIANTS
    TypeOK
    OwnerRunsThePresentAttempt
    AttemptsBounded
PROPERTIES
    LiveLockRespected
    KeepsPromise
