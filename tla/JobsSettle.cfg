\* Every job is done or dead in the end, slow deliveries or not.
SPECIFICATION FairSpec
CONSTANTS
    j1 = j1  j2 = j2  j3 = j3  j4 = j4
    w1 = w1  w2 = w2  w3 = w3
    n1 = n1  n2 = n2
    None = None
    Jobs <- SlowJobs
    Workers = {w1, w2}
    Schedulers = {}
    Kinds <- AllKinds
    Kind <- SlowKind
    MaxAttempts <- SlowAttempts
    Handles <- AllHandle
    Limited = {"webhook"}
    Most <- OneWebhook
    Scheduled = {}
    Slow = {"webhook"}
    Stalls = FALSE
    MaxFaults = 1
    MaxRetries = 0
PROPERTIES
    EveryJobSettles
