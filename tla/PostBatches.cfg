\* Batches whose runs crash, fail, are repeated and overlap, while others moderate.
SPECIFICATION Spec
CONSTANTS
    Newest = 3
    Batches = {b1, b2}
    Runs = {r1, r2}
    Allowed <- Attempts
    BatchSize = 2
    FailuresInRow = 2
    None = None
SYMMETRY Interchangeable
CONSTRAINT FewAtOnce
VIEW Seen
\* Every batch may be finished and every post gone.
CHECK_DEADLOCK FALSE
INVARIANTS
    TypeOK
    DoneMissesNone
    NoneLeftHalfway
    OpenHasJob
    OneDeletionAtOnce
PROPERTIES
    LivesAsPromised
