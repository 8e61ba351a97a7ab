\* A post between moderators, flaggers, an appellant, its expiry and two purges.
SPECIFICATION Spec
CONSTANTS
    Posts = {p1}
    Users = {u1, u2}
    Runs = {w1, w2}
    None = None
SYMMETRY Interchangeable
\* The post may be gone.
CHECK_DEADLOCK FALSE
INVARIANTS
    TypeOK
    FlaggedByItsFlags
    FilesUntilPurging
    AppealsWait
    ApprovedBeforeShown
PROPERTIES
    LockedStatusStays
    LivesAsPromised
