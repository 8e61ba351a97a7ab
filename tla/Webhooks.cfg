\* A delivery run twice at once while its webhook is edited, paused and removed.
SPECIFICATION Spec
CONSTANTS
    Deliveries = {d1}
    Runs = {r1, r2}
    Allowed <- Attempts
    PauseAfter = 3
    None = None
SYMMETRY Interchangeable
CONSTRAINT FewFailures
\* The webhook may be deleted and every delivery with it.
CHECK_DEADLOCK FALSE
INVARIANTS
    TypeOK
    NothingForgotten
    DeliveredWasAccepted
    PausedFairly
PROPERTIES
    DeliveredStays
