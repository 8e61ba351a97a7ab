\* An appeal that commits while a purge waits for the post's row.
SPECIFICATION Spec
CONSTANTS
    Posts = {p1}
    Users = {u1, u2}
    Runs = {w1, w2}
    None = None
SYMMETRY Interchangeable
\* The post may be gone.
CHECK_DEADLOCK FALSE
INVARIANT AppealedNotPurged
