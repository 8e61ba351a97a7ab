\* A run of the file before, late: what is shown once everything is done.
SPECIFICATION Spec
CONSTANTS
    large = large  small = small
    thumb = thumb  sample = sample
    p1 = p1
    Files = {large, small}
    Kinds = {thumb, sample}
    Wanted <- Made
    Runs = {r1, r2}
    Processes = {p1}
    On <- Together
    MaxJobs = 2
    Allowed <- Attempts
    None = None
CONSTRAINT FewAtOnce
SYMMETRY AnyRun
VIEW Seen
\* Every job may be done and the post gone.
CHECK_DEADLOCK FALSE
INVARIANTS
    MadeAgainFromTheNewFile
