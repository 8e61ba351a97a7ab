\* Two runs of one process, while the file is replaced or the post purged.
SPECIFICATION Spec
CONSTANTS
    large = large  small = small
    thumb = thumb  sample = sample
    p1 = p1
    Files = {large, small}
    Kinds = {thumb, sample}
    Wanted <- Made
    Runs = {r1, r2}
    Processes = {p1}
    On <- Together
    MaxJobs = 3
    Allowed <- Attempts
    None = None
CONSTRAINT FewAtOnce
SYMMETRY AnyRun
VIEW Seen
\* Every job may be done and the post gone.
CHECK_DEADLOCK FALSE
INVARIANTS
    TypeOK
    UnprocessedHasJob
    RenditionsOfTheFile
    ProcessedInFull
