\* Every order of uploads, clean-ups, expiries, removals and purges of two files.
SPECIFICATION Spec
CONSTANTS
    Files = {f, g}
    Posts = {p1, p2}
    Rows = {s1}
    Replacements = {i1}
    Requests = {r1, r2}
    None = None
SYMMETRY Interchangeable
INVARIANTS
    TypeOK
    PostsKeepFiles
    WaitingKeepFiles
