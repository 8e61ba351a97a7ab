\* Two rewrites at a time: the requests, decisions and rewrites of three relations on one
\* post, of two with an edit or a dying rewrite, and of one with two of these on two posts.
SPECIFICATION Spec
CONSTANTS
    Tags = {ta, tb, tc}
    Posts = {p1, p2}
    Ids = {r1, r2, r3}
    Workers = 2
    MaxWork = 3
    Wanted <- Singles
    None = None
CONSTRAINT FewAtOnce
VIEW Seen
SYMMETRY Interchangeable
\* Every request may be decided, every rewrite over and every edit made.
CHECK_DEADLOCK FALSE
INVARIANTS
    TypeOK
    RulesConsistent
    AppliedRulesHold
    OpenEditsAreClosed
PROPERTIES
    BatchesRunOut
