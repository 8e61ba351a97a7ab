\* An upload of a file whose staged upload expires.
SPECIFICATION Spec
CONSTANTS
    Files = {f, g}
    Posts = {p1}
    Rows = {s1}
    Replacements = {i1}
    Requests = {r1}
    None = None
SYMMETRY Interchangeable
INVARIANT PostsHaveFiles
