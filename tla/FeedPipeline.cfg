\* Two concurrent fetches of one feed with one post, two documents.
SPECIFICATION Spec
CONSTANTS
    Fetches = {f1, f2}
    Preview = preview
    Posts = {p1}
    u1 = u1
    u2 = u2
    Urls = {u1, u2}
    Generated = FALSE
    None = None
    Items <- MCItems
    Grace = 2
    Steps <- OneStep
    MaxNow = 3
    MaxVersions = 2
INVARIANTS
    FollowedStays
    StatusIsTrue
PROPERTIES
    ReadablePostsStay
    NeverResurfaces
SYMMETRY Symmetry
