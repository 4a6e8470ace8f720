\* A preview that leads the flight is closed while a fetch shares it.
SPECIFICATION Spec
CONSTANTS
    Fetches = {f1}
    Preview = preview
    Posts = {p1}
    u1 = u1
    u2 = u2
    Urls = {u1, u2}
    Generated = FALSE
    None = None
    Items <- MCItems
    Grace = 2
    Steps <- OneStep
    MaxNow = 2
    MaxVersions = 1
INVARIANTS
    OnlyOwnCancel
SYMMETRY Symmetry
