\* A text extracted while its entry gets a new revision.
SPECIFICATION PublicationSpec
CONSTANTS
    d1 = d1
    d2 = d2
    Fetches = {f1}
    Readers = {r1}
    Docs = {d1, d2}
    Pathless = {d2}
    None = None
    Pages <- MCPages
    MaxEdits = 2
INVARIANTS
    TextFollowsRevision
