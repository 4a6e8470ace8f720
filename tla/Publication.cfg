\* Two concurrent fetches, two documents on two pages, two revisions.
SPECIFICATION FairSpec
CONSTANTS
    d1 = d1
    d2 = d2
    Fetches = {f1, f2}
    Readers = {r1}
    Docs = {d1, d2}
    Pathless = {d2}
    None = None
    Pages <- MCPages
    MaxEdits = 2
PROPERTIES
    SteadyDocsStay
    CacheConverges
