\* Two overlapping purges, crashes, deletions, a list and a form in use.
SPECIFICATION FairSpec
CONSTANTS
    Leads = {l1, l2}
    Docs = {d1}
    Purges = {p1, p2}
    ListEditors = {e1}
    FormEditors = {e2}
    MaxDisturbances = 3
    Gone = Gone
CHECK_DEADLOCK FALSE
INVARIANTS
    NoDocumentLost
    TraceIsClean
PROPERTIES
    EventuallyAnonymized
