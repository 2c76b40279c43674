\* Submissions one after another, nothing loses its work: every lead is
\* notified about or its log says why not, and repeats are merged.
SPECIFICATION FairSpec
CONSTANTS
    Requests = {r1, r2, r3}
    Prints = {p1}
    sales = sales
    RecipientSets <- SomeOrNobody
    MaxFilesPerLead = 0
    MaxRetries = 1
    Workers = {w1}
    MaxInFlight = 1
    Disturbances = {"abort", "delete"}
    None = None
CHECK_DEADLOCK FALSE
INVARIANTS
    NeverSilent
    OneLeadPerPrint
PROPERTIES
    LeadSettles
    NoticeEnds
