\* Two copies of a form submitted at once inside the window.
SPECIFICATION Spec
CONSTANTS
    Requests = {r1, r2}
    Prints = {p1}
    sales = sales
    RecipientSets <- SomeOrNobody
    MaxFilesPerLead = 1
    MaxRetries = 0
    Workers = {w1}
    MaxInFlight = 2
    Disturbances = {}
    None = None
CHECK_DEADLOCK FALSE
INVARIANTS
    OneLeadPerPrint
