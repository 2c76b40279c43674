\* Everything may fail: two overlapping submissions, two workers.
SPECIFICATION Spec
CONSTANTS
    Requests = {r1, r2}
    Prints = {p1}
    sales = sales
    RecipientSets <- SomeOrNobody
    MaxFilesPerLead = 1
    MaxRetries = 3
    Workers = {w1, w2}
    MaxInFlight = 2
    Disturbances = {"abort", "publish", "broker", "worker", "expire", "delete", "storage"}
    None = None
SYMMETRY Interchangeable
CHECK_DEADLOCK FALSE
INVARIANTS
    TypeOK
    OneNotice
    NoticeAfterCommit
    SentIsFinal
    TryCountsFailures
    LettersBounded
    NoOrphanOfOwnLead
PROPERTIES
    DeliverySpec
