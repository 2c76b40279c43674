\* A save outside transactions and one inside, a version that may be lost
\* at any time or be missing at the start.
SPECIFICATION FairSpec
CONSTANTS
    Changes = {c1, c2}
    Transactional = {c2}
    Readers = {r1, r2}
    Selections = {s1}
    MaxVersion = 3
    None = None
CHECK_DEADLOCK FALSE
INVARIANTS
    TypeOK
    NothingMissed
PROPERTIES
    EventuallyFresh
