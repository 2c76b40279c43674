\* Two machines, four slugs, two administrators; three requests are enough
\* for a rename there, back and on, and for a slug that changes hands.
SPECIFICATION Spec
CONSTANTS
    Machines = {m1, m2}
    Slugs = {s1, s2, s3, s4}
    Admins = {a1, a2}
    Keys = {k1}
    Values = {v1}
    Names = {n1}
    Files = {f1, f2}
    MaxEdits = 3
    None = None
SYMMETRY Interchangeable
CHECK_DEADLOCK FALSE
INVARIANTS
    LinksLive
    SnapshotTrue
    PictureTrue
