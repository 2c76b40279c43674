\* Two requests, the settings and the menu, a tick until an entry expires,
\* three pages.
SPECIFICATION Spec
CONSTANTS
    Requests = {r1, r2}
    Singletons = {settings}
    Menus = {menu}
    TTL = 1
    Pages = {p1, p2, p3}
    Slugs = {s1, s2}
    MaxEdits = 3
    MaxTime = 1
    None = None
SYMMETRY Interchangeable
CHECK_DEADLOCK FALSE
INVARIANTS
    ShownWithinTTL
    ShownAtOnce
    PathTrue
PROPERTY
    NeverBackToDefaults
