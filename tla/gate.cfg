\* Two workers; the burst window is a tick long, the hour two, the cookie's
\* life one; a file too many is two.
SPECIFICATION Spec
CONSTANTS
    Workers = {w1, w2}
    Inputs <- MCInputs
    Campaigns = {ad, adLong}
    Oversized = {adLong}
    Keys = {"utm_source", "yclid"}
    UtmKeys = {"utm_source"}
    KeysOf <- MCKeysOf
    ad = ad
    adLong = adLong
    Limit <- MCLimit
    Window <- MCWindow
    CookieAge = 1
    MaxFiles = 1
    MaxRequests = 3
    MaxTime = 2
    None = None
SYMMETRY Interchangeable
CHECK_DEADLOCK FALSE
INVARIANTS
    TypeOK
    LimitHolds
    CreditedToLast
    AllFilesKept
