\* Three runs, two changes by administrators between their stages.
SPECIFICATION SeedSpec
CONSTANTS
    Touched <- MCTouched
    MaxRuns = 3
    MaxEdits = 2
CHECK_DEADLOCK FALSE
INVARIANTS
    FailsOnlyOverDoubles
    LandingsCanShow
