SPECIFICATION FairSpec
CONSTANTS
    Limits = {1, 2}
    grace = 1
    MaxTime = 3
    MaxEdits = 2
    None = None
INVARIANTS
    TimeoutSticks
    TimeoutOverran
PROPERTIES
    KillWaitsForGrace
    LimitIsEnforced
