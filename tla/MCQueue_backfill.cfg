SPECIFICATION Spec
CONSTANTS
    MaxJobs = 4
    MaxStarts = 1
    Submissions <- BackfillSubmissions
    Limits = {}
    Priorities = {}
    Inputs = {"orphan", "restart"}
PROPERTIES
    WorkConserving
    BypassRules
    WindowNeedsABlocker
    ReservationMonotone
