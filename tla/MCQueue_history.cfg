SPECIFICATION Spec
CONSTRAINT OneFamily
CONSTANTS
    MaxJobs = 3
    MaxStarts = 2
    Submissions <- HistorySubmissions
    Limits = {}
    Priorities = {}
    Inputs = {"retry", "cancel", "yield", "hold", "release", "orphan", "quarantine", "resolve",
              "clock_back"}
INVARIANTS
    ReadyPositionsDistinct
    GraphAtFixedPoint
PROPERTIES
    BackOfTheLine
    FinalStatesAreFinal
