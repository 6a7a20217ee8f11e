SPECIFICATION Spec
CONSTRAINT OneKind
CONSTANTS
    MaxJobs = 3
    MaxStarts = 1
    Submissions <- MixedSubmissions
    Limits = {1, 3}
    Priorities = {0, 1}
    Inputs = {"restart", "cancel", "pause", "orphan", "quarantine", "resolve", "hold", "release",
              "downgrade"}
INVARIANTS
    TablesAgree
    PassNeverAborts
PROPERTIES
    AdmissionRespectsLimits
    OversubscribedOnlyByOperator
    WorkConserving
