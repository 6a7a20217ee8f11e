SPECIFICATION FairSpec
CONSTANTS
    MaxJobs = 3
    MaxStarts = 1
    Submissions <- PrioritySubmissions
    Limits = {}
    Priorities = {}
    Inputs = {}
PROPERTIES
    ProtectionEnds
    ReadyJobsLeaveTheQueue
