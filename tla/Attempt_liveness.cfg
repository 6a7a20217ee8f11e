SPECIFICATION FairSpec
CONSTANTS
    MaxRestarts = 1
    SlowStart = FALSE
    Inputs = {"cancel", "force", "fork", "limit", "launch_error", "runner_crash", "restart"}
PROPERTY ForcedCancelEnds
PROPERTY AttemptEnds
