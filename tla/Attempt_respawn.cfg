SPECIFICATION Spec
CONSTANTS
    MaxRestarts = 1
    SlowStart = TRUE
    Inputs = {"restart"}
INVARIANT CommandRunsOnce
