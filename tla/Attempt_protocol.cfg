SPECIFICATION Spec
CONSTANTS
    MaxRestarts = 1
    SlowStart = FALSE
    Inputs = {"cancel", "yield", "resolve", "limit", "fork", "runner_crash", "restart",
              "reboot", "launch_error", "io_error", "corrupt"}
INVARIANT TypeOK
INVARIANT LeaseCoversCommand
INVARIANT CommandRunsOnce
INVARIANT OutcomeIsTrue
PROPERTY SignalsAreDeliberate
PROPERTY ResultDecides
PROPERTY ImplementsLifecycle
