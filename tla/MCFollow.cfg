\* Two checks, a key that clears after two observations, a full mailbox at one.
SPECIFICATION FairSpec
CONSTANTS
    Configurations <- SomeConfigurations
    k1 = k1
    k2 = k2
    clear_after = 2
    MaxActive = 1
    MaxBatch = 1
    MailboxSize = 1
    MaxEvents = 3
    ErrorKey = ErrorKey
    None = None
INVARIANTS
    SilencedMeansTold
    WarningsNameTheirAttempt
    OutcomeIsLast
PROPERTY
    FollowerEnds
CHECK_DEADLOCK FALSE
