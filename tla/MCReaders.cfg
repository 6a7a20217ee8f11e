\* Two pages of events, an attempt that may be retried, a one-frame socket.
SPECIFICATION FairSpec
CONSTANTS
    MaxEvents = 4
    MaxAttempts = 2
    MaxBytes = 2
    PageSize = 2
    PollPage = 2
    WireSize = 1
    None = None
INVARIANTS
    EventsExactlyOnce
    QuietStreamIsCurrent
    AnnouncementsExact
    LogDrained
PROPERTY
    FollowersEnd
