\* The snapshot stream against the claim that only events move a snapshot.
SPECIFICATION Spec
CONSTANTS
    MaxEvents = 4
    MaxAttempts = 2
    MaxBytes = 2
    PageSize = 2
    PollPage = 2
    WireSize = 1
    None = None
INVARIANT
    SnapshotMovesOnlyWithEvents
