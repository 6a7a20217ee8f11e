------------------------------- MODULE EventLog -------------------------------
(***************************************************************************)
(* The coordinator as its readers see it: the append-only table events,    *)
(* one job row of interest with its latest attempt, and the watch channel  *)
(* that carries the newest committed event id to the streams.              *)
(*                                                                         *)
(* Every transaction moves the row and appends its events together.  Two   *)
(* things a snapshot shows move without an event: the end of a retry delay *)
(* (eligibility is derived from the clock) and the delivery of a yield     *)
(* request (observe_yield_delivery).  The coordinator publishes once per   *)
(* handled message, so several transactions may share one publication, and *)
(* it serves a read only after publishing what it committed before.        *)
(***************************************************************************)
EXTENDS Naturals, Sequences

CONSTANTS
    MaxEvents,     \* bound: rows in the table events
    MaxAttempts,   \* bound: attempts of the followed job
    MaxBytes,      \* bound: bytes of an attempt's log file
    None

ASSUME NoneAssumption == None \notin Nat

VARIABLES
    log,           \* table events: [job, type]; an event's id is its position
    job,           \* the followed job's row and live attempt: [state, attempt, delayed,
                   \* requested, delivered]
    written,       \* length of the log file of its first attempt
    blocked,       \* admission_blocked, kept in memory
    published,     \* the last published cursor and the mirror of blocked
    pending,       \* the watch channel holds a revision the stream has not seen
    up             \* the daemon serves

logVars == <<log, job, written, blocked, published, pending, up>>

Followed == "followed"
Other == "other"

\* Something is committed or derived that no publication has covered.
Unpublished == published # [cursor |-> Len(log), blocked |-> blocked]

\* One transaction: the new row, and its events in order.
Commit(row, types) ==
    /\ up
    /\ Len(log) + Len(types) <= MaxEvents
    /\ job' = row
    /\ log' = log \o [i \in DOMAIN types |-> [job |-> Followed, type |-> types[i]]]
    /\ UNCHANGED <<written, blocked, published, pending, up>>

StartAttempt ==
    /\ job.state = "queued" /\ ~job.delayed /\ job.attempt < MaxAttempts
    /\ Commit([job EXCEPT !.state = "running", !.attempt = @ + 1], <<"attempt_running">>)

RequestYield ==
    /\ job.state = "running" /\ ~job.requested
    /\ Commit([job EXCEPT !.requested = TRUE], <<"yield_requested">>)

Ended(state, delayed) ==
    [job EXCEPT !.state = state, !.delayed = delayed, !.requested = FALSE, !.delivered = FALSE]

\* reconcile_running: the runner is gone and its command may still run.
OrphanAttempt ==
    /\ job.state = "running"
    /\ Commit([job EXCEPT !.state = "orphaned"], <<"attempt_orphaned">>)

Live == job.state \in {"running", "orphaned"}

\* finalize_attempt_and_job: two rows and two events in one transaction.
ScheduleRetry ==
    /\ Live /\ job.attempt < MaxAttempts
    /\ Commit(Ended("queued", TRUE), <<"attempt_ended", "retry_scheduled">>)

YieldTurn ==
    /\ Live /\ job.delivered
    /\ \E state \in {"queued", "held"} :
          Commit(Ended(state, FALSE), <<"attempt_ended", "job_yielded">>)

EndJob ==
    /\ Live
    /\ Commit(Ended("done", FALSE), <<"attempt_ended", "job_ended">>)

\* A lost attempt that had been told to yield leaves its job held.
LoseYielding ==
    /\ job.state = "orphaned" /\ job.delivered
    /\ Commit(Ended("held", FALSE), <<"attempt_ended", "job_held">>)

CancelQueued ==
    /\ job.state \in {"queued", "held"}
    /\ Commit(Ended("done", FALSE), <<"job_ended">>)

ReleaseJob ==
    /\ job.state = "held"
    /\ Commit(Ended("queued", FALSE), <<"job_released">>)

\* mlq retry takes a final job back.
RetryJob ==
    /\ job.state = "done" /\ job.attempt < MaxAttempts
    /\ Commit(Ended("queued", FALSE), <<"job_retried">>)

\* A transaction about another job, or about the queue.
OtherChange ==
    /\ up /\ Len(log) < MaxEvents
    /\ log' = Append(log, [job |-> Other, type |-> "changed"])
    /\ UNCHANGED <<job, written, blocked, published, pending, up>>

\* The clock passes retry_not_before.
DelayPasses ==
    /\ job.delayed
    /\ job' = [job EXCEPT !.delayed = FALSE]
    /\ UNCHANGED <<log, written, blocked, published, pending, up>>

\* A tick finds yield-sent.json and records it on the attempt, without event.
observe_yield_delivery ==
    /\ up /\ job.requested /\ ~job.delivered
    /\ job' = [job EXCEPT !.delivered = TRUE]
    /\ UNCHANGED <<log, written, blocked, published, pending, up>>

\* A scheduling pass meets a reservation it does not understand, or no longer;
\* each pass is followed by a publication.
ToggleBlocked ==
    /\ up /\ blocked = published.blocked
    /\ blocked' = ~blocked
    /\ UNCHANGED <<log, job, written, published, pending, up>>

\* watch keeps the newest revision only.
publish_revision ==
    /\ up /\ Unpublished
    /\ published' = [cursor |-> Len(log), blocked |-> blocked]
    /\ pending' = TRUE
    /\ UNCHANGED <<log, job, written, blocked, up>>

\* A restarted daemon starts from the committed cursor; blocked is recomputed.
Restart ==
    /\ ~up
    /\ up' = TRUE
    /\ blocked' = FALSE
    /\ published' = [cursor |-> Len(log), blocked |-> FALSE]
    /\ UNCHANGED <<log, job, written, pending>>

\* The first attempt's command writes, with or without a daemon.
WriteLog ==
    /\ Live /\ job.attempt = 1
    /\ written < MaxBytes
    /\ written' = written + 1
    /\ UNCHANGED <<log, job, blocked, published, pending, up>>

LogInit ==
    /\ log = <<>>
    /\ job = [state |-> "queued", attempt |-> 0, delayed |-> FALSE,
              requested |-> FALSE, delivered |-> FALSE]
    /\ written = 0 /\ blocked = FALSE
    /\ published = [cursor |-> 0, blocked |-> FALSE]
    /\ pending = FALSE
    /\ up = TRUE

LogNext ==
    \/ StartAttempt \/ RequestYield \/ OrphanAttempt \/ ScheduleRetry \/ YieldTurn
    \/ EndJob \/ LoseYielding \/ CancelQueued \/ ReleaseJob \/ RetryJob
    \/ OtherChange \/ DelayPasses \/ observe_yield_delivery
    \/ publish_revision \/ Restart

\* The coordinator answers a read: after publishing, so never between a commit
\* and its publication.
Serving == up /\ ~Unpublished

\* The ids of the followed job's events in (after, upTo], in order.
FollowedIds(after, upTo) ==
    LET ids[n \in 0 .. upTo] ==
            IF n <= after THEN <<>>
            ELSE IF log[n].job = Followed THEN Append(ids[n - 1], n) ELSE ids[n - 1]
    IN  ids[upTo]

==============================================================================
