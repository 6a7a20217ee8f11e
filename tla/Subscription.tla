----------------------------- MODULE Subscription -----------------------------
(***************************************************************************)
(* One streaming connection (daemon/mod.rs, stream_updates) and the client *)
(* at its other end: JobSubscription with the part of `mlq follow` that    *)
(* decides that the job is over, or the snapshot stream of `mlq            *)
(* subscribe`.  The task and the coordinator are different threads, and    *)
(* the client reads when it likes.                                         *)
(*                                                                         *)
(* A client that loses its stream may subscribe again after its cursor,    *)
(* which is what the cursor is for; `mlq follow` itself exits.             *)
(***************************************************************************)
EXTENDS EventLog

CONSTANTS
    PageSize,      \* PAGE_SIZE of subscribe_job
    WireSize       \* frames the socket buffers hold before a write blocks

\* A page holds something, or no frame could announce more.
ASSUME PageSizeAssumption == PageSize \in Nat \ {0}

VARIABLES
    reader,        \* the kind of client under observation
    task,          \* the connection task: [pc, after, sent, first, response]
    wire,          \* frames written and not read
    cli            \* the client: [pc, start, cursor, delivered, at]

streamVars == <<task, wire, cli>>

Streaming == reader \in {"job", "snapshot"}

\* views.rs/eligibility_reason, as far as it depends on the job alone: the clock
\* decides between two of its reasons.
Eligibility ==
    IF job.state # "queued" THEN None
    ELSE IF job.delayed THEN "waiting_for_retry_delay" ELSE "waiting_for_slot"

\* views.rs/status_view: what a snapshot says of the job and of admission.
StatusView ==
    [state |-> job.state, eligibility |-> Eligibility, attempt |-> job.attempt,
     requested |-> job.requested, delivered |-> job.delivered, blocked |-> blocked]

\* The part of it that moves only with the log or with the mirror of blocked.
Logged(view) == [state |-> view.state, attempt |-> view.attempt,
                 requested |-> view.requested, blocked |-> view.blocked]

\* handle_read(SubscribeJob): the row and a page of its events from one read
\* transaction, with one row of lookahead.  Without a cursor the stream starts
\* at the head of the whole log.
JobUpdate(after) ==
    LET rows == IF after = None THEN <<>> ELSE FollowedIds(after, Len(log))
        page == SubSeq(rows, 1, IF Len(rows) > PageSize THEN PageSize ELSE Len(rows))
    IN  [cursor |-> IF after = None THEN Len(log)
                    ELSE IF page = <<>> THEN after ELSE page[Len(page)],
         events |-> page, more |-> Len(rows) > PageSize, state |-> job.state, at |-> Len(log)]

\* Mutant: the shortened page keeps the cursor of the full one.
ShrunkKeepingCursor(update) ==
    {update} \cup
    {[update EXCEPT !.events = SubSeq(@, 1, n), !.more = TRUE] :
        n \in {Len(update.events) \div 2, Len(update.events) \div 4} \ {0}}

\* A frame that would be too large is halved, again if need be, but never to
\* nothing; the cursor follows and the rest is fetched next.
Shrunk(update) ==
    {update} \cup
    {[update EXCEPT !.events = SubSeq(@, 1, n), !.cursor = update.events[n], !.more = TRUE] :
        n \in {Len(update.events) \div 2, Len(update.events) \div 4} \ {0}}

------------------------------------------------------------------------------
\* The connection task.

\* The revision is consumed BEFORE the query is sent.
Query ==
    /\ task.pc = "query"
    /\ pending' = FALSE
    /\ task' = [task EXCEPT !.pc = "asked"]
    /\ UNCHANGED <<log, job, written, blocked, published, up, reader, wire, cli>>

Serve ==
    /\ task.pc = "asked" /\ Serving
    /\ task' = [task EXCEPT !.pc = "reply",
                            !.response = IF reader = "job" THEN JobUpdate(task.after) ELSE StatusView]
    /\ UNCHANGED <<logVars, reader, wire, cli>>

\* Unrelated revisions wake the task but put nothing on the wire.
ToSend(frame) ==
    IF reader = "job" THEN task.first \/ frame.events # <<>> ELSE frame # task.sent

\* Mutant: a full page waits for the next revision.
AfterWaiting(frame) ==
    [task EXCEPT !.pc = "wait", !.first = FALSE, !.response = None,
                 !.after = IF reader = "job" THEN frame.cursor ELSE @,
                 !.sent = IF reader = "job" THEN @ ELSE frame]

\* A page that left events behind is followed by the next one at once.
After(frame) ==
    [task EXCEPT !.pc = IF reader = "job" /\ frame.more THEN "query" ELSE "wait",
                 !.first = FALSE, !.response = None,
                 !.after = IF reader = "job" THEN frame.cursor ELSE @,
                 !.sent = IF reader = "job" THEN @ ELSE frame]

\* Mutant: the revision is consumed after the answer, not before the query.
WriteMarking ==
    /\ task.pc = "reply"
    /\ \E frame \in IF reader = "job" THEN Shrunk(task.response) ELSE {task.response} :
          /\ ToSend(frame) => Len(wire) < WireSize
          /\ wire' = IF ToSend(frame) THEN Append(wire, frame) ELSE wire
          /\ task' = After(frame)
    /\ pending' = FALSE
    /\ UNCHANGED <<log, job, written, blocked, published, up, reader, cli>>

Write ==
    /\ task.pc = "reply"
    /\ \E frame \in IF reader = "job" THEN Shrunk(task.response) ELSE {task.response} :
          /\ ToSend(frame) => Len(wire) < WireSize
          /\ wire' = IF ToSend(frame) THEN Append(wire, frame) ELSE wire
          /\ task' = After(frame)
    /\ UNCHANGED <<logVars, reader, cli>>

\* A write that stalls ends the stream: the peer stopped reading.
Stall ==
    /\ task.pc = "reply" /\ ToSend(task.response) /\ Len(wire) = WireSize
    /\ task' = [task EXCEPT !.pc = "closed"]
    /\ UNCHANGED <<logVars, reader, wire, cli>>

Wake ==
    /\ task.pc = "wait" /\ pending
    /\ task' = [task EXCEPT !.pc = "query"]
    /\ UNCHANGED <<logVars, reader, wire, cli>>

\* Shutdown or a crash of the daemon closes every stream.
StopDaemon ==
    /\ up
    /\ up' = FALSE
    /\ task' = [task EXCEPT !.pc = "closed"]
    /\ UNCHANGED <<log, job, written, blocked, published, pending, reader, wire, cli>>

------------------------------------------------------------------------------
\* The client.

Connect ==
    /\ Streaming /\ up /\ cli.pc = "off"
    /\ task' = [pc |-> "query", after |-> cli.cursor, sent |-> None,
                first |-> TRUE, response |-> None]
    /\ wire' = <<>>
    /\ cli' = [cli EXCEPT !.pc = "reading"]
    /\ UNCHANGED <<logVars, reader>>

\* JobSubscription::next refuses a frame whose cursor goes back, that announces
\* more after nothing, or whose events do not rise from the client's cursor to
\* the frame's.
Valid(frame) ==
    LET from == IF cli.cursor = None THEN 0 ELSE cli.cursor
        ids == <<from>> \o frame.events
    IN  /\ frame.cursor >= from
        /\ frame.more => frame.events # <<>>
        /\ \A i \in 2 .. Len(ids) : ids[i] > ids[i - 1] /\ ids[i] <= frame.cursor

\* The follower is done when the backlog is drained and the row is final.
Over(frame) == ~frame.more /\ frame.state = "done"

ReadUpdate ==
    /\ reader = "job" /\ cli.pc = "reading" /\ wire # <<>>
    /\ LET frame == Head(wire)
       IN  cli' = IF ~Valid(frame) THEN [cli EXCEPT !.pc = "invalid"]
                  ELSE [cli EXCEPT !.pc = IF Over(frame) THEN "over" ELSE @,
                                   !.start = IF @ = None THEN frame.cursor ELSE @,
                                   !.cursor = frame.cursor,
                                   !.delivered = @ \o frame.events,
                                   !.at = frame.at]
    /\ wire' = Tail(wire)
    /\ UNCHANGED <<logVars, reader, task>>

\* A snapshot is printed and forgotten.
ReadSnapshot ==
    /\ reader = "snapshot" /\ cli.pc = "reading" /\ wire # <<>>
    /\ wire' = Tail(wire)
    /\ UNCHANGED <<logVars, reader, task, cli>>

\* The daemon closed the stream, which is never taken for completion.
EndOfStream ==
    /\ Streaming /\ cli.pc = "reading" /\ wire = <<>> /\ task.pc = "closed"
    /\ cli' = [cli EXCEPT !.pc = "off"]
    /\ UNCHANGED <<logVars, reader, task, wire>>

StreamInit ==
    /\ task = [pc |-> "closed", after |-> None, sent |-> None, first |-> TRUE, response |-> None]
    /\ wire = <<>>
    /\ \E from \in IF reader = "job" THEN {None, 0} ELSE {None} :
          cli = [pc |-> "off", start |-> from, cursor |-> from, delivered |-> <<>>, at |-> 0]

StreamStep ==
    \/ Query \/ Serve \/ Write \/ Wake
    \/ Connect \/ ReadUpdate \/ ReadSnapshot \/ EndOfStream

==============================================================================
