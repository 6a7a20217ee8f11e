------------------------------- MODULE Readers --------------------------------
(***************************************************************************)
(* One reader beside the coordinator.  Which kind of reader is observed is *)
(* chosen initially: readers never affect the queue or one another.        *)
(***************************************************************************)
EXTENDS Subscription, Pollers

vars == <<logVars, reader, streamVars, pollVars>>

Init ==
    /\ reader \in {"job", "snapshot", "tts", "logs"}
    /\ LogInit /\ StreamInit /\ PollInit

\* Only a snapshot shows admission, and only the log follower the file.
LogStep ==
    /\ \/ LogNext
       \/ reader = "snapshot" /\ ToggleBlocked
       \/ reader = "logs" /\ WriteLog
    /\ UNCHANGED <<reader, streamVars, pollVars>>

Stop == StopDaemon /\ UNCHANGED pollVars

SubscriberStep == (StreamStep \/ Stall) /\ UNCHANGED pollVars

PollerStep ==
    /\ \/ reader = "tts" /\ TtsStep
       \/ reader = "logs" /\ (TailStep \/ TailFails)
    /\ UNCHANGED <<reader, streamVars>>

Next == LogStep \/ Stop \/ SubscriberStep \/ PollerStep

Spec == Init /\ [][Next]_vars

\* The coordinator's loop, the runtime's tasks and a client that keeps reading.
\* A request waits in a first-in first-out mailbox, so the coordinator comes to
\* it whatever else it has to do in between: its answers are strongly fair.
\* Nothing is assumed of the queue, of restarts or of a stalling write.
Streamed(A) == A /\ UNCHANGED pollVars
Polled(A) == reader = "logs" /\ A /\ UNCHANGED <<reader, streamVars>>

Fairness ==
    /\ WF_vars(publish_revision /\ UNCHANGED <<reader, streamVars, pollVars>>)
    /\ WF_vars(Streamed(Query \/ Write \/ Wake))
    /\ WF_vars(Streamed(Connect \/ ReadUpdate \/ EndOfStream))
    /\ SF_vars(Streamed(Serve))
    /\ WF_vars(Polled(TailCopy \/ TailMeasure))
    /\ SF_vars(Polled(TailOpen \/ TailAsk))

FairSpec == Spec /\ Fairness

------------------------------------------------------------------------------

\* A job subscriber is handed every event of its job after its starting point
\* exactly once and in order, over page boundaries, shortened pages, stalls,
\* daemon restarts and reconnections; JobSubscription::next refuses no frame the
\* daemon sends; and a follower that reports the job over has been handed every
\* event behind the outcome it reports.
EventsExactlyOnce ==
    /\ cli.pc # "invalid"
    /\ reader = "job" /\ cli.cursor # None => cli.delivered = FollowedIds(cli.start, cli.cursor)
    /\ cli.pc = "over" => cli.delivered = FollowedIds(cli.start, cli.at)

\* No wake-up is lost: while a stream sleeps in select with no revision waiting
\* for it, the last frame it sent covers everything the coordinator published
\* (stream_updates marks the revision before it asks).
QuietStreamIsCurrent ==
    task.pc = "wait" /\ ~pending /\ Serving =>
        IF reader = "job" THEN FollowedIds(task.after, Len(log)) = <<>>
        ELSE Logged(task.sent) = Logged(StatusView)

\* The claim of the comment on publish_revision and of ARCHITECTURE.md: every
\* snapshot field but admissionBlocked moves only through a committed event, so
\* that the snapshot a sleeping stream sent last is the current one.
SnapshotMovesOnlyWithEvents ==
    reader = "snapshot" /\ task.pc = "wait" /\ ~pending /\ Serving => task.sent = StatusView

\* The job is running at n: its last event that moved it was a start.
RunningAt(n) ==
    \E i \in 1 .. n :
        /\ log[i] = [job |-> Followed, type |-> "attempt_running"]
        /\ \A k \in i + 1 .. n : log[k].job = Followed => log[k].type = "yield_requested"

\* The TTS follower speaks every event after its start exactly once whatever
\* requests fail, and names a job as running only if it was at the cursor the
\* announcement covers (follow_tts_events moves the cursor when the last page is
\* in, follow_tts_announcement replays the batch in order).
AnnouncementsExact ==
    /\ tts.said \o tts.batch = [i \in 1 .. tts.cursor - tts.start |-> tts.start + i]
    /\ Followed \in tts.running => RunningAt(tts.as_of)

\* mlq logs --follow ends only when it has printed the whole file: a final
\* attempt writes no more, so a length measured after its state was read is final.
LogDrained == tail.pc = "over" => tail.offset = written

\* A follower of a job that stays over learns it, and the log follower ends,
\* provided the daemon stays up: neither can wait for a wake-up that never comes.
FollowersEnd ==
    <>[](up /\ job.state = "done") =>
        /\ reader = "job" => <>(cli.pc = "over")
        /\ reader = "logs" => <>(tail.pc \in {"over", "failed"} \/ job.attempt = 0)

==============================================================================
