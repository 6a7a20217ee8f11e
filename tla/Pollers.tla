------------------------------- MODULE Pollers --------------------------------
(***************************************************************************)
(* The two readers that poll: `mlq follow-tts`, which pages through the    *)
(* event table and speaks what happened in batches, and `mlq logs          *)
(* --follow`, which copies an attempt's log file until the attempt is over *)
(* and the file is drained.  Every exchange is a request of its own and    *)
(* may fail; the TTS follower carries on, the log follower exits.          *)
(***************************************************************************)
EXTENDS EventLog

CONSTANT PollPage     \* PAGE_SIZE of follow_tts_events

ASSUME PollPageAssumption == PollPage \in Nat

VARIABLES
    tts,           \* [pc, start, cursor, next, all, batch, said, running, as_of]
    tail           \* [pc, offset]

pollVars == <<tts, tail>>

\* The events at which follow_tts_announcement strikes a job off its list.
Ending == {"job_ended", "retry_scheduled", "job_yielded", "attempt_orphaned"}

\* follow_tts_announcement: the jobs named after "Now running", that is those put
\* on the list by an event of the batch and struck off by none after it.
Started(ids) ==
    {log[ids[i]].job : i \in {k \in DOMAIN ids :
        /\ log[ids[k]].type = "attempt_running"
        /\ \A m \in DOMAIN ids :
              m > k /\ log[ids[m]].job = log[ids[k]].job => log[ids[m]].type \notin Ending}}

\* The singleton starts at the head of the log.
TtsStart ==
    /\ tts.pc = "start" /\ Serving
    /\ tts' = [tts EXCEPT !.pc = "poll", !.start = Len(log), !.cursor = Len(log),
                          !.next = Len(log), !.as_of = Len(log)]
    /\ UNCHANGED <<logVars, tail>>

TtsPoll ==
    /\ tts.pc = "poll"
    /\ tts' = [tts EXCEPT !.pc = "first", !.next = tts.cursor, !.all = <<>>]
    /\ UNCHANGED <<logVars, tail>>

\* Mutant: every page moves the cursor as it comes in.
TtsPagePerPage ==
    /\ tts.pc \in {"first", "second"} /\ Serving
    /\ LET upTo == IF Len(log) - tts.next > PollPage THEN tts.next + PollPage ELSE Len(log)
           all == tts.all \o [i \in 1 .. upTo - tts.next |-> tts.next + i]
           full == upTo - tts.next = PollPage
           batch == tts.batch \o all
       IN  tts' = IF full THEN [tts EXCEPT !.next = upTo, !.all = all, !.cursor = upTo]
                  ELSE [tts EXCEPT !.next = upTo, !.all = <<>>, !.cursor = upTo, !.batch = batch,
                                   !.pc = IF tts.pc = "second" THEN "announce"
                                          ELSE IF batch = <<>> THEN "poll" ELSE "second"]
    /\ UNCHANGED <<logVars, tail>>

\* follow_tts_events asks until a page is short, and only then moves the cursor;
\* a first fetch that found something is followed by a second one.
TtsPage ==
    /\ tts.pc \in {"first", "second"} /\ Serving
    /\ LET upTo == IF Len(log) - tts.next > PollPage THEN tts.next + PollPage ELSE Len(log)
           all == tts.all \o [i \in 1 .. upTo - tts.next |-> tts.next + i]
           full == upTo - tts.next = PollPage
           batch == tts.batch \o all
       IN  tts' = IF full THEN [tts EXCEPT !.next = upTo, !.all = all]
                  ELSE [tts EXCEPT !.next = upTo, !.all = <<>>, !.cursor = upTo, !.batch = batch,
                                   !.pc = IF tts.pc = "second" THEN "announce"
                                          ELSE IF batch = <<>> THEN "poll" ELSE "second"]
    /\ UNCHANGED <<logVars, tail>>

\* No answer: pages already fetched are dropped, a first batch is still spoken.
TtsFails ==
    /\ tts.pc \in {"first", "second"}
    /\ tts' = [tts EXCEPT !.all = <<>>, !.pc = IF tts.pc = "second" THEN "announce" ELSE "poll"]
    /\ UNCHANGED <<logVars, tail>>

TtsAnnounce ==
    /\ tts.pc = "announce"
    /\ tts' = [tts EXCEPT !.pc = "poll", !.batch = <<>>, !.said = @ \o tts.batch,
                          !.running = Started(tts.batch), !.as_of = tts.cursor]
    /\ UNCHANGED <<logVars, tail>>

------------------------------------------------------------------------------
\* mlq logs --follow of the first attempt.

FirstAttemptOver ==
    job.attempt > 1 \/ (job.attempt = 1 /\ ~Live)

\* The paths come from a first request, which needs the attempt to exist.
TailOpen ==
    /\ tail.pc = "open" /\ Serving /\ job.attempt >= 1
    /\ tail' = [tail EXCEPT !.pc = "copy"]
    /\ UNCHANGED <<logVars, tts>>

\* copy_log_snapshot
TailCopy ==
    /\ tail.pc = "copy"
    /\ tail' = [tail EXCEPT !.pc = "ask", !.offset = written]
    /\ UNCHANGED <<logVars, tts>>

\* Mutant: a final attempt ends the loop without another look at the file.
TailAskOnly ==
    /\ tail.pc = "ask" /\ Serving
    /\ tail' = [tail EXCEPT !.pc = IF FirstAttemptOver THEN "over" ELSE "copy"]
    /\ UNCHANGED <<logVars, tts>>

TailAsk ==
    /\ tail.pc = "ask" /\ Serving
    /\ tail' = [tail EXCEPT !.pc = IF FirstAttemptOver THEN "measure" ELSE "copy"]
    /\ UNCHANGED <<logVars, tts>>

TailFails ==
    /\ tail.pc \in {"open", "ask"} /\ ~up
    /\ tail' = [tail EXCEPT !.pc = "failed"]
    /\ UNCHANGED <<logVars, tts>>

TailMeasure ==
    /\ tail.pc = "measure"
    /\ tail' = [tail EXCEPT !.pc = IF written > tail.offset THEN "copy" ELSE "over"]
    /\ UNCHANGED <<logVars, tts>>

PollInit ==
    /\ tts = [pc |-> "start", start |-> 0, cursor |-> 0, next |-> 0, all |-> <<>>,
              batch |-> <<>>, said |-> <<>>, running |-> {}, as_of |-> 0]
    /\ tail = [pc |-> "open", offset |-> 0]

TtsStep == TtsStart \/ TtsPoll \/ TtsPage \/ TtsFails \/ TtsAnnounce

TailStep == TailOpen \/ TailCopy \/ TailAsk \/ TailMeasure

==============================================================================
