-------------------------------- MODULE Follow --------------------------------
(***************************************************************************)
(* The follower process, `mlq follow JOB` (follow.rs, follow_checks.rs):   *)
(* one task that waits for frames of the job's stream and, while the job   *)
(* runs, for the deadlines of its checks; a worker that runs notification  *)
(* hooks behind a bounded mailbox; and the end, which prints the outcome   *)
(* and then runs the finish hooks.                                         *)
(*                                                                         *)
(* The stream is used through what module Readers shows of it: every event *)
(* of the job once and in order, in frames that carry the row as it is     *)
(* when the frame is made.  Instants are abstracted: a deadline is due or  *)
(* not, the warning cooldown is running or not.  A check may take as long  *)
(* as it likes, and what it observes is arbitrary.  The two totals that    *)
(* the last line reports, of suppressed warnings and of dropped            *)
(* notifications, are left out.                                            *)
(***************************************************************************)
EXTENDS Naturals, Sequences, FiniteSets

CONSTANTS
    Configurations, \* ways the command may be started: [checks, keys, fails, steps, events, hooked]
    clear_after,
    MaxActive,     \* MAX_ACTIVE
    MaxBatch,      \* MAX_BATCH of WarningBudget
    MailboxSize,   \* capacity of the hook channel
    MaxEvents,     \* bound: events of the followed job
    ErrorKey,      \* ERROR_KEY
    None

Kinds == {"started", "warning", "retry", "yielded", "attention", "finished"}

ASSUME ConstantsAssumption ==
    /\ \A c \in Configurations :
          /\ c.checks \in Nat /\ ErrorKey \notin c.keys /\ c.fails \in BOOLEAN
          /\ c.steps \subseteq Nat \cup {None}
          /\ c.events \subseteq Kinds /\ c.hooked \subseteq Kinds
    /\ clear_after \in Nat \ {0}
    /\ MaxActive \in Nat \ {0} /\ MaxBatch \in Nat \ {0} /\ MailboxSize \in Nat \ {0}

VARIABLES
    conf,          \* how this follower was started
    job,           \* the row and its latest attempt: [attempt, state, ended]
    count,         \* events of the job so far
    backlog,       \* its events that no frame has carried
    stream,        \* a frame that arrived and was not read
    fol,           \* the observing task
    checks,        \* CheckState of each check
    batch,         \* the run_due in flight, or None
    cooling,       \* the last warning is less than COOLDOWN old
    hooks,         \* [mailbox, busy]: the worker and its channel
    printed,       \* the last line on standard output
    hook,          \* the last hook that was started
    quiet          \* fresh observations that omitted a key since it was last told

jobVars == <<conf, job, count, backlog>>
vars == <<jobVars, stream, fol, checks, batch, cooling, hooks, printed, hook, quiet>>

\* FollowArgs::configure: the outcome is always reported, and checks run only
\* for a follower that wants warnings.
Selected == conf.events \cup {"finished"}
Checks == IF "warning" \in Selected THEN 1 .. conf.checks ELSE {}

Final == {"succeeded", "failed", "cancelled"}
Live == {"running", "needs_attention"}

------------------------------------------------------------------------------
\* The job, and the stream that tells of it.

\* Once the follower is gone nothing more is observed.
Watching == fol.pc \notin {"over", "quit"}

Happens(row, kind) ==
    /\ count < MaxEvents /\ Watching
    /\ count' = count + 1
    /\ job' = row
    /\ backlog' = Append(backlog, kind)
    /\ UNCHANGED <<conf, stream, fol, checks, batch, cooling, hooks, printed, hook, quiet>>

JobStarts ==
    /\ job.state = "queued"
    /\ Happens([attempt |-> job.attempt + 1, state |-> "running", ended |-> None], "started")

JobGoesBack ==
    /\ job.state \in Live
    /\ \E kind \in {"retry", "yielded"} :
          Happens([job EXCEPT !.state = "queued",
                              !.ended = IF kind = "retry" THEN "failed" ELSE kind], kind)

\* An event of no interest to the follower, or an attempt that is orphaned or
\* quarantined.
JobChanges ==
    /\ job.state = "running"
    /\ \/ Happens(job, "other")
       \/ Happens([job EXCEPT !.state = "needs_attention"], "attention")

JobEnds ==
    \/ /\ job.state \in Live
       /\ \E state \in Final : Happens([job EXCEPT !.state = state, !.ended = state], "other")
    \/ /\ job.state = "queued"
       /\ Happens([job EXCEPT !.state = "cancelled"], "other")

\* A frame: a page of events and the row as it is now.
Frame ==
    /\ stream = None /\ backlog # <<>> /\ Watching
    /\ \E n \in 1 .. Len(backlog) :
          /\ stream' = [row |-> job, events |-> SubSeq(backlog, 1, n), more |-> n < Len(backlog)]
          /\ backlog' = SubSeq(backlog, n + 1, Len(backlog))
    /\ UNCHANGED <<conf, job, count, fol, checks, batch, cooling, hooks, printed, hook, quiet>>

------------------------------------------------------------------------------
\* Output and hooks.

Line(kind, attempt, observed) == [kind |-> kind, attempt |-> attempt, observed |-> observed]

\* Output::emit: write the line, then offer it to the hook worker without ever
\* waiting for it; a full mailbox drops the notification and counts it.
WriteLine ==
    /\ fol.out # <<>>
    /\ LET line == Head(fol.out)
           offer == line.kind \in conf.hooked \ {"finished"}
           room == Len(hooks.mailbox) < MailboxSize
       IN  /\ printed' = line
           /\ hooks' = [hooks EXCEPT !.mailbox =
                            IF offer /\ room THEN Append(@, line.kind) ELSE @]
           /\ fol' = [fol EXCEPT !.out = Tail(@)]
    /\ UNCHANGED <<jobVars, stream, checks, batch, cooling, hook, quiet>>

HookStarts ==
    /\ ~hooks.busy /\ hooks.mailbox # <<>>
    /\ hook' = Head(hooks.mailbox)
    /\ hooks' = [mailbox |-> Tail(hooks.mailbox), busy |-> TRUE]
    /\ UNCHANGED <<jobVars, stream, fol, checks, batch, cooling, printed, quiet>>

HookEnds ==
    /\ hooks.busy
    /\ hooks' = [hooks EXCEPT !.busy = FALSE]
    /\ UNCHANGED <<jobVars, stream, fol, checks, batch, cooling, printed, hook, quiet>>

------------------------------------------------------------------------------
\* The observing task.

Fresh == [due |-> TRUE, active |-> [k \in {} |-> 0], last_step |-> None, failed |-> FALSE]

\* reset_attempt
ResetAttempt ==
    /\ checks' = [c \in Checks |-> Fresh]
    /\ quiet' = [p \in Checks \X (conf.keys \cup {ErrorKey}) |-> clear_after]

\* The events of a frame that were selected, in order.  Warnings and the outcome
\* are the follower's own lines.
Chosen(events) ==
    LET chosen[i \in 0 .. Len(events)] ==
            IF i = 0 THEN <<>>
            ELSE IF events[i] \in Selected \ {"warning", "finished"}
                 THEN Append(chosen[i - 1], events[i]) ELSE chosen[i - 1]
    IN  chosen[Len(events)]

\* The lines a frame gives rise to; a follower that joins an attempt in trouble
\* says so from the row.
LinesOf(frame) ==
    LET joined == IF fol.initial /\ frame.row.state = "needs_attention" /\ "attention" \in Selected
                  THEN <<"attention">> ELSE <<>>
        kinds == Chosen(frame.events) \o joined
    IN  [i \in DOMAIN kinds |-> Line(kinds[i], None, None)]

\* The first frame needs no reset: the checks are new.
NewAttempt(frame) == ~fol.initial /\ frame.row.attempt # fol.row.attempt

\* The backlog is drained and the row is final.
Ends(frame) == ~frame.more /\ frame.row.state \in Final

\* Mutant: a batch in flight survives the arrival of a frame.
HandleKeepingBatch(frame) ==
    /\ fol' = [fol EXCEPT !.pc = IF Ends(frame) THEN "finish" ELSE "idle",
                          !.row = frame.row, !.more = frame.more, !.initial = FALSE,
                          !.out = LinesOf(frame)]
    /\ IF NewAttempt(frame) THEN ResetAttempt ELSE UNCHANGED <<checks, quiet>>
    /\ UNCHANGED batch

\* One turn of the loop of follow: a new attempt resets the checks, the events
\* are reported, and a drained backlog with a final row ends the loop.
Handle(frame) ==
    /\ fol' = [fol EXCEPT !.pc = IF Ends(frame) THEN "finish" ELSE "idle",
                          !.row = frame.row, !.more = frame.more, !.initial = FALSE,
                          !.out = LinesOf(frame)]
    /\ IF NewAttempt(frame) THEN ResetAttempt ELSE UNCHANGED <<checks, quiet>>
    /\ batch' = None

\* Mutant: checks that have begun are waited for.
ReceiveWhenIdle ==
    /\ fol.pc = "idle" /\ fol.out = <<>> /\ stream # None /\ batch = None
    /\ Handle(stream)
    /\ stream' = None
    /\ UNCHANGED <<jobVars, cooling, hooks, printed, hook>>

\* A frame is taken before anything else, also in the middle of a batch, whose
\* processes are killed and whose results are dropped.
Receive ==
    /\ fol.pc = "idle" /\ fol.out = <<>> /\ stream # None
    /\ Handle(stream)
    /\ stream' = None
    /\ UNCHANGED <<jobVars, cooling, hooks, printed, hook>>

\* The next check at or after c whose deadline has passed.
NextDue(c) ==
    LET due == {d \in Checks : d >= c /\ checks[d].due}
    IN  IF due = {} THEN None ELSE CHOOSE d \in due : \A e \in due : d <= e

StartChecks ==
    /\ fol.pc = "idle" /\ fol.out = <<>> /\ stream = None /\ batch = None
    /\ fol.row.state = "running" /\ ~fol.more /\ NextDue(1) # None
    /\ batch' = [at |-> NextDue(1), attempt |-> fol.row.attempt, done |-> <<>>]
    /\ UNCHANGED <<jobVars, stream, fol, checks, cooling, hooks, printed, hook, quiet>>

DeadlinePasses(c) ==
    /\ fol.pc = "idle" /\ ~checks[c].due
    /\ checks' = [checks EXCEPT ![c].due = TRUE]
    /\ UNCHANGED <<jobVars, stream, fol, batch, cooling, hooks, printed, hook, quiet>>

CooldownPasses ==
    /\ fol.pc = "idle" /\ cooling
    /\ cooling' = FALSE
    /\ UNCHANGED <<jobVars, stream, fol, checks, batch, hooks, printed, hook, quiet>>

------------------------------------------------------------------------------
\* A check's result: it failed, or it observed some keys at some step.

Results ==
    (IF conf.fails THEN {None} ELSE {}) \cup [keys : SUBSET conf.keys, step : conf.steps]

\* A cached result: it carries a step that is no news.
Cached(check, result) ==
    result.step # None /\ check.last_step # None /\ result.step <= check.last_step

TooMany(check, result) == Cardinality(DOMAIN check.active \cup result.keys) > MaxActive

Fails(check, result) ==
    result = None \/ (~Cached(check, result) /\ TooMany(check, result))

\* CheckState::observe and ::failure: a key stays silenced until clear_after
\* fresh observations in a row omit it.
Observe(check, result) ==
    IF Fails(check, result) THEN [check EXCEPT !.due = FALSE, !.failed = TRUE]
    ELSE IF Cached(check, result) THEN [check EXCEPT !.due = FALSE, !.failed = FALSE]
    ELSE [check EXCEPT !.due = FALSE, !.failed = FALSE,
              !.last_step = IF result.step = None THEN @ ELSE result.step,
              !.active = [k \in result.keys \cup
                                {a \in DOMAIN @ : @[a] + 1 < clear_after} |->
                                IF k \in result.keys THEN 0 ELSE @[k] + 1]]

\* The keys a result raises.
Findings(check, result) ==
    IF Fails(check, result) THEN {ErrorKey} \ (IF check.failed THEN {ErrorKey} ELSE {})
    ELSE IF Cached(check, result) THEN {}
    ELSE result.keys \ DOMAIN check.active

\* What was told of each key, kept beside the code: told now or again seen, one
\* more fresh observation without it, or nothing learned.
QuietAfter(c, check, result, old) ==
    [p \in DOMAIN old |->
        IF p[1] # c THEN old[p]
        ELSE IF p[2] = ErrorKey THEN IF Fails(check, result) THEN 0 ELSE clear_after
        ELSE IF Fails(check, result) \/ Cached(check, result) THEN old[p]
        ELSE IF p[2] \in result.keys THEN 0
        ELSE IF old[p] < clear_after THEN old[p] + 1 ELSE clear_after]

\* run_due after its last await, WarningBudget::admit and the warning line.
Settle(done) ==
    LET raised == {<<done[i][1], k>> : i \in DOMAIN done, k \in conf.keys \cup {ErrorKey}}
        found == {p \in raised : \E i \in DOMAIN done :
                     done[i][1] = p[1] /\ p[2] \in Findings(checks[p[1]], done[i][2])}
        result == [c \in {done[i][1] : i \in DOMAIN done} |->
                     done[CHOOSE i \in DOMAIN done : done[i][1] = c][2]]
        accepted == IF cooling THEN 0
                    ELSE IF Cardinality(found) > MaxBatch THEN MaxBatch ELSE Cardinality(found)
    IN  /\ checks' = [c \in Checks |->
                        IF c \in DOMAIN result THEN Observe(checks[c], result[c]) ELSE checks[c]]
        /\ quiet' = [p \in DOMAIN quiet |->
                        IF p[1] \in DOMAIN result
                        THEN QuietAfter(p[1], checks[p[1]], result[p[1]], quiet)[p] ELSE quiet[p]]
        /\ cooling' = (cooling \/ accepted > 0)
        /\ fol' = [fol EXCEPT !.out = IF accepted = 0 THEN @
                                      ELSE <<Line("warning", fol.row.attempt, batch.attempt)>>]
        /\ batch' = None

\* Mutant: each check's state is committed as its result comes in.
CheckReturnsCommitting ==
    /\ fol.pc = "idle" /\ batch # None /\ stream = None
    /\ \E result \in Results :
          LET done == Append(batch.done, <<batch.at, result>>)
              next == NextDue(batch.at + 1)
          IN  IF next = None THEN Settle(done)
              ELSE /\ batch' = [batch EXCEPT !.at = next, !.done = done]
                   /\ checks' = [checks EXCEPT ![batch.at] = Observe(@, result)]
                   /\ UNCHANGED <<fol, cooling, quiet>>
    /\ UNCHANGED <<jobVars, stream, hooks, printed, hook>>

\* A check ends, by itself or by its timeout.  The state of every check moves
\* only once the last one is in.
CheckReturns ==
    /\ fol.pc = "idle" /\ batch # None /\ stream = None
    /\ \E result \in Results :
          LET done == Append(batch.done, <<batch.at, result>>)
              next == NextDue(batch.at + 1)
          IN  IF next = None THEN Settle(done)
              ELSE /\ batch' = [batch EXCEPT !.at = next, !.done = done]
                   /\ UNCHANGED <<fol, checks, cooling, quiet>>
    /\ UNCHANGED <<jobVars, stream, hooks, printed, hook>>

------------------------------------------------------------------------------
\* The end.

NoRow == [attempt |-> None, state |-> None, ended |-> None]

\* The attempt's own exit code, or 128 and its signal.
OwnCode == 2

\* outcome_exit_code: zero for success; the code of an attempt only if the job
\* ended as that attempt did.
ExitCode(row) ==
    IF row.state = "succeeded" THEN 0 ELSE IF row.ended = row.state THEN OwnCode ELSE 1

Finish ==
    /\ fol.pc = "finish" /\ fol.out = <<>>
    /\ fol' = [fol EXCEPT !.pc = "outcome", !.code = <<ExitCode(fol.row)>>,
                          !.out = <<Line("finished", None, None)>>]
    /\ UNCHANGED <<jobVars, stream, checks, batch, cooling, hooks, printed, hook, quiet>>

\* Mutant: the worker is left running beside the finish hooks.
FinishHooksBesideWorker ==
    /\ fol.pc = "outcome" /\ fol.out = <<>>
    /\ fol' = [fol EXCEPT !.pc = "over"]
    /\ hook' = IF "finished" \in conf.hooked THEN "finished" ELSE hook
    /\ UNCHANGED <<jobVars, stream, checks, batch, cooling, hooks, printed, quiet>>

\* HookWorker::finish: the worker is aborted, its mailbox and the hook in flight
\* with it, and the finish hooks run to their end.
FinishHooks ==
    /\ fol.pc = "outcome" /\ fol.out = <<>>
    /\ fol' = [fol EXCEPT !.pc = "over"]
    /\ hooks' = [mailbox |-> <<>>, busy |-> FALSE]
    /\ hook' = IF "finished" \in conf.hooked THEN "finished" ELSE hook
    /\ UNCHANGED <<jobVars, stream, checks, batch, cooling, printed, quiet>>

\* --timeout, a signal or a closed stream, at any await before the outcome line
\* is out: the process and everything it owned is gone.
Quit ==
    /\ fol.pc \in {"idle", "finish"} \/ (fol.pc = "outcome" /\ fol.out # <<>>)
    /\ fol' = [fol EXCEPT !.pc = "quit", !.out = <<>>, !.row = NoRow]
    /\ hooks' = [mailbox |-> <<>>, busy |-> FALSE]
    /\ batch' = None /\ stream' = None /\ cooling' = FALSE
    /\ printed' = None /\ hook' = None
    /\ ResetAttempt
    /\ UNCHANGED jobVars

------------------------------------------------------------------------------

\* The follower joins a queued or a running job; the first frame has no events.
Init ==
    /\ conf \in Configurations
    /\ job \in [attempt : {0}, state : {"queued"}, ended : {None}] \cup
              [attempt : {1}, state : Live, ended : {None}]
    /\ count = 0 /\ backlog = <<>>
    /\ stream = [row |-> job, events |-> <<>>, more |-> FALSE]
    /\ fol = [pc |-> "idle", initial |-> TRUE, row |-> NoRow, more |-> TRUE,
              out |-> <<>>, code |-> <<>>]
    /\ checks = [c \in Checks |-> Fresh]
    /\ batch = None /\ cooling = FALSE
    /\ hooks = [mailbox |-> <<>>, busy |-> FALSE]
    /\ printed = None /\ hook = None
    /\ quiet = [p \in Checks \X (conf.keys \cup {ErrorKey}) |-> clear_after]

JobStep == JobStarts \/ JobGoesBack \/ JobChanges \/ JobEnds

Progress == Frame \/ Receive \/ WriteLine \/ Finish \/ FinishHooks

Next ==
    \/ JobStep \/ Progress \/ StartChecks \/ CheckReturns \/ CooldownPasses
    \/ \E c \in Checks : DeadlinePasses(c)
    \/ HookStarts \/ HookEnds \/ Quit

Spec == Init /\ [][Next]_vars

\* The stream delivers, the task is polled and its output is read.  Nothing is
\* assumed of checks, hooks, deadlines or the job.
FairSpec ==
    /\ Spec
    /\ WF_vars(Frame) /\ WF_vars(Receive)
    /\ WF_vars(WriteLine \/ Finish \/ FinishHooks)

------------------------------------------------------------------------------

\* A key is silenced exactly as long as the user has been told of it, in a line
\* or in the count of suppressed warnings, and fewer than clear_after fresh
\* observations in a row have omitted it since: a batch that is cut short
\* consumes no warning, and no key is reported twice without having cleared.
SilencedMeansTold ==
    \A c \in Checks :
        /\ DOMAIN checks[c].active = {k \in conf.keys : quiet[<<c, k>>] < clear_after}
        /\ checks[c].failed <=> quiet[<<c, ErrorKey>>] = 0

\* A warning is printed under the attempt its checks observed: a transition
\* preempts the checks, so none reports findings against an obsolete attempt.
WarningsNameTheirAttempt ==
    printed # None /\ printed.kind = "warning" => printed.attempt = printed.observed

\* The outcome is the last line, the finish hook the last hook, and the exit
\* code agrees with the final row: zero exactly for success, and never the code
\* of an attempt that did not end the job.
OutcomeIsLast ==
    fol.pc = "over" =>
        /\ printed.kind = "finished"
        /\ "finished" \in conf.hooked => hook = "finished"
        /\ fol.row.state \in Final
        /\ fol.code = <<0>> <=> fol.row.state = "succeeded"
        /\ fol.code = <<OwnCode>> => fol.row.ended = fol.row.state

\* A follower whose job is over ends, however long a check or an intermediate
\* hook takes.
FollowerEnds == (job.state \in Final) ~> (fol.pc \in {"over", "quit"})

==============================================================================
