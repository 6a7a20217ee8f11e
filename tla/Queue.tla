-------------------------------- MODULE Queue --------------------------------
(***************************************************************************)
(* The coordinator of mlqd: the jobs, attempts, run leases, reservation and *)
(* pause tables, the mutations that change them and the scheduling pass.   *)
(*                                                                         *)
(* One thread does all of this.  It handles one message at a time, and     *)
(* after every mutation, and on every timer tick, it reconciles each live  *)
(* attempt once, advances the dependency graph and runs a scheduling pass. *)
(* pc says where in that cycle it is; a step is one transaction, or one    *)
(* iteration of the planning loop, so that the daemon can be killed and    *)
(* restarted between any two of them.  What the runner of an attempt left  *)
(* behind by the time it is reconciled is a nondeterministic choice here.  *)
(*                                                                         *)
(* The only bounds are MaxJobs (rows of the table jobs) and MaxStarts (a   *)
(* client asks for a retry or a yield of jobs with fewer attempts).        *)
(***************************************************************************)
EXTENDS DependencyGraph, SchedulingPolicy, AttemptOutcomes

CONSTANTS
    MaxJobs,      \* job ids are 1 .. MaxJobs
    MaxStarts,    \* bound on the attempts a client keeps asking for
    Submissions,  \* the submissions clients make
    Limits,       \* values clients give to set-max-parallel-runs
    Priorities,   \* values clients give to set-priority
    Inputs        \* the other requests and events of this instance

Jobs == 1 .. MaxJobs
NoJob == 0

AllInputs == {"cancel", "hold", "release", "retry", "yield", "pause", "resolve",
              "orphan", "quarantine", "restart", "downgrade", "clock_back"}

Policies == [maxAttempts : Nat \ {0}, retryDelay : BOOLEAN, yields : BOOLEAN]
SubmitParams == [limit : Nat \ {0}, priority : Int, policy : Policies,
                 deps : SUBSET [job : Jobs, condition : Conditions]]

ASSUME BoundsAssumption == MaxJobs \in Nat \ {0} /\ MaxStarts \in Nat
ASSUME InputsAssumption ==
    /\ Submissions \subseteq SubmitParams
    /\ Limits \subseteq Nat \ {0}
    /\ Priorities \subseteq Int
    /\ Inputs \subseteq AllInputs

VARIABLES
    \* table jobs, dependencies and scheduler_ready_sequence
    lastJob, jobState, limit, priority, policy, edges, readySeq, readyCounter,
    delay, attemptCount, yieldCount,
    \* tables attempts and run_leases: the live attempt of each job, if any
    attempt, lease, cancelRequested, yieldRequested,
    \* tables scheduler_reservation (with its backfills) and scheduler_pause
    reservation, paused,
    \* the coordinator thread
    pc, todo, plan, admissionBlocked

graphVars == <<jobState, edges, readySeq, readyCounter>>
rowVars == <<lastJob, limit, priority, policy, attemptCount, yieldCount>>
attemptVars == <<attempt, lease, cancelRequested, yieldRequested>>
dbVars == <<graphVars, rowVars, delay, attemptVars, reservation, paused>>
vars == <<dbVars, pc, todo, plan, admissionBlocked>>

NoReservation == [job |-> NoJob, cutoff |-> Unfrozen, blockers |-> {},
                  consumed |-> {}, foreign |-> FALSE]

NoPlan == [eligible |-> {}, protected |-> NoJob, cutoff |-> Unfrozen,
           consumed |-> {}, existing |-> FALSE, shadow |-> {}, starts |-> {},
           bypasses |-> [j \in Jobs |-> NoJob], satisfy |-> FALSE,
           invalidate |-> FALSE, create |-> NoJob, seed |-> {}, freeze |-> FALSE]

Holders == {j \in Jobs : lease[j] # 0}
LiveAttempts == {j \in Jobs : attempt[j] # "none"}

Init ==
    /\ lastJob = 0
    /\ jobState = [j \in Jobs |-> "absent"]
    /\ limit = [j \in Jobs |-> 1]
    /\ priority = [j \in Jobs |-> 0]
    /\ policy = [j \in Jobs |-> [maxAttempts |-> 1, retryDelay |-> FALSE, yields |-> FALSE]]
    /\ edges = [c \in Jobs |-> [p \in Jobs |-> "none"]]
    /\ readySeq = [j \in Jobs |-> 0]
    /\ readyCounter = 0
    /\ delay = [j \in Jobs |-> "none"]
    /\ attemptCount = [j \in Jobs |-> 0]
    /\ yieldCount = [j \in Jobs |-> 0]
    /\ attempt = [j \in Jobs |-> "none"]
    /\ lease = [j \in Jobs |-> 0]
    /\ cancelRequested = [j \in Jobs |-> FALSE]
    /\ yieldRequested = [j \in Jobs |-> "no"]
    /\ reservation = NoReservation
    /\ paused = FALSE
    /\ pc = "reconcile"
    /\ todo = {}
    /\ plan = NoPlan
    /\ admissionBlocked = FALSE

------------------------------------------------------------------------------
(* Shared parts of the transactions.                                       *)

\* advance_dependency_graph, from the values the transaction has written so far.
AdvanceFrom(st, e, ready, counter, dl) ==
    LET skipped == SkippedBy(st, e)
        after == StatesAfter(st, skipped)
        latched == Latched(after, e)
        cleared == [c \in Jobs |-> IF c \in skipped THEN 0 ELSE ready[c]]
        new == NewlyReady(after, latched, cleared, dl)
    IN  /\ jobState' = after
        /\ edges' = latched
        /\ readySeq' = ReadyAfter(ready, skipped, new, counter)
        /\ readyCounter' = counter + Cardinality(new)

Advance(st, ready) == AdvanceFrom(st, edges, ready, readyCounter, delay')

\* The transaction of a mutation is followed by a tick, whose first loop
\* visits the attempts that are live by then.
ThenTick ==
    /\ pc' = "reconcile"
    /\ todo' = {j \in Jobs : attempt'[j] # "none"}
    /\ UNCHANGED <<plan, admissionBlocked>>

InvalidateIfProtected(j) ==
    reservation' = IF reservation.job = j THEN NoReservation ELSE reservation

\* Mutant: the lease is not released.
EndAttemptKeepingLease(j) ==
    /\ attempt' = [attempt EXCEPT ![j] = "none"]
    /\ lease' = lease
    /\ cancelRequested' = [cancelRequested EXCEPT ![j] = FALSE]
    /\ yieldRequested' = [yieldRequested EXCEPT ![j] = "no"]

\* Finalize the attempt of j and release its lease.
EndAttempt(j) ==
    /\ attempt' = [attempt EXCEPT ![j] = "none"]
    /\ lease' = [lease EXCEPT ![j] = 0]
    /\ cancelRequested' = [cancelRequested EXCEPT ![j] = FALSE]
    /\ yieldRequested' = [yieldRequested EXCEPT ![j] = "no"]

Eligible ==
    {j \in Jobs : /\ jobState[j] = "queued"
                  /\ readySeq[j] # 0
                  /\ delay[j] # "pending"}

------------------------------------------------------------------------------
(* Mutations: handle_mutation and apply_mutation.                          *)

Submit(r) ==
    LET j == lastJob + 1
        row == [p \in Jobs |-> EdgeOf(r.deps, p)]
        free == r.deps = {}
    IN  /\ pc = "idle"
        /\ j \in Jobs
        /\ \A d \in r.deps : d.job <= lastJob
        /\ lastJob' = j
        /\ limit' = [limit EXCEPT ![j] = r.limit]
        /\ priority' = [priority EXCEPT ![j] = r.priority]
        /\ policy' = [policy EXCEPT ![j] = r.policy]
        /\ AdvanceFrom([jobState EXCEPT ![j] = "queued"],
                       [edges EXCEPT ![j] = row],
                       [readySeq EXCEPT ![j] = IF free THEN readyCounter + 1 ELSE 0],
                       IF free THEN readyCounter + 1 ELSE readyCounter,
                       delay)
        /\ UNCHANGED <<attemptCount, yieldCount, delay, attemptVars, reservation, paused>>
        /\ ThenTick

Hold(j) ==
    /\ pc = "idle" /\ "hold" \in Inputs
    /\ jobState[j] = "queued"
    /\ InvalidateIfProtected(j)
    /\ jobState' = [jobState EXCEPT ![j] = "held"]
    /\ UNCHANGED <<edges, readySeq, readyCounter, rowVars, delay, attemptVars, paused>>
    /\ ThenTick

Release(j) ==
    /\ pc = "idle" /\ "release" \in Inputs
    /\ jobState[j] = "held"
    /\ jobState' = [jobState EXCEPT ![j] = "queued"]
    /\ UNCHANGED <<edges, readySeq, readyCounter, rowVars, delay, attemptVars,
                   reservation, paused>>
    /\ ThenTick

\* Mutant: every ended job may be retried.
RetryAnyTerminal(j) ==
    /\ pc = "idle" /\ "retry" \in Inputs
    /\ jobState[j] \in TerminalStates
    /\ attemptCount[j] < MaxStarts
    /\ delay' = [delay EXCEPT ![j] = "none"]
    /\ Advance([jobState EXCEPT ![j] = "queued"], [readySeq EXCEPT ![j] = 0])
    /\ UNCHANGED <<rowVars, attemptVars, reservation, paused>>
    /\ ThenTick

Retry(j) ==
    /\ pc = "idle" /\ "retry" \in Inputs
    /\ jobState[j] \in {"failed", "lost"}
    /\ attemptCount[j] < MaxStarts
    /\ delay' = [delay EXCEPT ![j] = "none"]
    /\ Advance([jobState EXCEPT ![j] = "queued"], [readySeq EXCEPT ![j] = 0])
    /\ UNCHANGED <<rowVars, attemptVars, reservation, paused>>
    /\ ThenTick

\* Mutant: the lease of a live attempt keeps the old limit.
SetMaxParallelRunsOfRow(j, v) ==
    /\ pc = "idle"
    /\ jobState[j] \in WaitingStates \cup LiveStates
    /\ limit[j] # v
    /\ limit' = [limit EXCEPT ![j] = v]
    /\ InvalidateIfProtected(j)
    /\ UNCHANGED <<graphVars, lastJob, priority, policy, attemptCount, yieldCount,
                   delay, attemptVars, paused>>
    /\ ThenTick

SetMaxParallelRuns(j, v) ==
    /\ pc = "idle"
    /\ jobState[j] \in WaitingStates \cup LiveStates
    /\ limit[j] # v
    /\ limit' = [limit EXCEPT ![j] = v]
    /\ \/ /\ jobState[j] \in WaitingStates
          /\ InvalidateIfProtected(j)
          /\ lease' = lease
       \/ /\ jobState[j] \in LiveStates
          /\ attempt[j] # "none" /\ lease[j] # 0
          /\ lease' = [lease EXCEPT ![j] = v]
          /\ reservation' = reservation
    /\ UNCHANGED <<graphVars, lastJob, priority, policy, attemptCount, yieldCount,
                   delay, attempt, cancelRequested, yieldRequested, paused>>
    /\ ThenTick

SetPriority(j, v) ==
    /\ pc = "idle"
    /\ jobState[j] \in WaitingStates
    /\ priority[j] # v
    /\ IF jobState[j] = "queued" THEN InvalidateIfProtected(j)
                                 ELSE reservation' = reservation
    /\ priority' = [priority EXCEPT ![j] = v]
    /\ UNCHANGED <<graphVars, lastJob, limit, policy, attemptCount, yieldCount,
                   delay, attemptVars, paused>>
    /\ ThenTick

\* cancel_job of a job that has not started.
CancelWaiting(j) ==
    /\ pc = "idle" /\ "cancel" \in Inputs
    /\ jobState[j] \in WaitingStates
    /\ InvalidateIfProtected(j)
    /\ delay' = delay
    /\ Advance([jobState EXCEPT ![j] = "cancelled"], readySeq)
    /\ UNCHANGED <<rowVars, attemptVars, paused>>
    /\ ThenTick

\* cancel_job of a job whose attempt was never authorized: it ends here.
CancelPrepared(j) ==
    /\ pc = "idle" /\ "cancel" \in Inputs
    /\ jobState[j] \in LiveStates
    /\ attempt[j] = "prepared"
    /\ EndAttempt(j)
    /\ delay' = delay
    /\ Advance([jobState EXCEPT ![j] = "cancelled"], readySeq)
    /\ UNCHANGED <<rowVars, reservation, paused>>
    /\ ThenTick

\* cancel_job of an attempt that may be running: only the intent is recorded.
\* A quarantined attempt refuses it.
CancelLive(j) ==
    /\ pc = "idle" /\ "cancel" \in Inputs
    /\ jobState[j] \in LiveStates
    /\ attempt[j] \in {"authorized", "running", "orphaned"}
    /\ cancelRequested' = [cancelRequested EXCEPT ![j] = TRUE]
    /\ UNCHANGED <<graphVars, rowVars, delay, attempt, lease, yieldRequested,
                   reservation, paused>>
    /\ ThenTick

\* The first request stands; without hold it is refused unless somebody else
\* is ready to run ahead of the requeued job.
Yield(j, mode) ==
    /\ pc = "idle" /\ "yield" \in Inputs
    /\ attemptCount[j] < MaxStarts
    /\ policy[j].yields
    /\ jobState[j] = "running" /\ attempt[j] = "running"
    /\ ~cancelRequested[j]
    /\ yieldRequested[j] = "no"
    /\ mode = "hold" \/ \E c \in Eligible \ {j} : priority[c] >= priority[j]
    /\ yieldRequested' = [yieldRequested EXCEPT ![j] = mode]
    /\ UNCHANGED <<graphVars, rowVars, delay, attempt, lease, cancelRequested,
                   reservation, paused>>
    /\ ThenTick

\* The operator resolves an orphaned or quarantined attempt.  That its process
\* group is gone is checked by the handler and modelled in Attempt.
RecoverResolve(j, outcome) ==
    /\ pc = "idle" /\ "resolve" \in Inputs
    /\ attempt[j] \in {"orphaned", "quarantined"}
    /\ EndAttempt(j)
    /\ delay' = delay
    /\ Advance([jobState EXCEPT ![j] = outcome], readySeq)
    /\ UNCHANGED <<rowVars, reservation, paused>>
    /\ ThenTick

SetPaused(v) ==
    /\ pc = "idle" /\ "pause" \in Inputs
    /\ paused' = v
    /\ UNCHANGED <<graphVars, rowVars, delay, attemptVars, reservation>>
    /\ ThenTick

------------------------------------------------------------------------------
(* The tick: reconcile_all, advance_dependency_graph, schedule.            *)

\* The timer, and every mutation that changes no row (an equal limit or
\* priority, a repeated yield).
Tick ==
    /\ pc = "idle"
    /\ UNCHANGED dbVars
    /\ ThenTick

\* The daemon dies and is started again: the tables survive, the thread starts
\* with a tick.  The new build may not know the semantics version of the
\* active reservation.
Restart(foreign) ==
    /\ "restart" \in Inputs
    /\ foreign => "downgrade" \in Inputs
    /\ pc' = "reconcile"
    /\ todo' = LiveAttempts
    /\ plan' = NoPlan
    /\ admissionBlocked' = FALSE
    /\ reservation' = [reservation EXCEPT !.foreign = foreign /\ reservation.job # NoJob]
    /\ UNCHANGED <<graphVars, rowVars, delay, attemptVars, paused>>

\* One iteration of the loop of reconcile_all, or of the launches of a pass.
Visit(phase, j) ==
    /\ pc = phase
    /\ j \in todo
    /\ todo' = todo \ {j}
    /\ UNCHANGED <<pc, plan, admissionBlocked, reservation, paused>>

\* Nothing new in the attempt's directory.
ReconcileNothing(j) ==
    /\ Visit("reconcile", j)
    /\ UNCHANGED <<graphVars, rowVars, delay, attemptVars>>

MoveAttempt(j, state, js) ==
    /\ Visit("reconcile", j)
    /\ attempt' = [attempt EXCEPT ![j] = state]
    /\ jobState' = [jobState EXCEPT ![j] = js]
    /\ UNCHANGED <<edges, readySeq, readyCounter, rowVars, delay, lease,
                   cancelRequested, yieldRequested>>

Authorize(j) ==
    /\ attempt[j] = "prepared"
    /\ ~cancelRequested[j]
    /\ jobState[j] = "starting"
    /\ MoveAttempt(j, "authorized", "starting")

ObserveExec(j) ==
    /\ attempt[j] = "authorized"
    /\ MoveAttempt(j, "running", "running")

Orphan(j) ==
    /\ "orphan" \in Inputs
    /\ attempt[j] = "running"
    /\ MoveAttempt(j, "orphaned", "needs_attention")

Quarantine(j) ==
    /\ "quarantine" \in Inputs
    /\ attempt[j] \in LiveAttemptStates \ {"quarantined"}
    /\ MoveAttempt(j, "quarantined", "needs_attention")

\* The terminal attempt states reconciliation can reach from here; which of
\* them it does is decided by the runner and modelled in Attempt.
Outcomes(j) == OutcomesOf(attempt[j], cancelRequested[j], yieldRequested[j] # "no")

\* The job's new state.  yieldCount already counts this attempt if it yielded.
JobAfter(j, outcome, delivered) ==
    IF jobState[j] \in TerminalStates THEN jobState[j]
    ELSE CASE outcome \in {"succeeded", "cancelled"} -> outcome
           [] outcome = "lost" ->
                IF delivered /\ ~cancelRequested[j] THEN "held" ELSE "lost"
           [] outcome = "yielded" ->
                IF cancelRequested[j] THEN "cancelled"
                ELSE IF yieldRequested[j] = "hold" THEN "held" ELSE "queued"
           [] outcome = "failed" ->
                IF /\ attemptCount[j] - yieldCount[j] < policy[j].maxAttempts
                   /\ ~cancelRequested[j]
                THEN "queued" ELSE "failed"

\* Mutant: a requeued job keeps its place.
FinalizeKeepingPlace(j, outcome, delivered) ==
    LET after == JobAfter(j, outcome, delivered)
        wait == IF outcome = "failed" /\ policy[j].retryDelay THEN "pending" ELSE "none"
    IN  /\ EndAttempt(j)
        /\ yieldCount' = [yieldCount EXCEPT ![j] =
                             yieldCount[j] + (IF outcome = "yielded" THEN 1 ELSE 0)]
        /\ delay' = IF after \in WaitingStates THEN [delay EXCEPT ![j] = wait] ELSE delay
        /\ Advance([jobState EXCEPT ![j] = after], readySeq)
        /\ UNCHANGED <<lastJob, limit, priority, policy, attemptCount>>

\* One transaction.  A requeued job loses its place in the FIFO.
FinalizeAttemptAndJob(j, outcome, delivered) ==
    LET after == JobAfter(j, outcome, delivered)
        requeued == after \in WaitingStates
        wait == IF outcome = "failed" /\ policy[j].retryDelay THEN "pending" ELSE "none"
    IN  /\ EndAttempt(j)
        /\ yieldCount' = [yieldCount EXCEPT ![j] =
                             yieldCount[j] + (IF outcome = "yielded" THEN 1 ELSE 0)]
        /\ delay' = IF requeued THEN [delay EXCEPT ![j] = wait] ELSE delay
        /\ Advance([jobState EXCEPT ![j] = after],
                   IF requeued THEN [readySeq EXCEPT ![j] = 0] ELSE readySeq)
        /\ UNCHANGED <<lastJob, limit, priority, policy, attemptCount>>

Finalize(j, outcome, delivered) ==
    /\ Visit("reconcile", j)
    /\ outcome \in Outcomes(j)
    /\ delivered => outcome = "lost" /\ yieldRequested[j] # "no"
    /\ FinalizeAttemptAndJob(j, outcome, delivered)

AdvanceGraph ==
    /\ pc = "reconcile" /\ todo = {}
    /\ pc' = "schedule"
    /\ delay' = delay
    /\ Advance(jobState, readySeq)
    /\ UNCHANGED <<rowVars, attemptVars, reservation, paused, todo, plan, admissionBlocked>>

------------------------------------------------------------------------------
(* The scheduling pass: schedule and plan_pass.                            *)

\* Until the reservation can be interpreted, nothing is admitted.
PassBlocked ==
    /\ pc = "schedule"
    /\ reservation.foreign
    /\ admissionBlocked \/ ~paused
    /\ pc' = "idle"
    /\ admissionBlocked' = TRUE
    /\ UNCHANGED <<dbVars, todo, plan>>

PassPaused ==
    /\ pc = "schedule"
    /\ paused
    /\ ~(admissionBlocked /\ reservation.foreign)
    /\ pc' = "idle"
    /\ admissionBlocked' = FALSE
    /\ UNCHANGED <<dbVars, todo, plan>>

AnyBlockersAdvancing ==
    \E b \in reservation.blockers :
        /\ attemptCount[b.job] = b.number
        /\ lease[b.job] # 0
        /\ attempt[b.job] \in AdvancingStates

\* Mutant: the cutoff is never pinned.
NeverFreezes == FALSE

\* backfill_frontier finds an unfrozen reservation whose window just closed.
FreezePending ==
    /\ reservation.job # NoJob
    /\ reservation.cutoff = Unfrozen
    /\ ~AnyBlockersAdvancing

\* The two checks that drop a persisted reservation before the loop.
Ineligible == reservation.job # NoJob /\ reservation.job \notin Eligible

\* Mutant: a persisted reservation survives whatever arrives.
NeverSuperseded == FALSE

Superseded ==
    /\ reservation.job \in Eligible
    /\ \E first \in Eligible : /\ IsFirst(first, Eligible, priority, readySeq)
                              /\ priority[first] > priority[reservation.job]

\* The snapshot the pass plans from.
BeginPass ==
    LET dropped == Ineligible \/ Superseded
    IN  /\ pc = "schedule"
        /\ ~paused /\ ~reservation.foreign
        /\ pc' = "planning"
        /\ admissionBlocked' = FALSE
        /\ plan' = [NoPlan EXCEPT
                !.eligible = Eligible,
                !.protected = IF dropped THEN NoJob ELSE reservation.job,
                !.cutoff = IF FreezePending THEN readyCounter ELSE reservation.cutoff,
                !.consumed = reservation.consumed,
                !.existing = TRUE,
                !.shadow = Holders,
                !.invalidate = dropped,
                !.freeze = FreezePending]
        /\ UNCHANGED <<dbVars, todo>>

ShadowLimit == [k \in Jobs |-> IF lease[k] # 0 THEN lease[k] ELSE limit[k]]
Fits(j) == can_admit(plan.shadow, ShadowLimit, limit[j])
Unstarted == plan.eligible \ plan.starts

PlanStart(j, p) ==
    [plan EXCEPT !.starts = @ \cup {j}, !.shadow = @ \cup {j}, !.bypasses[j] = p]

\* The protected job starts the moment it fits.
StartProtected ==
    /\ pc = "planning"
    /\ plan.protected # NoJob
    /\ Fits(plan.protected)
    /\ plan' = [PlanStart(plan.protected, NoJob) EXCEPT !.satisfy = TRUE, !.protected = NoJob]
    /\ UNCHANGED <<dbVars, pc, todo, admissionBlocked>>

\* Mutant: a job may pass the protected one again.
BackfillsAgain ==
    {c \in Unstarted \ {plan.protected} :
        /\ WithinFrontier(plan.cutoff, readySeq[c])
        /\ priority[c] = priority[plan.protected]
        /\ Fits(c)}

Backfills ==
    {c \in Unstarted \ (plan.consumed \cup {plan.protected}) :
        /\ WithinFrontier(plan.cutoff, readySeq[c])
        /\ priority[c] = priority[plan.protected]
        /\ Fits(c)}

StartBackfill ==
    /\ pc = "planning"
    /\ plan.protected # NoJob
    /\ ~Fits(plan.protected)
    /\ \E c \in Backfills :
        /\ IsFirst(c, Backfills, priority, readySeq)
        /\ plan' = [PlanStart(c, plan.protected) EXCEPT !.consumed = @ \cup {c}]
    /\ UNCHANGED <<dbVars, pc, todo, admissionBlocked>>

IsHead(h) == IsFirst(h, Unstarted, priority, readySeq)

StartHead ==
    /\ pc = "planning"
    /\ plan.protected = NoJob
    /\ \E h \in Unstarted : IsHead(h) /\ Fits(h) /\ plan' = PlanStart(h, NoJob)
    /\ UNCHANGED <<dbVars, pc, todo, admissionBlocked>>

\* Mutant: the head is protected although it fits.
ProtectHeadAnyway ==
    /\ pc = "planning"
    /\ plan.protected = NoJob
    /\ \E h \in Unstarted :
        /\ IsHead(h)
        /\ plan' = [plan EXCEPT !.protected = h, !.cutoff = Unfrozen, !.existing = FALSE,
                                !.consumed = plan.shadow, !.create = h, !.seed = plan.shadow]
    /\ UNCHANGED <<dbVars, pc, todo, admissionBlocked>>

\* The head of the queue does not fit: protect it.  Whoever holds a (shadow)
\* lease now has used up its bypass.
ProtectHead ==
    /\ pc = "planning"
    /\ plan.protected = NoJob
    /\ \E h \in Unstarted :
        /\ IsHead(h)
        /\ ~Fits(h)
        /\ plan' = [plan EXCEPT !.protected = h, !.cutoff = Unfrozen, !.existing = FALSE,
                                !.consumed = plan.shadow, !.create = h, !.seed = plan.shadow]
    /\ UNCHANGED <<dbVars, pc, todo, admissionBlocked>>

\* Mutant: no backfill is looked for.
PlanCompleteAtHead ==
    IF plan.protected = NoJob THEN Unstarted = {} ELSE ~Fits(plan.protected)

PlanComplete ==
    IF plan.protected = NoJob THEN Unstarted = {}
    ELSE ~Fits(plan.protected) /\ Backfills = {}

\* The reservation rows after the pass.  Bypasses are attributed by protected
\* job: those of the reservation this pass created, or of the one it kept.
BypassesOf(p) == {j \in plan.starts : plan.bypasses[j] = p}

\* Mutant: the bypasses of a pass replace the earlier ones.
ReservationForgetting ==
    IF plan.create # NoJob
    THEN [job |-> plan.create, cutoff |-> Unfrozen, foreign |-> FALSE,
          blockers |-> {[job |-> j, number |-> attemptCount[j]] : j \in Holders}
              \cup {[job |-> j, number |-> attemptCount[j] + 1] :
                        j \in plan.starts \ BypassesOf(plan.create)},
          consumed |-> plan.seed \cup BypassesOf(plan.create)]
    ELSE IF reservation.job = NoJob \/ plan.satisfy \/ plan.invalidate THEN NoReservation
    ELSE [reservation EXCEPT
            !.cutoff = IF plan.freeze /\ @ = Unfrozen THEN plan.cutoff ELSE @,
            !.consumed = BypassesOf(reservation.job)]

ReservationAfter ==
    IF plan.create # NoJob
    THEN [job |-> plan.create, cutoff |-> Unfrozen, foreign |-> FALSE,
          blockers |-> {[job |-> j, number |-> attemptCount[j]] : j \in Holders}
              \cup {[job |-> j, number |-> attemptCount[j] + 1] :
                        j \in plan.starts \ BypassesOf(plan.create)},
          consumed |-> plan.seed \cup BypassesOf(plan.create)]
    ELSE IF reservation.job = NoJob \/ plan.satisfy \/ plan.invalidate THEN NoReservation
    ELSE [reservation EXCEPT
            !.cutoff = IF plan.freeze /\ @ = Unfrozen THEN plan.cutoff ELSE @,
            !.consumed = @ \cup BypassesOf(reservation.job)]

\* One transaction: attempts and leases of the batch, then the reservation.
CommitPass ==
    LET starts == plan.starts
    IN  /\ pc = "planning"
        /\ PlanComplete
        /\ \A j \in starts : jobState[j] = "queued"
        /\ attempt' = [j \in Jobs |-> IF j \in starts THEN "prepared" ELSE attempt[j]]
        /\ lease' = [j \in Jobs |-> IF j \in starts THEN limit[j] ELSE lease[j]]
        /\ jobState' = [j \in Jobs |-> IF j \in starts THEN "starting" ELSE jobState[j]]
        /\ attemptCount' = [j \in Jobs |->
                IF j \in starts THEN attemptCount[j] + 1 ELSE attemptCount[j]]
        /\ reservation' = ReservationAfter
        /\ pc' = "launch"
        /\ todo' = starts
        /\ plan' = NoPlan
        /\ UNCHANGED <<edges, readySeq, readyCounter, lastJob, limit, priority, policy,
                       yieldCount, delay, cancelRequested, yieldRequested, paused,
                       admissionBlocked>>

\* launch: the runner process is spawned.
Launch(j) ==
    /\ Visit("launch", j)
    /\ UNCHANGED <<graphVars, rowVars, delay, attemptVars>>

\* The runner cannot be spawned: the attempt fails at once, after the pass that
\* would have given its place to somebody else.
LaunchFails(j) ==
    /\ Visit("launch", j)
    /\ FinalizeAttemptAndJob(j, "failed", FALSE)

LaunchesDone ==
    /\ pc = "launch" /\ todo = {}
    /\ pc' = "idle"
    /\ UNCHANGED <<dbVars, todo, plan, admissionBlocked>>

------------------------------------------------------------------------------
(* The wall clock: retry_not_before is compared with now_ms(), which can   *)
(* also step back.                                                         *)

DelayElapses(j) ==
    /\ delay[j] = "pending"
    /\ delay' = [delay EXCEPT ![j] = "elapsed"]
    /\ UNCHANGED <<graphVars, rowVars, attemptVars, reservation, paused,
                   pc, todo, plan, admissionBlocked>>

ClockStepsBack(j) ==
    /\ "clock_back" \in Inputs
    /\ delay[j] = "elapsed"
    /\ delay' = [delay EXCEPT ![j] = "pending"]
    /\ UNCHANGED <<graphVars, rowVars, attemptVars, reservation, paused,
                   pc, todo, plan, admissionBlocked>>

------------------------------------------------------------------------------
Mutation ==
    \/ \E r \in Submissions : Submit(r)
    \/ \E j \in Jobs :
        \/ Hold(j)
        \/ Release(j)
        \/ Retry(j)
        \/ \E v \in Limits : SetMaxParallelRuns(j, v)
        \/ \E v \in Priorities : SetPriority(j, v)
        \/ CancelWaiting(j)
        \/ CancelPrepared(j)
        \/ CancelLive(j)
        \/ \E mode \in {"requeue", "hold"} : Yield(j, mode)
        \/ \E outcome \in {"lost", "cancelled"} : RecoverResolve(j, outcome)
    \/ \E v \in BOOLEAN : SetPaused(v)

Reconcile ==
    \E j \in Jobs :
        \/ ReconcileNothing(j)
        \/ Authorize(j)
        \/ ObserveExec(j)
        \/ Orphan(j)
        \/ Quarantine(j)
        \/ \E outcome \in {"succeeded", "failed", "cancelled", "lost", "yielded"},
              delivered \in BOOLEAN : Finalize(j, outcome, delivered)

Pass ==
    \/ PassBlocked
    \/ PassPaused
    \/ BeginPass
    \/ StartProtected
    \/ StartBackfill
    \/ StartHead
    \/ ProtectHead
    \/ CommitPass
    \/ LaunchesDone

Launches == \E j \in Jobs : Launch(j) \/ LaunchFails(j)

Clock == \E j \in Jobs : DelayElapses(j) \/ ClockStepsBack(j)

Next ==
    \/ Mutation
    \/ Tick
    \/ \E foreign \in BOOLEAN : Restart(foreign)
    \/ Reconcile
    \/ AdvanceGraph
    \/ Pass
    \/ Launches
    \/ Clock

Spec == Init /\ [][Next]_vars

\* The thread takes its next step, the timer ticks, and a command that is
\* supervised ends and leaves a result that some later reconciliation reads.
Fairness ==
    /\ WF_vars(Tick)
    /\ WF_vars(AdvanceGraph)
    /\ WF_vars(Pass)
    /\ WF_vars(Launches)
    /\ \A j \in Jobs :
        /\ WF_vars(ReconcileNothing(j))
        /\ WF_vars(DelayElapses(j))
        /\ SF_vars(\E outcome \in {"succeeded", "failed"} : Finalize(j, outcome, FALSE))

FairSpec == Spec /\ Fairness

------------------------------------------------------------------------------
(* Properties.                                                             *)

Reservations ==
    [job : Jobs \cup {NoJob}, cutoff : Nat, foreign : BOOLEAN,
     blockers : SUBSET [job : Jobs, number : Nat], consumed : SUBSET Jobs]

Plans ==
    [eligible : SUBSET Jobs, protected : Jobs \cup {NoJob}, cutoff : Nat,
     consumed : SUBSET Jobs, existing : BOOLEAN, shadow : SUBSET Jobs,
     starts : SUBSET Jobs, bypasses : [Jobs -> Jobs \cup {NoJob}],
     satisfy : BOOLEAN, invalidate : BOOLEAN, create : Jobs \cup {NoJob},
     seed : SUBSET Jobs, freeze : BOOLEAN]

\* Every column keeps its domain; in particular a lease limit is positive or
\* the lease is gone, whatever set-max-parallel-runs and the passes write.
TypeOK ==
    /\ lastJob \in 0 .. MaxJobs
    /\ jobState \in [Jobs -> JobStates]
    /\ limit \in [Jobs -> Nat \ {0}]
    /\ priority \in [Jobs -> Int]
    /\ policy \in [Jobs -> Policies]
    /\ edges \in [Jobs -> [Jobs -> EdgeStates]]
    /\ readySeq \in [Jobs -> Nat]
    /\ readyCounter \in Nat
    /\ delay \in [Jobs -> {"none", "pending", "elapsed"}]
    /\ attemptCount \in [Jobs -> Nat]
    /\ yieldCount \in [Jobs -> Nat]
    /\ attempt \in [Jobs -> LiveAttemptStates \cup {"none"}]
    /\ lease \in [Jobs -> Nat]
    /\ cancelRequested \in [Jobs -> BOOLEAN]
    /\ yieldRequested \in [Jobs -> {"no", "requeue", "hold"}]
    /\ reservation \in Reservations
    /\ paused \in BOOLEAN
    /\ pc \in {"idle", "reconcile", "schedule", "planning", "launch"}
    /\ todo \in SUBSET Jobs
    /\ plan \in Plans
    /\ admissionBlocked \in BOOLEAN

\* A live attempt owns exactly one lease, its limit is the job's current
\* declaration, and the job row names the phase the attempt is in: the three
\* tables agree after every transaction of finalize, cancel, recover and
\* set-max-parallel-runs.
TablesAgree ==
    \A j \in Jobs :
        /\ lease[j] = IF attempt[j] = "none" THEN 0 ELSE limit[j]
        /\ jobState[j] = "starting" <=> attempt[j] \in {"prepared", "authorized"}
        /\ jobState[j] = "running" <=> attempt[j] = "running"
        /\ jobState[j] = "needs_attention" <=> attempt[j] \in {"orphaned", "quarantined"}

Starts(j) == lease[j] = 0 /\ lease'[j] # 0
Compatible == \A k \in Holders : Cardinality(Holders) <= lease[k]

\* A transaction that admits a job leaves a lease set that no member's
\* maxParallelRuns forbids, even if the set was oversubscribed before.
AdmissionRespectsLimits == [][(\E j \in Jobs : Starts(j)) => Compatible']_vars

\* The active set becomes incompatible only by an operator lowering the limit
\* of a live job (schedule and the runners never get there by themselves).
OversubscribedOnlyByOperator ==
    [][Compatible /\ ~Compatible' =>
        \E k \in Jobs : lease'[k] # 0 /\ lease'[k] < lease[k]]_vars

\* The reservation outlives the step.
Kept ==
    /\ reservation.job # NoJob
    /\ reservation'.job = reservation.job
    /\ ~plan.invalidate

\* A job that starts while another stays protected has not passed it before
\* (nor held a lease when protection began), is recorded as having done so,
\* has the same priority, and was ready before the cutoff once there is one.
BypassRules ==
    [][Kept => \A j \in Jobs : Starts(j) =>
        /\ j \notin reservation.consumed
        /\ j \in reservation'.consumed
        /\ priority[j] = priority[reservation.job]
        /\ WithinFrontier(reservation'.cutoff, readySeq[j])]_vars

\* While a reservation lives, a consumed bypass is never given back and a
\* pinned cutoff never moves, across retries, edits and daemon restarts.
ReservationMonotone ==
    [][Kept =>
        /\ reservation.consumed \subseteq reservation'.consumed
        /\ reservation.blockers = reservation'.blockers
        /\ reservation.cutoff # Unfrozen => reservation'.cutoff = reservation.cutoff]_vars

\* No check of the pass fails and no unreachable!() is reached: a reservation
\* created in the pass is not satisfied by it, the one-active-reservation
\* index holds, the batch is still queued, and every bypass is attributable.
PassNeverAborts ==
    pc = "planning" =>
        /\ plan.protected # NoJob /\ ~plan.existing => ~Fits(plan.protected)
        /\ plan.create # NoJob => reservation.job = NoJob \/ plan.satisfy \/ plan.invalidate
        /\ \A j \in plan.starts : jobState[j] = "queued" /\ attempt[j] = "none"
        /\ \A j \in plan.starts :
                plan.bypasses[j] \in {NoJob, plan.create, reservation.job}

\* Rows are created in id order, and the loops visit live attempts only.
LoopInv ==
    /\ \A j \in Jobs : j > lastJob => jobState[j] = "absent"
    /\ pc \in {"reconcile", "launch"} => todo \subseteq LiveAttempts

\* What keeps the pass right, half-way through planning: the shadow lease set
\* is the table plus the batch, the batch fits as a whole, only queued jobs
\* are in it, and the protected job is the persisted one or the created one.
PlanInv ==
    pc = "planning" =>
        /\ \A j \in plan.eligible : jobState[j] = "queued"
        /\ plan.starts \subseteq plan.eligible
        /\ plan.shadow = Holders \cup plan.starts
        /\ plan.starts # {} =>
                \A k \in plan.shadow : Cardinality(plan.shadow) <= ShadowLimit[k]
        /\ plan.protected \in plan.eligible \cup {NoJob}
        /\ plan.protected \in {NoJob, plan.create, reservation.job}
        /\ plan.create # NoJob =>
                plan.protected = plan.create /\ ~plan.existing /\ ~Fits(plan.create)
        /\ plan.protected # NoJob /\ ~plan.existing => plan.create # NoJob
        /\ \/ reservation.job = NoJob
           \/ plan.satisfy
           \/ plan.invalidate
           \/ plan.protected = reservation.job /\ plan.existing
        /\ \A j \in plan.starts :
                plan.bypasses[j] \in {NoJob, plan.create, reservation.job}

Waiting == {j \in Jobs : jobState[j] = "queued" /\ readySeq[j] # 0 /\ delay[j] = "none"}
CouldStart(j) == can_admit(Holders, lease, limit[j])

NothingLeftToStart ==
    IF reservation.job = NoJob THEN Waiting = {}
    ELSE /\ ~CouldStart(reservation.job)
         /\ \A c \in Waiting :
                /\ priority[c] <= priority[reservation.job]
                /\ \/ priority[c] < priority[reservation.job]
                   \/ c \in reservation.consumed
                   \/ ~WithinFrontier(reservation.cutoff, readySeq[c])
                   \/ ~CouldStart(c)

PassEnds == pc = "planning" /\ pc' = "launch"

\* A pass never sits on a job it may start: afterwards either nothing is
\* waiting, or the protected job does not fit, nobody waiting outranks it by
\* priority, and nobody who may still bypass it fits either.
WorkConserving == [][PassEnds => NothingLeftToStart']_vars

\* A pass that keeps a reservation leaves its backfill window open only if an
\* original blocker is still advancing; orphaned and quarantined ones hold
\* their lease but do not count.
WindowNeedsABlocker ==
    [][PassEnds /\ Kept /\ reservation'.cutoff = Unfrozen => AnyBlockersAdvancing]_vars

\* Readiness positions are unique and at most the counter, although several
\* jobs may become ready in one transaction and positions are given up.
ReadyPositionsDistinct ==
    \A i, j \in Jobs :
        /\ readySeq[i] <= readyCounter
        /\ i # j /\ readySeq[i] # 0 => readySeq[i] # readySeq[j]

\* A job keeps its place while it waits, through hold, release and edits; one
\* that comes back (retry, yield) gets a later place than any job ever had.
BackOfTheLine ==
    [][\A j \in Jobs :
        IF jobState[j] \in WaitingStates /\ readySeq[j] # 0
        THEN jobState'[j] \in WaitingStates => readySeq'[j] = readySeq[j]
        ELSE jobState'[j] \in WaitingStates
                => readySeq'[j] = 0 \/ readySeq'[j] > readyCounter]_vars

\* The graph is at its fixed point after every transaction: no edge waits for
\* a parent that ended, a violated edge has ended its child, a job is skipped
\* only for a violated edge, and nobody is ready before every edge is satisfied.
GraphAtFixedPoint ==
    \A c \in Jobs :
        /\ \A p \in Jobs :
            /\ edges[c][p] \in Conditions => jobState[p] \notin TerminalStates
            /\ edges[c][p] = "violated" => jobState[c] \in {"skipped", "cancelled"}
            /\ readySeq[c] # 0 => edges[c][p] \in {"none", "satisfied"}
        /\ jobState[c] = "skipped" => \E p \in Jobs : edges[c][p] = "violated"
        /\ jobState[c] \in LiveStates => readySeq[c] # 0

\* Success, cancellation and skipping are final: no late result, recovery,
\* retry or retried parent revives the job.
FinalStatesAreFinal ==
    [][\A j \in Jobs : jobState[j] \in {"succeeded", "cancelled", "skipped"}
                            => jobState'[j] = jobState[j]]_vars

\* Protection is temporary: the protected job starts, or loses protection to a
\* request or a higher priority.
ProtectionEnds == \A j \in Jobs : (reservation.job = j) ~> (reservation.job # j)

\* No starvation: a job that is ready eventually leaves the queue.
ReadyJobsLeaveTheQueue ==
    \A j \in Jobs : (jobState[j] = "queued" /\ readySeq[j] # 0) ~> (jobState[j] # "queued")
==============================================================================
