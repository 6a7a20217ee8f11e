# Verification of mlqueue

TLA+ modules for mlqueue, a single-machine queue for ML jobs, with TLC runs on
small instances and TLAPS proofs for every value of the constants. All paths
below are relative to the repository root, `src/`.

## The system

`mlqd` is a daemon that admits jobs under one formula: a job that declares
`maxParallelRuns = n` runs only while at most `n` jobs run, itself included.

| Part | Source | State | Changes it |
|---|---|---|---|
| Scheduler policy | `src/scheduler.rs` | none (pure) | `plan_pass`, `can_admit` |
| Coordinator | `src/daemon/coordinator.rs` | `spawned`, `orphan_term_sent`, `admission_blocked` | mutations, tick (reconcile, graph, pass), launches |
| Tables | `src/db.rs` | jobs, dependencies, attempts, leases, reservation, pause, operations, events | the coordinator's transactions |
| Dependency graph | `src/db.rs` `advance_dependency_graph` | edges, readiness positions | every transaction that ends a job |
| Attempt directory | `src/process/artifacts.rs` | identity, start, exec, cancel, yield, yield_sent, limit, timeout, result | the coordinator and the runner, atomically |
| Runner | `src/process/runner.rs` | its locals, the flock, the command's process group | one detached process per attempt |
| Process identity | `src/process/identity.rs` | none | reads `/proc` |
| Server, subscriptions | `src/daemon/mod.rs` | lock, socket, connections, watch revision, subscription count | connections, signals |
| Client, follower | `src/client.rs`, `src/follow*.rs` | cursor, retries, checks, hooks | the user's terminal |
| Polling commands | `src/cli.rs` `follow-tts`, `logs --follow` | cursor, batch, file offset | the user's terminal |
| Views, protocol, CLI, config | the rest | none | |

How they interact. One coordinator thread owns the tables. It handles one
message at a time; a mutation is one transaction, after which it publishes
intents into attempt directories and ticks. A tick reconciles every live
attempt against its directory and `/proc`, advances the dependency graph and
runs one scheduling pass, whose starts are committed in one transaction and
launched afterwards. Runners outlive the daemon, so the two talk through files
only. Clients talk to the daemon over a socket; a request may be applied after
its client has given up, and is retried under the same idempotency key. Streams
sleep on a watch channel that carries the newest event id. What makes this hard:
the daemon, a runner, a client or the machine can stop between any two
transactions, writes and signals; results, deaths, deadlines and operator
intents race; reservations and bypasses live across many passes; limits and
priorities change under a pass's feet. `PROJECT.json` lists the hazards with the
properties that would catch each.

## Modules

The queue:

- `SchedulingPolicy`: `can_admit`, queue rank, backfill frontier.
- `DependencyGraph`: job states, `advance_dependency_graph` as a function of the
  rows. Parents have smaller ids than children, so the cascade's fixed point is
  a recursive function on ids.
- `AttemptOutcomes`: attempt states and the outcomes each allows.
- `Queue` (extends the three): the tables and the coordinator thread. `pc` is
  the phase of its cycle (`idle`, `reconcile`, `schedule`, `planning`,
  `launch`), `todo` what its loop has left, `plan` the locals of `plan_pass`. A
  step is one transaction or one iteration of `plan_pass`, so `Restart` can fall
  between any two. A mutation is one action, the graph update included, and is
  followed by a tick. What a runner left behind is a choice among
  `OutcomesOf`, launch failure a choice, time a pending or elapsed retry delay.

One attempt:

- `AttemptLifecycle`: the abstract specification of one attempt row, exactly the
  steps `Queue` allows a live attempt.
- `Attempt`: the protocol behind it. Row, directory, daemon process, runner
  processes and process group of one attempt. A reconciliation is two steps
  (look for the result, then inspect), a publication is a step after its
  transaction, an iteration of the supervision loop is up to six steps. Runners
  are named after the daemon incarnation that spawned them.
- `TimeLimits`: a limit that is edited while the attempt runs. `row` is the
  job's limit with its installation time and the attempt's cancel and
  `timed_out_at`; the files are `limit.json`, `cancel.json`, `timeout.json` and
  `result.json`; `runner` the locals of the supervision loop, of which one
  iteration is two steps, so that an edit, a cancel or a publication can fall
  into it. `timeout_wins_over_cancel` and `timeout_kill_anchor` are operators.
  When the runner dies `OrphanAttempt`, `OrphanSignalled` and `OrphanDrained`
  are the branches of `reconcile_orphaned`. Here time is a number, in `Attempt`
  it is a deadline that has passed or has not.

Clients:

- `IdempotentService`: what an idempotency key promises. A key has one effect at
  most, and an answer of success names the effect of this key and this request.
- `Operations`: how that is kept. Clients with their retries
  (`client.rs` `request`), the socket's backlog, connections and their budget,
  the singleton lock, start, stop and crash of several daemons (`daemon/mod.rs`),
  the coordinator's mailbox, `handle_mutation` with the `operations` table, and
  both request hashes. A request is its list of dependencies as the caller
  wrote it. A connection outlives its client, and a reply can be lost.
- `EventLog`: the coordinator as readers see it: the event table, the followed
  job's row, `admission_blocked`, and `publish_revision`, which covers any number
  of transactions.
- `Subscription` (extends it): `stream_updates` (mark, ask, write, sleep; pages,
  shortened pages, stalls), `JobSubscription` at the other end, and the snapshot
  stream.
- `Pollers` (extends `EventLog`): `follow-tts` and `logs --follow`.
- `Readers`: composes the three; which reader is observed is chosen initially.
- `Follow`: the process `mlq follow`: its `select` loop, the checks with
  deadlines and preemption by transitions, `CheckState` with its active keys,
  the warning cooldown, the hook worker behind its bounded mailbox, the final
  line, finish hooks and exit code. It takes from `Readers` that events come once
  and in order.

`MCQueue`, `MCOperations`, `MCReaders`, `MCFollow` and `MCTimeLimits` are the
instances; `Attempt` is checked as it is. `QueueProofs`, `ReadinessProofs` and
`ReservationProofs` (each extending the one before), `AttemptProofs`,
`TimeLimitsProofs`, `OperationsProofs`, `ReadersProofs` and `FollowProofs` hold the
proofs.

Operators marked *Mutant* are faulty variants of the definition below them, one
for each property: each property is violated if its variant is put in place.

## Runs

| Run | Distinct states | Shows |
|---|---|---|
| `admission` | 1.4M | tables agree; no pass admits past a limit, although limits of live jobs are edited, nor leaves startable work waiting; priorities, holds, pause, unknown reservation version |
| `backfill` | 2.8M | bypass rules, monotone reservations, window needs an advancing blocker |
| `history` | 1.7M | graph at its fixed point after every transaction, final states final, unique readiness positions, requeued jobs go to the back |
| `liveness` | 29k | protection ends, no starvation |
| `protocol` | 2.9M | the attempt protocol: lease covers command, spawned once, outcome true, signals deliberate, result decides, implements `AttemptLifecycle` |
| `attempt_liveness` | 0.1M | attempts end; a forced cancel ends a command that ignores SIGTERM |
| `limits` | 1.6M | a begun timeout sticks, is true of a limit that was in force, SIGKILL waits for a grace, the limit is enforced in the end |
| `operations` | 0.6M | idempotency under retries, lost replies and crashes; the serving daemon owns the socket; streams never use up the connections |
| `readers` | 0.9M | events exactly once, no lost wake-up, exact announcements, drained logs, followers end |
| `follow` | 0.3M | no warning swallowed or repeated, none under an obsolete attempt, outcome last, the follower ends |
| `respawn`, `snapshot` | | violations, below |

Bounds. Three jobs are enough for a holder, a protected job and a bypasser;
`backfill` has four, so that a blocker, a protected job, a job that has used its
bypass and one that has not exist together. `MaxStarts` bounds how often clients
ask for another attempt, not the automatic retries. Limits 1 to 3 hold every
relation to three jobs. `Inputs` selects the requests and failures of a run.
`admission` and `history` each hold two families of cases; the constraints
`OneKind` and `OneFamily` cut the states in which both have had their effect
(only in runs without liveness). In `Attempt` one restart (or reboot) gives two
daemons and two runners, enough for every race between a runner and its
replacement; at most one artifact is damaged at a time.

`limits`: two limits, a grace of one and two edits let a deadline move forward,
backward and into the past, on either side of a cancel; requests and the runner's
death fall at least one grace before the clock saturates, so that every grace can
run out. `operations`: one key for two clients, since keys do not interact; two
spellings of one request and one that differs; two connections, of which one may
be a stream; two tries. `readers`: four events and pages of two, so that a page
can be full with more to come, full with nothing to come, and shortened; a socket
that holds one frame. `follow`: three transitions, and five configurations that
each make one mechanism full or cut short (two checks in a batch, a failing check
with metric steps, a mailbox of one, lifecycle events only, more keys than may be
active). A follower that has ended takes no step, so that run does not check for
deadlock; every other run does.

Fairness. In `Queue`, the thread takes its next step, the timer ticks, retry
delays elapse, and a live attempt's result is read eventually: the tick is a
timer and the coordinator never blocks. A command that never ends starves the
queue by design, so commands are assumed to end there, and submissions are
finitely many. In `Attempt`, the coordinator and runners that live take steps,
and a grace period that stays due ends (strong fairness, because a poll
interrupts it); commands need not end, except where `AttemptEnds` says so. In
`TimeLimits`, the clock, a living runner and each duty of the daemon's tick;
nothing of the command or the operator. In `Operations`, the runtime polls its
tasks and the coordinator takes its next message; nothing of clients, signals or
crashes. In `Readers`, the coordinator's loop, the stream's task and a client
that reads; the coordinator's answers are strongly fair because requests wait in
a first-in first-out mailbox while other work comes between. In `Follow`, the
stream delivers and the task runs; checks, hooks and deadlines may hang.

### What the violations show

- `respawn`: the daemon restarts while an attempt is prepared and spawns a
  second runner. If that runner reaches its flock only after the first has run
  the command, published the result and exited, it sees `start` and spawns the
  command again: the runner looks neither at `exec.json` nor at `result.json`.
  It takes a runner that is overtaken by a whole command between `exec` and
  `flock`; `SlowStart = FALSE` excludes just that, for the other runs, by letting
  a spawned runner reach its flock before the coordinator's next step.
- `snapshot`: `coordinator.rs:187` and ARCHITECTURE.md:214 say that every
  snapshot field but `admissionBlocked` moves only with an event. The delivery
  mark of a yield request and the end of a retry delay do not, so a sleeping
  snapshot stream keeps showing the old one until something else happens.
  `QuietStreamIsCurrent` is the property that does hold.

Differences from the documentation met on the way and kept out of the runs:

- ARCHITECTURE.md:351 has the coordinator "Revalidate formula" at authorization.
  `authorize` does not; a limit lowered after admission is only seen by the next
  pass. Invariant 4 of the document, that excess leases drain, describes the code.
- ARCHITECTURE.md:140: a reservation created behind orphaned or quarantined
  leases only starts with an open window. It is closed one pass later
  (`WindowNeedsABlocker` is about kept reservations).
- `coordinator.rs:563`, "A valid terminal result always wins": not after a failed
  write of `start`, when the runner publishes `cancelled` between the two halves
  of a reconciliation and the row becomes `failed`. `ResultDecides` excepts an
  authorized attempt without `start`.
- `domain.rs:150`: a cancel that comes after an expired deadline is classified as
  a timeout only if the limit is not edited in between, unless somebody had
  already recorded the timeout.

## Proofs

`QueueProofs` proves, for any number of jobs, any submissions, limits,
priorities and inputs, from `BoundsAssumption` and `InputsAssumption` (the
constants have their types; limits are positive):

- `TypeCorrect`, `TablesAlwaysAgree`, `PassesComplete`: `TypeOK`, `TablesAgree`
  and `PassNeverAborts` are invariants of `Spec`;
- `AdmissionIsSafe`, `OversubscriptionIsDeliberate`: every behaviour satisfies
  `AdmissionRespectsLimits` and `OversubscribedOnlyByOperator`.

The argument. `PassNeverAborts` and the admission theorems are about the end of
a pass that takes several steps, so the invariant has to describe a plan half-way.
`Inv == TypeOK /\ TablesAgree /\ LoopInv /\ PlanInv` (theorem `Invariance`):
`LoopInv` says that rows are created in order and that the loops visit live
attempts only, without which finalizing could touch a waiting job; `PlanInv` says
that the shadow set is the lease table plus the batch, that the batch fits as a
whole, that it consists of queued jobs, and that a reservation created in the pass
does not fit, which stays true because the shadow set only grows. No mutation
falls into a pass, since one thread does both. Each action has its lemma.
`AdmissionIsSafe` then follows because only `CommitPass` gives leases
(`OnlyCommitStarts`) and it turns the shadow set into the lease table
(`CommitLeases`, `CommitIsCompatible`).

`ReadinessProofs` proves, from the same assumptions and `Inv`:

- `PositionsStayDistinct`, `TheLineIsFair`: `ReadyPositionsDistinct` is an
  invariant and every behaviour satisfies `BackOfTheLine`. Both follow from one
  lemma about `advance_dependency_graph` (`AdvanceKeepsTheLine`): it draws
  positions by rank of the job id within the jobs that became ready, which is
  injective (`RankInSet`), beyond the counter, and only for jobs without one.
  Every transaction is shown to hand it columns that already have the property;
- `FinalIsFinal`: every behaviour satisfies `FinalStatesAreFinal`, since the
  update only ends waiting jobs and only live jobs are finalized;
- `GraphStaysAtFixedPoint`: `GraphAtFixedPoint` is an invariant. The cascade of
  `advance_dependency_graph` is a recursive function on job ids; that it reaches
  its fixed point in one pass is an induction over ids.

`ReservationProofs` proves `BypassesAreBounded`, `ReservationsOnlyGrow`,
`WindowsClose` and `PassesConserveWork`: every behaviour satisfies `BypassRules`,
`ReservationMonotone`, `WindowNeedsABlocker` and `WorkConserving`. They compare
the reservation before and after a commit with a plan made in earlier steps, so
`Inv` is joined by `ReserveInv` (theorem `ReserveInvariance`): nobody startable is
missing from the snapshot; a job protected in this pass has an open window and the
top priority among the rest; while the persisted reservation is in force, every
planned start is a first bypass of it, at its priority and within the frontier
that the commit will write. Three facts carry the argument. A set of jobs with
distinct positions has a first one in queue order (`FirstExists`, by
well-foundedness of the subsets of a finite set), so a reservation that no first
job supersedes is outranked by nobody. A reservation is kept only if it was in
force throughout the pass (`CommitKeeps`). After the commit, who could be admitted
is who fits the shadow set (`CouldStartIsFits`). That the position pinned at
freezing differs from 0, the value that means unfrozen, is where `WindowsClose`
needs `ReadyPositionsDistinct`.

`OperationsProofs` proves, for any clients, daemons, keys, requests, retries and
connections:

- `SocketOwnership`: `ServingOwnsTheSocket` is an invariant, because the lock
  serialises the lives of the daemons and the socket file is only touched under
  it (`LockInv`);
- `OperationsAreIdempotent`: `Operations` implements `IdempotentService`. The
  invariant `ServiceInv` says that a key has a row in `operations` exactly if it
  has had its effect, that the row's hash was made from the request that had the
  effect and its reply names it, and that every reply under way was true when it
  was made and stays true. What a hash forgets is what `insert_job` merges
  (`HashDecidesEdges`), so a match means the same job (`MatchMeansSameJob`).
  Steps of sockets, mailboxes and daemons are stutters of the service.

It rests on `ConstantsAssumption` and `RequestsAssumption`: the constants and the
requests have their types, and `None` is neither a hash nor a row. That the lists a
v5 daemon hashed determine the edges (`ListsDecideEdges`) is an induction over the
list of dependencies (`ParentsAreNamed`).

`TimeLimitsProofs` proves, for all limits, graces and numbers of edits, from
`LimitsAssumption` (a limit leaves a grace on the clock) and `NoneAssumption`:

- `BegunTimeoutSticks`, `TimeoutIsTrue`, `KillIsNeverEarly`: `TimeoutSticks` and
  `TimeoutOverran` are invariants, and every behaviour satisfies
  `KillWaitsForGrace`.

The invariant has a part for each pair that could disagree: every limit in a
file, in the runner or in the row was installed, and installations only get later
(`LimitsInv`); a published cancel is the row's, perhaps before force was added
(`CancelInv`); runner and daemon never decide together, and the second finds what
the first recorded (`StickInv`); a countdown ends a grace after its reason
(`KillInv`); a recorded timeout names a limit that had run out at the recorded
instant (`CommitInv`), which is what makes the daemon's anchor late enough after
the row's limit has been edited again (`AnchorIsLate`).

`AttemptProofs` proves, for any number of restarts and any selection of failures and
requests, from `AttemptAssumption` (the constants have their types) and the
hypothesis `~SlowStart`:

- `AttemptTypes`, `LeasesCoverCommands`, `CommandsRunOnce`, `OutcomesAreTrue`:
  `TypeOK`, `LeaseCoversCommand`, `CommandRunsOnce` and `OutcomeIsTrue` are
  invariants;
- `SignalsHaveReasons`, `ResultsDecide`: every behaviour satisfies
  `SignalsAreDeliberate` and `ResultDecides`;
- `ProtocolImplementsLifecycle`: `Attempt` implements `AttemptLifecycle`.

`~SlowStart` is the hypothesis under which the runs are, too: with `SlowStart` the
`respawn` run is a counterexample to `CommandRunsOnce`, so the theorems are stated
for the rest. The invariant (theorem `AttemptInvariance`) orders the copies of one
fact. The row is ahead of the files (`RowInv`); the flock, and the live identity
that `authorize` asks for, leave one runner (`SoleInv`), so that only the recorded
runner ever forks, and every end but a blind resolution leaves nothing that lives
or could fork (`CommandInv`); what is on disk or in the runner's memory was
committed before (`IntentInv`); a published result is true when it is written and
stays true, because the group it reports on is gone (`OutcomeInv`). The lemma of
each part has one step per group of actions. The refinement adds nothing to the
invariant: `LifecycleStep` maps the steps that write the row and finds the others
stuttering.

`ReadersProofs` proves, for every length of the event table, page size, socket
buffer and file, from `PageSizeAssumption`, `PollPageAssumption` and
`NoneAssumption` (a page holds at least one event; `None` is no event id):

- `EventsDeliveredOnce`, `SleepingStreamsAreCurrent`, `AnnouncementsAreExact`,
  `LogsAreDrained`: `EventsExactlyOnce`, `QuietStreamIsCurrent`,
  `AnnouncementsExact` and `LogDrained` are invariants.

`EventsExactlyOnce` speaks of the client only; the invariant (theorem
`ReadersInvariance`) follows the events from the table to it. `StreamInv`: the
frames on the wire form a chain from the client's cursor to the task's, each
listing exactly the events between its ends, and a frame that announces no more
leaves nothing behind; an answer or a sleep with no revision waiting covers all
that was published. `HistoryInv` is the grammar of the table (after a start come
yield requests until an orphaning or an end, and an end is followed in its own
transaction by what it means for the job); with `TtsInv`, the cursor stops only
between transactions, it is why a batch cut anywhere never calls a job running
that is not. `TailInv`: an attempt that was seen to be over writes no more. Lists
of event ids are compared by what they contain: a set of numbers has one
increasing list (`ListsOnce`), so pages and concatenations need one induction only.

`FollowProofs` proves, for every configuration, number of checks, mailbox and
budget, from `ConstantsAssumption` (sizes are positive, the key of a failing check
is nobody's metric):

- `SilenceIsTold`, `WarningsAreCurrent`, `OutcomeComesLast`: `SilencedMeansTold`,
  `WarningsNameTheirAttempt` and `OutcomeIsLast` are invariants.

The invariant (theorem `FollowInvariance`): a frame cuts a batch short before the
row changes, so that a batch that ends belongs to the current attempt (`BatchInv`);
the states of the checks and their warning are committed in one step
(`SilenceInv`); the outcome is queued when nothing else is left to print
(`EndInv`).

Induction. The provers cannot instantiate an induction theorem that takes an
operator. Where a recursive function is used (`DependencyGraph`, `Parents`,
`Chosen`, `FollowedIds`) the induction is done by hand, by the least counterexample
(`<` is well-founded on the naturals): once to show that the recursion has a
solution and once for what the solution computes.

Model-checked only: liveness (`ProtectionEnds`, `ReadyJobsLeaveTheQueue`,
`AttemptEnds`, `ForcedCancelEnds`, `LimitIsEnforced`, `ControlSlotFrees`,
`FollowersEnd`, `FollowerEnds`), since the provers know neither fairness nor
`ENABLED`. Every invariant, action property and refinement of a passing run has a
theorem.

## Not modelled

- Wall clock against monotonic clock: `TimeLimits` has one clock, on which the
  runner's elapsed time and the daemon's timestamps agree.
- Artifacts with a foreign token (as corrupt ones, they quarantine), cancel
  artifacts without a timestamp, reuse of process ids, processes that cannot be
  killed, the non-atomic scan of `/proc`.
- SQLite errors: a failed transaction changes nothing and is tried again at the
  next tick.
- `Queue` visits attempts in any order (the code: by id), which only adds
  behaviours.
- Framing, peer credentials and idle timeouts of connections, which close a
  connection as `HangUp`, `GiveUp` and `Stop` do.
- A check's process, its output and the text of warnings; the totals of
  suppressed warnings and dropped notifications that the last line reports.
- Migrations, event texts, the other views, parsing, validation, configuration,
  file locations and captured context: functions of their input that change no
  state of the queue. `cli.rs` and `protocol.rs` are mostly these.

## Open

- `TimeLimits` composed with the whole of `Attempt`, in place of its abstract
  deadline.
