----------------------------- MODULE TimeLimits -----------------------------
(***************************************************************************)
(* The wall-clock limit of one running attempt.  The operator may move or  *)
(* clear the limit and cancel the job at any time; the daemon commits both *)
(* in the database and then publishes limit.json and cancel.json, possibly *)
(* late.  The runner polls the files, commits a timeout in timeout.json,   *)
(* signals the command's group and kills it one grace later; when the      *)
(* runner dies the daemon enforces the limit itself.                       *)
(*                                                                         *)
(* Time is counted in units from the start of the command, so a limit is   *)
(* its own deadline.  The clock saturates at MaxTime; requests and the     *)
(* runner's death happen at least one grace before that, so every grace    *)
(* that starts can run out.  Wall clock and monotonic clock agree.         *)
(*                                                                         *)
(* SIGTERM leaves no trace here, since the command may exit at any time or *)
(* ignore it for ever; so the flags that make it a single one (term_sent,  *)
(* orphan_term_sent), the only other state that a daemon loses when it     *)
(* restarts, are left to Attempt.                                          *)
(***************************************************************************)
EXTENDS Integers, FiniteSets

CONSTANTS Limits,      \* time limits an operator may set
          grace,       \* cancel_grace_ms
          MaxTime,     \* where the clock saturates
          MaxEdits,    \* edits of the limit
          None

ASSUME LimitsAssumption ==
    /\ grace \in Nat \ {0}
    /\ MaxTime \in Nat
    /\ Limits \subseteq 1 .. MaxTime - grace

\* What is absent is no time, no request and no outcome.
ASSUME NoneAssumption ==
    /\ None \notin Nat
    /\ None \notin [at : Nat, force : BOOLEAN]
    /\ None \notin {"timed_out", "cancelled", "exited", "lost"}

VARIABLES
    now,          \* time since the command was spawned
    row,          \* the job's limit and the attempt's row in the database
    limitFile,    \* limit.json, None while command.json's snapshot holds
    cancelFile,   \* cancel.json
    timeoutFile,  \* timeout.json
    resultFile,   \* result.json, its outcome
    runner,       \* the supervision loop's locals
    group,        \* the command's process group
    installed,    \* history: every limit that was in force
    decided,      \* history: the cancel that the last timeout decision knew
    killed        \* history: SIGKILL has been delivered

files == <<limitFile, cancelFile, timeoutFile, resultFile>>
vars == <<now, row, files, runner, group, installed, decided, killed>>

\* A request or a fault still leaves one grace on the clock.
Early == now + grace <= MaxTime

Fresh == [alive |-> TRUE, pc |-> "scan", exit |-> FALSE, empties |-> 0, cancel |-> None,
          live |-> None, timed_out |-> FALSE, cancelled |-> FALSE, kill_in |-> None,
          kill_sent |-> FALSE]

-----------------------------------------------------------------------------
(* The order of a cancel and a deadline, and the start of the grace.       *)

\* Mutant: the installation time of the limit does not matter.
WinsWhateverSet(cancelled_at, deadline, set_at) == cancelled_at > deadline

timeout_wins_over_cancel(cancelled_at, deadline, set_at) ==
    /\ cancelled_at > deadline
    /\ set_at # None => cancelled_at > set_at

\* Mutant: the grace always starts at the deadline.
AnchorAtDeadline(deadline, set_at) == deadline

\* Both callers pass no observed_at.
timeout_kill_anchor(deadline, set_at) ==
    IF set_at # None /\ deadline < set_at THEN set_at ELSE deadline

-----------------------------------------------------------------------------
(* The operator and the daemon's publications.                             *)

SetTimeLimit(ms) ==
    /\ Early
    /\ row.outcome = None
    /\ Cardinality(installed) <= MaxEdits
    /\ ms # row.limit.ms
    /\ row' = [row EXCEPT !.limit = [ms |-> ms, set_at |-> now]]
    /\ installed' = installed \cup {row'.limit}
    /\ UNCHANGED <<now, files, runner, group, decided, killed>>

\* The first request keeps its time; a later one may only add force.
Cancel(force) ==
    /\ Early
    /\ row.outcome = None
    /\ row.cancel # None => force /\ ~row.cancel.force
    /\ row' = [row EXCEPT !.cancel = IF @ = None THEN [at |-> now, force |-> force]
                                               ELSE [@ EXCEPT !.force = TRUE]]
    /\ UNCHANGED <<now, files, runner, group, installed, decided, killed>>

\* After the commit, or on a later tick when a crash or a failed write came
\* between.  Only the limit of a supervised attempt is republished.
PublishLimit ==
    /\ row.outcome = None /\ row.state = "running"
    /\ row.limit.set_at # None /\ limitFile # row.limit
    /\ limitFile' = row.limit
    /\ UNCHANGED <<now, row, cancelFile, timeoutFile, resultFile, runner, group,
                   installed, decided, killed>>

PublishCancel ==
    /\ row.outcome = None
    /\ row.cancel # None /\ cancelFile # row.cancel
    /\ cancelFile' = row.cancel
    /\ UNCHANGED <<now, row, limitFile, timeoutFile, resultFile, runner, group,
                   installed, decided, killed>>

-----------------------------------------------------------------------------
(* The runner's supervision loop: one scan of the group and of cancel.json, *)
(* then one decision; the operator may act between the two.                *)

\* The leader's exit is observed, then the group must be found empty twice.
RunnerScan ==
    /\ runner.alive /\ runner.pc = "scan"
    /\ LET empties == IF group = "empty" THEN runner.empties + 1 ELSE 0 IN
       IF empties = 2
       THEN /\ resultFile' = CASE runner.timed_out -> "timed_out"
                               [] ~runner.timed_out /\ runner.cancelled -> "cancelled"
                               [] OTHER -> "exited"
            /\ runner' = [Fresh EXCEPT !.alive = FALSE]
       ELSE /\ runner' = [runner EXCEPT !.pc = "act", !.exit = group # "running",
                                        !.empties = empties, !.cancel = cancelFile]
            /\ UNCHANGED resultFile
    /\ UNCHANGED <<now, row, limitFile, cancelFile, timeoutFile, group,
                   installed, decided, killed>>

\* limit.json wins over the launch snapshot, until a timeout has begun.
observed_time_limit ==
    CASE runner.timed_out -> runner.live
      [] ~runner.timed_out /\ limitFile # None -> limitFile
      [] OTHER -> [ms |-> row.launch, set_at |-> None]

\* SIGKILL empties the group; SIGTERM is up to the command.
Kill == group' = "empty" /\ killed' = TRUE

\* The time of the cancel that a decision takes into account.
Seen(cancel) == [seen |-> IF cancel = None THEN None ELSE cancel.at]

\* Mutant: only a forced cancel escalates.
ArmsForced(due, cancel) == cancel # None /\ cancel.force

\* A due limit always escalates, a cancel only when it is forced.
Arms(due, cancel) == due \/ (cancel # None /\ cancel.force)

RunnerExpired == observed_time_limit.ms # None /\ now >= observed_time_limit.ms

RunnerClassifies ==
    /\ RunnerExpired
    /\ runner.cancel # None =>
          timeout_wins_over_cancel(runner.cancel.at, observed_time_limit.ms,
                                   observed_time_limit.set_at)

\* An empty scan makes a limit that expires now too late.
RunnerDue == RunnerExpired /\ runner.empties = 0

RunnerTimesOut == RunnerDue /\ RunnerClassifies /\ ~runner.timed_out

\* The grace is counted down once, from the first decision that escalates.
KillIn ==
    CASE runner.kill_in = 0 -> None
      [] runner.kill_in = None /\ Arms(RunnerDue, runner.cancel) /\ ~runner.kill_sent -> grace
      [] OTHER -> runner.kill_in

RunnerAct ==
    /\ runner.alive /\ runner.pc = "act"
    /\ LET timed_out == runner.timed_out \/ RunnerTimesOut
           kills == runner.kill_in = 0
       IN /\ runner' = [alive |-> TRUE, pc |-> "scan", exit |-> FALSE,
                         empties |-> runner.empties, cancel |-> None,
                         live |-> IF timed_out THEN observed_time_limit ELSE None,
                         timed_out |-> timed_out,
                         cancelled |-> \/ runner.cancelled
                                       \/ runner.cancel # None /\ ~timed_out /\ ~runner.exit,
                         kill_in |-> KillIn, kill_sent |-> runner.kill_sent \/ kills]
          /\ timeoutFile' \in IF RunnerTimesOut /\ timeoutFile = None
                              THEN {None, [deadline |-> observed_time_limit.ms,
                                           observed_at |-> now]}
                              ELSE {timeoutFile}
          /\ decided' = IF RunnerTimesOut THEN Seen(runner.cancel) ELSE decided
          /\ IF kills THEN Kill ELSE UNCHANGED <<group, killed>>
    /\ UNCHANGED <<now, row, limitFile, cancelFile, resultFile, installed>>

RunnerDies ==
    /\ Early /\ runner.alive
    /\ runner' = [Fresh EXCEPT !.alive = FALSE]
    /\ UNCHANGED <<now, row, files, group, installed, decided, killed>>

-----------------------------------------------------------------------------
(* The daemon: results and orphans.                                        *)

FinalizeFromResult ==
    /\ row.outcome = None /\ resultFile # None
    /\ row' = [row EXCEPT !.outcome = resultFile]
    /\ UNCHANGED <<now, files, runner, group, installed, decided, killed>>

OrphanAttempt ==
    /\ row.outcome = None /\ resultFile = None
    /\ row.state = "running" /\ ~runner.alive
    /\ row' = [row EXCEPT !.state = "orphaned"]
    /\ UNCHANGED <<now, files, runner, group, installed, decided, killed>>

Orphan == row.outcome = None /\ resultFile = None /\ row.state = "orphaned"

\* Mutant: the daemon forgets the commitment that the runner left in timeout.json.
CommittedInRow == row.timed_out_at # None

Committed == timeoutFile # None \/ row.timed_out_at # None

\* The group has drained: a deadline noticed only now is not a timeout.
OrphanDrained ==
    /\ Orphan /\ group = "empty"
    /\ row' = [row EXCEPT !.outcome = CASE Committed -> "timed_out"
                                        [] ~Committed /\ row.cancel # None -> "cancelled"
                                        [] OTHER -> "lost"]
    /\ UNCHANGED <<now, files, runner, group, installed, decided, killed>>

Deadline ==
    CASE timeoutFile # None -> timeoutFile.deadline
      [] timeoutFile = None /\ row.timed_out_at # None -> row.timed_out_at
      [] OTHER -> row.limit.ms

OrphanExpired == timeoutFile # None \/ (Deadline # None /\ now >= Deadline)

OrphanClassifies ==
    Committed \/ (OrphanExpired /\ (row.cancel # None =>
        timeout_wins_over_cancel(row.cancel.at, Deadline, row.limit.set_at)))

\* Where the grace of an expired limit starts.
OrphanAnchor ==
    IF timeoutFile # None THEN timeoutFile.observed_at
    ELSE timeout_kill_anchor(Deadline, row.limit.set_at)

OrphanSignalled ==
    /\ Orphan /\ group # "empty"
    /\ OrphanExpired \/ row.cancel # None
    /\ LET times == OrphanExpired /\ OrphanClassifies
           kills == IF OrphanExpired THEN now - OrphanAnchor >= grace
                    ELSE row.cancel.force /\ now - row.cancel.at >= grace
       IN /\ row' = [row EXCEPT !.timed_out_at = IF times /\ @ = None THEN Deadline ELSE @]
          /\ timeoutFile' \in IF times /\ timeoutFile = None
                              THEN {None, [deadline |-> Deadline, observed_at |-> OrphanAnchor]}
                              ELSE {timeoutFile}
          /\ decided' = IF times /\ ~Committed THEN Seen(row.cancel) ELSE decided
          /\ IF kills THEN Kill ELSE UNCHANGED <<group, killed>>
    /\ UNCHANGED <<now, limitFile, cancelFile, resultFile, runner, installed>>

-----------------------------------------------------------------------------
(* The clock and the command, which may ignore SIGTERM for ever.           *)

Tick ==
    /\ row.outcome = None
    /\ now < MaxTime \/ runner.kill_in \notin {None, 0}
    /\ now' = IF now < MaxTime THEN now + 1 ELSE now
    /\ runner' = [runner EXCEPT !.kill_in = IF @ \in {None, 0} THEN @ ELSE @ - 1]
    /\ UNCHANGED <<row, files, group, installed, decided, killed>>

CommandExits ==
    /\ row.outcome = None
    /\ group # "empty"
    /\ group' \in IF group = "running" THEN {"leader_gone", "empty"} ELSE {"empty"}
    /\ UNCHANGED <<now, row, files, runner, installed, decided, killed>>

Init ==
    /\ now = 0
    /\ \E ms \in Limits \cup {None} :
          /\ row = [limit |-> [ms |-> ms, set_at |-> None], launch |-> ms, cancel |-> None,
                    timed_out_at |-> None, state |-> "running", outcome |-> None]
          /\ installed = {[ms |-> ms, set_at |-> None]}
    /\ limitFile = None /\ cancelFile = None /\ timeoutFile = None /\ resultFile = None
    /\ runner = Fresh
    /\ group = "running"
    /\ decided = None
    /\ killed = FALSE

OperatorStep ==
    \/ \E ms \in Limits \cup {None} : SetTimeLimit(ms)
    \/ \E force \in BOOLEAN : Cancel(force)

DaemonStep ==
    \/ PublishLimit
    \/ PublishCancel
    \/ FinalizeFromResult
    \/ OrphanAttempt
    \/ OrphanDrained
    \/ OrphanSignalled

RunnerStep == RunnerScan \/ RunnerAct

\* The attempt is over: only the row is left.
Over == row.outcome # None /\ UNCHANGED vars

Next ==
    \/ OperatorStep
    \/ DaemonStep
    \/ RunnerStep
    \/ RunnerDies
    \/ Tick
    \/ CommandExits
    \/ Over

Spec == Init /\ [][Next]_vars

\* The clock advances, a living runner polls and each duty of the daemon's
\* tick is done again while it is due; nothing is assumed of the command.
Fairness ==
    /\ WF_vars(Tick)
    /\ WF_vars(RunnerScan) /\ WF_vars(RunnerAct)
    /\ WF_vars(PublishLimit) /\ WF_vars(PublishCancel)
    /\ WF_vars(FinalizeFromResult) /\ WF_vars(OrphanAttempt)
    /\ WF_vars(OrphanDrained) /\ WF_vars(OrphanSignalled)

FairSpec == Spec /\ Fairness

-----------------------------------------------------------------------------
(* Properties.                                                             *)

\* Once timeout.json or timed_out_at records that termination for the limit
\* has begun, the attempt ends as timed out: no edit of the limit, cancel,
\* or death of the runner reclassifies it (runner.rs
\* and reconcile_orphaned finish what the other one began).
TimeoutSticks ==
    (timeoutFile # None \/ row.timed_out_at # None) /\ row.outcome # None
        => row.outcome = "timed_out"

\* SIGKILL is never early, whoever sends it: a limit that was in force has
\* been both installed and expired for a whole grace, or a forced cancel has
\* waited that long (kill_at in the runner, timeout_kill_anchor in the daemon).
KillWaitsForGrace ==
    [][~killed /\ killed' =>
        \/ \E l \in installed : /\ l.ms # None /\ now >= l.ms + grace
                                /\ l.set_at # None => now >= l.set_at + grace
        \/ row.cancel # None /\ row.cancel.force /\ now >= row.cancel.at + grace]_vars

\* An attempt reported as timed out overran a limit; and when a cancel was
\* known to whoever began the termination, some limit had been installed and
\* had expired before that cancel: moving the deadline backward does not turn
\* an earlier cancel into a timeout (timeout_wins_over_cancel).
TimeoutOverran ==
    row.outcome = "timed_out" =>
        \E l \in installed :
            /\ l.ms # None /\ l.ms <= now
            /\ decided.seen # None =>
                  /\ l.ms < decided.seen
                  /\ l.set_at # None => l.set_at < decided.seen

\* The limit is a hard bound: an attempt whose limit has run out ends, even
\* if its command ignores SIGTERM, an earlier cancel was not forced, and the
\* runner dies on the way.
LimitIsEnforced == (now = MaxTime /\ row.limit.ms # None) ~> (row.outcome # None)
=============================================================================
