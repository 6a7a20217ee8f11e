------------------------------- MODULE Attempt -------------------------------
(***************************************************************************)
(* One attempt: the coordinator that reconciles its row, the detached      *)
(* runner processes, the artifact files they exchange, and the command.    *)
(*                                                                         *)
(* A daemon process spawns at most one runner for the attempt, so runners  *)
(* are named after the daemon incarnation that spawned them.  The daemon   *)
(* can be killed and restarted between any two transactions and file       *)
(* writes, a runner can die at any point, the machine can reboot.  The     *)
(* job's time limit is not edited here: expired says that the deadline has *)
(* passed, cancelLate that the cancel was committed after it.  Timers (the *)
(* identity grace, the kill grace, the authorization wait) may fire at any *)
(* time.  Artifact writes are atomic; a damaged file is in corrupt.        *)
(***************************************************************************)
EXTENDS Naturals, FiniteSets, AttemptOutcomes

CONSTANTS
    MaxRestarts,  \* bound on the restarts of the daemon
    SlowStart,    \* may a spawned runner be overtaken on its way to the flock?
    Inputs        \* the requests and failures of this instance

AllInputs == {"cancel", "force", "yield", "resolve", "limit", "fork", "runner_crash",
              "restart", "reboot", "launch_error", "io_error", "corrupt"}

ASSUME AttemptAssumption ==
    MaxRestarts \in Nat /\ SlowStart \in BOOLEAN /\ Inputs \subseteq AllInputs

Runners == 1 .. MaxRestarts + 1
NoRunner == 0

VARIABLES
    \* the attempts row and its run lease
    state, lease, rowRunner, rowExec, cancel, cancelLate, yieldRequested,
    yieldDelivered, timedOutAt, resolved,
    \* the attempt directory
    identity, start, exec, cancelFile, yieldFile, yieldSentFile, timeoutFile,
    result, corrupt,
    \* the daemon process
    pc, incarnation, spawned, orphanTermSent,
    \* runner processes, and the locals of the one that owns the flock
    runner, sup,
    \* the command's process group, per runner that spawned one
    leader, others, signals,
    \* the clock
    expired

handles == <<rowRunner, rowExec>>
intents == <<cancel, cancelLate, yieldRequested>>
marks == <<yieldDelivered, timedOutAt, resolved>>
launchFiles == <<identity, start, exec>>
intentFiles == <<cancelFile, yieldFile>>
commitFiles == <<yieldSentFile, timeoutFile>>
endFiles == <<result, corrupt>>
memory == <<incarnation, spawned, orphanTermSent>>
group == <<leader, others, signals>>
row == <<state, lease, handles, intents, marks>>
dir == <<launchFiles, intentFiles, commitFiles, endFiles>>
daemon == <<pc, memory>>
procs == <<runner, sup, group>>
vars == <<row, dir, daemon, procs, expired>>

NoSup == [exitSeen |-> FALSE, empty |-> FALSE, scans |-> 0, termSent |-> FALSE,
          timedOut |-> FALSE, cancelled |-> FALSE, yieldSent |-> FALSE,
          killArmed |-> FALSE, killSent |-> FALSE]

Init ==
    /\ state = "prepared" /\ lease = TRUE
    /\ rowRunner = NoRunner /\ rowExec = NoRunner
    /\ cancel = "no" /\ cancelLate = FALSE
    /\ yieldRequested = FALSE /\ yieldDelivered = FALSE
    /\ timedOutAt = FALSE /\ resolved = "no"
    /\ identity = NoRunner /\ start = FALSE /\ exec = NoRunner
    /\ cancelFile = "no" /\ yieldFile = FALSE /\ yieldSentFile = FALSE
    /\ timeoutFile = FALSE /\ result = "none" /\ corrupt = {}
    /\ pc = "tick" /\ incarnation = 1 /\ spawned = FALSE /\ orphanTermSent = FALSE
    /\ runner = [r \in Runners |-> "unborn"]
    /\ sup = NoSup
    /\ leader = [r \in Runners |-> "none"]
    /\ others = [r \in Runners |-> FALSE]
    /\ signals = {}
    /\ expired = FALSE

------------------------------------------------------------------------------
(* Processes, as /proc shows them.                                         *)

identity_alive(r) == r # NoRunner /\ runner[r] \notin {"unborn", "dead"}
GroupAlive(r) == leader[r] = "running" \/ others[r]
group_possibly_alive(r) == r # NoRunner /\ GroupAlive(r)
HoldsLock(r) == runner[r] \notin {"unborn", "spawned", "dead"}

\* Unless a runner may start slowly, it gets to its flock before the
\* coordinator does anything else.
Prompt == SlowStart \/ \A r \in Runners : runner[r] # "spawned"

------------------------------------------------------------------------------
(* Client requests, on the coordinator thread.  Each is committed first and *)
(* published to the attempt directory afterwards.                          *)

\* write_artifact: all or nothing, and it may fail.
Written(old, new) == {new} \cup (IF "io_error" \in Inputs THEN {old} ELSE {})

\* Mutant: a prepared attempt keeps waiting for its runner.
CancelIsIntentOnly(force) ==
    /\ pc = "idle" /\ Prompt
    /\ "cancel" \in Inputs /\ (force => "force" \in Inputs)
    /\ state \in LiveAttemptStates \ {"quarantined"}
    /\ cancel' = IF force \/ cancel = "force" THEN "force" ELSE "soft"
    /\ cancelLate' = IF cancel = "no" THEN expired ELSE cancelLate
    /\ UNCHANGED <<state, lease>>
    /\ pc' = IF state = "orphaned" THEN "tick" ELSE "publish_cancel"
    /\ UNCHANGED <<handles, yieldRequested, marks, dir, memory, procs, expired>>

Cancel(force) ==
    /\ pc = "idle" /\ Prompt
    /\ "cancel" \in Inputs /\ (force => "force" \in Inputs)
    /\ state \in LiveAttemptStates \ {"quarantined"}
    /\ cancel' = IF force \/ cancel = "force" THEN "force" ELSE "soft"
    /\ cancelLate' = IF cancel = "no" THEN expired ELSE cancelLate
    /\ state' = IF state = "prepared" THEN "cancelled" ELSE state
    /\ lease' = (state # "prepared")
    /\ pc' = IF state = "orphaned" THEN "tick" ELSE "publish_cancel"
    /\ UNCHANGED <<handles, yieldRequested, marks, dir, memory, procs, expired>>

YieldJob ==
    /\ pc = "idle" /\ Prompt
    /\ "yield" \in Inputs
    /\ state = "running" /\ cancel = "no"
    /\ yieldRequested' = TRUE
    /\ pc' = "publish_yield"
    /\ UNCHANGED <<state, lease, handles, cancel, cancelLate, marks, dir, memory, procs,
                   expired>>

\* Refused while a known process group lives.  Without an exec handshake there
\* is none to check, and the message says so.
RecoverResolve(outcome) ==
    /\ pc = "idle" /\ Prompt
    /\ "resolve" \in Inputs
    /\ state \in {"orphaned", "quarantined"}
    /\ ~group_possibly_alive(rowExec)
    /\ state' = outcome
    /\ lease' = FALSE
    /\ resolved' = IF rowExec = NoRunner THEN "blind" ELSE "checked"
    /\ pc' = "tick"
    /\ UNCHANGED <<handles, intents, yieldDelivered, timedOutAt, dir, memory, procs,
                   expired>>

\* perform
PublishCancel ==
    /\ pc = "publish_cancel"
    /\ cancelFile' \in Written(cancelFile, cancel)
    /\ pc' = "tick"
    /\ UNCHANGED <<row, launchFiles, yieldFile, commitFiles, endFiles, memory, procs,
                   expired>>

PublishYield ==
    /\ pc = "publish_yield"
    /\ yieldFile' \in Written(yieldFile, TRUE)
    /\ pc' = "tick"
    /\ UNCHANGED <<row, launchFiles, cancelFile, commitFiles, endFiles, memory, procs,
                   expired>>

\* The end of authorize.
PublishStart ==
    /\ pc = "publish_start" /\ Prompt
    /\ start' \in Written(start, TRUE)
    /\ pc' = "idle"
    /\ UNCHANGED <<row, identity, exec, intentFiles, commitFiles, endFiles, memory, procs,
                   expired>>

------------------------------------------------------------------------------
(* Reconciliation: reconcile_attempt.                                      *)

CanReconcile == pc \in {"idle", "tick"} /\ Prompt /\ state \in LiveAttemptStates

\* observe_yield_delivery
DeliveryObserved == yieldDelivered \/ (yieldRequested /\ yieldSentFile)

\* The row's part of finalize_attempt_and_job.
Finalized(outcome) ==
    /\ state' = outcome
    /\ lease' = FALSE
    /\ pc' = "idle"
    /\ spawned' = FALSE
    /\ orphanTermSent' = FALSE
    /\ incarnation' = incarnation

AttemptOutcome(res) ==
    CASE res = "exited_zero" -> "succeeded"
      [] res \in {"exited_nonzero", "launch_failed", "authorization_timeout", "timed_out"} ->
            "failed"
      [] res \in {"cancelled", "yielded"} -> res

\* A valid terminal result wins, whatever the state of the row.
FinalizeFromResult ==
    /\ CanReconcile
    /\ result # "none" /\ "result" \notin corrupt
    /\ yieldDelivered' = DeliveryObserved
    /\ Finalized(AttemptOutcome(result))
    /\ UNCHANGED <<handles, intents, timedOutAt, resolved, dir, procs, expired>>

Quarantined ==
    /\ state' = "quarantined"
    /\ pc' = "idle"
    /\ UNCHANGED <<lease, handles, intents, timedOutAt, resolved, dir, memory, procs,
                   expired>>

QuarantineCorruptResult ==
    /\ CanReconcile
    /\ "result" \in corrupt
    /\ yieldDelivered' = DeliveryObserved
    /\ Quarantined

\* Mutant: an orphan's result is not looked at.
ReadNoResultOfOrphan ==
    /\ CanReconcile
    /\ result = "none" \/ state = "orphaned"
    /\ "result" \notin corrupt
    /\ yieldDelivered' = DeliveryObserved
    /\ cancelFile' \in Written(cancelFile, IF cancel # "no" THEN cancel ELSE cancelFile)
    /\ yieldFile' \in Written(yieldFile, yieldFile \/ (yieldRequested /\ state = "running"))
    /\ pc' = "inspect"
    /\ UNCHANGED <<state, lease, handles, intents, timedOutAt, resolved, launchFiles,
                   commitFiles, endFiles, memory, procs, expired>>

\* No result: committed intents are republished, then the state decides.
ReadNoResult ==
    /\ CanReconcile
    /\ result = "none" /\ "result" \notin corrupt
    /\ yieldDelivered' = DeliveryObserved
    /\ cancelFile' \in Written(cancelFile, IF cancel # "no" THEN cancel ELSE cancelFile)
    /\ yieldFile' \in Written(yieldFile, yieldFile \/ (yieldRequested /\ state = "running"))
    /\ pc' = "inspect"
    /\ UNCHANGED <<state, lease, handles, intents, timedOutAt, resolved, launchFiles,
                   commitFiles, endFiles, memory, procs, expired>>

InspectNothing ==
    /\ pc' = "idle"
    /\ UNCHANGED <<row, dir, memory, procs, expired>>

InspectEnds(outcome) ==
    /\ Finalized(outcome)
    /\ UNCHANGED <<handles, intents, marks, dir, procs, expired>>

InspectQuarantines ==
    Quarantined /\ yieldDelivered' = yieldDelivered

Inspecting(s) == pc = "inspect" /\ state = s /\ Prompt

------------------------------------------------------------------------------
(* reconcile_prepared, launch and authorize.                               *)

Launch ==
    /\ Inspecting("prepared")
    /\ ~spawned
    /\ spawned' = TRUE
    /\ runner' = [runner EXCEPT ![incarnation] = "spawned"]
    /\ pc' = "idle"
    /\ UNCHANGED <<row, dir, incarnation, orphanTermSent, sup, group, expired>>

LaunchFails ==
    /\ "launch_error" \in Inputs
    /\ Inspecting("prepared")
    /\ ~spawned
    /\ InspectEnds("failed")

QuarantineCorruptIdentity ==
    /\ Inspecting("prepared") /\ spawned
    /\ "identity" \in corrupt
    /\ InspectQuarantines

NoLiveRunnerAnnounced ==
    /\ Inspecting("prepared") /\ spawned
    /\ "identity" \notin corrupt
    /\ ~identity_alive(identity)

WaitForIdentity == NoLiveRunnerAnnounced /\ InspectNothing

\* runner_identity_grace_ms is over; without start no command can have run.
GiveUpOnRunner == NoLiveRunnerAnnounced /\ InspectEnds("failed")

Authorize ==
    /\ Inspecting("prepared") /\ spawned
    /\ "identity" \notin corrupt
    /\ identity_alive(identity)
    /\ cancel = "no"
    /\ state' = "authorized"
    /\ rowRunner' = identity
    /\ pc' = "publish_start"
    /\ UNCHANGED <<lease, rowExec, intents, marks, dir, memory, procs, expired>>

------------------------------------------------------------------------------
(* reconcile_authorized.                                                   *)

\* The runner died and start was never visible: no command.
FailUnpublished ==
    /\ Inspecting("authorized")
    /\ ~identity_alive(rowRunner) /\ ~start
    /\ InspectEnds("failed")

\* A missing start is published again, then exec.json is read.
ReadExec ==
    /\ Inspecting("authorized")
    /\ identity_alive(rowRunner) \/ start
    /\ start' \in Written(start, TRUE)
    /\ \/ /\ "exec" \notin corrupt /\ exec # NoRunner
          /\ state' = "running"
          /\ rowExec' = exec
       \/ /\ \/ "exec" \in corrupt
             \/ exec = NoRunner /\ ~identity_alive(rowRunner)
          /\ state' = "quarantined"
          /\ rowExec' = rowExec
       \/ /\ "exec" \notin corrupt /\ exec = NoRunner /\ identity_alive(rowRunner)
          /\ UNCHANGED <<state, rowExec>>
    /\ pc' = "idle"
    /\ UNCHANGED <<lease, rowRunner, intents, marks, identity, exec, intentFiles,
                   commitFiles, endFiles, memory, procs, expired>>

------------------------------------------------------------------------------
(* reconcile_running, reconcile_orphaned.                                  *)

RunningSupervised ==
    /\ Inspecting("running")
    /\ identity_alive(rowRunner)
    /\ InspectNothing

\* Mutant: a dead runner goes unnoticed.
OrphanUnnoticed ==
    /\ Inspecting("running")
    /\ ~identity_alive(rowRunner)
    /\ state' = state
    /\ pc' = "idle"
    /\ UNCHANGED <<lease, handles, intents, marks, dir, memory, procs, expired>>

Orphan ==
    /\ Inspecting("running")
    /\ ~identity_alive(rowRunner)
    /\ state' = "orphaned"
    /\ pc' = "idle"
    /\ UNCHANGED <<lease, handles, intents, marks, dir, memory, procs, expired>>

QuarantineCorruptTimeout ==
    /\ Inspecting("orphaned")
    /\ "timeout" \in corrupt
    /\ InspectQuarantines

TimeoutCommitted == timeoutFile \/ timedOutAt

\* Mutant: the group is not looked at.
DrainedUnproved ==
    /\ Inspecting("orphaned") /\ "timeout" \notin corrupt
    /\ InspectEnds(IF TimeoutCommitted THEN "failed"
                   ELSE IF cancel # "no" THEN "cancelled" ELSE "lost")

\* The group is proven empty; the exit status is unknown.
OrphanDrained ==
    /\ Inspecting("orphaned") /\ "timeout" \notin corrupt
    /\ ~group_possibly_alive(rowExec)
    /\ InspectEnds(IF TimeoutCommitted THEN "failed"
                   ELSE IF cancel # "no" THEN "cancelled" ELSE "lost")

\* killpg: SIGKILL ends the group at once, SIGTERM is up to the command.
Kill(r) ==
    /\ leader' = [leader EXCEPT ![r] = IF @ = "running" THEN "killed" ELSE @]
    /\ others' = [others EXCEPT ![r] = FALSE]

\* Without a runner the daemon enforces the limit and committed cancels.
OrphanSignalled(kill) ==
    LET due == expired \/ TimeoutCommitted
        classifies == TimeoutCommitted \/ (expired /\ (cancel = "no" \/ cancelLate))
        term == due \/ cancel # "no"
    IN  /\ Inspecting("orphaned") /\ "timeout" \notin corrupt
        /\ group_possibly_alive(rowExec)
        /\ kill => due \/ cancel = "force"
        /\ timedOutAt' = (timedOutAt \/ (due /\ classifies))
        /\ timeoutFile' \in Written(timeoutFile, timeoutFile \/ (due /\ classifies))
        /\ orphanTermSent' = (orphanTermSent \/ term)
        /\ signals' = signals \cup (IF term /\ ~orphanTermSent THEN {"term"} ELSE {})
                              \cup (IF kill THEN {"kill"} ELSE {})
        /\ IF kill THEN Kill(rowExec) ELSE UNCHANGED <<leader, others>>
        /\ pc' = "idle"
        /\ UNCHANGED <<state, lease, handles, intents, yieldDelivered, resolved,
                       launchFiles, intentFiles, yieldSentFile, endFiles, incarnation,
                       spawned, runner, sup, expired>>

QuarantineStands == Inspecting("quarantined") /\ InspectNothing

\* The tick of an attempt that has ended.
NothingToReconcile ==
    /\ pc \in {"idle", "tick"} /\ state \notin LiveAttemptStates
    /\ pc' = "idle"
    /\ UNCHANGED <<row, dir, memory, procs, expired>>

------------------------------------------------------------------------------
(* The runner: run, up to the exec handshake.                              *)

RunnerMoves(r, from, to) ==
    /\ runner[r] = from
    /\ runner' = [runner EXCEPT ![r] = to]

\* Mutant: nobody checks the flock.
TakeLockAnyway(r) ==
    /\ runner[r] = "spawned"
    /\ runner' = [runner EXCEPT ![r] = "locked"]
    /\ sup' = NoSup
    /\ UNCHANGED <<row, dir, daemon, group, expired>>

TakeLock(r) ==
    /\ runner[r] = "spawned"
    /\ runner' = [runner EXCEPT ![r] =
                     IF \E q \in Runners : HoldsLock(q) THEN "dead" ELSE "locked"]
    /\ sup' = IF \E q \in Runners : HoldsLock(q) THEN sup ELSE NoSup
    /\ UNCHANGED <<row, dir, daemon, group, expired>>

\* identity.json replaces that of a dead predecessor.
Announce(r) ==
    /\ identity' \in Written(identity, r)
    /\ RunnerMoves(r, "locked", IF identity' = r THEN "waiting" ELSE "dead")
    /\ corrupt' = IF identity' = r THEN corrupt \ {"identity"} ELSE corrupt
    /\ UNCHANGED <<row, start, exec, intentFiles, commitFiles, result, daemon, sup, group,
                   expired>>

\* publish_result refuses to replace a result; the runner exits either way.
PublishResult(r, res) ==
    /\ runner' = [runner EXCEPT ![r] = "dead"]
    /\ result' \in IF result = "none" THEN Written(result, res) ELSE {result}
    /\ UNCHANGED <<row, launchFiles, intentFiles, commitFiles, corrupt, daemon, sup, group,
                   expired>>

\* One iteration of the wait for authorization: cancel.json first, then start.
CancelledBeforeLaunch(r) ==
    /\ runner[r] = "waiting" /\ cancelFile # "no"
    /\ PublishResult(r, "cancelled")

NotCancelled(r) ==
    /\ cancelFile = "no"
    /\ RunnerMoves(r, "waiting", "checking")
    /\ UNCHANGED <<row, dir, daemon, sup, group, expired>>

ReadStart(r) ==
    /\ RunnerMoves(r, "checking", IF start THEN "forking" ELSE "waiting")
    /\ "start" \notin corrupt
    /\ UNCHANGED <<row, dir, daemon, sup, group, expired>>

ReadCorruptStart(r) ==
    /\ runner[r] = "checking" /\ "start" \in corrupt
    /\ PublishResult(r, "launch_failed")

AuthorizationTimeout(r) ==
    /\ runner[r] = "checking" /\ ~start
    /\ PublishResult(r, "authorization_timeout")

SpawnCommand(r) ==
    /\ RunnerMoves(r, "forking", "forked")
    /\ leader' = [leader EXCEPT ![r] = "running"]
    /\ UNCHANGED <<row, dir, daemon, sup, others, signals, expired>>

SpawnFails(r) ==
    /\ runner[r] = "forking"
    /\ PublishResult(r, "launch_failed")

\* exec.json is exclusive: a runner that finds one, or cannot write it, exits
\* and leaves its command behind.
PublishExec(r) ==
    /\ exec' \in IF exec = NoRunner THEN Written(exec, r) ELSE {exec}
    /\ RunnerMoves(r, "forked", IF exec' = r THEN "observe" ELSE "dead")
    /\ UNCHANGED <<row, identity, start, intentFiles, commitFiles, endFiles, daemon, sup,
                   group, expired>>

------------------------------------------------------------------------------
(* The supervision loop of run, one iteration in the order of the code:    *)
(* observe, control (deadline and cancel), yield (record, check, signal),  *)
(* kill.                                                                   *)

LeaderExited(r) == leader[r] # "running"

Empty(r) == LeaderExited(r) /\ ~others[r]

\* Mutant: the loop goes on after the second empty scan.
ObserveOn(r) ==
    /\ RunnerMoves(r, "observe", "control")
    /\ sup' = [sup EXCEPT !.exitSeen = LeaderExited(r),
                          !.empty = Empty(r),
                          !.scans = IF Empty(r) THEN sup.scans + 1 ELSE 0]
    /\ UNCHANGED <<row, dir, daemon, group, expired>>

Observe(r) ==
    /\ ~(Empty(r) /\ sup.scans >= 1)
    /\ RunnerMoves(r, "observe", "control")
    /\ sup' = [sup EXCEPT !.exitSeen = LeaderExited(r),
                          !.empty = Empty(r),
                          !.scans = IF Empty(r) THEN sup.scans + 1 ELSE 0]
    /\ UNCHANGED <<row, dir, daemon, group, expired>>

\* Mutant: the exit code alone makes a yield.
ConclusionByCode(r) ==
    CASE sup.timedOut -> "timed_out"
      [] sup.cancelled /\ ~sup.timedOut -> "cancelled"
      [] leader[r] = "yield_code" /\ ~sup.cancelled /\ ~sup.timedOut ->
            "yielded"
      [] OTHER -> IF leader[r] = "zero" THEN "exited_zero" ELSE "exited_nonzero"

\* What the loop concludes after the second empty scan.
Conclusion(r) ==
    CASE sup.timedOut -> "timed_out"
      [] sup.cancelled /\ ~sup.timedOut -> "cancelled"
      [] sup.yieldSent /\ leader[r] = "yield_code" /\ ~sup.cancelled /\ ~sup.timedOut ->
            "yielded"
      [] OTHER -> IF leader[r] = "zero" THEN "exited_zero" ELSE "exited_nonzero"

Conclude(r) ==
    /\ runner[r] = "observe"
    /\ Empty(r) /\ sup.scans >= 1
    /\ PublishResult(r, Conclusion(r))

\* The deadline fires for a group that was not empty when observed.
Fires == expired /\ ~sup.empty
Commits == Fires /\ (cancelFile = "no" \/ cancelLate)

\* Mutant: a forced cancel does not escalate.
ControlWithoutEscalation(r) ==
    LET timedOut == sup.timedOut \/ Commits
        asked == cancelFile # "no"
        term == ~sup.termSent /\ (Fires \/ asked)
    IN  /\ RunnerMoves(r, "control", "yield")
        /\ timeoutFile' \in Written(timeoutFile, timeoutFile \/ Commits)
        /\ sup' = [sup EXCEPT
                !.timedOut = timedOut,
                !.cancelled = @ \/ (asked /\ ~timedOut /\ ~sup.exitSeen),
                !.termSent = @ \/ term,
                !.killArmed = @ \/ (~sup.killSent /\ Fires)]
        /\ signals' = signals \cup (IF term THEN {"term"} ELSE {})
        /\ UNCHANGED <<row, launchFiles, intentFiles, yieldSentFile, endFiles, daemon,
                       leader, others, expired>>

Control(r) ==
    LET timedOut == sup.timedOut \/ Commits
        asked == cancelFile # "no"
        term == ~sup.termSent /\ (Fires \/ asked)
    IN  /\ RunnerMoves(r, "control", "yield")
        /\ timeoutFile' \in Written(timeoutFile, timeoutFile \/ Commits)
        /\ sup' = [sup EXCEPT
                !.timedOut = timedOut,
                !.cancelled = @ \/ (asked /\ ~timedOut /\ ~sup.exitSeen),
                !.termSent = @ \/ term,
                !.killArmed = @ \/ (~sup.killSent /\ (Fires \/ cancelFile = "force"))]
        /\ signals' = signals \cup (IF term THEN {"term"} ELSE {})
        /\ UNCHANGED <<row, launchFiles, intentFiles, yieldSentFile, endFiles, daemon,
                       leader, others, expired>>

\* The runner dies after committing to a timeout and before the signal.
DieCommitted(r) ==
    /\ "runner_crash" \in Inputs
    /\ Commits /\ ~sup.timedOut
    /\ RunnerMoves(r, "control", "dead")
    /\ timeoutFile' = TRUE
    /\ UNCHANGED <<row, launchFiles, intentFiles, yieldSentFile, endFiles, daemon, sup,
                   group, expired>>

\* Mutant: termination under way is ignored.
RecordYieldAnyway(r) ==
    LET wanted == yieldFile /\ ~sup.yieldSent /\ ~sup.exitSeen
    IN  /\ runner[r] = "yield"
        /\ yieldSentFile' \in (IF wanted THEN Written(yieldSentFile, TRUE) ELSE {yieldSentFile})
        /\ runner' = [runner EXCEPT ![r] = IF wanted /\ yieldSentFile' THEN "peek" ELSE "kill"]
        /\ UNCHANGED <<row, launchFiles, intentFiles, timeoutFile, endFiles, daemon, sup,
                       group, expired>>

\* yield_sent.json is written before the signal.
RecordYield(r) ==
    LET wanted == yieldFile /\ ~sup.yieldSent /\ ~sup.termSent /\ ~sup.exitSeen
    IN  /\ runner[r] = "yield"
        /\ yieldSentFile' \in (IF wanted THEN Written(yieldSentFile, TRUE) ELSE {yieldSentFile})
        /\ runner' = [runner EXCEPT ![r] = IF wanted /\ yieldSentFile' THEN "peek" ELSE "kill"]
        /\ UNCHANGED <<row, launchFiles, intentFiles, timeoutFile, endFiles, daemon, sup,
                       group, expired>>

PeekBeforeYield(r) ==
    /\ RunnerMoves(r, "peek", IF LeaderExited(r) THEN "kill" ELSE "signal")
    /\ UNCHANGED <<row, dir, daemon, sup, group, expired>>

\* The leader may have exited since the peek: the one window left.
SignalYield(r) ==
    /\ RunnerMoves(r, "signal", "kill")
    /\ sup' = [sup EXCEPT !.yieldSent = TRUE]
    /\ signals' = IF LeaderExited(r) THEN signals ELSE signals \cup {"yield"}
    /\ UNCHANGED <<row, dir, daemon, leader, others, expired>>

KillNow(r) ==
    /\ sup.killArmed
    /\ RunnerMoves(r, "kill", "observe")
    /\ sup' = [sup EXCEPT !.killArmed = FALSE, !.killSent = TRUE]
    /\ signals' = signals \cup {"kill"}
    /\ Kill(r)
    /\ UNCHANGED <<row, dir, daemon, expired>>

\* No kill is armed, or its grace is not over.
Sleep(r) ==
    /\ RunnerMoves(r, "kill", "observe")
    /\ UNCHANGED <<row, dir, daemon, sup, group, expired>>

------------------------------------------------------------------------------
(* The command, failures and the clock.                                    *)

CommandExits(r, code) ==
    /\ leader[r] = "running"
    /\ leader' = [leader EXCEPT ![r] = code]
    /\ UNCHANGED <<row, dir, daemon, runner, sup, others, signals, expired>>

Forks(r) ==
    /\ "fork" \in Inputs
    /\ leader[r] = "running" /\ ~others[r]
    /\ others' = [others EXCEPT ![r] = TRUE]
    /\ UNCHANGED <<row, dir, daemon, runner, sup, leader, signals, expired>>

OthersExit(r) ==
    /\ others[r]
    /\ others' = [others EXCEPT ![r] = FALSE]
    /\ UNCHANGED <<row, dir, daemon, runner, sup, leader, signals, expired>>

RunnerDies(r) ==
    /\ "runner_crash" \in Inputs
    /\ runner[r] \notin {"unborn", "dead"}
    /\ runner' = [runner EXCEPT ![r] = "dead"]
    /\ UNCHANGED <<row, dir, daemon, sup, group, expired>>

\* A new daemon process: only the tables and the files survive the old one.
NewDaemon ==
    /\ incarnation <= MaxRestarts
    /\ incarnation' = incarnation + 1
    /\ pc' = "tick"
    /\ spawned' = FALSE
    /\ orphanTermSent' = FALSE

Restart ==
    /\ "restart" \in Inputs
    /\ NewDaemon
    /\ UNCHANGED <<row, dir, procs, expired>>

Reboot ==
    /\ "reboot" \in Inputs
    /\ NewDaemon
    /\ runner' = [r \in Runners |-> IF runner[r] = "unborn" THEN "unborn" ELSE "dead"]
    /\ leader' = [r \in Runners |-> IF leader[r] = "running" THEN "killed" ELSE leader[r]]
    /\ others' = [r \in Runners |-> FALSE]
    /\ UNCHANGED <<row, dir, sup, signals, expired>>

Exists(f) ==
    CASE f = "identity" -> identity # NoRunner
      [] f = "start" -> start
      [] f = "exec" -> exec # NoRunner
      [] f = "timeout" -> timeoutFile
      [] f = "result" -> result # "none"

\* At most one file is damaged at a time.
Damage(f) ==
    /\ "corrupt" \in Inputs
    /\ corrupt = {}
    /\ Exists(f)
    /\ corrupt' = corrupt \cup {f}
    /\ UNCHANGED <<row, launchFiles, intentFiles, commitFiles, result, daemon, procs,
                   expired>>

DeadlinePasses ==
    /\ "limit" \in Inputs
    /\ ~expired
    /\ \E r \in Runners : leader[r] # "none"
    /\ expired' = TRUE
    /\ UNCHANGED <<row, dir, daemon, procs>>

------------------------------------------------------------------------------
Requests ==
    \/ \E force \in BOOLEAN : Cancel(force)
    \/ YieldJob
    \/ \E outcome \in {"lost", "cancelled"} : RecoverResolve(outcome)

\* Every coordinator step but the ones that wait for a timer.
Coordinator ==
    \/ PublishCancel \/ PublishYield \/ PublishStart
    \/ FinalizeFromResult \/ QuarantineCorruptResult \/ ReadNoResult
    \/ Launch \/ LaunchFails
    \/ QuarantineCorruptIdentity \/ WaitForIdentity \/ Authorize
    \/ FailUnpublished \/ ReadExec
    \/ RunningSupervised \/ Orphan
    \/ QuarantineCorruptTimeout \/ OrphanDrained \/ OrphanSignalled(FALSE)
    \/ QuarantineStands \/ NothingToReconcile

RunnerStep(r) ==
    \/ TakeLock(r) \/ Announce(r)
    \/ CancelledBeforeLaunch(r) \/ NotCancelled(r) \/ ReadStart(r) \/ ReadCorruptStart(r)
    \/ SpawnCommand(r) \/ SpawnFails(r) \/ PublishExec(r)
    \/ Observe(r) \/ Conclude(r) \/ Control(r)
    \/ RecordYield(r) \/ PeekBeforeYield(r) \/ SignalYield(r) \/ Sleep(r)

LeaderExits(r) == \E code \in {"zero", "nonzero", "yield_code"} : CommandExits(r, code)

Failures ==
    \/ \E r \in Runners : RunnerDies(r) \/ DieCommitted(r)
    \/ Restart
    \/ Reboot
    \/ \E f \in {"identity", "start", "exec", "timeout", "result"} : Damage(f)

Next ==
    \/ Requests
    \/ Coordinator
    \/ GiveUpOnRunner
    \/ OrphanSignalled(TRUE)
    \/ \E r \in Runners :
        RunnerStep(r) \/ AuthorizationTimeout(r) \/ KillNow(r)
            \/ LeaderExits(r) \/ OthersExit(r) \/ Forks(r)
    \/ Failures
    \/ DeadlinePasses

Spec == Init /\ [][Next]_vars

\* The coordinator ticks, a process that is not dead runs, and a timer that
\* stays due eventually fires.  Commands need not ever exit by themselves.
Fairness ==
    /\ WF_vars(Coordinator)
    /\ SF_vars(GiveUpOnRunner)
    /\ SF_vars(OrphanSignalled(TRUE))
    /\ \A r \in Runners : WF_vars(RunnerStep(r)) /\ SF_vars(KillNow(r))

FairSpec == Spec /\ Fairness

------------------------------------------------------------------------------
(* Properties.                                                             *)

RunnerStates == {"unborn", "spawned", "locked", "waiting", "checking", "forking", "forked",
                 "observe", "control", "yield", "peek", "signal", "kill", "dead"}
Results == {"exited_zero", "exited_nonzero", "launch_failed", "authorization_timeout",
            "timed_out", "cancelled", "yielded"}

\* The columns, files and locals keep their domains.
TypeOK ==
    /\ state \in LiveAttemptStates \cup EndedAttemptStates
    /\ lease \in BOOLEAN
    /\ {rowRunner, rowExec, identity, exec} \subseteq Runners \cup {NoRunner}
    /\ {cancel, cancelFile} \subseteq {"no", "soft", "force"}
    /\ {cancelLate, yieldRequested, yieldDelivered, timedOutAt, start, yieldFile,
         yieldSentFile, timeoutFile, spawned, orphanTermSent, expired} \subseteq BOOLEAN
    /\ resolved \in {"no", "checked", "blind"}
    /\ result \in Results \cup {"none"}
    /\ corrupt \subseteq {"identity", "start", "exec", "timeout", "result"}
    /\ pc \in {"idle", "tick", "inspect", "publish_cancel", "publish_yield", "publish_start"}
    /\ incarnation \in Runners
    /\ runner \in [Runners -> RunnerStates]
    /\ sup \in [exitSeen : BOOLEAN, empty : BOOLEAN, scans : 0 .. 1, termSent : BOOLEAN,
                timedOut : BOOLEAN, cancelled : BOOLEAN, yieldSent : BOOLEAN,
                killArmed : BOOLEAN, killSent : BOOLEAN]
    /\ leader \in [Runners -> {"none", "running", "zero", "nonzero", "yield_code", "killed"}]
    /\ others \in [Runners -> BOOLEAN]
    /\ signals \subseteq {"term", "yield", "kill"}

\* The run lease is held while any process of the command lives, through
\* crashes of daemon and runner, unless an operator resolved an attempt whose
\* process group was never recorded.
LeaseCoversCommand ==
    (\E r \in Runners : GroupAlive(r)) => lease \/ resolved = "blind"

\* The command is spawned at most once, however often the daemon restarts and
\* respawns the runner of a prepared attempt: the flock makes that race safe.
CommandRunsOnce == Cardinality({r \in Runners : leader[r] # "none"}) <= 1

Ended(r) == leader[r] # "none" /\ ~GroupAlive(r)

\* The recorded outcome is what happened: success means the group exited and
\* its leader with zero, a yield means the declared code after a committed
\* request that was recorded as sent, a cancel was asked for, and lost is
\* never said of an attempt whose cancel or timeout was committed.
OutcomeIsTrue ==
    /\ state = "succeeded" => \E r \in Runners : Ended(r) /\ leader[r] = "zero"
    /\ state = "yielded" =>
            /\ yieldRequested /\ yieldSentFile
            /\ \E r \in Runners : Ended(r) /\ leader[r] = "yield_code"
    /\ resolved = "no" =>
            /\ state = "cancelled" => cancel # "no"
            /\ state = "lost" => cancel = "no" /\ ~timeoutFile

\* Signals are deliberate: SIGTERM only for a committed cancel or an expired
\* limit, SIGKILL only if forced or expired, and the yield signal only on
\* request, only to a command nobody has begun to terminate.
SignalsAreDeliberate ==
    [][/\ "term" \in signals' \ signals => cancel # "no" \/ expired
       /\ "kill" \in signals' \ signals => cancel = "force" \/ expired
       /\ "yield" \in signals' \ signals => yieldRequested /\ "term" \notin signals]_vars

\* A valid result that is on disk when the coordinator ends the attempt by
\* itself is the outcome it records.  The exception is an authorized attempt
\* whose start could not be written: a result that its runner publishes between
\* the coordinator's read of result.json and reconcile_authorized's verdict on
\* the dead runner is lost, but no command ran.
ResultDecides ==
    [][(/\ state \in LiveAttemptStates /\ state' \in EndedAttemptStates
        /\ result # "none" /\ corrupt = {}
        /\ state = "authorized" => start
        /\ resolved' = "no" /\ cancel' = cancel)
            => state' = AttemptOutcome(result)]_vars

\* The protocol implements the lifecycle the queue is built on.
Lifecycle == INSTANCE AttemptLifecycle WITH cancelRequested <- cancel # "no"

\* Every step of the row is one Queue allows for a live attempt.
ImplementsLifecycle == Lifecycle!Spec

CommandsEnd == \A r \in Runners : WF_vars(LeaderExits(r)) /\ WF_vars(OthersExit(r))

\* If commands end, so does the attempt: it is finalized, or it waits for the
\* operator in quarantine.
AttemptEnds == CommandsEnd => <>(state \in EndedAttemptStates \/ state = "quarantined")

\* A forced cancel ends the attempt although the command ignores SIGTERM,
\* whoever dies: the runner escalates, or the daemon in its place.
ForcedCancelEnds ==
    cancel = "force" ~> state \in EndedAttemptStates \/ state = "quarantined"
==============================================================================
