--------------------------- MODULE AttemptProofs ---------------------------
(***************************************************************************)
(* What TLAPS proves about Attempt for any number of daemon restarts and   *)
(* any set of requests and failures, when a spawned runner reaches its     *)
(* flock before the coordinator's next step (SlowStart is FALSE; a slow    *)
(* start really runs the command twice).  The argument: authorize records  *)
(* a runner that holds the flock, so from then on it is the only one that  *)
(* can fork; a result is only published when its runner is gone and its    *)
(* group is empty; and no way of ending the attempt leaves a runner behind *)
(* that could still fork, except the operator's resolution of an attempt   *)
(* without an exec handshake.                                              *)
(***************************************************************************)
EXTENDS Attempt, FiniteSetTheorems, TLAPS

------------------------------------------------------------------------------
(* The types, in the pieces the provers take one at a time.                *)

RowFlags ==
    /\ lease \in BOOLEAN /\ cancelLate \in BOOLEAN /\ yieldRequested \in BOOLEAN
    /\ yieldDelivered \in BOOLEAN /\ timedOutAt \in BOOLEAN

FileFlags ==
    /\ start \in BOOLEAN /\ yieldFile \in BOOLEAN
    /\ yieldSentFile \in BOOLEAN /\ timeoutFile \in BOOLEAN

OtherFlags == spawned \in BOOLEAN /\ orphanTermSent \in BOOLEAN /\ expired \in BOOLEAN

Flags == RowFlags /\ FileFlags /\ OtherFlags

SupType == [exitSeen : BOOLEAN, empty : BOOLEAN, scans : 0 .. 1, termSent : BOOLEAN,
            timedOut : BOOLEAN, cancelled : BOOLEAN, yieldSent : BOOLEAN,
            killArmed : BOOLEAN, killSent : BOOLEAN]

Locals == sup \in SupType

Columns ==
    /\ state \in LiveAttemptStates \cup EndedAttemptStates
    /\ cancel \in {"no", "soft", "force"} /\ cancelFile \in {"no", "soft", "force"}
    /\ resolved \in {"no", "checked", "blind"}
    /\ result \in Results \cup {"none"}
    /\ pc \in {"idle", "tick", "inspect", "publish_cancel", "publish_yield", "publish_start"}

Names ==
    /\ rowRunner \in Runners \cup {NoRunner} /\ rowExec \in Runners \cup {NoRunner}
    /\ identity \in Runners \cup {NoRunner} /\ exec \in Runners \cup {NoRunner}
    /\ incarnation \in Runners

Sets ==
    /\ corrupt \subseteq {"identity", "start", "exec", "timeout", "result"}
    /\ signals \subseteq {"term", "yield", "kill"}

Processes ==
    /\ runner \in [Runners -> RunnerStates]
    /\ leader \in [Runners -> {"none", "running", "zero", "nonzero", "yield_code", "killed"}]
    /\ others \in [Runners -> BOOLEAN]

Domains == Columns /\ Names /\ Sets /\ Processes

Types == Flags /\ Locals /\ Domains

\* The pieces are the type invariant of the attempt's row, directory and
\* processes.
LEMMA TypesAreTypeOK == TypeOK <=> Types
  BY DEF TypeOK, Types, Flags, RowFlags, FileFlags, OtherFlags, Locals, SupType, Domains,
    Columns, Names, Sets, Processes

------------------------------------------------------------------------------
(* The inductive invariant.                                                *)

PreFork == {"unborn", "spawned", "locked", "waiting", "checking", "forking"}
Supervising == {"observe", "control", "yield", "peek", "signal", "kill"}
Gone == {"unborn", "dead"}

\* The row is ahead of the files: a handle it records is the one on disk, and
\* start is published only after the runner is recorded.
RowInv ==
    /\ lease <=> state \in LiveAttemptStates
    /\ state = "prepared" =>
        rowRunner = NoRunner /\ rowExec = NoRunner /\ cancel = "no"
    /\ state \in {"authorized", "running", "orphaned"} => rowRunner # NoRunner
    /\ state \in {"running", "orphaned"} => rowExec # NoRunner
    /\ start \/ pc = "publish_start" => rowRunner # NoRunner
    /\ rowExec # NoRunner => rowExec = exec
    /\ exec # NoRunner => exec = rowRunner /\ runner[exec] \notin PreFork

\* One runner owns the flock, and once one is recorded no other is left.
SoleInv ==
    /\ \A q, r \in Runners : HoldsLock(q) /\ HoldsLock(r) => q = r
    /\ \A r \in Runners : r > incarnation => runner[r] = "unborn"
    /\ state = "prepared" /\ ~spawned => runner[incarnation] = "unborn"
    /\ state = "prepared" /\ pc = "inspect" => \A r \in Runners : runner[r] # "spawned"
    /\ identity # NoRunner => runner[identity] \notin {"unborn", "spawned", "locked"}
    /\ rowRunner # NoRunner =>
        /\ runner[rowRunner] \notin {"unborn", "spawned", "locked"}
        /\ \A r \in Runners : r # rowRunner => runner[r] \in Gone

\* No process of the command lives, and no runner can still fork one.
Quiet ==
    /\ \A r \in Runners : ~GroupAlive(r)
    /\ rowRunner # NoRunner => runner[rowRunner] \notin PreFork

\* Only the recorded runner ever forked, and only after start; a result, and
\* every end but a blind resolution, leaves nothing that could live or fork.
CommandInv ==
    /\ \A r \in Runners :
        /\ runner[r] \in PreFork => leader[r] = "none"
        /\ leader[r] # "none" => start /\ r = rowRunner
        /\ others[r] => leader[r] # "none"
        /\ runner[r] \in {"forking", "forked"} \cup Supervising => start
    /\ state \in EndedAttemptStates /\ resolved # "blind" => Quiet
    /\ result # "none" =>
        /\ \A r \in Runners : ~GroupAlive(r)
        /\ rowRunner # NoRunner => runner[rowRunner] = "dead"
    /\ state = "prepared" /\ pc = "inspect" /\ result # "none" =>
        \A r \in Runners : runner[r] \in Gone
    /\ state = "orphaned" => runner[rowRunner] = "dead"

\* What is on disk or in the runner's memory was committed to the row before.
IntentInv ==
    /\ cancelFile # "no" => cancel # "no"
    /\ cancelFile = "force" => cancel = "force"
    /\ yieldFile \/ pc = "publish_yield" => yieldRequested
    /\ sup.cancelled => cancel # "no"
    /\ sup.yieldSent => yieldRequested /\ yieldSentFile
    /\ \A r \in Runners : runner[r] \in {"peek", "signal"} =>
            yieldRequested /\ yieldSentFile /\ ~sup.termSent
    /\ timeoutFile \/ timedOutAt => expired
    /\ sup.killArmed => expired \/ cancel = "force"
    /\ "term" \in signals =>
            rowRunner # NoRunner /\ (sup.termSent \/ runner[rowRunner] = "dead")

\* A published result is true of the command it reports on.
OutcomeInv ==
    /\ result = "exited_zero" => \E r \in Runners : Ended(r) /\ leader[r] = "zero"
    /\ result = "yielded" =>
            /\ yieldRequested /\ yieldSentFile
            /\ \E r \in Runners : Ended(r) /\ leader[r] = "yield_code"
    /\ result = "cancelled" => cancel # "no"
    /\ state = "prepared" => result \in {"none", "authorization_timeout"}
    /\ "start" \in corrupt => start
    /\ state = "orphaned" /\ pc = "inspect" => result = "none"
    /\ state = "lost" /\ resolved = "no" =>
        rowRunner # NoRunner /\ runner[rowRunner] = "dead"

Inv == Types /\ RowInv /\ SoleInv /\ CommandInv /\ IntentInv /\ OutcomeInv /\ OutcomeIsTrue

------------------------------------------------------------------------------
(* Facts about the helpers, and the cases of a step.                       *)

\* Runners are numbered from one; zero names none.
LEMMA RunnerNames == Runners \subseteq Nat /\ NoRunner \notin Runners
  BY AttemptAssumption DEF Runners, NoRunner

\* The bound on restarts keeps the next daemon's runner in Runners.
LEMMA NextRunner ==
  incarnation \in Runners /\ incarnation <= MaxRestarts => incarnation + 1 \in Runners
  BY AttemptAssumption DEF Runners

\* A result never says lost: only a drained orphan or the operator does.
LEMMA OutcomeEnds ==
  ASSUME NEW res \in Results
  PROVE  AttemptOutcome(res) \in EndedAttemptStates \ {"lost"}
  BY DEF Results, AttemptOutcome, EndedAttemptStates

Cancels == \E force \in BOOLEAN : Cancel(force)
Resolves == \E outcome \in {"lost", "cancelled"} : RecoverResolve(outcome)
OrphanSignals == \E kill \in BOOLEAN : OrphanSignalled(kill)
Damages == \E f \in {"identity", "start", "exec", "timeout", "result"} : Damage(f)

\* Every step is of the coordinator, of one runner, of its command, or a failure.
LEMMA Cases ==
  ASSUME [Next]_vars
  PROVE  \/ Cancels \/ YieldJob \/ Resolves \/ PublishCancel \/ PublishYield \/ PublishStart
         \/ FinalizeFromResult \/ QuarantineCorruptResult \/ ReadNoResult
         \/ Launch \/ LaunchFails \/ QuarantineCorruptIdentity \/ WaitForIdentity
         \/ GiveUpOnRunner \/ Authorize \/ FailUnpublished \/ ReadExec
         \/ RunningSupervised \/ Orphan \/ QuarantineCorruptTimeout \/ OrphanDrained
         \/ OrphanSignals \/ QuarantineStands \/ NothingToReconcile
         \/ Restart \/ Reboot \/ Damages \/ DeadlinePasses \/ UNCHANGED vars
         \/ \E r \in Runners :
                \/ TakeLock(r) \/ Announce(r) \/ NotCancelled(r) \/ ReadStart(r)
                \/ SpawnCommand(r) \/ PublishExec(r) \/ CancelledBeforeLaunch(r)
                \/ ReadCorruptStart(r) \/ AuthorizationTimeout(r) \/ SpawnFails(r)
                \/ Observe(r) \/ Conclude(r) \/ Control(r) \/ RecordYield(r)
                \/ PeekBeforeYield(r) \/ SignalYield(r) \/ KillNow(r) \/ Sleep(r)
                \/ LeaderExits(r) \/ OthersExit(r) \/ Forks(r)
                \/ RunnerDies(r) \/ DieCommitted(r)
  BY Zenon DEF Next, Requests, Coordinator, RunnerStep, Failures, Cancels, Resolves, OrphanSignals,
    Damages

------------------------------------------------------------------------------
(* Every step preserves every part of the invariant.                       *)

\* What one iteration of the runner's loop assigns of its locals after a scan of
\* the process group, and after it has read the control files.
LEMMA ScanKeepsLocals ==
  ASSUME Locals, NEW a \in BOOLEAN, NEW b \in BOOLEAN, NEW n \in 0 .. 1
  PROVE  [sup EXCEPT !.exitSeen = a, !.empty = b, !.scans = n] \in SupType
  BY Zenon DEF Locals, SupType

LEMMA ControlKeepsLocals ==
  ASSUME Locals, NEW a \in BOOLEAN, NEW b \in BOOLEAN, NEW c \in BOOLEAN, NEW d \in BOOLEAN
  PROVE  [sup EXCEPT !.timedOut = a, !.cancelled = @ \/ b, !.termSent = @ \/ c,
                     !.killArmed = @ \/ d] \in SupType
  BY ZenonT(30) DEF Locals, SupType

\* Every step keeps the types of the row, the directory and the processes.
LEMMA TypesStep ==
  ASSUME Inv
  PROVE  [Next]_vars => Types'
  <1> USE DEF Inv, Types, Flags, Domains
  <1> USE DEF row, dir, daemon, procs, handles, intents, marks, launchFiles,
    intentFiles, commitFiles, endFiles, memory, group
  <1>1. ASSUME Cancels \/ YieldJob \/ Resolves \/ PublishCancel \/ PublishYield \/
        PublishStart \/ FinalizeFromResult \/ QuarantineCorruptResult \/ ReadNoResult \/
        Launch \/ LaunchFails \/ QuarantineCorruptIdentity \/ WaitForIdentity \/
        GiveUpOnRunner \/ Authorize PROVE Types'
    <2> USE DEF Cancels, Cancel, YieldJob, Resolves, RecoverResolve,
      group_possibly_alive, PublishCancel, Written, PublishYield, PublishStart,
      FinalizeFromResult, CanReconcile, Finalized, DeliveryObserved,
      QuarantineCorruptResult, Quarantined, ReadNoResult, Launch, Inspecting,
      LaunchFails, InspectEnds, QuarantineCorruptIdentity, InspectQuarantines,
      WaitForIdentity, NoLiveRunnerAnnounced, InspectNothing, GiveUpOnRunner, Authorize,
      identity_alive
    <2>1. RowFlags'
      BY <1>1, ZenonT(30) DEF RowFlags, OtherFlags
    <2>2. FileFlags'
      BY <1>1, ZenonT(30) DEF FileFlags, RowFlags
    <2>3. OtherFlags'
      BY <1>1, ZenonT(30) DEF OtherFlags
    <2>4. Columns'
      BY <1>1, OutcomeEnds, ZenonT(30) DEF Columns, Results, LiveAttemptStates, EndedAttemptStates,
        AdvancingStates
    <2>5. Names'
      BY <1>1, ZenonT(30) DEF Names
    <2>6. Sets'
      BY <1>1, ZenonT(30) DEF Sets
    <2>7. Processes'
      BY <1>1, ZenonT(30) DEF Names, Processes, RunnerStates
    <2>8. Locals'
      BY <1>1, ZenonT(30) DEF Locals, SupType
    <2>. QED
      BY <2>1, <2>2, <2>3, <2>4, <2>5, <2>6, <2>7, <2>8
  <1>2. ASSUME FailUnpublished \/ ReadExec \/ RunningSupervised \/ Orphan \/
        QuarantineCorruptTimeout \/ OrphanDrained \/ OrphanSignals \/ QuarantineStands
        \/ NothingToReconcile \/ Restart \/ Reboot \/ Damages \/ DeadlinePasses \/
        UNCHANGED vars PROVE Types'
    <2> USE DEF FailUnpublished, Inspecting, InspectEnds, Finalized, identity_alive,
      ReadExec, Written, RunningSupervised, InspectNothing, Orphan,
      QuarantineCorruptTimeout, InspectQuarantines, Quarantined, OrphanDrained,
      TimeoutCommitted, group_possibly_alive, OrphanSignals, OrphanSignalled, Kill,
      QuarantineStands, NothingToReconcile, Restart, NewDaemon, Reboot, Damages, Damage,
      Exists, DeadlinePasses, vars
    <2>1. RowFlags'
      BY <1>2, ZenonT(30) DEF RowFlags, OtherFlags
    <2>2. FileFlags'
      BY <1>2, ZenonT(30) DEF FileFlags, RowFlags
    <2>3. OtherFlags'
      BY <1>2, ZenonT(30) DEF OtherFlags
    <2>4. Columns'
      BY <1>2, ZenonT(30) DEF Columns, Results, LiveAttemptStates, EndedAttemptStates,
        AdvancingStates
    <2>5. Names'
      BY <1>2, NextRunner, ZenonT(30) DEF Names
    <2>6. Sets'
      BY <1>2, ZenonT(30) DEF Sets
    <2>7. Processes'
      BY <1>2, ZenonT(30) DEF Names, Processes, RunnerStates
    <2>8. Locals'
      BY <1>2, Zenon DEF Locals, SupType
    <2>. QED
      BY <2>1, <2>2, <2>3, <2>4, <2>5, <2>6, <2>7, <2>8
  <1>3. ASSUME NEW r \in Runners, TakeLock(r) \/ Announce(r) \/ NotCancelled(r) \/
        ReadStart(r) \/ SpawnCommand(r) \/ PublishExec(r) \/ CancelledBeforeLaunch(r) \/
        ReadCorruptStart(r) \/ AuthorizationTimeout(r) \/ SpawnFails(r) \/ Conclude(r)
        \/ Observe(r) \/ Control(r) \/ RecordYield(r) \/ PeekBeforeYield(r) \/
        SignalYield(r) \/ KillNow(r) \/ Sleep(r) \/ LeaderExits(r) \/ OthersExit(r) \/
        Forks(r) \/ RunnerDies(r) \/ DieCommitted(r) PROVE Types'
    <2> USE DEF TakeLock, NoSup, Announce, RunnerMoves, Written, NotCancelled,
      ReadStart, SpawnCommand, PublishExec, CancelledBeforeLaunch, PublishResult,
      ReadCorruptStart, AuthorizationTimeout, SpawnFails, Conclude, Conclusion, Empty,
      LeaderExited, Observe, Control, Fires, Commits, RecordYield, PeekBeforeYield,
      SignalYield, KillNow, Kill, Sleep, LeaderExits, CommandExits, OthersExit, Forks,
      RunnerDies, DieCommitted
    <2>1. RowFlags'
      BY <1>3, ZenonT(30) DEF RowFlags, OtherFlags
    <2>2. FileFlags'
      BY <1>3, ZenonT(30) DEF FileFlags, RowFlags
    <2>3. OtherFlags'
      BY <1>3, ZenonT(30) DEF OtherFlags
    <2>4. Columns'
      BY <1>3, ZenonT(30) DEF Columns, Results, LiveAttemptStates, EndedAttemptStates,
        AdvancingStates
    <2>5. Names'
      BY <1>3, ZenonT(30) DEF Names
    <2>6. Sets'
      BY <1>3, ZenonT(30) DEF Sets
    <2>7. Processes'
      BY <1>3, ZenonT(30) DEF Names, Processes, RunnerStates
    <2>8. Locals'
      <3>1. CASE TakeLock(r)
        BY <3>1, SMTT(30) DEF Locals, SupType
      <3>2. CASE Observe(r)
        <4>1. (IF Empty(r) THEN sup.scans + 1 ELSE 0) \in 0 .. 1
          BY <3>2 DEF Locals, SupType
        <4>. QED
          BY <3>2, <4>1, ScanKeepsLocals, Zenon DEF Locals
      <3>3. CASE Control(r)
        <4> DEFINE Changed(a, b, c, d) ==
                        [sup EXCEPT !.timedOut = a, !.cancelled = @ \/ b,
                                    !.termSent = @ \/ c, !.killArmed = @ \/ d]
                   timedOut == sup.timedOut \/ Commits
                   asked == cancelFile # "no" /\ ~timedOut /\ ~sup.exitSeen
                   term == ~sup.termSent /\ (Fires \/ cancelFile # "no")
                   kill == ~sup.killSent /\ (Fires \/ cancelFile = "force")
        <4>1. timedOut \in BOOLEAN /\ asked \in BOOLEAN /\ term \in BOOLEAN /\ kill \in BOOLEAN
          OBVIOUS
        <4>2. sup' = Changed(timedOut, asked, term, kill)
          BY <3>3, Zenon
        <4>3. \A a, b, c, d \in BOOLEAN : Changed(a, b, c, d) \in SupType
          BY ControlKeepsLocals, Zenon
        <4> HIDE DEF timedOut, asked, term, kill, Changed
        <4>. QED
          BY <4>1, <4>2, <4>3 DEF Locals
      <3>4. CASE SignalYield(r) \/ KillNow(r)
        BY <3>4, ZenonT(30) DEF Locals, SupType
      <3>. QED
        BY <1>3, <3>1, <3>2, <3>3, <3>4, ZenonT(30) DEF Locals
    <2>. QED
      BY <2>1, <2>2, <2>3, <2>4, <2>5, <2>6, <2>7, <2>8, ZenonT(30)
  <1>. QED
    BY Cases, <1>1, <1>2, <1>3

\* The coordinator commits before it publishes: the row is never behind the files
\* (authorize, reconcile_authorized).
LEMMA RowStep ==
  ASSUME ~SlowStart, Inv
  PROVE  [Next]_vars => RowInv'
  <1> USE DEF Inv, Types, Domains, Columns, Names, Processes, Flags, RowFlags,
    FileFlags, OtherFlags, LiveAttemptStates, EndedAttemptStates, AdvancingStates,
    RowInv, PreFork
  <1> USE DEF row, dir, daemon, procs, handles, intents, marks, launchFiles,
    intentFiles, commitFiles, endFiles, memory, group
  <1>1. ASSUME Cancels \/ YieldJob \/ Resolves \/ PublishCancel
      PROVE RowInv'
    BY <1>1, RunnerNames DEF Cancels, Cancel, YieldJob, Resolves, RecoverResolve,
      group_possibly_alive, PublishCancel, Written
  <1>2. ASSUME PublishYield
      PROVE RowInv'
    BY <1>2, RunnerNames DEF PublishYield, Written
  <1>3. ASSUME PublishStart
      PROVE RowInv'
    BY <1>3, RunnerNames, Zenon DEF PublishStart, Written
  <1>4. ASSUME FinalizeFromResult \/ QuarantineCorruptResult \/ ReadNoResult \/ Launch
      PROVE RowInv'
    BY <1>4, RunnerNames, OutcomeEnds, SMTT(30) DEF FinalizeFromResult, CanReconcile, Finalized,
      DeliveryObserved, QuarantineCorruptResult, Quarantined, ReadNoResult, Written,
      Launch, Inspecting
  <1>5. ASSUME Authorize \/ WaitForIdentity \/ LaunchFails \/ GiveUpOnRunner
      PROVE RowInv'
    BY <1>5, RunnerNames DEF Authorize, Inspecting, identity_alive, WaitForIdentity,
      NoLiveRunnerAnnounced, InspectNothing, LaunchFails, InspectEnds, Finalized,
      GiveUpOnRunner
  <1>6. ASSUME QuarantineCorruptIdentity \/ FailUnpublished
      PROVE RowInv'
    BY <1>6, RunnerNames DEF QuarantineCorruptIdentity, Inspecting, InspectQuarantines,
      Quarantined, FailUnpublished, InspectEnds, Finalized, identity_alive
  <1>7. ASSUME ReadExec
      PROVE RowInv'
    BY <1>7, RunnerNames DEF ReadExec, Inspecting, Written, identity_alive
  <1>8. ASSUME Orphan \/ QuarantineCorruptTimeout \/ OrphanDrained
      PROVE RowInv'
    BY <1>8, RunnerNames, Zenon DEF Orphan, Inspecting, identity_alive,
      QuarantineCorruptTimeout, InspectQuarantines, Quarantined, OrphanDrained,
      InspectEnds, Finalized, TimeoutCommitted, group_possibly_alive
  <1>9. ASSUME OrphanSignals \/ RunningSupervised \/ QuarantineStands
      PROVE RowInv'
    BY <1>9, RunnerNames DEF OrphanSignals, OrphanSignalled, Inspecting, Written, Kill,
      TimeoutCommitted, group_possibly_alive, RunningSupervised, InspectNothing,
      QuarantineStands
  <1>10. ASSUME NothingToReconcile \/ Restart \/ Reboot \/ Damages
      PROVE RowInv'
    BY <1>10, RunnerNames, NextRunner DEF NothingToReconcile, Restart, NewDaemon,
      Reboot, Damages, Damage, Exists
  <1>11. ASSUME DeadlinePasses \/ UNCHANGED vars
      PROVE RowInv'
    BY <1>11, RunnerNames, SMTT(30) DEF DeadlinePasses, vars
  <1>12. ASSUME NEW r \in Runners, TakeLock(r) \/ Announce(r) \/ NotCancelled(r) \/
        ReadStart(r) PROVE RowInv'
    BY <1>12, RunnerNames, SMTT(30) DEF TakeLock, NoSup, Announce, RunnerMoves, Written,
      NotCancelled, ReadStart, Supervising
  <1>13. ASSUME NEW r \in Runners, SpawnCommand(r) \/ CancelledBeforeLaunch(r) \/
        ReadCorruptStart(r) \/ AuthorizationTimeout(r) PROVE RowInv'
    BY <1>13, RunnerNames DEF SpawnCommand, RunnerMoves, CancelledBeforeLaunch,
      PublishResult, Written, ReadCorruptStart, AuthorizationTimeout, Supervising
  <1>14. ASSUME NEW r \in Runners, PublishExec(r) PROVE RowInv'
    BY <1>14, RunnerNames DEF PublishExec, RunnerMoves, Written, SoleInv, HoldsLock,
      Gone, CommandInv, Supervising, GroupAlive, Quiet
  <1>15. ASSUME NEW r \in Runners, SpawnFails(r) \/ Conclude(r) \/ Observe(r) PROVE
        RowInv'
    BY <1>15, RunnerNames DEF SpawnFails, PublishResult, Written, Conclude, Conclusion,
      Empty, LeaderExited, Observe, RunnerMoves, Supervising
  <1>16. ASSUME NEW r \in Runners, Control(r) PROVE RowInv'
    BY <1>16, RunnerNames DEF Control, RunnerMoves, Written, Fires, Commits, Supervising
  <1>17. ASSUME NEW r \in Runners, RecordYield(r) PROVE RowInv'
    BY <1>17, RunnerNames, Zenon DEF RecordYield, Written, Supervising
  <1>18. ASSUME NEW r \in Runners, PeekBeforeYield(r) \/ SignalYield(r) \/ KillNow(r) \/
        Sleep(r) \/ LeaderExits(r) PROVE RowInv'
    BY <1>18, RunnerNames, SMTT(30) DEF PeekBeforeYield, RunnerMoves, LeaderExited, SignalYield,
      KillNow, Kill, Sleep, LeaderExits, CommandExits, Supervising
  <1>19. ASSUME NEW r \in Runners, OthersExit(r) \/ Forks(r) \/ RunnerDies(r) \/
        DieCommitted(r) PROVE RowInv'
    BY <1>19, RunnerNames, SMTT(30) DEF OthersExit, Forks, RunnerDies, DieCommitted, RunnerMoves,
      Fires, Commits, Supervising
  <1>. QED
    BY Cases, <1>1, <1>2, <1>3, <1>4, <1>5, <1>6, <1>7, <1>8, <1>9, <1>10, <1>11, <1>12,
      <1>13, <1>14, <1>15, <1>16, <1>17, <1>18, <1>19, Zenon

\* The flock, and the live identity that authorize asks for, leave one runner.
LEMMA SoleStep ==
  ASSUME ~SlowStart, Inv
  PROVE  [Next]_vars => SoleInv'
  <1> USE DEF Inv, Types, Domains, Columns, Names, Processes, Flags, RowFlags,
    FileFlags, OtherFlags, LiveAttemptStates, EndedAttemptStates, AdvancingStates,
    SoleInv, HoldsLock, Gone
  <1> USE DEF row, dir, daemon, procs, handles, intents, marks, launchFiles,
    intentFiles, commitFiles, endFiles, memory, group
  <1>1. ASSUME Cancels \/ YieldJob \/ Resolves \/ PublishCancel
      PROVE SoleInv'
    BY <1>1, RunnerNames DEF Cancels, Cancel, YieldJob, Resolves, RecoverResolve,
      group_possibly_alive, PublishCancel, Written
  <1>2. ASSUME PublishYield
      PROVE SoleInv'
    BY <1>2, RunnerNames DEF PublishYield, Written
  <1>3. ASSUME PublishStart
      PROVE SoleInv'
    BY <1>3, RunnerNames DEF PublishStart, Written
  <1>4. ASSUME FinalizeFromResult \/ QuarantineCorruptResult \/ ReadNoResult
      PROVE SoleInv'
    BY <1>4, RunnerNames, OutcomeEnds DEF FinalizeFromResult, CanReconcile, Finalized,
      DeliveryObserved, QuarantineCorruptResult, Quarantined, ReadNoResult, Written,
      Prompt
  <1>5. ASSUME Launch \/ Restart
      PROVE SoleInv'
    BY <1>5, RunnerNames, NextRunner, SMTT(30) DEF Launch, Inspecting, Restart, NewDaemon, RowInv,
      PreFork, Prompt
  <1>6. ASSUME Authorize \/ WaitForIdentity \/ LaunchFails \/ GiveUpOnRunner
      PROVE SoleInv'
    BY <1>6, RunnerNames DEF Authorize, Inspecting, identity_alive, WaitForIdentity,
      NoLiveRunnerAnnounced, InspectNothing, LaunchFails, InspectEnds, Finalized,
      GiveUpOnRunner, Prompt
  <1>7. ASSUME QuarantineCorruptIdentity \/ FailUnpublished
      PROVE SoleInv'
    BY <1>7, RunnerNames DEF QuarantineCorruptIdentity, Inspecting, InspectQuarantines,
      Quarantined, FailUnpublished, InspectEnds, Finalized, identity_alive
  <1>8. ASSUME ReadExec
      PROVE SoleInv'
    BY <1>8, RunnerNames DEF ReadExec, Inspecting, Written, identity_alive
  <1>9. ASSUME Orphan \/ QuarantineCorruptTimeout \/ OrphanDrained
      PROVE SoleInv'
    BY <1>9, RunnerNames, ZenonT(30) DEF Orphan, Inspecting, identity_alive,
      QuarantineCorruptTimeout, InspectQuarantines, Quarantined, OrphanDrained,
      InspectEnds, Finalized, TimeoutCommitted, group_possibly_alive, Prompt
  <1>10. ASSUME OrphanSignals \/ RunningSupervised \/ QuarantineStands
      PROVE SoleInv'
    BY <1>10, RunnerNames DEF OrphanSignals, OrphanSignalled, Inspecting, Written, Kill,
      TimeoutCommitted, group_possibly_alive, RunningSupervised, InspectNothing,
      QuarantineStands
  <1>11. ASSUME NothingToReconcile \/ Reboot \/ Damages \/ DeadlinePasses
      PROVE SoleInv'
    BY <1>11, RunnerNames, NextRunner DEF NothingToReconcile, Reboot, NewDaemon,
      Damages, Damage, Exists, DeadlinePasses
  <1>12. ASSUME UNCHANGED vars
      PROVE SoleInv'
    BY <1>12, RunnerNames, Zenon DEF vars
  <1>13. ASSUME NEW r \in Runners, TakeLock(r) \/ Announce(r) \/ NotCancelled(r) \/
        ReadStart(r) PROVE SoleInv'
    BY <1>13, RunnerNames, SMTT(30) DEF TakeLock, NoSup, Announce, RunnerMoves, Written,
      NotCancelled, ReadStart, Supervising, PreFork
  <1>14. ASSUME NEW r \in Runners, SpawnCommand(r) \/ PublishExec(r) \/
        CancelledBeforeLaunch(r) \/ ReadCorruptStart(r) PROVE SoleInv'
    BY <1>14, RunnerNames, SMTT(30) DEF SpawnCommand, RunnerMoves, PublishExec, Written,
      CancelledBeforeLaunch, PublishResult, ReadCorruptStart, Supervising, PreFork
  <1>15. ASSUME NEW r \in Runners, AuthorizationTimeout(r) \/ SpawnFails(r) \/
        Conclude(r) \/ Observe(r) PROVE SoleInv'
    BY <1>15, RunnerNames DEF AuthorizationTimeout, PublishResult, Written, SpawnFails,
      Conclude, Conclusion, Empty, LeaderExited, Observe, RunnerMoves, Supervising,
      PreFork
  <1>16. ASSUME NEW r \in Runners, Control(r) PROVE SoleInv'
    BY <1>16, RunnerNames DEF Control, RunnerMoves, Written, Fires, Commits,
      Supervising, PreFork
  <1>17. ASSUME NEW r \in Runners, RecordYield(r) PROVE SoleInv'
    BY <1>17, RunnerNames, Zenon DEF RecordYield, Written, Supervising, PreFork
  <1>18. ASSUME NEW r \in Runners, PeekBeforeYield(r) \/ SignalYield(r) \/ KillNow(r) \/
        Sleep(r) \/ LeaderExits(r) PROVE SoleInv'
    BY <1>18, RunnerNames, SMTT(30) DEF PeekBeforeYield, RunnerMoves, LeaderExited, SignalYield,
      KillNow, Kill, Sleep, LeaderExits, CommandExits, Supervising, PreFork
  <1>19. ASSUME NEW r \in Runners, OthersExit(r) \/ Forks(r) \/ RunnerDies(r) \/
        DieCommitted(r) PROVE SoleInv'
    BY <1>19, RunnerNames, SMTT(30) DEF OthersExit, Forks, RunnerDies, DieCommitted, RunnerMoves,
      Fires, Commits, Supervising, PreFork
  <1>. QED
    BY Cases, <1>1, <1>2, <1>3, <1>4, <1>5, <1>6, <1>7, <1>8, <1>9, <1>10, <1>11, <1>12,
      <1>13, <1>14, <1>15, <1>16, <1>17, <1>18, <1>19, ZenonT(30)

\* Nobody but the recorded runner forks, and no end leaves a command behind.
LEMMA CommandsStep ==
  ASSUME ~SlowStart, Inv
  PROVE  [Next]_vars => CommandInv'
  <1> USE DEF Inv, Types, Domains, Columns, Names, Processes, Flags, RowFlags,
    FileFlags, OtherFlags, LiveAttemptStates, EndedAttemptStates, AdvancingStates,
    CommandInv, PreFork, Gone, Supervising, GroupAlive, Quiet
  <1> USE DEF row, dir, daemon, procs, handles, intents, marks, launchFiles,
    intentFiles, commitFiles, endFiles, memory, group
  <1>1. ASSUME Cancels \/ Resolves \/ Launch \/ Authorize
      PROVE CommandInv'
    BY <1>1, RunnerNames DEF Cancels, Cancel, Resolves, RecoverResolve,
      group_possibly_alive, Launch, Inspecting, Authorize, identity_alive, RowInv,
      Prompt
  <1>2. ASSUME YieldJob \/ PublishCancel
      PROVE CommandInv'
    BY <1>2, RunnerNames DEF YieldJob, PublishCancel, Written
  <1>3. ASSUME PublishYield
      PROVE CommandInv'
    BY <1>3, RunnerNames DEF PublishYield, Written
  <1>4. ASSUME PublishStart
      PROVE CommandInv'
    BY <1>4, RunnerNames, Zenon DEF PublishStart, Written
  <1>5. ASSUME FinalizeFromResult \/ QuarantineCorruptResult \/ ReadNoResult
      PROVE CommandInv'
    BY <1>5, RunnerNames, OutcomeEnds DEF FinalizeFromResult, CanReconcile, Finalized,
      DeliveryObserved, QuarantineCorruptResult, Quarantined, ReadNoResult, Written,
      Prompt
  <1>6. ASSUME WaitForIdentity \/ QuarantineCorruptIdentity
      PROVE CommandInv'
    BY <1>6, RunnerNames DEF WaitForIdentity, NoLiveRunnerAnnounced, InspectNothing,
      Inspecting, QuarantineCorruptIdentity, InspectQuarantines, Quarantined
  <1>7. ASSUME LaunchFails \/ GiveUpOnRunner \/ Orphan \/ OrphanDrained
      PROVE CommandInv'
    BY <1>7, RunnerNames DEF LaunchFails, Inspecting, InspectEnds, Finalized,
      GiveUpOnRunner, NoLiveRunnerAnnounced, Orphan, identity_alive, OrphanDrained,
      TimeoutCommitted, group_possibly_alive, RowInv, Prompt
  <1>8. ASSUME FailUnpublished
      PROVE CommandInv'
    BY <1>8, RunnerNames DEF FailUnpublished, Inspecting, InspectEnds, Finalized,
      identity_alive, SoleInv, HoldsLock
  <1>9. ASSUME ReadExec
      PROVE CommandInv'
    BY <1>9, RunnerNames, Zenon DEF ReadExec, Inspecting, Written, identity_alive
  <1>10. ASSUME QuarantineCorruptTimeout \/ OrphanSignals \/ RunningSupervised
      PROVE CommandInv'
    BY <1>10, RunnerNames DEF QuarantineCorruptTimeout, Inspecting, InspectQuarantines,
      Quarantined, OrphanSignals, OrphanSignalled, Written, Kill, TimeoutCommitted,
      group_possibly_alive, RunningSupervised, InspectNothing
  <1>11. ASSUME QuarantineStands \/ NothingToReconcile \/ Damages \/ DeadlinePasses
      PROVE CommandInv'
    BY <1>11, RunnerNames DEF QuarantineStands, Inspecting, InspectNothing,
      NothingToReconcile, Damages, Damage, Exists, DeadlinePasses
  <1>12. ASSUME Restart \/ Reboot
      PROVE CommandInv'
    BY <1>12, RunnerNames, NextRunner DEF Restart, NewDaemon, Reboot, RowInv
  <1>13. ASSUME UNCHANGED vars
      PROVE CommandInv'
    BY <1>13, RunnerNames DEF vars
  <1>14. ASSUME NEW r \in Runners, TakeLock(r) PROVE CommandInv'
    BY <1>14, RunnerNames DEF TakeLock, NoSup
  <1>15. ASSUME NEW r \in Runners, Announce(r) PROVE CommandInv'
    BY <1>15, RunnerNames DEF Announce, RunnerMoves, Written
  <1>16. ASSUME NEW r \in Runners, NotCancelled(r) PROVE CommandInv'
    BY <1>16, RunnerNames DEF NotCancelled, RunnerMoves
  <1>17. ASSUME NEW r \in Runners, ReadStart(r) PROVE CommandInv'
    BY <1>17, RunnerNames DEF ReadStart, RunnerMoves
  <1>18. ASSUME NEW r \in Runners, SpawnCommand(r) PROVE CommandInv'
    BY <1>18, RunnerNames DEF SpawnCommand, RunnerMoves, RowInv, SoleInv, HoldsLock
  <1>19. ASSUME NEW r \in Runners, PublishExec(r) PROVE CommandInv'
    BY <1>19, RunnerNames DEF PublishExec, RunnerMoves, Written
  <1>20. ASSUME NEW r \in Runners, CancelledBeforeLaunch(r) PROVE CommandInv'
    BY <1>20, RunnerNames DEF CancelledBeforeLaunch, PublishResult, Written, SoleInv,
      HoldsLock
  <1>21. ASSUME NEW r \in Runners, ReadCorruptStart(r) PROVE CommandInv'
    BY <1>21, RunnerNames DEF ReadCorruptStart, PublishResult, Written, SoleInv,
      HoldsLock
  <1>22. ASSUME NEW r \in Runners, AuthorizationTimeout(r) PROVE CommandInv'
    BY <1>22, RunnerNames DEF AuthorizationTimeout, PublishResult, Written, SoleInv,
      HoldsLock
  <1>23. ASSUME NEW r \in Runners, SpawnFails(r) PROVE CommandInv'
    BY <1>23, RunnerNames DEF SpawnFails, PublishResult, Written, SoleInv, HoldsLock
  <1>24. ASSUME NEW r \in Runners, Conclude(r) PROVE CommandInv'
    BY <1>24, RunnerNames DEF Conclude, PublishResult, Written, Conclusion, Empty,
      LeaderExited, SoleInv, HoldsLock
  <1>25. ASSUME NEW r \in Runners, Observe(r) PROVE CommandInv'
    BY <1>25, RunnerNames DEF Observe, RunnerMoves, Empty, LeaderExited
  <1>26. ASSUME NEW r \in Runners, Control(r) PROVE CommandInv'
    BY <1>26, RunnerNames DEF Control, RunnerMoves, Written, Fires, Commits
  <1>27. ASSUME NEW r \in Runners, RecordYield(r) PROVE CommandInv'
    BY <1>27, RunnerNames DEF RecordYield, Written
  <1>28. ASSUME NEW r \in Runners, PeekBeforeYield(r) PROVE CommandInv'
    BY <1>28, RunnerNames DEF PeekBeforeYield, RunnerMoves, LeaderExited
  <1>29. ASSUME NEW r \in Runners, SignalYield(r) PROVE CommandInv'
    BY <1>29, RunnerNames DEF SignalYield, RunnerMoves, LeaderExited
  <1>30. ASSUME NEW r \in Runners, KillNow(r) PROVE CommandInv'
    BY <1>30, RunnerNames DEF KillNow, RunnerMoves, Kill
  <1>31. ASSUME NEW r \in Runners, Sleep(r) PROVE CommandInv'
    BY <1>31, RunnerNames, SMTT(30) DEF Sleep, RunnerMoves
  <1>32. ASSUME NEW r \in Runners, LeaderExits(r) \/ OthersExit(r) \/ Forks(r) PROVE
        CommandInv'
    BY <1>32, RunnerNames DEF LeaderExits, CommandExits, OthersExit, Forks
  <1>33. ASSUME NEW r \in Runners, RunnerDies(r) PROVE CommandInv'
    BY <1>33, RunnerNames DEF RunnerDies
  <1>34. ASSUME NEW r \in Runners, DieCommitted(r) PROVE CommandInv'
    BY <1>34, RunnerNames, SMTT(30) DEF DieCommitted, RunnerMoves, Fires, Commits
  <1>. QED
    BY Cases, <1>1, <1>2, <1>3, <1>4, <1>5, <1>6, <1>7, <1>8, <1>9, <1>10, <1>11, <1>12,
      <1>13, <1>14, <1>15, <1>16, <1>17, <1>18, <1>19, <1>20, <1>21, <1>22, <1>23,
      <1>24, <1>25, <1>26, <1>27, <1>28, <1>29, <1>30, <1>31, <1>32, <1>33, <1>34, ZenonT(30)

\* Intents are committed before cancel.json and yield.json are written, and the
\* runner acts on those files only.
LEMMA IntentStep ==
  ASSUME ~SlowStart, Inv
  PROVE  [Next]_vars => IntentInv'
  <1> USE DEF Inv, Types, Domains, Columns, Names, Processes, Flags, RowFlags,
    FileFlags, OtherFlags, LiveAttemptStates, EndedAttemptStates, AdvancingStates,
    IntentInv, Locals, SupType
  <1> USE DEF row, dir, daemon, procs, handles, intents, marks, launchFiles,
    intentFiles, commitFiles, endFiles, memory, group
  <1>1. ASSUME Cancels \/ YieldJob \/ Resolves \/ PublishCancel
      PROVE IntentInv'
    BY <1>1, RunnerNames DEF Cancels, Cancel, YieldJob, Resolves, RecoverResolve,
      group_possibly_alive, PublishCancel, Written
  <1>2. ASSUME PublishYield
      PROVE IntentInv'
    BY <1>2, RunnerNames DEF PublishYield, Written
  <1>3. ASSUME PublishStart
      PROVE IntentInv'
    BY <1>3, RunnerNames, Zenon DEF PublishStart, Written
  <1>4. ASSUME FinalizeFromResult \/ QuarantineCorruptResult \/ ReadNoResult \/
        WaitForIdentity
      PROVE IntentInv'
    BY <1>4, RunnerNames, OutcomeEnds, SMTT(30) DEF FinalizeFromResult, CanReconcile, Finalized,
      DeliveryObserved, QuarantineCorruptResult, Quarantined, ReadNoResult, Written,
      WaitForIdentity, NoLiveRunnerAnnounced, InspectNothing, Inspecting
  <1>5. ASSUME Launch \/ Authorize \/ Restart
      PROVE IntentInv'
    BY <1>5, RunnerNames, NextRunner, SMTT(30) DEF Launch, Inspecting, Authorize, identity_alive,
      Restart, NewDaemon, RowInv, PreFork
  <1>6. ASSUME LaunchFails \/ GiveUpOnRunner \/ QuarantineCorruptIdentity \/
        FailUnpublished
      PROVE IntentInv'
    BY <1>6, RunnerNames DEF LaunchFails, Inspecting, InspectEnds, Finalized,
      GiveUpOnRunner, NoLiveRunnerAnnounced, QuarantineCorruptIdentity,
      InspectQuarantines, Quarantined, FailUnpublished, identity_alive
  <1>7. ASSUME ReadExec
      PROVE IntentInv'
    BY <1>7, RunnerNames, Zenon DEF ReadExec, Inspecting, Written, identity_alive
  <1>8. ASSUME Orphan \/ QuarantineCorruptTimeout \/ OrphanDrained \/ RunningSupervised \/
        QuarantineStands
      PROVE IntentInv'
    BY <1>8, RunnerNames, SMTT(30) DEF Orphan, Inspecting, identity_alive,
      QuarantineCorruptTimeout, InspectQuarantines, Quarantined, OrphanDrained,
      InspectEnds, Finalized, TimeoutCommitted, group_possibly_alive, RunningSupervised,
      InspectNothing, QuarantineStands
  <1>9. ASSUME OrphanSignals
      PROVE IntentInv'
    BY <1>9, RunnerNames, SMTT(30) DEF OrphanSignals, OrphanSignalled, Inspecting, Written, Kill,
      TimeoutCommitted, group_possibly_alive, CommandInv, PreFork, Gone, Supervising,
      GroupAlive, Quiet
  <1>10. ASSUME NothingToReconcile \/ Reboot \/ Damages \/ DeadlinePasses \/ UNCHANGED
        vars
      PROVE IntentInv'
    BY <1>10, RunnerNames, NextRunner, SMTT(30) DEF NothingToReconcile, Reboot, NewDaemon,
      Damages, Damage, Exists, DeadlinePasses, vars
  <1>11. ASSUME NEW r \in Runners, TakeLock(r) PROVE IntentInv'
    BY <1>11, RunnerNames, Zenon DEF TakeLock, NoSup, SoleInv, HoldsLock, Gone
  <1>12. ASSUME NEW r \in Runners, Announce(r) \/ NotCancelled(r) \/ ReadStart(r) \/
        SpawnCommand(r) PROVE IntentInv'
    BY <1>12, RunnerNames, SMTT(30) DEF Announce, RunnerMoves, Written, NotCancelled, ReadStart,
      SpawnCommand
  <1>13. ASSUME NEW r \in Runners, PublishExec(r) \/ CancelledBeforeLaunch(r) \/
        ReadCorruptStart(r) \/ AuthorizationTimeout(r) PROVE IntentInv'
    BY <1>13, RunnerNames DEF PublishExec, RunnerMoves, Written, CancelledBeforeLaunch,
      PublishResult, ReadCorruptStart, AuthorizationTimeout
  <1>14. ASSUME NEW r \in Runners, SpawnFails(r) \/ Conclude(r) PROVE IntentInv'
    BY <1>14, RunnerNames DEF SpawnFails, PublishResult, Written, Conclude, Conclusion,
      Empty, LeaderExited
  <1>15. ASSUME NEW r \in Runners, Observe(r) PROVE IntentInv'
    BY <1>15, RunnerNames DEF Observe, RunnerMoves, Empty, LeaderExited
  <1>16. ASSUME NEW r \in Runners, Control(r) PROVE IntentInv'
    BY <1>16, RunnerNames DEF Control, RunnerMoves, Written, Fires, Commits, RowInv,
      PreFork, SoleInv, HoldsLock, Gone, CommandInv, Supervising, GroupAlive, Quiet
  <1>17. ASSUME NEW r \in Runners, RecordYield(r) PROVE IntentInv'
    BY <1>17, RunnerNames, Zenon DEF RecordYield, Written
  <1>18. ASSUME NEW r \in Runners, PeekBeforeYield(r) \/ SignalYield(r) PROVE IntentInv'
    BY <1>18, RunnerNames DEF PeekBeforeYield, RunnerMoves, LeaderExited, SignalYield
  <1>19. ASSUME NEW r \in Runners, KillNow(r) PROVE IntentInv'
    BY <1>19, RunnerNames DEF KillNow, RunnerMoves, Kill
  <1>20. ASSUME NEW r \in Runners, Sleep(r) \/ LeaderExits(r) \/ OthersExit(r) \/
        Forks(r) PROVE IntentInv'
    BY <1>20, RunnerNames DEF Sleep, RunnerMoves, LeaderExits, CommandExits, OthersExit,
      Forks
  <1>21. ASSUME NEW r \in Runners, RunnerDies(r) \/ DieCommitted(r) PROVE IntentInv'
    BY <1>21, RunnerNames, SMTT(30) DEF RunnerDies, DieCommitted, RunnerMoves, Fires, Commits
  <1>. QED
    BY Cases, <1>1, <1>2, <1>3, <1>4, <1>5, <1>6, <1>7, <1>8, <1>9, <1>10, <1>11, <1>12,
      <1>13, <1>14, <1>15, <1>16, <1>17, <1>18, <1>19, <1>20, <1>21, ZenonT(30)

\* The runner's conclusion is true when it is published, and stays true.
LEMMA OutcomeStep ==
  ASSUME ~SlowStart, Inv
  PROVE  [Next]_vars => OutcomeInv'
  <1> USE DEF Inv, Types, Domains, Columns, Names, Processes, Flags, RowFlags,
    FileFlags, OtherFlags, LiveAttemptStates, EndedAttemptStates, AdvancingStates,
    OutcomeInv, Ended, GroupAlive, Locals, SupType
  <1> USE DEF row, dir, daemon, procs, handles, intents, marks, launchFiles,
    intentFiles, commitFiles, endFiles, memory, group
  <1>1. ASSUME Cancels \/ YieldJob \/ Resolves \/ PublishCancel
      PROVE OutcomeInv'
    BY <1>1, RunnerNames DEF Cancels, Cancel, YieldJob, Resolves, RecoverResolve,
      group_possibly_alive, PublishCancel, Written
  <1>2. ASSUME PublishYield \/ PublishStart
      PROVE OutcomeInv'
    BY <1>2, RunnerNames, ZenonT(30) DEF PublishYield, Written, PublishStart
  <1>3. ASSUME FinalizeFromResult \/ QuarantineCorruptResult \/ ReadNoResult \/ Launch \/
        Authorize
      PROVE OutcomeInv'
    BY <1>3, RunnerNames, OutcomeEnds DEF FinalizeFromResult, CanReconcile, Finalized,
      DeliveryObserved, QuarantineCorruptResult, Quarantined, ReadNoResult, Written,
      Launch, Inspecting, Authorize, identity_alive
  <1>4. ASSUME WaitForIdentity \/ LaunchFails \/ GiveUpOnRunner \/
        QuarantineCorruptIdentity
      PROVE OutcomeInv'
    BY <1>4, RunnerNames DEF WaitForIdentity, NoLiveRunnerAnnounced, InspectNothing,
      Inspecting, LaunchFails, InspectEnds, Finalized, GiveUpOnRunner,
      QuarantineCorruptIdentity, InspectQuarantines, Quarantined
  <1>5. ASSUME FailUnpublished \/ ReadExec
      PROVE OutcomeInv'
    BY <1>5, RunnerNames, ZenonT(30) DEF FailUnpublished, Inspecting, InspectEnds, Finalized,
      identity_alive, ReadExec, Written
  <1>6. ASSUME Orphan \/ QuarantineCorruptTimeout \/ OrphanSignals \/ RunningSupervised
      PROVE OutcomeInv'
    BY <1>6, RunnerNames DEF Orphan, Inspecting, identity_alive,
      QuarantineCorruptTimeout, InspectQuarantines, Quarantined, OrphanSignals,
      OrphanSignalled, Written, Kill, TimeoutCommitted, group_possibly_alive,
      RunningSupervised, InspectNothing
  <1>7. ASSUME OrphanDrained
      PROVE OutcomeInv'
    BY <1>7, RunnerNames, Zenon DEF OrphanDrained, Inspecting, InspectEnds, Finalized,
      TimeoutCommitted, group_possibly_alive, RowInv, PreFork, CommandInv, Gone,
      Supervising, Quiet
  <1>8. ASSUME QuarantineStands \/ NothingToReconcile \/ Reboot \/ DeadlinePasses
      PROVE OutcomeInv'
    BY <1>8, RunnerNames, NextRunner, SMTT(30) DEF QuarantineStands, Inspecting, InspectNothing,
      NothingToReconcile, Reboot, NewDaemon, DeadlinePasses
  <1>9. ASSUME Restart
      PROVE OutcomeInv'
    BY <1>9, RunnerNames, NextRunner DEF Restart, NewDaemon, RowInv, PreFork
  <1>10. ASSUME NEW f \in {"identity", "start", "exec", "timeout", "result"}, Damage(f)
        PROVE OutcomeInv'
    BY <1>10, ZenonT(30) DEF Damage, Exists
  <1>11. ASSUME UNCHANGED vars
      PROVE OutcomeInv'
    BY <1>11, RunnerNames DEF vars
  <1>12. ASSUME NEW r \in Runners, TakeLock(r) \/ Announce(r) \/ NotCancelled(r) \/
        ReadStart(r) \/ PublishExec(r) PROVE OutcomeInv'
    BY <1>12, RunnerNames DEF TakeLock, NoSup, Announce, RunnerMoves, Written,
      NotCancelled, ReadStart, PublishExec
  <1>13. ASSUME NEW r \in Runners, SpawnCommand(r) PROVE OutcomeInv'
    BY <1>13, RunnerNames DEF SpawnCommand, RunnerMoves, CommandInv, PreFork, Gone,
      Supervising, Quiet
  <1>14. ASSUME NEW r \in Runners, CancelledBeforeLaunch(r) \/ Conclude(r) PROVE
        OutcomeInv'
    BY <1>14, RunnerNames DEF CancelledBeforeLaunch, PublishResult, Written, Conclude,
      Conclusion, Empty, LeaderExited, RowInv, PreFork, SoleInv, HoldsLock, Gone,
      CommandInv, Supervising, Quiet, IntentInv
  <1>15. ASSUME NEW r \in Runners, ReadCorruptStart(r) \/ AuthorizationTimeout(r) PROVE
        OutcomeInv'
    BY <1>15, RunnerNames DEF ReadCorruptStart, PublishResult, Written,
      AuthorizationTimeout, RowInv, PreFork, SoleInv, HoldsLock, Gone
  <1>16. ASSUME NEW r \in Runners, SpawnFails(r) PROVE OutcomeInv'
    BY <1>16, RunnerNames DEF SpawnFails, PublishResult, Written, RowInv, PreFork,
      SoleInv, HoldsLock, Gone, CommandInv, Supervising, Quiet
  <1>17. ASSUME NEW r \in Runners, Observe(r) \/ Control(r) PROVE OutcomeInv'
    BY <1>17, RunnerNames, SMTT(30) DEF Observe, RunnerMoves, Empty, LeaderExited, Control,
      Written, Fires, Commits
  <1>18. ASSUME NEW r \in Runners, RecordYield(r) PROVE OutcomeInv'
    BY <1>18, RunnerNames, ZenonT(30) DEF RecordYield, Written
  <1>19. ASSUME NEW r \in Runners, PeekBeforeYield(r) \/ SignalYield(r) \/ KillNow(r) \/
        Sleep(r) \/ LeaderExits(r) \/ OthersExit(r) PROVE OutcomeInv'
    BY <1>19, RunnerNames DEF PeekBeforeYield, RunnerMoves, LeaderExited, SignalYield,
      KillNow, Kill, Sleep, LeaderExits, CommandExits, OthersExit
  <1>20. ASSUME NEW r \in Runners, Forks(r) \/ RunnerDies(r) \/ DieCommitted(r) PROVE
        OutcomeInv'
    BY <1>20, RunnerNames DEF Forks, RunnerDies, DieCommitted, RunnerMoves, Fires,
      Commits
  <1>. QED
    BY Cases, <1>1, <1>2, <1>3, <1>4, <1>5, <1>6, <1>7, <1>8, <1>9, <1>10, <1>11, <1>12,
      <1>13, <1>14, <1>15, <1>16, <1>17, <1>18, <1>19, <1>20, ZenonT(30) DEF Damages

\* The outcome the coordinator records is true, and stays true.
LEMMA TruthStep ==
  ASSUME ~SlowStart, Inv
  PROVE  [Next]_vars => OutcomeIsTrue'
  <1> USE DEF Inv, Types, Domains, Columns, Names, Processes, Flags, RowFlags,
    FileFlags, OtherFlags, LiveAttemptStates, EndedAttemptStates, AdvancingStates,
    OutcomeIsTrue, Ended, GroupAlive
  <1> USE DEF row, dir, daemon, procs, handles, intents, marks, launchFiles,
    intentFiles, commitFiles, endFiles, memory, group
  <1>1. ASSUME Cancels \/ YieldJob \/ Resolves \/ PublishCancel
      PROVE OutcomeIsTrue'
    BY <1>1, RunnerNames DEF Cancels, Cancel, YieldJob, Resolves, RecoverResolve,
      group_possibly_alive, PublishCancel, Written
  <1>2. ASSUME PublishYield
      PROVE OutcomeIsTrue'
    BY <1>2, RunnerNames DEF PublishYield, Written
  <1>3. ASSUME PublishStart
      PROVE OutcomeIsTrue'
    BY <1>3, RunnerNames DEF PublishStart, Written
  <1>4. ASSUME FinalizeFromResult
      PROVE OutcomeIsTrue'
    BY <1>4, RunnerNames, OutcomeEnds, SMTT(30) DEF FinalizeFromResult, CanReconcile, Finalized,
      DeliveryObserved, OutcomeInv, Locals, SupType, AttemptOutcome, Results
  <1>5. ASSUME QuarantineCorruptResult \/ ReadNoResult \/ Launch \/ Authorize
      PROVE OutcomeIsTrue'
    BY <1>5, RunnerNames, Zenon DEF QuarantineCorruptResult, CanReconcile, Quarantined,
      DeliveryObserved, ReadNoResult, Written, Launch, Inspecting, Authorize,
      identity_alive
  <1>6. ASSUME WaitForIdentity \/ LaunchFails \/ GiveUpOnRunner \/
        QuarantineCorruptIdentity
      PROVE OutcomeIsTrue'
    BY <1>6, RunnerNames DEF WaitForIdentity, NoLiveRunnerAnnounced, InspectNothing,
      Inspecting, LaunchFails, InspectEnds, Finalized, GiveUpOnRunner,
      QuarantineCorruptIdentity, InspectQuarantines, Quarantined
  <1>7. ASSUME FailUnpublished
      PROVE OutcomeIsTrue'
    BY <1>7, RunnerNames, Zenon DEF FailUnpublished, Inspecting, InspectEnds, Finalized,
      identity_alive
  <1>8. ASSUME ReadExec
      PROVE OutcomeIsTrue'
    BY <1>8, RunnerNames, Zenon DEF ReadExec, Inspecting, Written, identity_alive
  <1>9. ASSUME Orphan \/ QuarantineCorruptTimeout \/ OrphanDrained
      PROVE OutcomeIsTrue'
    BY <1>9, RunnerNames, SMTT(30) DEF Orphan, Inspecting, identity_alive,
      QuarantineCorruptTimeout, InspectQuarantines, Quarantined, OrphanDrained,
      InspectEnds, Finalized, TimeoutCommitted, group_possibly_alive
  <1>10. ASSUME OrphanSignals \/ RunningSupervised \/ QuarantineStands
      PROVE OutcomeIsTrue'
    BY <1>10, RunnerNames, Zenon DEF OrphanSignals, OrphanSignalled, Inspecting, Written, Kill,
      TimeoutCommitted, group_possibly_alive, RunningSupervised, InspectNothing,
      QuarantineStands
  <1>11. ASSUME NothingToReconcile \/ Reboot \/ Damages \/ DeadlinePasses
      PROVE OutcomeIsTrue'
    BY <1>11, RunnerNames, NextRunner, SMTT(30) DEF NothingToReconcile, Reboot, NewDaemon,
      Damages, Damage, Exists, DeadlinePasses
  <1>12. ASSUME Restart
      PROVE OutcomeIsTrue'
    BY <1>12, RunnerNames, NextRunner, Zenon DEF Restart, NewDaemon, RowInv, PreFork
  <1>13. ASSUME UNCHANGED vars
      PROVE OutcomeIsTrue'
    BY <1>13, RunnerNames, Zenon DEF vars
  <1>14. ASSUME NEW r \in Runners, TakeLock(r) \/ Announce(r) \/ NotCancelled(r) \/
        ReadStart(r) PROVE OutcomeIsTrue'
    BY <1>14, RunnerNames, SMTT(30) DEF TakeLock, NoSup, Announce, RunnerMoves, Written,
      NotCancelled, ReadStart
  <1>15. ASSUME NEW r \in Runners, SpawnCommand(r) PROVE OutcomeIsTrue'
    BY <1>15, RunnerNames, Zenon DEF SpawnCommand, RunnerMoves, CommandInv, PreFork, Gone,
      Supervising, Quiet
  <1>16. ASSUME NEW r \in Runners, PublishExec(r) \/ CancelledBeforeLaunch(r) \/
        ReadCorruptStart(r) \/ AuthorizationTimeout(r) PROVE OutcomeIsTrue'
    BY <1>16, RunnerNames DEF PublishExec, RunnerMoves, Written, CancelledBeforeLaunch,
      PublishResult, ReadCorruptStart, AuthorizationTimeout
  <1>17. ASSUME NEW r \in Runners, SpawnFails(r) \/ Conclude(r) \/ Observe(r) PROVE
        OutcomeIsTrue'
    BY <1>17, RunnerNames, SMTT(30) DEF SpawnFails, PublishResult, Written, Conclude, Conclusion,
      Empty, LeaderExited, Observe, RunnerMoves
  <1>18. ASSUME NEW r \in Runners, Control(r) \/ DieCommitted(r) PROVE OutcomeIsTrue'
    BY <1>18, RunnerNames, SMTT(30) DEF Control, RunnerMoves, Written, Fires, Commits,
      DieCommitted, RowInv, PreFork, SoleInv, HoldsLock, Gone, CommandInv, Supervising,
      Quiet, IntentInv, Locals, SupType, OutcomeInv
  <1>19. ASSUME NEW r \in Runners, RecordYield(r) PROVE OutcomeIsTrue'
    BY <1>19, RunnerNames, Zenon DEF RecordYield, Written
  <1>20. ASSUME NEW r \in Runners, PeekBeforeYield(r) \/ SignalYield(r) \/ KillNow(r) \/
        Sleep(r) PROVE OutcomeIsTrue'
    BY <1>20, RunnerNames DEF PeekBeforeYield, RunnerMoves, LeaderExited, SignalYield,
      KillNow, Kill, Sleep
  <1>21. ASSUME NEW r \in Runners, LeaderExits(r) \/ OthersExit(r) \/ Forks(r) \/
        RunnerDies(r) PROVE OutcomeIsTrue'
    BY <1>21, RunnerNames DEF LeaderExits, CommandExits, OthersExit, Forks, RunnerDies
  <1>. QED
    BY Cases, <1>1, <1>2, <1>3, <1>4, <1>5, <1>6, <1>7, <1>8, <1>9, <1>10, <1>11, <1>12,
      <1>13, <1>14, <1>15, <1>16, <1>17, <1>18, <1>19, <1>20, <1>21, Zenon

------------------------------------------------------------------------------
(* The theorems.                                                           *)

\* The invariant of the protocol between reconcile_attempt (coordinator.rs) and
\* the runner (runner.rs).
THEOREM AttemptInvariance ==
  ASSUME ~SlowStart
  PROVE  Spec => []Inv
  <1>1. Init => Inv
    <2> SUFFICES ASSUME Init PROVE Inv
      OBVIOUS
    <2> USE DEF Init, LiveAttemptStates, AdvancingStates, EndedAttemptStates
    <2>1. 1 \in Runners
      BY AttemptAssumption DEF Runners
    <2>2. Types
      <3>1. RowFlags /\ FileFlags
        BY Zenon DEF RowFlags, FileFlags
      <3>2. OtherFlags
        BY Zenon DEF OtherFlags
      <3>3. Locals
        BY DEF Locals, SupType, NoSup
      <3>4. Domains
        BY <2>1 DEF Domains, Columns, Names, Sets, Processes, RunnerStates
      <3>. QED
        BY <3>1, <3>2, <3>3, <3>4 DEF Types, Flags
    <2>3. RowInv /\ SoleInv
      BY <2>1, RunnerNames DEF RowInv, SoleInv, HoldsLock
    <2>4. CommandInv
      BY <2>1, RunnerNames DEF CommandInv, GroupAlive, PreFork, Supervising, Gone
    <2>5. IntentInv /\ OutcomeInv /\ OutcomeIsTrue
      BY DEF IntentInv, OutcomeInv, OutcomeIsTrue, NoSup
    <2>. QED
      BY <2>2, <2>3, <2>4, <2>5 DEF Inv
  <1>2. Inv /\ [Next]_vars => Inv'
    BY TypesStep, RowStep, SoleStep, CommandsStep, IntentStep, OutcomeStep, TruthStep DEF Inv
  <1>. QED
    BY <1>1, <1>2, PTL DEF Spec

\* The row, the directory and the processes of an attempt keep their types.
THEOREM AttemptTypes ==
  ASSUME ~SlowStart
  PROVE  Spec => []TypeOK
  <1>1. Inv => TypeOK
    BY TypesAreTypeOK DEF Inv
  <1>. QED
    BY <1>1, AttemptInvariance, PTL

\* While a process of the command lives its run lease is held, through any
\* number of daemon restarts, runner deaths and reboots (coordinator.rs,
\* finalize_attempt_and_job; the exception is recover_resolve without exec.json).
THEOREM LeasesCoverCommands ==
  ASSUME ~SlowStart
  PROVE  Spec => []LeaseCoversCommand
  <1>1. Inv => LeaseCoversCommand
    BY DEF Inv, Types, Domains, Columns, RowInv, CommandInv, Quiet, LeaseCoversCommand
  <1>. QED
    BY <1>1, AttemptInvariance, PTL

\* The flock and authorize let at most one runner spawn the command, however
\* often the daemon restarts and launches again (runner.rs, run).
THEOREM CommandsRunOnce ==
  ASSUME ~SlowStart
  PROVE  Spec => []CommandRunsOnce
  <1>1. Inv => CommandRunsOnce
    <2> SUFFICES ASSUME Inv PROVE CommandRunsOnce
      OBVIOUS
    <2> DEFINE S == {r \in Runners : leader[r] # "none"}
    <2>1. S = {} \/ S = {rowRunner}
      BY DEF Inv, CommandInv
    <2>2. Cardinality({}) = 0 /\ Cardinality({rowRunner}) = 1
      BY FS_EmptySet, FS_Singleton, Zenon
    <2>3. Cardinality(S) <= 1
      BY <2>1, <2>2
    <2>. QED
      BY <2>3 DEF CommandRunsOnce
  <1>. QED
    BY <1>1, AttemptInvariance, PTL

\* The outcome in the row is what happened to the command (coordinator.rs,
\* finalize_from_result and reconcile_orphaned).
THEOREM OutcomesAreTrue ==
  ASSUME ~SlowStart
  PROVE  Spec => []OutcomeIsTrue
  <1>1. Inv => OutcomeIsTrue
    BY DEF Inv
  <1>. QED
    BY <1>1, AttemptInvariance, PTL


------------------------------------------------------------------------------
(* What a step may never do.                                               *)

\* A signal is sent for a reason that was committed before.
Deliberate(sent) ==
    /\ "term" \in sent \ signals => cancel # "no" \/ expired
    /\ "kill" \in sent \ signals => cancel = "force" \/ expired
    /\ "yield" \in sent \ signals => yieldRequested /\ "term" \notin signals

\* Control, the kill and the daemon of an orphan signal for a cancel or a limit;
\* the yield signal waits for its record, and gives way to termination.
LEMMA SignalStep ==
  ASSUME Inv
  PROVE  [Next]_vars => Deliberate(signals')
  <1> USE DEF row, dir, daemon, procs, handles, intents, marks, launchFiles,
    intentFiles, commitFiles, endFiles, memory, group
  <1>1. ASSUME Cancels \/ YieldJob \/ Resolves \/ PublishCancel \/ PublishYield \/
        PublishStart \/ FinalizeFromResult \/ QuarantineCorruptResult \/ ReadNoResult \/
        Launch \/ Authorize \/ WaitForIdentity \/ LaunchFails \/ GiveUpOnRunner
      PROVE  signals' = signals
    BY <1>1, ZenonT(30) DEF Cancels, Cancel, YieldJob, Resolves, RecoverResolve,
      group_possibly_alive, PublishCancel, Written, PublishYield, PublishStart,
      FinalizeFromResult, CanReconcile, Finalized, DeliveryObserved,
      QuarantineCorruptResult, Quarantined, ReadNoResult, Launch, Inspecting, Authorize,
      identity_alive, WaitForIdentity, NoLiveRunnerAnnounced, InspectNothing,
      LaunchFails, InspectEnds, GiveUpOnRunner
  <1>2. ASSUME QuarantineCorruptIdentity \/ FailUnpublished \/ ReadExec \/ Orphan \/
        QuarantineCorruptTimeout \/ OrphanDrained \/ RunningSupervised \/
        QuarantineStands \/ NothingToReconcile \/ Restart \/ Reboot \/ Damages \/
        DeadlinePasses \/ UNCHANGED vars
      PROVE  signals' = signals
    BY <1>2, Zenon DEF QuarantineCorruptIdentity, Inspecting, InspectQuarantines, Quarantined,
      FailUnpublished, InspectEnds, Finalized, identity_alive, ReadExec, Written,
      Orphan, QuarantineCorruptTimeout, OrphanDrained, TimeoutCommitted,
      group_possibly_alive, RunningSupervised, InspectNothing, QuarantineStands,
      NothingToReconcile, Restart, NewDaemon, Reboot, Damages, Damage, Exists,
      DeadlinePasses, vars
  <1>3. ASSUME NEW r \in Runners, TakeLock(r) \/ Announce(r) \/ NotCancelled(r) \/
        ReadStart(r) \/ SpawnCommand(r) \/ PublishExec(r) \/ CancelledBeforeLaunch(r) \/
        ReadCorruptStart(r) \/ AuthorizationTimeout(r) \/ SpawnFails(r) \/ Conclude(r)
        \/ Observe(r)
      PROVE  signals' = signals
    BY <1>3 DEF TakeLock, NoSup, Announce, RunnerMoves, Written, NotCancelled,
      ReadStart, SpawnCommand, PublishExec, CancelledBeforeLaunch, PublishResult,
      ReadCorruptStart, AuthorizationTimeout, SpawnFails, Conclude, Conclusion, Empty,
      LeaderExited, Observe
  <1>4. ASSUME NEW r \in Runners, RecordYield(r) \/ PeekBeforeYield(r) \/ Sleep(r) \/
        LeaderExits(r) \/ OthersExit(r) \/ Forks(r) \/ RunnerDies(r) \/ DieCommitted(r)
      PROVE  signals' = signals
    BY <1>4, Zenon DEF RecordYield, Written, PeekBeforeYield, RunnerMoves, LeaderExited, Sleep,
      LeaderExits, CommandExits, OthersExit, Forks, RunnerDies, DieCommitted, Fires,
      Commits
  <1>5. ASSUME NEW kill \in BOOLEAN, OrphanSignalled(kill)
      PROVE  Deliberate(signals')
    BY <1>5 DEF OrphanSignalled, Inspecting, Written, Kill, TimeoutCommitted,
      group_possibly_alive, Inv, Types, Domains, Columns, Names, Flags, RowFlags,
      FileFlags, OtherFlags, IntentInv, Deliberate
  <1>6. ASSUME NEW r \in Runners, Control(r)
      PROVE  Deliberate(signals')
    BY <1>6, RunnerNames DEF Control, RunnerMoves, Written, Fires, Commits, Inv, Types,
      Domains, Columns, Names, Flags, RowFlags, FileFlags, OtherFlags, IntentInv,
      Deliberate, Locals, SupType
  <1>7. ASSUME NEW r \in Runners, SignalYield(r)
      PROVE  Deliberate(signals')
    BY <1>7, RunnerNames DEF SignalYield, RunnerMoves, LeaderExited, Inv, Types,
      Domains, Columns, Names, Flags, RowFlags, FileFlags, OtherFlags, IntentInv,
      Deliberate, RowInv, PreFork, SoleInv, HoldsLock, Gone, Locals, SupType
  <1>8. ASSUME NEW r \in Runners, KillNow(r)
      PROVE  Deliberate(signals')
    BY <1>8, RunnerNames DEF KillNow, RunnerMoves, Kill, Inv, Types, Domains, Columns,
      Names, Flags, RowFlags, FileFlags, OtherFlags, IntentInv, Deliberate, Locals,
      SupType
  <1>. QED
    BY Cases, <1>1, <1>2, <1>3, <1>4, <1>5, <1>6, <1>7, <1>8 DEF Deliberate,
      OrphanSignals

\* SIGTERM, SIGKILL and the yield signal always have a committed reason
\* (process/runner.rs, run; daemon/coordinator.rs, reconcile_orphaned).
THEOREM SignalsHaveReasons ==
  ASSUME ~SlowStart
  PROVE  Spec => SignalsAreDeliberate
  <1>1. Inv /\ [Next]_vars => [Deliberate(signals')]_vars
    BY SignalStep, Zenon
  <1>. QED
    BY <1>1, AttemptInvariance, PTL DEF Spec, SignalsAreDeliberate, Deliberate

\* A result on disk decides how the attempt ends.
ByResult(next, res, canc) ==
    (/\ state \in LiveAttemptStates /\ next \in EndedAttemptStates
     /\ result # "none" /\ corrupt = {}
     /\ state = "authorized" => start
     /\ res = "no" /\ canc = cancel)
        => next = AttemptOutcome(result)

\* Only finalize_from_result ends an attempt that has a result, but for a failed
\* launch, which agrees with the one result a runner can have published by then.
LEMMA ResultStep ==
  ASSUME Inv
  PROVE  [Next]_vars => ByResult(state', resolved', cancel')
  <1> USE DEF row, dir, daemon, procs, handles, intents, marks, launchFiles,
    intentFiles, commitFiles, endFiles, memory, group
  <1>1. ASSUME YieldJob \/ PublishCancel \/ PublishYield \/ PublishStart \/ ReadNoResult
        \/ Launch \/ WaitForIdentity \/ OrphanSignals \/ RunningSupervised \/
        QuarantineStands \/ NothingToReconcile \/ Restart
      PROVE  state' = state
    BY <1>1, Zenon DEF YieldJob, PublishCancel, Written, PublishYield, PublishStart,
      ReadNoResult, CanReconcile, DeliveryObserved, Launch, Inspecting, WaitForIdentity,
      NoLiveRunnerAnnounced, InspectNothing, OrphanSignals, OrphanSignalled, Kill,
      TimeoutCommitted, group_possibly_alive, RunningSupervised, QuarantineStands,
      NothingToReconcile, Restart, NewDaemon
  <1>2. ASSUME Reboot \/ Damages \/ DeadlinePasses \/ UNCHANGED vars
      PROVE  state' = state
    BY <1>2, Zenon DEF Reboot, NewDaemon, Damages, Damage, Exists, DeadlinePasses, vars
  <1>3. ASSUME NEW r \in Runners, TakeLock(r) \/ Announce(r) \/ NotCancelled(r) \/
        ReadStart(r) \/ SpawnCommand(r) \/ PublishExec(r) \/ CancelledBeforeLaunch(r) \/
        ReadCorruptStart(r) \/ AuthorizationTimeout(r) \/ SpawnFails(r) \/ Conclude(r)
        \/ Observe(r)
      PROVE  state' = state
    BY <1>3, Zenon DEF TakeLock, NoSup, Announce, RunnerMoves, Written, NotCancelled,
      ReadStart, SpawnCommand, PublishExec, CancelledBeforeLaunch, PublishResult,
      ReadCorruptStart, AuthorizationTimeout, SpawnFails, Conclude, Conclusion, Empty,
      LeaderExited, Observe
  <1>4. ASSUME NEW r \in Runners, Control(r) \/ RecordYield(r) \/ PeekBeforeYield(r) \/
        SignalYield(r) \/ KillNow(r) \/ Sleep(r) \/ LeaderExits(r) \/ OthersExit(r) \/
        Forks(r) \/ RunnerDies(r) \/ DieCommitted(r)
      PROVE  state' = state
    BY <1>4, Zenon DEF Control, RunnerMoves, Written, Fires, Commits, RecordYield,
      PeekBeforeYield, LeaderExited, SignalYield, KillNow, Kill, Sleep, LeaderExits,
      CommandExits, OthersExit, Forks, RunnerDies, DieCommitted
  <1>5. ASSUME QuarantineCorruptResult \/ QuarantineCorruptIdentity \/
        QuarantineCorruptTimeout \/ Authorize \/ ReadExec \/ Orphan
      PROVE  state' \in LiveAttemptStates
    BY <1>5, ZenonT(30) DEF QuarantineCorruptResult, CanReconcile, Quarantined, DeliveryObserved,
      QuarantineCorruptIdentity, Inspecting, InspectQuarantines,
      QuarantineCorruptTimeout, Authorize, identity_alive, ReadExec, Written, Orphan,
      LiveAttemptStates, EndedAttemptStates, AdvancingStates
  <1>6. ASSUME Cancels \/ Resolves
      PROVE  ByResult(state', resolved', cancel')
    BY <1>6 DEF Cancels, Cancel, Resolves, RecoverResolve, group_possibly_alive, Inv,
      Types, Domains, Columns, ByResult, LiveAttemptStates, EndedAttemptStates,
      AdvancingStates, RowInv
  <1>7. ASSUME FinalizeFromResult
      PROVE  ByResult(state', resolved', cancel')
    BY <1>7 DEF FinalizeFromResult, CanReconcile, Finalized, DeliveryObserved, Inv,
      Types, Domains, Columns, ByResult, LiveAttemptStates, EndedAttemptStates,
      AdvancingStates
  <1>8. ASSUME LaunchFails \/ GiveUpOnRunner \/ FailUnpublished \/ OrphanDrained
      PROVE  ByResult(state', resolved', cancel')
    BY <1>8 DEF LaunchFails, Inspecting, InspectEnds, Finalized, GiveUpOnRunner,
      NoLiveRunnerAnnounced, FailUnpublished, identity_alive, OrphanDrained,
      TimeoutCommitted, group_possibly_alive, Inv, Types, Domains, Columns, ByResult,
      LiveAttemptStates, EndedAttemptStates, AdvancingStates, OutcomeInv, AttemptOutcome
  <1>. QED
    BY Cases, <1>1, <1>2, <1>3, <1>4, <1>5, <1>6, <1>7, <1>8, Zenon DEF ByResult,
      LiveAttemptStates, EndedAttemptStates, AdvancingStates

\* A valid result that is on disk when the coordinator ends the attempt is the
\* outcome it records (daemon/coordinator.rs, finalize_from_result,
\* reconcile_prepared, reconcile_orphaned).
THEOREM ResultsDecide ==
  ASSUME ~SlowStart
  PROVE  Spec => ResultDecides
  <1>1. Inv /\ [Next]_vars => [ByResult(state', resolved', cancel')]_vars
    BY ResultStep, Zenon
  <1>. QED
    BY <1>1, AttemptInvariance, PTL DEF Spec, ResultDecides, ByResult

------------------------------------------------------------------------------
(* The protocol implements the lifecycle.                                  *)

\* Every step of the protocol is a step of the lifecycle of the row, or none.
LEMMA LifecycleStep ==
  ASSUME Inv
  PROVE  [Next]_vars => [Lifecycle!Next]_(Lifecycle!vars)
  <1> USE DEF row, dir, daemon, procs, handles, intents, marks, launchFiles,
    intentFiles, commitFiles, endFiles, memory, group
  <1>1. ASSUME PublishCancel \/ PublishYield \/ PublishStart \/ ReadNoResult \/ Launch
        \/ WaitForIdentity \/ OrphanSignals \/ RunningSupervised \/ QuarantineStands \/
        NothingToReconcile \/ Restart \/ Reboot
      PROVE  UNCHANGED <<state, cancel, yieldRequested>>
    BY <1>1, Zenon DEF PublishCancel, Written, PublishYield, PublishStart, ReadNoResult,
      CanReconcile, DeliveryObserved, Launch, Inspecting, WaitForIdentity,
      NoLiveRunnerAnnounced, InspectNothing, OrphanSignals, OrphanSignalled, Kill,
      TimeoutCommitted, group_possibly_alive, RunningSupervised, QuarantineStands,
      NothingToReconcile, Restart, NewDaemon, Reboot
  <1>2. ASSUME Damages \/ DeadlinePasses \/ UNCHANGED vars
      PROVE  UNCHANGED <<state, cancel, yieldRequested>>
    BY <1>2, Zenon DEF Damages, Damage, Exists, DeadlinePasses, vars
  <1>3. ASSUME NEW r \in Runners, TakeLock(r) \/ Announce(r) \/ NotCancelled(r) \/
        ReadStart(r) \/ SpawnCommand(r) \/ PublishExec(r) \/ CancelledBeforeLaunch(r) \/
        ReadCorruptStart(r) \/ AuthorizationTimeout(r) \/ SpawnFails(r) \/ Conclude(r)
        \/ Observe(r)
      PROVE  UNCHANGED <<state, cancel, yieldRequested>>
    BY <1>3, Zenon DEF TakeLock, NoSup, Announce, RunnerMoves, Written, NotCancelled,
      ReadStart, SpawnCommand, PublishExec, CancelledBeforeLaunch, PublishResult,
      ReadCorruptStart, AuthorizationTimeout, SpawnFails, Conclude, Conclusion, Empty,
      LeaderExited, Observe
  <1>4. ASSUME NEW r \in Runners, Control(r) \/ RecordYield(r) \/ PeekBeforeYield(r) \/
        SignalYield(r) \/ KillNow(r) \/ Sleep(r) \/ LeaderExits(r) \/ OthersExit(r) \/
        Forks(r) \/ RunnerDies(r) \/ DieCommitted(r)
      PROVE  UNCHANGED <<state, cancel, yieldRequested>>
    BY <1>4, ZenonT(30) DEF Control, RunnerMoves, Written, Fires, Commits, RecordYield,
      PeekBeforeYield, LeaderExited, SignalYield, KillNow, Kill, Sleep, LeaderExits,
      CommandExits, OthersExit, Forks, RunnerDies, DieCommitted
  <1>5. ASSUME Cancels
      PROVE  [Lifecycle!Next]_(Lifecycle!vars)
    BY <1>5 DEF Cancels, Cancel, Inv, Types, Domains, Columns, Flags, RowFlags,
      Lifecycle!Next, Lifecycle!Move, LiveAttemptStates, EndedAttemptStates,
      AdvancingStates, Lifecycle!LiveAttemptStates, Lifecycle!AdvancingStates,
      Lifecycle!Cancel
  <1>6. ASSUME YieldJob
      PROVE  [Lifecycle!Next]_(Lifecycle!vars)
    BY <1>6 DEF YieldJob, Inv, Types, Domains, Columns, Flags, RowFlags, Lifecycle!Next,
      Lifecycle!Move, LiveAttemptStates, EndedAttemptStates, AdvancingStates,
      Lifecycle!LiveAttemptStates, Lifecycle!AdvancingStates, Lifecycle!Yield
  <1>7. ASSUME Resolves
      PROVE  [Lifecycle!Next]_(Lifecycle!vars)
    BY <1>7 DEF Resolves, RecoverResolve, group_possibly_alive, Inv, Types, Domains,
      Columns, Flags, RowFlags, Lifecycle!Next, Lifecycle!Move, LiveAttemptStates,
      EndedAttemptStates, AdvancingStates, Lifecycle!LiveAttemptStates,
      Lifecycle!AdvancingStates, Lifecycle!RecoverResolve
  <1>8. ASSUME FinalizeFromResult
      PROVE  [Lifecycle!Next]_(Lifecycle!vars)
    BY <1>8 DEF FinalizeFromResult, CanReconcile, Finalized, DeliveryObserved, Inv,
      Types, Domains, Columns, Flags, RowFlags, OutcomeInv, AttemptOutcome,
      Lifecycle!OutcomesOf, Results, Lifecycle!Next, Lifecycle!Move, LiveAttemptStates,
      EndedAttemptStates, AdvancingStates, Lifecycle!LiveAttemptStates,
      Lifecycle!AdvancingStates, Lifecycle!Finalize
  <1>9. ASSUME LaunchFails \/ GiveUpOnRunner \/ FailUnpublished \/ OrphanDrained
      PROVE  [Lifecycle!Next]_(Lifecycle!vars)
    BY <1>9, Zenon DEF LaunchFails, Inspecting, InspectEnds, Finalized, GiveUpOnRunner,
      NoLiveRunnerAnnounced, FailUnpublished, identity_alive, OrphanDrained,
      TimeoutCommitted, group_possibly_alive, Inv, Types, Domains, Columns, Flags,
      RowFlags, Lifecycle!OutcomesOf, Lifecycle!Next, Lifecycle!Move, LiveAttemptStates,
      EndedAttemptStates, AdvancingStates, Lifecycle!LiveAttemptStates,
      Lifecycle!AdvancingStates, Lifecycle!Finalize
  <1>10. ASSUME QuarantineCorruptResult \/ QuarantineCorruptIdentity \/
        QuarantineCorruptTimeout
      PROVE  [Lifecycle!Next]_(Lifecycle!vars)
    BY <1>10 DEF QuarantineCorruptResult, CanReconcile, Quarantined, DeliveryObserved,
      QuarantineCorruptIdentity, Inspecting, InspectQuarantines,
      QuarantineCorruptTimeout, Inv, Types, Domains, Columns, Flags, RowFlags,
      Lifecycle!Next, Lifecycle!Move, LiveAttemptStates, EndedAttemptStates,
      AdvancingStates, Lifecycle!LiveAttemptStates, Lifecycle!AdvancingStates,
      Lifecycle!Quarantine
  <1>11. ASSUME Authorize
      PROVE  [Lifecycle!Next]_(Lifecycle!vars)
    BY <1>11, Zenon DEF Authorize, Inspecting, identity_alive, Inv, Types, Domains, Columns,
      Flags, RowFlags, RowInv, Lifecycle!Next, Lifecycle!Move, LiveAttemptStates,
      EndedAttemptStates, AdvancingStates, Lifecycle!LiveAttemptStates,
      Lifecycle!AdvancingStates, Lifecycle!Authorize
  <1>12. ASSUME ReadExec
      PROVE  [Lifecycle!Next]_(Lifecycle!vars)
    BY <1>12 DEF ReadExec, Inspecting, Written, identity_alive, Inv, Types, Domains,
      Columns, Flags, RowFlags, Lifecycle!Next, Lifecycle!Move, LiveAttemptStates,
      EndedAttemptStates, AdvancingStates, Lifecycle!LiveAttemptStates,
      Lifecycle!AdvancingStates, Lifecycle!ObserveExec, Lifecycle!Quarantine,
      Lifecycle!vars
  <1>13. ASSUME Orphan
      PROVE  [Lifecycle!Next]_(Lifecycle!vars)
    BY <1>13 DEF Orphan, Inspecting, identity_alive, Inv, Types, Domains, Columns,
      Flags, RowFlags, Lifecycle!Next, Lifecycle!Move, LiveAttemptStates,
      EndedAttemptStates, AdvancingStates, Lifecycle!LiveAttemptStates,
      Lifecycle!AdvancingStates, Lifecycle!Orphan
  <1>. QED
    BY Cases, <1>1, <1>2, <1>3, <1>4, <1>5, <1>6, <1>7, <1>8, <1>9, <1>10, <1>11, <1>12,
      <1>13, Zenon DEF Lifecycle!vars

\* The protocol between coordinator, runner and attempt directory makes no step
\* of the row that the lifecycle, on which the queue is built, does not allow
\* (AttemptState and finalize_attempt_and_job).
THEOREM ProtocolImplementsLifecycle ==
  ASSUME ~SlowStart
  PROVE  Spec => ImplementsLifecycle
  <1>1. Init => Lifecycle!Init
    BY DEF Init, Lifecycle!Init
  <1>2. Inv /\ [Next]_vars => [Lifecycle!Next]_(Lifecycle!vars)
    BY LifecycleStep
  <1>. QED
    BY <1>1, <1>2, AttemptInvariance, PTL DEF Spec, ImplementsLifecycle, Lifecycle!Spec
==============================================================================
