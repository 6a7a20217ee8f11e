----------------------------- MODULE QueueProofs -----------------------------
(***************************************************************************)
(* What TLAPS proves about Queue for every number of jobs, every set of    *)
(* submissions and every kind of request.                                  *)
(***************************************************************************)
EXTENDS Queue, TLAPS, FiniteSetTheorems

Delays == {"none", "pending", "elapsed"}

\* The table holds finitely many jobs, and 0 is not the id of one.
LEMMA JobsFinite == IsFiniteSet(Jobs) /\ NoJob \notin Jobs
  <1>1. MaxJobs \in Nat
    BY BoundsAssumption
  <1>2. IsFiniteSet(1 .. MaxJobs)
    BY <1>1, FS_Interval
  <1>. QED
    BY <1>1, <1>2 DEF Jobs, NoJob

\* Sets of jobs can be counted.
LEMMA JobSetsFinite ==
    ASSUME NEW S, S \subseteq Jobs
    PROVE  IsFiniteSet(S) /\ Cardinality(S) \in Nat
  BY JobsFinite, FS_Subset, FS_CardinalityType

\* advance_dependency_graph keeps the columns it writes in their domains and
\* changes the state of waiting jobs only, to skipped.
LEMMA AdvanceFromKeepsTypes ==
    ASSUME NEW st \in [Jobs -> JobStates],
           NEW e \in [Jobs -> [Jobs -> EdgeStates]],
           NEW ready \in [Jobs -> Nat],
           NEW counter \in Nat,
           NEW dl,
           AdvanceFrom(st, e, ready, counter, dl)
    PROVE  /\ jobState' \in [Jobs -> JobStates]
           /\ edges' \in [Jobs -> [Jobs -> EdgeStates]]
           /\ readySeq' \in [Jobs -> Nat]
           /\ readyCounter' \in Nat
           /\ \A j \in Jobs : \/ jobState'[j] = st[j]
                              \/ st[j] \in WaitingStates /\ jobState'[j] = "skipped"
  <1> DEFINE skipped == SkippedBy(st, e)
             after == StatesAfter(st, skipped)
             latched == Latched(after, e)
             cleared == [c \in Jobs |-> IF c \in skipped THEN 0 ELSE ready[c]]
             new == NewlyReady(after, latched, cleared, dl)
  <1>1. /\ jobState' = after
        /\ edges' = latched
        /\ readySeq' = ReadyAfter(ready, skipped, new, counter)
        /\ readyCounter' = counter + Cardinality(new)
    BY DEF AdvanceFrom
  <1>2. \A c \in skipped : c \in Jobs /\ st[c] \in WaitingStates
    BY DEF SkippedBy
  <1>3. /\ after \in [Jobs -> JobStates]
        /\ \A j \in Jobs : \/ after[j] = st[j]
                           \/ st[j] \in WaitingStates /\ after[j] = "skipped"
    <2> HIDE DEF skipped
    <2>. QED
      BY <1>2 DEF StatesAfter, JobStates, TerminalStates
  <1>4. latched \in [Jobs -> [Jobs -> EdgeStates]]
    <2> HIDE DEF after
    <2>1. \A c, p \in Jobs : Resolve(e[c][p], after[p]) \in EdgeStates
      BY DEF Resolve, EdgeStates, Conditions
    <2>. QED
      BY <1>3, <2>1 DEF Latched
  <1>5. new \subseteq Jobs
    <2> HIDE DEF after, latched, cleared
    <2>. QED
      BY <1>3 DEF NewlyReady
  <1>6. Cardinality(new) \in Nat /\ \A c \in Jobs : Cardinality({d \in new : d <= c}) \in Nat
    <2> HIDE DEF new
    <2>. QED
      BY <1>5, JobSetsFinite
  <1>7. ReadyAfter(ready, skipped, new, counter) \in [Jobs -> Nat]
    <2> HIDE DEF new, skipped
    <2>. QED
      BY <1>6 DEF ReadyAfter
  <1> HIDE DEF after, latched, new, skipped
  <1>. QED
    BY <1>1, <1>3, <1>4, <1>6, <1>7

\* The job state after a finalization is a waiting or an ended one.
LEMMA JobAfterType ==
    ASSUME NEW j \in Jobs, NEW delivered \in BOOLEAN,
           NEW outcome \in {"succeeded", "failed", "cancelled", "lost", "yielded"}
    PROVE  JobAfter(j, outcome, delivered) \in WaitingStates \cup TerminalStates
  BY DEF JobAfter, WaitingStates, TerminalStates

------------------------------------------------------------------------------
(* Type correctness.                                                       *)

\* Every mutation ends like this.
LEMMA ThenTickType ==
    ASSUME TypeOK, ThenTick
    PROVE  /\ pc' \in {"idle", "reconcile", "schedule", "planning", "launch"}
           /\ todo' \in SUBSET Jobs
           /\ plan' \in Plans
           /\ admissionBlocked' \in BOOLEAN
  BY DEF TypeOK, ThenTick

\* The row that stands for no reservation is a reservation.
LEMMA NoReservationType == NoReservation \in Reservations
  BY DEF NoReservation, Reservations, Unfrozen, NoJob

\* The locals of plan_pass start in their domain.
LEMMA NoPlanType == NoPlan \in Plans
  BY DEF NoPlan, Plans, Unfrozen, NoJob

\* An empty database, and a coordinator about to tick, have the right types.
LEMMA InitTypeOK == Init => TypeOK
  <1> SUFFICES ASSUME Init PROVE TypeOK
    OBVIOUS
  <1>1. /\ lastJob \in 0 .. MaxJobs
        /\ limit \in [Jobs -> Nat \ {0}]
        /\ priority \in [Jobs -> Int]
        /\ readySeq \in [Jobs -> Nat] /\ readyCounter \in Nat
        /\ attemptCount \in [Jobs -> Nat] /\ yieldCount \in [Jobs -> Nat]
        /\ lease \in [Jobs -> Nat]
    BY BoundsAssumption DEF Init
  <1>2. /\ jobState \in [Jobs -> JobStates]
        /\ edges \in [Jobs -> [Jobs -> EdgeStates]]
        /\ delay \in [Jobs -> Delays]
        /\ attempt \in [Jobs -> LiveAttemptStates \cup {"none"}]
        /\ yieldRequested \in [Jobs -> {"no", "requeue", "hold"}]
        /\ pc \in {"idle", "reconcile", "schedule", "planning", "launch"}
        /\ todo \in SUBSET Jobs
    BY DEF Init, JobStates, EdgeStates, Delays
  <1>3. policy \in [Jobs -> Policies]
    BY DEF Init, Policies
  <1>4. /\ cancelRequested \in [Jobs -> BOOLEAN]
        /\ paused \in BOOLEAN /\ admissionBlocked \in BOOLEAN
    BY Zenon DEF Init
  <1>5. reservation \in Reservations /\ plan \in Plans
    BY NoReservationType, NoPlanType DEF Init
  <1>. QED
    BY <1>1, <1>2, <1>3, <1>4, <1>5 DEF TypeOK, Delays

\* Dropping the reservation of a job that is edited leaves a reservation.
LEMMA InvalidateType ==
    ASSUME TypeOK, NEW j \in Jobs, InvalidateIfProtected(j)
    PROVE  reservation' \in Reservations
  BY NoReservationType DEF TypeOK, InvalidateIfProtected

\* Finalizing an attempt keeps the attempt and lease columns in their domains.
LEMMA EndAttemptType ==
    ASSUME TypeOK, NEW j \in Jobs, EndAttempt(j)
    PROVE  /\ attempt' \in [Jobs -> LiveAttemptStates \cup {"none"}]
           /\ lease' \in [Jobs -> Nat]
           /\ cancelRequested' \in [Jobs -> BOOLEAN]
           /\ yieldRequested' \in [Jobs -> {"no", "requeue", "hold"}]
  BY DEF TypeOK, EndAttempt

\* The graph update at the end of a transaction keeps its columns in their domains.
LEMMA AdvanceType ==
    ASSUME TypeOK, NEW st \in [Jobs -> JobStates], NEW ready \in [Jobs -> Nat],
           Advance(st, ready)
    PROVE  /\ jobState' \in [Jobs -> JobStates]
           /\ edges' \in [Jobs -> [Jobs -> EdgeStates]]
           /\ readySeq' \in [Jobs -> Nat]
           /\ readyCounter' \in Nat
  BY AdvanceFromKeepsTypes, Zenon DEF Advance, TypeOK

\* Every client mutation keeps the types.
LEMMA MutationTypeOK == TypeOK /\ Mutation => TypeOK'
  <1> SUFFICES ASSUME TypeOK, Mutation PROVE TypeOK'
    OBVIOUS
  <1> USE DEF graphVars, rowVars, attemptVars, dbVars
  <1>1. ASSUME NEW r \in Submissions, Submit(r) PROVE TypeOK'
    <2> DEFINE j == lastJob + 1
    <2>1. r \in SubmitParams /\ j \in Jobs
      BY <1>1, InputsAssumption DEF Submit
    <2>2. [p \in Jobs |-> EdgeOf(r.deps, p)] \in [Jobs -> EdgeStates]
      BY DEF EdgeOf, EdgeStates, Conditions
    <2>3. /\ jobState' \in [Jobs -> JobStates]
          /\ edges' \in [Jobs -> [Jobs -> EdgeStates]]
          /\ readySeq' \in [Jobs -> Nat]
          /\ readyCounter' \in Nat
      <3>1. [jobState EXCEPT ![j] = "queued"] \in [Jobs -> JobStates]
        BY <2>1 DEF TypeOK, JobStates, WaitingStates
      <3>2. [edges EXCEPT ![j] = [p \in Jobs |-> EdgeOf(r.deps, p)]]
                \in [Jobs -> [Jobs -> EdgeStates]]
        BY <2>1, <2>2 DEF TypeOK
      <3>3. [readySeq EXCEPT ![j] = IF r.deps = {} THEN readyCounter + 1 ELSE 0]
                \in [Jobs -> Nat]
        BY <2>1 DEF TypeOK
      <3>4. (IF r.deps = {} THEN readyCounter + 1 ELSE readyCounter) \in Nat
        BY DEF TypeOK
      <3>. QED
        BY <1>1, <3>1, <3>2, <3>3, <3>4, AdvanceFromKeepsTypes, Zenon DEF Submit
    <2>4. /\ lastJob' \in 0 .. MaxJobs
          /\ limit' \in [Jobs -> Nat \ {0}]
          /\ priority' \in [Jobs -> Int]
          /\ policy' \in [Jobs -> Policies]
      <3>1. lastJob' = j /\ j \in 1 .. MaxJobs
        BY <1>1, <2>1 DEF Submit, Jobs
      <3>2. r.limit \in Nat \ {0} /\ r.priority \in Int /\ r.policy \in Policies
        BY <2>1 DEF SubmitParams
      <3>. QED
        BY <1>1, <3>1, <3>2, BoundsAssumption DEF Submit, TypeOK
    <2>. QED
      BY <1>1, <2>3, <2>4, ThenTickType DEF Submit, TypeOK
  <1>2. ASSUME NEW j \in Jobs, Hold(j) PROVE TypeOK'
    BY <1>2, InvalidateType, ThenTickType DEF Hold, TypeOK, JobStates, WaitingStates
  <1>3. ASSUME NEW j \in Jobs, Release(j) PROVE TypeOK'
    BY <1>3, ThenTickType DEF Release, TypeOK, JobStates, WaitingStates
  <1>4. ASSUME NEW j \in Jobs, Retry(j) PROVE TypeOK'
    <2>1. /\ [jobState EXCEPT ![j] = "queued"] \in [Jobs -> JobStates]
          /\ [readySeq EXCEPT ![j] = 0] \in [Jobs -> Nat]
      BY DEF TypeOK, JobStates, WaitingStates
    <2>. QED
      BY <1>4, <2>1, AdvanceType, ThenTickType, Zenon DEF Retry, TypeOK
  <1>5. ASSUME NEW j \in Jobs, NEW v \in Limits, SetMaxParallelRuns(j, v) PROVE TypeOK'
    BY <1>5, InputsAssumption, InvalidateType, ThenTickType, Zenon DEF SetMaxParallelRuns, TypeOK
  <1>6. ASSUME NEW j \in Jobs, NEW v \in Priorities, SetPriority(j, v) PROVE TypeOK'
    BY <1>6, InputsAssumption, InvalidateType, ThenTickType DEF SetPriority, TypeOK
  <1>7. ASSUME NEW j \in Jobs, CancelWaiting(j) PROVE TypeOK'
    <2>1. [jobState EXCEPT ![j] = "cancelled"] \in [Jobs -> JobStates]
      BY DEF TypeOK, JobStates, TerminalStates
    <2>. QED
      BY <1>7, <2>1, AdvanceType, InvalidateType, ThenTickType, Zenon DEF CancelWaiting, TypeOK
  <1>8. ASSUME NEW j \in Jobs, CancelPrepared(j) PROVE TypeOK'
    <2>1. [jobState EXCEPT ![j] = "cancelled"] \in [Jobs -> JobStates]
      BY DEF TypeOK, JobStates, TerminalStates
    <2>. QED
      BY <1>8, <2>1, AdvanceType, EndAttemptType, ThenTickType, Zenon DEF CancelPrepared, TypeOK
  <1>9. ASSUME NEW j \in Jobs, CancelLive(j) PROVE TypeOK'
    BY <1>9, ThenTickType DEF CancelLive, TypeOK
  <1>10. ASSUME NEW j \in Jobs, NEW mode \in {"requeue", "hold"}, Yield(j, mode)
         PROVE  TypeOK'
    BY <1>10, ThenTickType DEF Yield, TypeOK
  <1>11. ASSUME NEW j \in Jobs, NEW outcome \in {"lost", "cancelled"},
                RecoverResolve(j, outcome)
         PROVE  TypeOK'
    <2>1. [jobState EXCEPT ![j] = outcome] \in [Jobs -> JobStates]
      BY DEF TypeOK, JobStates, TerminalStates
    <2>. QED
      BY <1>11, <2>1, AdvanceType, EndAttemptType, ThenTickType, Zenon DEF RecoverResolve, TypeOK
  <1>12. ASSUME NEW v \in BOOLEAN, SetPaused(v) PROVE TypeOK'
    BY <1>12, ThenTickType DEF SetPaused, TypeOK
  <1>. QED
    BY <1>1, <1>2, <1>3, <1>4, <1>5, <1>6, <1>7, <1>8, <1>9, <1>10, <1>11, <1>12
       DEF Mutation

\* Every reconciliation and every launch is one visit of the loop.
LEMMA VisitType ==
    ASSUME TypeOK, NEW phase, NEW j \in Jobs, Visit(phase, j)
    PROVE  /\ reservation' \in Reservations
           /\ paused' \in BOOLEAN
           /\ pc' \in {"idle", "reconcile", "schedule", "planning", "launch"}
           /\ todo' \in SUBSET Jobs
           /\ plan' \in Plans
           /\ admissionBlocked' \in BOOLEAN
  BY DEF TypeOK, Visit

\* So does moving an attempt and its job from one phase to the next.
LEMMA MoveAttemptTypeOK ==
    ASSUME TypeOK, NEW j \in Jobs, NEW state \in LiveAttemptStates, NEW js \in LiveStates,
           MoveAttempt(j, state, js)
    PROVE  TypeOK'
  <1> USE DEF rowVars
  <1>1. Visit("reconcile", j)
    BY DEF MoveAttempt
  <1>. QED
    BY <1>1, VisitType DEF MoveAttempt, TypeOK, JobStates

\* So does finalize_attempt_and_job, whatever the outcome.
LEMMA FinalizeTypeOK ==
    ASSUME TypeOK, NEW j \in Jobs, NEW delivered \in BOOLEAN, NEW phase,
           NEW outcome \in {"succeeded", "failed", "cancelled", "lost", "yielded"},
           Visit(phase, j), FinalizeAttemptAndJob(j, outcome, delivered)
    PROVE  TypeOK'
  <1> DEFINE after == JobAfter(j, outcome, delivered)
             requeued == after \in WaitingStates
             wait == IF outcome = "failed" /\ policy[j].retryDelay THEN "pending" ELSE "none"
             ready == IF requeued THEN [readySeq EXCEPT ![j] = 0] ELSE readySeq
  <1>1. /\ EndAttempt(j)
        /\ yieldCount' = [yieldCount EXCEPT ![j] =
                              yieldCount[j] + (IF outcome = "yielded" THEN 1 ELSE 0)]
        /\ delay' = IF requeued THEN [delay EXCEPT ![j] = wait] ELSE delay
        /\ Advance([jobState EXCEPT ![j] = after], ready)
        /\ UNCHANGED <<lastJob, limit, priority, policy, attemptCount>>
    BY DEF FinalizeAttemptAndJob
  <1>2. [jobState EXCEPT ![j] = after] \in [Jobs -> JobStates]
    <2>1. after \in JobStates
      BY JobAfterType DEF JobStates
    <2> HIDE DEF after
    <2>. QED
      BY <2>1 DEF TypeOK
  <1>3. ready \in [Jobs -> Nat]
    <2> HIDE DEF requeued
    <2>. QED
      BY DEF TypeOK
  <1>4. delay' \in [Jobs -> Delays]
    <2>1. wait \in Delays
      BY DEF Delays
    <2> HIDE DEF wait, requeued
    <2>. QED
      BY <1>1, <2>1 DEF TypeOK, Delays
  <1>5. yieldCount' \in [Jobs -> Nat]
    BY <1>1 DEF TypeOK
  <1> HIDE DEF after, requeued, wait, ready
  <1>6. /\ jobState' \in [Jobs -> JobStates]
        /\ edges' \in [Jobs -> [Jobs -> EdgeStates]]
        /\ readySeq' \in [Jobs -> Nat]
        /\ readyCounter' \in Nat
    BY <1>1, <1>2, <1>3, AdvanceType, Zenon
  <1>7. /\ attempt' \in [Jobs -> LiveAttemptStates \cup {"none"}]
        /\ lease' \in [Jobs -> Nat]
        /\ cancelRequested' \in [Jobs -> BOOLEAN]
        /\ yieldRequested' \in [Jobs -> {"no", "requeue", "hold"}]
    BY <1>1, EndAttemptType
  <1>. QED
    BY <1>1, <1>4, <1>5, <1>6, <1>7, VisitType DEF TypeOK, Delays

\* So does every step of the reconciliation loop.
LEMMA ReconcileTypeOK == TypeOK /\ Reconcile => TypeOK'
  <1> SUFFICES ASSUME TypeOK, Reconcile PROVE TypeOK'
    OBVIOUS
  <1>1. ASSUME NEW j \in Jobs, ReconcileNothing(j) PROVE TypeOK'
    BY <1>1, VisitType
       DEF ReconcileNothing, TypeOK, graphVars, rowVars, attemptVars
  <1>2. ASSUME NEW j \in Jobs,
               Authorize(j) \/ ObserveExec(j) \/ Orphan(j) \/ Quarantine(j)
        PROVE  TypeOK'
    BY <1>2, MoveAttemptTypeOK
       DEF Authorize, ObserveExec, Orphan, Quarantine, LiveAttemptStates, AdvancingStates,
           LiveStates
  <1>3. ASSUME NEW j \in Jobs, NEW delivered \in BOOLEAN,
               NEW outcome \in {"succeeded", "failed", "cancelled", "lost", "yielded"},
               Finalize(j, outcome, delivered)
        PROVE  TypeOK'
    BY <1>3, FinalizeTypeOK DEF Finalize
  <1>. QED
    BY <1>1, <1>2, <1>3 DEF Reconcile

\* What a pass writes to the reservation tables is a reservation.
LEMMA ReservationAfterType ==
    ASSUME TypeOK
    PROVE  ReservationAfter \in Reservations
  <1> DEFINE held == {[job |-> j, number |-> attemptCount[j]] : j \in Holders}
             begun == {[job |-> j, number |-> attemptCount[j] + 1] :
                           j \in plan.starts \ BypassesOf(plan.create)}
             cutoff == IF plan.freeze /\ reservation.cutoff = Unfrozen
                       THEN plan.cutoff ELSE reservation.cutoff
  <1>1. \A p : BypassesOf(p) \subseteq Jobs
    BY DEF BypassesOf, TypeOK, Plans
  <1>2. held \subseteq [job : Jobs, number : Nat]
    BY DEF Holders, TypeOK
  <1>3. begun \subseteq [job : Jobs, number : Nat]
    BY DEF TypeOK, Plans
  <1>4. cutoff \in Nat
    BY DEF TypeOK, Plans, Reservations
  <1>5. CASE plan.create # NoJob
    <2>1. ReservationAfter = [job |-> plan.create, cutoff |-> Unfrozen, foreign |-> FALSE,
                              blockers |-> held \cup begun,
                              consumed |-> plan.seed \cup BypassesOf(plan.create)]
      BY <1>5 DEF ReservationAfter
    <2> HIDE DEF held, begun
    <2>. QED
      BY <1>1, <1>2, <1>3, <2>1 DEF TypeOK, Plans, Reservations, Unfrozen
  <1>6. CASE plan.create = NoJob
    <2> DEFINE consumed == reservation.consumed \cup BypassesOf(reservation.job)
               kept == [reservation EXCEPT !.cutoff = cutoff, !.consumed = consumed]
    <2>1. ReservationAfter = NoReservation \/ ReservationAfter = kept
      BY <1>6 DEF ReservationAfter
    <2>2. consumed \in SUBSET Jobs
      BY <1>1 DEF TypeOK, Reservations
    <2> HIDE DEF cutoff, consumed
    <2>3. kept \in Reservations
      BY <1>4, <2>2, Zenon DEF TypeOK, Reservations
    <2>. QED
      BY <2>1, <2>3, NoReservationType
  <1>. QED
    BY <1>5, <1>6

\* Every step of the scheduling pass keeps the types.
LEMMA PassTypeOK == TypeOK /\ Pass => TypeOK'
  <1> SUFFICES ASSUME TypeOK, Pass PROVE TypeOK'
    OBVIOUS
  <1> USE DEF graphVars, rowVars, attemptVars, dbVars
  <1>1. CASE PassBlocked
    BY <1>1 DEF PassBlocked, TypeOK
  <1>2. CASE PassPaused
    BY <1>2, Zenon DEF PassPaused, TypeOK
  <1>3. CASE BeginPass
    <2>1. plan' \in Plans
      <3> DEFINE dropped == Ineligible \/ Superseded
                 pending == FreezePending
                 protected == IF dropped THEN NoJob ELSE reservation.job
                 cutoff == IF pending THEN readyCounter ELSE reservation.cutoff
      <3>1. dropped \in BOOLEAN /\ pending \in BOOLEAN
        BY DEF FreezePending
      <3>2. protected \in Jobs \cup {NoJob} /\ cutoff \in Nat
        BY DEF TypeOK, Reservations
      <3>3. Eligible \subseteq Jobs /\ Holders \subseteq Jobs /\ reservation.consumed \subseteq Jobs
        BY DEF Eligible, Holders, TypeOK, Reservations
      <3>4. plan' = [NoPlan EXCEPT !.eligible = Eligible, !.protected = protected,
                        !.cutoff = cutoff, !.consumed = reservation.consumed,
                        !.existing = TRUE, !.shadow = Holders, !.invalidate = dropped,
                        !.freeze = pending]
        BY <1>3 DEF BeginPass
      <3> HIDE DEF dropped, pending, protected, cutoff
      <3>. QED
        BY <3>1, <3>2, <3>3, <3>4, NoPlanType, Zenon DEF Plans
    <2>. QED
      BY <1>3, <2>1, Zenon DEF BeginPass, TypeOK
  <1>4. CASE StartProtected
    <2>1. plan' \in Plans
      BY <1>4, Zenon DEF StartProtected, PlanStart, TypeOK, Plans
    <2>. QED
      BY <1>4, <2>1 DEF StartProtected, TypeOK
  <1>5. CASE StartBackfill
    <2>1. PICK c \in Backfills :
              plan' = [PlanStart(c, plan.protected) EXCEPT !.consumed = @ \cup {c}]
      BY <1>5, Zenon DEF StartBackfill
    <2>2. c \in Jobs
      BY DEF Backfills, Unstarted, TypeOK, Plans
    <2>3. plan' \in Plans
      BY <2>1, <2>2, Zenon DEF PlanStart, TypeOK, Plans
    <2>. QED
      BY <1>5, <2>3 DEF StartBackfill, TypeOK
  <1>6. CASE StartHead
    <2>1. PICK h \in Unstarted : plan' = PlanStart(h, NoJob)
      BY <1>6 DEF StartHead
    <2>2. h \in Jobs
      BY DEF Unstarted, TypeOK, Plans
    <2>3. plan' \in Plans
      BY <2>1, <2>2, Zenon DEF PlanStart, TypeOK, Plans
    <2>. QED
      BY <1>6, <2>3 DEF StartHead, TypeOK
  <1>7. CASE ProtectHead
    <2>1. PICK h \in Unstarted :
            plan' = [plan EXCEPT !.protected = h, !.cutoff = Unfrozen, !.existing = FALSE,
                                 !.consumed = plan.shadow, !.create = h, !.seed = plan.shadow]
      BY <1>7, Zenon DEF ProtectHead
    <2>2. plan' \in Plans
      BY <2>1, Zenon DEF Unstarted, Unfrozen, TypeOK, Plans
    <2>. QED
      BY <1>7, <2>2 DEF ProtectHead, TypeOK
  <1>8. CASE CommitPass
    <2>1. ReservationAfter \in Reservations
      BY ReservationAfterType
    <2>2. plan.starts \subseteq Jobs
      BY DEF TypeOK, Plans
    <2>3. /\ attempt' \in [Jobs -> LiveAttemptStates \cup {"none"}]
          /\ lease' \in [Jobs -> Nat]
          /\ jobState' \in [Jobs -> JobStates]
          /\ attemptCount' \in [Jobs -> Nat]
      BY <1>8 DEF CommitPass, TypeOK, LiveAttemptStates, AdvancingStates, JobStates, LiveStates
    <2>. QED
      BY <1>8, <2>1, <2>2, <2>3, NoPlanType DEF CommitPass, TypeOK
  <1>9. CASE LaunchesDone
    BY <1>9 DEF LaunchesDone, TypeOK
  <1>. QED
    BY <1>1, <1>2, <1>3, <1>4, <1>5, <1>6, <1>7, <1>8, <1>9 DEF Pass

\* So do ticks, restarts, launches, the graph update and the clock.
LEMMA OtherStepsTypeOK ==
    ASSUME TypeOK,
           \/ Tick
           \/ \E foreign \in BOOLEAN : Restart(foreign)
           \/ AdvanceGraph
           \/ Launches
           \/ Clock
           \/ UNCHANGED vars
    PROVE  TypeOK'
  <1> USE DEF graphVars, rowVars, attemptVars, dbVars
  <1>1. CASE Tick
    BY <1>1, ThenTickType DEF Tick, TypeOK
  <1>2. ASSUME NEW foreign \in BOOLEAN, Restart(foreign) PROVE TypeOK'
    <2>1. reservation' \in Reservations
      <3>1. (foreign /\ reservation.job # NoJob) \in BOOLEAN
        OBVIOUS
      <3>. QED
        BY <1>2, <3>1, Zenon DEF Restart, TypeOK, Reservations
    <2>2. LiveAttempts \subseteq Jobs
      BY DEF LiveAttempts
    <2>. QED
      BY <1>2, <2>1, <2>2, NoPlanType, Zenon DEF Restart, TypeOK
  <1>3. CASE AdvanceGraph
    BY <1>3, AdvanceType, Zenon DEF AdvanceGraph, TypeOK
  <1>4. ASSUME NEW j \in Jobs, Launch(j) PROVE TypeOK'
    BY <1>4, VisitType DEF Launch, TypeOK
  <1>5. ASSUME NEW j \in Jobs, LaunchFails(j) PROVE TypeOK'
    BY <1>5, FinalizeTypeOK, Zenon DEF LaunchFails
  <1>6. CASE Clock
    BY <1>6, ZenonT(30) DEF Clock, DelayElapses, ClockStepsBack, TypeOK
  <1>7. CASE UNCHANGED vars
    BY <1>7 DEF vars, TypeOK
  <1>. QED
    BY <1>1, <1>2, <1>3, <1>4, <1>5, <1>6, <1>7 DEF Launches

\* Every column keeps its domain, whatever the coordinator does and whenever
\* it is killed.
THEOREM TypeCorrect == Spec => []TypeOK
  <1>1. TypeOK /\ [Next]_vars => TypeOK'
    BY MutationTypeOK, ReconcileTypeOK, PassTypeOK, OtherStepsTypeOK DEF Next
  <1>. QED
    BY InitTypeOK, <1>1, PTL DEF Spec

------------------------------------------------------------------------------
(* The inductive invariant: the tables agree, the loops visit live attempts *)
(* and the plan in progress is consistent with the tables.                 *)

Inv == TypeOK /\ TablesAgree /\ LoopInv /\ PlanInv

\* The tables agree and rows are created in order, with the job states st
\* before the dependency graph is advanced and the other columns after the step.
AgreeBeforeAdvance(st) ==
    \A j \in Jobs :
        /\ lease'[j] = IF attempt'[j] = "none" THEN 0 ELSE limit'[j]
        /\ st[j] = "starting" <=> attempt'[j] \in {"prepared", "authorized"}
        /\ st[j] = "running" <=> attempt'[j] = "running"
        /\ st[j] = "needs_attention" <=> attempt'[j] \in {"orphaned", "quarantined"}
        /\ j > lastJob' => st[j] = "absent"

\* Skipping a waiting job disturbs neither.
LEMMA AdvanceFromAgrees ==
    ASSUME NEW st \in [Jobs -> JobStates],
           NEW e \in [Jobs -> [Jobs -> EdgeStates]],
           NEW ready \in [Jobs -> Nat],
           NEW counter \in Nat,
           NEW dl,
           AdvanceFrom(st, e, ready, counter, dl),
           AgreeBeforeAdvance(st)
    PROVE  TablesAgree' /\ \A j \in Jobs : j > lastJob' => jobState'[j] = "absent"
  <1>1. \A j \in Jobs : \/ jobState'[j] = st[j]
                        \/ st[j] \in {"queued", "held"} /\ jobState'[j] = "skipped"
    BY AdvanceFromKeepsTypes, Zenon DEF WaitingStates
  <1>. QED
    BY <1>1 DEF AgreeBeforeAdvance, TablesAgree

\* The graph update ends waiting jobs only, so it leaves attempts and jobs in agreement.
LEMMA AdvanceAgrees ==
    ASSUME TypeOK, NEW st \in [Jobs -> JobStates], NEW ready \in [Jobs -> Nat],
           Advance(st, ready), AgreeBeforeAdvance(st)
    PROVE  TablesAgree' /\ \A j \in Jobs : j > lastJob' => jobState'[j] = "absent"
  BY AdvanceFromAgrees, Zenon DEF Advance, TypeOK

\* The tick after a mutation starts its loop with the live attempts.
LEMMA ThenTickLoop ==
    ASSUME ThenTick, \A j \in Jobs : j > lastJob' => jobState'[j] = "absent"
    PROVE  LoopInv' /\ PlanInv'
  BY DEF ThenTick, LoopInv, PlanInv, LiveAttempts

\* Ending the attempt of j, in a transaction that leaves the job waiting or ended.
LEMMA EndAttemptAgrees ==
    ASSUME Inv, NEW j \in Jobs, attempt[j] # "none", EndAttempt(j),
           NEW js \in WaitingStates \cup TerminalStates,
           limit' = limit, lastJob' = lastJob
    PROVE  AgreeBeforeAdvance([jobState EXCEPT ![j] = js])
  <1>1. js \notin {"starting", "running", "needs_attention"}
    BY DEF WaitingStates, TerminalStates
  <1>2. ~(j > lastJob)
    BY DEF Inv, TypeOK, TablesAgree, LoopInv, LiveAttemptStates, AdvancingStates
  <1>. QED
    BY <1>1, <1>2 DEF Inv, TypeOK, TablesAgree, LoopInv, EndAttempt, AgreeBeforeAdvance

\* Every client mutation preserves the invariant.
LEMMA MutationInv == Inv /\ Mutation => Inv'
  <1> SUFFICES ASSUME Inv, Mutation PROVE TablesAgree' /\ LoopInv' /\ PlanInv'
    BY MutationTypeOK DEF Inv
  <1> USE DEF graphVars, rowVars, attemptVars, dbVars
  <1>0. TypeOK
    BY DEF Inv
  <1>1. ASSUME NEW r \in Submissions, Submit(r) PROVE TablesAgree' /\ LoopInv' /\ PlanInv'
    <2> DEFINE j == lastJob + 1
               st == [jobState EXCEPT ![j] = "queued"]
    <2>1. r \in SubmitParams /\ j \in Jobs
      BY <1>1, InputsAssumption DEF Submit
    <2>2. st \in [Jobs -> JobStates]
      BY <1>0, <2>1 DEF TypeOK, JobStates, WaitingStates
    <2>3. [edges EXCEPT ![j] = [p \in Jobs |-> EdgeOf(r.deps, p)]]
              \in [Jobs -> [Jobs -> EdgeStates]]
      BY <1>0, <2>1 DEF TypeOK, EdgeOf, EdgeStates, Conditions
    <2>4. [readySeq EXCEPT ![j] = IF r.deps = {} THEN readyCounter + 1 ELSE 0]
              \in [Jobs -> Nat]
      BY <1>0, <2>1 DEF TypeOK
    <2>5. (IF r.deps = {} THEN readyCounter + 1 ELSE readyCounter) \in Nat
      BY <1>0 DEF TypeOK
    <2>6. AgreeBeforeAdvance(st)
      <3>1. lastJob' = j /\ lastJob \in Nat /\ j > lastJob
        BY <1>0, <1>1, BoundsAssumption DEF Submit, TypeOK
      <3>2. attempt[j] = "none" /\ lease[j] = 0 /\ jobState[j] = "absent"
        BY <1>0, <2>1, <3>1, Zenon DEF Inv, TypeOK, TablesAgree, LoopInv, LiveAttemptStates,
                                AdvancingStates
      <3>3. limit' = [limit EXCEPT ![j] = r.limit] /\ attempt' = attempt /\ lease' = lease
        BY <1>1 DEF Submit
      <3>4. \A k \in Jobs : k > j => k > lastJob /\ k # j
        BY <3>1, SMTT(30) DEF Jobs
      <3>. QED
        BY <1>0, <2>1, <3>1, <3>2, <3>3, <3>4, ZenonT(30)
           DEF Inv, TypeOK, TablesAgree, LoopInv, AgreeBeforeAdvance
    <2>7. AdvanceFrom(st, [edges EXCEPT ![j] = [p \in Jobs |-> EdgeOf(r.deps, p)]],
                      [readySeq EXCEPT ![j] = IF r.deps = {} THEN readyCounter + 1 ELSE 0],
                      IF r.deps = {} THEN readyCounter + 1 ELSE readyCounter, delay)
          /\ ThenTick
      BY <1>1 DEF Submit
    <2> HIDE DEF st, j
    <2>. QED
      BY <2>2, <2>3, <2>4, <2>5, <2>6, <2>7, AdvanceFromAgrees, ThenTickLoop, Zenon
  <1>2. ASSUME NEW j \in Jobs, Hold(j) \/ Release(j)
        PROVE  TablesAgree' /\ LoopInv' /\ PlanInv'
    <2>1. TablesAgree' /\ \A k \in Jobs : k > lastJob' => jobState'[k] = "absent"
      BY <1>0, <1>2 DEF Hold, Release, Inv, TypeOK, TablesAgree, LoopInv
    <2>. QED
      BY <1>2, <2>1, ThenTickLoop DEF Hold, Release
  <1>3. ASSUME NEW j \in Jobs, Retry(j) PROVE TablesAgree' /\ LoopInv' /\ PlanInv'
    <2> DEFINE st == [jobState EXCEPT ![j] = "queued"]
    <2>1. st \in [Jobs -> JobStates] /\ [readySeq EXCEPT ![j] = 0] \in [Jobs -> Nat]
      BY <1>0, Zenon DEF TypeOK, JobStates, WaitingStates
    <2>2. AgreeBeforeAdvance(st)
      BY <1>0, <1>3, ZenonT(30) DEF Retry, Inv, TypeOK, TablesAgree, LoopInv, AgreeBeforeAdvance
    <2>3. Advance(st, [readySeq EXCEPT ![j] = 0]) /\ ThenTick
      BY <1>3 DEF Retry
    <2> HIDE DEF st
    <2>. QED
      BY <1>0, <2>1, <2>2, <2>3, AdvanceAgrees, ThenTickLoop, Zenon
  <1>4. ASSUME NEW j \in Jobs, NEW v \in Limits, SetMaxParallelRuns(j, v)
        PROVE  TablesAgree' /\ LoopInv' /\ PlanInv'
    <2>1. TablesAgree'
      BY <1>0, <1>4 DEF SetMaxParallelRuns, Inv, TypeOK, TablesAgree, WaitingStates,
                        LiveAttemptStates, AdvancingStates
    <2>. QED
      BY <1>4, <2>1, ThenTickLoop, Zenon DEF SetMaxParallelRuns, Inv, LoopInv
  <1>5. ASSUME NEW j \in Jobs,
               (\E v \in Priorities : SetPriority(j, v)) \/ CancelLive(j)
                    \/ (\E mode \in {"requeue", "hold"} : Yield(j, mode))
        PROVE  TablesAgree' /\ LoopInv' /\ PlanInv'
    BY <1>5, ThenTickLoop
       DEF SetPriority, CancelLive, Yield, Inv, TablesAgree, LoopInv
  <1>6. ASSUME NEW j \in Jobs, CancelWaiting(j) PROVE TablesAgree' /\ LoopInv' /\ PlanInv'
    <2> DEFINE st == [jobState EXCEPT ![j] = "cancelled"]
    <2>1. st \in [Jobs -> JobStates] /\ readySeq \in [Jobs -> Nat]
      BY <1>0, ZenonT(30) DEF TypeOK, JobStates, TerminalStates
    <2>2. AgreeBeforeAdvance(st)
      BY <1>0, <1>6
         DEF CancelWaiting, Inv, TypeOK, TablesAgree, LoopInv, AgreeBeforeAdvance,
             WaitingStates
    <2>3. Advance(st, readySeq) /\ ThenTick
      BY <1>6 DEF CancelWaiting
    <2> HIDE DEF st
    <2>. QED
      BY <1>0, <2>1, <2>2, <2>3, AdvanceAgrees, ThenTickLoop
  <1>7. ASSUME NEW j \in Jobs, NEW js \in {"lost", "cancelled"},
               (CancelPrepared(j) /\ js = "cancelled") \/ RecoverResolve(j, js)
        PROVE  TablesAgree' /\ LoopInv' /\ PlanInv'
    <2> DEFINE st == [jobState EXCEPT ![j] = js]
    <2>1. st \in [Jobs -> JobStates] /\ readySeq \in [Jobs -> Nat]
      BY <1>0 DEF TypeOK, JobStates, TerminalStates
    <2>2. /\ attempt[j] # "none" /\ EndAttempt(j)
          /\ limit' = limit /\ lastJob' = lastJob
          /\ Advance(st, readySeq) /\ ThenTick
      BY <1>7, Zenon DEF CancelPrepared, RecoverResolve
    <2>3. AgreeBeforeAdvance(st)
      BY <2>2, EndAttemptAgrees DEF TerminalStates
    <2> HIDE DEF st
    <2>. QED
      BY <1>0, <2>1, <2>2, <2>3, AdvanceAgrees, ThenTickLoop
  <1>8. ASSUME NEW v \in BOOLEAN, SetPaused(v) PROVE TablesAgree' /\ LoopInv' /\ PlanInv'
    BY <1>8, ThenTickLoop DEF SetPaused, Inv, TablesAgree, LoopInv
  <1>. QED
    BY <1>1, <1>2, <1>3, <1>4, <1>5, <1>6, <1>7, <1>8 DEF Mutation

\* So does moving an attempt and its job together to a later phase.
LEMMA MoveAttemptInv ==
    ASSUME Inv, NEW j \in Jobs, NEW state \in LiveAttemptStates, NEW js,
           \/ state \in {"prepared", "authorized"} /\ js = "starting"
           \/ state = "running" /\ js = "running"
           \/ state \in {"orphaned", "quarantined"} /\ js = "needs_attention",
           MoveAttempt(j, state, js)
    PROVE  TablesAgree' /\ LoopInv' /\ PlanInv'
  <1> USE DEF rowVars
  <1>1. /\ pc = "reconcile" /\ pc' = "reconcile" /\ j \in todo /\ todo' = todo \ {j}
        /\ attempt' = [attempt EXCEPT ![j] = state]
        /\ jobState' = [jobState EXCEPT ![j] = js]
        /\ lease' = lease /\ limit' = limit /\ lastJob' = lastJob
    BY DEF MoveAttempt, Visit
  <1>2. attempt[j] # "none" /\ todo \subseteq LiveAttempts /\ state # "none"
    BY <1>1 DEF Inv, LoopInv, LiveAttempts, LiveAttemptStates, AdvancingStates
  <1>3. ~(j > lastJob)
    BY <1>2 DEF Inv, TypeOK, TablesAgree, LoopInv, LiveAttemptStates, AdvancingStates
  <1>4. TablesAgree'
    BY <1>1, <1>2 DEF Inv, TypeOK, TablesAgree
  <1>5. LoopInv'
    BY <1>1, <1>2, <1>3, ZenonT(30) DEF Inv, TypeOK, LoopInv, LiveAttempts
  <1>. QED
    BY <1>1, <1>4, <1>5 DEF PlanInv

\* So does finalizing the attempt a loop is visiting: it frees lease and job together.
LEMMA FinalizeInv ==
    ASSUME Inv, NEW j \in Jobs, NEW delivered \in BOOLEAN, NEW phase \in {"reconcile", "launch"},
           NEW outcome \in {"succeeded", "failed", "cancelled", "lost", "yielded"},
           Visit(phase, j), FinalizeAttemptAndJob(j, outcome, delivered)
    PROVE  TablesAgree' /\ LoopInv' /\ PlanInv'
  <1> DEFINE after == JobAfter(j, outcome, delivered)
             st == [jobState EXCEPT ![j] = after]
             ready == IF after \in WaitingStates THEN [readySeq EXCEPT ![j] = 0] ELSE readySeq
  <1>1. /\ EndAttempt(j)
        /\ Advance(st, ready)
        /\ limit' = limit /\ lastJob' = lastJob
    BY DEF FinalizeAttemptAndJob
  <1>2. pc = phase /\ pc' = pc /\ j \in todo /\ todo' = todo \ {j}
    BY DEF Visit
  <1>3. todo \subseteq LiveAttempts /\ attempt[j] # "none"
    BY <1>2 DEF Inv, LoopInv, LiveAttempts
  <1>4. after \in WaitingStates \cup TerminalStates
    BY JobAfterType
  <1> HIDE DEF after
  <1>5. AgreeBeforeAdvance(st)
    BY <1>1, <1>3, <1>4, EndAttemptAgrees
  <1>6. st \in [Jobs -> JobStates] /\ ready \in [Jobs -> Nat]
    BY <1>4 DEF Inv, TypeOK, JobStates
  <1> HIDE DEF st, ready
  <1>7. TablesAgree' /\ \A k \in Jobs : k > lastJob' => jobState'[k] = "absent"
    BY <1>1, <1>5, <1>6, AdvanceAgrees DEF Inv
  <1>8. todo' \subseteq LiveAttempts'
    BY <1>1, <1>2, <1>3 DEF EndAttempt, LiveAttempts, Inv, TypeOK
  <1>. QED
    BY <1>2, <1>7, <1>8 DEF LoopInv, PlanInv

\* So does every step of the reconciliation loop.
LEMMA ReconcileInv == Inv /\ Reconcile => Inv'
  <1> SUFFICES ASSUME Inv, Reconcile PROVE TablesAgree' /\ LoopInv' /\ PlanInv'
    BY ReconcileTypeOK DEF Inv
  <1>1. ASSUME NEW j \in Jobs, ReconcileNothing(j) PROVE TablesAgree' /\ LoopInv' /\ PlanInv'
    BY <1>1 DEF ReconcileNothing, Visit, Inv, TablesAgree, LoopInv, PlanInv, LiveAttempts,
                graphVars, rowVars, attemptVars
  <1>2. ASSUME NEW j \in Jobs,
               Authorize(j) \/ ObserveExec(j) \/ Orphan(j) \/ Quarantine(j)
        PROVE  TablesAgree' /\ LoopInv' /\ PlanInv'
    BY <1>2, MoveAttemptInv
       DEF Authorize, ObserveExec, Orphan, Quarantine, LiveAttemptStates, AdvancingStates
  <1>3. ASSUME NEW j \in Jobs, NEW delivered \in BOOLEAN,
               NEW outcome \in {"succeeded", "failed", "cancelled", "lost", "yielded"},
               Finalize(j, outcome, delivered)
        PROVE  TablesAgree' /\ LoopInv' /\ PlanInv'
    BY <1>3, FinalizeInv DEF Finalize
  <1>. QED
    BY <1>1, <1>2, <1>3, ZenonT(30) DEF Reconcile

\* Fewer jobs fit beside more lease holders.
LEMMA FitsAntitone ==
    ASSUME NEW S \in SUBSET Jobs, NEW T \in SUBSET Jobs, S \subseteq T,
           NEW lim \in [Jobs -> Nat], NEW candidate \in Nat,
           can_admit(T, lim, candidate)
    PROVE  can_admit(S, lim, candidate)
  <1>1. Cardinality(S) <= Cardinality(T) /\ Cardinality(S) \in Nat /\ Cardinality(T) \in Nat
    BY JobSetsFinite, FS_Subset
  <1>. QED
    BY <1>1 DEF can_admit

\* A job that fits may be added to the shadow set.
LEMMA FitsAdd ==
    ASSUME NEW S \in SUBSET Jobs, NEW j \in Jobs, NEW lim \in [Jobs -> Nat],
           can_admit(S, lim, lim[j])
    PROVE  \A k \in S \cup {j} : Cardinality(S \cup {j}) <= lim[k]
  <1>1. IsFiniteSet(S) /\ Cardinality(S) \in Nat
    BY JobSetsFinite
  <1>2. Cardinality(S \cup {j}) <= Cardinality(S) + 1 /\ Cardinality(S \cup {j}) \in Nat
    <2>1. CASE j \in S
      <3>1. S \cup {j} = S
        BY <2>1
      <3>. QED
        BY <1>1, <3>1
    <2>2. CASE j \notin S
      BY <1>1, <2>2, FS_AddElement
    <2>. QED
      BY <2>1, <2>2
  <1>. QED
    BY <1>1, <1>2 DEF can_admit

\* The limits the pass counts with are natural numbers.
LEMMA ShadowLimitType == TypeOK => ShadowLimit \in [Jobs -> Nat]
  BY Zenon DEF TypeOK, ShadowLimit

\* What a planned start does to the batch.
LEMMA PlanStartInv ==
    ASSUME Inv, pc = "planning", NEW j \in plan.eligible, Fits(j), UNCHANGED dbVars,
           plan'.eligible = plan.eligible,
           plan'.starts = plan.starts \cup {j},
           plan'.shadow = plan.shadow \cup {j}
    PROVE  /\ \A k \in plan'.eligible : jobState'[k] = "queued"
           /\ plan'.starts \subseteq plan'.eligible
           /\ plan'.shadow = Holders' \cup plan'.starts
           /\ \A k \in plan'.shadow : Cardinality(plan'.shadow) <= ShadowLimit'[k]
  <1> USE DEF graphVars, rowVars, attemptVars, dbVars
  <1>1. j \in Jobs /\ plan.shadow \in SUBSET Jobs
    BY Zenon DEF Inv, TypeOK, Plans
  <1>2. lease[j] = 0
    BY <1>1, ZenonT(30) DEF Inv, TypeOK, TablesAgree, PlanInv, LiveAttemptStates, AdvancingStates
  <1>3. ShadowLimit[j] = limit[j]
    BY <1>1, <1>2, Zenon DEF ShadowLimit
  <1>4. \A k \in plan.shadow \cup {j} : Cardinality(plan.shadow \cup {j}) <= ShadowLimit[k]
    BY <1>1, <1>3, ShadowLimitType, FitsAdd, ZenonT(30) DEF Fits, Inv
  <1>5. Holders' = Holders /\ ShadowLimit' = ShadowLimit
    BY Zenon DEF Holders, ShadowLimit
  <1>. QED
    BY <1>4, <1>5, Zenon DEF Inv, PlanInv

\* Every step of the scheduling pass preserves the invariant.
LEMMA PassInv == Inv /\ Pass => Inv'
  <1> SUFFICES ASSUME Inv, Pass PROVE TablesAgree' /\ LoopInv' /\ PlanInv'
    BY PassTypeOK DEF Inv
  <1> USE DEF graphVars, rowVars, attemptVars, dbVars
  <1>0. TypeOK
    BY DEF Inv
  <1>1. CASE PassBlocked \/ PassPaused \/ LaunchesDone
    BY <1>1 DEF PassBlocked, PassPaused, LaunchesDone, Inv, TablesAgree, LoopInv, PlanInv
  <1>2. CASE BeginPass
    <2>1. /\ plan'.eligible = Eligible
          /\ plan'.starts = {}
          /\ plan'.shadow = Holders
          /\ plan'.create = NoJob
          /\ plan'.existing = TRUE
          /\ plan'.invalidate = (Ineligible \/ Superseded)
          /\ plan'.protected = IF Ineligible \/ Superseded THEN NoJob ELSE reservation.job
      BY <1>2 DEF BeginPass, NoPlan
    <2>2. UNCHANGED dbVars /\ pc' = "planning"
      BY <1>2 DEF BeginPass
    <2>3. Holders' = Holders
      BY <2>2 DEF Holders
    <2>4. plan'.protected \in Eligible \cup {NoJob}
      BY <2>1 DEF Ineligible
    <2>5. \/ reservation.job = NoJob
          \/ plan'.invalidate
          \/ plan'.protected = reservation.job
      BY <2>1, Zenon
    <2>6. PlanInv'
      BY <2>1, <2>2, <2>3, <2>4, <2>5 DEF PlanInv, Eligible
    <2>. QED
      BY <2>2, <2>6 DEF Inv, TablesAgree, LoopInv
  <1>3. CASE StartProtected
    <2> DEFINE p == plan.protected
    <2>1. /\ pc = "planning" /\ p # NoJob /\ Fits(p)
          /\ plan' = [PlanStart(p, NoJob) EXCEPT !.satisfy = TRUE, !.protected = NoJob]
          /\ UNCHANGED dbVars /\ pc' = pc /\ todo' = todo
      BY <1>3 DEF StartProtected
    <2>2. /\ plan'.eligible = plan.eligible
          /\ plan'.starts = plan.starts \cup {p}
          /\ plan'.shadow = plan.shadow \cup {p}
          /\ plan'.bypasses = [plan.bypasses EXCEPT ![p] = NoJob]
          /\ plan'.create = plan.create /\ plan'.existing = plan.existing
          /\ plan'.satisfy = TRUE /\ plan'.protected = NoJob
      BY <1>0, <2>1 DEF PlanStart, TypeOK, Plans
    <2>3. p \in plan.eligible /\ plan.create = NoJob
      BY <2>1 DEF Inv, PlanInv
    <2>4. \A j \in plan'.starts :
              plan'.bypasses[j] \in {NoJob, plan'.create, reservation'.job}
      BY <1>0, <2>1, <2>2 DEF Inv, PlanInv, TypeOK, Plans
    <2>5. PlanInv'
      BY <2>1, <2>2, <2>3, <2>4, PlanStartInv, Zenon DEF PlanInv
    <2>. QED
      BY <2>1, <2>5 DEF Inv, TablesAgree, LoopInv
  <1>4. CASE StartBackfill
    <2>1. PICK c \in Backfills :
              plan' = [PlanStart(c, plan.protected) EXCEPT !.consumed = @ \cup {c}]
      BY <1>4, Zenon DEF StartBackfill
    <2>2. pc = "planning" /\ plan.protected # NoJob /\ UNCHANGED dbVars /\ pc' = pc /\ todo' = todo
      BY <1>4 DEF StartBackfill
    <2>3. c \in plan.eligible /\ c \in Jobs /\ Fits(c)
      BY <1>0 DEF Backfills, Unstarted, TypeOK, Plans
    <2>4. /\ plan'.eligible = plan.eligible
          /\ plan'.starts = plan.starts \cup {c}
          /\ plan'.shadow = plan.shadow \cup {c}
          /\ plan'.bypasses = [plan.bypasses EXCEPT ![c] = plan.protected]
          /\ plan'.create = plan.create /\ plan'.existing = plan.existing
          /\ plan'.satisfy = plan.satisfy /\ plan'.protected = plan.protected
          /\ plan'.invalidate = plan.invalidate
      BY <1>0, <2>1, Zenon DEF PlanStart, TypeOK, Plans
    <2>5. \A j \in plan'.starts :
              plan'.bypasses[j] \in {NoJob, plan'.create, reservation'.job}
      <3>1. /\ plan.bypasses \in [Jobs -> Jobs \cup {NoJob}] /\ plan.starts \subseteq Jobs
        BY <1>0, Zenon DEF TypeOK, Plans
      <3>2. /\ \A j \in plan.starts :
                    plan.bypasses[j] \in {NoJob, plan.create, reservation.job}
            /\ plan.protected \in {NoJob, plan.create, reservation.job}
        BY <2>2, ZenonT(30) DEF Inv, PlanInv
      <3>. QED
        BY <2>2, <2>3, <2>4, <3>1, <3>2, Zenon
    <2>6. plan.create # NoJob => ~Fits(plan.create)'
      <3> SUFFICES ASSUME plan.create # NoJob, Fits(plan.create)' PROVE FALSE
        OBVIOUS
      <3>1. plan.create \in Jobs /\ plan.shadow \in SUBSET Jobs /\ limit[plan.create] \in Nat
        BY <1>0 DEF TypeOK, Plans
      <3>2. can_admit(plan.shadow \cup {c}, ShadowLimit, limit[plan.create])
        BY <2>2, <2>4, Zenon DEF Fits, ShadowLimit
      <3>3. can_admit(plan.shadow, ShadowLimit, limit[plan.create])
        BY <1>0, <2>3, <3>1, <3>2, FitsAntitone, ShadowLimitType
      <3>. QED
        BY <2>2, <3>3, Zenon DEF Inv, PlanInv, Fits
    <2>7. PlanInv'
      BY <2>2, <2>3, <2>4, <2>5, <2>6, PlanStartInv, Zenon DEF Inv, PlanInv
    <2>. QED
      BY <2>2, <2>7 DEF Inv, TablesAgree, LoopInv
  <1>5. CASE StartHead
    <2>1. PICK h \in Unstarted : Fits(h) /\ plan' = PlanStart(h, NoJob)
      BY <1>5 DEF StartHead
    <2>2. pc = "planning" /\ plan.protected = NoJob /\ UNCHANGED dbVars /\ pc' = pc /\ todo' = todo
      BY <1>5 DEF StartHead
    <2>3. h \in plan.eligible /\ h \in Jobs
      BY <1>0 DEF Unstarted, TypeOK, Plans
    <2>4. /\ plan'.eligible = plan.eligible
          /\ plan'.starts = plan.starts \cup {h}
          /\ plan'.shadow = plan.shadow \cup {h}
          /\ plan'.bypasses = [plan.bypasses EXCEPT ![h] = NoJob]
          /\ plan'.create = plan.create /\ plan'.existing = plan.existing
          /\ plan'.satisfy = plan.satisfy /\ plan'.protected = plan.protected
          /\ plan'.invalidate = plan.invalidate
      BY <1>0, <2>1, Zenon DEF PlanStart, TypeOK, Plans
    <2>5. \A j \in plan'.starts :
              plan'.bypasses[j] \in {NoJob, plan'.create, reservation'.job}
      <3>1. /\ plan.bypasses \in [Jobs -> Jobs \cup {NoJob}] /\ plan.starts \subseteq Jobs
        BY <1>0 DEF TypeOK, Plans
      <3>2. /\ \A j \in plan.starts :
                    plan.bypasses[j] \in {NoJob, plan.create, reservation.job}
            /\ plan.protected \in {NoJob, plan.create, reservation.job}
        BY <2>2, Zenon DEF Inv, PlanInv
      <3>. QED
        BY <2>2, <2>3, <2>4, <3>1, <3>2, ZenonT(30)
    <2>6. plan.create = NoJob
      BY <2>2 DEF Inv, PlanInv
    <2>7. PlanInv'
      BY <2>1, <2>2, <2>3, <2>4, <2>5, <2>6, PlanStartInv, Zenon DEF Inv, PlanInv
    <2>. QED
      BY <2>2, <2>7 DEF Inv, TablesAgree, LoopInv
  <1>6. CASE ProtectHead
    <2>1. PICK h \in Unstarted : /\ ~Fits(h)
            /\ plan' = [plan EXCEPT !.protected = h, !.cutoff = Unfrozen, !.existing = FALSE,
                                 !.consumed = plan.shadow, !.create = h, !.seed = plan.shadow]
      BY <1>6, Zenon DEF ProtectHead
    <2>2. pc = "planning" /\ plan.protected = NoJob /\ UNCHANGED dbVars /\ pc' = pc /\ todo' = todo
      BY <1>6 DEF ProtectHead
    <2>3. h \in plan.eligible /\ h \in Jobs
      BY <1>0 DEF Unstarted, TypeOK, Plans
    <2>4. /\ plan'.eligible = plan.eligible /\ plan'.starts = plan.starts
          /\ plan'.shadow = plan.shadow /\ plan'.bypasses = plan.bypasses
          /\ plan'.create = h /\ plan'.existing = FALSE
          /\ plan'.satisfy = plan.satisfy /\ plan'.protected = h
          /\ plan'.invalidate = plan.invalidate
      BY <1>0, <2>1, Zenon DEF TypeOK, Plans
    <2>5. Holders' = Holders /\ ShadowLimit' = ShadowLimit /\ h # NoJob
      BY <2>2, <2>3, JobsFinite DEF Holders, ShadowLimit
    <2>6. ~Fits(plan.create)'
      BY <2>1, <2>2, <2>4, <2>5 DEF Fits
    <2>7. plan.create = NoJob
      BY <2>2 DEF Inv, PlanInv
    <2>8. PlanInv'
      BY <2>2, <2>3, <2>4, <2>5, <2>6, <2>7, Zenon DEF Inv, PlanInv
    <2>. QED
      BY <2>2, <2>8 DEF Inv, TablesAgree, LoopInv
  <1>7. CASE CommitPass
    <2>1. /\ pc = "planning" /\ pc' = "launch" /\ todo' = plan.starts
          /\ attempt' = [j \in Jobs |-> IF j \in plan.starts THEN "prepared" ELSE attempt[j]]
          /\ lease' = [j \in Jobs |-> IF j \in plan.starts THEN limit[j] ELSE lease[j]]
          /\ jobState' = [j \in Jobs |-> IF j \in plan.starts THEN "starting" ELSE jobState[j]]
          /\ limit' = limit /\ lastJob' = lastJob
      BY <1>7, Zenon DEF CommitPass
    <2>2. \A j \in plan.starts : j \in Jobs /\ jobState[j] = "queued"
      BY <1>0, <2>1, Zenon DEF Inv, PlanInv, TypeOK, Plans
    <2>3. TablesAgree'
      BY <2>1, <2>2 DEF Inv, TablesAgree
    <2>4. LoopInv'
      BY <2>1, <2>2 DEF Inv, LoopInv, LiveAttempts
    <2>. QED
      BY <2>1, <2>3, <2>4, Zenon DEF PlanInv
  <1>. QED
    BY <1>1, <1>2, <1>3, <1>4, <1>5, <1>6, <1>7, Zenon DEF Pass

\* So do ticks, restarts, launches, the graph update and the clock.
LEMMA OtherStepsInv ==
    ASSUME Inv,
           \/ Tick
           \/ \E foreign \in BOOLEAN : Restart(foreign)
           \/ AdvanceGraph
           \/ Launches
           \/ Clock
           \/ UNCHANGED vars
    PROVE  TablesAgree' /\ LoopInv' /\ PlanInv'
  <1> USE DEF graphVars, rowVars, attemptVars, dbVars
  <1>1. CASE Tick
    BY <1>1, ThenTickLoop DEF Tick, Inv, TablesAgree, LoopInv
  <1>2. CASE \E foreign \in BOOLEAN : Restart(foreign)
    BY <1>2, SMTT(30) DEF Restart, Inv, TablesAgree, LoopInv, PlanInv, LiveAttempts
  <1>3. CASE AdvanceGraph
    <2>1. TypeOK /\ jobState \in [Jobs -> JobStates] /\ readySeq \in [Jobs -> Nat]
      BY DEF Inv, TypeOK
    <2>2. AgreeBeforeAdvance(jobState)
      BY <1>3 DEF AdvanceGraph, Inv, TablesAgree, LoopInv, AgreeBeforeAdvance
    <2>3. TablesAgree' /\ \A j \in Jobs : j > lastJob' => jobState'[j] = "absent"
      BY <1>3, <2>1, <2>2, AdvanceAgrees DEF AdvanceGraph
    <2>. QED
      BY <1>3, <2>3 DEF AdvanceGraph, LoopInv, PlanInv
  <1>4. ASSUME NEW j \in Jobs, Launch(j) PROVE TablesAgree' /\ LoopInv' /\ PlanInv'
    <2>1. /\ pc = "launch" /\ pc' = "launch"
          /\ todo' \subseteq todo
          /\ UNCHANGED <<graphVars, rowVars, attemptVars>>
      BY <1>4, Zenon DEF Launch, Visit
    <2>2. TablesAgree'
      BY <2>1 DEF Inv, TablesAgree
    <2>3. LoopInv'
      BY <2>1, Zenon DEF Inv, LoopInv, LiveAttempts
    <2>4. PlanInv'
      BY <2>1 DEF PlanInv
    <2>. QED
      BY <2>2, <2>3, <2>4
  <1>5. ASSUME NEW j \in Jobs, LaunchFails(j) PROVE TablesAgree' /\ LoopInv' /\ PlanInv'
    BY <1>5, FinalizeInv, Zenon DEF LaunchFails
  <1>6. CASE Clock
    <2>1. UNCHANGED <<graphVars, rowVars, attemptVars, reservation, pc, todo, plan>>
      BY <1>6 DEF Clock, DelayElapses, ClockStepsBack
    <2>2. Holders' = Holders /\ ShadowLimit' = ShadowLimit /\ Fits(plan.create)' = Fits(plan.create)
      BY <2>1, Zenon DEF Holders, ShadowLimit, Fits
    <2>. QED
      BY <2>1, <2>2, Zenon DEF Inv, TablesAgree, LoopInv, PlanInv, LiveAttempts
  <1>7. CASE UNCHANGED vars
    <2>1. Holders' = Holders /\ ShadowLimit' = ShadowLimit /\ Fits(plan.create)' = Fits(plan.create)
      BY <1>7, Zenon DEF vars, Holders, ShadowLimit, Fits
    <2>. QED
      BY <1>7, <2>1, Zenon DEF vars, Inv, TablesAgree, LoopInv, PlanInv, LiveAttempts
  <1>. QED
    BY <1>1, <1>2, <1>3, <1>4, <1>5, <1>6, <1>7, Zenon DEF Launches

\* The inductive invariant holds of every reachable state.
THEOREM Invariance == Spec => []Inv
  <1>1. Init => Inv
    BY InitTypeOK, Zenon DEF Init, Inv, TablesAgree, LoopInv, PlanInv
  <1>2. Inv /\ [Next]_vars => Inv'
    <2> SUFFICES ASSUME Inv, [Next]_vars PROVE Inv'
      OBVIOUS
    <2>1. CASE Mutation \/ Reconcile \/ Pass
      BY <2>1, MutationInv, ReconcileInv, PassInv
    <2>2. CASE \/ Tick
               \/ \E foreign \in BOOLEAN : Restart(foreign)
               \/ AdvanceGraph
               \/ Launches
               \/ Clock
               \/ UNCHANGED vars
      BY <2>2, OtherStepsTypeOK, OtherStepsInv DEF Inv
    <2>. QED
      BY <2>1, <2>2 DEF Next
  <1>. QED
    BY <1>1, <1>2, PTL DEF Spec

\* A live attempt owns exactly one lease at the job's current limit, and the
\* job row names the attempt's phase, after every transaction.
THEOREM TablesAlwaysAgree == Spec => []TablesAgree
  BY Invariance, PTL DEF Inv

\* None of the checks and unreachable!() arms of a scheduling pass can fire.
THEOREM PassesComplete == Spec => []PassNeverAborts
  <1>1. Inv => PassNeverAborts
    <2> SUFFICES ASSUME Inv, pc = "planning"
                 PROVE  /\ plan.protected # NoJob /\ ~plan.existing => ~Fits(plan.protected)
                        /\ plan.create # NoJob =>
                              reservation.job = NoJob \/ plan.satisfy \/ plan.invalidate
                        /\ \A j \in plan.starts : jobState[j] = "queued" /\ attempt[j] = "none"
                        /\ \A j \in plan.starts :
                              plan.bypasses[j] \in {NoJob, plan.create, reservation.job}
      BY DEF PassNeverAborts
    <2>1. plan.protected # NoJob /\ ~plan.existing => ~Fits(plan.protected)
      BY DEF Inv, PlanInv
    <2>2. plan.create # NoJob => reservation.job = NoJob \/ plan.satisfy \/ plan.invalidate
      BY ZenonT(30) DEF Inv, PlanInv
    <2>3. \A j \in plan.starts : j \in Jobs /\ jobState[j] = "queued"
      BY DEF Inv, TypeOK, Plans, PlanInv
    <2>4. \A j \in plan.starts : attempt[j] = "none"
      BY <2>3 DEF Inv, TypeOK, TablesAgree, LiveAttemptStates, AdvancingStates
    <2>. QED
      BY <2>1, <2>2, <2>3, <2>4, Zenon DEF Inv, PlanInv
  <1>. QED
    BY <1>1, Invariance, PTL

------------------------------------------------------------------------------
(* Admission.                                                              *)

\* Only the commit of a pass gives somebody a lease.
LEMMA OnlyCommitStarts ==
    ASSUME Inv, [Next]_vars, NEW j \in Jobs, Starts(j)
    PROVE  CommitPass
  <1> USE DEF graphVars, rowVars, attemptVars, dbVars
  <1>1. ASSUME NEW k \in Jobs, EndAttempt(k) PROVE FALSE
    BY <1>1 DEF EndAttempt, Starts, Inv, TypeOK
  <1>2. lease' # lease
    BY DEF Starts
  <1>3. ~Mutation
    BY <1>1, <1>2, Zenon DEF Mutation, Submit, Hold, Release, Retry, SetMaxParallelRuns,
          SetPriority, CancelWaiting, CancelPrepared, CancelLive, Yield, RecoverResolve, SetPaused,
          Starts, Inv, TypeOK
  <1>4. ~Reconcile
    BY <1>1, <1>2, Zenon DEF Reconcile, ReconcileNothing, Authorize, ObserveExec, Orphan,
          Quarantine, MoveAttempt, Finalize, FinalizeAttemptAndJob
  <1>5. Pass => CommitPass
    BY <1>2, Zenon DEF Pass, PassBlocked, PassPaused, BeginPass, StartProtected, StartBackfill,
          StartHead, ProtectHead, LaunchesDone
  <1>6. ~(Tick \/ (\E foreign \in BOOLEAN : Restart(foreign)) \/ AdvanceGraph
            \/ Launches \/ Clock \/ UNCHANGED vars)
    BY <1>1, <1>2, Zenon DEF Tick, Restart, AdvanceGraph, Launches, Launch, LaunchFails,
          FinalizeAttemptAndJob, Clock, DelayElapses, ClockStepsBack, vars
  <1>. QED
    BY <1>3, <1>4, <1>5, <1>6 DEF Next

\* The leases after the commit of a pass are the shadow set it planned with.
LEMMA CommitLeases ==
    ASSUME Inv, CommitPass
    PROVE  Holders' = plan.shadow /\ \A k \in plan.shadow : lease'[k] = ShadowLimit[k]
  <1>1. /\ pc = "planning"
        /\ lease' = [k \in Jobs |-> IF k \in plan.starts THEN limit[k] ELSE lease[k]]
    BY DEF CommitPass
  <1>2. plan.shadow = Holders \cup plan.starts
    BY <1>1, ZenonT(30) DEF Inv, PlanInv
  <1>3. \A k \in plan.starts : k \in Jobs /\ lease[k] = 0 /\ limit[k] # 0
    <2> SUFFICES ASSUME NEW k \in plan.starts PROVE k \in Jobs /\ lease[k] = 0 /\ limit[k] # 0
      OBVIOUS
    <2>1. k \in Jobs /\ jobState[k] = "queued"
      BY <1>1, Zenon DEF Inv, TypeOK, Plans, PlanInv
    <2>2. attempt[k] = "none"
      BY <2>1, Zenon DEF Inv, TypeOK, TablesAgree, LiveAttemptStates, AdvancingStates
    <2>. QED
      BY <2>1, <2>2 DEF Inv, TypeOK, TablesAgree
  <1>4. Holders' = plan.shadow
    BY <1>1, <1>2, <1>3, Zenon DEF Holders
  <1>5. \A k \in plan.shadow : lease'[k] = ShadowLimit[k]
    BY <1>1, <1>2, <1>3 DEF Holders, ShadowLimit
  <1>. QED
    BY <1>4, <1>5

\* The commit of a pass that starts anybody leaves a compatible lease set.
LEMMA CommitIsCompatible ==
    ASSUME Inv, CommitPass, NEW j \in Jobs, Starts(j)
    PROVE  Compatible'
  <1>1. /\ pc = "planning"
        /\ lease' = [k \in Jobs |-> IF k \in plan.starts THEN limit[k] ELSE lease[k]]
    BY Zenon DEF CommitPass
  <1>2. \A k \in plan.shadow : Cardinality(plan.shadow) <= ShadowLimit[k]
    BY <1>1 DEF Starts, Inv, PlanInv
  <1>. QED
    BY <1>2, CommitLeases, Zenon DEF Compatible

\* The admission formula: whatever was planned in one pass, whatever limits
\* were edited before it and whenever the daemon was killed, the transaction
\* that admits jobs leaves a lease set no member's maxParallelRuns forbids.
THEOREM AdmissionIsSafe == Spec => AdmissionRespectsLimits
  <1>1. Inv /\ [Next]_vars => [(\E j \in Jobs : Starts(j)) => Compatible']_vars
    BY OnlyCommitStarts, CommitIsCompatible
  <1>. QED
    BY <1>1, Invariance, PTL DEF Spec, AdmissionRespectsLimits

\* The lease set becomes incompatible only in a step that lowers the limit of
\* a live lease.
THEOREM OversubscriptionIsDeliberate == Spec => OversubscribedOnlyByOperator
  <1>1. Inv /\ Inv' /\ [Next]_vars =>
            [Compatible /\ ~Compatible' =>
                \E k \in Jobs : lease'[k] # 0 /\ lease'[k] < lease[k]]_vars
    <2> SUFFICES ASSUME Inv, Inv', [Next]_vars, Compatible,
                        \A k \in Jobs : lease'[k] # 0 => ~(lease'[k] < lease[k])
                 PROVE  Compatible'
      OBVIOUS
    <2>1. CASE \E j \in Jobs : Starts(j)
      BY <2>1, OnlyCommitStarts, CommitIsCompatible, Zenon
    <2>2. CASE ~\E j \in Jobs : Starts(j)
      <3>1. Holders' \subseteq Holders
        BY <2>2 DEF Holders, Starts
      <3>2. Cardinality(Holders') <= Cardinality(Holders) /\ Cardinality(Holders') \in Nat
                /\ Cardinality(Holders) \in Nat
        <4>1. Holders \subseteq Jobs /\ Holders' \subseteq Jobs
          BY Zenon DEF Holders
        <4>. QED
          BY <3>1, <4>1, JobSetsFinite, FS_Subset
      <3>3. \A k \in Holders' : /\ k \in Jobs /\ lease[k] \in Nat /\ lease'[k] \in Nat
                                 /\ lease[k] <= lease'[k]
        BY DEF Holders, Inv, TypeOK
      <3>. QED
        BY <3>1, <3>2, <3>3 DEF Compatible
    <2>. QED
      BY <2>1, <2>2
  <1>. QED
    BY <1>1, Invariance, PTL DEF Spec, OversubscribedOnlyByOperator
==============================================================================
