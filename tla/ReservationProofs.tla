-------------------------- MODULE ReservationProofs --------------------------
(***************************************************************************)
(* The reservation of Queue, for every number of jobs: who may bypass the  *)
(* protected job, what a reservation remembers, when its backfill window   *)
(* closes, and that a pass leaves nothing startable behind.                *)
(***************************************************************************)
EXTENDS ReadinessProofs

------------------------------------------------------------------------------
(* The order of the queue.                                                 *)

\* A non-empty set of jobs with different positions has a first one in queue
\* order: the job with the fewest others before it.
LEMMA FirstExists ==
    ASSUME NEW S, S \subseteq Jobs, S # {},
           NEW prio \in [Jobs -> Int], NEW ready \in [Jobs -> Nat],
           \A i, j \in S : i # j => ready[i] # ready[j]
    PROVE  \E x \in S : IsFirst(x, S, prio, ready)
  <1> DEFINE Before(x) == {y \in S : RanksBefore(y, x, prio, ready)}
             T == {Before(x) : x \in S}
             R == StrictSubsetOrdering(S)
  <1>1. IsWellFoundedOn(R, SUBSET S)
    <2>1. IsFiniteSet(S)
      BY JobSetsFinite
    <2>. QED
      BY <2>1, FS_StrictSubsetOrderingWellFounded, FS_FiniteSubsetsOfFinite, Zenon
  <1>2. T \subseteq SUBSET S /\ T # {}
    BY Zenon
  <1>3. PICK m \in T : \A t \in T : <<t, m>> \notin R
    <2> HIDE DEF R, T
    <2>. QED
      BY <1>1, <1>2, WFMin
  <1>4. PICK x \in S : m = Before(x)
    OBVIOUS
  <1>5. \A y, z \in S : /\ ~RanksBefore(y, y, prio, ready)
                        /\ y = z \/ RanksBefore(y, z, prio, ready) \/ RanksBefore(z, y, prio, ready)
    BY DEF RanksBefore
  <1>6. \A y, z, w \in S : RanksBefore(w, y, prio, ready) /\ RanksBefore(y, z, prio, ready)
                                => RanksBefore(w, z, prio, ready)
    BY DEF RanksBefore
  <1>7. ASSUME NEW y \in S, RanksBefore(y, x, prio, ready) PROVE FALSE
    <2>1. Before(y) \subseteq Before(x)
      BY <1>6, <1>7
    <2>2. y \in Before(x) /\ y \notin Before(y)
      BY <1>5, <1>7
    <2>3. <<Before(y), Before(x)>> \in R
      <3>1. Before(y) \in SUBSET S /\ Before(x) \in SUBSET S /\ Before(y) # Before(x)
        BY <2>2
      <3> HIDE DEF Before
      <3>. QED
        BY <2>1, <3>1 DEF StrictSubsetOrdering
    <2>4. Before(y) \in T
      OBVIOUS
    <2> HIDE DEF R, T, Before
    <2>. QED
      BY <1>3, <1>4, <2>3, <2>4
  <1>8. IsFirst(x, S, prio, ready)
    BY <1>5, <1>7 DEF IsFirst
  <1>. QED
    BY <1>8

\* The first of a set has the highest priority in it.
LEMMA FirstHasTopPriority ==
    ASSUME NEW S, S \subseteq Jobs, NEW prio \in [Jobs -> Int], NEW ready \in [Jobs -> Nat],
           NEW x, IsFirst(x, S, prio, ready)
    PROVE  \A c \in S : prio[c] <= prio[x]
  BY DEF IsFirst, RanksBefore

------------------------------------------------------------------------------
(* The plan in progress and the persisted reservation.                     *)

\* Half-way through planning: nobody startable is missing from the snapshot;
\* a protected job has not been started; a job protected in this pass has an
\* open window and the top priority among the rest; and while the persisted
\* reservation is the one in force, every planned start is a first bypass of
\* it, at its priority and within the frontier the commit will write.
ReserveInv ==
    pc = "planning" =>
        /\ Waiting \subseteq plan.eligible
        /\ \A j \in plan.eligible : readySeq[j] # 0
        /\ plan.protected \notin plan.starts
        /\ plan.satisfy => reservation.job \in plan.starts
        /\ plan.create # NoJob =>
            /\ plan.cutoff = Unfrozen
            /\ plan.consumed \subseteq plan.seed \cup plan.starts
            /\ \A c \in Unstarted : priority[c] <= priority[plan.create]
        /\ plan.protected # NoJob /\ plan.create = NoJob =>
            /\ ~plan.satisfy /\ ~plan.invalidate
            /\ plan.freeze <=> FreezePending
            /\ plan.cutoff = IF FreezePending THEN readyCounter ELSE reservation.cutoff
            /\ reservation.consumed \subseteq plan.consumed
            /\ plan.consumed \subseteq reservation.consumed \cup plan.starts
            /\ \A c \in plan.eligible : priority[c] <= priority[reservation.job]
            /\ \A j \in plan.starts :
                /\ plan.bypasses[j] = reservation.job
                /\ j \notin reservation.consumed
                /\ priority[j] = priority[reservation.job]
                /\ WithinFrontier(plan.cutoff, readySeq[j])

\* A pass begins: the reservation survives the two checks only if its job is
\* still eligible and nobody eligible has a higher priority.
LEMMA BeginPassReserve ==
    ASSUME Inv, ReadyPositionsDistinct, BeginPass
    PROVE  ReserveInv'
  <1> USE DEF graphVars, rowVars, attemptVars, dbVars
  <1> DEFINE dropped == Ineligible \/ Superseded
  <1>1. UNCHANGED dbVars
    BY DEF BeginPass
  <1>2. /\ plan'.eligible = Eligible
        /\ plan'.protected = IF dropped THEN NoJob ELSE reservation.job
        /\ plan'.cutoff = IF FreezePending THEN readyCounter ELSE reservation.cutoff
        /\ plan'.consumed = reservation.consumed
        /\ plan'.invalidate = dropped
        /\ plan'.freeze = FreezePending
        /\ plan'.starts = {} /\ plan'.satisfy = FALSE /\ plan'.create = NoJob
    BY DEF BeginPass, NoPlan
  <1>3. Waiting' \subseteq Eligible /\ \A j \in Eligible : readySeq[j] # 0
    BY <1>1 DEF Waiting, Eligible
  <1>4. FreezePending' <=> FreezePending
    BY <1>1 DEF FreezePending, AnyBlockersAdvancing
  <1>5. ASSUME ~dropped, reservation.job # NoJob
        PROVE  \A c \in Eligible : priority[c] <= priority[reservation.job]
    <2>1. reservation.job \in Eligible /\ Eligible \subseteq Jobs
      BY <1>5 DEF Ineligible, Eligible
    <2>2. priority \in [Jobs -> Int] /\ readySeq \in [Jobs -> Nat]
      BY DEF Inv, TypeOK
    <2>3. \A i, j \in Eligible : i # j => readySeq[i] # readySeq[j]
      BY <1>3, <2>1 DEF ReadyPositionsDistinct
    <2>4. PICK x \in Eligible : IsFirst(x, Eligible, priority, readySeq)
      BY <2>1, <2>2, <2>3, FirstExists
    <2>5. \A c \in Eligible : priority[c] <= priority[x]
      BY <2>1, <2>2, <2>4, FirstHasTopPriority
    <2>6. ~(priority[x] > priority[reservation.job])
      BY <1>5, <2>1, <2>4 DEF Superseded
    <2>. QED
      BY <2>1, <2>2, <2>5, <2>6
  <1> HIDE DEF dropped
  <1>6. plan'.protected # NoJob => ~dropped /\ reservation.job # NoJob
    BY <1>2
  <1>. QED
    BY <1>1, <1>2, <1>3, <1>4, <1>5, <1>6 DEF ReserveInv

\* What the planning steps read of the tables does not change under them.
LEMMA TablesStill ==
    ASSUME UNCHANGED dbVars
    PROVE  /\ Waiting' = Waiting
           /\ FreezePending' <=> FreezePending
           /\ UNCHANGED <<readySeq, readyCounter, priority, reservation>>
  BY DEF dbVars, graphVars, rowVars, attemptVars, Waiting, FreezePending, AnyBlockersAdvancing

\* The protected job of the persisted reservation is started.
LEMMA StartProtectedReserve ==
    ASSUME Inv, ReserveInv, StartProtected
    PROVE  ReserveInv'
  <1> DEFINE p == plan.protected
  <1>1. /\ pc = "planning" /\ p # NoJob /\ Fits(p) /\ UNCHANGED dbVars
        /\ plan' = [PlanStart(p, NoJob) EXCEPT !.satisfy = TRUE, !.protected = NoJob]
    BY DEF StartProtected
  <1>2. /\ plan'.eligible = plan.eligible
        /\ plan'.starts = plan.starts \cup {p}
        /\ plan'.create = plan.create
        /\ plan'.protected = NoJob
    BY <1>1 DEF PlanStart, Inv, TypeOK, Plans
  <1>3. plan.create = NoJob /\ p = reservation.job
    BY <1>1 DEF Inv, PlanInv
  <1>4. NoJob \notin plan'.starts
    BY <1>1, <1>2, JobsFinite DEF Inv, TypeOK, Plans
  <1>. QED
    BY <1>1, <1>2, <1>3, <1>4, TablesStill DEF ReserveInv

\* A backfill is one more first bypass.
LEMMA StartBackfillReserve ==
    ASSUME Inv, ReserveInv, StartBackfill
    PROVE  ReserveInv'
  <1>1. PICK c \in Backfills :
            plan' = [PlanStart(c, plan.protected) EXCEPT !.consumed = @ \cup {c}]
    BY Zenon DEF StartBackfill
  <1>2. pc = "planning" /\ plan.protected # NoJob /\ UNCHANGED dbVars
    BY DEF StartBackfill
  <1>3. /\ plan'.eligible = plan.eligible
        /\ plan'.starts = plan.starts \cup {c}
        /\ plan'.consumed = plan.consumed \cup {c}
        /\ plan'.bypasses = [plan.bypasses EXCEPT ![c] = plan.protected]
        /\ plan'.create = plan.create /\ plan'.protected = plan.protected
        /\ plan'.satisfy = plan.satisfy /\ plan'.invalidate = plan.invalidate
        /\ plan'.freeze = plan.freeze /\ plan'.cutoff = plan.cutoff
        /\ plan'.seed = plan.seed
    BY <1>1 DEF PlanStart, Inv, TypeOK, Plans
  <1>4. /\ c \in Unstarted /\ c \notin plan.consumed /\ c # plan.protected
        /\ WithinFrontier(plan.cutoff, readySeq[c])
        /\ priority[c] = priority[plan.protected]
    BY DEF Backfills
  <1>5. plan.bypasses \in [Jobs -> Jobs \cup {NoJob}] /\ plan.starts \subseteq Jobs /\ c \in Jobs
    BY <1>4 DEF Inv, TypeOK, Plans, Unstarted
  <1>6. /\ plan'.bypasses[c] = plan.protected
        /\ \A j \in plan.starts : j # c => plan'.bypasses[j] = plan.bypasses[j]
    BY <1>3, <1>5
  <1>7. plan.create = NoJob => plan.protected = reservation.job
    BY <1>2 DEF Inv, PlanInv
  <1>8. ASSUME plan.create # NoJob
        PROVE  /\ plan'.consumed \subseteq plan'.seed \cup plan'.starts
               /\ \A k \in Unstarted' : priority'[k] <= priority'[plan'.create]
    BY <1>2, <1>3, <1>8, TablesStill DEF ReserveInv, Unstarted
  <1>9. ASSUME plan.create = NoJob, NEW j \in plan'.starts
        PROVE  /\ plan'.bypasses[j] = reservation.job
               /\ j \notin reservation.consumed
               /\ priority[j] = priority[reservation.job]
               /\ WithinFrontier(plan.cutoff, readySeq[j])
    BY <1>2, <1>3, <1>4, <1>6, <1>7, <1>9 DEF ReserveInv, Unstarted
  <1>10. plan'.protected \notin plan'.starts
    BY <1>2, <1>3, <1>4 DEF ReserveInv
  <1>. QED
    BY <1>2, <1>3, <1>8, <1>9, <1>10, TablesStill DEF ReserveInv

\* While nobody is protected, starting the head disturbs nothing.
LEMMA StartHeadReserve ==
    ASSUME Inv, ReserveInv, StartHead
    PROVE  ReserveInv'
  <1>1. PICK h \in Unstarted : plan' = PlanStart(h, NoJob)
    BY DEF StartHead
  <1>2. pc = "planning" /\ plan.protected = NoJob /\ UNCHANGED dbVars
    BY DEF StartHead
  <1>3. /\ plan'.eligible = plan.eligible
        /\ plan'.starts = plan.starts \cup {h}
        /\ plan'.create = plan.create /\ plan'.protected = plan.protected
        /\ plan'.satisfy = plan.satisfy
    BY <1>1 DEF PlanStart, Inv, TypeOK, Plans
  <1>4. h # NoJob /\ plan.create = NoJob
    BY <1>2, JobsFinite DEF Unstarted, Inv, TypeOK, Plans, PlanInv
  <1>. QED
    BY <1>2, <1>3, <1>4, TablesStill DEF ReserveInv

\* A job protected in this pass is the head of what is left.
LEMMA ProtectHeadReserve ==
    ASSUME Inv, ReserveInv, ProtectHead
    PROVE  ReserveInv'
  <1>1. PICK h \in Unstarted : /\ IsHead(h)
            /\ plan' = [plan EXCEPT !.protected = h, !.cutoff = Unfrozen, !.existing = FALSE,
                                 !.consumed = plan.shadow, !.create = h, !.seed = plan.shadow]
    BY Zenon DEF ProtectHead
  <1>2. pc = "planning" /\ plan.protected = NoJob /\ UNCHANGED dbVars
    BY DEF ProtectHead
  <1>3. /\ plan'.eligible = plan.eligible /\ plan'.starts = plan.starts
        /\ plan'.create = h /\ plan'.protected = h
        /\ plan'.cutoff = Unfrozen
        /\ plan'.consumed = plan.shadow /\ plan'.seed = plan.shadow
        /\ plan'.satisfy = plan.satisfy
    BY <1>1 DEF Inv, TypeOK, Plans
  <1>4. h # NoJob /\ h \notin plan.starts
    BY JobsFinite DEF Unstarted, Inv, TypeOK, Plans
  <1>5. \A c \in Unstarted : priority[c] <= priority[h]
    <2>1. /\ Unstarted \subseteq Jobs
          /\ priority \in [Jobs -> Int] /\ readySeq \in [Jobs -> Nat]
      BY DEF Unstarted, Inv, TypeOK, Plans
    <2>. QED
      BY <1>1, <2>1, FirstHasTopPriority DEF IsHead
  <1>6. Unstarted' = Unstarted
    BY <1>3 DEF Unstarted
  <1>. QED
    BY <1>2, <1>3, <1>4, <1>5, <1>6, TablesStill DEF ReserveInv

\* Every step preserves ReserveInv: only the pass plans, and only the clock
\* interrupts it without ending it.
LEMMA StepReserve ==
    ASSUME Inv, ReserveInv, ReadyPositionsDistinct, [Next]_vars
    PROVE  ReserveInv'
  <1>1. CASE BeginPass \/ StartProtected \/ StartBackfill \/ StartHead \/ ProtectHead
    BY <1>1, BeginPassReserve, StartProtectedReserve, StartBackfillReserve, StartHeadReserve,
       ProtectHeadReserve
  <1>2. CASE Clock
    <2>1. UNCHANGED <<graphVars, rowVars, attemptVars, reservation, pc, plan>>
      BY <1>2 DEF Clock, DelayElapses, ClockStepsBack
    <2>2. Waiting' \subseteq Waiting
      BY <1>2, <2>1 DEF Clock, DelayElapses, ClockStepsBack, Waiting, Inv, TypeOK, graphVars
    <2>3. (FreezePending' <=> FreezePending) /\ Unstarted' = Unstarted
      BY <2>1 DEF FreezePending, AnyBlockersAdvancing, Unstarted, rowVars, attemptVars
    <2>. QED
      BY <2>1, <2>2, <2>3 DEF ReserveInv, graphVars, rowVars
  <1>3. CASE UNCHANGED vars
    <2>1. UNCHANGED dbVars /\ UNCHANGED <<pc, plan>>
      BY <1>3 DEF vars
    <2>2. Unstarted' = Unstarted
      BY <2>1 DEF Unstarted
    <2>. QED
      BY <2>1, <2>2, TablesStill DEF ReserveInv
  <1>4. CASE Mutation \/ Tick
    <2>1. ThenTick
      BY <1>4, Zenon DEF Mutation, Submit, Hold, Release, Retry, SetMaxParallelRuns,
            SetPriority, CancelWaiting, CancelPrepared, CancelLive, Yield, RecoverResolve,
            SetPaused, Tick
    <2>. QED
      BY <2>1 DEF ThenTick, ReserveInv
  <1>5. CASE Reconcile \/ Launches
    <2>1. PICK phase \in {"reconcile", "launch"} : \E j \in Jobs : Visit(phase, j)
      BY <1>5, Zenon DEF Reconcile, ReconcileNothing, Authorize, ObserveExec, Orphan, Quarantine,
            MoveAttempt, Finalize, Launches, Launch, LaunchFails
    <2>. QED
      BY <2>1 DEF Visit, ReserveInv
  <1>6. CASE \/ \E foreign \in BOOLEAN : Restart(foreign)
             \/ AdvanceGraph \/ PassBlocked \/ PassPaused \/ CommitPass \/ LaunchesDone
    <2>1. pc' \in {"reconcile", "schedule", "idle", "launch"}
      BY <1>6 DEF Restart, AdvanceGraph, PassBlocked, PassPaused, CommitPass, LaunchesDone
    <2>. QED
      BY <2>1 DEF ReserveInv
  <1>. QED
    BY <1>1, <1>2, <1>3, <1>4, <1>5, <1>6 DEF Next, Pass

\* ReserveInv holds of every reachable state.
THEOREM ReserveInvariance == Spec => []ReserveInv
  <1>1. Init => ReserveInv
    BY DEF Init, ReserveInv
  <1>2. Inv /\ ReadyPositionsDistinct /\ ReserveInv /\ [Next]_vars => ReserveInv'
    BY StepReserve
  <1>. QED
    BY <1>1, <1>2, Invariance, PositionsStayDistinct, PTL DEF Spec

------------------------------------------------------------------------------
(* What the commit of a pass does to a reservation it keeps.               *)

\* Steps other than the commit of a pass leave the reservation alone, drop it
\* or, at a restart, only reconsider whether the build understands it.
LEMMA OnlyCommitRewrites ==
    ASSUME [Next]_vars, ~CommitPass
    PROVE  \/ reservation' = reservation
           \/ reservation' = NoReservation
           \/ \E f : reservation' = [reservation EXCEPT !.foreign = f]
  <1> USE DEF dbVars
  <1>1. Mutation => reservation' = reservation \/ reservation' = NoReservation
    BY Zenon DEF Mutation, Submit, Hold, Release, Retry, SetMaxParallelRuns, SetPriority,
          CancelWaiting, CancelPrepared, CancelLive, Yield, RecoverResolve, SetPaused,
          InvalidateIfProtected
  <1>2. Reconcile \/ Launches => reservation' = reservation
    BY Zenon DEF Reconcile, ReconcileNothing, Authorize, ObserveExec, Orphan, Quarantine,
          MoveAttempt, Finalize, Launches, Launch, LaunchFails, Visit
  <1>3. Pass \/ Tick \/ AdvanceGraph \/ Clock \/ UNCHANGED vars => reservation' = reservation
    BY Zenon DEF Pass, PassBlocked, PassPaused, BeginPass, StartProtected, StartBackfill,
          StartHead, ProtectHead, LaunchesDone, Tick, AdvanceGraph, Clock, DelayElapses,
          ClockStepsBack, vars
  <1>4. (\E foreign \in BOOLEAN : Restart(foreign))
            => \E f : reservation' = [reservation EXCEPT !.foreign = f]
    BY Zenon DEF Restart
  <1>. QED
    BY <1>1, <1>2, <1>3, <1>4 DEF Next

\* A commit keeps a reservation only if it was in force throughout the pass;
\* then it adds the bypasses, and pins the cutoff if the window had closed.
LEMMA CommitKeeps ==
    ASSUME Inv, ReserveInv, CommitPass, Kept
    PROVE  /\ plan.create = NoJob /\ plan.protected = reservation.job
           /\ reservation'.consumed = reservation.consumed \cup BypassesOf(reservation.job)
           /\ reservation'.blockers = reservation.blockers
           /\ reservation'.cutoff = plan.cutoff
           /\ reservation.cutoff # Unfrozen => reservation'.cutoff = reservation.cutoff
  <1>1. pc = "planning" /\ reservation' = ReservationAfter
    BY DEF CommitPass
  <1>2. /\ reservation.job # NoJob /\ reservation'.job = reservation.job /\ ~plan.invalidate
    BY DEF Kept
  <1>3. plan.create = NoJob
    <2> SUFFICES ASSUME plan.create # NoJob PROVE FALSE
      OBVIOUS
    <2>1. reservation'.job = plan.create
      BY <1>1 DEF ReservationAfter
    <2>2. plan.satisfy /\ plan.protected = plan.create
      BY <1>1, <1>2 DEF Inv, PlanInv
    <2>. QED
      BY <1>1, <1>2, <2>1, <2>2 DEF ReserveInv
  <1>4. ~plan.satisfy
    BY <1>1, <1>2, <1>3 DEF ReservationAfter, NoReservation
  <1>5. plan.protected = reservation.job
    BY <1>1, <1>2, <1>4 DEF Inv, PlanInv
  <1>6. /\ plan.freeze <=> FreezePending
        /\ plan.cutoff = IF FreezePending THEN readyCounter ELSE reservation.cutoff
    BY <1>1, <1>2, <1>3, <1>5 DEF ReserveInv
  <1> DEFINE cutoff == IF plan.freeze /\ reservation.cutoff = Unfrozen
                       THEN plan.cutoff ELSE reservation.cutoff
             consumed == reservation.consumed \cup BypassesOf(reservation.job)
  <1>7. reservation' = [reservation EXCEPT !.cutoff = cutoff, !.consumed = consumed]
    BY <1>1, <1>2, <1>3, <1>4 DEF ReservationAfter
  <1>8. cutoff = plan.cutoff /\ (reservation.cutoff # Unfrozen => cutoff = reservation.cutoff)
    BY <1>6 DEF FreezePending
  <1> HIDE DEF cutoff, consumed
  <1>9. /\ reservation'.cutoff = cutoff /\ reservation'.consumed = consumed
        /\ reservation'.blockers = reservation.blockers
    BY <1>7 DEF Inv, TypeOK, Reservations
  <1>. QED
    BY <1>3, <1>5, <1>8, <1>9 DEF consumed

\* A job that starts while another stays protected passes it for the first
\* time, is recorded, has its priority and was ready before the cutoff.
THEOREM BypassesAreBounded == Spec => BypassRules
  <1>1. Inv /\ ReserveInv /\ [Next]_vars =>
            [Kept => \A j \in Jobs : Starts(j) =>
                /\ j \notin reservation.consumed
                /\ j \in reservation'.consumed
                /\ priority[j] = priority[reservation.job]
                /\ WithinFrontier(reservation'.cutoff, readySeq[j])]_vars
    <2> SUFFICES ASSUME Inv, ReserveInv, [Next]_vars, Kept, NEW j \in Jobs, Starts(j)
                 PROVE  /\ j \notin reservation.consumed
                        /\ j \in reservation'.consumed
                        /\ priority[j] = priority[reservation.job]
                        /\ WithinFrontier(reservation'.cutoff, readySeq[j])
      OBVIOUS
    <2>1. CommitPass
      BY OnlyCommitStarts
    <2>2. pc = "planning" /\ j \in plan.starts
      BY <2>1 DEF CommitPass, Starts
    <2>3. plan.protected # NoJob /\ plan.create = NoJob
      BY <2>1, CommitKeeps DEF Kept
    <2>4. /\ plan.bypasses[j] = reservation.job
          /\ j \notin reservation.consumed
          /\ priority[j] = priority[reservation.job]
          /\ WithinFrontier(plan.cutoff, readySeq[j])
      BY <2>2, <2>3 DEF ReserveInv
    <2>. QED
      BY <2>1, <2>2, <2>4, CommitKeeps DEF BypassesOf
  <1>. QED
    BY <1>1, Invariance, ReserveInvariance, PTL DEF Spec, BypassRules

\* While a reservation lives, through commits, edits and restarts, bypasses
\* are not given back, its blockers are fixed and a pinned cutoff never moves.
THEOREM ReservationsOnlyGrow == Spec => ReservationMonotone
  <1>1. Inv /\ ReserveInv /\ [Next]_vars =>
            [Kept =>
                /\ reservation.consumed \subseteq reservation'.consumed
                /\ reservation.blockers = reservation'.blockers
                /\ reservation.cutoff # Unfrozen
                        => reservation'.cutoff = reservation.cutoff]_vars
    <2> SUFFICES ASSUME Inv, ReserveInv, [Next]_vars, Kept
                 PROVE  /\ reservation.consumed \subseteq reservation'.consumed
                        /\ reservation.blockers = reservation'.blockers
                        /\ reservation.cutoff # Unfrozen
                                => reservation'.cutoff = reservation.cutoff
      OBVIOUS
    <2>1. CASE CommitPass
      BY <2>1, CommitKeeps
    <2>2. CASE ~CommitPass
      <3>1. reservation' # NoReservation
        BY DEF Kept, NoReservation
      <3>2. reservation' = reservation \/ \E f : reservation' = [reservation EXCEPT !.foreign = f]
        BY <2>2, <3>1, OnlyCommitRewrites
      <3>. QED
        BY <3>2 DEF Inv, TypeOK, Reservations
    <2>. QED
      BY <2>1, <2>2
  <1>. QED
    BY <1>1, Invariance, ReserveInvariance, PTL DEF Spec, ReservationMonotone

\* Only the commit of a pass ends it.
LEMMA OnlyCommitEndsAPass ==
    ASSUME [Next]_vars, PassEnds
    PROVE  CommitPass
  <1>1. pc = "planning" /\ pc' = "launch"
    BY DEF PassEnds
  <1>2. ~Mutation /\ ~Tick
    BY <1>1, Zenon DEF Mutation, Submit, Hold, Release, Retry, SetMaxParallelRuns,
          SetPriority, CancelWaiting, CancelPrepared, CancelLive, Yield, RecoverResolve,
          SetPaused, Tick
  <1>3. ~Reconcile /\ ~Launches
    BY <1>1, Zenon DEF Reconcile, ReconcileNothing, Authorize, ObserveExec, Orphan, Quarantine,
          MoveAttempt, Finalize, Launches, Launch, LaunchFails, Visit
  <1>4. Pass => CommitPass
    BY <1>1 DEF Pass, PassBlocked, PassPaused, BeginPass, StartProtected, StartBackfill,
          StartHead, ProtectHead, LaunchesDone
  <1>5. ~((\E foreign \in BOOLEAN : Restart(foreign)) \/ AdvanceGraph \/ Clock \/ UNCHANGED vars)
    BY <1>1 DEF Restart, AdvanceGraph, Clock, DelayElapses, ClockStepsBack, vars
  <1>. QED
    BY <1>2, <1>3, <1>4, <1>5 DEF Next

\* A pass that keeps a reservation leaves its window open only while one of
\* the original blockers advances: the position it pins otherwise is not 0.
THEOREM WindowsClose == Spec => WindowNeedsABlocker
  <1>1. Inv /\ ReserveInv /\ ReadyPositionsDistinct /\ [Next]_vars =>
            [PassEnds /\ Kept /\ reservation'.cutoff = Unfrozen => AnyBlockersAdvancing]_vars
    <2> SUFFICES ASSUME Inv, ReserveInv, ReadyPositionsDistinct, [Next]_vars,
                        PassEnds, Kept, reservation'.cutoff = Unfrozen, ~AnyBlockersAdvancing
                 PROVE  FALSE
      OBVIOUS
    <2>1. CommitPass
      BY OnlyCommitEndsAPass
    <2>2. pc = "planning" /\ reservation.job # NoJob
      BY DEF PassEnds, Kept
    <2>3. /\ plan.create = NoJob /\ plan.protected = reservation.job
          /\ plan.cutoff = Unfrozen
          /\ reservation.cutoff # Unfrozen => reservation'.cutoff = reservation.cutoff
      BY <2>1, CommitKeeps
    <2>4. FreezePending
      BY <2>2, <2>3 DEF FreezePending
    <2>5. readyCounter = 0
      BY <2>2, <2>3, <2>4, ZenonT(30) DEF ReserveInv, Unfrozen
    <2>6. reservation.job \in Jobs /\ readySeq[reservation.job] # 0
      BY <2>2, <2>3 DEF Inv, PlanInv, ReserveInv, TypeOK, Plans
    <2>7. readySeq[reservation.job] \in Nat /\ readySeq[reservation.job] <= readyCounter
      BY <2>6 DEF ReadyPositionsDistinct, Inv, TypeOK
    <2>. QED
      BY <2>5, <2>6, <2>7
  <1>. QED
    BY <1>1, Invariance, ReserveInvariance, PositionsStayDistinct, PTL DEF Spec, WindowNeedsABlocker

------------------------------------------------------------------------------
(* A pass leaves nothing startable behind.                                 *)

\* After the commit, who could be admitted is who fits the shadow set.
LEMMA CouldStartIsFits ==
    ASSUME Inv, CommitPass, NEW c \in Jobs
    PROVE  CouldStart(c)' <=> Fits(c)
  <1>1. limit' = limit
    BY DEF CommitPass
  <1>2. Holders' = plan.shadow /\ \A k \in plan.shadow : lease'[k] = ShadowLimit[k]
    BY CommitLeases
  <1>. QED
    BY <1>1, <1>2 DEF CouldStart, Fits, can_admit

\* Whoever still waits after the commit was left unstarted by the plan.
LEMMA LeftWaiting ==
    ASSUME Inv, ReserveInv, CommitPass, NEW c \in Waiting'
    PROVE  c \in Unstarted /\ c \in Jobs
  <1>1. /\ pc = "planning" /\ UNCHANGED <<readySeq, delay>>
        /\ jobState' = [j \in Jobs |-> IF j \in plan.starts THEN "starting" ELSE jobState[j]]
    BY DEF CommitPass
  <1>2. c \in Jobs /\ jobState'[c] = "queued" /\ readySeq[c] # 0 /\ delay[c] = "none"
    BY <1>1 DEF Waiting
  <1>3. c \notin plan.starts /\ jobState[c] = "queued"
    BY <1>1, <1>2
  <1>. QED
    BY <1>1, <1>2, <1>3 DEF Waiting, ReserveInv, Unstarted

\* What the commit leaves when the plan ended with a protected job.
LEMMA ProtectedAfterCommit ==
    ASSUME Inv, ReserveInv, CommitPass, plan.protected # NoJob
    PROVE  /\ reservation'.job = plan.protected
           /\ reservation'.cutoff = plan.cutoff
           /\ plan.consumed \subseteq reservation'.consumed \cup plan.starts
           /\ \A c \in Unstarted : priority[c] <= priority[plan.protected]
  <1>1. pc = "planning" /\ reservation' = ReservationAfter
    BY DEF CommitPass
  <1>2. CASE plan.create # NoJob
    <2>1. /\ reservation'.job = plan.create /\ reservation'.cutoff = Unfrozen
          /\ reservation'.consumed = plan.seed \cup BypassesOf(plan.create)
      BY <1>1, <1>2 DEF ReservationAfter
    <2>2. plan.protected = plan.create
      BY <1>1, <1>2, Zenon DEF Inv, PlanInv
    <2>. QED
      BY <1>1, <1>2, <2>1, <2>2 DEF ReserveInv
  <1>3. CASE plan.create = NoJob
    <2>1. plan.protected = reservation.job /\ ~plan.satisfy /\ ~plan.invalidate
      BY <1>1, <1>3 DEF Inv, PlanInv, ReserveInv
    <2>2. reservation'.job = reservation.job
      BY <1>1, <1>3, <2>1 DEF ReservationAfter, Inv, TypeOK, Reservations
    <2>3. Kept
      BY <2>1, <2>2 DEF Kept
    <2>4. /\ reservation'.cutoff = plan.cutoff
          /\ reservation.consumed \subseteq reservation'.consumed
      BY <2>3, CommitKeeps
    <2>. QED
      BY <1>1, <1>3, <2>1, <2>2, <2>4, ZenonT(30) DEF ReserveInv, Unstarted
  <1>. QED
    BY <1>2, <1>3

\* After a pass either nothing is waiting, or the protected job does not fit,
\* nobody waiting outranks it, and nobody who may still bypass it fits.
THEOREM PassesConserveWork == Spec => WorkConserving
  <1>1. Inv /\ ReserveInv /\ [Next]_vars => [PassEnds => NothingLeftToStart']_vars
    <2> SUFFICES ASSUME Inv, ReserveInv, [Next]_vars, PassEnds PROVE NothingLeftToStart'
      OBVIOUS
    <2>1. CommitPass
      BY OnlyCommitEndsAPass
    <2>2. /\ pc = "planning" /\ PlanComplete /\ reservation' = ReservationAfter
          /\ UNCHANGED <<priority, readySeq>>
      BY <2>1 DEF CommitPass
    <2>3. CASE plan.protected = NoJob
      <3>1. Waiting' = {}
        BY <2>1, <2>2, <2>3, LeftWaiting DEF PlanComplete
      <3>2. reservation'.job = NoJob
        <4>1. plan.create = NoJob
          BY <2>2, <2>3 DEF Inv, PlanInv
        <4>2. reservation.job = NoJob \/ plan.satisfy \/ plan.invalidate
          BY <2>2, <2>3 DEF Inv, PlanInv
        <4>. QED
          BY <2>2, <4>1, <4>2 DEF ReservationAfter, NoReservation
      <3>. QED
        BY <3>1, <3>2 DEF NothingLeftToStart
    <2>4. CASE plan.protected # NoJob
      <3>1. PICK p \in Jobs : p = plan.protected
        BY <2>4 DEF Inv, TypeOK, Plans
      <3>2. /\ reservation'.job = p /\ p # NoJob
            /\ reservation'.cutoff = plan.cutoff
            /\ plan.consumed \subseteq reservation'.consumed \cup plan.starts
            /\ \A c \in Unstarted : priority[c] <= priority[p]
        BY <2>1, <2>4, <3>1, ProtectedAfterCommit
      <3>3. ~Fits(p) /\ Backfills = {}
        BY <2>2, <2>4, <3>1 DEF PlanComplete
      <3>4. ~CouldStart(p)'
        BY <2>1, <3>3, CouldStartIsFits
      <3>5. ASSUME NEW c \in Waiting'
            PROVE  /\ priority[c] <= priority[p]
                   /\ \/ priority[c] < priority[p]
                      \/ c \in reservation'.consumed
                      \/ ~WithinFrontier(reservation'.cutoff, readySeq[c])
                      \/ ~CouldStart(c)'
        <4>1. c \in Unstarted /\ c \in Jobs
          BY <2>1, LeftWaiting, ZenonT(30)
        <4>2. priority[c] <= priority[p] /\ priority[c] \in Int /\ priority[p] \in Int
          BY <3>2, <4>1 DEF Inv, TypeOK
        <4>3. CASE c = p
          BY <3>4, <4>2, <4>3
        <4>4. CASE c # p /\ priority[c] = priority[p] /\ c \notin reservation'.consumed
                   /\ WithinFrontier(reservation'.cutoff, readySeq[c])
          <5>1. c \notin plan.consumed
            BY <3>2, <4>1, <4>4 DEF Unstarted
          <5>2. ~Fits(c)
            BY <3>1, <3>2, <3>3, <4>1, <4>4, <5>1 DEF Backfills
          <5>. QED
            BY <2>1, <4>1, <4>2, <5>2, CouldStartIsFits
        <4>. QED
          BY <4>2, <4>3, <4>4
      <3>. QED
        BY <2>2, <3>2, <3>4, <3>5 DEF NothingLeftToStart
    <2>. QED
      BY <2>3, <2>4
  <1>. QED
    BY <1>1, Invariance, ReserveInvariance, PTL DEF Spec, WorkConserving
==============================================================================
