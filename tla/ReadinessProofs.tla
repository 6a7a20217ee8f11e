--------------------------- MODULE ReadinessProofs ---------------------------
(***************************************************************************)
(* The readiness FIFO of Queue, for every number of jobs: what the graph   *)
(* update at the end of a transaction does to the positions, and what that *)
(* means for the place of a job in the queue; which ends are final; and    *)
(* that the graph is at its fixed point after every transaction.           *)
(***************************************************************************)
EXTENDS QueueProofs

\* The positions a transaction has written so far, before the graph update.
Positions(ready, counter) ==
    \A i, j \in Jobs :
        /\ ready[i] <= counter
        /\ i # j /\ ready[i] # 0 => ready[i] # ready[j]

\* What BackOfTheLine says of a step that leaves these states and positions.
LineKept(st, ready) ==
    \A j \in Jobs :
        IF jobState[j] \in WaitingStates /\ readySeq[j] # 0
        THEN st[j] \in WaitingStates => ready[j] = readySeq[j]
        ELSE st[j] \in WaitingStates => ready[j] = 0 \/ ready[j] > readyCounter

\* What a step has to do for the two properties to be preserved.
FifoStep == ReadyPositionsDistinct' /\ LineKept(jobState', readySeq')

\* Handing out positions in job order: within a set of jobs, rank by id is
\* injective and at most the size of the set.
LEMMA RankInSet ==
    ASSUME NEW S, S \subseteq Jobs, NEW c \in S
    PROVE  /\ Cardinality(S) \in Nat
           /\ Cardinality({d \in S : d <= c}) \in 1 .. Cardinality(S)
           /\ \A b \in S : b # c =>
                Cardinality({d \in S : d <= b}) # Cardinality({d \in S : d <= c})
  <1> DEFINE UpTo(x) == {d \in S : d <= x}
  <1>0. \A x \in S : x \in Int
    BY BoundsAssumption DEF Jobs
  <1>1. \A x \in S : /\ IsFiniteSet(UpTo(x)) /\ Cardinality(UpTo(x)) \in Nat
                     /\ x \in UpTo(x)
    <2> SUFFICES ASSUME NEW x \in S
                 PROVE  /\ IsFiniteSet(UpTo(x)) /\ Cardinality(UpTo(x)) \in Nat
                        /\ x \in UpTo(x)
      OBVIOUS
    <2>1. x \in UpTo(x) /\ UpTo(x) \subseteq Jobs
      BY <1>0
    <2> HIDE DEF UpTo
    <2>. QED
      BY <2>1, JobSetsFinite
  <1>2. IsFiniteSet(S) /\ Cardinality(S) \in Nat
    BY JobSetsFinite
  <1>3. Cardinality(UpTo(c)) # 0
    BY <1>1, FS_EmptySet
  <1>4. Cardinality(UpTo(c)) <= Cardinality(S)
    <2>1. UpTo(c) \in SUBSET S
      OBVIOUS
    <2> HIDE DEF UpTo
    <2>. QED
      BY <1>2, <2>1, FS_Subset
  <1>5. ASSUME NEW x \in S, NEW y \in S, x < y
        PROVE  Cardinality(UpTo(x)) # Cardinality(UpTo(y))
    <2>1. UpTo(x) \in SUBSET UpTo(y) /\ y \notin UpTo(x)
      BY <1>0, <1>5
    <2> HIDE DEF UpTo
    <2>2. UpTo(x) # UpTo(y)
      BY <1>1, <2>1
    <2>. QED
      BY <1>1, <2>1, <2>2, FS_Subset
  <1>6. \A b \in S : b # c => b < c \/ c < b
    BY <1>0
  <1>7. Cardinality(UpTo(c)) \in 1 .. Cardinality(S)
    <2> HIDE DEF UpTo
    <2>. QED
      BY <1>1, <1>2, <1>3, <1>4
  <1>8. \A b \in S : b # c => Cardinality(UpTo(b)) # Cardinality(UpTo(c))
    BY <1>5, <1>6
  <1>. QED
    BY <1>2, <1>7, <1>8

\* advance_dependency_graph keeps the positions unique, gives new ones beyond
\* the counter to waiting jobs without one, and takes them from skipped jobs.
LEMMA AdvanceKeepsTheLine ==
    ASSUME TypeOK,
           NEW st \in [Jobs -> JobStates],
           NEW e \in [Jobs -> [Jobs -> EdgeStates]],
           NEW ready \in [Jobs -> Nat],
           NEW counter \in Nat,
           NEW dl,
           AdvanceFrom(st, e, ready, counter, dl),
           Positions(ready, counter),
           readyCounter <= counter,
           LineKept(st, ready)
    PROVE  FifoStep
  <1> DEFINE skipped == SkippedBy(st, e)
             after == StatesAfter(st, skipped)
             latched == Latched(after, e)
             cleared == [c \in Jobs |-> IF c \in skipped THEN 0 ELSE ready[c]]
             new == NewlyReady(after, latched, cleared, dl)
             rank == [c \in Jobs |-> Cardinality({d \in new : d <= c})]
  <1>1. /\ jobState' = after
        /\ readySeq' = ReadyAfter(ready, skipped, new, counter)
        /\ readyCounter' = counter + Cardinality(new)
    BY DEF AdvanceFrom
  <1>2. \A c \in Jobs : after[c] = IF c \in skipped THEN "skipped" ELSE st[c]
    BY DEF StatesAfter
  <1>3. DOMAIN after = Jobs
    BY DEF StatesAfter
  <1>4. \A c \in new : c \in Jobs /\ after[c] \in WaitingStates /\ cleared[c] = 0
    <2> HIDE DEF after, latched, cleared
    <2>. QED
      BY <1>3 DEF NewlyReady
  <1> HIDE DEF skipped, latched, new
  <1>5. \A c \in new : c \notin skipped /\ ready[c] = 0
    BY <1>2, <1>4, Zenon DEF WaitingStates
  <1>6. \A c \in Jobs : readySeq'[c] = IF c \in new THEN counter + rank[c]
                                       ELSE IF c \in skipped THEN 0 ELSE ready[c]
    BY <1>1 DEF ReadyAfter
  <1>7. Cardinality(new) \in Nat
    BY <1>4, JobSetsFinite, Zenon
  <1>8. \A c \in new : /\ rank[c] \in 1 .. Cardinality(new)
                       /\ \A b \in new : b # c => rank[b] # rank[c]
    BY <1>4, RankInSet, ZenonT(30)
  <1> HIDE DEF after, cleared, rank
  <1>9. ReadyPositionsDistinct'
    <2> SUFFICES ASSUME NEW i \in Jobs, NEW j \in Jobs
                 PROVE  /\ readySeq'[i] <= readyCounter'
                        /\ i # j /\ readySeq'[i] # 0 => readySeq'[i] # readySeq'[j]
      BY DEF ReadyPositionsDistinct
    <2>1. /\ ready[i] \in Nat /\ ready[j] \in Nat /\ ready[i] <= counter /\ ready[j] <= counter
          /\ i # j /\ ready[i] # 0 => ready[i] # ready[j]
      BY DEF Positions
    <2>2. readySeq'[i] <= readyCounter'
      BY <1>1, <1>6, <1>7, <1>8, <2>1
    <2>3. i # j /\ readySeq'[i] # 0 => readySeq'[i] # readySeq'[j]
      <3> SUFFICES ASSUME i # j, readySeq'[i] # 0 PROVE readySeq'[i] # readySeq'[j]
        OBVIOUS
      <3>1. CASE i \in new /\ j \in new
        <4>1. rank[i] \in Int /\ rank[j] \in Int /\ rank[i] # rank[j]
          BY <1>7, <1>8, <3>1
        <4>2. readySeq'[i] = counter + rank[i] /\ readySeq'[j] = counter + rank[j]
          BY <1>6, <3>1, Zenon
        <4>3. \A a, b \in Int : a # b => counter + a # counter + b
          OBVIOUS
        <4>. QED
          BY <4>1, <4>2, <4>3, Zenon
      <3>2. CASE i \in new /\ j \notin new
        <4>1. readySeq'[i] > counter
          BY <1>6, <1>7, <1>8, <3>2
        <4>. QED
          BY <1>6, <2>1, <3>2, <4>1
      <3>3. CASE i \notin new /\ j \in new
        <4>1. readySeq'[j] > counter
          BY <1>6, <1>7, <1>8, <3>3
        <4>. QED
          BY <1>6, <2>1, <3>3, <4>1
      <3>4. CASE i \notin new /\ j \notin new
        BY <1>6, <2>1, <3>4
      <3>. QED
        BY <3>1, <3>2, <3>3, <3>4
    <2>. QED
      BY <2>2, <2>3
  <1>10. LineKept(jobState', readySeq')
    <2> SUFFICES ASSUME NEW j \in Jobs, jobState'[j] \in WaitingStates
                 PROVE  IF jobState[j] \in WaitingStates /\ readySeq[j] # 0
                        THEN readySeq'[j] = readySeq[j]
                        ELSE readySeq'[j] = 0 \/ readySeq'[j] > readyCounter
      BY DEF LineKept
    <2>1. j \notin skipped /\ st[j] \in WaitingStates
      BY <1>1, <1>2 DEF WaitingStates
    <2>2. readySeq'[j] = IF j \in new THEN counter + rank[j] ELSE ready[j]
      BY <1>6, <2>1
    <2>3. readyCounter \in Nat
      BY DEF TypeOK
    <2>. QED
      BY <1>5, <1>7, <1>8, <2>1, <2>2, <2>3 DEF LineKept
  <1>. QED
    BY <1>9, <1>10 DEF FifoStep

\* The same of a transaction that does not draw a position itself.
LEMMA AdvanceFifo ==
    ASSUME TypeOK, NEW st \in [Jobs -> JobStates], NEW ready \in [Jobs -> Nat],
           Advance(st, ready), Positions(ready, readyCounter), LineKept(st, ready)
    PROVE  FifoStep
  <1>1. readyCounter <= readyCounter /\ readyCounter \in Nat
    BY DEF TypeOK
  <1>2. edges \in [Jobs -> [Jobs -> EdgeStates]]
    BY DEF TypeOK
  <1>. QED
    BY <1>1, <1>2, AdvanceKeepsTheLine, Zenon DEF Advance

\* Steps that leave the columns alone and make no job wait keep the line.
LEMMA StillFifo ==
    ASSUME ReadyPositionsDistinct, UNCHANGED <<readySeq, readyCounter>>,
           \A j \in Jobs : jobState'[j] \in WaitingStates => jobState[j] \in WaitingStates
    PROVE  FifoStep
  BY DEF FifoStep, ReadyPositionsDistinct, LineKept

\* A transaction that ends or requeues job j: the place of j is given up if it
\* waits again, and the other jobs keep theirs.
LEMMA EndOrRequeueFifo ==
    ASSUME TypeOK, ReadyPositionsDistinct, NEW j \in Jobs, NEW js \in JobStates,
           NEW ready,
           \/ ready = [readySeq EXCEPT ![j] = 0] /\ jobState[j] \notin WaitingStates
           \/ ready = readySeq /\ js \notin WaitingStates,
           Advance([jobState EXCEPT ![j] = js], ready)
    PROVE  FifoStep
  <1> DEFINE st == [jobState EXCEPT ![j] = js]
  <1>1. st \in [Jobs -> JobStates] /\ ready \in [Jobs -> Nat]
    BY DEF TypeOK
  <1>2. Positions(ready, readyCounter)
    BY DEF TypeOK, ReadyPositionsDistinct, Positions
  <1>3. LineKept(st, ready)
    BY DEF TypeOK, LineKept
  <1>4. Advance(st, ready)
    OBVIOUS
  <1> HIDE DEF st
  <1>. QED
    BY <1>1, <1>2, <1>3, <1>4, AdvanceFifo

\* finalize_attempt_and_job ends a live job or sends it to the back.
LEMMA FinalizeFifo ==
    ASSUME Inv, ReadyPositionsDistinct, NEW j \in Jobs, NEW delivered \in BOOLEAN,
           NEW outcome \in {"succeeded", "failed", "cancelled", "lost", "yielded"},
           attempt[j] # "none", FinalizeAttemptAndJob(j, outcome, delivered)
    PROVE  FifoStep
  <1> DEFINE after == JobAfter(j, outcome, delivered)
             ready == IF after \in WaitingStates THEN [readySeq EXCEPT ![j] = 0] ELSE readySeq
  <1>1. Advance([jobState EXCEPT ![j] = after], ready)
    BY DEF FinalizeAttemptAndJob
  <1>2. after \in JobStates
    BY JobAfterType DEF JobStates
  <1>3. jobState[j] \notin WaitingStates
    BY DEF Inv, TypeOK, TablesAgree, WaitingStates, LiveAttemptStates, AdvancingStates
  <1>4. \/ ready = [readySeq EXCEPT ![j] = 0]
        \/ ready = readySeq /\ after \notin WaitingStates
    OBVIOUS
  <1> HIDE DEF after, ready
  <1>. QED
    BY <1>1, <1>2, <1>3, <1>4, EndOrRequeueFifo DEF Inv

\* Every client mutation keeps the line.
LEMMA MutationFifo == Inv /\ ReadyPositionsDistinct /\ Mutation => FifoStep
  <1> SUFFICES ASSUME Inv, ReadyPositionsDistinct, Mutation PROVE FifoStep
    OBVIOUS
  <1> USE DEF graphVars, rowVars, attemptVars, dbVars
  <1>0. TypeOK
    BY DEF Inv
  <1>1. ASSUME NEW r \in Submissions, Submit(r) PROVE FifoStep
    <2> DEFINE j == lastJob + 1
               free == r.deps = {}
               st == [jobState EXCEPT ![j] = "queued"]
               e == [edges EXCEPT ![j] = [p \in Jobs |-> EdgeOf(r.deps, p)]]
               ready == [readySeq EXCEPT ![j] = IF free THEN readyCounter + 1 ELSE 0]
               counter == IF free THEN readyCounter + 1 ELSE readyCounter
    <2>1. AdvanceFrom(st, e, ready, counter, delay) /\ j \in Jobs
      BY <1>1 DEF Submit
    <2>2. jobState[j] = "absent"
      <3>1. j > lastJob
        BY <1>0, BoundsAssumption DEF TypeOK
      <3>. QED
        BY <2>1, <3>1 DEF Inv, LoopInv
    <2>3. e \in [Jobs -> [Jobs -> EdgeStates]]
      BY <1>0, <2>1 DEF TypeOK, EdgeOf, EdgeStates, Conditions
    <2> HIDE DEF e
    <2>4. st \in [Jobs -> JobStates]
      BY <1>0, <2>1 DEF TypeOK, JobStates, WaitingStates
    <2> HIDE DEF j, free
    <2>5. ready \in [Jobs -> Nat] /\ counter \in Nat /\ readyCounter <= counter
      BY <1>0, <2>1 DEF TypeOK
    <2>6. Positions(ready, counter)
      BY <1>0, <2>1 DEF TypeOK, ReadyPositionsDistinct, Positions
    <2>7. LineKept(st, ready)
      BY <1>0, <2>1, <2>2 DEF TypeOK, LineKept, WaitingStates
    <2> HIDE DEF st, ready, counter
    <2>. QED
      BY <1>0, <2>1, <2>3, <2>4, <2>5, <2>6, <2>7, AdvanceKeepsTheLine
  <1>2. ASSUME NEW j \in Jobs, Hold(j) \/ Release(j) PROVE FifoStep
    BY <1>0, <1>2, StillFifo DEF Hold, Release, TypeOK, WaitingStates
  <1>3. ASSUME NEW j \in Jobs, Retry(j) PROVE FifoStep
    <2>1. /\ Advance([jobState EXCEPT ![j] = "queued"], [readySeq EXCEPT ![j] = 0])
          /\ jobState[j] \notin WaitingStates /\ "queued" \in JobStates
      BY <1>3 DEF Retry, WaitingStates, JobStates
    <2>. QED
      BY <1>0, <2>1, EndOrRequeueFifo
  <1>4. ASSUME NEW j \in Jobs, NEW js \in {"lost", "cancelled"},
               Advance([jobState EXCEPT ![j] = js], readySeq)
        PROVE  FifoStep
    <2>1. js \in JobStates /\ js \notin WaitingStates
      BY DEF JobStates, TerminalStates, WaitingStates
    <2>. QED
      BY <1>0, <1>4, <2>1, EndOrRequeueFifo
  <1>5. ASSUME NEW j \in Jobs, CancelWaiting(j) \/ CancelPrepared(j) PROVE FifoStep
    <2>1. Advance([jobState EXCEPT ![j] = "cancelled"], readySeq)
      BY <1>5 DEF CancelWaiting, CancelPrepared
    <2>. QED
      BY <1>4, <2>1, Zenon
  <1>6. ASSUME NEW j \in Jobs, NEW outcome \in {"lost", "cancelled"},
               RecoverResolve(j, outcome)
        PROVE  FifoStep
    <2>1. Advance([jobState EXCEPT ![j] = outcome], readySeq)
      BY <1>6 DEF RecoverResolve
    <2>. QED
      BY <1>4, <2>1, Zenon
  <1>7. CASE \/ \E j \in Jobs :
                  \/ \E v \in Limits : SetMaxParallelRuns(j, v)
                  \/ \E v \in Priorities : SetPriority(j, v)
                  \/ CancelLive(j)
                  \/ \E mode \in {"requeue", "hold"} : Yield(j, mode)
             \/ \E v \in BOOLEAN : SetPaused(v)
    <2>1. UNCHANGED graphVars
      BY <1>7 DEF SetMaxParallelRuns, SetPriority, CancelLive, Yield, SetPaused
    <2>. QED
      BY <2>1, StillFifo
  <1>. QED
    BY <1>1, <1>2, <1>3, <1>5, <1>6, <1>7 DEF Mutation

\* So does every step of the reconciliation loop.
LEMMA ReconcileFifo == Inv /\ ReadyPositionsDistinct /\ Reconcile => FifoStep
  <1> SUFFICES ASSUME Inv, ReadyPositionsDistinct, Reconcile PROVE FifoStep
    OBVIOUS
  <1>1. ASSUME NEW j \in Jobs, ReconcileNothing(j) PROVE FifoStep
    BY <1>1, StillFifo DEF ReconcileNothing, graphVars
  <1>2. ASSUME NEW j \in Jobs,
               Authorize(j) \/ ObserveExec(j) \/ Orphan(j) \/ Quarantine(j)
        PROVE  FifoStep
    <2>1. PICK js \in LiveStates : jobState' = [jobState EXCEPT ![j] = js]
      BY <1>2 DEF Authorize, ObserveExec, Orphan, Quarantine, MoveAttempt, LiveStates
    <2>2. UNCHANGED <<readySeq, readyCounter>>
      BY <1>2 DEF Authorize, ObserveExec, Orphan, Quarantine, MoveAttempt
    <2>. QED
      BY <2>1, <2>2, StillFifo DEF Inv, TypeOK, LiveStates, WaitingStates
  <1>3. ASSUME NEW j \in Jobs, NEW delivered \in BOOLEAN,
               NEW outcome \in {"succeeded", "failed", "cancelled", "lost", "yielded"},
               Finalize(j, outcome, delivered)
        PROVE  FifoStep
    <2>1. attempt[j] # "none" /\ FinalizeAttemptAndJob(j, outcome, delivered)
      BY <1>3 DEF Finalize, Visit, Inv, LoopInv, LiveAttempts
    <2>. QED
      BY <2>1, FinalizeFifo
  <1>. QED
    BY <1>1, <1>2, <1>3 DEF Reconcile

\* So does the scheduling pass: only its commit changes a job, to starting.
LEMMA PassFifo == Inv /\ ReadyPositionsDistinct /\ Pass => FifoStep
  <1> SUFFICES ASSUME Inv, ReadyPositionsDistinct, Pass PROVE FifoStep
    OBVIOUS
  <1>1. CASE CommitPass
    <2>1. /\ UNCHANGED <<readySeq, readyCounter>>
          /\ jobState' = [j \in Jobs |-> IF j \in plan.starts THEN "starting" ELSE jobState[j]]
      BY <1>1 DEF CommitPass
    <2>. QED
      BY <2>1, StillFifo DEF WaitingStates
  <1>2. CASE ~CommitPass
    <2>1. UNCHANGED <<jobState, readySeq, readyCounter>>
      BY <1>2, Zenon DEF Pass, PassBlocked, PassPaused, BeginPass, StartProtected, StartBackfill,
                  StartHead, ProtectHead, LaunchesDone, dbVars, graphVars
    <2>. QED
      BY <2>1, StillFifo, ZenonT(30)
  <1>. QED
    BY <1>1, <1>2

\* So do ticks, restarts, launches, the graph update and the clock.
LEMMA OtherStepsFifo ==
    ASSUME Inv, ReadyPositionsDistinct,
           \/ Tick
           \/ \E foreign \in BOOLEAN : Restart(foreign)
           \/ AdvanceGraph
           \/ Launches
           \/ Clock
           \/ UNCHANGED vars
    PROVE  FifoStep
  <1> USE DEF graphVars, dbVars
  <1>1. CASE Tick \/ (\E foreign \in BOOLEAN : Restart(foreign)) \/ Clock \/ UNCHANGED vars
    <2>1. UNCHANGED <<jobState, readySeq, readyCounter>>
      BY <1>1 DEF Tick, Restart, Clock, DelayElapses, ClockStepsBack, vars
    <2>. QED
      BY <2>1, StillFifo
  <1>2. CASE AdvanceGraph
    <2>1. /\ jobState \in [Jobs -> JobStates] /\ readySeq \in [Jobs -> Nat]
          /\ Advance(jobState, readySeq)
      BY <1>2 DEF AdvanceGraph, Inv, TypeOK
    <2>2. Positions(readySeq, readyCounter) /\ LineKept(jobState, readySeq)
      BY DEF ReadyPositionsDistinct, Positions, LineKept
    <2>. QED
      BY <2>1, <2>2, AdvanceFifo DEF Inv
  <1>3. ASSUME NEW j \in Jobs, Launch(j) PROVE FifoStep
    BY <1>3, StillFifo DEF Launch
  <1>4. ASSUME NEW j \in Jobs, LaunchFails(j) PROVE FifoStep
    <2>1. attempt[j] # "none" /\ FinalizeAttemptAndJob(j, "failed", FALSE)
      BY <1>4, Zenon DEF LaunchFails, Visit, Inv, LoopInv, LiveAttempts
    <2>. QED
      BY <2>1, FinalizeFifo, Zenon
  <1>. QED
    BY <1>1, <1>2, <1>3, <1>4 DEF Launches

\* Every step keeps the positions unique and the waiting jobs in their places.
LEMMA StepIsFifo == Inv /\ ReadyPositionsDistinct /\ [Next]_vars => FifoStep
  BY MutationFifo, ReconcileFifo, PassFifo, OtherStepsFifo DEF Next

\* Readiness positions are unique and at most the counter, however many jobs
\* become ready in one transaction and however many positions are given up.
THEOREM PositionsStayDistinct == Spec => []ReadyPositionsDistinct
  <1>1. Init => ReadyPositionsDistinct
    BY DEF Init, ReadyPositionsDistinct
  <1>2. Inv /\ ReadyPositionsDistinct /\ [Next]_vars => ReadyPositionsDistinct'
    BY StepIsFifo DEF FifoStep
  <1>. QED
    BY <1>1, <1>2, Invariance, PTL DEF Spec

\* A waiting job keeps its place through hold, release, edits and other jobs'
\* transactions; one that comes back gets a later place than any job ever had.
THEOREM TheLineIsFair == Spec => BackOfTheLine
  <1>1. Inv /\ ReadyPositionsDistinct /\ [Next]_vars =>
            [LineKept(jobState', readySeq')]_vars
    BY StepIsFifo DEF FifoStep
  <1>. QED
    BY <1>1, Invariance, PositionsStayDistinct, PTL DEF Spec, BackOfTheLine, LineKept

------------------------------------------------------------------------------
(* Ends that are final.                                                    *)

FinalStates == {"succeeded", "cancelled", "skipped"}

\* What FinalStatesAreFinal says of a step that leaves these job states.
FinalKept(st) == \A j \in Jobs : jobState[j] \in FinalStates => st[j] = jobState[j]

\* The graph update skips waiting jobs only, so it keeps what was final.
LEMMA AdvanceKeepsFinal ==
    ASSUME NEW st \in [Jobs -> JobStates],
           NEW e \in [Jobs -> [Jobs -> EdgeStates]],
           NEW ready \in [Jobs -> Nat],
           NEW counter \in Nat,
           NEW dl,
           AdvanceFrom(st, e, ready, counter, dl),
           FinalKept(st)
    PROVE  FinalKept(jobState')
  <1>1. \A j \in Jobs : \/ jobState'[j] = st[j]
                        \/ st[j] \in WaitingStates /\ jobState'[j] = "skipped"
    BY AdvanceFromKeepsTypes, Zenon
  <1>. QED
    BY <1>1 DEF FinalKept, FinalStates, WaitingStates

\* A transaction that moves a job which has not finally ended keeps the rest.
LEMMA MoveKeepsFinal ==
    ASSUME TypeOK, NEW j \in Jobs, jobState[j] \notin FinalStates, NEW js \in JobStates,
           NEW ready \in [Jobs -> Nat], Advance([jobState EXCEPT ![j] = js], ready)
    PROVE  FinalKept(jobState')
  <1> DEFINE st == [jobState EXCEPT ![j] = js]
  <1>1. st \in [Jobs -> JobStates] /\ FinalKept(st)
    BY DEF TypeOK, FinalKept
  <1>2. AdvanceFrom(st, edges, ready, readyCounter, delay')
    BY DEF Advance
  <1>3. edges \in [Jobs -> [Jobs -> EdgeStates]] /\ readyCounter \in Nat
    BY DEF TypeOK
  <1> HIDE DEF st
  <1>. QED
    BY <1>1, <1>2, <1>3, AdvanceKeepsFinal

\* Only live jobs are finalized.
LEMMA FinalizeKeepsFinal ==
    ASSUME Inv, NEW j \in Jobs, NEW delivered \in BOOLEAN,
           NEW outcome \in {"succeeded", "failed", "cancelled", "lost", "yielded"},
           attempt[j] # "none", FinalizeAttemptAndJob(j, outcome, delivered)
    PROVE  FinalKept(jobState')
  <1> DEFINE after == JobAfter(j, outcome, delivered)
             ready == IF after \in WaitingStates THEN [readySeq EXCEPT ![j] = 0] ELSE readySeq
  <1>1. Advance([jobState EXCEPT ![j] = after], ready)
    BY DEF FinalizeAttemptAndJob
  <1>2. after \in JobStates
    BY JobAfterType DEF JobStates
  <1>3. jobState[j] \notin FinalStates
    BY DEF Inv, TypeOK, TablesAgree, FinalStates, LiveAttemptStates, AdvancingStates
  <1> HIDE DEF after
  <1>4. ready \in [Jobs -> Nat]
    BY DEF Inv, TypeOK
  <1> HIDE DEF ready
  <1>. QED
    BY <1>1, <1>2, <1>3, <1>4, MoveKeepsFinal DEF Inv

\* Client mutations move waiting, live, failed and lost jobs only.
LEMMA MutationKeepsFinal == Inv /\ Mutation => FinalKept(jobState')
  <1> SUFFICES ASSUME Inv, Mutation PROVE FinalKept(jobState')
    OBVIOUS
  <1> USE DEF graphVars, rowVars, attemptVars, dbVars
  <1>0. TypeOK
    BY DEF Inv
  <1>1. ASSUME NEW r \in Submissions, Submit(r) PROVE FinalKept(jobState')
    <2> DEFINE j == lastJob + 1
               st == [jobState EXCEPT ![j] = "queued"]
               e == [edges EXCEPT ![j] = [p \in Jobs |-> EdgeOf(r.deps, p)]]
               ready == [readySeq EXCEPT ![j] = IF r.deps = {} THEN readyCounter + 1 ELSE 0]
               counter == IF r.deps = {} THEN readyCounter + 1 ELSE readyCounter
    <2>1. AdvanceFrom(st, e, ready, counter, delay) /\ j \in Jobs
      BY <1>1 DEF Submit
    <2>2. jobState[j] = "absent"
      <3>1. j > lastJob
        BY <1>0, BoundsAssumption DEF TypeOK
      <3>. QED
        BY <2>1, <3>1 DEF Inv, LoopInv
    <2>3. e \in [Jobs -> [Jobs -> EdgeStates]]
      BY <1>0, <2>1 DEF TypeOK, EdgeOf, EdgeStates, Conditions
    <2> HIDE DEF e, j
    <2>4. /\ st \in [Jobs -> JobStates] /\ ready \in [Jobs -> Nat] /\ counter \in Nat
      BY <1>0, <2>1 DEF TypeOK, JobStates, WaitingStates
    <2>5. FinalKept(st)
      BY <1>0, <2>1, <2>2 DEF TypeOK, FinalKept, FinalStates
    <2> HIDE DEF st, ready, counter
    <2>. QED
      BY <2>1, <2>3, <2>4, <2>5, AdvanceKeepsFinal, Zenon
  <1>2. ASSUME NEW j \in Jobs, Hold(j) \/ Release(j) PROVE FinalKept(jobState')
    BY <1>0, <1>2 DEF Hold, Release, TypeOK, FinalKept, FinalStates
  <1>3. ASSUME NEW j \in Jobs, NEW outcome \in {"lost", "cancelled"},
               \/ Retry(j) \/ CancelWaiting(j) \/ CancelPrepared(j)
               \/ RecoverResolve(j, outcome)
        PROVE  FinalKept(jobState')
    <2>1. PICK js \in {"queued", "lost", "cancelled"},
               ready \in {readySeq, [readySeq EXCEPT ![j] = 0]} :
                    Advance([jobState EXCEPT ![j] = js], ready)
      BY <1>3, Zenon DEF Retry, CancelWaiting, CancelPrepared, RecoverResolve
    <2>2. jobState[j] \notin FinalStates
      BY <1>0, <1>3 DEF Retry, CancelWaiting, CancelPrepared, RecoverResolve, Inv, TablesAgree,
                        FinalStates, WaitingStates, LiveStates
    <2>3. ready \in [Jobs -> Nat] /\ js \in JobStates
      BY <1>0 DEF TypeOK, JobStates, WaitingStates, TerminalStates
    <2>. QED
      BY <1>0, <2>1, <2>2, <2>3, MoveKeepsFinal
  <1>4. CASE \/ \E j \in Jobs :
                  \/ \E v \in Limits : SetMaxParallelRuns(j, v)
                  \/ \E v \in Priorities : SetPriority(j, v)
                  \/ CancelLive(j)
                  \/ \E mode \in {"requeue", "hold"} : Yield(j, mode)
             \/ \E v \in BOOLEAN : SetPaused(v)
    <2>1. jobState' = jobState
      BY <1>4 DEF SetMaxParallelRuns, SetPriority, CancelLive, Yield, SetPaused
    <2>. QED
      BY <2>1 DEF FinalKept
  <1>. QED
    BY <1>1, <1>2, <1>3, <1>4 DEF Mutation

\* Reconciliation and launches move live jobs only, a pass queued ones, and the
\* graph update waiting ones.
LEMMA OtherStepsKeepFinal == Inv /\ [Next]_vars /\ ~Mutation => FinalKept(jobState')
  <1> SUFFICES ASSUME Inv, [Next]_vars, ~Mutation PROVE FinalKept(jobState')
    OBVIOUS
  <1> USE DEF graphVars, dbVars
  <1>1. ASSUME NEW j \in Jobs,
               Authorize(j) \/ ObserveExec(j) \/ Orphan(j) \/ Quarantine(j)
        PROVE  FinalKept(jobState')
    <2>1. attempt[j] # "none"
      BY <1>1 DEF Authorize, ObserveExec, Orphan, Quarantine, LiveAttemptStates, AdvancingStates
    <2>2. jobState[j] \notin FinalStates
      BY <2>1 DEF Inv, TypeOK, TablesAgree, FinalStates, LiveAttemptStates, AdvancingStates
    <2>3. \A k \in Jobs : k # j => jobState'[k] = jobState[k]
      BY <1>1 DEF Authorize, ObserveExec, Orphan, Quarantine, MoveAttempt, Inv, TypeOK
    <2>. QED
      BY <2>2, <2>3 DEF FinalKept
  <1>2. ASSUME NEW j \in Jobs, NEW delivered \in BOOLEAN,
               NEW outcome \in {"succeeded", "failed", "cancelled", "lost", "yielded"},
               Finalize(j, outcome, delivered)
        PROVE  FinalKept(jobState')
    <2>1. attempt[j] # "none" /\ FinalizeAttemptAndJob(j, outcome, delivered)
      BY <1>2 DEF Finalize, Visit, Inv, LoopInv, LiveAttempts
    <2>. QED
      BY <2>1, FinalizeKeepsFinal
  <1>3. ASSUME NEW j \in Jobs, LaunchFails(j) PROVE FinalKept(jobState')
    <2>1. attempt[j] # "none" /\ FinalizeAttemptAndJob(j, "failed", FALSE)
      BY <1>3, Zenon DEF LaunchFails, Visit, Inv, LoopInv, LiveAttempts
    <2>. QED
      BY <2>1, FinalizeKeepsFinal, Zenon
  <1>4. CASE AdvanceGraph
    <2>1. /\ AdvanceFrom(jobState, edges, readySeq, readyCounter, delay')
          /\ jobState \in [Jobs -> JobStates] /\ edges \in [Jobs -> [Jobs -> EdgeStates]]
          /\ readySeq \in [Jobs -> Nat] /\ readyCounter \in Nat
      BY <1>4 DEF AdvanceGraph, Advance, Inv, TypeOK
    <2>2. FinalKept(jobState)
      BY DEF FinalKept
    <2>. QED
      BY <2>1, <2>2, AdvanceKeepsFinal, Zenon
  <1>5. CASE CommitPass
    <2>1. /\ \A j \in plan.starts : jobState[j] = "queued"
          /\ jobState' = [j \in Jobs |-> IF j \in plan.starts THEN "starting" ELSE jobState[j]]
      BY <1>5 DEF CommitPass
    <2>. QED
      BY <2>1 DEF FinalKept, FinalStates
  <1>6. CASE \/ \E j \in Jobs : ReconcileNothing(j) \/ Launch(j)
             \/ Pass /\ ~CommitPass
             \/ Tick \/ (\E foreign \in BOOLEAN : Restart(foreign)) \/ Clock \/ UNCHANGED vars
    <2>1. jobState' = jobState
      BY <1>6, Zenon DEF ReconcileNothing, Launch, Pass, PassBlocked, PassPaused, BeginPass,
                  StartProtected, StartBackfill, StartHead, ProtectHead, LaunchesDone, Tick,
                  Restart, Clock, DelayElapses, ClockStepsBack, vars
    <2>. QED
      BY <2>1, ZenonT(30) DEF FinalKept
  <1>. QED
    BY <1>1, <1>2, <1>3, <1>4, <1>5, <1>6 DEF Next, Reconcile, Launches

\* A job that succeeded, was cancelled or was skipped stays so, whatever
\* results, retries, recoveries and retried parents come later.
THEOREM FinalIsFinal == Spec => FinalStatesAreFinal
  <1>1. Inv /\ [Next]_vars => [FinalKept(jobState')]_vars
    BY MutationKeepsFinal, OtherStepsKeepFinal
  <1>. QED
    BY <1>1, Invariance, PTL DEF Spec, FinalStatesAreFinal, FinalKept, FinalStates

------------------------------------------------------------------------------
(* The dependency graph.                                                   *)

\* Every edge of c lets it run.
Unblocked(e, c) == \A p \in Jobs : e[c][p] \in {"none", "satisfied"}

\* Jobs with an open or violated edge: they wait, or ended without a start.
MayBeBlocked == WaitingStates \cup {"cancelled", "skipped"}

\* What a transaction has to write before its graph update: edges go back in
\* the table, a job that has a place or has started is unblocked, a skipped one
\* names its reason, and a live one has a place.
GraphBefore(st, e, ready) ==
    \A c \in Jobs :
        /\ \A p \in Jobs : e[c][p] # "none" => p < c
        /\ ready[c] # 0 \/ st[c] \notin MayBeBlocked => Unblocked(e, c)
        /\ st[c] = "skipped" => \E p \in Jobs : e[c][p] = "violated"
        /\ st[c] \in LiveStates => ready[c] # 0

\* The same of the tables between transactions, and of a plan in progress.
GraphInv ==
    /\ GraphAtFixedPoint
    /\ GraphBefore(jobState, edges, readySeq)
    /\ pc = "planning" => \A j \in plan.eligible : readySeq[j] # 0

\* The cascade has a fixed point, by the least id without one: the loop of
\* advance_dependency_graph ends, and Doomed is its result.
LEMMA DoomedIsFixedPoint ==
    ASSUME NEW st, DOMAIN st = Jobs, NEW e
    PROVE  \A c \in Jobs : Doomed(st, e)[c] <=>
                \E p \in Jobs : \/ e[c][p] = "violated"
                                \/ /\ p < c /\ e[c][p] = "succeeded"
                                   /\ \/ EndedBadly(st[p])
                                      \/ st[p] \in WaitingStates /\ Doomed(st, e)[p]
  <1> DEFINE Violated(c) == \E p \in Jobs : e[c][p] = "violated"
             Needs(c, p) == p < c /\ e[c][p] = "succeeded"
             Hit(D, c) == \/ Violated(c)
                          \/ \E p \in Jobs :
                                /\ Needs(c, p)
                                /\ \/ EndedBadly(st[p])
                                   \/ st[p] \in WaitingStates /\ p \in D
             Solved(n) == \E D \in SUBSET Jobs : \A c \in Jobs : c <= n => (c \in D <=> Hit(D, c))
             Bad == {n \in 0 .. MaxJobs : ~Solved(n)}
             R == {ss \in Nat \X Nat : ss[1] < ss[2]}
  <1>1. MaxJobs \in Nat /\ Jobs = 1 .. MaxJobs
    BY BoundsAssumption DEF Jobs
  <1>2. Solved(0)
    <2>1. \A c \in Jobs : ~(c <= 0)
      BY <1>1
    <2>. QED
      BY <2>1
  <1>3. ASSUME NEW n \in 1 .. MaxJobs, Solved(n - 1) PROVE Solved(n)
    <2>1. PICK D \in SUBSET Jobs : \A c \in Jobs : c <= n - 1 => (c \in D <=> Hit(D, c))
      BY <1>3
    <2> DEFINE E == {c \in D : c # n} \cup {c \in {n} : Hit(D, n)}
    <2>2. n \in Jobs /\ E \in SUBSET Jobs
      BY <1>1, Zenon
    <2>3. \A p \in Jobs : p # n => (p \in E <=> p \in D)
      OBVIOUS
    <2>4. n \in E <=> Hit(D, n)
      <3> HIDE DEF Hit
      <3>. QED
        OBVIOUS
    <2> HIDE DEF E
    <2>5. ASSUME NEW c \in Jobs, c <= n PROVE Hit(E, c) <=> Hit(D, c)
      <3>1. \A p \in Jobs : p < c => p # n
        BY <1>1, <2>5
      <3>2. \A p \in Jobs : Needs(c, p) => (p \in E <=> p \in D)
        BY <2>3, <3>1
      <3> HIDE DEF Violated, Needs
      <3>. QED
        BY <3>2
    <2>6. ASSUME NEW c \in Jobs, c <= n PROVE c \in E <=> Hit(E, c)
      <3>1. CASE c = n
        <4> HIDE DEF Hit
        <4>. QED
          BY <2>4, <2>5, <2>6, <3>1
      <3>2. CASE c # n
        <4>1. c <= n - 1
          BY <1>1, <2>6, <3>2
        <4> HIDE DEF Hit
        <4>. QED
          BY <2>1, <2>3, <2>5, <2>6, <3>2, <4>1
      <3>. QED
        BY <3>1, <3>2
    <2> HIDE DEF Hit
    <2>. QED
      BY <2>2, <2>6
  <1>4. Bad = {}
    <2> SUFFICES ASSUME Bad # {} PROVE FALSE
      OBVIOUS
    <2>1. IsWellFoundedOn(R, Nat)
      BY NatLessThanWellFounded DEF OpToRel
    <2>2. Bad \subseteq Nat
      BY <1>1
    <2>3. PICK n \in Bad : \A m \in Bad : <<m, n>> \notin R
      <3> HIDE DEF R, Bad
      <3>. QED
        BY <2>1, <2>2, WFMin, Zenon
    <2> HIDE DEF Solved
    <2>4. n \in 0 .. MaxJobs /\ ~Solved(n)
      OBVIOUS
    <2>5. n # 0
      BY <1>2, <2>4
    <2>6. n - 1 \in 0 .. MaxJobs /\ <<n - 1, n>> \in R
      BY <1>1, <2>4, <2>5
    <2>7. n - 1 \notin Bad
      <3> HIDE DEF R, Bad
      <3>. QED
        BY <2>3, <2>6
    <2>8. Solved(n - 1)
      BY <2>6, <2>7
    <2>. QED
      BY <1>1, <1>3, <2>4, <2>5, <2>8
  <1>5. PICK D \in SUBSET Jobs : \A c \in Jobs : c \in D <=> Hit(D, c)
    <2>1. Solved(MaxJobs)
      <3> HIDE DEF Solved
      <3>1. MaxJobs \in 0 .. MaxJobs
        BY <1>1
      <3>. QED
        BY <1>4, <3>1
    <2>2. \A c \in Jobs : c <= MaxJobs
      BY <1>1
    <2> HIDE DEF Hit
    <2>. QED
      BY <2>1, <2>2
  <1> DEFINE Body(f, c) == \E p \in DOMAIN st :
                              \/ e[c][p] = "violated"
                              \/ /\ p < c
                                 /\ e[c][p] = "succeeded"
                                 /\ \/ EndedBadly(st[p])
                                    \/ st[p] \in WaitingStates /\ f[p]
             fix == [c \in DOMAIN st |-> c \in D]
  <1>6. \A c \in DOMAIN st : (c \in D) = Body(fix, c)
    <2>1. \A c \in Jobs : Body(fix, c) <=> Hit(D, c)
      <3> SUFFICES ASSUME NEW c \in Jobs PROVE Body(fix, c) <=> Hit(D, c)
        OBVIOUS
      <3>1. \A p \in Jobs : fix[p] <=> p \in D
        BY Zenon
      <3> HIDE DEF fix
      <3>2. ASSUME Body(fix, c) PROVE Hit(D, c)
        BY <3>1, <3>2, Zenon
      <3>3. ASSUME Hit(D, c) PROVE Body(fix, c)
        BY <3>1, <3>3, Zenon
      <3> HIDE DEF Hit, Body
      <3>. QED
        BY <3>2, <3>3
    <2>2. ASSUME NEW c \in Jobs PROVE (c \in D) = Body(fix, c)
      <3>1. (c \in D) <=> Body(fix, c)
        <4> HIDE DEF Hit, Body
        <4>. QED
          BY <1>5, <2>1
      <3>2. PICK b \in BOOLEAN : b = Body(fix, c)
        <4>1. Body(fix, c) \in BOOLEAN
          BY Zenon
        <4> HIDE DEF Body
        <4>. QED
          BY <4>1
      <3> HIDE DEF Body
      <3>3. (c \in D) <=> b
        BY <3>1, <3>2
      <3>4. (c \in D) = b
        BY <3>3
      <3>. QED
        BY <3>2, <3>4
    <2> HIDE DEF Body
    <2>. QED
      BY <2>2
  <1>7. fix = [c \in DOMAIN st |-> Body(fix, c)]
    <2> HIDE DEF Body
    <2>. QED
      BY <1>6, Zenon
  <1>8. \E f : f = [c \in DOMAIN st |-> Body(f, c)]
    <2> HIDE DEF fix
    <2>. QED
      BY <1>7, Zenon
  <1>9. PICK g : g = Doomed(st, e) /\ g = [c \in DOMAIN st |-> Body(g, c)]
    <2>1. Doomed(st, e) = CHOOSE f : f = [c \in DOMAIN st |-> Body(f, c)]
      BY DEF Doomed
    <2> HIDE DEF Body
    <2>. QED
      BY <1>8, <2>1
  <1>10. \A c \in Jobs : g[c] = Body(g, c)
    <2> HIDE DEF Body
    <2>. QED
      BY <1>9
  <1>11. \A c \in Jobs : g[c] <=>
            \E p \in Jobs : \/ e[c][p] = "violated"
                            \/ /\ p < c /\ e[c][p] = "succeeded"
                               /\ \/ EndedBadly(st[p])
                                  \/ st[p] \in WaitingStates /\ g[p]
    BY <1>10, Zenon
  <1>. QED
    BY <1>9, <1>11, Zenon

\* advance_dependency_graph brings whatever a transaction has written to the
\* fixed point.
LEMMA AdvanceReachesFixedPoint ==
    ASSUME NEW st \in [Jobs -> JobStates],
           NEW e \in [Jobs -> [Jobs -> EdgeStates]],
           NEW ready \in [Jobs -> Nat],
           NEW counter \in Nat,
           NEW dl,
           AdvanceFrom(st, e, ready, counter, dl),
           GraphBefore(st, e, ready)
    PROVE  GraphAtFixedPoint' /\ GraphBefore(jobState', edges', readySeq')
  <1> DEFINE skipped == SkippedBy(st, e)
             after == StatesAfter(st, skipped)
             latched == Latched(after, e)
             cleared == [c \in Jobs |-> IF c \in skipped THEN 0 ELSE ready[c]]
             new == NewlyReady(after, latched, cleared, dl)
             d == Doomed(st, e)
  <1>1. /\ jobState' = after /\ edges' = latched
        /\ readySeq' = ReadyAfter(ready, skipped, new, counter)
    BY DEF AdvanceFrom
  <1>2. \A c \in Jobs : c \in skipped <=> st[c] \in WaitingStates /\ d[c]
    BY DEF SkippedBy
  <1>3. \A c \in Jobs : d[c] <=>
            \E p \in Jobs : \/ e[c][p] = "violated"
                            \/ /\ p < c /\ e[c][p] = "succeeded"
                               /\ \/ EndedBadly(st[p])
                                  \/ st[p] \in WaitingStates /\ d[p]
    BY DoomedIsFixedPoint, Zenon
  <1>4. DOMAIN after = Jobs /\ \A c \in Jobs : after[c] = IF c \in skipped THEN "skipped" ELSE st[c]
    BY DEF StatesAfter
  <1>5. \A c, p \in Jobs : latched[c][p] = Resolve(e[c][p], after[p])
    <2> HIDE DEF after
    <2>. QED
      BY <1>4 DEF Latched
  <1>6. \A c \in new : Unblocked(latched, c)
    <2> HIDE DEF after, latched, cleared
    <2>. QED
      BY <1>4 DEF NewlyReady, Unblocked
  <1>7. \A c \in new : c \in Jobs /\ after[c] \in WaitingStates
    <2> HIDE DEF after, latched, cleared
    <2>. QED
      BY <1>4 DEF NewlyReady
  <1> HIDE DEF skipped, after, latched, new, d, cleared
  <1>8. \A c \in Jobs : c \notin new =>
            readySeq'[c] = IF c \in skipped THEN 0 ELSE ready[c]
    BY <1>1 DEF ReadyAfter
  <1> USE DEF WaitingStates, LiveStates, TerminalStates, Conditions, EdgeStates
  \* A job is skipped exactly for an edge that is violated now.
  <1>9. ASSUME NEW c \in Jobs, NEW p \in Jobs, latched[c][p] = "violated"
         PROVE  after[c] \in {"skipped", "cancelled"}
    <2>1. CASE e[c][p] = "violated"
      <3>1. d[c]
        BY <1>3, <2>1
      <3>2. st[c] \in MayBeBlocked
        BY <2>1, ZenonT(30) DEF GraphBefore, Unblocked
      <3>. QED
        BY <1>2, <1>4, <3>1, <3>2 DEF MayBeBlocked
    <2>2. CASE e[c][p] # "violated"
      <3>1. e[c][p] = "succeeded" /\ after[p] \in TerminalStates \ {"succeeded"}
        BY <1>5, <1>9, <2>2 DEF Resolve
      <3>2. p < c
        BY <3>1 DEF GraphBefore
      <3>3. EndedBadly(st[p]) \/ (st[p] \in WaitingStates /\ d[p])
        <4>1. CASE p \in skipped
          BY <1>2, <4>1
        <4>2. CASE p \notin skipped
          <5>1. st[p] \in TerminalStates \ {"succeeded"}
            BY <1>4, <3>1, <4>2
          <5>. QED
            BY <5>1 DEF EndedBadly
        <4>. QED
          BY <4>1, <4>2
      <3>4. d[c]
        BY <1>3, <3>1, <3>2, <3>3, Zenon
      <3>5. st[c] \in MayBeBlocked
        BY <3>1 DEF GraphBefore, Unblocked
      <3>. QED
        BY <1>2, <1>4, <3>4, <3>5 DEF MayBeBlocked
    <2>. QED
      BY <2>1, <2>2
  <1>10. ASSUME NEW c \in Jobs, after[c] = "skipped"
         PROVE  \E p \in Jobs : latched[c][p] = "violated"
    <2>1. CASE c \in skipped
      <3>1. PICK p \in Jobs : \/ e[c][p] = "violated"
                              \/ /\ e[c][p] = "succeeded"
                                 /\ \/ EndedBadly(st[p])
                                    \/ st[p] \in WaitingStates /\ d[p]
        <4>1. d[c]
          BY <1>2, <2>1
        <4>. QED
          BY <1>3, <4>1, Zenon
      <3>2. \/ e[c][p] = "violated"
            \/ e[c][p] = "succeeded" /\ after[p] \in TerminalStates \ {"succeeded"}
        <4>1. CASE e[c][p] = "succeeded" /\ EndedBadly(st[p])
          BY <1>2, <1>4, <4>1 DEF EndedBadly
        <4>2. CASE e[c][p] = "succeeded" /\ st[p] \in WaitingStates /\ d[p]
          BY <1>2, <1>4, <4>2
        <4>. QED
          BY <3>1, <4>1, <4>2
      <3>. QED
        BY <1>5, <3>2 DEF Resolve
    <2>2. CASE c \notin skipped
      <3>1. PICK p \in Jobs : e[c][p] = "violated"
        BY <1>4, <1>10, <2>2 DEF GraphBefore
      <3>. QED
        BY <1>5, <3>1 DEF Resolve
    <2>. QED
      BY <2>1, <2>2
  <1>11. \A c, p \in Jobs : latched[c][p] \in Conditions => after[p] \notin TerminalStates
    BY <1>5 DEF Resolve
  <1>12. \A c \in Jobs : Unblocked(e, c) => Unblocked(latched, c)
    BY <1>5 DEF Unblocked, Resolve
  <1>13. \A c \in Jobs : readySeq'[c] # 0 => Unblocked(latched, c)
    BY <1>6, <1>8, <1>12 DEF GraphBefore
  <1>14. \A c \in Jobs : after[c] \in LiveStates => readySeq'[c] # 0
    BY <1>4, <1>7, <1>8 DEF GraphBefore
  <1>15. \A c \in Jobs : after[c] \notin MayBeBlocked => Unblocked(latched, c)
    BY <1>4, <1>12 DEF GraphBefore, MayBeBlocked
  <1>16. \A c, p \in Jobs : latched[c][p] # "none" => p < c
    BY <1>5, SMTT(30) DEF GraphBefore, Resolve
  <1>17. GraphAtFixedPoint'
    BY <1>1, <1>9, <1>10, <1>11, <1>13, <1>14, SMTT(30) DEF GraphAtFixedPoint, Unblocked
  <1>18. GraphBefore(jobState', edges', readySeq')
    BY <1>1, <1>10, <1>13, <1>14, <1>15, <1>16 DEF GraphBefore
  <1>. QED
    BY <1>17, <1>18

\* The transactions that move one job to an end or back to the queue: it is
\* unblocked if it had started.
LEMMA MoveReachesFixedPoint ==
    ASSUME TypeOK, GraphInv, NEW j \in Jobs,
           NEW js \in WaitingStates \cup (TerminalStates \ {"skipped"}),
           js \in MayBeBlocked \/ jobState[j] \notin MayBeBlocked,
           NEW ready \in {readySeq, [readySeq EXCEPT ![j] = 0]},
           Advance([jobState EXCEPT ![j] = js], ready)
    PROVE  GraphAtFixedPoint' /\ GraphBefore(jobState', edges', readySeq')
  <1> DEFINE st == [jobState EXCEPT ![j] = js]
  <1>1. /\ st \in [Jobs -> JobStates] /\ ready \in [Jobs -> Nat]
        /\ edges \in [Jobs -> [Jobs -> EdgeStates]] /\ readyCounter \in Nat
    BY DEF TypeOK, JobStates
  <1>2. AdvanceFrom(st, edges, ready, readyCounter, delay')
    BY DEF Advance
  <1>3. /\ \A c \in Jobs : st[c] = IF c = j THEN js ELSE jobState[c]
        /\ \A c \in Jobs : ready[c] = readySeq[c] \/ (c = j /\ ready[c] = 0)
    BY DEF TypeOK
  <1> HIDE DEF st
  <1>4. GraphBefore(st, edges, ready)
    <2> SUFFICES ASSUME NEW c \in Jobs
                 PROVE  /\ \A p \in Jobs : edges[c][p] # "none" => p < c
                        /\ ready[c] # 0 \/ st[c] \notin MayBeBlocked => Unblocked(edges, c)
                        /\ st[c] = "skipped" => \E p \in Jobs : edges[c][p] = "violated"
                        /\ st[c] \in LiveStates => ready[c] # 0
      BY DEF GraphBefore
    <2>1. /\ \A p \in Jobs : edges[c][p] # "none" => p < c
          /\ readySeq[c] # 0 \/ jobState[c] \notin MayBeBlocked => Unblocked(edges, c)
          /\ jobState[c] = "skipped" => \E p \in Jobs : edges[c][p] = "violated"
          /\ jobState[c] \in LiveStates => readySeq[c] # 0
      BY DEF GraphInv, GraphBefore
    <2>2. js # "skipped" /\ js \notin LiveStates
      BY DEF WaitingStates, TerminalStates, LiveStates
    <2>. QED
      BY <1>3, <2>1, <2>2
  <1>. QED
    BY <1>1, <1>2, <1>4, AdvanceReachesFixedPoint, Zenon

\* finalize_attempt_and_job moves a job that had started.
LEMMA FinalizeReachesFixedPoint ==
    ASSUME Inv, GraphInv, NEW j \in Jobs, NEW delivered \in BOOLEAN,
           NEW outcome \in {"succeeded", "failed", "cancelled", "lost", "yielded"},
           attempt[j] # "none", FinalizeAttemptAndJob(j, outcome, delivered)
    PROVE  GraphAtFixedPoint' /\ GraphBefore(jobState', edges', readySeq')
  <1> DEFINE after == JobAfter(j, outcome, delivered)
             ready == IF after \in WaitingStates THEN [readySeq EXCEPT ![j] = 0] ELSE readySeq
  <1>1. Advance([jobState EXCEPT ![j] = after], ready)
    BY DEF FinalizeAttemptAndJob
  <1>2. jobState[j] \in LiveStates
    BY DEF Inv, TypeOK, TablesAgree, LiveStates, LiveAttemptStates, AdvancingStates
  <1>3. jobState[j] \notin TerminalStates /\ jobState[j] \notin MayBeBlocked
    BY <1>2 DEF LiveStates, TerminalStates, MayBeBlocked, WaitingStates
  <1>4. after \in WaitingStates \cup (TerminalStates \ {"skipped"})
    BY <1>3 DEF JobAfter, WaitingStates, TerminalStates
  <1>5. ready \in {readySeq, [readySeq EXCEPT ![j] = 0]}
    OBVIOUS
  <1> HIDE DEF after, ready
  <1>. QED
    BY <1>1, <1>3, <1>4, <1>5, MoveReachesFixedPoint, ZenonT(30) DEF Inv

\* A transaction with a graph update leaves no plan in progress.
LEMMA NoPlanLeft ==
    ASSUME GraphAtFixedPoint' /\ GraphBefore(jobState', edges', readySeq'), pc' # "planning"
    PROVE  GraphInv'
  BY DEF GraphInv, GraphBefore, Unblocked

\* Steps that leave the graph alone, and a plan at most as it was.
LEMMA GraphStill ==
    ASSUME GraphInv, UNCHANGED <<jobState, edges, readySeq>>,
           pc' = "planning" => \A k \in plan'.eligible : readySeq[k] # 0
    PROVE  GraphInv'
  BY DEF GraphInv, GraphAtFixedPoint, GraphBefore, Unblocked

\* Steps that hold or release waiting jobs, or start or move jobs with a place.
LEMMA MovesWithinGraph ==
    ASSUME GraphInv, UNCHANGED <<edges, readySeq>>, pc' # "planning",
           \A c \in Jobs :
              \/ jobState'[c] = jobState[c]
              \/ jobState[c] \in WaitingStates /\ jobState'[c] \in WaitingStates
              \/ readySeq[c] # 0 /\ jobState'[c] \in LiveStates
    PROVE  GraphInv'
  <1> USE DEF WaitingStates, LiveStates, TerminalStates
  <1>1. \A c, p \in Jobs : readySeq[c] # 0 => edges[c][p] \in {"none", "satisfied"}
    BY DEF GraphInv, GraphAtFixedPoint
  <1>2. GraphAtFixedPoint'
    <2> SUFFICES ASSUME NEW c \in Jobs
                 PROVE  /\ \A p \in Jobs :
                            /\ edges[c][p] \in Conditions => jobState'[p] \notin TerminalStates
                            /\ edges[c][p] = "violated" => jobState'[c] \in {"skipped", "cancelled"}
                            /\ readySeq[c] # 0 => edges[c][p] \in {"none", "satisfied"}
                        /\ jobState'[c] = "skipped" => \E p \in Jobs : edges[c][p] = "violated"
                        /\ jobState'[c] \in LiveStates => readySeq[c] # 0
      BY DEF GraphAtFixedPoint
    <2>1. /\ \A p \in Jobs :
                /\ edges[c][p] \in Conditions => jobState[p] \notin TerminalStates
                /\ edges[c][p] = "violated" => jobState[c] \in {"skipped", "cancelled"}
          /\ jobState[c] = "skipped" => \E p \in Jobs : edges[c][p] = "violated"
          /\ jobState[c] \in LiveStates => readySeq[c] # 0
      BY DEF GraphInv, GraphAtFixedPoint
    <2>. QED
      BY <1>1, <2>1
  <1>3. GraphBefore(jobState', edges, readySeq)
    <2> SUFFICES ASSUME NEW c \in Jobs
                 PROVE  /\ \A p \in Jobs : edges[c][p] # "none" => p < c
                        /\ readySeq[c] # 0 \/ jobState'[c] \notin MayBeBlocked => Unblocked(edges, c)
                        /\ jobState'[c] = "skipped" => \E p \in Jobs : edges[c][p] = "violated"
                        /\ jobState'[c] \in LiveStates => readySeq[c] # 0
      BY Zenon DEF GraphBefore
    <2>1. /\ \A p \in Jobs : edges[c][p] # "none" => p < c
          /\ readySeq[c] # 0 \/ jobState[c] \notin MayBeBlocked => Unblocked(edges, c)
          /\ jobState[c] = "skipped" => \E p \in Jobs : edges[c][p] = "violated"
          /\ jobState[c] \in LiveStates => readySeq[c] # 0
      BY DEF GraphInv, GraphBefore
    <2>. QED
      BY <2>1 DEF MayBeBlocked
  <1>. QED
    BY <1>2, <1>3, NoPlanLeft, Zenon

\* Every client mutation leaves the graph at its fixed point.
LEMMA MutationGraph == Inv /\ GraphInv /\ Mutation => GraphInv'
  <1> SUFFICES ASSUME Inv, GraphInv, Mutation PROVE GraphInv'
    OBVIOUS
  <1> USE DEF graphVars, rowVars, attemptVars, dbVars
  <1>0. TypeOK
    BY DEF Inv
  <1>1. ASSUME NEW r \in Submissions, Submit(r) PROVE GraphInv'
    <2> DEFINE j == lastJob + 1
               row == [p \in Jobs |-> EdgeOf(r.deps, p)]
               st == [jobState EXCEPT ![j] = "queued"]
               e == [edges EXCEPT ![j] = row]
               ready == [readySeq EXCEPT ![j] = IF r.deps = {} THEN readyCounter + 1 ELSE 0]
               counter == IF r.deps = {} THEN readyCounter + 1 ELSE readyCounter
    <2>1. /\ AdvanceFrom(st, e, ready, counter, delay) /\ j \in Jobs /\ pc' = "reconcile"
          /\ \A d \in r.deps : d.job <= lastJob
      BY <1>1 DEF Submit, ThenTick
    <2>2. row \in [Jobs -> EdgeStates]
      BY DEF EdgeOf, EdgeStates, Conditions
    <2>3. ASSUME NEW p \in Jobs, row[p] # "none" PROVE p < j /\ r.deps # {}
      <3>1. PICK cond : [job |-> p, condition |-> cond] \in r.deps
        BY <2>3, Zenon DEF EdgeOf
      <3>2. p <= lastJob
        BY <2>1, <3>1
      <3>3. lastJob \in Nat /\ p \in Nat
        BY <1>0, BoundsAssumption DEF TypeOK, Jobs
      <3>4. p < j
        BY <3>2, <3>3, SMTT(30)
      <3>. QED
        BY <3>1, <3>4
    <2> HIDE DEF row, j
    <2>4. e \in [Jobs -> [Jobs -> EdgeStates]]
      BY <1>0, <2>1, <2>2, Zenon DEF TypeOK
    <2>5. st \in [Jobs -> JobStates] /\ ready \in [Jobs -> Nat] /\ counter \in Nat
      BY <1>0, <2>1, SMTT(30) DEF TypeOK, JobStates, WaitingStates
    <2>6. \A c \in Jobs : c # j => /\ st[c] = jobState[c] /\ ready[c] = readySeq[c]
                                   /\ e[c] = edges[c]
      BY <1>0, Zenon DEF TypeOK
    <2>7. st[j] = "queued" /\ e[j] = row /\ (ready[j] # 0 => r.deps = {})
      BY <1>0, <2>1, Zenon DEF TypeOK
    <2> HIDE DEF st, e, ready, counter
    <2>8. GraphBefore(st, e, ready)
      <3> SUFFICES ASSUME NEW c \in Jobs
                   PROVE  /\ \A p \in Jobs : e[c][p] # "none" => p < c
                          /\ ready[c] # 0 \/ st[c] \notin MayBeBlocked => Unblocked(e, c)
                          /\ st[c] = "skipped" => \E p \in Jobs : e[c][p] = "violated"
                          /\ st[c] \in LiveStates => ready[c] # 0
        BY DEF GraphBefore
      <3>1. CASE c = j
        BY <2>3, <2>7, <3>1 DEF Unblocked, MayBeBlocked, WaitingStates, LiveStates
      <3>2. CASE c # j
        BY <2>6, <3>2, SMTT(30) DEF GraphInv, GraphBefore, Unblocked
      <3>. QED
        BY <3>1, <3>2, Zenon
    <2>9. GraphAtFixedPoint' /\ GraphBefore(jobState', edges', readySeq')
      BY <2>1, <2>4, <2>5, <2>8, AdvanceReachesFixedPoint, Zenon
    <2>. QED
      BY <2>1, <2>9, NoPlanLeft, Zenon
  <1>2. ASSUME NEW j \in Jobs, Hold(j) \/ Release(j) PROVE GraphInv'
    <2>1. UNCHANGED <<edges, readySeq>> /\ pc' # "planning"
      BY <1>2 DEF Hold, Release, ThenTick
    <2>2. \A c \in Jobs : \/ jobState'[c] = jobState[c]
                          \/ jobState[c] \in WaitingStates /\ jobState'[c] \in WaitingStates
      BY <1>0, <1>2 DEF Hold, Release, TypeOK, WaitingStates
    <2>. QED
      BY <2>1, <2>2, MovesWithinGraph
  <1>3. ASSUME NEW j \in Jobs, NEW outcome \in {"lost", "cancelled"},
               \/ Retry(j) \/ CancelWaiting(j) \/ CancelPrepared(j)
               \/ RecoverResolve(j, outcome)
        PROVE  GraphInv'
    <2>1. PICK js \in {"queued", "lost", "cancelled"},
               ready \in {readySeq, [readySeq EXCEPT ![j] = 0]} :
                    /\ Advance([jobState EXCEPT ![j] = js], ready)
                    /\ js = "lost" => attempt[j] \in {"orphaned", "quarantined"}
      BY <1>3, Zenon DEF Retry, CancelWaiting, CancelPrepared, RecoverResolve
    <2>2. pc' # "planning"
      BY <1>3 DEF Retry, CancelWaiting, CancelPrepared, RecoverResolve, ThenTick
    <2>3. js \in WaitingStates \cup (TerminalStates \ {"skipped"})
      BY DEF WaitingStates, TerminalStates
    <2>4. js \in MayBeBlocked \/ jobState[j] \notin MayBeBlocked
      BY <2>1 DEF Inv, TablesAgree, MayBeBlocked, WaitingStates
    <2>5. GraphAtFixedPoint' /\ GraphBefore(jobState', edges', readySeq')
      BY <1>0, <2>1, <2>3, <2>4, MoveReachesFixedPoint, Zenon
    <2>. QED
      BY <2>2, <2>5, NoPlanLeft, Zenon
  <1>4. CASE \/ \E j \in Jobs :
                  \/ \E v \in Limits : SetMaxParallelRuns(j, v)
                  \/ \E v \in Priorities : SetPriority(j, v)
                  \/ CancelLive(j)
                  \/ \E mode \in {"requeue", "hold"} : Yield(j, mode)
             \/ \E v \in BOOLEAN : SetPaused(v)
    <2>1. UNCHANGED graphVars /\ pc' # "planning"
      BY <1>4 DEF SetMaxParallelRuns, SetPriority, CancelLive, Yield, SetPaused, ThenTick
    <2>. QED
      BY <2>1, GraphStill
  <1>. QED
    BY <1>1, <1>2, <1>3, <1>4 DEF Mutation

\* So do reconciliation, the pass, the launches, ticks, restarts and the clock.
LEMMA OtherStepsGraph == Inv /\ GraphInv /\ [Next]_vars /\ ~Mutation => GraphInv'
  <1> SUFFICES ASSUME Inv, GraphInv, [Next]_vars, ~Mutation PROVE GraphInv'
    OBVIOUS
  <1> USE DEF graphVars, dbVars
  <1>0. TypeOK
    BY DEF Inv
  <1>1. ASSUME NEW j \in Jobs,
               Authorize(j) \/ ObserveExec(j) \/ Orphan(j) \/ Quarantine(j)
        PROVE  GraphInv'
    <2>1. attempt[j] # "none"
      BY <1>1 DEF Authorize, ObserveExec, Orphan, Quarantine, LiveAttemptStates, AdvancingStates
    <2>2. jobState[j] \in LiveStates
      BY <2>1 DEF Inv, TypeOK, TablesAgree, LiveStates, LiveAttemptStates, AdvancingStates
    <2>3. readySeq[j] # 0
      BY <2>2, Zenon DEF GraphInv, GraphBefore
    <2>4. PICK js \in LiveStates : jobState' = [jobState EXCEPT ![j] = js]
      BY <1>1, ZenonT(30) DEF Authorize, ObserveExec, Orphan, Quarantine, MoveAttempt, LiveStates
    <2>5. UNCHANGED <<edges, readySeq>> /\ pc' # "planning"
      BY <1>1, Zenon DEF Authorize, ObserveExec, Orphan, Quarantine, MoveAttempt, Visit
    <2>6. \A c \in Jobs : \/ jobState'[c] = jobState[c]
                          \/ readySeq[c] # 0 /\ jobState'[c] \in LiveStates
      BY <1>0, <2>3, <2>4 DEF TypeOK
    <2>. QED
      BY <2>5, <2>6, MovesWithinGraph, Zenon
  <1>2. ASSUME NEW j \in Jobs, NEW delivered \in BOOLEAN,
               NEW outcome \in {"succeeded", "failed", "cancelled", "lost", "yielded"},
               Finalize(j, outcome, delivered)
        PROVE  GraphInv'
    <2>1. /\ attempt[j] # "none" /\ FinalizeAttemptAndJob(j, outcome, delivered)
          /\ pc' # "planning"
      BY <1>2 DEF Finalize, Visit, Inv, LoopInv, LiveAttempts
    <2>. QED
      BY <2>1, FinalizeReachesFixedPoint, NoPlanLeft
  <1>3. ASSUME NEW j \in Jobs, LaunchFails(j) PROVE GraphInv'
    <2>1. attempt[j] # "none" /\ FinalizeAttemptAndJob(j, "failed", FALSE) /\ pc' # "planning"
      BY <1>3, Zenon DEF LaunchFails, Visit, Inv, LoopInv, LiveAttempts
    <2>. QED
      BY <2>1, FinalizeReachesFixedPoint, NoPlanLeft, Zenon
  <1>4. CASE AdvanceGraph
    <2>1. /\ AdvanceFrom(jobState, edges, readySeq, readyCounter, delay')
          /\ jobState \in [Jobs -> JobStates] /\ edges \in [Jobs -> [Jobs -> EdgeStates]]
          /\ readySeq \in [Jobs -> Nat] /\ readyCounter \in Nat /\ pc' # "planning"
      BY <1>0, <1>4 DEF AdvanceGraph, Advance, TypeOK
    <2>2. GraphBefore(jobState, edges, readySeq)
      BY DEF GraphInv
    <2>. QED
      BY <2>1, <2>2, AdvanceReachesFixedPoint, NoPlanLeft, Zenon
  <1>5. CASE CommitPass
    <2>1. /\ pc = "planning" /\ pc' # "planning" /\ UNCHANGED <<edges, readySeq>>
          /\ jobState' = [j \in Jobs |-> IF j \in plan.starts THEN "starting" ELSE jobState[j]]
      BY <1>5, Zenon DEF CommitPass
    <2>2. \A j \in plan.starts : readySeq[j] # 0
      BY <2>1 DEF Inv, PlanInv, GraphInv
    <2>3. \A c \in Jobs : \/ jobState'[c] = jobState[c]
                          \/ readySeq[c] # 0 /\ jobState'[c] \in LiveStates
      BY <2>1, <2>2 DEF LiveStates
    <2>. QED
      BY <2>1, <2>3, MovesWithinGraph, Zenon
  <1>6. CASE BeginPass
    <2>1. UNCHANGED <<jobState, edges, readySeq>> /\ plan'.eligible = Eligible
      BY <1>6 DEF BeginPass, NoPlan
    <2>. QED
      BY <2>1, GraphStill DEF Eligible
  <1>7. CASE StartProtected \/ StartBackfill \/ StartHead \/ ProtectHead
    <2>1. UNCHANGED <<jobState, edges, readySeq>> /\ pc = "planning"
      BY <1>7, ZenonT(30) DEF StartProtected, StartBackfill, StartHead, ProtectHead
    <2>2. plan'.eligible = plan.eligible
      BY <1>0, <1>7, ZenonT(30)
      DEF StartProtected, StartBackfill, StartHead, ProtectHead, PlanStart, TypeOK, Plans
    <2>. QED
      BY <2>1, <2>2, GraphStill, ZenonT(30) DEF GraphInv
  <1>8. CASE \/ \E j \in Jobs : ReconcileNothing(j) \/ Launch(j)
             \/ PassBlocked \/ PassPaused \/ LaunchesDone
             \/ Tick \/ (\E foreign \in BOOLEAN : Restart(foreign)) \/ Clock \/ UNCHANGED vars
    <2>1. UNCHANGED <<jobState, edges, readySeq>>
      BY <1>8 DEF ReconcileNothing, Launch, PassBlocked, PassPaused, LaunchesDone, Tick,
                  Restart, Clock, DelayElapses, ClockStepsBack, vars
    <2>2. pc' # "planning" \/ (pc = "planning" /\ plan' = plan)
      BY <1>8 DEF ReconcileNothing, Launch, PassBlocked, PassPaused, LaunchesDone, Tick, ThenTick,
                  Visit, Restart, Clock, DelayElapses, ClockStepsBack, vars
    <2>. QED
      BY <2>1, <2>2, GraphStill DEF GraphInv
  <1>. QED
    BY <1>1, <1>2, <1>3, <1>4, <1>5, <1>6, <1>7, <1>8 DEF Next, Reconcile, Launches, Pass

\* After every transaction the graph is at its fixed point: every edge of an
\* ended parent is latched, a violated edge has ended its child and only such
\* an edge skips one, and nobody has a place before every edge is satisfied.
THEOREM GraphStaysAtFixedPoint == Spec => []GraphAtFixedPoint
  <1>1. Init => GraphInv
    BY DEF Init, GraphInv, GraphAtFixedPoint, GraphBefore, Unblocked, MayBeBlocked,
      WaitingStates, LiveStates, TerminalStates, Conditions
  <1>2. Inv /\ GraphInv /\ [Next]_vars => GraphInv'
    BY MutationGraph, OtherStepsGraph
  <1>3. GraphInv => GraphAtFixedPoint
    BY DEF GraphInv
  <1>. QED
    BY <1>1, <1>2, <1>3, Invariance, PTL DEF Spec
==============================================================================
