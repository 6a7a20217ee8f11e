-------------------------- MODULE TimeLimitsProofs --------------------------
(***************************************************************************)
(* What TLAPS proves about TimeLimits for every set of limits, every grace *)
(* and every number of edits: a timeout that has begun is kept, it is true *)
(* of a limit that was in force, and SIGKILL waits for a whole grace.      *)
(***************************************************************************)
EXTENDS TimeLimits, TLAPS

Limit == [ms : Limits \cup {None}, set_at : Nat \cup {None}]
Request == [at : Nat, force : BOOLEAN]
Outcome == {"timed_out", "cancelled", "exited", "lost"}

RunnerType ==
    [alive : BOOLEAN, pc : {"scan", "act"}, exit : BOOLEAN, empties : Nat,
     cancel : Request \cup {None}, live : Limit \cup {None}, timed_out : BOOLEAN,
     cancelled : BOOLEAN, kill_in : (0 .. grace) \cup {None}, kill_sent : BOOLEAN]

RowType ==
    [limit : Limit, launch : Limits \cup {None}, cancel : Request \cup {None},
     timed_out_at : Limits \cup {None}, state : {"running", "orphaned"},
     outcome : Outcome \cup {None}]

TypeOK ==
    /\ now \in 0 .. MaxTime
    /\ row \in RowType
    /\ limitFile \in Limit \cup {None}
    /\ cancelFile \in Request \cup {None}
    /\ timeoutFile \in [deadline : Limits, observed_at : Nat] \cup {None}
    /\ resultFile \in Outcome \cup {None}
    /\ runner \in RunnerType
    /\ installed \subseteq Limit
    /\ decided \in [seen : Nat \cup {None}] \cup {None}

\* What the constants give: a deadline is a natural number that leaves a grace.
LEMMA LimitFacts ==
  /\ grace \in Nat /\ grace > 0 /\ MaxTime \in Nat
  /\ \A ms \in Limits : ms \in Nat /\ ms + grace <= MaxTime
  /\ None \notin Nat /\ None \notin Request /\ None # "timed_out"
  BY LimitsAssumption, NoneAssumption DEF Request

\* A new runner has seen nothing; a dead one is forgotten.
LEMMA FreshRunner ==
  /\ Fresh \in RunnerType /\ [Fresh EXCEPT !.alive = FALSE] \in RunnerType
  /\ LET r == [Fresh EXCEPT !.alive = FALSE]
     IN  ~r.alive /\ ~r.timed_out /\ r.cancel = None /\ r.kill_in = None /\ r.live = None
  BY LimitFacts, Zenon DEF Fresh, RunnerType

\* The limit the runner goes by is a limit.
LEMMA ObservedType ==
  ASSUME TypeOK, runner.timed_out => runner.live \in Limit
  PROVE  observed_time_limit \in Limit
  BY DEF TypeOK, observed_time_limit, Limit, RowType, RunnerType

\* The fields a decision of the runner sets (runner.rs, the supervision loop).
LEMMA ActFields ==
  ASSUME TypeOK, RunnerAct, observed_time_limit \in Limit
  PROVE  /\ runner' \in RunnerType
         /\ runner'.alive /\ runner'.cancel = None /\ runner'.kill_in = KillIn
         /\ runner'.timed_out <=> runner.timed_out \/ RunnerTimesOut
         /\ runner'.timed_out => runner'.live = observed_time_limit
  <1> DEFINE timed_out == runner.timed_out \/ RunnerTimesOut
             live == IF timed_out THEN observed_time_limit ELSE None
             cancelled == runner.cancelled \/ (runner.cancel # None /\ ~timed_out /\ ~runner.exit)
             kill_sent == runner.kill_sent \/ runner.kill_in = 0
  <1>1. runner \in RunnerType /\ runner.alive
    BY DEF TypeOK, RunnerAct
  <1>2. runner' = [alive |-> TRUE, pc |-> "scan", exit |-> FALSE, empties |-> runner.empties,
                   cancel |-> None, live |-> live, timed_out |-> timed_out,
                   cancelled |-> cancelled, kill_in |-> KillIn, kill_sent |-> kill_sent]
    BY Zenon DEF RunnerAct
  <1>3. /\ live \in Limit \cup {None} /\ (timed_out => live = observed_time_limit)
        /\ timed_out \in BOOLEAN /\ cancelled \in BOOLEAN /\ kill_sent \in BOOLEAN
    BY <1>1 DEF RunnerType
  <1>4. KillIn \in (0 .. grace) \cup {None}
    BY <1>1, LimitFacts DEF RunnerType, KillIn
  <1>5. timed_out <=> runner.timed_out \/ RunnerTimesOut
    OBVIOUS
  <1> HIDE DEF timed_out, live, cancelled, kill_sent
  <1>. QED
    BY <1>1, <1>2, <1>3, <1>4, <1>5 DEF RunnerType

-----------------------------------------------------------------------------
(* The inductive invariant.                                                *)

\* Every limit anyone goes by was installed, and installations only get later.
LimitsInv ==
    /\ row.limit \in installed
    /\ limitFile # None => limitFile \in installed
    /\ [ms |-> row.launch, set_at |-> None] \in installed
    /\ runner.timed_out => runner.live \in installed
    /\ \A l \in installed : l.set_at # None =>
          /\ l.set_at <= now /\ l.set_at + grace <= MaxTime
          /\ row.limit.set_at # None /\ l.set_at <= row.limit.set_at

\* A published or noticed cancel is the one in the row, perhaps before force.
Echo(c) == row.cancel # None /\ c.at = row.cancel.at /\ (c.force => row.cancel.force)

CancelInv ==
    /\ row.cancel # None => row.cancel.at <= now /\ row.cancel.at + grace <= MaxTime
    /\ cancelFile # None => Echo(cancelFile)
    /\ runner.cancel # None => Echo(runner.cancel)

\* Runner and daemon never decide together: each step of the one excludes the
\* other, and what the first committed is what the second finds.
StickInv ==
    /\ timeoutFile # None /\ runner.alive => runner.timed_out
    /\ row.timed_out_at # None => row.state = "orphaned"
    /\ row.state = "orphaned" => ~runner.alive /\ resultFile = None
    /\ resultFile # None \/ row.outcome # None => ~runner.alive
    /\ resultFile # None /\ timeoutFile # None => resultFile = "timed_out"
    /\ TimeoutSticks

\* The instant t is not after the end of the runner's countdown.
Elapses(t) == now = MaxTime \/ now + runner.kill_in >= t

KillInv ==
    runner.kill_in # None =>
        \/ \E l \in installed : /\ l.ms # None /\ Elapses(l.ms + grace)
                                /\ l.set_at # None => Elapses(l.set_at + grace)
        \/ row.cancel # None /\ row.cancel.force /\ Elapses(row.cancel.at + grace)

\* A recorded timeout names a limit that had expired at the recorded instant.
CommitInv ==
    /\ timeoutFile # None => \E l \in installed :
          /\ l.ms = timeoutFile.deadline /\ l.ms <= timeoutFile.observed_at
          /\ l.set_at # None => l.set_at <= timeoutFile.observed_at
    /\ row.timed_out_at # None => \E l \in installed : l.ms = row.timed_out_at

Begun == \/ runner.timed_out \/ timeoutFile # None \/ row.timed_out_at # None
         \/ resultFile = "timed_out" \/ row.outcome = "timed_out"

\* The limit behind the last decision.
Overran(l) ==
    /\ l.ms # None /\ l.ms <= now
    /\ decided.seen # None =>
          l.ms < decided.seen /\ (l.set_at # None => l.set_at < decided.seen)

DecidedInv == Begun => \E l \in installed : Overran(l)

Inv == TypeOK /\ LimitsInv /\ CancelInv /\ StickInv /\ KillInv /\ CommitInv /\ DecidedInv

\* A command just spawned runs under its launch limit; nothing has been asked.
LEMMA InitInv == Init => Inv
  <1> SUFFICES ASSUME Init PROVE Inv
    OBVIOUS
  <1>1. PICK ms \in Limits \cup {None} :
          /\ row = [limit |-> [ms |-> ms, set_at |-> None], launch |-> ms, cancel |-> None,
                    timed_out_at |-> None, state |-> "running", outcome |-> None]
          /\ installed = {[ms |-> ms, set_at |-> None]}
    BY DEF Init
  <1>2. /\ now = 0 /\ limitFile = None /\ cancelFile = None /\ timeoutFile = None
        /\ resultFile = None /\ runner = Fresh /\ decided = None
    BY DEF Init
  <1>3. TypeOK
    BY <1>1, <1>2, LimitFacts, FreshRunner DEF TypeOK, RowType, Limit
  <1>4. /\ runner.alive /\ ~runner.timed_out /\ runner.cancel = None /\ runner.kill_in = None
        /\ row.limit = [ms |-> ms, set_at |-> None] /\ row.launch = ms /\ row.cancel = None
        /\ row.timed_out_at = None /\ row.state = "running" /\ row.outcome = None
    BY <1>1, <1>2 DEF Fresh
  <1>5. LimitsInv /\ CancelInv /\ KillInv /\ CommitInv
    BY <1>1, <1>2, <1>4 DEF LimitsInv, CancelInv, KillInv, CommitInv
  <1>6. StickInv /\ DecidedInv
    BY <1>2, <1>4, LimitFacts DEF StickInv, TimeoutSticks, DecidedInv, Begun
  <1>. QED
    BY <1>3, <1>5, <1>6 DEF Inv

\* A new limit is installed later than all others, and early enough.
LEMMA SetTimeLimitKeeps ==
  ASSUME Inv, NEW ms \in Limits \cup {None}, SetTimeLimit(ms)
  PROVE  Inv'
  <1> DEFINE new == [ms |-> ms, set_at |-> now]
  <1>1. /\ row \in RowType /\ now \in 0 .. MaxTime /\ now + grace <= MaxTime
        /\ row' = [row EXCEPT !.limit = new]
        /\ row.outcome = None
        /\ UNCHANGED <<now, files, runner, decided>>
    BY DEF SetTimeLimit, Early, Inv, TypeOK
  <1>2. new \in Limit
    BY <1>1, LimitFacts DEF Limit
  <1>3. /\ row' \in RowType /\ row'.limit = new /\ row'.launch = row.launch
        /\ row'.cancel = row.cancel /\ row'.timed_out_at = row.timed_out_at
        /\ row'.state = row.state /\ row'.outcome = row.outcome
    BY <1>1, <1>2 DEF RowType
  <1>4. installed' = installed \cup {new}
    BY <1>3 DEF SetTimeLimit
  <1>5. TypeOK'
    BY <1>1, <1>2, <1>3, <1>4 DEF Inv, TypeOK, files
  <1>6. LimitsInv'
    BY <1>1, <1>3, <1>4, LimitFacts DEF Inv, TypeOK, Limit, LimitsInv, files
  <1>7. CancelInv' /\ KillInv'
    BY <1>1, <1>3, <1>4 DEF Inv, CancelInv, Echo, KillInv, Elapses, files
  <1>8. StickInv' /\ CommitInv'
    BY <1>1, <1>3, <1>4 DEF Inv, StickInv, TimeoutSticks, CommitInv, files
  <1>9. DecidedInv'
    BY <1>1, <1>3, <1>4 DEF Inv, DecidedInv, Begun, Overran, files
  <1>. QED
    BY <1>5, <1>6, <1>7, <1>8, <1>9 DEF Inv

\* The first cancel keeps its time; later ones may only add force.
LEMMA CancelKeeps ==
  ASSUME Inv, NEW force \in BOOLEAN, Cancel(force)
  PROVE  Inv'
  <1> DEFINE new == IF row.cancel = None THEN [at |-> now, force |-> force]
                    ELSE [row.cancel EXCEPT !.force = TRUE]
  <1>1. /\ row \in RowType /\ now \in 0 .. MaxTime /\ now + grace <= MaxTime
        /\ row' = [row EXCEPT !.cancel = new]
        /\ UNCHANGED <<now, files, runner, installed, decided>>
    BY DEF Cancel, Early, Inv, TypeOK
  <1>2. /\ new \in Request
        /\ row.cancel = None => new.at = now
        /\ row.cancel # None => new.at = row.cancel.at /\ new.force
    <2>1. CASE row.cancel = None
      BY <1>1, <2>1 DEF RowType, Request
    <2>2. CASE row.cancel # None
      <3>1. row.cancel \in Request
        BY <1>1, <2>2 DEF RowType
      <3>2. new = [row.cancel EXCEPT !.force = TRUE]
        BY <2>2
      <3>. QED
        BY <2>2, <3>1, <3>2, Zenon DEF Request
    <2>. QED
      BY <2>1, <2>2
  <1> HIDE DEF new
  <1>3. /\ row' \in RowType /\ row'.limit = row.limit /\ row'.launch = row.launch
        /\ row'.cancel = new /\ row'.timed_out_at = row.timed_out_at
        /\ row'.state = row.state /\ row'.outcome = row.outcome
    BY <1>1, <1>2 DEF RowType
  <1>4. TypeOK'
    BY <1>1, <1>3 DEF Inv, TypeOK, files
  <1>5. CancelInv'
    BY <1>1, <1>2, <1>3, LimitFacts DEF Inv, CancelInv, Echo, files
  <1>6. LimitsInv' /\ KillInv'
    BY <1>1, <1>2, <1>3, LimitFacts DEF Inv, LimitsInv, KillInv, Elapses, files
  <1>7. StickInv' /\ CommitInv'
    BY <1>1, <1>3 DEF Inv, StickInv, TimeoutSticks, CommitInv, files
  <1>8. DecidedInv'
    BY <1>1, <1>3 DEF Inv, DecidedInv, Begun, Overran, files
  <1>. QED
    BY <1>4, <1>5, <1>6, <1>7, <1>8 DEF Inv

\* A publication copies what the row holds.
LEMMA PublishKeeps ==
  ASSUME Inv, PublishLimit \/ PublishCancel
  PROVE  Inv'
  <1>1. /\ UNCHANGED <<now, row, timeoutFile, resultFile, runner, installed, decided>>
        /\ limitFile' = limitFile \/ limitFile' = row.limit
        /\ cancelFile' = cancelFile \/ (row.cancel # None /\ cancelFile' = row.cancel)
    BY DEF PublishLimit, PublishCancel
  <1>2. TypeOK'
    BY <1>1 DEF Inv, TypeOK, RowType
  <1>3. LimitsInv' /\ CancelInv'
    BY <1>1 DEF Inv, LimitsInv, CancelInv, Echo
  <1>4. StickInv' /\ KillInv' /\ CommitInv'
    BY <1>1 DEF Inv, StickInv, TimeoutSticks, KillInv, Elapses, CommitInv
  <1>5. DecidedInv'
    BY <1>1 DEF Inv, DecidedInv, Begun, Overran
  <1>. QED
    BY <1>2, <1>3, <1>4, <1>5 DEF Inv

\* What the daemon concludes from a result or a drained group is what was
\* committed, and it only adopts an attempt whose runner is gone.
LEMMA ConcludeKeeps ==
  ASSUME Inv, FinalizeFromResult \/ OrphanAttempt \/ OrphanDrained
  PROVE  Inv'
  <1>1. /\ row \in RowType /\ resultFile \in Outcome \cup {None}
        /\ UNCHANGED <<now, files, runner, installed, decided>>
        /\ row.outcome = None
    BY DEF Inv, TypeOK, FinalizeFromResult, OrphanAttempt, OrphanDrained, Orphan
  <1>2. \/ /\ resultFile # None /\ row' = [row EXCEPT !.outcome = resultFile]
        \/ /\ resultFile = None /\ ~runner.alive
           /\ row' = [row EXCEPT !.state = "orphaned"]
        \/ \E out \in Outcome :
              /\ resultFile = None /\ row.state = "orphaned"
              /\ Committed <=> out = "timed_out"
              /\ row' = [row EXCEPT !.outcome = out]
    BY DEF FinalizeFromResult, OrphanAttempt, OrphanDrained, Orphan, Outcome
  <1>3. /\ row' \in RowType /\ row'.limit = row.limit /\ row'.launch = row.launch
        /\ row'.cancel = row.cancel /\ row'.timed_out_at = row.timed_out_at
        /\ \/ resultFile # None /\ row'.state = row.state /\ row'.outcome = resultFile
           \/ /\ resultFile = None /\ ~runner.alive
              /\ row'.state = "orphaned" /\ row'.outcome = None
           \/ /\ resultFile = None /\ row.state = "orphaned" /\ row'.state = "orphaned"
              /\ Committed <=> row'.outcome = "timed_out"
    BY <1>1, <1>2 DEF RowType
  <1>4. TypeOK' /\ LimitsInv' /\ CancelInv'
    BY <1>1, <1>3 DEF Inv, TypeOK, LimitsInv, CancelInv, Echo, files
  <1>5. KillInv' /\ CommitInv'
    BY <1>1, <1>3 DEF Inv, KillInv, Elapses, CommitInv, files
  <1>6. StickInv'
    BY <1>1, <1>3 DEF Inv, StickInv, TimeoutSticks, Committed, files
  <1>7. DecidedInv'
    BY <1>1, <1>3, LimitFacts DEF Inv, DecidedInv, Begun, Overran, Committed, files
  <1>. QED
    BY <1>4, <1>5, <1>6, <1>7 DEF Inv

\* A runner that dies leaves its files to the daemon.
LEMMA RunnerDiesKeeps ==
  ASSUME Inv, RunnerDies
  PROVE  Inv'
  <1>1. /\ UNCHANGED <<now, row, files, installed, decided>>
        /\ runner' \in RunnerType /\ ~runner'.alive /\ ~runner'.timed_out
        /\ runner'.cancel = None /\ runner'.kill_in = None
    BY FreshRunner DEF RunnerDies
  <1>2. TypeOK' /\ LimitsInv' /\ CancelInv'
    BY <1>1 DEF Inv, TypeOK, LimitsInv, CancelInv, Echo, files
  <1>3. StickInv' /\ KillInv' /\ CommitInv'
    BY <1>1 DEF Inv, StickInv, TimeoutSticks, KillInv, CommitInv, files
  <1>4. DecidedInv'
    BY <1>1 DEF Inv, DecidedInv, Begun, Overran, files
  <1>. QED
    BY <1>2, <1>3, <1>4 DEF Inv

\* The command's exit and the end of the attempt touch nothing here.
LEMMA QuietKeeps ==
  ASSUME Inv, CommandExits \/ UNCHANGED vars
  PROVE  Inv'
  <1>1. UNCHANGED <<now, row, files, runner, installed, decided>>
    BY DEF CommandExits, vars
  <1>2. TypeOK' /\ LimitsInv' /\ CancelInv' /\ StickInv'
    BY <1>1 DEF Inv, TypeOK, LimitsInv, CancelInv, Echo, StickInv, TimeoutSticks, files
  <1>3. KillInv' /\ CommitInv' /\ DecidedInv'
    BY <1>1 DEF Inv, KillInv, Elapses, CommitInv, DecidedInv, Begun, Overran, files
  <1>. QED
    BY <1>2, <1>3 DEF Inv

\* A tick moves the clock and the countdown together.
LEMMA TickKeeps ==
  ASSUME Inv, Tick
  PROVE  Inv'
  <1>1. /\ UNCHANGED <<row, files, installed, decided>>
        /\ now \in 0 .. MaxTime /\ now' \in 0 .. MaxTime
        /\ now' = (IF now < MaxTime THEN now + 1 ELSE now)
        /\ now <= now' /\ runner \in RunnerType
    BY LimitFacts DEF Tick, Inv, TypeOK
  <1>2. PICK k \in (0 .. grace) \cup {None} :
          /\ runner' = [runner EXCEPT !.kill_in = k]
          /\ k = None <=> runner.kill_in = None
          /\ k # None => k >= runner.kill_in - 1 /\ (runner.kill_in = 0 => k = 0)
    BY <1>1, LimitFacts DEF Tick, RunnerType
  <1>3. /\ runner' \in RunnerType /\ runner'.alive = runner.alive
        /\ runner'.timed_out = runner.timed_out /\ runner'.live = runner.live
        /\ runner'.cancel = runner.cancel /\ runner'.kill_in = k
    BY <1>1, <1>2 DEF RunnerType
  <1>4. TypeOK'
    BY <1>1, <1>3 DEF Inv, TypeOK, files
  <1>5. LimitsInv'
    BY <1>1, <1>3, LimitFacts DEF Inv, TypeOK, Limit, LimitsInv, files
  <1>6. CancelInv'
    BY <1>1, <1>3, LimitFacts DEF Inv, TypeOK, RowType, Request, CancelInv, Echo, files
  <1>7. StickInv' /\ CommitInv'
    BY <1>1, <1>3 DEF Inv, StickInv, TimeoutSticks, CommitInv, files
  <1>8. KillInv'
    <2>1. runner.kill_in # None =>
            runner.kill_in \in Nat /\ k \in Nat /\ \A t \in Nat : Elapses(t) => Elapses(t)'
      BY <1>1, <1>2, <1>3, LimitFacts DEF Elapses, RunnerType
    <2>2. \A l \in installed : /\ l.ms # None => l.ms + grace \in Nat
                               /\ l.set_at # None => l.set_at + grace \in Nat
      BY LimitFacts DEF Inv, TypeOK, Limit
    <2>3. row.cancel # None => row.cancel.at + grace \in Nat
      BY <1>1, LimitFacts DEF Inv, TypeOK, RowType, Request
    <2>. QED
      BY <1>1, <1>2, <1>3, <2>1, <2>2, <2>3 DEF Inv, KillInv
  <1>9. DecidedInv'
    BY <1>1, <1>3, LimitFacts DEF Inv, TypeOK, Limit, DecidedInv, Begun, Overran, files
  <1>. QED
    BY <1>4, <1>5, <1>6, <1>7, <1>8, <1>9 DEF Inv

\* The runner reads cancel.json; or it writes its result, which is a timeout
\* if it had begun one, and is gone.
LEMMA RunnerScanKeeps ==
  ASSUME Inv, RunnerScan
  PROVE  Inv'
  <1>1. /\ UNCHANGED <<now, row, limitFile, cancelFile, timeoutFile, installed, decided>>
        /\ runner.alive /\ runner \in RunnerType
        /\ cancelFile \in Request \cup {None}
    BY DEF RunnerScan, Inv, TypeOK
  <1>2. \/ /\ resultFile' \in Outcome
           /\ resultFile' = "timed_out" <=> runner.timed_out
           /\ runner' \in RunnerType /\ ~runner'.alive /\ ~runner'.timed_out
           /\ runner'.cancel = None /\ runner'.kill_in = None
        \/ /\ resultFile' = resultFile
           /\ runner' \in RunnerType /\ runner'.alive = runner.alive
           /\ runner'.timed_out = runner.timed_out /\ runner'.live = runner.live
           /\ runner'.cancel = cancelFile /\ runner'.kill_in = runner.kill_in
    <2> DEFINE n == IF group = "empty" THEN runner.empties + 1 ELSE 0
    <2>1. n \in Nat
      BY <1>1 DEF RunnerType
    <2>2. CASE n = 2
      <3>1. /\ runner' = [Fresh EXCEPT !.alive = FALSE]
            /\ resultFile' = CASE runner.timed_out -> "timed_out"
                               [] ~runner.timed_out /\ runner.cancelled -> "cancelled"
                               [] OTHER -> "exited"
        BY <2>2 DEF RunnerScan
      <3>. QED
        BY <1>1, <3>1, FreshRunner DEF RunnerType, Outcome
    <2>3. CASE n # 2
      <3>1. /\ runner' = [runner EXCEPT !.pc = "act", !.exit = group # "running",
                                        !.empties = n, !.cancel = cancelFile]
            /\ resultFile' = resultFile
        BY <2>3 DEF RunnerScan
      <3> HIDE DEF n
      <3>. QED
        BY <1>1, <2>1, <3>1, Zenon DEF RunnerType
    <2>. QED
      BY <2>2, <2>3
  <1>3. TypeOK' /\ LimitsInv'
    BY <1>1, <1>2, Zenon DEF Inv, TypeOK, LimitsInv
  <1>4. CancelInv' /\ KillInv' /\ CommitInv'
    BY <1>1, <1>2, Zenon DEF Inv, CancelInv, Echo, KillInv, Elapses, CommitInv
  <1>5. StickInv'
    BY <1>1, <1>2, Zenon DEF Inv, StickInv, TimeoutSticks
  <1>6. DecidedInv'
    BY <1>1, <1>2, Zenon DEF Inv, DecidedInv, Begun, Overran
  <1>. QED
    BY <1>3, <1>4, <1>5, <1>6 DEF Inv

\* The limit the runner goes by was installed and is not set in the future.
LEMMA ObservedInstalled ==
  ASSUME Inv
  PROVE  /\ observed_time_limit \in installed /\ observed_time_limit \in Limit
         /\ observed_time_limit.set_at # None => observed_time_limit.set_at <= now
  BY DEF Inv, TypeOK, LimitsInv, observed_time_limit

\* A decision of the runner: a timeout is begun for a limit that has run out,
\* and the countdown starts at a due limit or at a forced cancel.
LEMMA RunnerActKeeps ==
  ASSUME Inv, RunnerAct
  PROVE  Inv'
  <1> DEFINE l == observed_time_limit
  <1>1. /\ UNCHANGED <<now, row, limitFile, cancelFile, resultFile, installed>>
        /\ now \in 0 .. MaxTime /\ runner \in RunnerType /\ runner.alive /\ TypeOK
    BY DEF RunnerAct, Inv, TypeOK
  <1>2. /\ l \in installed /\ l \in Limit
        /\ l.set_at # None => l.set_at <= now /\ l.set_at \in Nat
        /\ l.ms # None => l.ms \in Nat /\ l.ms \in Limits
    BY ObservedInstalled, LimitFacts DEF Limit
  <1>3. /\ runner' \in RunnerType
        /\ runner'.alive /\ runner'.cancel = None /\ runner'.kill_in = KillIn
        /\ runner'.timed_out <=> runner.timed_out \/ RunnerTimesOut
        /\ runner'.timed_out => runner'.live = l
    BY <1>1, <1>2, ActFields
  <1>4. /\ timeoutFile' = timeoutFile \/
             (RunnerTimesOut /\ timeoutFile' = [deadline |-> l.ms, observed_at |-> now])
        /\ decided' = IF RunnerTimesOut THEN Seen(runner.cancel) ELSE decided
    BY DEF RunnerAct
  <1>5. RunnerDue => l.ms # None /\ l.ms <= now
    BY <1>1, <1>2 DEF RunnerDue, RunnerExpired
  <1>6. RunnerTimesOut => RunnerDue
    BY DEF RunnerTimesOut
  <1>7. RunnerTimesOut =>
          /\ decided' \in [seen : Nat \cup {None}]
          /\ decided'.seen # None =>
                l.ms < decided'.seen /\ (l.set_at # None => l.set_at < decided'.seen)
    BY <1>1, <1>2, <1>4, <1>5, <1>6
       DEF RunnerTimesOut, RunnerClassifies, timeout_wins_over_cancel, Seen, RunnerType, Request
  <1> HIDE DEF l
  <1>8. TypeOK'
    BY <1>1, <1>2, <1>3, <1>4, <1>5, <1>6, <1>7 DEF TypeOK
  <1>9. LimitsInv' /\ CancelInv'
    BY <1>1, <1>2, <1>3 DEF Inv, LimitsInv, CancelInv, Echo
  <1>10. StickInv'
    BY <1>1, <1>3, <1>4 DEF Inv, StickInv, TimeoutSticks
  <1>11. CommitInv'
    BY <1>1, <1>2, <1>4, <1>5, <1>6 DEF Inv, CommitInv
  <1>12. DecidedInv'
    BY <1>1, <1>2, <1>3, <1>4, <1>5, <1>6, <1>7 DEF Inv, DecidedInv, Begun, Overran
  <1>13. KillInv'
    <2>1. \/ KillIn = None
          \/ KillIn = runner.kill_in
          \/ KillIn = grace /\ RunnerDue
          \/ KillIn = grace /\ runner.cancel # None /\ runner.cancel.force
      BY DEF KillIn, Arms
    <2>2. CASE KillIn = None
      BY <1>3, <2>2 DEF KillInv
    <2>3. CASE KillIn = runner.kill_in
      BY <1>1, <1>3, <2>3 DEF Inv, KillInv, Elapses
    <2>4. CASE KillIn = grace /\ RunnerDue
      BY <1>1, <1>2, <1>3, <1>5, <2>4, LimitFacts DEF KillInv, Elapses
    <2>5. CASE KillIn = grace /\ runner.cancel # None /\ runner.cancel.force
      <3>1. /\ row.cancel # None /\ row.cancel.force /\ row.cancel.at <= now
            /\ row.cancel.at \in Nat
        BY <1>1, <2>5 DEF Inv, CancelInv, Echo, TypeOK, RowType, Request
      <3>2. Elapses(row.cancel.at + grace)'
        BY <1>1, <1>3, <2>5, <3>1, LimitFacts DEF Elapses
      <3>. QED
        BY <1>1, <3>1, <3>2 DEF KillInv
    <2>. QED
      BY <2>1, <2>2, <2>3, <2>4, <2>5
  <1>. QED
    BY <1>8, <1>9, <1>10, <1>11, <1>12, <1>13 DEF Inv

\* The deadline an orphan is held to is that of a limit that was in force, and
\* its grace starts after that limit was installed and had run out.
LEMMA AnchorIsLate ==
  ASSUME Inv, OrphanExpired
  PROVE  /\ Deadline \in Limits /\ OrphanAnchor \in Nat
         /\ \E l \in installed :
               /\ l.ms = Deadline /\ l.ms <= OrphanAnchor
               /\ l.set_at # None => l.set_at <= OrphanAnchor
  <1>1. TypeOK /\ LimitsInv /\ CommitInv /\ row \in RowType /\ row.limit \in Limit
    BY DEF Inv, TypeOK, RowType
  <1>2. CASE timeoutFile # None
    <2>1. timeoutFile \in [deadline : Limits, observed_at : Nat]
      BY <1>1, <1>2 DEF TypeOK
    <2>2. Deadline = timeoutFile.deadline /\ OrphanAnchor = timeoutFile.observed_at
      BY <1>2 DEF Deadline, OrphanAnchor
    <2>. QED
      BY <1>1, <1>2, <2>1, <2>2 DEF CommitInv
  <1>3. CASE timeoutFile = None
    <2>1. Deadline \in Limits /\ Deadline \in Nat
      BY <1>1, <1>3, LimitFacts DEF OrphanExpired, Deadline, RowType, Limit
    <2>2. \E l \in installed : l.ms = Deadline
      BY <1>1, <1>3, <2>1 DEF CommitInv, LimitsInv, Deadline
    <2>3. /\ OrphanAnchor = timeout_kill_anchor(Deadline, row.limit.set_at)
          /\ row.limit.set_at \in Nat \cup {None}
      BY <1>1, <1>3 DEF OrphanAnchor, Limit
    <2>4. /\ OrphanAnchor \in Nat /\ Deadline <= OrphanAnchor
          /\ row.limit.set_at # None => row.limit.set_at <= OrphanAnchor
      BY <2>1, <2>3 DEF timeout_kill_anchor
    <2>5. \A l \in installed : l.set_at # None => l.set_at <= OrphanAnchor
      BY <1>1, <2>3, <2>4, LimitFacts DEF TypeOK, LimitsInv, Limit
    <2>. QED
      BY <2>1, <2>2, <2>4, <2>5
  <1>. QED
    BY <1>2, <1>3

\* The daemon holds an orphan to its limit: it records a timeout only for a
\* limit that has run out and that no earlier cancel precedes.
LEMMA OrphanSignalledKeeps ==
  ASSUME Inv, OrphanSignalled
  PROVE  Inv'
  <1> DEFINE times == OrphanExpired /\ OrphanClassifies
             file == [deadline |-> Deadline, observed_at |-> OrphanAnchor]
             at == IF times /\ row.timed_out_at = None THEN Deadline ELSE row.timed_out_at
  <1>1. /\ UNCHANGED <<now, limitFile, cancelFile, resultFile, runner, installed>>
        /\ row.outcome = None /\ resultFile = None /\ row.state = "orphaned"
        /\ row' = [row EXCEPT !.timed_out_at = at]
        /\ timeoutFile' = timeoutFile \/ (times /\ timeoutFile = None /\ timeoutFile' = file)
        /\ decided' = IF times /\ ~Committed THEN Seen(row.cancel) ELSE decided
        /\ TypeOK /\ row \in RowType
    BY DEF OrphanSignalled, Orphan, Inv, TypeOK
  <1>2. times => /\ Deadline \in Limits /\ OrphanAnchor \in Nat
                 /\ \E l \in installed :
                       /\ l.ms = Deadline /\ l.ms <= OrphanAnchor
                       /\ l.set_at # None => l.set_at <= OrphanAnchor
    BY AnchorIsLate
  <1>3. at \in Limits \cup {None}
    BY <1>1, <1>2 DEF RowType
  <1>4. times /\ ~Committed =>
          /\ decided' \in [seen : Nat \cup {None}]
          /\ row.limit.ms \in Limits /\ row.limit.ms <= now
          /\ decided'.seen # None => /\ row.limit.ms < decided'.seen
                                     /\ row.limit.set_at # None => row.limit.set_at < decided'.seen
    <2> SUFFICES ASSUME times, ~Committed PROVE <1>4!2
      OBVIOUS
    <2>1. /\ Deadline = row.limit.ms /\ Deadline \in Nat /\ now >= Deadline
          /\ row.cancel # None =>
                timeout_wins_over_cancel(row.cancel.at, Deadline, row.limit.set_at)
      BY <1>2, LimitFacts DEF Committed, Deadline, OrphanExpired, OrphanClassifies
    <2>2. /\ now \in Nat /\ row.limit.set_at \in Nat \cup {None}
          /\ row.cancel # None => row.cancel.at \in Nat
      BY <1>1 DEF TypeOK, RowType, Limit, Request
    <2>3. decided' = Seen(row.cancel)
      BY <1>1
    <2>. QED
      BY <1>2, <2>1, <2>2, <2>3 DEF Seen, timeout_wins_over_cancel
  <1>5. times /\ Committed => Begun
    BY DEF Committed, Begun
  <1>6. ~Committed => timeoutFile = None /\ row.timed_out_at = None
    BY DEF Committed
  <1>7. at # row.timed_out_at => times /\ row.timed_out_at = None /\ at = Deadline
    OBVIOUS
  <1> HIDE DEF times, at
  <1>8. /\ row' \in RowType /\ row'.limit = row.limit /\ row'.launch = row.launch
        /\ row'.cancel = row.cancel /\ row'.timed_out_at = at
        /\ row'.state = row.state /\ row'.outcome = row.outcome
    BY <1>1, <1>3 DEF RowType
  <1>9. TypeOK'
    BY <1>1, <1>2, <1>4, <1>8 DEF TypeOK
  <1>10. LimitsInv' /\ CancelInv' /\ KillInv'
    BY <1>1, <1>8 DEF Inv, LimitsInv, CancelInv, Echo, KillInv, Elapses
  <1>11. StickInv'
    BY <1>1, <1>8, LimitFacts DEF Inv, StickInv, TimeoutSticks
  <1>12. CommitInv'
    BY <1>1, <1>2, <1>7, <1>8 DEF Inv, CommitInv
  <1>13. DecidedInv'
    <2>1. CASE times /\ ~Committed
      <3>1. /\ row.limit \in installed /\ row.limit.ms # None
        BY <1>4, <2>1, LimitFacts DEF Inv, LimitsInv
      <3>. QED
        BY <1>1, <1>4, <2>1, <3>1 DEF DecidedInv, Overran
    <2>2. CASE times /\ Committed
      BY <1>1, <1>5, <2>2 DEF Inv, DecidedInv, Overran
    <2>3. CASE ~times
      BY <1>1, <1>7, <1>8, <2>3 DEF Inv, DecidedInv, Begun, Overran
    <2>. QED
      BY <2>1, <2>2, <2>3
  <1>. QED
    BY <1>9, <1>10, <1>11, <1>12, <1>13 DEF Inv

\* Every step of the operator, the daemon, the runner and the clock keeps the
\* invariant.
LEMMA NextKeeps == Inv /\ [Next]_vars => Inv'
  BY SetTimeLimitKeeps, CancelKeeps, PublishKeeps, ConcludeKeeps, RunnerDiesKeeps, QuietKeeps,
     TickKeeps, RunnerScanKeeps, RunnerActKeeps, OrphanSignalledKeeps
     DEF Next, OperatorStep, DaemonStep, RunnerStep, Over

\* The invariant holds throughout.
LEMMA Invariance == Spec => []Inv
  BY InitInv, NextKeeps, PTL DEF Spec

-----------------------------------------------------------------------------
(* The theorems.                                                           *)

\* Once timeout.json or timed_out_at records that termination for the limit
\* has begun, no edit, cancel or death of the runner reclassifies the attempt
\* (runner.rs and reconcile_orphaned finish what the other one began).
THEOREM BegunTimeoutSticks == Spec => []TimeoutSticks
  <1>1. Inv => TimeoutSticks
    BY DEF Inv, StickInv
  <1>. QED
    BY <1>1, Invariance, PTL

\* An attempt reported as timed out overran a limit that was in force before
\* the cancel its judge knew of, if any (timeout_wins_over_cancel).
THEOREM TimeoutIsTrue == Spec => []TimeoutOverran
  <1>1. Inv => TimeoutOverran
    BY DEF Inv, DecidedInv, Begun, Overran, TimeoutOverran
  <1>. QED
    BY <1>1, Invariance, PTL

\* The runner kills when its countdown ends, a grace after it was due.
LEMMA RunnerKillsLate ==
  ASSUME Inv, RunnerAct, killed' # killed
  PROVE  \/ \E l \in installed : /\ l.ms # None /\ now >= l.ms + grace
                                 /\ l.set_at # None => now >= l.set_at + grace
         \/ row.cancel # None /\ row.cancel.force /\ now >= row.cancel.at + grace
  <1>1. runner.kill_in = 0 /\ runner.kill_in # None
    BY LimitFacts DEF RunnerAct
  <1>2. now \in Nat /\ \A t \in Nat : t <= MaxTime /\ Elapses(t) => now >= t
    BY <1>1, LimitFacts DEF Inv, TypeOK, Elapses
  <1>3. \A l \in installed :
          /\ l.ms # None => l.ms + grace \in Nat /\ l.ms + grace <= MaxTime
          /\ l.set_at # None => l.set_at + grace \in Nat /\ l.set_at + grace <= MaxTime
    BY LimitFacts DEF Inv, TypeOK, Limit, LimitsInv
  <1>4. row.cancel # None => row.cancel.at + grace \in Nat /\ row.cancel.at + grace <= MaxTime
    BY LimitFacts DEF Inv, TypeOK, RowType, Request, CancelInv
  <1>. QED
    BY <1>1, <1>2, <1>3, <1>4 DEF Inv, KillInv

\* The daemon kills an orphan a grace after the anchor, or after the request.
LEMMA DaemonKillsLate ==
  ASSUME Inv, OrphanSignalled, killed' # killed
  PROVE  \/ \E l \in installed : /\ l.ms # None /\ now >= l.ms + grace
                                 /\ l.set_at # None => now >= l.set_at + grace
         \/ row.cancel # None /\ row.cancel.force /\ now >= row.cancel.at + grace
  <1>1. now \in Nat /\ (row.cancel # None => row.cancel.at \in Nat) /\ installed \subseteq Limit
    BY LimitFacts DEF Inv, TypeOK, RowType, Request
  <1>2. CASE OrphanExpired
    <2>1. now - OrphanAnchor >= grace
      BY <1>2 DEF OrphanSignalled
    <2>2. PICK l \in installed : /\ l.ms = Deadline /\ l.ms <= OrphanAnchor
                                 /\ l.set_at # None => l.set_at <= OrphanAnchor
      BY <1>2, AnchorIsLate
    <2>3. /\ OrphanAnchor \in Nat /\ l.ms \in Nat /\ l.ms # None
          /\ l.set_at # None => l.set_at \in Nat
      BY <1>1, <1>2, <2>2, AnchorIsLate, LimitFacts DEF Limit
    <2>4. now >= l.ms + grace /\ (l.set_at # None => now >= l.set_at + grace)
      BY <1>1, <2>1, <2>2, <2>3, LimitFacts
    <2>. QED
      BY <2>3, <2>4
  <1>3. CASE ~OrphanExpired
    <2>1. row.cancel # None /\ row.cancel.force /\ now - row.cancel.at >= grace
      BY <1>3 DEF OrphanSignalled
    <2>. QED
      BY <1>1, <2>1, LimitFacts
  <1>. QED
    BY <1>2, <1>3

\* SIGKILL is never early, whoever sends it (kill_at in the runner,
\* timeout_kill_anchor in the daemon).
THEOREM KillIsNeverEarly == Spec => KillWaitsForGrace
  <1> DEFINE Late == \/ \E l \in installed : /\ l.ms # None /\ now >= l.ms + grace
                                             /\ l.set_at # None => now >= l.set_at + grace
                     \/ row.cancel # None /\ row.cancel.force /\ now >= row.cancel.at + grace
  <1>1. ASSUME Inv, [Next]_vars, killed' # killed
        PROVE  Late
    <2>1. RunnerAct \/ OrphanSignalled
      BY <1>1 DEF Next, vars, OperatorStep, SetTimeLimit, Cancel, DaemonStep, PublishLimit,
                  PublishCancel, FinalizeFromResult, OrphanAttempt, OrphanDrained, RunnerStep,
                  RunnerScan, RunnerDies, Tick, CommandExits, Over
    <2>. QED
      BY <1>1, <2>1, RunnerKillsLate, DaemonKillsLate
  <1>2. Inv /\ [Next]_vars => [~killed /\ killed' => Late]_vars
    BY <1>1
  <1>. QED
    BY <1>2, Invariance, PTL DEF Spec, KillWaitsForGrace
=============================================================================
