---------------------------- MODULE FollowProofs ----------------------------
(***************************************************************************)
(* What TLAPS proves about Follow for every way the command may be         *)
(* started, any number of checks and any sizes of the mailbox and of the   *)
(* warning budget: checks are silenced exactly as far as the user was      *)
(* told, warnings name the attempt that was observed, and the outcome      *)
(* comes last.  The argument: a frame cuts a batch short before the row    *)
(* changes, a batch commits the states of its checks and its warning in    *)
(* one step, and the outcome is queued only when nothing else is left to   *)
(* print.                                                                  *)
(***************************************************************************)
EXTENDS Follow, SequenceTheorems, WellFoundedInduction, TLAPS

------------------------------------------------------------------------------
(* Induction over data: a least number, and what Chosen computes.          *)

\* A non-empty set of naturals has a least member.
LEMMA LeastNumber ==
  ASSUME NEW S, S \subseteq Nat, S # {}
  PROVE  \E n \in S : \A m \in S : n <= m
  <1> DEFINE R == {ss \in Nat \X Nat : ss[1] < ss[2]}
  <1>0. IsWellFoundedOn(R, Nat)
    BY NatLessThanWellFounded DEF OpToRel
  <1>1. PICK n \in S : \A m \in S : <<m, n>> \notin R
    <2> HIDE DEF R
    <2>. QED
      BY <1>0, WFMin, Zenon
  <1>2. ASSUME NEW m \in S PROVE n <= m
    <2>1. <<m, n>> \in Nat \X Nat /\ <<m, n>> \notin R
      BY <1>1
    <2>2. ~(m < n)
      BY <2>1
    <2>. QED
      BY <2>2
  <1>. QED
    BY <1>2

\* The recursion of Chosen has a solution, which Chosen therefore is.
LEMMA ChosenIsSequence ==
  ASSUME NEW K, NEW events \in Seq(K)
  PROVE  Chosen(events) \in Seq(K)
  <1> DEFINE Wanted == Selected \ {"warning", "finished"}
             Step(f, i) == IF i = 0 THEN <<>>
                           ELSE IF events[i] \in Wanted
                                THEN Append(f[i - 1], events[i]) ELSE f[i - 1]
             Solves(f, n) == f = [i \in 0 .. n |-> Step(f, i)]
             Bad == {n \in 0 .. Len(events) : ~\E f \in [0 .. n -> Seq(K)] : Solves(f, n)}
             chosen == CHOOSE f : Solves(f, Len(events))
  <1>1. Len(events) \in Nat
    OBVIOUS
  <1>2. \E f \in [0 .. 0 -> Seq(K)] : Solves(f, 0)
    <2> DEFINE g == [i \in 0 .. 0 |-> <<>>]
    <2>1. g \in [0 .. 0 -> Seq(K)] /\ Solves(g, 0)
      OBVIOUS
    <2>. QED
      BY <2>1, Zenon
  <1>3. ASSUME NEW n \in 0 .. Len(events), n # 0,
               NEW f \in [0 .. n - 1 -> Seq(K)], Solves(f, n - 1)
        PROVE  \E h \in [0 .. n -> Seq(K)] : Solves(h, n)
    <2> DEFINE new == IF events[n] \in Wanted THEN Append(f[n - 1], events[n]) ELSE f[n - 1]
               h == [i \in 0 .. n |-> IF i = n THEN new ELSE f[i]]
    <2>1. n \in Nat /\ n - 1 \in 0 .. n - 1 /\ events[n] \in K
      BY <1>1, <1>3
    <2>2. new \in Seq(K)
      BY <2>1
    <2>3. h \in [0 .. n -> Seq(K)]
      BY <2>2
    <2>4. \A i \in 0 .. n - 1 : f[i] = Step(f, i)
      BY <1>3, Zenon
    <2>5. ASSUME NEW i \in 0 .. n PROVE h[i] = Step(h, i)
      <3>1. CASE i = n
        BY <3>1, <2>1, <1>3
      <3>2. CASE i # n /\ i # 0
        <4>1. i \in 0 .. n - 1 /\ i - 1 \in 0 .. n - 1
          BY <3>2
        <4>2. h[i] = f[i] /\ h[i - 1] = f[i - 1]
          BY <4>1
        <4> HIDE DEF h
        <4>. QED
          BY <2>4, <3>2, <4>1, <4>2
      <3>3. CASE i # n /\ i = 0
        BY <2>4, <3>3, <2>1
      <3>. QED
        BY <3>1, <3>2, <3>3
    <2>6. Solves(h, n)
      BY <2>3, <2>5, Zenon
    <2>. QED
      BY <2>3, <2>6, Zenon
  <1>4. Bad = {}
    <2> SUFFICES ASSUME Bad # {} PROVE FALSE
      BY Zenon
    <2>1. PICK n \in Bad : \A m \in Bad : n <= m
      <3>1. Bad \subseteq Nat
        BY <1>1
      <3> HIDE DEF Bad
      <3>. QED
        BY <3>1, LeastNumber, Zenon
    <2>2. n \in 0 .. Len(events) /\ ~\E f \in [0 .. n -> Seq(K)] : Solves(f, n)
      BY Zenon
    <2>3. n # 0
      BY <1>2, <2>2, Zenon
    <2>4. n - 1 \in 0 .. Len(events) /\ n - 1 \notin Bad
      <3> HIDE DEF Bad
      <3>. QED
        BY <1>1, <2>1, <2>2, <2>3
    <2>5. PICK f \in [0 .. n - 1 -> Seq(K)] : Solves(f, n - 1)
      BY <2>4, Zenon
    <2>. QED
      BY <1>3, <2>2, <2>3, <2>5, Zenon
  <1>5. PICK f \in [0 .. Len(events) -> Seq(K)] : Solves(f, Len(events))
    <2>1. Len(events) \in 0 .. Len(events)
      BY <1>1
    <2>2. Len(events) \notin Bad
      BY <1>4, Zenon
    <2>. QED
      BY <2>1, <2>2, ZenonT(30)
  <1>6. PICK g : g = chosen /\ Solves(g, Len(events))
    BY <1>5, Zenon
  <1>7. \A i \in 0 .. Len(events) : g[i] = Step(g, i)
    BY <1>6, Zenon
  <1> DEFINE Off == {i \in 0 .. Len(events) : g[i] \notin Seq(K)}
  <1>8. Off = {}
    <2> SUFFICES ASSUME Off # {} PROVE FALSE
      OBVIOUS
    <2>1. PICK n \in Off : \A m \in Off : n <= m
      <3>1. Off \subseteq Nat
        BY <1>1
      <3> HIDE DEF Off
      <3>. QED
        BY <3>1, LeastNumber, Zenon
    <2>2. n \in 0 .. Len(events) /\ g[n] \notin Seq(K)
      OBVIOUS
    <2>3. CASE n = 0
      <3>1. g[n] = Step(g, n)
        BY <1>7, <2>2
      <3>2. g[n] = <<>>
        BY <2>3, <3>1
      <3>. QED
        BY <2>2, <3>2
    <2>4. CASE n # 0
      <3>0. g[n] = Step(g, n)
        BY <1>7, <2>2
      <3>1. n - 1 \in 0 .. Len(events) /\ n - 1 \notin Off /\ events[n] \in K
        <4> HIDE DEF Off
        <4>. QED
          BY <1>1, <2>1, <2>2, <2>4
      <3>2. g[n - 1] \in Seq(K)
        BY <3>1
      <3>. QED
        BY <2>2, <2>4, <3>0, <3>1, <3>2
    <2>. QED
      BY <2>3, <2>4
  <1>9. g[Len(events)] \in Seq(K)
    <2>1. Len(events) \in 0 .. Len(events) /\ Len(events) \notin Off
      <3> HIDE DEF Off
      <3>. QED
        BY <1>1, <1>8
    <2>. QED
      BY <2>1
  <1>10. Chosen(events) = g[Len(events)]
    BY <1>6 DEF Chosen
  <1>. QED
    BY <1>9, <1>10

------------------------------------------------------------------------------
(* The inductive invariant.                                                *)

EventKinds == Kinds \cup {"other"}
Attempts == Nat \cup {None}
Rows == [attempt : Attempts, state : {"queued", None} \cup Live \cup Final,
         ended : {"yielded", None} \cup Final]

\* A warning line names the attempt its checks observed.
Lines == {line \in [kind : EventKinds, attempt : Attempts, observed : Attempts] :
             line.kind = "warning" => line.attempt = line.observed}

TaskType ==
    fol \in [pc : {"idle", "finish", "outcome", "over", "quit"}, initial : BOOLEAN, row : Rows,
             more : BOOLEAN, out : Seq(Lines), code : Seq({0, 1, OwnCode})]

\* What the stream carries, and what was printed.
StreamType ==
    /\ conf \in Configurations
    /\ job \in Rows /\ job.attempt \in Nat
    /\ backlog \in Seq(EventKinds)
    /\ stream \in {None} \cup [row : Rows, events : Seq(EventKinds), more : BOOLEAN]
    /\ printed \in {None} \cup Lines
    /\ hooks \in [mailbox : Seq(EventKinds), busy : BOOLEAN]

\* A batch in flight observes the attempt of the task's row.
BatchInv ==
    batch # None =>
        /\ batch \in [at : Checks, attempt : {fol.row.attempt}, done : Seq(Checks \X Results)]

Keys == conf.keys \cup {ErrorKey}

\* The keys a check keeps silent, with their counters, as its record says.
Told(c) == [k \in {a \in conf.keys : quiet[<<c, a>>] < clear_after} |-> quiet[<<c, k>>]]

\* The state of a check agrees with what was told of its keys.
SilenceInv ==
    /\ quiet \in [Checks \X Keys -> 0 .. clear_after]
    /\ \A c \in Checks : quiet[<<c, ErrorKey>>] \in {0, clear_after}
    /\ DOMAIN checks = Checks
    /\ \A c \in Checks :
        checks[c] = [due |-> checks[c].due, active |-> Told(c),
                     last_step |-> checks[c].last_step,
                     failed |-> quiet[<<c, ErrorKey>>] = 0]

\* The way to the end: a final row, then its exit code and the outcome line,
\* then the finish hooks with nothing behind them.
EndInv ==
    /\ fol.pc \in {"finish", "outcome", "over"} => fol.row.state \in Final
    /\ fol.pc \in {"outcome", "over"} => fol.code = <<ExitCode(fol.row)>>
    /\ fol.pc = "outcome" =>
        fol.out = <<Line("finished", None, None)>> \/
        (fol.out = <<>> /\ printed = Line("finished", None, None))
    /\ fol.pc = "over" =>
        /\ fol.out = <<>> /\ printed = Line("finished", None, None)
        /\ hooks.mailbox = <<>>
        /\ "finished" \in conf.hooked => hook = "finished"

Inv == TaskType /\ StreamType /\ BatchInv /\ SilenceInv /\ EndInv

------------------------------------------------------------------------------
(* Facts about the helpers.                                                *)

\* run_due visits checks of the follower only.
LEMMA NextDueIsCheck ==
  ASSUME NEW c \in Nat, NextDue(c) # None, conf \in Configurations
  PROVE  NextDue(c) \in Checks
  <1> DEFINE due == {d \in Checks : d >= c /\ checks[d].due}
  <1>1. due \subseteq Nat /\ due \subseteq Checks
    BY ConstantsAssumption DEF Checks
  <1>2. NextDue(c) = IF due = {} THEN None ELSE CHOOSE d \in due : \A e \in due : d <= e
    BY DEF NextDue
  <1> HIDE DEF due
  <1>3. due # {}
    BY <1>2
  <1>4. \E d \in due : \A e \in due : d <= e
    BY <1>1, <1>3, LeastNumber, Zenon
  <1>. QED
    BY <1>1, <1>2, <1>3, <1>4, Zenon

\* Every line a frame gives rise to names no attempt: warnings are not among them.
LEMMA LinesOfType ==
  ASSUME NEW frame, frame.events \in Seq(EventKinds), conf \in Configurations
  PROVE  LinesOf(frame) \in Seq(Lines)
  <1> DEFINE joined == IF fol.initial /\ frame.row.state = "needs_attention"
                            /\ "attention" \in Selected
                       THEN <<"attention">> ELSE <<>>
             kinds == Chosen(frame.events) \o joined
  <1>1. Chosen(frame.events) \in Seq(EventKinds)
    BY ChosenIsSequence
  <1>2. joined \in Seq(EventKinds)
    <2>1. "attention" \in EventKinds
      BY DEF EventKinds, Kinds
    <2>. QED
      BY <2>1
  <1>3. kinds \in Seq(EventKinds)
    BY <1>1, <1>2
  <1>4. LinesOf(frame) = [i \in DOMAIN kinds |-> Line(kinds[i], None, None)]
    BY DEF LinesOf
  <1> HIDE DEF kinds
  <1>5. \A k \in EventKinds : Line(k, None, None) \in Lines
    BY DEF Line, Lines, Attempts, EventKinds
  <1>. QED
    BY <1>3, <1>4, <1>5

\* Every change of the job is a row and an event of it.
LEMMA JobHappens ==
  ASSUME StreamType, JobStep
  PROVE  \E row \in Rows, kind \in EventKinds : row.attempt \in Nat /\ Happens(row, kind)
  <1> USE DEF StreamType, Rows, Attempts, EventKinds, Kinds, Live, Final
  <1>1. CASE JobStarts
    <2> DEFINE row == [attempt |-> job.attempt + 1, state |-> "running", ended |-> None]
    <2>1. row \in Rows /\ row.attempt \in Nat
      OBVIOUS
    <2>2. Happens(row, "started")
      BY <1>1 DEF JobStarts
    <2>. QED
      BY <2>1, <2>2
  <1>2. CASE JobGoesBack
    <2>1. PICK kind \in {"retry", "yielded"} :
            Happens([job EXCEPT !.state = "queued",
                                !.ended = IF kind = "retry" THEN "failed" ELSE kind], kind)
      BY <1>2, Zenon DEF JobGoesBack
    <2> DEFINE row == [job EXCEPT !.state = "queued",
                                  !.ended = IF kind = "retry" THEN "failed" ELSE kind]
    <2>2. row \in Rows /\ row.attempt \in Nat /\ kind \in EventKinds
      BY Zenon
    <2> HIDE DEF row
    <2>. QED
      BY <2>1, <2>2, ZenonT(30) DEF row
  <1>3. CASE JobChanges
    <2> DEFINE row == [job EXCEPT !.state = "needs_attention"]
    <2>1. row \in Rows /\ row.attempt \in Nat /\ job \in Rows /\ job.attempt \in Nat
      OBVIOUS
    <2>2. Happens(job, "other") \/ Happens(row, "attention")
      BY <1>3 DEF JobChanges
    <2>3. "other" \in EventKinds /\ "attention" \in EventKinds
      OBVIOUS
    <2> HIDE DEF row
    <2>. QED
      BY <2>1, <2>2, <2>3
  <1>4. CASE JobEnds
    <2>1. PICK new \in Final, old \in {"yielded", None} \cup Final :
            Happens([job EXCEPT !.state = new, !.ended = old], "other")
      <3>1. CASE \E new \in Final : Happens([job EXCEPT !.state = new, !.ended = new], "other")
        BY <3>1, Zenon
      <3>2. CASE Happens([job EXCEPT !.state = "cancelled"], "other")
        <4>1. [job EXCEPT !.state = "cancelled"]
                = [job EXCEPT !.state = "cancelled", !.ended = job.ended]
          BY Zenon
        <4>. QED
          BY <3>2, <4>1, Zenon
      <3>. QED
        BY <1>4, <3>1, <3>2 DEF JobEnds
    <2> DEFINE row == [job EXCEPT !.state = new, !.ended = old]
    <2>2. row \in Rows /\ row.attempt \in Nat /\ "other" \in EventKinds
      BY ZenonT(30)
    <2> HIDE DEF row
    <2>. QED
      BY <2>1, <2>2, Zenon DEF row
  <1>. QED
    BY <1>1, <1>2, <1>3, <1>4 DEF JobStep

\* A check that returns ends the batch or hands over to the next one.
LEMMA CheckReturnsCases ==
  ASSUME Inv, CheckReturns
  PROVE  /\ batch # None /\ fol.pc = "idle"
         /\ UNCHANGED <<jobVars, stream, hooks, printed, hook>>
         /\ \E done \in Seq(Checks \X Results) :
              \/ Settle(done)
              \/ /\ \E at \in Checks : batch' = [batch EXCEPT !.at = at, !.done = done]
                 /\ UNCHANGED <<fol, checks, cooling, quiet>>
  <1>1. PICK result \in Results :
           LET done == Append(batch.done, <<batch.at, result>>)
               next == NextDue(batch.at + 1)
           IN  IF next = None THEN Settle(done)
               ELSE /\ batch' = [batch EXCEPT !.at = next, !.done = done]
                    /\ UNCHANGED <<fol, checks, cooling, quiet>>
    BY Zenon DEF CheckReturns
  <1> DEFINE done == Append(batch.done, <<batch.at, result>>)
             next == NextDue(batch.at + 1)
  <1>2. batch # None /\ fol.pc = "idle" /\ UNCHANGED <<jobVars, stream, hooks, printed, hook>>
    BY DEF CheckReturns
  <1>3. batch.at \in Checks /\ batch.done \in Seq(Checks \X Results) /\ conf \in Configurations
    BY <1>2 DEF Inv, BatchInv, StreamType
  <1>4. batch.at + 1 \in Nat
    BY <1>3, ConstantsAssumption DEF Checks
  <1>5. next # None => next \in Checks
    BY <1>3, <1>4, NextDueIsCheck
  <1>6. done \in Seq(Checks \X Results)
    BY <1>3
  <1> HIDE DEF done, next
  <1>7. IF next = None THEN Settle(done)
        ELSE /\ batch' = [batch EXCEPT !.at = next, !.done = done]
             /\ UNCHANGED <<fol, checks, cooling, quiet>>
    BY <1>1 DEF done, next
  <1>. QED
    BY <1>2, <1>5, <1>6, <1>7, Zenon

\* Nothing but these happens.
LEMMA Cases ==
  ASSUME [Next]_vars
  PROVE  \/ JobStep \/ Frame \/ Receive \/ WriteLine \/ Finish \/ FinishHooks \/ StartChecks
         \/ CheckReturns \/ CooldownPasses \/ (\E c \in Checks : DeadlinePasses(c))
         \/ HookStarts \/ HookEnds \/ Quit \/ UNCHANGED vars
  BY DEF Next, Progress

\* A batch that settles queues its warning, or none.
LEMMA SettleOut ==
  ASSUME NEW done, Settle(done)
  PROVE  \E out \in {fol.out, <<Line("warning", fol.row.attempt, batch.attempt)>>} :
            fol' = [fol EXCEPT !.out = out]
  <1> DEFINE warning == <<Line("warning", fol.row.attempt, batch.attempt)>>
  <1>1. fol' = [fol EXCEPT !.out = fol.out] \/ fol' = [fol EXCEPT !.out = warning]
    BY DEF Settle
  <1>. QED
    BY <1>1

\* What the worker and the end of the follower make of the mailbox.
LEMMA HooksType ==
  ASSUME StreamType, HookStarts \/ HookEnds \/ FinishHooks \/ Quit
  PROVE  hooks' \in [mailbox : Seq(EventKinds), busy : BOOLEAN]
  <1>1. CASE HookStarts
    <2>1. Tail(hooks.mailbox) \in Seq(EventKinds)
      BY <1>1 DEF HookStarts, StreamType
    <2>. QED
      BY <1>1, <2>1 DEF HookStarts
  <1>2. CASE HookEnds
    BY <1>2, Zenon DEF HookEnds, StreamType
  <1>3. CASE FinishHooks \/ Quit
    <2>1. hooks' = [mailbox |-> <<>>, busy |-> FALSE] /\ <<>> \in Seq(EventKinds)
      BY <1>3 DEF FinishHooks, Quit
    <2>. QED
      BY <2>1
  <1>. QED
    BY <1>1, <1>2, <1>3

------------------------------------------------------------------------------
(* Every step preserves every part of the invariant.                       *)

\* The observing task keeps its types, and queues no warning line but those of
\* the attempt it observes (follow, Output::emit).
LEMMA TaskStep ==
  ASSUME Inv
  PROVE  [Next]_vars => TaskType'
  <1> USE DEF Inv, TaskType
  <1>1. ASSUME \/ JobStep \/ Frame \/ StartChecks \/ CooldownPasses \/ HookStarts \/ HookEnds
               \/ (\E c \in Checks : DeadlinePasses(c)) \/ UNCHANGED vars
        PROVE  TaskType'
    <2>1. fol' = fol
      BY <1>1, Zenon DEF JobStep, JobStarts, JobGoesBack, JobChanges, JobEnds, Happens, Frame,
        StartChecks, CooldownPasses, HookStarts, HookEnds, DeadlinePasses, vars
    <2>. QED
      BY <2>1
  <1>2. ASSUME Receive PROVE TaskType'
    <2>1. stream \in [row : Rows, events : Seq(EventKinds), more : BOOLEAN]
      BY <1>2 DEF Receive, StreamType
    <2>2. LinesOf(stream) \in Seq(Lines)
      BY <2>1, LinesOfType DEF StreamType
    <2>3. fol' = [fol EXCEPT !.pc = IF Ends(stream) THEN "finish" ELSE "idle",
                             !.row = stream.row, !.more = stream.more, !.initial = FALSE,
                             !.out = LinesOf(stream)]
      BY <1>2 DEF Receive, Handle
    <2>. QED
      BY <2>1, <2>2, <2>3, Zenon
  <1>3. ASSUME WriteLine PROVE TaskType'
    <2>1. fol' = [fol EXCEPT !.out = Tail(fol.out)] /\ fol.out # <<>>
      BY <1>3 DEF WriteLine
    <2>2. Tail(fol.out) \in Seq(Lines)
      BY <2>1
    <2>. QED
      BY <2>1, <2>2, Zenon
  <1>4. ASSUME Finish PROVE TaskType'
    <2>1. <<ExitCode(fol.row)>> \in Seq({0, 1, OwnCode})
      BY DEF ExitCode
    <2>2. <<Line("finished", None, None)>> \in Seq(Lines)
      <3>1. Line("finished", None, None) \in Lines
        BY DEF Line, Lines, EventKinds, Kinds, Attempts
      <3>. QED
        BY <3>1
    <2>3. fol' = [fol EXCEPT !.pc = "outcome", !.code = <<ExitCode(fol.row)>>,
                             !.out = <<Line("finished", None, None)>>]
      BY <1>4 DEF Finish
    <2>. QED
      BY <2>1, <2>2, <2>3, ZenonT(30)
  <1>5. ASSUME FinishHooks PROVE TaskType'
    BY <1>5 DEF FinishHooks
  <1>6. ASSUME CheckReturns PROVE TaskType'
    <2>1. PICK done \in Seq(Checks \X Results) : Settle(done) \/ UNCHANGED fol
      BY <1>6, CheckReturnsCases, Zenon
    <2>2. batch # None
      BY <1>6, CheckReturnsCases, Zenon
    <2>3. <<Line("warning", fol.row.attempt, batch.attempt)>> \in Seq(Lines)
      <3>1. Line("warning", fol.row.attempt, batch.attempt) \in Lines
        BY <2>2 DEF BatchInv, Line, Lines, EventKinds, Kinds, Rows
      <3>. QED
        BY <3>1
    <2>4. CASE Settle(done)
      <3> DEFINE warning == <<Line("warning", fol.row.attempt, batch.attempt)>>
      <3>1. PICK out \in {fol.out, warning} : fol' = [fol EXCEPT !.out = out]
        BY <2>4, SettleOut
      <3>2. out \in Seq(Lines)
        BY <2>3, <3>1, Zenon
      <3>. QED
        BY <3>1, <3>2
    <2>. QED
      BY <2>1, <2>4
  <1>7. ASSUME Quit PROVE TaskType'
    <2>1. NoRow \in Rows
      BY DEF NoRow, Rows, Attempts
    <2>2. fol' = [fol EXCEPT !.pc = "quit", !.out = <<>>, !.row = NoRow]
      BY <1>7 DEF Quit
    <2>3. <<>> \in Seq(Lines)
      OBVIOUS
    <2>. QED
      BY <2>1, <2>2, <2>3, Zenon
  <1>. QED
    BY Cases, <1>1, <1>2, <1>3, <1>4, <1>5, <1>6, <1>7

\* Frames carry the job's row and a page of its events; what is printed was
\* queued by the task.
LEMMA StreamStep ==
  ASSUME Inv
  PROVE  [Next]_vars => StreamType'
  <1> USE DEF Inv, StreamType, jobVars
  <1>1. ASSUME JobStep PROVE StreamType'
    <2>1. PICK row \in Rows, kind \in EventKinds : row.attempt \in Nat /\ Happens(row, kind)
      BY <1>1, JobHappens
    <2>. QED
      BY <2>1 DEF Happens
  <1>2. ASSUME Frame PROVE StreamType'
    <2>1. PICK n \in 1 .. Len(backlog) :
            /\ stream' = [row |-> job, events |-> SubSeq(backlog, 1, n), more |-> n < Len(backlog)]
            /\ backlog' = SubSeq(backlog, n + 1, Len(backlog))
      BY <1>2, Zenon DEF Frame
    <2>2. SubSeq(backlog, 1, n) \in Seq(EventKinds)
          /\ SubSeq(backlog, n + 1, Len(backlog)) \in Seq(EventKinds)
      BY SubSeqProperties
    <2>3. UNCHANGED <<conf, job, printed, hooks>>
      BY <1>2 DEF Frame
    <2>4. stream' \in [row : Rows, events : Seq(EventKinds), more : BOOLEAN]
      BY <2>1, <2>2
    <2>. QED
      BY <2>1, <2>2, <2>3, <2>4
  <1>3. ASSUME WriteLine PROVE StreamType'
    <2>1. Head(fol.out) \in Lines /\ Head(fol.out).kind \in EventKinds
      BY <1>3 DEF WriteLine, TaskType, Lines
    <2>2. printed' = Head(fol.out) /\ UNCHANGED <<conf, job, backlog, stream>>
      BY <1>3 DEF WriteLine
    <2>3. PICK mailbox \in {hooks.mailbox, Append(hooks.mailbox, Head(fol.out).kind)} :
             hooks' = [hooks EXCEPT !.mailbox = mailbox]
      BY <1>3, Zenon DEF WriteLine
    <2>4. mailbox \in Seq(EventKinds)
      BY <2>1, <2>3, SMTT(30)
    <2>. QED
      BY <2>1, <2>2, <2>3, <2>4
  <1>4. ASSUME CheckReturns PROVE StreamType'
    BY <1>4, CheckReturnsCases, Zenon
  <1>5. ASSUME HookStarts \/ HookEnds \/ FinishHooks \/ Quit PROVE StreamType'
    <2>1. UNCHANGED <<conf, job, backlog>> /\ printed' \in {None, printed}
          /\ stream' \in {None, stream}
      BY <1>5 DEF HookStarts, HookEnds, FinishHooks, Quit
    <2>2. hooks' \in [mailbox : Seq(EventKinds), busy : BOOLEAN]
      BY <1>5, HooksType
    <2>. QED
      BY <2>1, <2>2
  <1>6. ASSUME \/ Receive \/ Finish \/ StartChecks \/ CooldownPasses
               \/ (\E c \in Checks : DeadlinePasses(c)) \/ UNCHANGED vars
        PROVE  StreamType'
    BY <1>6 DEF Receive, Finish, StartChecks, CooldownPasses, DeadlinePasses, vars
  <1>. QED
    BY Cases, <1>1, <1>2, <1>3, <1>4, <1>5, <1>6

\* A frame cuts a batch short, so a batch never outlives the row it observes.
LEMMA BatchStep ==
  ASSUME Inv
  PROVE  [Next]_vars => BatchInv'
  <1> USE DEF Inv, BatchInv
  <1>1. ASSUME Receive \/ Quit PROVE BatchInv'
    BY <1>1 DEF Receive, Handle, Quit
  <1>2. ASSUME \/ JobStep \/ Frame \/ CooldownPasses \/ HookStarts \/ HookEnds \/ WriteLine
               \/ Finish \/ FinishHooks \/ (\E c \in Checks : DeadlinePasses(c))
               \/ UNCHANGED vars
        PROVE  BatchInv'
    <2>1. UNCHANGED <<batch, conf, fol.row>>
      BY <1>2, Zenon DEF JobStep, JobStarts, JobGoesBack, JobChanges, JobEnds, Happens, Frame,
        CooldownPasses, HookStarts, HookEnds, WriteLine, Finish, FinishHooks, DeadlinePasses,
        jobVars, vars, TaskType
    <2>. QED
      BY <2>1, Zenon DEF Checks, Results, Selected
  <1>3. ASSUME StartChecks PROVE BatchInv'
    <2>1. NextDue(1) \in Checks
      BY <1>3, NextDueIsCheck DEF StartChecks, StreamType
    <2>2. batch' = [at |-> NextDue(1), attempt |-> fol.row.attempt, done |-> <<>>]
          /\ UNCHANGED <<conf, fol>>
      BY <1>3 DEF StartChecks, jobVars
    <2>3. Checks' = Checks /\ Results' = Results
      BY <2>2 DEF Checks, Results, Selected
    <2>4. batch' \in [at : Checks, attempt : {fol.row.attempt}, done : Seq(Checks \X Results)]
      BY <2>1, <2>2, SMTT(30)
    <2>. QED
      BY <2>2, <2>3, <2>4
  <1>4. ASSUME CheckReturns PROVE BatchInv'
    <2>1. PICK done \in Seq(Checks \X Results) :
              \/ Settle(done)
              \/ /\ \E at \in Checks : batch' = [batch EXCEPT !.at = at, !.done = done]
                 /\ UNCHANGED <<fol, checks, cooling, quiet>>
      BY <1>4, CheckReturnsCases, ZenonT(30)
    <2>2. batch # None /\ conf' = conf
      BY <1>4, CheckReturnsCases, Zenon DEF jobVars
    <2>3. Checks' = Checks /\ Results' = Results
      BY <2>2 DEF Checks, Results, Selected
    <2>4. CASE Settle(done)
      BY <2>4 DEF Settle
    <2>5. CASE UNCHANGED fol /\ \E at \in Checks : batch' = [batch EXCEPT !.at = at, !.done = done]
      <3>1. PICK at \in Checks : batch' = [batch EXCEPT !.at = at, !.done = done]
        BY <2>5, Zenon
      <3>2. batch' \in [at : Checks, attempt : {fol.row.attempt}, done : Seq(Checks \X Results)]
        BY <2>2, <3>1, Zenon
      <3>. QED
        BY <2>3, <2>5, <3>2, Zenon
    <2>. QED
      BY <2>1, <2>4, <2>5, ZenonT(30)
  <1>. QED
    BY Cases, <1>1, <1>2, <1>3, <1>4

\* A check whose observation is over, field by field.
LEMMA CheckOver ==
  ASSUME NEW check, DOMAIN check = {"due", "active", "last_step", "failed"}, NEW after
  PROVE  [check EXCEPT !.due = FALSE, !.failed = after]
            = [due |-> FALSE, active |-> check.active, last_step |-> check.last_step,
               failed |-> after]
  <1> DEFINE new == [check EXCEPT !.due = FALSE, !.failed = after]
  <1>1. DOMAIN new = {"due", "active", "last_step", "failed"}
    OBVIOUS
  <1>2. /\ new.due = FALSE /\ new.active = check.active /\ new.last_step = check.last_step
        /\ new.failed = after
    OBVIOUS
  <1>3. new = [i \in DOMAIN new |-> new[i]]
    BY Zenon
  <1> HIDE DEF new
  <1>4. new = [due |-> FALSE, active |-> check.active, last_step |-> check.last_step,
               failed |-> after]
    BY <1>1, <1>2, <1>3
  <1>. QED
    BY <1>4 DEF new

\* A check and a record of what was told agree.
Agrees(c, check, q) ==
    /\ \A k \in Keys : q[<<c, k>>] \in 0 .. clear_after
    /\ q[<<c, ErrorKey>>] \in {0, clear_after}
    /\ \E due, step :
          check = [due |-> due,
                   active |-> [k \in {a \in conf.keys : q[<<c, a>>] < clear_after} |-> q[<<c, k>>]],
                   last_step |-> step, failed |-> q[<<c, ErrorKey>>] = 0]

\* CheckState::observe and ::failure move the silenced keys of a check as the
\* record of what was told of them moves.
LEMMA ObserveTells ==
  ASSUME SilenceInv, conf \in Configurations, NEW c \in Checks, NEW r \in Results
  PROVE  Agrees(c, Observe(checks[c], r), QuietAfter(c, checks[c], r, quiet))
  <1>0. PICK q : q = QuietAfter(c, checks[c], r, quiet)
    OBVIOUS
  <1> DEFINE check == checks[c]
             Silent == {a \in conf.keys : q[<<c, a>>] < clear_after}
             fails == Fails(check, r)
             cached == Cached(check, r)
  <1>1. /\ clear_after \in Nat /\ clear_after # 0 /\ ErrorKey \notin conf.keys
        /\ \A k \in Keys : <<c, k>> \in DOMAIN quiet /\ quiet[<<c, k>>] \in 0 .. clear_after
        /\ conf.keys \subseteq Keys /\ ErrorKey \in Keys
    BY ConstantsAssumption DEF SilenceInv, Keys
  <1>2. \A k \in Keys : q[<<c, k>>] =
            IF k = ErrorKey THEN IF fails THEN 0 ELSE clear_after
            ELSE IF fails \/ cached THEN quiet[<<c, k>>]
            ELSE IF k \in r.keys THEN 0
            ELSE IF quiet[<<c, k>>] < clear_after THEN quiet[<<c, k>>] + 1 ELSE clear_after
    BY <1>0, <1>1 DEF QuietAfter
  <1>3. check = [due |-> check.due, active |-> Told(c), last_step |-> check.last_step,
                 failed |-> quiet[<<c, ErrorKey>>] = 0]
    BY DEF SilenceInv
  <1>4. Observe(check, r) =
            IF fails THEN [check EXCEPT !.due = FALSE, !.failed = TRUE]
            ELSE IF cached THEN [check EXCEPT !.due = FALSE, !.failed = FALSE]
            ELSE [check EXCEPT !.due = FALSE, !.failed = FALSE,
                      !.last_step = IF r.step = None THEN @ ELSE r.step,
                      !.active = [k \in r.keys \cup {a \in DOMAIN @ : @[a] + 1 < clear_after} |->
                                        IF k \in r.keys THEN 0 ELSE @[k] + 1]]
    BY DEF Observe
  <1>5. \A k \in Keys : q[<<c, k>>] \in 0 .. clear_after
    <2> HIDE DEF fails, cached
    <2>. QED
      BY <1>1, <1>2
  <1>6. q[<<c, ErrorKey>>] = IF fails THEN 0 ELSE clear_after
    BY <1>1, <1>2
  <1>7. ASSUME fails \/ cached PROVE Agrees(c, Observe(check, r), q)
    <2>1. [k \in Silent |-> q[<<c, k>>]] = Told(c)
      <3>1. \A k \in conf.keys : q[<<c, k>>] = quiet[<<c, k>>]
        BY <1>1, <1>2, <1>7
      <3>. QED
        BY <3>1 DEF Told
    <2>2. CASE fails
      <3>1. (q[<<c, ErrorKey>>] = 0) = TRUE
        BY <1>1, <1>6, <2>2
      <3>2. Observe(check, r) = [check EXCEPT !.due = FALSE, !.failed = TRUE]
        BY <1>4, <2>2
      <3>3. \E step : Observe(check, r) = [due |-> FALSE, active |-> Told(c),
                                           last_step |-> step, failed |-> TRUE]
        <4> DEFINE A == Told(c)
        <4>1. DOMAIN check = {"due", "active", "last_step", "failed"} /\ check.active = A
          BY <1>3
        <4> HIDE DEF A, check
        <4>2. [check EXCEPT !.due = FALSE, !.failed = TRUE]
                = [due |-> FALSE, active |-> check.active, last_step |-> check.last_step,
                   failed |-> TRUE]
          BY <4>1, CheckOver, Zenon
        <4>. QED
          BY <3>2, <4>1, <4>2, Zenon DEF A
      <3>4. PICK step : Observe(check, r) = [due |-> FALSE, active |-> Told(c),
                                             last_step |-> step, failed |-> TRUE]
        BY <3>3, Zenon
      <3>5. Observe(check, r) = [due |-> FALSE, active |-> [k \in Silent |-> q[<<c, k>>]],
                                 last_step |-> step, failed |-> q[<<c, ErrorKey>>] = 0]
        <4> HIDE DEF Silent, check
        <4>. QED
          BY <2>1, <3>1, <3>4, Zenon
      <3>. QED
        BY <1>1, <1>5, <1>6, <3>5, Zenon DEF Agrees
    <2>3. CASE ~fails
      <3>1. (q[<<c, ErrorKey>>] = 0) = FALSE
        BY <1>1, <1>6, <2>3
      <3>2. Observe(check, r) = [check EXCEPT !.due = FALSE, !.failed = FALSE]
        BY <1>4, <1>7, <2>3
      <3>3. \E step : Observe(check, r) = [due |-> FALSE, active |-> Told(c),
                                           last_step |-> step, failed |-> FALSE]
        <4> DEFINE A == Told(c)
        <4>1. DOMAIN check = {"due", "active", "last_step", "failed"} /\ check.active = A
          BY <1>3
        <4> HIDE DEF A, check
        <4>2. [check EXCEPT !.due = FALSE, !.failed = FALSE]
                = [due |-> FALSE, active |-> check.active, last_step |-> check.last_step,
                   failed |-> FALSE]
          BY <4>1, CheckOver, Zenon
        <4>. QED
          BY <3>2, <4>1, <4>2, Zenon DEF A
      <3>4. PICK step : Observe(check, r) = [due |-> FALSE, active |-> Told(c),
                                             last_step |-> step, failed |-> FALSE]
        BY <3>3, Zenon
      <3>5. Observe(check, r) = [due |-> FALSE, active |-> [k \in Silent |-> q[<<c, k>>]],
                                 last_step |-> step, failed |-> q[<<c, ErrorKey>>] = 0]
        <4> HIDE DEF Silent, check
        <4>. QED
          BY <2>1, <3>1, <3>4, Zenon
      <3>. QED
        BY <1>1, <1>5, <1>6, <3>5, Zenon DEF Agrees
    <2>. QED
      BY <2>2, <2>3
  <1>8. ASSUME ~fails, ~cached PROVE Agrees(c, Observe(check, r), q)
    <2>1. r.keys \subseteq conf.keys
      <3>1. r # None
        BY <1>8 DEF Fails
      <3>. QED
        BY <3>1 DEF Results
    <2> DEFINE A == Told(c)
               kept == r.keys \cup {a \in DOMAIN A : A[a] + 1 < clear_after}
               new == [k \in kept |-> IF k \in r.keys THEN 0 ELSE A[k] + 1]
    <2>2. \A k \in conf.keys : q[<<c, k>>] =
                IF k \in r.keys THEN 0
                ELSE IF quiet[<<c, k>>] < clear_after THEN quiet[<<c, k>>] + 1 ELSE clear_after
      BY <1>1, <1>2, <1>8
    <2>3. DOMAIN A = {a \in conf.keys : quiet[<<c, a>>] < clear_after}
          /\ \A k \in DOMAIN A : A[k] = quiet[<<c, k>>]
      BY DEF Told
    <2>4. kept = Silent
      <3> HIDE DEF A
      <3>. QED
        BY <1>1, <2>1, <2>2, <2>3
    <2>5. \A k \in kept : new[k] = q[<<c, k>>]
      <3> HIDE DEF A
      <3>. QED
        BY <1>1, <2>1, <2>2, <2>3
    <2>6. new = [k \in Silent |-> q[<<c, k>>]]
      <3> HIDE DEF kept, Silent
      <3>. QED
        BY <2>4, <2>5
    <2>7. \E step : Observe(check, r) = [due |-> FALSE, active |-> new, last_step |-> step,
                                         failed |-> FALSE]
      <3>1. check.active = A
        BY <1>3
      <3>2. Observe(check, r) = [check EXCEPT !.due = FALSE, !.failed = FALSE,
                      !.last_step = IF r.step = None THEN @ ELSE r.step, !.active = new]
        BY <1>4, <1>8, <3>1
      <3> HIDE DEF new, A, check
      <3>. QED
        BY <1>3, <3>2, Zenon
    <2>8. (q[<<c, ErrorKey>>] = 0) = FALSE
      BY <1>1, <1>6, <1>8
    <2>. QED
      BY <1>1, <1>5, <1>6, <1>8, <2>6, <2>7, <2>8, Zenon DEF Agrees
  <1>9. Agrees(c, Observe(check, r), q)
    BY <1>7, <1>8
  <1>. QED
    BY <1>0, <1>9

\* What a batch commits when it settles: every check that returned has observed
\* one of the results, and the others are as they were (run_due).
LEMMA SettleCommits ==
  ASSUME SilenceInv, conf \in Configurations, NEW done \in Seq(Checks \X Results), Settle(done)
  PROVE  /\ DOMAIN checks' = Checks /\ DOMAIN quiet' = Checks \X Keys
         /\ \A c \in Checks :
              \/ checks'[c] = checks[c] /\ \A k \in Keys : quiet'[<<c, k>>] = quiet[<<c, k>>]
              \/ \E r \in Results :
                    /\ checks'[c] = Observe(checks[c], r)
                    /\ \A k \in Keys :
                          quiet'[<<c, k>>] = QuietAfter(c, checks[c], r, quiet)[<<c, k>>]
  <1> DEFINE result == [c \in {done[i][1] : i \in DOMAIN done} |->
                          done[CHOOSE i \in DOMAIN done : done[i][1] = c][2]]
  <1>1. checks' = [c \in Checks |->
                     IF c \in DOMAIN result THEN Observe(checks[c], result[c]) ELSE checks[c]]
    BY Zenon DEF Settle
  <1>2. quiet' = [p \in DOMAIN quiet |->
                     IF p[1] \in DOMAIN result
                     THEN QuietAfter(p[1], checks[p[1]], result[p[1]], quiet)[p] ELSE quiet[p]]
    BY Zenon DEF Settle
  <1>3. \A c \in DOMAIN result : result[c] \in Results
    <2>1. TAKE c \in DOMAIN result
    <2>2. PICK i \in DOMAIN done : done[i][1] = c
      OBVIOUS
    <2>3. PICK j \in DOMAIN done : result[c] = done[j][2]
      <3> DEFINE j == CHOOSE j \in DOMAIN done : done[j][1] = c
      <3>1. j \in DOMAIN done /\ result[c] = done[j][2]
        BY <2>2
      <3>. QED
        BY <3>1, Zenon
    <2> HIDE DEF result
    <2>4. done[j] \in Checks \X Results
      BY <2>3
    <2>. QED
      BY <2>3, <2>4
  <1>4. DOMAIN quiet = Checks \X Keys
    BY DEF SilenceInv
  <1> HIDE DEF result
  <1>5. ASSUME NEW c \in Checks
        PROVE  \/ checks'[c] = checks[c] /\ \A k \in Keys : quiet'[<<c, k>>] = quiet[<<c, k>>]
               \/ \E r \in Results :
                    /\ checks'[c] = Observe(checks[c], r)
                    /\ \A k \in Keys :
                          quiet'[<<c, k>>] = QuietAfter(c, checks[c], r, quiet)[<<c, k>>]
    <2>1. CASE c \in DOMAIN result
      <3>1. checks'[c] = Observe(checks[c], result[c])
        BY <1>1, <2>1
      <3>2. \A k \in Keys :
               quiet'[<<c, k>>] = QuietAfter(c, checks[c], result[c], quiet)[<<c, k>>]
        BY <1>2, <1>4, <2>1
      <3>. QED
        BY <1>3, <2>1, <3>1, <3>2
    <2>2. CASE c \notin DOMAIN result
      BY <1>1, <1>2, <1>4, <2>2
    <2>. QED
      BY <2>1, <2>2
  <1>. QED
    BY <1>1, <1>2, <1>4, <1>5, Zenon

\* No warning is consumed by a batch that is cut short, and none is told twice
\* before its key has cleared.
LEMMA SilenceStep ==
  ASSUME Inv
  PROVE  [Next]_vars => SilenceInv'
  <1> USE DEF Inv
  <1>1. ASSUME UNCHANGED <<conf, checks, quiet>> PROVE SilenceInv'
    BY <1>1 DEF SilenceInv, Told, Keys, Checks, Selected
  <1>2. ASSUME ResetAttempt, conf' = conf PROVE SilenceInv'
    <2>1. Checks' = Checks /\ Keys' = Keys
      BY <1>2 DEF Checks, Keys, Selected
    <2>2. clear_after \in Nat /\ clear_after # 0
      BY ConstantsAssumption
    <2>3. quiet' = [p \in Checks \X Keys |-> clear_after] /\ checks' = [c \in Checks |-> Fresh]
      BY <1>2 DEF ResetAttempt, Keys
    <2>4. ASSUME NEW c \in Checks
          PROVE  checks'[c] = [due |-> checks'[c].due, active |-> Told(c)',
                               last_step |-> checks'[c].last_step,
                               failed |-> quiet'[<<c, ErrorKey>>] = 0]
      <3>1. \A k \in Keys : quiet'[<<c, k>>] = clear_after
        BY <2>3
      <3>2. {a \in conf'.keys : quiet'[<<c, a>>] < clear_after} = {}
        BY <1>2, <2>2, <3>1 DEF Keys
      <3>3. Told(c)' = [k \in {} |-> 0]
        BY <3>2 DEF Told
      <3>4. (quiet'[<<c, ErrorKey>>] = 0) = FALSE
        BY <2>2, <3>1 DEF Keys
      <3>5. checks'[c] = Fresh
        BY <2>3
      <3>6. checks'[c] = [due |-> checks'[c].due, active |-> [k \in {} |-> 0],
                          last_step |-> checks'[c].last_step, failed |-> FALSE]
        BY <3>5 DEF Fresh
      <3>. QED
        BY <3>3, <3>4, <3>6, Zenon
    <2>. QED
      BY <2>1, <2>2, <2>3, <2>4 DEF SilenceInv, Keys
  <1>3. ASSUME Receive \/ Quit PROVE SilenceInv'
    <2>1. conf' = conf /\ (ResetAttempt \/ UNCHANGED <<checks, quiet>>)
      BY <1>3 DEF Receive, Handle, Quit, jobVars
    <2>. QED
      BY <1>1, <1>2, <2>1
  <1>4. ASSUME NEW d \in Checks, DeadlinePasses(d) PROVE SilenceInv'
    <2>1. checks' = [checks EXCEPT ![d].due = TRUE] /\ UNCHANGED <<conf, quiet>>
      BY <1>4 DEF DeadlinePasses, jobVars
    <2>2. Checks' = Checks /\ Keys' = Keys /\ \A c \in Checks : Told(c)' = Told(c)
      BY <2>1 DEF Checks, Keys, Selected, Told
    <2>3. ASSUME NEW c \in Checks
          PROVE  checks'[c] = [due |-> checks'[c].due, active |-> Told(c),
                               last_step |-> checks'[c].last_step,
                               failed |-> quiet[<<c, ErrorKey>>] = 0]
      <3> DEFINE T == Told(c)
                 silent == quiet[<<c, ErrorKey>>] = 0
      <3>1. checks[c] = [due |-> checks[c].due, active |-> T, last_step |-> checks[c].last_step,
                         failed |-> silent] /\ DOMAIN checks = Checks
        BY DEF SilenceInv
      <3> HIDE DEF T, silent
      <3>2. checks'[c] = IF c = d THEN [checks[c] EXCEPT !.due = TRUE] ELSE checks[c]
        BY <2>1, <3>1, Zenon
      <3>3. PICK old : old = checks[c]
        OBVIOUS
      <3>4. [old EXCEPT !.due = TRUE]
              = [due |-> TRUE, active |-> T, last_step |-> old.last_step, failed |-> silent]
        <4> DEFINE new == [old EXCEPT !.due = TRUE]
        <4>1. DOMAIN new = {"due", "active", "last_step", "failed"}
          BY <3>1, <3>3
        <4>2. /\ new.due = TRUE /\ new.active = T /\ new.last_step = old.last_step
              /\ new.failed = silent
          BY <3>1, <3>3
        <4>3. new = [i \in DOMAIN new |-> new[i]]
          BY Zenon
        <4> HIDE DEF new
        <4>4. new = [due |-> TRUE, active |-> T, last_step |-> old.last_step, failed |-> silent]
          BY <4>1, <4>2, <4>3
        <4>. QED
          BY <4>4 DEF new
      <3>5. checks'[c] = [due |-> checks'[c].due, active |-> T,
                          last_step |-> checks'[c].last_step, failed |-> silent]
        BY <3>1, <3>2, <3>3, <3>4, ZenonT(30)
      <3>. QED
        BY <3>5 DEF T, silent
    <2>4. /\ quiet' \in [Checks \X Keys -> 0 .. clear_after] /\ DOMAIN checks' = Checks
          /\ \A c \in Checks : quiet'[<<c, ErrorKey>>] \in {0, clear_after}
      BY <2>1 DEF SilenceInv
    <2>5. ASSUME NEW c \in Checks
          PROVE  checks'[c] = [due |-> checks'[c].due, active |-> Told(c)',
                               last_step |-> checks'[c].last_step,
                               failed |-> quiet'[<<c, ErrorKey>>] = 0]
      BY <2>1, <2>2, <2>3, Zenon
    <2>. QED
      BY <2>2, <2>4, <2>5, Zenon DEF SilenceInv
  <1>5. ASSUME CheckReturns PROVE SilenceInv'
    <2>1. PICK done \in Seq(Checks \X Results) : Settle(done) \/ UNCHANGED <<checks, quiet>>
      BY <1>5, CheckReturnsCases, Zenon
    <2>2. conf' = conf /\ conf \in Configurations
      BY <1>5, CheckReturnsCases, Zenon DEF jobVars, StreamType
    <2>3. CASE Settle(done)
      <3>1. Checks' = Checks /\ Keys' = Keys
        BY <2>2 DEF Checks, Keys, Selected
      <3>2. DOMAIN checks' = Checks /\ DOMAIN quiet' = Checks \X Keys
        BY <2>2, <2>3, SettleCommits, Zenon
      <3>3. ASSUME NEW c \in Checks
            PROVE  /\ \A k \in Keys : quiet'[<<c, k>>] \in 0 .. clear_after
                   /\ quiet'[<<c, ErrorKey>>] \in {0, clear_after}
                   /\ checks'[c] = [due |-> checks'[c].due, active |-> Told(c)',
                                    last_step |-> checks'[c].last_step,
                                    failed |-> quiet'[<<c, ErrorKey>>] = 0]
        <4>1. ErrorKey \in Keys /\ conf.keys \subseteq Keys
          BY DEF Keys
        <4>2. CASE checks'[c] = checks[c] /\ \A k \in Keys : quiet'[<<c, k>>] = quiet[<<c, k>>]
          <5>1. Told(c)' = Told(c)
            BY <2>2, <4>1, <4>2 DEF Told
          <5>. QED
            BY <4>1, <4>2, <5>1 DEF SilenceInv
        <4>3. ASSUME NEW r \in Results, checks'[c] = Observe(checks[c], r),
                     \A k \in Keys :
                        quiet'[<<c, k>>] = QuietAfter(c, checks[c], r, quiet)[<<c, k>>]
              PROVE  /\ \A k \in Keys : quiet'[<<c, k>>] \in 0 .. clear_after
                     /\ quiet'[<<c, ErrorKey>>] \in {0, clear_after}
                     /\ checks'[c] = [due |-> checks'[c].due, active |-> Told(c)',
                                      last_step |-> checks'[c].last_step,
                                      failed |-> quiet'[<<c, ErrorKey>>] = 0]
          <5>1. PICK q : q = QuietAfter(c, checks[c], r, quiet)
            OBVIOUS
          <5>2. \A k \in Keys : quiet'[<<c, k>>] = q[<<c, k>>]
            BY <4>3, <5>1
          <5>3. Agrees(c, checks'[c], q)
            BY <2>2, <4>3, <5>1, ObserveTells
          <5> DEFINE told == [k \in {a \in conf.keys : q[<<c, a>>] < clear_after} |-> q[<<c, k>>]]
                     failed == q[<<c, ErrorKey>>] = 0
          <5>4. Told(c)' = told
            BY <2>2, <4>1, <5>2 DEF Told
          <5>5. failed = (quiet'[<<c, ErrorKey>>] = 0)
            BY <4>1, <5>2
          <5>6. PICK due, step :
                  checks'[c] = [due |-> due, active |-> told, last_step |-> step,
                                failed |-> failed]
            BY <5>3, Zenon DEF Agrees
          <5> HIDE DEF told, failed
          <5>7. checks'[c] = [due |-> checks'[c].due, active |-> told,
                              last_step |-> checks'[c].last_step, failed |-> failed]
            BY <5>6
          <5>. QED
            BY <4>1, <5>2, <5>3, <5>4, <5>5, <5>7 DEF Agrees
        <4>. QED
          BY <2>2, <2>3, <4>2, <4>3, SettleCommits
      <3>4. quiet' \in [Checks \X Keys -> 0 .. clear_after]
        <4>1. \A p \in Checks \X Keys : quiet'[p] \in 0 .. clear_after
          <5>1. TAKE p \in Checks \X Keys
          <5>2. p[1] \in Checks /\ p[2] \in Keys /\ p = <<p[1], p[2]>>
            OBVIOUS
          <5>3. quiet'[<<p[1], p[2]>>] \in 0 .. clear_after
            BY <3>3, <5>2, Zenon
          <5>. QED
            BY <5>2, <5>3
        <4>2. quiet' = [p \in DOMAIN quiet' |-> quiet'[p]]
          BY <2>3, Zenon DEF Settle
        <4>. QED
          BY <3>2, <4>1, <4>2
      <3>. QED
        BY <3>1, <3>2, <3>3, <3>4 DEF SilenceInv
    <2>. QED
      BY <1>1, <2>1, <2>2, <2>3
  <1>6. ASSUME \/ JobStep \/ Frame \/ CooldownPasses \/ HookStarts \/ HookEnds \/ WriteLine
               \/ Finish \/ FinishHooks \/ StartChecks \/ UNCHANGED vars
        PROVE  SilenceInv'
    <2>1. UNCHANGED <<conf, checks, quiet>>
      BY <1>6, Zenon DEF JobStep, JobStarts, JobGoesBack, JobChanges, JobEnds, Happens, Frame,
        CooldownPasses, HookStarts, HookEnds, WriteLine, Finish, FinishHooks, StartChecks,
        jobVars, vars
    <2>. QED
      BY <1>1, <2>1
  <1>. QED
    BY Cases, <1>3, <1>4, <1>5, <1>6

\* The follower ends with a final row, its exit code, the outcome line and the
\* finish hooks, in this order (follow, HookWorker::finish).
LEMMA EndStep ==
  ASSUME Inv
  PROVE  [Next]_vars => EndInv'
  <1> USE DEF Inv, TaskType
  <1>1. ASSUME \/ JobStep \/ Frame \/ CooldownPasses \/ HookEnds \/ StartChecks
               \/ (\E c \in Checks : DeadlinePasses(c)) \/ UNCHANGED vars
        PROVE  EndInv'
    <2>1. UNCHANGED <<conf, fol, printed, hook>>
      BY <1>1, ZenonT(30) DEF JobStep, JobStarts, JobGoesBack, JobChanges, JobEnds, Happens, Frame,
        CooldownPasses, HookEnds, StartChecks, DeadlinePasses, jobVars, vars
    <2>2. hooks' = hooks \/ hooks' = [hooks EXCEPT !.busy = FALSE]
      BY <1>1, Zenon DEF JobStep, JobStarts, JobGoesBack, JobChanges, JobEnds, Happens, Frame,
        CooldownPasses, HookEnds, StartChecks, DeadlinePasses, jobVars, vars
    <2>3. hooks'.mailbox = hooks.mailbox
      BY <2>2 DEF StreamType
    <2>. QED
      BY <2>1, <2>3, Zenon DEF EndInv, ExitCode, Line
  <1>2. ASSUME CheckReturns PROVE EndInv'
    <2>1. fol'.pc = "idle"
      <3>1. PICK done \in Seq(Checks \X Results) : Settle(done) \/ UNCHANGED fol
        BY <1>2, CheckReturnsCases, Zenon
      <3>2. fol.pc = "idle"
        BY <1>2, CheckReturnsCases, Zenon
      <3>3. CASE Settle(done)
        <4>1. PICK out : fol' = [fol EXCEPT !.out = out]
          BY <3>3, SettleOut
        <4>. QED
          BY <3>2, <4>1
      <3>. QED
        BY <3>1, <3>2, <3>3, ZenonT(30)
    <2>. QED
      BY <2>1 DEF EndInv
  <1>3. ASSUME Receive PROVE EndInv'
    <2>1. fol' = [fol EXCEPT !.pc = IF Ends(stream) THEN "finish" ELSE "idle",
                             !.row = stream.row, !.more = stream.more, !.initial = FALSE,
                             !.out = LinesOf(stream)]
      BY <1>3 DEF Receive, Handle
    <2>2. fol'.pc = (IF Ends(stream) THEN "finish" ELSE "idle") /\ fol'.row = stream.row
      BY <2>1
    <2>. QED
      BY <2>2 DEF EndInv, Ends
  <1>4. ASSUME WriteLine PROVE EndInv'
    <2>1. /\ fol' = [fol EXCEPT !.out = Tail(fol.out)] /\ fol.out # <<>>
          /\ printed' = Head(fol.out)
      BY <1>4 DEF WriteLine
    <2>2. fol'.pc = fol.pc /\ fol'.row = fol.row /\ fol'.code = fol.code /\ fol.pc # "over"
      BY <2>1 DEF EndInv
    <2>3. ASSUME fol.pc = "outcome"
          PROVE  fol'.out = <<>> /\ printed' = Line("finished", None, None)
      BY <2>1, <2>3 DEF EndInv
    <2>. QED
      BY <2>2, <2>3 DEF EndInv, ExitCode, Line
  <1>5. ASSUME HookStarts PROVE EndInv'
    <2>1. UNCHANGED <<conf, fol, printed>> /\ fol.pc # "over"
      BY <1>5 DEF HookStarts, jobVars, EndInv
    <2>. QED
      BY <2>1 DEF EndInv, ExitCode, Line
  <1>6. ASSUME Finish PROVE EndInv'
    <2>1. fol' = [fol EXCEPT !.pc = "outcome", !.code = <<ExitCode(fol.row)>>,
                             !.out = <<Line("finished", None, None)>>] /\ fol.pc = "finish"
      BY <1>6 DEF Finish
    <2>2. /\ fol'.pc = "outcome" /\ fol'.row = fol.row /\ fol'.code = <<ExitCode(fol.row)>>
          /\ fol'.out = <<Line("finished", None, None)>>
      BY <2>1
    <2>. QED
      BY <2>1, <2>2 DEF EndInv, ExitCode, Line
  <1>7. ASSUME FinishHooks PROVE EndInv'
    <2>1. /\ fol' = [fol EXCEPT !.pc = "over"] /\ fol.pc = "outcome" /\ fol.out = <<>>
          /\ UNCHANGED <<printed, conf>> /\ hooks'.mailbox = <<>>
          /\ "finished" \in conf.hooked => hook' = "finished"
      BY <1>7 DEF FinishHooks, jobVars
    <2>2. /\ fol'.pc = "over" /\ fol'.row = fol.row /\ fol'.code = fol.code /\ fol'.out = <<>>
      BY <2>1
    <2>. QED
      BY <2>1, <2>2 DEF EndInv, ExitCode, Line
  <1>8. ASSUME Quit PROVE EndInv'
    <2>1. fol'.pc = "quit"
      BY <1>8 DEF Quit
    <2>. QED
      BY <2>1 DEF EndInv
  <1>. QED
    BY Cases, <1>1, <1>2, <1>3, <1>4, <1>5, <1>6, <1>7, <1>8

\* The follower starts within the invariant.
LEMMA InitInv ==
  ASSUME Init
  PROVE  Inv
  <1> USE DEF Init
  <1>1. NoRow \in Rows /\ job \in Rows /\ job.attempt \in Nat
    BY DEF NoRow, Rows, Attempts, Live
  <1>2. TaskType
    <2>1. <<>> \in Seq(Lines) /\ <<>> \in Seq({0, 1, OwnCode})
      OBVIOUS
    <2>. QED
      BY <1>1, <2>1 DEF TaskType
  <1>3. StreamType
    <2>1. <<>> \in Seq(EventKinds)
      OBVIOUS
    <2>2. stream \in [row : Rows, events : Seq(EventKinds), more : BOOLEAN]
      BY <1>1, <2>1, Zenon
    <2>. QED
      BY <1>1, <2>1, <2>2 DEF StreamType
  <1>4. BatchInv /\ EndInv
    BY DEF BatchInv, EndInv
  <1>5. SilenceInv
    <2>1. clear_after \in Nat /\ clear_after # 0
      BY ConstantsAssumption
    <2>2. quiet = [p \in Checks \X Keys |-> clear_after] /\ checks = [c \in Checks |-> Fresh]
      BY DEF Keys
    <2>3. ASSUME NEW c \in Checks
          PROVE  checks[c] = [due |-> checks[c].due, active |-> Told(c),
                              last_step |-> checks[c].last_step,
                              failed |-> quiet[<<c, ErrorKey>>] = 0]
      <3>1. \A k \in Keys : quiet[<<c, k>>] = clear_after
        BY <2>2, Zenon
      <3>2. {a \in conf.keys : quiet[<<c, a>>] < clear_after} = {}
        BY <2>1, <3>1 DEF Keys
      <3>3. Told(c) = [k \in {} |-> 0]
        BY <3>2 DEF Told
      <3>4. (quiet[<<c, ErrorKey>>] = 0) = FALSE
        BY <2>1, <3>1, Zenon DEF Keys
      <3>5. checks[c] = [due |-> checks[c].due, active |-> [k \in {} |-> 0],
                         last_step |-> checks[c].last_step, failed |-> FALSE]
        BY <2>2, Zenon DEF Fresh
      <3>. QED
        BY <3>3, <3>4, <3>5, Zenon
    <2>. QED
      BY <2>1, <2>2, <2>3 DEF SilenceInv, Keys
  <1>. QED
    BY <1>2, <1>3, <1>4, <1>5 DEF Inv

------------------------------------------------------------------------------
(* The theorems.                                                           *)

\* The invariant holds of every run of the follower.
THEOREM FollowInvariance == Spec => []Inv
  <1>1. Init => Inv
    BY InitInv
  <1>2. Inv /\ [Next]_vars => Inv'
    BY TaskStep, StreamStep, BatchStep, SilenceStep, EndStep DEF Inv
  <1>. QED
    BY <1>1, <1>2, PTL DEF Spec

\* However batches are cut short, fail or are answered from a cache, a key is
\* silenced exactly as long as it was told and has not cleared.
THEOREM SilenceIsTold == Spec => []SilencedMeansTold
  <1>1. Inv => SilencedMeansTold
    <2> SUFFICES ASSUME Inv, NEW c \in Checks
                 PROVE  /\ DOMAIN checks[c].active = {k \in conf.keys : quiet[<<c, k>>] < clear_after}
                        /\ checks[c].failed <=> quiet[<<c, ErrorKey>>] = 0
      BY DEF SilencedMeansTold
    <2> DEFINE failed == quiet[<<c, ErrorKey>>] = 0
               told == Told(c)
    <2>1. checks[c] = [due |-> checks[c].due, active |-> told,
                       last_step |-> checks[c].last_step, failed |-> failed]
      BY DEF Inv, SilenceInv
    <2> HIDE DEF failed, told
    <2>2. checks[c].active = told /\ checks[c].failed = failed
      BY <2>1
    <2>. QED
      BY <2>2, Zenon DEF failed, told, Told
  <1>. QED
    BY <1>1, FollowInvariance, PTL

\* Every warning line names the attempt whose checks raised it.
THEOREM WarningsAreCurrent == Spec => []WarningsNameTheirAttempt
  <1>1. Inv => WarningsNameTheirAttempt
    BY DEF Inv, StreamType, Lines, WarningsNameTheirAttempt
  <1>. QED
    BY <1>1, FollowInvariance, PTL

\* The outcome is the last thing printed and the finish hook the last one run,
\* with the exit code of the final row.
THEOREM OutcomeComesLast == Spec => []OutcomeIsLast
  <1>1. Inv => OutcomeIsLast
    <2> SUFFICES ASSUME Inv, fol.pc = "over"
                 PROVE  /\ printed.kind = "finished"
                        /\ "finished" \in conf.hooked => hook = "finished"
                        /\ fol.row.state \in Final
                        /\ fol.code = <<0>> <=> fol.row.state = "succeeded"
                        /\ fol.code = <<OwnCode>> => fol.row.ended = fol.row.state
      BY DEF OutcomeIsLast
    <2>1. /\ printed = Line("finished", None, None) /\ fol.row.state \in Final
          /\ fol.code = <<ExitCode(fol.row)>>
          /\ "finished" \in conf.hooked => hook = "finished"
      BY DEF Inv, EndInv
    <2>2. \A n \in Nat : fol.code = <<n>> <=> ExitCode(fol.row) = n
      BY <2>1
    <2>. QED
      BY <2>1, <2>2 DEF Line, ExitCode, OwnCode
  <1>. QED
    BY <1>1, FollowInvariance, PTL
==============================================================================
