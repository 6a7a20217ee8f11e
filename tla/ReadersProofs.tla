---------------------------- MODULE ReadersProofs -----------------------------
(***************************************************************************)
(* Proofs about the readers of the event log, for every length of the log, *)
(* page size and socket buffer.  Four inductive invariants are kept        *)
(* together:                                                               *)
(*                                                                         *)
(*   - HistoryInv is the grammar of the table: after a start come only     *)
(*     yield requests until the attempt is orphaned or ends, and an end is *)
(*     followed in the same transaction by what it means for the job;      *)
(*   - StreamInv says that the frames on the wire follow one another from  *)
(*     the client's cursor to the task's, and that a stream which sleeps   *)
(*     with no revision waiting has covered all that was published;        *)
(*   - TtsInv says that the cursor moves to the ends of transactions only; *)
(*   - TailInv says that a first attempt found over writes no more.        *)
(*                                                                         *)
(* Lists of ids are compared by what they list: a set of numbers has one   *)
(* increasing list (ListsOnce), so that pages, shortened pages and their   *)
(* concatenations need no induction of their own.                          *)
(***************************************************************************)
EXTENDS Readers, SequenceTheorems, WellFoundedInduction, TLAPS

\* FollowedIds in a table lg.
IdsOf(lg, after, upTo) ==
    LET ids[n \in 0 .. upTo] ==
            IF n <= after THEN <<>>
            ELSE IF lg[n].job = Followed THEN Append(ids[n - 1], n) ELSE ids[n - 1]
    IN  ids[upTo]

\* RunningAt in a table lg.
RunsAt(lg, n) ==
    \E i \in 1 .. n :
        /\ lg[i] = [job |-> Followed, type |-> "attempt_running"]
        /\ \A k \in i + 1 .. n : lg[k].job = Followed => lg[k].type = "yield_requested"

\* The ids behind from, up to upTo.
Span(from, upTo) == [i \in 1 .. upTo - from |-> from + i]

States == {"queued", "held", "running", "orphaned", "done"}

Types == {"attempt_running", "yield_requested", "attempt_orphaned", "attempt_ended",
          "retry_scheduled", "job_yielded", "job_ended", "job_held", "job_released",
          "job_retried", "changed"}

Events == [job : {Followed, Other}, type : Types]

Rows == [state : States, attempt : Nat, delayed : BOOLEAN, requested : BOOLEAN,
         delivered : BOOLEAN]

Frames == [cursor : Nat, events : Seq(Nat), more : BOOLEAN, state : States, at : Nat]

\* Types, and a publication never ahead of the table.
LogType ==
    /\ log \in Seq(Events)
    /\ job \in Rows
    /\ written \in Nat
    /\ blocked \in BOOLEAN
    /\ published \in [cursor : Nat, blocked : BOOLEAN]
    /\ published.cursor <= Len(log)

\* What the followed job's event at k may be when the job was running before it.
Continues(lg, k) ==
    \/ lg[k].type \in {"yield_requested", "attempt_orphaned"}
    \/ /\ lg[k].type = "attempt_ended"
       /\ k < Len(lg)
       /\ lg[k + 1].job = Followed
       /\ lg[k + 1].type \in {"retry_scheduled", "job_yielded", "job_ended"}

\* The table lg as the transactions leave it, with the row in state.
History(lg, state) ==
    /\ RunsAt(lg, Len(lg)) => state = "running"
    /\ Len(lg) # 0 => lg[Len(lg)].type # "attempt_ended"
    /\ \A k \in 1 .. Len(lg) :
          RunsAt(lg, k - 1) /\ lg[k].job = Followed => Continues(lg, k)

\* The table and the row agree on whether the job runs.
HistoryInv == History(log, job.state)

\* A frame f that starts at from lists every event up to its cursor, and leaves
\* nothing behind unless it announces more.
FrameOK(lg, f, from) ==
    /\ f.cursor <= f.at /\ f.at <= Len(lg)
    /\ from = None => f.events = <<>> /\ ~f.more
    /\ from # None =>
          /\ from \in Nat /\ from <= f.cursor
          /\ f.events = IdsOf(lg, from, f.cursor)
          /\ f.events = <<>> => f.cursor = from /\ ~f.more
    /\ ~f.more => IdsOf(lg, f.cursor, f.at) = <<>>

\* What a client c holds: everything between its start and its cursor, and,
\* once it reports the job over, everything behind that report.
ClientOK(lg, c) ==
    /\ c.cursor = None => c.start = None /\ c.delivered = <<>>
    /\ c.cursor # None =>
          /\ c.cursor \in 0 .. Len(lg) /\ c.start \in 0 .. c.cursor
          /\ c.delivered = IdsOf(lg, c.start, c.cursor)
    /\ c.pc = "over" =>
          /\ c.cursor # None
          /\ c.at \in c.cursor .. Len(lg)
          /\ IdsOf(lg, c.cursor, c.at) = <<>>

\* The frames on a wire w follow one another from the client's cursor.
Chain(lg, w, cursor) ==
    /\ w \in Seq(Frames)
    /\ \A i \in 1 .. Len(w) : FrameOK(lg, w[i], IF i = 1 THEN cursor ELSE w[i - 1].cursor)

\* Where the next frame will start.
Tip(w, cursor) == IF w = <<>> THEN cursor ELSE w[Len(w)].cursor

\* The task asks from there.
TaskOK(lg, t, tip) ==
    /\ t.pc # "closed" => t.after = tip /\ (t.after = None => t.first)
    /\ t.pc = "reply" => t.response \in Frames /\ FrameOK(lg, t.response, t.after)

\* An answer without a newer revision covers what was published, and so does
\* the frame a sleeping task sent.
QuietInv ==
    /\ task.pc = "reply" /\ ~pending =>
          \/ Unpublished
          \/ IF reader = "job" THEN task.response.at = Len(log)
             ELSE Logged(task.response) = Logged(StatusView)
    /\ task.pc = "wait" /\ ~pending =>
          \/ Unpublished
          \/ IF reader = "job" THEN IdsOf(log, task.after, Len(log)) = <<>>
             ELSE Logged(task.sent) = Logged(StatusView)

\* Both kinds of stream.
StreamShape ==
    /\ DOMAIN task = {"pc", "after", "sent", "first", "response"}
    /\ DOMAIN cli = {"pc", "start", "cursor", "delivered", "at"}
    /\ cli.pc \in {"off", "reading", "over"}
    /\ cli.pc = "over" => reader = "job"
    /\ ~up => task.pc = "closed"

\* The stream of a job, from the client to the task.
JobStream ==
    /\ ClientOK(log, cli)
    /\ Chain(log, wire, cli.cursor)
    /\ TaskOK(log, task, Tip(wire, cli.cursor))

StreamInv == StreamShape /\ (reader = "job" => JobStream) /\ QuietInv

\* The TTS follower: what it said, holds and has fetched are consecutive stretches,
\* and its cursor is where a transaction ended.
TtsInv ==
    /\ tts \in [pc : {"start", "poll", "first", "second", "announce"}, start : Nat,
                cursor : Nat, next : Nat, all : Seq(Nat), batch : Seq(Nat), said : Seq(Nat),
                running : SUBSET {Followed, Other}, as_of : Nat]
    /\ tts.start <= tts.cursor
    /\ tts.cursor <= Len(log) /\ tts.next <= Len(log) /\ tts.as_of <= Len(log)
    /\ tts.pc \in {"first", "second"} =>
          tts.cursor <= tts.next /\ tts.all = Span(tts.cursor, tts.next)
    /\ \E heard \in tts.start .. tts.cursor :
          tts.said = Span(tts.start, heard) /\ tts.batch = Span(heard, tts.cursor)
    /\ tts.pc = "start" => tts.said = <<>> /\ tts.batch = <<>> /\ tts.running = {}
    /\ tts.cursor # 0 => log[tts.cursor].type # "attempt_ended"
    /\ Followed \in tts.running => RunsAt(log, tts.as_of)

\* The log follower: a final attempt is measured for the last time.
TailInv ==
    /\ tail \in [pc : {"open", "copy", "ask", "measure", "over", "failed"}, offset : Nat]
    /\ tail.offset <= written
    /\ tail.pc \in {"measure", "over"} => FirstAttemptOver
    /\ tail.pc = "over" => tail.offset = written

\* The inductive invariant.
Inv == LogType /\ HistoryInv /\ StreamInv /\ TtsInv /\ TailInv

------------------------------------------------------------------------------
\* Induction by the least counterexample.
LEMMA LeastNumber ==
  ASSUME NEW S, S \subseteq Nat, S # {}
  PROVE  \E n \in S : \A m \in S : n <= m
  <1> DEFINE R == {ss \in Nat \X Nat : ss[1] < ss[2]}
  <1>0. IsWellFoundedOn(R, Nat)
    BY NatLessThanWellFounded DEF OpToRel
  <1>1. PICK n \in S : \A m \in S : <<m, n>> \notin R
    <2> HIDE DEF R
    <2>. QED
      BY <1>0, WFMin, Zenon
  <1>2. ASSUME NEW m \in S PROVE n <= m
    <2>1. <<m, n>> \in Nat \X Nat /\ <<m, n>> \notin R
      BY <1>1
    <2>2. ~(m < n)
      BY <2>1
    <2>. QED
      BY <2>2
  <1>. QED
    BY <1>2

\* s lists the numbers of S in their order.
Lists(s, S) ==
    /\ s \in Seq(Nat)
    /\ \A i \in 1 .. Len(s) : s[i] \in S
    /\ \A x \in S : \E i \in 1 .. Len(s) : s[i] = x
    /\ \A i, j \in 1 .. Len(s) : i < j => s[i] < s[j]

\* A set of numbers is listed in one way.
LEMMA ListsOnce ==
  ASSUME NEW S, S \subseteq Nat, NEW s, NEW t, Lists(s, S), Lists(t, S)
  PROVE  s = t
  <1> USE DEF Lists
  <1>0. s \in Seq(Nat) /\ t \in Seq(Nat) /\ Len(s) \in Nat /\ Len(t) \in Nat
    OBVIOUS
  <1>1. ASSUME NEW k \in Nat, NEW a, NEW b, Lists(a, S), Lists(b, S), k \in 1 .. Len(a),
               \A j \in 1 .. k - 1 : j <= Len(b) /\ a[j] = b[j]
        PROVE  k <= Len(b) /\ b[k] <= a[k]
    <2>0. a \in Seq(Nat) /\ b \in Seq(Nat) /\ Len(a) \in Nat /\ Len(b) \in Nat
      BY <1>1
    <2>1. PICK i \in 1 .. Len(b) : b[i] = a[k]
      BY <1>1, Zenon
    <2>2. ~(i < k)
      <3> SUFFICES ASSUME i < k PROVE FALSE
        OBVIOUS
      <3>1. i \in 1 .. k - 1 /\ i \in 1 .. Len(a)
        BY <2>0, <1>1, <2>1
      <3>2. a[i] = a[k] /\ a[i] < a[k]
        BY <3>1, <2>1, <1>1
      <3>3. a[i] \in Nat /\ a[k] \in Nat
        BY <3>1, <1>1, <2>0, Zenon
      <3>. QED
        BY <3>2, <3>3
    <2>3. k <= i /\ k \in 1 .. Len(b)
      BY <2>2, <2>1, <2>0, <1>1
    <2>4. b[k] \in Nat /\ b[i] \in Nat
      BY <2>0, <2>1, <2>3, SMTT(30)
    <2>5. b[k] <= b[i]
      <3>1. CASE k = i
        BY <3>1, <2>4
      <3>2. CASE k # i
        <4>1. k < i
          BY <3>2, <2>3, <2>1, <1>1
        <4>2. b[k] < b[i]
          BY <4>1, <2>1, <2>3, <1>1
        <4>. QED
          BY <4>2, <2>4
      <3>. QED
        BY <3>1, <3>2
    <2>. QED
      BY <2>1, <2>3, <2>5
  <1> DEFINE Bad == {k \in Nat : k # 0 /\ (k \in 1 .. Len(s) \/ k \in 1 .. Len(t)) /\
                                ~(k <= Len(s) /\ k <= Len(t) /\ s[k] = t[k])}
  <1>2. Bad = {}
    <2> SUFFICES ASSUME Bad # {} PROVE FALSE
      OBVIOUS
    <2>1. PICK k \in Bad : \A m \in Bad : k <= m
      <3>1. Bad \subseteq Nat
        OBVIOUS
      <3> HIDE DEF Bad
      <3>. QED
        BY <3>1, LeastNumber, Zenon
    <2>2. /\ k \in Nat /\ k # 0
          /\ k \in 1 .. Len(s) \/ k \in 1 .. Len(t)
          /\ ~(k <= Len(s) /\ k <= Len(t) /\ s[k] = t[k])
      OBVIOUS
    <2>3. \A j \in 1 .. k - 1 : j <= Len(s) /\ j <= Len(t) /\ s[j] = t[j]
      <3> SUFFICES ASSUME NEW j \in 1 .. k - 1 PROVE j <= Len(s) /\ j <= Len(t) /\ s[j] = t[j]
        OBVIOUS
      <3>1. j \in Nat /\ j # 0 /\ ~(k <= j)
        BY <2>2
      <3>2. j \notin Bad
        <4> HIDE DEF Bad
        <4>. QED
          BY <2>1, <3>1
      <3>3. j \in 1 .. Len(s) \/ j \in 1 .. Len(t)
        BY <2>2, <1>0
      <3>. QED
        BY <3>1, <3>2, <3>3
    <2> HIDE DEF Bad, Lists
    <2>4. CASE k \in 1 .. Len(s)
      <3>1. k <= Len(t) /\ t[k] <= s[k]
        BY <1>1, <2>2, <2>3, <2>4
      <3>2. k \in 1 .. Len(t)
        BY <3>1, <2>2, <1>0
      <3>3. k <= Len(s) /\ s[k] <= t[k]
        BY <1>1, <2>2, <2>3, <3>2
      <3>4. s[k] \in Nat /\ t[k] \in Nat
        BY <1>0, <3>2, <2>4
      <3>. QED
        BY <2>2, <3>1, <3>3, <3>4
    <2>5. CASE k \in 1 .. Len(t)
      <3>1. k <= Len(s) /\ s[k] <= t[k]
        BY <1>1, <2>2, <2>3, <2>5
      <3>2. k \in 1 .. Len(s)
        BY <3>1, <2>2, <1>0
      <3>. QED
        BY <3>2, <2>4
    <2>. QED
      BY <2>2, <2>4, <2>5
  <1>3. \A k \in 1 .. Len(s) : k <= Len(t) /\ s[k] = t[k]
    <2> SUFFICES ASSUME NEW k \in 1 .. Len(s) PROVE k <= Len(t) /\ s[k] = t[k]
      OBVIOUS
    <2>1. k \in Nat /\ k # 0
      BY <1>0
    <2>2. k \notin Bad
      BY <1>2, Zenon
    <2>3. k \in 1 .. Len(s) \/ k \in 1 .. Len(t)
      OBVIOUS
    <2> HIDE DEF Lists
    <2>. QED
      BY <2>1, <2>2, <2>3
  <1>4. \A k \in 1 .. Len(t) : k <= Len(s)
    <2> SUFFICES ASSUME NEW k \in 1 .. Len(t) PROVE k <= Len(s)
      OBVIOUS
    <2>1. k \in Nat /\ k # 0
      BY <1>0
    <2>2. k \notin Bad
      BY <1>2, Zenon
    <2>3. k \in 1 .. Len(s) \/ k \in 1 .. Len(t)
      OBVIOUS
    <2> HIDE DEF Lists
    <2>. QED
      BY <2>1, <2>2, <2>3
  <1>5. Len(s) = Len(t)
    <2>1. Len(s) # 0 => Len(s) <= Len(t)
      BY <1>3, <1>0
    <2>2. Len(t) # 0 => Len(t) <= Len(s)
      BY <1>4, <1>0
    <2>. QED
      BY <2>1, <2>2, <1>0
  <1>. QED
    BY <1>0, <1>3, <1>5, SeqEqual

\* The ids that FollowedIds lists.
IdsIn(lg, after, upTo) == {i \in 1 .. upTo : after < i /\ lg[i].job = Followed}

\* A followed event behind the others extends their list.
LEMMA ListsNext ==
  ASSUME NEW lg, NEW after \in Nat, NEW n \in Nat, n # 0, ~(n <= after),
         lg[n].job = Followed, NEW s, Lists(s, IdsIn(lg, after, n - 1))
  PROVE  Lists(Append(s, n), IdsIn(lg, after, n))
  <1> DEFINE t == Append(s, n)
  <1>1. s \in Seq(Nat) /\ Len(s) \in Nat
    BY DEF Lists
  <1>2. t \in Seq(Nat) /\ Len(t) = Len(s) + 1 /\ t[Len(s) + 1] = n
    BY <1>1
  <1>3. \A i \in 1 .. Len(s) : t[i] = s[i] /\ s[i] \in Nat
    BY <1>1
  <1> HIDE DEF t
  <1>4. \A i \in 1 .. Len(s) : s[i] \in IdsIn(lg, after, n) /\ s[i] < n
    <2> SUFFICES ASSUME NEW i \in 1 .. Len(s) PROVE s[i] \in IdsIn(lg, after, n) /\ s[i] < n
      OBVIOUS
    <2>1. s[i] \in IdsIn(lg, after, n - 1)
      BY DEF Lists
    <2>. QED
      BY <2>1 DEF IdsIn
  <1>5. n \in IdsIn(lg, after, n)
    BY DEF IdsIn
  <1>6. \A i \in 1 .. Len(t) : t[i] \in IdsIn(lg, after, n)
    <2> SUFFICES ASSUME NEW i \in 1 .. Len(t) PROVE t[i] \in IdsIn(lg, after, n)
      OBVIOUS
    <2>1. i = Len(s) + 1 \/ i \in 1 .. Len(s)
      BY <1>1, <1>2
    <2>. QED
      BY <2>1, <1>2, <1>3, <1>4, <1>5
  <1>7. \A x \in IdsIn(lg, after, n) : \E i \in 1 .. Len(t) : t[i] = x
    <2> SUFFICES ASSUME NEW x \in IdsIn(lg, after, n) PROVE \E i \in 1 .. Len(t) : t[i] = x
      OBVIOUS
    <2>1. CASE x = n
      <3>1. Len(s) + 1 \in 1 .. Len(t)
        BY <1>1, <1>2
      <3>. QED
        BY <2>1, <3>1, <1>2
    <2>2. CASE x # n
      <3>1. x \in IdsIn(lg, after, n - 1)
        BY <2>2 DEF IdsIn
      <3>2. PICK i \in 1 .. Len(s) : s[i] = x
        BY <3>1 DEF Lists
      <3>3. i \in 1 .. Len(t)
        BY <1>1, <1>2
      <3>. QED
        BY <3>2, <3>3, <1>3
    <2>. QED
      BY <2>1, <2>2
  <1>8. \A i, j \in 1 .. Len(t) : i < j => t[i] < t[j]
    <2> SUFFICES ASSUME NEW i \in 1 .. Len(t), NEW j \in 1 .. Len(t), i < j
                 PROVE  t[i] < t[j]
      OBVIOUS
    <2>0. j \in 1 .. Len(s) + 1 /\ i \in 1 .. Len(s) + 1
      BY <1>2
    <2>1. i \in 1 .. Len(s)
      BY <1>1, <2>0
    <2>2. CASE j = Len(s) + 1
      BY <2>1, <2>2, <1>2, <1>3, <1>4, ZenonT(30)
    <2>3. CASE j \in 1 .. Len(s)
      <3>1. s[i] < s[j]
        BY <2>1, <2>3 DEF Lists
      <3>. QED
        BY <2>1, <2>3, <3>1, <1>3
    <2>4. \A l \in Nat : j \in 1 .. l + 1 => j = l + 1 \/ j \in 1 .. l
      OBVIOUS
    <2>. QED
      BY <2>0, <2>2, <2>3, <2>4, <1>1
  <1>9. Lists(t, IdsIn(lg, after, n))
    BY <1>2, <1>6, <1>7, <1>8 DEF Lists
  <1>. QED
    BY <1>9 DEF t

\* The recursion of FollowedIds has a solution, and what it computes is the list
\* of the followed job's events.
LEMMA IdsAreListed ==
  ASSUME NEW lg, NEW after \in Nat, NEW upTo \in Nat
  PROVE  Lists(IdsOf(lg, after, upTo), IdsIn(lg, after, upTo))
  <1> DEFINE Step(f, n) == IF n <= after THEN <<>>
                           ELSE IF lg[n].job = Followed THEN Append(f[n - 1], n) ELSE f[n - 1]
             Solves(f, n) == f = [i \in 0 .. n |-> Step(f, i)]
             Bad == {n \in 0 .. upTo : ~\E f \in [0 .. n -> Seq(Nat)] : Solves(f, n)}
             found == CHOOSE f : Solves(f, upTo)
  <1>2. \E f \in [0 .. 0 -> Seq(Nat)] : Solves(f, 0)
    <2> DEFINE g == [i \in 0 .. 0 |-> <<>>]
    <2>1. g \in [0 .. 0 -> Seq(Nat)] /\ Solves(g, 0)
      OBVIOUS
    <2>. QED
      BY <2>1, Zenon
  <1>3. ASSUME NEW n \in 0 .. upTo, n # 0,
               NEW f \in [0 .. n - 1 -> Seq(Nat)], Solves(f, n - 1)
        PROVE  \E h \in [0 .. n -> Seq(Nat)] : Solves(h, n)
    <2> DEFINE new == Step(f, n)
               h == [i \in 0 .. n |-> IF i = n THEN new ELSE f[i]]
    <2>1. n \in Nat /\ n - 1 \in 0 .. n - 1
      BY <1>3
    <2>2. new \in Seq(Nat)
      BY <2>1
    <2>3. h \in [0 .. n -> Seq(Nat)]
      BY <2>2
    <2>4. \A i \in 0 .. n - 1 : f[i] = Step(f, i)
      BY <1>3, Zenon
    <2>5. ASSUME NEW i \in 0 .. n PROVE h[i] = Step(h, i)
      <3>1. CASE i = n
        BY <3>1, <2>1, <1>3
      <3>2. CASE i # n /\ i # 0
        <4>1. i \in 0 .. n - 1 /\ i - 1 \in 0 .. n - 1
          BY <3>2
        <4>2. h[i] = f[i] /\ h[i - 1] = f[i - 1]
          BY <4>1
        <4> HIDE DEF h
        <4>. QED
          BY <2>4, <3>2, <4>1, <4>2, Zenon
      <3>3. CASE i # n /\ i = 0
        BY <2>4, <3>3, <2>1
      <3>. QED
        BY <3>1, <3>2, <3>3
    <2>6. Solves(h, n)
      BY <2>3, <2>5, Zenon
    <2>. QED
      BY <2>3, <2>6, Zenon
  <1>4. Bad = {}
    <2> SUFFICES ASSUME Bad # {} PROVE FALSE
      BY Zenon
    <2>1. PICK n \in Bad : \A m \in Bad : n <= m
      <3>1. Bad \subseteq Nat
        OBVIOUS
      <3> HIDE DEF Bad
      <3>. QED
        BY <3>1, LeastNumber, Zenon
    <2>2. n \in 0 .. upTo /\ ~\E f \in [0 .. n -> Seq(Nat)] : Solves(f, n)
      BY Zenon
    <2>3. n # 0
      BY <1>2, <2>2, Zenon
    <2>4. n - 1 \in 0 .. upTo /\ n - 1 \notin Bad
      <3> HIDE DEF Bad
      <3>. QED
        BY <2>1, <2>2, <2>3
    <2>5. PICK f \in [0 .. n - 1 -> Seq(Nat)] : Solves(f, n - 1)
      BY <2>4, Zenon
    <2>. QED
      BY <1>3, <2>2, <2>3, <2>5, Zenon
  <1>5. PICK f \in [0 .. upTo -> Seq(Nat)] : Solves(f, upTo)
    <2>1. upTo \in 0 .. upTo
      OBVIOUS
    <2>2. upTo \notin Bad
      BY <1>4, Zenon
    <2>. QED
      BY <2>1, <2>2, Zenon
  <1>6. PICK g : g = found /\ Solves(g, upTo)
    BY <1>5, Zenon
  <1>7. \A n \in 0 .. upTo : g[n] = Step(g, n)
    BY <1>6, Zenon
  <1>8. IdsOf(lg, after, upTo) = g[upTo]
    BY <1>6 DEF IdsOf
  <1> DEFINE Wrong == {n \in 0 .. upTo : ~Lists(g[n], IdsIn(lg, after, n))}
  <1>9. Wrong = {}
    <2> SUFFICES ASSUME Wrong # {} PROVE FALSE
      OBVIOUS
    <2>1. PICK n \in Wrong : \A m \in Wrong : n <= m
      <3>1. Wrong \subseteq Nat
        OBVIOUS
      <3> HIDE DEF Wrong
      <3>. QED
        BY <3>1, LeastNumber, Zenon
    <2>2. n \in 0 .. upTo /\ ~Lists(g[n], IdsIn(lg, after, n))
      OBVIOUS
    <2>3. g[n] = Step(g, n)
      BY <1>7, <2>2, SMTT(30)
    <2>4. CASE n <= after
      <3>1. g[n] = <<>> /\ IdsIn(lg, after, n) = {}
        BY <2>2, <2>3, <2>4 DEF IdsIn
      <3>. QED
        BY <2>2, <3>1 DEF Lists
    <2>5. CASE ~(n <= after)
      <3>1. n \in Nat /\ n # 0 /\ n - 1 \in 0 .. upTo /\ ~(n <= n - 1)
        BY <2>2, <2>5
      <3>2. n - 1 \notin Wrong
        <4> HIDE DEF Wrong
        <4>. QED
          BY <2>1, <3>1
      <3>3. PICK s : s = g[n - 1]
        OBVIOUS
      <3>4. Lists(s, IdsIn(lg, after, n - 1))
        BY <3>1, <3>2, <3>3
      <3>5. CASE lg[n].job = Followed
        <4>1. g[n] = Append(s, n)
          BY <2>3, <2>5, <3>5, <3>3, ZenonT(30)
        <4>2. Lists(Append(s, n), IdsIn(lg, after, n))
          BY <3>1, <3>4, <3>5, <2>5, ListsNext
        <4>. QED
          BY <2>2, <4>1, <4>2
      <3>6. CASE lg[n].job # Followed
        <4>1. g[n] = s
          BY <2>3, <2>5, <3>6, <3>3
        <4>2. IdsIn(lg, after, n) = IdsIn(lg, after, n - 1)
          BY <3>1, <3>6 DEF IdsIn
        <4>. QED
          BY <2>2, <3>4, <4>1, <4>2
      <3>. QED
        BY <3>5, <3>6
    <2>. QED
      BY <2>4, <2>5
  <1>10. upTo \in 0 .. upTo
    OBVIOUS
  <1>11. upTo \notin Wrong
    BY <1>9, Zenon
  <1>. QED
    BY <1>8, <1>10, <1>11

\* Two tables with the same first rows.
Same(lg, lh, upTo) == \A i \in 1 .. upTo : lh[i] = lg[i]

\* Appending to the table does not change what was listed of it.
LEMMA IdsStay ==
  ASSUME NEW lg, NEW lh, NEW after \in Nat, NEW upTo \in Nat, Same(lg, lh, upTo)
  PROVE  IdsOf(lh, after, upTo) = IdsOf(lg, after, upTo)
  <1>1. IdsIn(lh, after, upTo) = IdsIn(lg, after, upTo) /\ IdsIn(lg, after, upTo) \subseteq Nat
    BY DEF IdsIn, Same
  <1>2. Lists(IdsOf(lh, after, upTo), IdsIn(lh, after, upTo))
    BY IdsAreListed
  <1>3. Lists(IdsOf(lg, after, upTo), IdsIn(lg, after, upTo))
    BY IdsAreListed
  <1>. QED
    BY <1>1, <1>2, <1>3, ListsOnce

\* Nothing lies between a cursor and itself.
LEMMA IdsOfNothing ==
  ASSUME NEW lg, NEW c \in Nat
  PROVE  IdsOf(lg, c, c) = <<>>
  <1>1. IdsIn(lg, c, c) = {}
    BY DEF IdsIn
  <1>2. Lists(<<>>, {})
    BY DEF Lists
  <1>3. Lists(IdsOf(lg, c, c), {})
    BY <1>1, IdsAreListed
  <1>. QED
    BY <1>2, <1>3, ListsOnce

\* The list up to a cursor and the list after it make the whole.
LEMMA IdsJoin ==
  ASSUME NEW lg, NEW a \in Nat, NEW c \in Nat, NEW u \in Nat, a <= c, c <= u
  PROVE  IdsOf(lg, a, c) \o IdsOf(lg, c, u) = IdsOf(lg, a, u)
  <1> DEFINE S == IdsIn(lg, a, c)
             T == IdsIn(lg, c, u)
             W == IdsIn(lg, a, u)
  <1>1. PICK s : s = IdsOf(lg, a, c) /\ Lists(s, S)
    BY IdsAreListed
  <1>2. PICK t : t = IdsOf(lg, c, u) /\ Lists(t, T)
    BY IdsAreListed
  <1>3. PICK w : w = IdsOf(lg, a, u) /\ Lists(w, W)
    BY IdsAreListed
  <1>4. W = S \cup T /\ (\A x \in S, y \in T : x < y) /\ W \subseteq Nat
    BY DEF IdsIn
  <1> HIDE DEF S, T, W
  <1>5. s \in Seq(Nat) /\ t \in Seq(Nat) /\ Len(s) \in Nat /\ Len(t) \in Nat
    BY <1>1, <1>2 DEF Lists
  <1> DEFINE v == s \o t
  <1>6. /\ v \in Seq(Nat) /\ Len(v) = Len(s) + Len(t)
        /\ \A i \in 1 .. Len(s) : v[i] = s[i]
        /\ \A i \in 1 .. Len(t) : v[Len(s) + i] = t[i]
    BY <1>5
  <1> HIDE DEF v
  <1>7. \A i \in 1 .. Len(v) : i \in 1 .. Len(s) \/ (i - Len(s) \in 1 .. Len(t) /\ ~(i <= Len(s)))
    BY <1>5, <1>6
  <1>8a. \A m, n \in Nat :
            /\ \A i \in 1 .. m : i \in 1 .. m + n
            /\ \A i \in 1 .. n : m + i \in 1 .. m + n
    OBVIOUS
  <1>8. \A i \in 1 .. Len(s) : i \in 1 .. Len(v) /\ v[i] \in S
    <2>1. \A i \in 1 .. Len(s) : i \in 1 .. Len(v)
      BY <1>5, <1>6, <1>8a
    <2>2. \A i \in 1 .. Len(s) : s[i] \in S
      BY <1>1 DEF Lists
    <2>. QED
      BY <2>1, <2>2, <1>6, Zenon
  <1>9. \A i \in 1 .. Len(t) : Len(s) + i \in 1 .. Len(v) /\ v[Len(s) + i] \in T
    <2>1. \A i \in 1 .. Len(t) : Len(s) + i \in 1 .. Len(v)
      BY <1>5, <1>6, <1>8a
    <2>2. \A i \in 1 .. Len(t) : t[i] \in T
      BY <1>2 DEF Lists
    <2>. QED
      BY <2>1, <2>2, <1>6, ZenonT(30)
  <1>9a. \A i \in 1 .. Len(v) : ~(i \in 1 .. Len(s)) => v[i] = t[i - Len(s)] /\ v[i] \in T
    <2> SUFFICES ASSUME NEW i \in 1 .. Len(v), ~(i \in 1 .. Len(s))
                 PROVE  v[i] = t[i - Len(s)] /\ v[i] \in T
      OBVIOUS
    <2>1. PICK k \in 1 .. Len(t) : k = i - Len(s)
      BY <1>7, Zenon
    <2>2. i = Len(s) + k
      BY <2>1, <1>5, <1>6
    <2>. QED
      BY <2>1, <2>2, <1>6, <1>9, Zenon
  <1>10. \A i \in 1 .. Len(v) : v[i] \in W
    BY <1>4, <1>8, <1>9a
  <1>11. \A x \in W : \E i \in 1 .. Len(v) : v[i] = x
    <2> SUFFICES ASSUME NEW x \in W PROVE \E i \in 1 .. Len(v) : v[i] = x
      OBVIOUS
    <2>1. CASE x \in S
      <3>1. PICK i \in 1 .. Len(s) : s[i] = x
        BY <2>1, <1>1 DEF Lists
      <3>. QED
        BY <3>1, <1>6, <1>8
    <2>2. CASE x \in T
      <3>1. PICK i \in 1 .. Len(t) : t[i] = x
        BY <2>2, <1>2 DEF Lists
      <3>2. Len(s) + i \in 1 .. Len(v) /\ v[Len(s) + i] = x
        BY <3>1, <1>6, <1>9
      <3>. QED
        BY <3>2
    <2>. QED
      BY <2>1, <2>2, <1>4
  <1>12. \A i, j \in 1 .. Len(v) : i < j => v[i] < v[j]
    <2> SUFFICES ASSUME NEW i \in 1 .. Len(v), NEW j \in 1 .. Len(v), i < j
                 PROVE  v[i] < v[j]
      OBVIOUS
    <2>0. Len(v) \in Nat /\ i \in Nat /\ j \in Nat
      BY <1>5, <1>6
    <2>1. CASE j \in 1 .. Len(s)
      <3>1. i \in 1 .. Len(s)
        BY <2>0, <2>1, <1>5
      <3>2. s[i] < s[j]
        BY <3>1, <2>1, <1>1 DEF Lists
      <3>. QED
        BY <3>1, <3>2, <2>1, <1>6
    <2>2. CASE i \in 1 .. Len(s) /\ ~(j \in 1 .. Len(s))
      BY <2>2, <1>4, <1>8, <1>9a
    <2>3. CASE ~(i \in 1 .. Len(s)) /\ ~(j \in 1 .. Len(s))
      <3>1. PICK k \in 1 .. Len(t) : k = i - Len(s)
        BY <2>3, <1>7, Zenon
      <3>2. PICK m \in 1 .. Len(t) : m = j - Len(s)
        BY <2>3, <1>7, Zenon
      <3>3. k < m
        BY <3>1, <3>2, <2>0, <1>5
      <3>4. t[k] < t[m]
        BY <3>3, <1>2 DEF Lists
      <3>. QED
        BY <3>1, <3>2, <3>4, <2>3, <1>9a
    <2>. QED
      BY <2>1, <2>2, <2>3
  <1>13. Lists(v, W)
    BY <1>6, <1>10, <1>11, <1>12 DEF Lists
  <1>14. v = w
    BY <1>3, <1>4, <1>13, ListsOnce
  <1>. QED
    BY <1>1, <1>2, <1>3, <1>14 DEF v

\* The ids of a list rise from the cursor it was asked for to the end of it.
LEMMA IdsRise ==
  ASSUME NEW lg, NEW a \in Nat, NEW u \in Nat
  PROVE  LET ids == IdsOf(lg, a, u)
         IN  /\ ids \in Seq(Nat) /\ Len(ids) \in Nat
             /\ \A i \in 1 .. Len(ids) : ids[i] \in Nat /\ a < ids[i] /\ ids[i] <= u
             /\ \A i, j \in 1 .. Len(ids) : i < j => ids[i] < ids[j]
  <1>1. PICK ids : ids = IdsOf(lg, a, u) /\ Lists(ids, IdsIn(lg, a, u))
    BY IdsAreListed
  <1>2. \A x \in IdsIn(lg, a, u) : x \in Nat /\ a < x /\ x <= u
    BY DEF IdsIn
  <1>. QED
    BY <1>1, <1>2 DEF Lists

\* A shortened page is the list up to the last id it keeps.
LEMMA IdsPrefix ==
  ASSUME NEW lg, NEW a \in Nat, NEW u \in Nat, NEW s, s = IdsOf(lg, a, u),
         NEW n \in 1 .. Len(s)
  PROVE  s[n] \in Nat /\ a < s[n] /\ s[n] <= u /\ SubSeq(s, 1, n) = IdsOf(lg, a, s[n])
  <1>1. /\ s \in Seq(Nat) /\ Len(s) \in Nat
        /\ \A i \in 1 .. Len(s) : s[i] \in Nat /\ a < s[i] /\ s[i] <= u
        /\ \A i, j \in 1 .. Len(s) : i < j => s[i] < s[j]
    BY IdsRise, Zenon
  <1>2. PICK x \in Nat : x = s[n] /\ a < x /\ x <= u
    BY <1>1
  <1>3. Lists(s, IdsIn(lg, a, u))
    BY IdsAreListed
  <1>4. PICK t : t = IdsOf(lg, a, x) /\ Lists(t, IdsIn(lg, a, x))
    BY IdsAreListed
  <1> DEFINE p == SubSeq(s, 1, n)
  <1>5. p \in Seq(Nat) /\ Len(p) = n /\ \A i \in 1 .. n : p[i] = s[i]
    BY <1>1
  <1> HIDE DEF p
  <1>6. \A i \in 1 .. n : i \in 1 .. Len(s) /\ s[i] <= x
    <2> SUFFICES ASSUME NEW i \in 1 .. n PROVE i \in 1 .. Len(s) /\ s[i] <= x
      OBVIOUS
    <2>1. i \in 1 .. Len(s) /\ (i = n \/ i < n)
      BY <1>1
    <2>. QED
      BY <2>1, <1>1, <1>2
  <1>7. \A i \in 1 .. n : p[i] \in IdsIn(lg, a, x)
    <2> SUFFICES ASSUME NEW i \in 1 .. n PROVE p[i] \in IdsIn(lg, a, x)
      OBVIOUS
    <2>1. s[i] \in IdsIn(lg, a, u) /\ s[i] <= x /\ p[i] = s[i]
      BY <1>3, <1>5, <1>6 DEF Lists
    <2>. QED
      BY <2>1 DEF IdsIn
  <1>8. \A y \in IdsIn(lg, a, x) : \E i \in 1 .. n : p[i] = y
    <2> SUFFICES ASSUME NEW y \in IdsIn(lg, a, x) PROVE \E i \in 1 .. n : p[i] = y
      OBVIOUS
    <2>1. y \in IdsIn(lg, a, u) /\ y <= x /\ y \in Nat
      BY <1>2 DEF IdsIn
    <2>2. PICK i \in 1 .. Len(s) : s[i] = y
      BY <2>1, <1>3 DEF Lists
    <2>3. ~(n < i)
      BY <2>1, <2>2, <1>1, <1>2
    <2>4. i \in 1 .. n
      BY <2>2, <2>3, <1>1
    <2>. QED
      BY <2>2, <2>4, <1>5
  <1>9. \A i, j \in 1 .. n : i < j => p[i] < p[j]
    BY <1>1, <1>5, <1>6, Zenon
  <1>10. Lists(p, IdsIn(lg, a, x))
    BY <1>5, <1>7, <1>8, <1>9 DEF Lists
  <1>11. IdsIn(lg, a, x) \subseteq Nat
    BY DEF IdsIn
  <1>12. p = t
    BY <1>4, <1>10, <1>11, ListsOnce
  <1>. QED
    BY <1>2, <1>4, <1>12 DEF p

------------------------------------------------------------------------------
\* The table and the row.

\* lh is lg with events appended.
Extends(lg, lh) ==
    /\ lg \in Seq(Events) /\ lh \in Seq(Events)
    /\ Len(lg) \in Nat /\ Len(lh) \in Nat /\ Len(lg) <= Len(lh)
    /\ \A i \in 1 .. Len(lg) : lh[i] = lg[i]

\* Whether the job runs at n is decided by the events up to n.
LEMMA RunsStays ==
  ASSUME NEW lg, NEW lh, NEW n \in Nat, \A i \in 1 .. n : lh[i] = lg[i], RunsAt(lg, n)
  PROVE  RunsAt(lh, n)
  <1>1. PICK i \in 1 .. n :
           /\ lg[i] = [job |-> Followed, type |-> "attempt_running"]
           /\ \A k \in i + 1 .. n : lg[k].job = Followed => lg[k].type = "yield_requested"
    BY DEF RunsAt
  <1>2. \A k \in i + 1 .. n : k \in 1 .. n
    BY <1>1
  <1>. QED
    BY <1>1, <1>2 DEF RunsAt

\* An event that moves the job and does not start it leaves it not running.
LEMMA RunsNot ==
  ASSUME NEW lg, NEW n \in Nat, n # 0, lg[n].job = Followed,
         lg[n].type # "attempt_running", lg[n].type # "yield_requested"
  PROVE  ~RunsAt(lg, n)
  <1> SUFFICES ASSUME RunsAt(lg, n) PROVE FALSE
    OBVIOUS
  <1>1. PICK i \in 1 .. n :
           /\ lg[i] = [job |-> Followed, type |-> "attempt_running"]
           /\ \A k \in i + 1 .. n : lg[k].job = Followed => lg[k].type = "yield_requested"
    BY DEF RunsAt
  <1>2. i # n
    BY <1>1
  <1>3. n \in i + 1 .. n
    BY <1>1, <1>2
  <1>. QED
    BY <1>1, <1>3

\* An event that is no start finds the job as it leaves it.
LEMMA RunsBefore ==
  ASSUME NEW lg, NEW n \in Nat, lg[n + 1] # [job |-> Followed, type |-> "attempt_running"],
         RunsAt(lg, n + 1)
  PROVE  RunsAt(lg, n)
  <1>1. PICK i \in 1 .. n + 1 :
           /\ lg[i] = [job |-> Followed, type |-> "attempt_running"]
           /\ \A k \in i + 1 .. n + 1 : lg[k].job = Followed => lg[k].type = "yield_requested"
    BY DEF RunsAt
  <1>2. i # n + 1
    BY <1>1
  <1>3. i \in 1 .. n /\ \A k \in i + 1 .. n : k \in i + 1 .. n + 1
    BY <1>1, <1>2
  <1>. QED
    BY <1>1, <1>3 DEF RunsAt

\* What the old events say of each other they say in the longer table too.
LEMMA OldContinues ==
  ASSUME NEW lg, NEW lh, Extends(lg, lh), NEW state, History(lg, state),
         NEW k \in 1 .. Len(lg), RunsAt(lh, k - 1), lh[k].job = Followed
  PROVE  Continues(lh, k)
  <1>0. Len(lg) \in Nat /\ Len(lh) \in Nat /\ Len(lg) <= Len(lh)
    BY DEF Extends
  <1>1. k - 1 \in Nat /\ \A i \in 1 .. k - 1 : lg[i] = lh[i]
    BY <1>0 DEF Extends
  <1>2. RunsAt(lg, k - 1)
    BY <1>1, RunsStays
  <1>3. lh[k] = lg[k]
    BY DEF Extends
  <1>4. Continues(lg, k)
    BY <1>2, <1>3 DEF History
  <1>5. k < Len(lg) => k < Len(lh) /\ lh[k + 1] = lg[k + 1]
    BY <1>0 DEF Extends
  <1>. QED
    BY <1>3, <1>4, <1>5 DEF Continues

\* The transactions: a start, a request, another single event, the end of an
\* attempt with what it means for the job.
Known(row, types) ==
    /\ row \in Rows
    /\ \/ /\ types = <<"attempt_running">> /\ ~Live
          /\ row.state = "running" /\ row.attempt = job.attempt + 1
       \/ /\ types = <<"yield_requested">>
          /\ row.state = job.state /\ row.attempt = job.attempt
       \/ /\ types \in {<<"attempt_orphaned">>, <<"job_ended">>, <<"job_released">>,
                        <<"job_retried">>}
          /\ job.state = "running" => types = <<"attempt_orphaned">>
          /\ row.state # "running" /\ row.attempt = job.attempt
          /\ row.state = "orphaned" => Live
       \/ /\ types \in {<<"attempt_ended", "retry_scheduled">>, <<"attempt_ended", "job_yielded">>,
                        <<"attempt_ended", "job_ended">>, <<"attempt_ended", "job_held">>}
          /\ job.state = "running" => types # <<"attempt_ended", "job_held">>
          /\ row.state \notin {"running", "orphaned"} /\ row.attempt = job.attempt

\* The transactions on the followed job.
Commits ==
    \/ StartAttempt \/ RequestYield \/ OrphanAttempt \/ ScheduleRetry \/ YieldTurn
    \/ EndJob \/ LoseYielding \/ CancelQueued \/ ReleaseJob \/ RetryJob

\* The row an attempt or a job ends with.
LEMMA EndedRow ==
  ASSUME job \in Rows, NEW state \in States, NEW delayed \in BOOLEAN
  PROVE  /\ Ended(state, delayed) \in Rows
         /\ Ended(state, delayed).state = state
         /\ Ended(state, delayed).attempt = job.attempt
  BY Zenon DEF Rows, Ended

\* Every transaction on the job is one of these.
LEMMA CommitsKnown ==
  ASSUME LogType, Commits
  PROVE  \E row \in Rows, types \in Seq(Types) : Known(row, types) /\ Commit(row, types)
  <1> DEFINE Goal == \E row \in Rows, types \in Seq(Types) : Known(row, types) /\ Commit(row, types)
  <1>0. job \in Rows /\ job.attempt \in Nat
    BY DEF LogType, Rows
  <1>a. /\ "queued" \in States /\ "held" \in States /\ "done" \in States
        /\ "running" \in States /\ "orphaned" \in States
    BY DEF States
  <1>b. ASSUME NEW row \in Rows, NEW types \in Seq(Types), Known(row, types), Commit(row, types)
        PROVE  Goal
    BY <1>b
  <1> HIDE DEF Goal
  <1>1. CASE StartAttempt
    <2> DEFINE row == [job EXCEPT !.state = "running", !.attempt = @ + 1]
               types == <<"attempt_running">>
    <2>1. row \in Rows /\ row.state = "running" /\ row.attempt = job.attempt + 1
      <3>1. job.attempt + 1 \in Nat
        BY <1>0
      <3>2. PICK n \in Nat : n = job.attempt + 1
        BY <3>1
      <3>3. row = [job EXCEPT !.state = "running", !.attempt = n]
        BY <3>2
      <3>. QED
        BY <1>0, <1>a, <3>2, <3>3, Zenon DEF Rows
    <2>2. types \in Seq(Types)
      BY DEF Types
    <2>3. Commit(row, types)
      BY <1>1 DEF StartAttempt
    <2>4. job.state = "queued"
      BY <1>1 DEF StartAttempt
    <2> HIDE DEF row
    <2>5. Known(row, types)
      BY <1>0, <2>1, <2>4 DEF Known, Live
    <2> HIDE DEF types
    <2>. QED
      BY <1>b, <2>1, <2>2, <2>3, <2>5
  <1>2. CASE RequestYield
    <2> DEFINE row == [job EXCEPT !.requested = TRUE]
               types == <<"yield_requested">>
    <2>1. row \in Rows /\ row.state = job.state /\ row.attempt = job.attempt
      BY <1>0, <1>a, Zenon DEF Rows
    <2>2. types \in Seq(Types)
      BY DEF Types
    <2>3. Commit(row, types)
      BY <1>2 DEF RequestYield
    <2>4. job.state = "running"
      BY <1>2 DEF RequestYield
    <2> HIDE DEF row
    <2>5. Known(row, types)
      BY <1>0, <2>1, <2>4 DEF Known, Live
    <2> HIDE DEF types
    <2>. QED
      BY <1>b, <2>1, <2>2, <2>3, <2>5
  <1>3. CASE OrphanAttempt
    <2> DEFINE row == [job EXCEPT !.state = "orphaned"]
               types == <<"attempt_orphaned">>
    <2>1. row \in Rows /\ row.state = "orphaned" /\ row.attempt = job.attempt
      BY <1>0, <1>a DEF Rows
    <2>2. types \in Seq(Types)
      BY DEF Types
    <2>3. Commit(row, types)
      BY <1>3 DEF OrphanAttempt
    <2>4. job.state = "running"
      BY <1>3 DEF OrphanAttempt
    <2> HIDE DEF row
    <2>5. Known(row, types)
      BY <1>0, <2>1, <2>4 DEF Known, Live
    <2> HIDE DEF types
    <2>. QED
      BY <1>b, <2>1, <2>2, <2>3, <2>5
  <1>4. CASE ScheduleRetry
    <2> DEFINE row == Ended("queued", TRUE)
               types == <<"attempt_ended", "retry_scheduled">>
    <2>1. row \in Rows /\ row.state = "queued" /\ row.attempt = job.attempt
      BY <1>0, <1>a, EndedRow, Zenon
    <2>2. types \in Seq(Types)
      BY DEF Types
    <2>3. Commit(row, types)
      BY <1>4, Zenon DEF ScheduleRetry
    <2>4. Live
      BY <1>4 DEF ScheduleRetry
    <2> HIDE DEF row
    <2>5. Known(row, types)
      BY <1>0, <2>1, <2>4 DEF Known, Live
    <2> HIDE DEF types
    <2>. QED
      BY <1>b, <2>1, <2>2, <2>3, <2>5
  <1>5. CASE YieldTurn
    <2>0. PICK state \in {"queued", "held"} :
             Commit(Ended(state, FALSE), <<"attempt_ended", "job_yielded">>)
      BY <1>5, Zenon DEF YieldTurn
    <2> DEFINE row == Ended(state, FALSE)
               types == <<"attempt_ended", "job_yielded">>
    <2>1. row \in Rows /\ row.state = state /\ row.attempt = job.attempt
      BY <1>0, <1>a, EndedRow, Zenon
    <2>2. types \in Seq(Types)
      BY DEF Types
    <2>3. Commit(row, types)
      BY <2>0, Zenon
    <2>4. Live
      BY <1>5 DEF YieldTurn
    <2> HIDE DEF row
    <2>5. Known(row, types)
      BY <1>0, <2>1, <2>4 DEF Known, Live
    <2> HIDE DEF types
    <2>. QED
      BY <1>b, <2>1, <2>2, <2>3, <2>5
  <1>6. CASE EndJob
    <2> DEFINE row == Ended("done", FALSE)
               types == <<"attempt_ended", "job_ended">>
    <2>1. row \in Rows /\ row.state = "done" /\ row.attempt = job.attempt
      BY <1>0, <1>a, EndedRow, Zenon
    <2>2. types \in Seq(Types)
      BY DEF Types
    <2>3. Commit(row, types)
      BY <1>6, Zenon DEF EndJob
    <2>4. Live
      BY <1>6 DEF EndJob
    <2> HIDE DEF row
    <2>5. Known(row, types)
      BY <1>0, <2>1, <2>4 DEF Known, Live
    <2> HIDE DEF types
    <2>. QED
      BY <1>b, <2>1, <2>2, <2>3, <2>5
  <1>7. CASE LoseYielding
    <2> DEFINE row == Ended("held", FALSE)
               types == <<"attempt_ended", "job_held">>
    <2>1. row \in Rows /\ row.state = "held" /\ row.attempt = job.attempt
      BY <1>0, <1>a, EndedRow, Zenon
    <2>2. types \in Seq(Types)
      BY DEF Types
    <2>3. Commit(row, types)
      BY <1>7, Zenon DEF LoseYielding
    <2>4. job.state = "orphaned"
      BY <1>7 DEF LoseYielding
    <2> HIDE DEF row
    <2>5. Known(row, types)
      BY <1>0, <2>1, <2>4 DEF Known, Live
    <2> HIDE DEF types
    <2>. QED
      BY <1>b, <2>1, <2>2, <2>3, <2>5
  <1>8. CASE CancelQueued
    <2> DEFINE row == Ended("done", FALSE)
               types == <<"job_ended">>
    <2>1. row \in Rows /\ row.state = "done" /\ row.attempt = job.attempt
      BY <1>0, <1>a, EndedRow, Zenon
    <2>2. types \in Seq(Types)
      BY DEF Types
    <2>3. Commit(row, types)
      BY <1>8, Zenon DEF CancelQueued
    <2>4. job.state \in {"queued", "held"}
      BY <1>8 DEF CancelQueued
    <2> HIDE DEF row
    <2>5. Known(row, types)
      BY <1>0, <2>1, <2>4 DEF Known, Live
    <2> HIDE DEF types
    <2>. QED
      BY <1>b, <2>1, <2>2, <2>3, <2>5
  <1>9. CASE ReleaseJob
    <2> DEFINE row == Ended("queued", FALSE)
               types == <<"job_released">>
    <2>1. row \in Rows /\ row.state = "queued" /\ row.attempt = job.attempt
      BY <1>0, <1>a, EndedRow, Zenon
    <2>2. types \in Seq(Types)
      BY DEF Types
    <2>3. Commit(row, types)
      BY <1>9, Zenon DEF ReleaseJob
    <2>4. job.state = "held"
      BY <1>9 DEF ReleaseJob
    <2> HIDE DEF row
    <2>5. Known(row, types)
      BY <1>0, <2>1, <2>4 DEF Known, Live
    <2> HIDE DEF types
    <2>. QED
      BY <1>b, <2>1, <2>2, <2>3, <2>5
  <1>10. CASE RetryJob
    <2> DEFINE row == Ended("queued", FALSE)
               types == <<"job_retried">>
    <2>1. row \in Rows /\ row.state = "queued" /\ row.attempt = job.attempt
      BY <1>0, <1>a, EndedRow, Zenon
    <2>2. types \in Seq(Types)
      BY DEF Types
    <2>3. Commit(row, types)
      BY <1>10, Zenon DEF RetryJob
    <2>4. job.state = "done"
      BY <1>10 DEF RetryJob
    <2> HIDE DEF row
    <2>5. Known(row, types)
      BY <1>0, <2>1, <2>4 DEF Known, Live
    <2> HIDE DEF types
    <2>. QED
      BY <1>b, <2>1, <2>2, <2>3, <2>5
  <1>. QED
    BY <1>1, <1>2, <1>3, <1>4, <1>5, <1>6, <1>7, <1>8, <1>9, <1>10 DEF Commits, Goal

\* A transaction appends its events and leaves the older ones.
LEMMA CommitAppends ==
  ASSUME LogType, NEW row, NEW types \in Seq(Types), Commit(row, types)
  PROVE  /\ Extends(log, log')
         /\ Len(log') = Len(log) + Len(types)
         /\ \A i \in 1 .. Len(types) :
               log'[Len(log) + i] = [job |-> Followed, type |-> types[i]]
  <1> DEFINE new == [i \in DOMAIN types |-> [job |-> Followed, type |-> types[i]]]
  <1>1. log \in Seq(Events) /\ Len(log) \in Nat /\ Len(types) \in Nat
    BY DEF LogType
  <1>2. /\ new \in Seq(Events) /\ Len(new) = Len(types)
        /\ \A i \in 1 .. Len(types) : new[i] = [job |-> Followed, type |-> types[i]]
    <2>1. DOMAIN types = 1 .. Len(types) /\ \A i \in 1 .. Len(types) : types[i] \in Types
      OBVIOUS
    <2>2. \A i \in 1 .. Len(types) : [job |-> Followed, type |-> types[i]] \in Events
      BY <2>1 DEF Events
    <2>. QED
      BY <2>1, <2>2, <1>1
  <1>3. log' = log \o new
    BY DEF Commit
  <1> HIDE DEF new
  <1>4. /\ log \o new \in Seq(Events) /\ Len(log \o new) = Len(log) + Len(types)
        /\ \A i \in 1 .. Len(log) : (log \o new)[i] = log[i]
        /\ \A i \in 1 .. Len(types) : (log \o new)[Len(log) + i] = new[i]
    BY <1>1, <1>2
  <1>. QED
    BY <1>1, <1>2, <1>3, <1>4 DEF Extends

\* So does a transaction about another job.
LEMMA OtherAppends ==
  ASSUME LogType, OtherChange
  PROVE  /\ Extends(log, log')
         /\ Len(log') = Len(log) + 1
         /\ log'[Len(log) + 1] = [job |-> Other, type |-> "changed"]
  <1>1. log \in Seq(Events) /\ Len(log) \in Nat
    BY DEF LogType
  <1>2. PICK e \in Events : e = [job |-> Other, type |-> "changed"]
    BY Zenon DEF Events, Types
  <1>3. log' = Append(log, e)
    BY <1>2 DEF OtherChange
  <1>. QED
    BY <1>1, <1>2, <1>3 DEF Extends

\* One event more.
LEMMA OneEvent ==
  ASSUME NEW lg, NEW lh, Extends(lg, lh), Len(lh) = Len(lg) + 1, NEW state, NEW next,
         History(lg, state),
         lh[Len(lh)].type # "attempt_ended",
         state = "running" /\ lh[Len(lh)].job = Followed =>
             lh[Len(lh)].type \in {"yield_requested", "attempt_orphaned"},
         RunsAt(lh, Len(lh)) => next = "running"
  PROVE  History(lh, next)
  <1>0. Len(lg) \in Nat /\ Len(lh) \in Nat
    BY DEF Extends
  <1>1. ASSUME NEW k \in 1 .. Len(lh), RunsAt(lh, k - 1), lh[k].job = Followed
        PROVE  Continues(lh, k)
    <2>1. CASE k \in 1 .. Len(lg)
      BY <1>1, <2>1, OldContinues
    <2>2. CASE k = Len(lg) + 1
      <3>1. k - 1 = Len(lg) /\ \A i \in 1 .. Len(lg) : lg[i] = lh[i]
        BY <1>0, <2>2 DEF Extends
      <3>2. RunsAt(lg, Len(lg))
        BY <1>0, <1>1, <3>1, RunsStays
      <3>3. state = "running"
        BY <3>2 DEF History
      <3>. QED
        BY <2>2, <3>3, <1>1 DEF Continues
    <2>. QED
      BY <2>1, <2>2, <1>0
  <1>. QED
    BY <1>1 DEF History

\* The two events of an attempt's end.
LEMMA TwoEvents ==
  ASSUME NEW lg, NEW lh, Extends(lg, lh), Len(lh) = Len(lg) + 2, NEW state, NEW next,
         History(lg, state),
         lh[Len(lg) + 1] = [job |-> Followed, type |-> "attempt_ended"],
         lh[Len(lg) + 2].job = Followed,
         lh[Len(lg) + 2].type \notin {"attempt_running", "yield_requested", "attempt_ended"},
         state = "running" =>
             lh[Len(lg) + 2].type \in {"retry_scheduled", "job_yielded", "job_ended"}
  PROVE  History(lh, next)
  <1>0. Len(lg) \in Nat /\ Len(lh) \in Nat
    BY DEF Extends
  <1>1. ASSUME NEW k \in 1 .. Len(lh), RunsAt(lh, k - 1), lh[k].job = Followed
        PROVE  Continues(lh, k)
    <2>1. CASE k \in 1 .. Len(lg)
      BY <1>1, <2>1, OldContinues
    <2>2. CASE k = Len(lg) + 1
      <3>1. k - 1 = Len(lg) /\ \A i \in 1 .. Len(lg) : lg[i] = lh[i]
        BY <1>0, <2>2 DEF Extends
      <3>2. RunsAt(lg, Len(lg))
        BY <1>0, <1>1, <3>1, RunsStays
      <3>3. state = "running"
        BY <3>2 DEF History
      <3>4. k + 1 = Len(lg) + 2 /\ k < Len(lh)
        BY <1>0, <2>2
      <3>5. lh[k].type = "attempt_ended"
        BY <2>2
      <3>. QED
        BY <3>3, <3>4, <3>5 DEF Continues
    <2>3. CASE k = Len(lg) + 2
      <3>1. k - 1 = Len(lg) + 1 /\ k - 1 \in Nat /\ k - 1 # 0
        BY <1>0, <2>3
      <3>2. ~RunsAt(lh, k - 1)
        BY <3>1, RunsNot
      <3>. QED
        BY <1>1, <3>2
    <2>. QED
      BY <2>1, <2>2, <2>3, <1>0
  <1>2. ~RunsAt(lh, Len(lh))
    <2>1. Len(lh) # 0 /\ lh[Len(lh)] = lh[Len(lg) + 2]
      BY <1>0
    <2>. QED
      BY <2>1, <1>0, RunsNot
  <1>3. lh[Len(lh)].type # "attempt_ended"
    OBVIOUS
  <1>. QED
    BY <1>1, <1>2, <1>3 DEF History

\* What a transaction does to the table and the row.
LEMMA CommitHistory ==
  ASSUME LogType, HistoryInv, NEW row \in Rows, NEW types \in Seq(Types),
         Known(row, types), Commit(row, types)
  PROVE  HistoryInv'
  <1>1. PICK lg, lh, state, next :
           lg = log /\ lh = log' /\ state = job.state /\ next = row.state
    OBVIOUS
  <1>2. /\ Extends(lg, lh) /\ Len(lg) \in Nat
        /\ Len(lh) = Len(lg) + Len(types)
        /\ \A i \in 1 .. Len(types) : lh[Len(lg) + i] = [job |-> Followed, type |-> types[i]]
    BY <1>1, CommitAppends DEF Extends
  <1>3. History(lg, state)
    BY <1>1 DEF HistoryInv
  <1>4. job' = row
    BY DEF Commit
  <1>5. ASSUME Len(types) = 1, types[1] # "attempt_ended",
               state = "running" => types[1] \in {"yield_requested", "attempt_orphaned"},
               types[1] \in {"attempt_running", "yield_requested"} =>
                   next = "running" \/ (next = state /\ types[1] # "attempt_running")
        PROVE  History(lh, next)
    <2>1. Len(lh) = Len(lg) + 1 /\ lh[Len(lh)] = [job |-> Followed, type |-> types[1]]
      BY <1>2, <1>5
    <2>2. ASSUME RunsAt(lh, Len(lh)) PROVE next = "running"
      <3>1. Len(lh) \in Nat /\ Len(lh) # 0
        BY <1>2, <2>1, SMTT(30)
      <3>2. types[1] \in {"attempt_running", "yield_requested"}
        BY <2>1, <2>2, <3>1, RunsNot
      <3>3. CASE next = state /\ types[1] # "attempt_running"
        <4>1. lh[Len(lg) + 1] # [job |-> Followed, type |-> "attempt_running"]
          BY <2>1, <3>3
        <4>2. RunsAt(lh, Len(lg))
          BY <1>2, <2>1, <2>2, <4>1, RunsBefore
        <4>3. \A i \in 1 .. Len(lg) : lg[i] = lh[i]
          BY <1>2 DEF Extends
        <4>4. RunsAt(lg, Len(lg))
          BY <1>2, <4>2, <4>3, RunsStays, Zenon
        <4>. QED
          BY <1>3, <3>3, <4>4 DEF History
      <3>. QED
        BY <1>5, <3>2, <3>3, Zenon
    <2>3. lh[Len(lh)].type = types[1] /\ lh[Len(lh)].job = Followed
      BY <2>1, SMTT(30)
    <2>. QED
      BY <1>2, <1>3, <1>5, <2>1, <2>2, <2>3, OneEvent, ZenonT(30)
  <1>6. ASSUME Len(types) = 2, types[1] = "attempt_ended",
               types[2] \notin {"attempt_running", "yield_requested", "attempt_ended"},
               state = "running" => types[2] \in {"retry_scheduled", "job_yielded", "job_ended"}
        PROVE  History(lh, next)
    <2>1. /\ Len(lh) = Len(lg) + 2
          /\ lh[Len(lg) + 1] = [job |-> Followed, type |-> "attempt_ended"]
          /\ lh[Len(lg) + 2] = [job |-> Followed, type |-> types[2]]
      BY <1>2, <1>6
    <2>2. lh[Len(lg) + 2].type = types[2] /\ lh[Len(lg) + 2].job = Followed
      BY <2>1
    <2>. QED
      BY <1>2, <1>3, <1>6, <2>1, <2>2, TwoEvents
  <1>7. History(lh, next)
    <2>1. CASE types = <<"attempt_running">> /\ ~Live /\ row.state = "running"
      BY <1>1, <1>5, <2>1 DEF Live
    <2>2. CASE types = <<"yield_requested">> /\ row.state = job.state
      BY <1>1, <1>5, <2>2
    <2>3. CASE /\ types \in {<<"attempt_orphaned">>, <<"job_ended">>, <<"job_released">>,
                             <<"job_retried">>}
               /\ job.state = "running" => types = <<"attempt_orphaned">>
      BY <1>1, <1>5, <2>3
    <2>4. CASE /\ types \in {<<"attempt_ended", "retry_scheduled">>,
                             <<"attempt_ended", "job_yielded">>,
                             <<"attempt_ended", "job_ended">>, <<"attempt_ended", "job_held">>}
               /\ job.state = "running" => types # <<"attempt_ended", "job_held">>
      <3>1. Len(types) = 2 /\ types[1] = "attempt_ended"
        BY <2>4
      <3>2. types[2] \notin {"attempt_running", "yield_requested", "attempt_ended"}
        BY <2>4
      <3>3. job.state = "running" => types[2] \in {"retry_scheduled", "job_yielded", "job_ended"}
        BY <2>4
      <3>. QED
        BY <1>1, <1>6, <3>1, <3>2, <3>3
    <2>. QED
      BY <2>1, <2>2, <2>3, <2>4 DEF Known
  <1>. QED
    BY <1>1, <1>4, <1>7 DEF HistoryInv

\* The coordinator's steps, the command's and the clock's.
Moves == LogNext \/ ToggleBlocked \/ WriteLog

\* Nothing is taken out of the table.
LEMMA MovesExtend ==
  ASSUME LogType, Moves
  PROVE  Extends(log, log')
  <1>1. CASE Commits
    <2>1. PICK row \in Rows, types \in Seq(Types) : Known(row, types) /\ Commit(row, types)
      BY <1>1, CommitsKnown
    <2>. QED
      BY <2>1, CommitAppends
  <1>2. CASE OtherChange
    BY <1>2, OtherAppends
  <1>3. CASE ~Commits /\ ~OtherChange
    <2>1. log' = log
      BY <1>3 DEF Moves, LogNext, Commits, DelayPasses, observe_yield_delivery,
         publish_revision, Restart, ToggleBlocked, WriteLog
    <2>2. log \in Seq(Events) /\ Len(log) \in Nat
      BY DEF LogType
    <2>. QED
      BY <2>1, <2>2 DEF Extends
  <1>. QED
    BY <1>1, <1>2, <1>3

\* Types, and the order of the publications.
LEMMA MovesType ==
  ASSUME LogType, Moves
  PROVE  LogType'
  <1>1. Extends(log, log')
    BY MovesExtend
  <1>2. log' \in Seq(Events) /\ Len(log') \in Nat /\ Len(log) \in Nat /\ Len(log) <= Len(log')
    BY <1>1 DEF Extends
  <1>3. job' \in Rows
    <2>1. CASE Commits
      <3>1. PICK row \in Rows, types \in Seq(Types) : Known(row, types) /\ Commit(row, types)
        BY <2>1, CommitsKnown
      <3>. QED
        BY <3>1 DEF Commit
    <2>2. CASE ~Commits
      BY <2>2, Zenon DEF LogType, Rows, Moves, LogNext, Commits, OtherChange, DelayPasses,
         observe_yield_delivery, publish_revision, Restart, ToggleBlocked, WriteLog
    <2>. QED
      BY <2>1, <2>2
  <1>4. written' \in Nat /\ blocked' \in BOOLEAN
    <2>1. CASE Commits
      <3>1. PICK row \in Rows, types \in Seq(Types) : Known(row, types) /\ Commit(row, types)
        BY <2>1, CommitsKnown
      <3>. QED
        BY <3>1 DEF Commit, LogType
    <2>2. CASE WriteLog
      BY <2>2 DEF LogType, WriteLog
    <2>3. CASE ToggleBlocked
      <3>1. written' = written /\ blocked' = ~blocked
        BY <2>3 DEF ToggleBlocked
      <3>. QED
        BY <3>1 DEF LogType
    <2>4. CASE ~Commits /\ ~WriteLog /\ ~ToggleBlocked
      <3>1. written' = written /\ (blocked' = blocked \/ blocked' = FALSE)
        BY <2>4 DEF Moves, LogNext, Commits, OtherChange, DelayPasses,
           observe_yield_delivery, publish_revision, Restart
      <3>. QED
        BY <3>1, Zenon DEF LogType
    <2>. QED
      BY <2>1, <2>2, <2>3, <2>4
  <1>5. published' \in [cursor : Nat, blocked : BOOLEAN] /\ published'.cursor <= Len(log')
    <2>1. CASE Commits
      <3>1. PICK row \in Rows, types \in Seq(Types) : Known(row, types) /\ Commit(row, types)
        BY <2>1, CommitsKnown
      <3>2. published' = published
        BY <3>1 DEF Commit
      <3>. QED
        BY <3>2, <1>2 DEF LogType
    <2>2. CASE publish_revision \/ Restart
      <3>0. PICK b \in BOOLEAN : published' = [cursor |-> Len(log'), blocked |-> b]
        BY <2>2, Zenon DEF publish_revision, Restart, LogType
      <3>1. published'.cursor = Len(log') /\ published' \in [cursor : Nat, blocked : BOOLEAN]
        BY <3>0, <1>2
      <3>. QED
        BY <3>1, <1>2
    <2>3. CASE ~Commits /\ ~publish_revision /\ ~Restart
      <3>1. published' = published
        BY <2>3 DEF Moves, LogNext, Commits, OtherChange, DelayPasses,
           observe_yield_delivery, ToggleBlocked, WriteLog
      <3>. QED
        BY <3>1, <1>2 DEF LogType
    <2>. QED
      BY <2>1, <2>2, <2>3
  <1>. QED
    BY <1>2, <1>3, <1>4, <1>5 DEF LogType

\* The transactions keep the grammar of the table.
LEMMA MovesHistory ==
  ASSUME LogType, HistoryInv, Moves
  PROVE  HistoryInv'
  <1>1. CASE Commits
    <2>1. PICK row \in Rows, types \in Seq(Types) : Known(row, types) /\ Commit(row, types)
      BY <1>1, CommitsKnown
    <2>. QED
      BY <2>1, CommitHistory
  <1>2. CASE OtherChange
    <2>1. PICK lg, lh, state : lg = log /\ lh = log' /\ state = job.state
      OBVIOUS
    <2>2. /\ Extends(lg, lh) /\ Len(lg) \in Nat /\ Len(lh) = Len(lg) + 1
          /\ lh[Len(lg) + 1] = [job |-> Other, type |-> "changed"]
      BY <1>2, <2>1, OtherAppends DEF Extends
    <2>3. History(lg, state)
      BY <2>1 DEF HistoryInv
    <2>4. ASSUME RunsAt(lh, Len(lh)) PROVE state = "running"
      <3>1. lh[Len(lg) + 1] # [job |-> Followed, type |-> "attempt_running"]
        BY <2>2
      <3>2. RunsAt(lh, Len(lg))
        BY <2>2, <2>4, <3>1, RunsBefore
      <3>3. \A i \in 1 .. Len(lg) : lg[i] = lh[i]
        BY <2>2 DEF Extends
      <3>4. RunsAt(lg, Len(lg))
        BY <2>2, <3>2, <3>3, RunsStays
      <3>. QED
        BY <2>3, <3>4 DEF History
    <2>5. lh[Len(lh)].type = "changed" /\ lh[Len(lh)].job # Followed
      BY <2>2 DEF Followed, Other
    <2>6. History(lh, state)
      BY <2>2, <2>3, <2>4, <2>5, OneEvent
    <2>7. job' = job
      BY <1>2 DEF OtherChange
    <2>. QED
      BY <2>1, <2>6, <2>7 DEF HistoryInv
  <1>3. CASE ~Commits /\ ~OtherChange
    <2>1. log' = log /\ job'.state = job.state
      BY <1>3 DEF LogType, Rows, Moves, LogNext, Commits, DelayPasses, observe_yield_delivery,
         publish_revision, Restart, ToggleBlocked, WriteLog
    <2>. QED
      BY <2>1 DEF HistoryInv
  <1>. QED
    BY <1>1, <1>2, <1>3

\* A first attempt that is over stays over, and its file does not grow.
LEMMA MovesFile ==
  ASSUME LogType, Moves
  PROVE  /\ FirstAttemptOver => FirstAttemptOver' /\ written' = written
         /\ written <= written'
  <1>0. written \in Nat /\ job \in Rows /\ job.attempt \in Nat
    BY DEF LogType, Rows
  <1>1. CASE Commits
    <2>1. PICK row \in Rows, types \in Seq(Types) : Known(row, types) /\ Commit(row, types)
      BY <1>1, CommitsKnown
    <2>2. job' = row /\ written' = written
      BY <2>1 DEF Commit
    <2>3. \/ row.attempt = job.attempt + 1 /\ ~Live
          \/ row.attempt = job.attempt /\ (row.state \in {"running", "orphaned"} => Live)
      BY <2>1 DEF Known, Live
    <2>. QED
      BY <1>0, <2>2, <2>3 DEF FirstAttemptOver, Live
  <1>2. CASE WriteLog
    BY <1>0, <1>2 DEF WriteLog, FirstAttemptOver
  <1>3. CASE ~Commits /\ ~WriteLog
    <2>1. written' = written /\ job'.state = job.state /\ job'.attempt = job.attempt
      BY <1>0, <1>3 DEF Rows, Moves, LogNext, Commits, OtherChange, DelayPasses,
         observe_yield_delivery, publish_revision, Restart, ToggleBlocked
    <2>. QED
      BY <1>0, <2>1 DEF FirstAttemptOver, Live
  <1>. QED
    BY <1>1, <1>2, <1>3

\* While the daemon serves, a step tells the streams, or leaves something to
\* publish, or changes nothing that an event or the mirror of blocked would show.
LEMMA MovesPublish ==
  ASSUME LogType, Moves
  PROVE  /\ ~up' => ~up
         /\ \/ ~up
            \/ pending' = TRUE
            \/ pending' = pending /\ Unpublished'
            \/ /\ pending' = pending /\ log' = log /\ (Unpublished => Unpublished')
               /\ Logged(StatusView)' = Logged(StatusView)
  <1>0. /\ Len(log) \in Nat /\ published.cursor \in Nat /\ published.cursor <= Len(log)
        /\ job \in Rows
    BY DEF LogType
  <1>1. ASSUME Len(log') \in Nat, Len(log) < Len(log'), published' = published
        PROVE  Unpublished'
    <2>1. published'.cursor # Len(log')
      BY <1>0, <1>1
    <2>. QED
      BY <2>1 DEF Unpublished
  <1>2. CASE Commits
    <2>1. PICK row \in Rows, types \in Seq(Types) : Known(row, types) /\ Commit(row, types)
      BY <1>2, CommitsKnown
    <2>2. Len(log') = Len(log) + Len(types)
      BY <2>1, CommitAppends
    <2>3. Len(types) = 1 \/ Len(types) = 2
      BY <2>1 DEF Known
    <2>4. published' = published /\ pending' = pending /\ up' = up
      BY <2>1 DEF Commit
    <2>5. Len(log') \in Nat /\ Len(log) < Len(log')
      <3>1. PICK m, n : m = Len(log) /\ n = Len(types)
        BY Zenon
      <3>2. Len(log') = m + n /\ m \in Nat /\ (n = 1 \/ n = 2)
        BY <1>0, <2>2, <2>3, <3>1
      <3>3. m + n \in Nat /\ m < m + n
        BY <3>2
      <3>. QED
        BY <3>1, <3>2, <3>3
    <2>6. Unpublished'
      BY <1>1, <2>4, <2>5
    <2>. QED
      BY <2>4, <2>6
  <1>3. CASE OtherChange
    <2>1. Len(log') = Len(log) + 1
      BY <1>3, OtherAppends
    <2>2. published' = published /\ pending' = pending /\ up' = up
      BY <1>3 DEF OtherChange
    <2>3. Len(log') \in Nat /\ Len(log) < Len(log')
      BY <1>0, <2>1
    <2>4. Unpublished'
      BY <1>1, <2>2, <2>3
    <2>. QED
      BY <2>2, <2>4
  <1>4. CASE ToggleBlocked
    <2>1. published' = published /\ pending' = pending /\ up' = up
      BY <1>4 DEF ToggleBlocked
    <2>2. published'.blocked # blocked'
      BY <1>4 DEF ToggleBlocked, LogType
    <2>3. Unpublished'
      BY <2>2 DEF Unpublished
    <2>. QED
      BY <2>1, <2>3
  <1>5. CASE publish_revision \/ Restart
    BY <1>5 DEF publish_revision, Restart
  <1>6. CASE DelayPasses \/ observe_yield_delivery \/ WriteLog
    <2>1. /\ log' = log /\ pending' = pending /\ up' = up /\ blocked' = blocked
          /\ published' = published
      BY <1>6 DEF DelayPasses, observe_yield_delivery, WriteLog
    <2>2. job'.state = job.state /\ job'.attempt = job.attempt /\ job'.requested = job.requested
      BY <1>0, <1>6, ZenonT(30) DEF DelayPasses, observe_yield_delivery, WriteLog, Rows
    <2>3. Logged(StatusView)' = Logged(StatusView)
      BY <2>1, <2>2 DEF Logged, StatusView
    <2>. QED
      BY <2>1, <2>3 DEF Unpublished
  <1>. QED
    BY <1>2, <1>3, <1>4, <1>5, <1>6, Zenon DEF Moves, LogNext, Commits

------------------------------------------------------------------------------
\* The followers that poll.

\* A stretch of ids.
LEMMA SpanFacts ==
  ASSUME NEW x \in Nat, NEW y \in Nat, x <= y
  PROVE  /\ Span(x, y) \in Seq(Nat) /\ Len(Span(x, y)) = y - x /\ y - x \in Nat
         /\ \A i \in 1 .. y - x : Span(x, y)[i] = x + i
  <1>1. y - x \in Nat /\ \A i \in 1 .. y - x : x + i \in Nat
    OBVIOUS
  <1>. QED
    BY <1>1 DEF Span

\* Consecutive stretches of ids make one.
LEMMA SpanJoin ==
  ASSUME NEW a \in Nat, NEW b \in Nat, NEW c \in Nat, a <= b, b <= c
  PROVE  Span(a, b) \o Span(b, c) = Span(a, c)
  <1>0. a <= c
    OBVIOUS
  <1>1. PICK s : /\ s = Span(a, b) /\ s \in Seq(Nat) /\ Len(s) = b - a /\ b - a \in Nat
                 /\ \A i \in 1 .. b - a : s[i] = a + i
    BY SpanFacts
  <1>2. PICK t : /\ t = Span(b, c) /\ t \in Seq(Nat) /\ Len(t) = c - b /\ c - b \in Nat
                 /\ \A i \in 1 .. c - b : t[i] = b + i
    BY SpanFacts
  <1>3. PICK u : /\ u = Span(a, c) /\ u \in Seq(Nat) /\ Len(u) = c - a /\ c - a \in Nat
                 /\ \A i \in 1 .. c - a : u[i] = a + i
    BY <1>0, SpanFacts
  <1>4. /\ s \o t \in Seq(Nat) /\ Len(s \o t) = (b - a) + (c - b)
        /\ \A i \in 1 .. (b - a) + (c - b) :
              (s \o t)[i] = IF i <= b - a THEN s[i] ELSE t[i - (b - a)]
    <2>1. s \in Seq(Nat) /\ t \in Seq(Nat)
      BY <1>1, <1>2
    <2>2. /\ s \o t \in Seq(Nat) /\ Len(s \o t) = Len(s) + Len(t)
          /\ \A i \in 1 .. Len(s) + Len(t) :
                (s \o t)[i] = IF i <= Len(s) THEN s[i] ELSE t[i - Len(s)]
      BY <2>1, ConcatProperties, Zenon
    <2>3. Len(s) = b - a /\ Len(t) = c - b
      BY <1>1, <1>2
    <2>. QED
      BY <2>2, <2>3, Zenon
  <1>5. (b - a) + (c - b) = c - a
    OBVIOUS
  <1>6. ASSUME NEW i \in 1 .. c - a PROVE (s \o t)[i] = u[i]
    <2>1. CASE i <= b - a
      <3>1. i \in 1 .. b - a
        BY <2>1, <1>1, <1>3
      <3>. QED
        BY <2>1, <3>1, <1>1, <1>3, <1>4, <1>5
    <2>2. CASE ~(i <= b - a)
      <3>1. i - (b - a) \in 1 .. c - b /\ b + (i - (b - a)) = a + i
        BY <2>2, <1>1, <1>2, <1>3
      <3>. QED
        BY <2>2, <3>1, <1>2, <1>3, <1>4, <1>5, Zenon
    <2>. QED
      BY <2>1, <2>2, Zenon
  <1>7. s \o t = u
    BY <1>3, <1>4, <1>5, <1>6, SeqEqual, Zenon
  <1>. QED
    BY <1>1, <1>2, <1>3, <1>7

\* The stretch from a cursor to itself is empty.
LEMMA SpanType ==
  ASSUME NEW a \in Nat, NEW b \in Nat, a <= b
  PROVE  Span(a, b) \in Seq(Nat) /\ Span(a, a) = <<>>
  BY DEF Span

\* A job that follow_tts_announcement names as running is, where the batch ends
\* with a transaction: a strike is never left to the next batch.
LEMMA StartedRuns ==
  ASSUME LogType, HistoryInv, NEW b \in Nat, NEW n \in Nat, b <= n, n <= Len(log),
         n # 0 => log[n].type # "attempt_ended",
         Followed \in Started(Span(b, n))
  PROVE  RunsAt(log, n)
  <1>0. log \in Seq(Events) /\ Len(log) \in Nat
    BY DEF LogType
  <1>1. PICK ids : ids = Span(b, n)
    OBVIOUS
  <1>2. DOMAIN ids = 1 .. n - b /\ \A i \in 1 .. n - b : ids[i] = b + i
    BY <1>1 DEF Span
  <1>3. PICK i \in DOMAIN ids :
           /\ log[ids[i]].job = Followed
           /\ log[ids[i]].type = "attempt_running"
           /\ \A m \in DOMAIN ids :
                 m > i /\ log[ids[m]].job = log[ids[i]].job => log[ids[m]].type \notin Ending
    BY <1>1 DEF Started
  <1>4. PICK p \in 1 .. n : p = b + i
    BY <1>2, <1>3
  <1>5. log[p] = [job |-> Followed, type |-> "attempt_running"]
    <2>1. log[p] \in Events /\ log[p].job = Followed /\ log[p].type = "attempt_running"
      BY <1>0, <1>2, <1>3, <1>4, SMTT(30)
    <2>. QED
      BY <2>1 DEF Events
  <1>6. ASSUME NEW k \in p + 1 .. n, log[k].job = Followed PROVE log[k].type \notin Ending
    <2>1. PICK m \in 1 .. n - b : m = k - b /\ m > i
      BY <1>2, <1>4
    <2>2. ids[m] = k
      BY <2>1, <1>2
    <2>. QED
      BY <2>1, <2>2, <1>2, <1>3, <1>6, Zenon
  <1> DEFINE Bad == {k \in p + 1 .. n : log[k].job = Followed /\ log[k].type # "yield_requested"}
  <1>7. Bad = {}
    <2> SUFFICES ASSUME Bad # {} PROVE FALSE
      OBVIOUS
    <2>1. PICK k \in Bad : \A m \in Bad : k <= m
      <3>1. Bad \subseteq Nat
        OBVIOUS
      <3> HIDE DEF Bad
      <3>. QED
        BY <3>1, LeastNumber, Zenon
    <2>2. k \in p + 1 .. n /\ log[k].job = Followed /\ log[k].type # "yield_requested"
      OBVIOUS
    <2>3. \A m \in p + 1 .. k - 1 : log[m].job = Followed => log[m].type = "yield_requested"
      <3> SUFFICES ASSUME NEW m \in p + 1 .. k - 1, log[m].job = Followed,
                          log[m].type # "yield_requested"
                   PROVE  FALSE
        OBVIOUS
      <3>1. m \in p + 1 .. n /\ ~(k <= m)
        BY <2>2
      <3>2. m \in Bad
        BY <3>1
      <3> HIDE DEF Bad
      <3>. QED
        BY <2>1, <3>1, <3>2
    <2> HIDE DEF Bad
    <2>4. p \in 1 .. k - 1 /\ k \in 1 .. Len(log)
      BY <2>2, <1>0
    <2>5. RunsAt(log, k - 1)
      BY <1>5, <2>3, <2>4, ZenonT(30) DEF RunsAt
    <2>6. Continues(log, k)
      BY <2>2, <2>4, <2>5 DEF HistoryInv, History
    <2>7. log[k].type # "attempt_orphaned"
      BY <1>6, <2>2 DEF Ending
    <2>8. /\ log[k].type = "attempt_ended" /\ log[k + 1].job = Followed
          /\ log[k + 1].type \in {"retry_scheduled", "job_yielded", "job_ended"}
      BY <2>2, <2>6, <2>7 DEF Continues
    <2>9. k # n
      BY <2>2, <2>8
    <2>10. k + 1 \in p + 1 .. n
      BY <2>2, <2>9
    <2>. QED
      BY <1>6, <2>8, <2>10 DEF Ending
  <1>8. \A k \in p + 1 .. n : log[k].job = Followed => log[k].type = "yield_requested"
    BY <1>7
  <1>. QED
    BY <1>4, <1>5, <1>8 DEF RunsAt

\* What the log follower holds survives every step that is not its own.
LEMMA TailStill ==
  ASSUME TailInv, tail' = tail, LogType,
         FirstAttemptOver => FirstAttemptOver' /\ written' = written,
         written <= written', written' \in Nat
  PROVE  TailInv'
  BY DEF TailInv, LogType

\* The log follower's own steps.
LEMMA TailMoves ==
  ASSUME TailInv, LogType, TailStep \/ TailFails
  PROVE  TailInv'
  <1>0. UNCHANGED <<log, job, written>>
    BY DEF TailStep, TailFails, TailOpen, TailCopy, TailAsk, TailMeasure, logVars
  <1>1. FirstAttemptOver' <=> FirstAttemptOver
    BY <1>0 DEF FirstAttemptOver, Live
  <1>2. written \in Nat
    BY DEF LogType
  <1>3. CASE TailOpen
    BY <1>0, <1>1, <1>3 DEF TailInv, TailOpen
  <1>7. CASE TailFails
    BY <1>0, <1>1, <1>7 DEF TailInv, TailFails
  <1>4. CASE TailCopy
    <2>1. PICK w \in Nat : w = written /\ w <= w
      BY <1>2
    <2>2. tail' = [tail EXCEPT !.pc = "ask", !.offset = w] /\ written' = w
      BY <1>0, <1>4, <2>1 DEF TailCopy
    <2>. QED
      BY <2>1, <2>2, Zenon DEF TailInv
  <1>5. CASE TailAsk
    BY <1>0, <1>1, <1>5 DEF TailInv, TailAsk
  <1>6. CASE TailMeasure
    <2>1. tail.offset \in Nat /\ tail.offset <= written /\ FirstAttemptOver
      BY <1>6 DEF TailInv, TailMeasure
    <2>2. CASE written > tail.offset
      <3>1. tail' = [tail EXCEPT !.pc = "copy"]
        BY <1>6, <2>2 DEF TailMeasure
      <3>. QED
        BY <1>0, <1>1, <3>1 DEF TailInv
    <2>3. CASE ~(written > tail.offset)
      <3>1. tail' = [tail EXCEPT !.pc = "over"] /\ tail.offset = written
        BY <1>2, <1>6, <2>1, <2>3 DEF TailMeasure
      <3>. QED
        BY <1>0, <1>1, <2>1, <3>1 DEF TailInv
    <2>. QED
      BY <2>2, <2>3
  <1>. QED
    BY <1>3, <1>4, <1>5, <1>6, <1>7 DEF TailStep

\* What the TTS follower holds survives every step that is not its own.
LEMMA TtsStill ==
  ASSUME TtsInv, tts' = tts, Extends(log, log')
  PROVE  TtsInv'
  <1>1. PICK lg, lh, m, n : lg = log /\ lh = log' /\ m = Len(log) /\ n = Len(log')
    BY Zenon
  <1>2. m \in Nat /\ n \in Nat /\ m <= n /\ \A i \in 1 .. m : lh[i] = lg[i]
    BY <1>1 DEF Extends
  <1>3. /\ tts.cursor \in Nat /\ tts.next \in Nat /\ tts.as_of \in Nat
        /\ tts.cursor <= m /\ tts.next <= m /\ tts.as_of <= m
    BY <1>1 DEF TtsInv
  <1>4. tts.cursor <= n /\ tts.next <= n /\ tts.as_of <= n
    BY <1>2, <1>3
  <1>5. tts.cursor # 0 => lh[tts.cursor] = lg[tts.cursor]
    BY <1>2, <1>3
  <1>6. ASSUME RunsAt(lg, tts.as_of) PROVE RunsAt(lh, tts.as_of)
    <2>1. \A i \in 1 .. tts.as_of : lh[i] = lg[i]
      BY <1>2, <1>3
    <2>. QED
      BY <1>3, <1>6, <2>1, RunsStays
  <1>. QED
    BY <1>1, <1>4, <1>5, <1>6 DEF TtsInv

\* The empty list of ids.
LEMMA NoIds == \E none \in Seq(Nat) : none = <<>>
  <1>1. <<>> \in Seq(Nat)
    OBVIOUS
  <1>. QED
    BY <1>1, Zenon

\* What the TTS follower keeps.
TtsTypes == [pc : {"start", "poll", "first", "second", "announce"}, start : Nat,
             cursor : Nat, next : Nat, all : Seq(Nat), batch : Seq(Nat), said : Seq(Nat),
             running : SUBSET {Followed, Other}, as_of : Nat]

\* The TTS follower starts at the head of the log, where a transaction ended.
LEMMA TtsStartKeeps ==
  ASSUME TtsInv, LogType, HistoryInv, TtsStart
  PROVE  TtsInv'
  <1>1. PICK n \in Nat : n = Len(log)
    BY DEF LogType
  <1>2. tts' = [tts EXCEPT !.pc = "poll", !.start = n, !.cursor = n, !.next = n, !.as_of = n]
        /\ log' = log
    BY <1>1 DEF TtsStart, logVars
  <1>3. tts \in TtsTypes /\ tts.said = <<>> /\ tts.batch = <<>>
    BY DEF TtsInv, TtsTypes, TtsStart
  <1>4. n # 0 => log[n].type # "attempt_ended"
    BY <1>1 DEF HistoryInv, History
  <1>5. Span(n, n) = <<>>
    BY SpanType
  <1>6. Followed \notin tts.running
    BY DEF TtsInv, TtsStart
  <1>7. tts' \in TtsTypes
    BY <1>2, <1>3, Zenon DEF TtsTypes
  <1>8. /\ tts'.pc = "poll" /\ tts'.start = n /\ tts'.cursor = n /\ tts'.next = n
        /\ tts'.as_of = n /\ tts'.said = <<>> /\ tts'.batch = <<>> /\ tts'.running = tts.running
    BY <1>2, <1>3 DEF TtsTypes
  <1>9. \E heard \in n .. n : <<>> = Span(n, heard) /\ <<>> = Span(heard, n)
    BY <1>5
  <1>. QED
    BY <1>1, <1>2, <1>4, <1>6, <1>7, <1>8, <1>9, SMTT(30) DEF TtsInv, TtsTypes

\* follow_tts_events asks for the events behind the cursor.
LEMMA TtsPollKeeps ==
  ASSUME TtsInv, LogType, TtsPoll
  PROVE  TtsInv'
  <1>1. tts \in TtsTypes
    BY DEF TtsInv, TtsTypes
  <1>2. tts' = [tts EXCEPT !.pc = "first", !.next = tts.cursor, !.all = <<>>] /\ log' = log
    BY DEF TtsPoll, logVars
  <1>3. tts' \in TtsTypes
    <2>0. PICK none \in Seq(Nat) : none = <<>>
      BY NoIds, Zenon
    <2>1. PICK c \in Nat : none = <<>> /\ c = tts.cursor
      BY <1>1, <2>0 DEF TtsTypes
    <2>2. tts' = [tts EXCEPT !.pc = "first", !.next = c, !.all = none]
      BY <1>2, <2>1
    <2>. QED
      BY <1>1, <2>2, Zenon DEF TtsTypes
  <1>4. /\ tts'.pc = "first" /\ tts'.start = tts.start /\ tts'.cursor = tts.cursor
        /\ tts'.next = tts.cursor /\ tts'.all = <<>> /\ tts'.as_of = tts.as_of
        /\ tts'.said = tts.said /\ tts'.batch = tts.batch /\ tts'.running = tts.running
    BY <1>1, <1>2 DEF TtsTypes
  <1>5. Span(tts.cursor, tts.cursor) = <<>> /\ tts.cursor \in Nat
    BY <1>1, SpanType DEF TtsTypes
  <1>. QED
    BY <1>2, <1>3, <1>4, <1>5, SMTT(30) DEF TtsInv, TtsTypes

\* A failed exchange drops the pages of its fetch.
LEMMA TtsFailsKeeps ==
  ASSUME TtsInv, LogType, TtsFails
  PROVE  TtsInv'
  <1>1. tts \in TtsTypes
    BY DEF TtsInv, TtsTypes
  <1>2. PICK pc \in {"announce", "poll"} : tts' = [tts EXCEPT !.all = <<>>, !.pc = pc]
    BY Zenon DEF TtsFails
  <1>2a. log' = log
    BY DEF TtsFails, logVars
  <1>3. tts' \in TtsTypes
    <2>1. PICK none \in Seq(Nat) : none = <<>>
      BY NoIds, Zenon
    <2>2. tts' = [tts EXCEPT !.all = none, !.pc = pc]
      BY <1>2, <2>1
    <2>. QED
      BY <1>1, <2>2, Zenon DEF TtsTypes
  <1>4. /\ tts'.pc = pc /\ tts'.start = tts.start /\ tts'.cursor = tts.cursor
        /\ tts'.next = tts.next /\ tts'.as_of = tts.as_of
        /\ tts'.said = tts.said /\ tts'.batch = tts.batch /\ tts'.running = tts.running
    BY <1>1, <1>2 DEF TtsTypes
  <1>. QED
    BY <1>2, <1>2a, <1>3, <1>4, Zenon DEF TtsInv, TtsTypes

\* A full page is kept aside; a short one reaches the head of the log, and only
\* then does the cursor move.
LEMMA TtsPageKeeps ==
  ASSUME TtsInv, LogType, HistoryInv, TtsPage
  PROVE  TtsInv'
  <1>0. PollPage \in Nat
    BY PollPageAssumption, Zenon
  <1>1. tts \in TtsTypes
    BY DEF TtsInv, TtsTypes
  <1>2. PICK n \in Nat : n = Len(log)
    BY DEF LogType
  <1>3. PICK next \in Nat, cursor \in Nat, start \in Nat, batch \in Seq(Nat), said \in Seq(Nat) :
           /\ next = tts.next /\ cursor = tts.cursor /\ start = tts.start
           /\ batch = tts.batch /\ said = tts.said
    BY <1>1 DEF TtsTypes
  <1>4. start <= cursor /\ cursor <= next /\ next <= n /\ tts.all = Span(cursor, next)
    BY <1>2, <1>3, ZenonT(30) DEF TtsInv, TtsPage
  <1>5. PICK heard \in start .. cursor : said = Span(start, heard) /\ batch = Span(heard, cursor)
    BY <1>3 DEF TtsInv
  <1>6. PICK upTo : upTo = IF n - next > PollPage THEN next + PollPage ELSE n
    OBVIOUS
  <1>7. upTo \in Nat /\ next <= upTo /\ upTo <= n /\ (upTo - next # PollPage => upTo = n)
    BY <1>0, <1>4, <1>6
  <1>8. PICK all : all = Span(cursor, upTo)
    OBVIOUS
  <1>9. tts.all \o Span(next, upTo) = all /\ all \in Seq(Nat)
    <2>1. cursor <= upTo
      BY <1>4, <1>7
    <2>2. Span(cursor, next) \o Span(next, upTo) = Span(cursor, upTo)
      BY <1>4, <1>7, SpanJoin, ZenonT(30)
    <2>3. Span(cursor, upTo) \in Seq(Nat)
      BY <1>7, <2>1, SpanFacts
    <2>. QED
      BY <1>4, <1>8, <2>2, <2>3
  <1>10. log' = log
    BY DEF TtsPage, logVars
  <1>11. CASE upTo - next = PollPage
    <2>1. tts' = [tts EXCEPT !.next = upTo, !.all = all]
      BY <1>2, <1>3, <1>6, <1>9, <1>11, Zenon DEF TtsPage, Span
    <2>2. tts' \in TtsTypes
      BY <2>1, <1>1, <1>7, <1>9, ZenonT(30) DEF TtsTypes
    <2>3. /\ tts'.pc = tts.pc /\ tts'.start = tts.start /\ tts'.cursor = tts.cursor
          /\ tts'.next = upTo /\ tts'.all = all /\ tts'.as_of = tts.as_of
          /\ tts'.said = tts.said /\ tts'.batch = tts.batch /\ tts'.running = tts.running
      BY <1>1, <2>1 DEF TtsTypes
    <2>4. cursor <= upTo
      BY <1>4, <1>7
    <2>. QED
      BY <1>2, <1>3, <1>7, <1>8, <1>10, <2>2, <2>3, <2>4 DEF TtsInv, TtsTypes
  <1>12. CASE upTo - next # PollPage
    <2>1. upTo = n
      BY <1>7, <1>12
    <2>2. PICK more : more = Span(heard, n)
      OBVIOUS
    <2>3. batch \o all = more /\ more \in Seq(Nat)
      <3>1. heard \in Nat /\ heard <= cursor /\ cursor <= n
        BY <1>4, <1>5
      <3>2. Span(heard, cursor) \o Span(cursor, n) = Span(heard, n)
        BY <3>1, SpanJoin, Zenon
      <3>3. heard <= n
        BY <3>1
      <3>4. Span(heard, n) \in Seq(Nat)
        BY <3>1, <3>3, SpanFacts
      <3>. QED
        BY <3>2, <3>4, <1>5, <1>8, <2>1, <2>2
    <2>4. PICK pc \in {"announce", "poll", "second"} :
             tts' = [tts EXCEPT !.next = n, !.all = <<>>, !.cursor = n, !.batch = more, !.pc = pc]
      <3> DEFINE pc == IF tts.pc = "second" THEN "announce"
                       ELSE IF more = <<>> THEN "poll" ELSE "second"
      <3>1. tts' = [tts EXCEPT !.next = n, !.all = <<>>, !.cursor = n, !.batch = more, !.pc = pc]
        BY <1>2, <1>3, <1>6, <1>9, <1>12, <2>1, <2>3, Zenon DEF TtsPage, Span
      <3>2. pc \in {"announce", "poll", "second"}
        OBVIOUS
      <3>. QED
        BY <3>1, <3>2, Zenon
    <2>5. tts' \in TtsTypes
      <3>1. PICK none \in Seq(Nat) : none = <<>>
        BY NoIds, Zenon
      <3>2. tts' = [tts EXCEPT !.next = n, !.all = none, !.cursor = n, !.batch = more, !.pc = pc]
        BY <2>4, <3>1
      <3>. QED
        BY <1>1, <2>3, <3>2, Zenon DEF TtsTypes
    <2>6. /\ tts'.pc = pc /\ tts'.start = start /\ tts'.cursor = n
          /\ tts'.next = n /\ tts'.all = <<>> /\ tts'.as_of = tts.as_of
          /\ tts'.said = said /\ tts'.batch = more /\ tts'.running = tts.running
      BY <1>1, <1>3, <2>4 DEF TtsTypes
    <2>7. Span(n, n) = <<>> /\ start <= n /\ heard \in start .. n
      <3>1. start <= n /\ heard \in start .. n
        BY <1>4, <1>5
      <3>2. Span(n, n) = <<>>
        BY SpanType
      <3>. QED
        BY <3>1, <3>2
    <2>8. n # 0 => log[n].type # "attempt_ended"
      BY <1>2 DEF HistoryInv, History
    <2>9. \E h \in start .. n : said = Span(start, h) /\ more = Span(h, n)
      BY <1>5, <2>2, <2>7
    <2>10. tts.as_of <= n /\ (Followed \in tts.running => RunsAt(log, tts.as_of))
      BY <1>2, Zenon DEF TtsInv
    <2>. QED
      BY <1>2, <1>10, <2>5, <2>6, <2>7, <2>8, <2>9, <2>10, SMTT(30) DEF TtsInv, TtsTypes
  <1>. QED
    BY <1>11, <1>12

\* The batch is spoken, and with it the jobs that run at the cursor.
LEMMA TtsAnnounceKeeps ==
  ASSUME TtsInv, LogType, HistoryInv, TtsAnnounce
  PROVE  TtsInv'
  <1>1. tts \in TtsTypes
    BY DEF TtsInv, TtsTypes
  <1>2. PICK cursor \in Nat, start \in Nat, batch \in Seq(Nat), said \in Seq(Nat) :
           cursor = tts.cursor /\ start = tts.start /\ batch = tts.batch /\ said = tts.said
    BY <1>1 DEF TtsTypes
  <1>3. PICK heard \in start .. cursor : said = Span(start, heard) /\ batch = Span(heard, cursor)
    BY <1>2 DEF TtsInv
  <1>4. PICK running, spoken : running = Started(batch) /\ spoken = Span(start, cursor)
    OBVIOUS
  <1>5. log' = log
    BY DEF TtsAnnounce, logVars
  <1>6. start <= cursor /\ cursor <= Len(log) /\ Len(log) \in Nat
    BY <1>2 DEF TtsInv, LogType
  <1>7. heard \in Nat /\ start <= heard /\ heard <= cursor
    BY <1>3
  <1>8. said \o batch = spoken /\ spoken \in Seq(Nat)
    BY <1>3, <1>4, <1>6, <1>7, SpanJoin, SpanFacts, Zenon
  <1>9. running \subseteq {Followed, Other}
    <2>1. \A i \in DOMAIN batch : batch[i] \in 1 .. Len(log)
      <3>1. \A i \in 1 .. cursor - heard : batch[i] = heard + i
        BY <1>3, <1>7, SpanFacts, Zenon
      <3>2. DOMAIN batch = 1 .. cursor - heard
        BY <1>3 DEF Span
      <3>. QED
        BY <3>1, <3>2, <1>6, <1>7
    <2>2. \A i \in 1 .. Len(log) : log[i].job \in {Followed, Other}
      <3>1. \A i \in 1 .. Len(log) : log[i] \in Events
        BY DEF LogType
      <3>. QED
        BY <3>1 DEF Events
    <2>. QED
      BY <1>4, <2>1, <2>2 DEF Started
  <1>10. ASSUME Followed \in running PROVE RunsAt(log, cursor)
    <2>1. cursor # 0 => log[cursor].type # "attempt_ended"
      BY <1>2 DEF TtsInv
    <2>. QED
      BY <1>3, <1>4, <1>6, <1>7, <1>10, <2>1, StartedRuns
  <1>11. tts' = [tts EXCEPT !.pc = "poll", !.batch = <<>>, !.said = spoken,
                            !.running = running, !.as_of = cursor]
    BY <1>2, <1>4, <1>8 DEF TtsAnnounce
  <1>12. tts' \in TtsTypes
    <2>1. PICK none \in Seq(Nat) : none = <<>>
      BY NoIds, Zenon
    <2>2. tts' = [tts EXCEPT !.pc = "poll", !.batch = none, !.said = spoken,
                             !.running = running, !.as_of = cursor]
      BY <1>11, <2>1
    <2>. QED
      BY <1>1, <1>8, <1>9, <2>2, Zenon DEF TtsTypes
  <1>13. /\ tts'.pc = "poll" /\ tts'.start = start /\ tts'.cursor = cursor
         /\ tts'.next = tts.next /\ tts'.as_of = cursor /\ tts'.said = spoken
         /\ tts'.batch = <<>> /\ tts'.running = running
    BY <1>1, <1>2, <1>11 DEF TtsTypes
  <1>14. \E h \in start .. cursor : spoken = Span(start, h) /\ <<>> = Span(h, cursor)
    <2>1. cursor \in start .. cursor /\ Span(cursor, cursor) = <<>>
      BY <1>6, SpanType, SMTT(30)
    <2>. QED
      BY <1>4, <2>1
  <1>15. tts.next <= Len(log) /\ (cursor # 0 => log[cursor].type # "attempt_ended")
    BY <1>2, Zenon DEF TtsInv
  <1>. QED
    BY <1>5, <1>6, <1>10, <1>12, <1>13, <1>14, <1>15, ZenonT(30) DEF TtsInv, TtsTypes

------------------------------------------------------------------------------
\* The stream.

\* A frame stays right when the table grows.
LEMMA FrameStays ==
  ASSUME NEW lg, NEW lh, Extends(lg, lh), NEW f \in Frames, NEW from, FrameOK(lg, f, from)
  PROVE  FrameOK(lh, f, from)
  <1>1. PICK m \in Nat, n \in Nat : m = Len(lg) /\ n = Len(lh) /\ m <= n
    BY DEF Extends
  <1>2. \A i \in 1 .. m : lh[i] = lg[i]
    BY <1>1 DEF Extends
  <1>3. PICK c \in Nat, at \in Nat : c = f.cursor /\ at = f.at
    BY Zenon DEF Frames
  <1>4. c <= at /\ at <= m
    BY <1>1, <1>3 DEF FrameOK
  <1>5. at <= n
    BY <1>1, <1>4
  <1>6. Same(lg, lh, at)
    BY <1>2, <1>4, <1>1 DEF Same
  <1>7. Same(lg, lh, c)
    BY <1>6, <1>4 DEF Same
  <1>8. IdsOf(lh, c, at) = IdsOf(lg, c, at)
    BY <1>6, IdsStay
  <1>9. ASSUME from # None PROVE IdsOf(lh, from, c) = IdsOf(lg, from, c)
    <2>1. from \in Nat
      BY <1>9 DEF FrameOK
    <2>. QED
      BY <1>7, <2>1, IdsStay, SMTT(30)
  <1>. QED
    BY <1>1, <1>3, <1>4, <1>5, <1>8, <1>9, Zenon DEF FrameOK

\* handle_read(SubscribeJob): the page starts at the task's cursor, goes as far
\* as its own, and announces more exactly when it leaves something behind.
LEMMA UpdateOK ==
  ASSUME LogType, NEW after, after = None \/ after \in 0 .. Len(log)
  PROVE  /\ JobUpdate(after) \in Frames
         /\ FrameOK(log, JobUpdate(after), after)
         /\ JobUpdate(after).at = Len(log)
  <1>1. PICK n \in Nat : n = Len(log)
    BY DEF LogType
  <1>2. PICK state \in States : state = job.state
    BY DEF LogType, Rows
  <1>3. None \notin Nat /\ PageSize \in Nat /\ PageSize # 0
    BY NoneAssumption, PageSizeAssumption, Zenon
  <1>4. CASE after = None
    <2>1. PICK none \in Seq(Nat) : none = <<>>
      BY NoIds, Zenon
    <2>2. Len(none) = 0 /\ SubSeq(none, 1, 0) = none
      BY <2>1
    <2>3. (0 > PageSize) = FALSE
      BY <1>3
    <2>4. JobUpdate(after) = [cursor |-> n, events |-> none, more |-> FALSE, state |-> state,
                              at |-> n]
      BY <1>1, <1>2, <1>4, <2>1, <2>2, <2>3, Zenon DEF JobUpdate
    <2>5. IdsOf(log, n, n) = <<>>
      BY IdsOfNothing
    <2>6. n <= n
      OBVIOUS
    <2>. QED
      BY <1>1, <1>4, <2>1, <2>4, <2>5, <2>6 DEF Frames, FrameOK
  <1>5. CASE after # None
    <2>1. after \in Nat /\ after <= n
      BY <1>1, <1>5
    <2>2. PICK rows : rows = IdsOf(log, after, n)
      OBVIOUS
    <2>3. /\ rows \in Seq(Nat) /\ Len(rows) \in Nat
          /\ \A i \in 1 .. Len(rows) : rows[i] \in Nat /\ after < rows[i] /\ rows[i] <= n
      BY <2>1, <2>2, IdsRise, Zenon
    <2>4. FollowedIds(after, n) = rows
      BY <2>2 DEF FollowedIds, IdsOf
    <2>5. CASE Len(rows) > PageSize
      <3>1. PICK page, last : page = SubSeq(rows, 1, PageSize) /\ last = rows[PageSize]
        BY Zenon
      <3>2. PageSize \in 1 .. Len(rows)
        BY <1>3, <2>3, <2>5
      <3>3. last \in Nat /\ after < last /\ last <= n /\ page = IdsOf(log, after, last)
        BY <2>1, <2>2, <3>1, <3>2, IdsPrefix
      <3>4. page \in Seq(Nat) /\ Len(page) = PageSize /\ page # <<>> /\ page[Len(page)] = last
        BY <1>3, <2>3, <3>1, <3>2, SMTT(30)
      <3>5. JobUpdate(after) = [cursor |-> last, events |-> page, more |-> TRUE, state |-> state,
                                at |-> n]
        BY <1>1, <1>2, <1>5, <2>4, <2>5, <3>1, <3>4, Zenon DEF JobUpdate
      <3>6. after <= last
        BY <2>1, <3>3
      <3>7. PICK f : f = JobUpdate(after)
        OBVIOUS
      <3>8. /\ f \in Frames /\ f.cursor = last /\ f.events = page /\ f.more = TRUE
            /\ f.at = n
        BY <3>3, <3>4, <3>5, <3>7 DEF Frames
      <3>9. FrameOK(log, f, after)
        <4>1. n <= n
          OBVIOUS
        <4>. QED
          BY <1>1, <1>5, <2>1, <3>3, <3>4, <3>6, <3>8, <4>1, Zenon DEF FrameOK
      <3>. QED
        BY <1>1, <3>7, <3>8, <3>9
    <2>6. CASE ~(Len(rows) > PageSize) /\ rows # <<>>
      <3>1. PICK last : last = rows[Len(rows)]
        OBVIOUS
      <3>2. Len(rows) \in 1 .. Len(rows) /\ SubSeq(rows, 1, Len(rows)) = rows
        BY <2>3, <2>6
      <3>2a. (Len(rows) > PageSize) = FALSE
        BY <2>6
      <3>3. last \in Nat /\ after < last /\ last <= n /\ rows = IdsOf(log, after, last)
        BY <2>1, <2>2, <3>1, <3>2, IdsPrefix, SMTT(30)
      <3>4. JobUpdate(after) = [cursor |-> last, events |-> rows, more |-> FALSE,
                                state |-> state, at |-> n]
        BY <1>1, <1>2, <1>5, <2>4, <2>6, <3>1, <3>2, <3>2a, Zenon DEF JobUpdate
      <3>5. after <= last
        BY <2>1, <3>3
      <3>6. IdsOf(log, last, n) = <<>>
        <4>0. IdsOf(log, after, last) \o IdsOf(log, last, n) = IdsOf(log, after, n)
          BY <2>1, <3>3, <3>5, IdsJoin, Zenon
        <4>1. rows \o IdsOf(log, last, n) = rows
          BY <2>2, <3>3, <4>0, Zenon
        <4>2. IdsOf(log, last, n) \in Seq(Nat)
          BY <3>3, IdsRise, ZenonT(30)
        <4>. QED
          BY <2>3, <4>1, <4>2, ConcatEqualIffEmpty
      <3>7. PICK f : f = JobUpdate(after)
        OBVIOUS
      <3>8. /\ f \in Frames /\ f.cursor = last /\ f.events = rows /\ f.more = FALSE
            /\ f.at = n
        BY <2>3, <3>3, <3>4, <3>7 DEF Frames
      <3>9. FrameOK(log, f, after)
        <4>1. n <= n
          OBVIOUS
        <4>. QED
          BY <1>1, <1>5, <2>1, <2>6, <3>3, <3>5, <3>6, <3>8, <4>1, Zenon DEF FrameOK
      <3>. QED
        BY <1>1, <3>7, <3>8, <3>9
    <2>7. CASE rows = <<>>
      <3>1. Len(rows) = 0 /\ SubSeq(rows, 1, 0) = rows /\ (0 > PageSize) = FALSE
        BY <1>3, <2>7, SMTT(30)
      <3>2. JobUpdate(after) = [cursor |-> after, events |-> rows, more |-> FALSE,
                                state |-> state, at |-> n]
        BY <1>1, <1>2, <1>5, <2>4, <2>7, <3>1, Zenon DEF JobUpdate
      <3>3. rows = IdsOf(log, after, after)
        BY <2>1, <2>7, IdsOfNothing
      <3>4. after <= after
        BY <2>1
      <3>5. PICK f : f = JobUpdate(after)
        OBVIOUS
      <3>6. /\ f \in Frames /\ f.cursor = after /\ f.events = rows /\ f.more = FALSE
            /\ f.at = n
        BY <2>1, <2>3, <3>2, <3>5 DEF Frames
      <3>7. IdsOf(log, after, n) = <<>> /\ n <= n
        BY <2>2, <2>7, SMTT(30)
      <3>8. FrameOK(log, f, after)
        BY <1>1, <1>5, <2>1, <2>7, <3>3, <3>4, <3>6, <3>7, Zenon DEF FrameOK
      <3>. QED
        BY <1>1, <3>5, <3>6, <3>8, Zenon
    <2>. QED
      BY <2>5, <2>6, <2>7
  <1>. QED
    BY <1>4, <1>5

\* A shortened page is a page, with more behind it.
LEMMA ShrunkOK ==
  ASSUME NEW lg, NEW u \in Frames, NEW from, FrameOK(lg, u, from), NEW f \in Shrunk(u)
  PROVE  f \in Frames /\ FrameOK(lg, f, from) /\ (f = u \/ f.more)
  <1>1. CASE f = u
    BY <1>1, Zenon
  <1>2. CASE f # u
    <2>1. PICK n \in {Len(u.events) \div 2, Len(u.events) \div 4} \ {0} :
             f = [u EXCEPT !.events = SubSeq(@, 1, n), !.cursor = u.events[n], !.more = TRUE]
      BY <1>2, Zenon DEF Shrunk
    <2>2. PICK s \in Seq(Nat), c \in Nat, at \in Nat : s = u.events /\ c = u.cursor /\ at = u.at
      BY DEF Frames
    <2>3. n \in 1 .. Len(s)
      <3>1. Len(s) \in Nat
        BY <2>2
      <3>2. \A l \in Nat : l \div 2 \in 0 .. l /\ l \div 4 \in 0 .. l
        OBVIOUS
      <3>3. PICK l \in Nat : l = Len(s)
        BY <3>1
      <3>4. n \in 0 .. l /\ n # 0
        BY <2>1, <2>2, <3>2, <3>3, Zenon
      <3>. QED
        BY <3>3, <3>4, SMTT(30)
    <2>4. s # <<>>
      BY <2>2, <2>3
    <2>5. from # None /\ from \in Nat /\ from <= c /\ s = IdsOf(lg, from, c) /\ c <= at
      BY <2>2, <2>4 DEF FrameOK
    <2>6. PICK p, x : p = SubSeq(s, 1, n) /\ x = s[n]
      BY Zenon
    <2>7. x \in Nat /\ from < x /\ x <= c /\ p = IdsOf(lg, from, x)
      BY <2>3, <2>5, <2>6, IdsPrefix
    <2>8. p \in Seq(Nat) /\ p # <<>>
      <3>1. SubSeq(s, 1, n) \in Seq(Nat) /\ Len(SubSeq(s, 1, n)) = n
        BY <2>3
      <3>2. n # 0
        BY <2>1
      <3>3. SubSeq(s, 1, n) # <<>>
        BY <3>1, <3>2, Zenon
      <3>. QED
        BY <2>6, <3>1, <3>3, Zenon
    <2>9. f = [u EXCEPT !.events = p, !.cursor = x, !.more = TRUE]
      <3>1. SubSeq(u.events, 1, n) = p /\ u.events[n] = x
        BY <2>2, <2>6, Zenon
      <3>. QED
        BY <2>1, <3>1, Zenon
    <2>10. /\ f \in Frames /\ f.events = p /\ f.cursor = x /\ f.more = TRUE /\ f.at = at
      BY <2>2, <2>7, <2>8, <2>9, Zenon DEF Frames
    <2>11. x <= at /\ from <= x /\ at <= Len(lg)
      <3>1. at <= Len(lg)
        BY <2>2 DEF FrameOK
      <3>2. x <= at /\ from <= x
        BY <2>5, <2>7, SMTT(30)
      <3>. QED
        BY <3>1, <3>2
    <2>. QED
      BY <2>5, <2>7, <2>8, <2>10, <2>11, Zenon DEF FrameOK
  <1>. QED
    BY <1>1, <1>2, Zenon

\* Where a chain of frames ends lies in the table.
LEMMA TipWithin ==
  ASSUME NEW lg, Len(lg) \in Nat, NEW w, NEW c, Chain(lg, w, c), c = None \/ c \in 0 .. Len(lg)
  PROVE  Tip(w, c) = None \/ Tip(w, c) \in 0 .. Len(lg)
  <1>1. CASE w = <<>>
    BY <1>1, Zenon DEF Tip
  <1>2. CASE w # <<>>
    <2>1. w \in Seq(Frames) /\ Len(w) \in 1 .. Len(w)
      BY <1>2 DEF Chain
    <2>2. PICK f \in Frames : f = w[Len(w)]
      BY <2>1, SMTT(30)
    <2>3. f.cursor <= f.at /\ f.at <= Len(lg) /\ f.cursor \in Nat /\ f.at \in Nat
      BY <2>1, <2>2, Zenon DEF Chain, FrameOK, Frames
    <2>4. f.cursor \in 0 .. Len(lg)
      BY <2>3, SMTT(30)
    <2>. QED
      BY <1>2, <2>2, <2>4, Zenon DEF Tip
  <1>. QED
    BY <1>1, <1>2, Zenon

\* A chain stays one when the table grows.
LEMMA ChainStays ==
  ASSUME NEW lg, NEW lh, Extends(lg, lh), NEW w, NEW c, Chain(lg, w, c)
  PROVE  Chain(lh, w, c)
  <1>1. w \in Seq(Frames)
    BY Zenon DEF Chain
  <1>2. ASSUME NEW i \in 1 .. Len(w)
        PROVE  FrameOK(lh, w[i], IF i = 1 THEN c ELSE w[i - 1].cursor)
    <2>1. PICK from : from = IF i = 1 THEN c ELSE w[i - 1].cursor
      OBVIOUS
    <2>2. PICK f \in Frames : f = w[i]
      BY <1>1, SMTT(30)
    <2>3. FrameOK(lg, f, from)
      BY <2>1, <2>2 DEF Chain
    <2>4. FrameOK(lh, f, from)
      BY <2>3, FrameStays
    <2>. QED
      BY <2>1, <2>2, <2>4
  <1>. QED
    BY <1>1, <1>2, Zenon DEF Chain

\* stream_updates writes a frame that starts where the last one ended.
LEMMA ChainAppend ==
  ASSUME NEW lg, NEW w, NEW c, Chain(lg, w, c), NEW f \in Frames, FrameOK(lg, f, Tip(w, c))
  PROVE  Chain(lg, Append(w, f), c) /\ Tip(Append(w, f), c) = f.cursor
  <1>1. w \in Seq(Frames) /\ Len(w) \in Nat
    BY DEF Chain
  <1>2. PICK v : v = Append(w, f)
    BY ZenonT(30)
  <1>3. PICK n \in Nat : n = Len(w)
    BY <1>1
  <1>4. /\ v \in Seq(Frames) /\ Len(v) = n + 1 /\ v[n + 1] = f /\ v # <<>>
        /\ \A i \in 1 .. n : v[i] = w[i]
    BY <1>1, <1>2, <1>3
  <1>5. ASSUME NEW i \in 1 .. n + 1
        PROVE  FrameOK(lg, v[i], IF i = 1 THEN c ELSE v[i - 1].cursor)
    <2>1. CASE i \in 1 .. n
      <3>1. FrameOK(lg, w[i], IF i = 1 THEN c ELSE w[i - 1].cursor)
        BY <1>3, <2>1, Zenon DEF Chain
      <3>2. v[i] = w[i] /\ (i # 1 => v[i - 1] = w[i - 1])
        BY <1>4, <2>1, SMTT(30)
      <3>. QED
        BY <3>1, <3>2, Zenon
    <2>2. CASE i = n + 1 /\ n = 0
      <3>0. Len(w) = 0
        BY <1>3, <2>2, Zenon
      <3>1. w = <<>> /\ i = 1
        BY <1>1, <2>2, <3>0, EmptySeq, SMTT(30)
      <3>2. Tip(w, c) = c /\ v[i] = f
        BY <1>4, <2>2, <3>1, Zenon DEF Tip
      <3>. QED
        BY <3>1, <3>2
    <2>3. CASE i = n + 1 /\ n # 0
      <3>1. w # <<>> /\ i # 1 /\ i - 1 = n /\ v[n] = w[n]
        BY <1>1, <1>3, <1>4, <2>3, SMTT(30)
      <3>2. Tip(w, c) = v[i - 1].cursor /\ v[i] = f
        BY <1>3, <1>4, <2>3, <3>1, Zenon DEF Tip
      <3>. QED
        BY <3>1, <3>2, Zenon
    <2>. QED
      BY <2>1, <2>2, <2>3
  <1>6. Chain(lg, v, c)
    BY <1>4, <1>5, Zenon DEF Chain
  <1>7. Tip(v, c) = f.cursor
    BY <1>4, Zenon DEF Tip
  <1>. QED
    BY <1>2, <1>6, <1>7

\* The client takes the first frame, which starts at its cursor.
LEMMA ChainTail ==
  ASSUME NEW lg, NEW w, NEW c, Chain(lg, w, c), w # <<>>
  PROVE  /\ Head(w) \in Frames /\ FrameOK(lg, Head(w), c)
         /\ Chain(lg, Tail(w), Head(w).cursor)
         /\ Tip(Tail(w), Head(w).cursor) = Tip(w, c)
  <1>1. w \in Seq(Frames)
    BY DEF Chain
  <1>2. PICK n \in Nat : n = Len(w) /\ n # 0
    BY <1>1
  <1>3. PICK v, f : v = Tail(w) /\ f = Head(w)
    BY Zenon
  <1>4. /\ v \in Seq(Frames) /\ Len(v) = n - 1 /\ n - 1 \in Nat
        /\ \A i \in 1 .. n - 1 : v[i] = w[i + 1]
        /\ f = w[1] /\ f \in Frames
    BY <1>1, <1>2, <1>3
  <1>5. FrameOK(lg, f, c)
    <2>1. 1 \in 1 .. Len(w)
      BY <1>2
    <2>. QED
      BY <1>4, <2>1 DEF Chain
  <1>6. ASSUME NEW i \in 1 .. n - 1
        PROVE  FrameOK(lg, v[i], IF i = 1 THEN f.cursor ELSE v[i - 1].cursor)
    <2>1. i + 1 \in 1 .. Len(w) /\ i + 1 # 1 /\ (i + 1) - 1 = i
      BY <1>2, SMTT(30)
    <2>2. FrameOK(lg, w[i + 1], w[i].cursor)
      BY <2>1, Zenon DEF Chain
    <2>3. v[i] = w[i + 1] /\ (i # 1 => v[i - 1] = w[i]) /\ (i = 1 => w[i] = f)
      BY <1>4, SMTT(30)
    <2>. QED
      BY <2>2, <2>3
  <1>7. Chain(lg, v, f.cursor)
    BY <1>4, <1>6 DEF Chain
  <1>8. Tip(v, f.cursor) = Tip(w, c)
    <2>1. CASE n = 1
      <3>1. v = <<>>
        BY <1>4, <2>1, SMTT(30)
      <3>. QED
        BY <1>2, <1>4, <2>1, <3>1, Zenon DEF Tip
    <2>2. CASE n # 1
      <3>1. v # <<>> /\ Len(v) = n - 1 /\ v[n - 1] = w[n]
        BY <1>2, <1>4, <2>2, SMTT(30)
      <3>. QED
        BY <1>2, <3>1, Zenon DEF Tip
    <2>. QED
      BY <2>1, <2>2, Zenon
  <1>. QED
    BY <1>3, <1>4, <1>5, <1>7, <1>8, Zenon

\* What the client holds is right whatever is appended later.
LEMMA ClientStays ==
  ASSUME NEW lg, NEW lh, Extends(lg, lh), NEW c, ClientOK(lg, c)
  PROVE  ClientOK(lh, c)
  <1>1. PICK m \in Nat, n \in Nat : m = Len(lg) /\ n = Len(lh) /\ m <= n
    BY Zenon DEF Extends
  <1>2. \A i \in 1 .. m : lh[i] = lg[i]
    BY <1>1, Zenon DEF Extends
  <1>5. ASSUME NEW a \in Nat, NEW u \in Nat, u <= m
        PROVE  IdsOf(lh, a, u) = IdsOf(lg, a, u)
    <2>1. Same(lg, lh, u)
      BY <1>2, <1>5, SMTT(30) DEF Same
    <2>. QED
      BY <2>1, IdsStay, SMTT(30)
  <1>3. CASE c.cursor = None
    BY <1>3, Zenon DEF ClientOK
  <1>4. CASE c.cursor # None
    <2>1. PICK k \in Nat, s \in Nat : k = c.cursor /\ s = c.start /\ k <= m /\ s <= k
      BY <1>1, <1>4 DEF ClientOK
    <2>3. IdsOf(lh, s, k) = IdsOf(lg, s, k)
      BY <1>5, <2>1
    <2>4. k \in 0 .. n /\ s \in 0 .. k
      BY <1>1, <2>1
    <2>5. ASSUME c.pc = "over"
          PROVE  c.at \in k .. n /\ IdsOf(lh, k, c.at) = <<>>
      <3>1. PICK at \in Nat : at = c.at /\ k <= at /\ at <= m /\ IdsOf(lg, k, at) = <<>>
        BY <1>1, <2>1, <2>5, SMTT(30) DEF ClientOK
      <3>2. IdsOf(lh, k, at) = IdsOf(lg, k, at)
        BY <1>5, <3>1
      <3>3. IdsOf(lh, k, at) = <<>>
        BY <3>1, <3>2
      <3>4. at \in k .. n
        BY <1>1, <3>1, SMTT(30)
      <3>. QED
        BY <3>1, <3>3, <3>4, Zenon
    <2>6. c.delivered = IdsOf(lg, s, k)
      BY <1>4, <2>1, Zenon DEF ClientOK
    <2>. QED
      BY <1>1, <1>4, <2>1, <2>3, <2>4, <2>5, <2>6, Zenon DEF ClientOK
  <1>. QED
    BY <1>3, <1>4, Zenon

\* JobSubscription::next refuses no frame that starts at the client's cursor.
LEMMA ValidFrame ==
  ASSUME LogType, ClientOK(log, cli), NEW f \in Frames, FrameOK(log, f, cli.cursor)
  PROVE  Valid(f)
  <1>0. None \notin Nat /\ f.cursor \in Nat /\ f.events \in Seq(Nat)
    BY NoneAssumption, Zenon DEF Frames
  <1>1. CASE cli.cursor = None
    <2>1. f.events = <<>> /\ ~f.more
      BY <1>1, Zenon DEF FrameOK
    <2>2. Len(<<0>> \o f.events) = 1
      BY <2>1
    <2>3. f.cursor >= 0
      BY <1>0
    <2>4. 2 .. 1 = {}
      BY SMTT(30)
    <2>. QED
      BY <1>1, <2>1, <2>2, <2>3, <2>4, Zenon DEF Valid
  <1>2. CASE cli.cursor # None
    <2>1. PICK from \in Nat : from = cli.cursor /\ from <= f.cursor
      BY <1>2, Zenon DEF FrameOK
    <2>2. PICK s \in Seq(Nat) : s = f.events /\ s = IdsOf(log, from, f.cursor)
      BY <1>0, <1>2, <2>1, Zenon DEF FrameOK
    <2>3. /\ Len(s) \in Nat
          /\ \A i \in 1 .. Len(s) : s[i] \in Nat /\ from < s[i] /\ s[i] <= f.cursor
          /\ \A i, j \in 1 .. Len(s) : i < j => s[i] < s[j]
      BY <1>0, <2>1, <2>2, IdsRise, Zenon
    <2>4. PICK ids, n : ids = <<from>> \o s /\ n = Len(s)
      BY ZenonT(30)
    <2>5. /\ Len(ids) = n + 1 /\ ids[1] = from
          /\ \A i \in 1 .. n : ids[i + 1] = s[i]
      BY <2>1, <2>2, <2>3, <2>4
    <2>6. ASSUME NEW i \in 2 .. n + 1 PROVE ids[i] > ids[i - 1] /\ ids[i] <= f.cursor
      <3>1. i - 1 \in 1 .. n /\ (i - 1) + 1 = i /\ n \in Nat
        BY <2>3, <2>4, SMTT(30)
      <3>2. ids[i] = s[i - 1] /\ s[i - 1] \in Nat /\ s[i - 1] <= f.cursor /\ from < s[i - 1]
        BY <2>3, <2>4, <2>5, <3>1, Zenon
      <3>3. CASE i = 2
        BY <2>5, <3>2, <3>3, SMTT(30)
      <3>4. CASE i # 2
        <4>1. i - 2 \in 1 .. n /\ (i - 2) + 1 = i - 1 /\ i - 2 < i - 1
          BY <3>1, <3>4, SMTT(30)
        <4>2. ids[i - 1] = s[i - 2] /\ s[i - 2] < s[i - 1] /\ s[i - 2] \in Nat
          BY <2>3, <2>4, <2>5, <3>1, <4>1, Zenon
        <4>. QED
          BY <3>2, <4>2
      <3>. QED
        BY <3>3, <3>4, Zenon
    <2>7. f.more => f.events # <<>>
      BY <1>2 DEF FrameOK
    <2>8. f.cursor >= from
      BY <1>0, <2>1, Zenon
    <2>. QED
      BY <1>2, <2>1, <2>2, <2>4, <2>5, <2>6, <2>7, <2>8, Zenon DEF Valid
  <1>. QED
    BY <1>1, <1>2

\* What the coordinator, the command and the clock do leaves a job stream right.
LEMMA JobStreamStill ==
  ASSUME JobStream, Extends(log, log'), UNCHANGED <<task, wire, cli>>
  PROVE  JobStream'
  <1>1. PICK lg, lh, w, c, t : lg = log /\ lh = log' /\ w = wire /\ c = cli /\ t = task
    OBVIOUS
  <1>2. /\ ClientOK(lg, c) /\ Chain(lg, w, c.cursor) /\ TaskOK(lg, t, Tip(w, c.cursor))
        /\ Extends(lg, lh)
    BY <1>1, Zenon DEF JobStream
  <1>3. ClientOK(lh, c) /\ Chain(lh, w, c.cursor)
    BY <1>2, ClientStays, ChainStays, Zenon
  <1>4. ASSUME t.pc = "reply" PROVE t.response \in Frames /\ FrameOK(lh, t.response, t.after)
    <2>1. t.response \in Frames /\ FrameOK(lg, t.response, t.after)
      BY <1>2, <1>4, Zenon DEF TaskOK
    <2>. QED
      BY <1>2, <2>1, FrameStays, Zenon
  <1>5. TaskOK(lh, t, Tip(w, c.cursor))
    BY <1>2, <1>4 DEF TaskOK
  <1>. QED
    BY <1>1, <1>3, <1>5 DEF JobStream

\* The task's cursor lies in the table.
LEMMA AfterWithin ==
  ASSUME LogType, JobStream, task.pc # "closed"
  PROVE  task.after = None \/ task.after \in 0 .. Len(log)
  <1>1. cli.cursor = None \/ cli.cursor \in 0 .. Len(log)
    BY DEF JobStream, ClientOK
  <1>2. Chain(log, wire, cli.cursor) /\ Len(log) \in Nat
    BY DEF JobStream, LogType
  <1>3. Tip(wire, cli.cursor) = None \/ Tip(wire, cli.cursor) \in 0 .. Len(log)
    BY <1>1, <1>2, TipWithin, Zenon
  <1>4. task.after = Tip(wire, cli.cursor)
    BY DEF JobStream, TaskOK
  <1>. QED
    BY <1>3, <1>4, Zenon

\* The coordinator's answer.
LEMMA ServeKeeps ==
  ASSUME LogType, StreamInv, Serve
  PROVE  StreamInv'
  <1>0. UNCHANGED <<log, job, written, blocked, published, pending, up, reader, wire, cli>>
    BY DEF Serve, logVars
  <1>1. PICK r : r = IF reader = "job" THEN JobUpdate(task.after) ELSE StatusView
    OBVIOUS
  <1>2. task' = [task EXCEPT !.pc = "reply", !.response = r] /\ task.pc = "asked" /\ Serving
    BY <1>1 DEF Serve
  <1>3. StreamShape /\ DOMAIN task = {"pc", "after", "sent", "first", "response"}
    BY DEF StreamInv, StreamShape
  <1>4. /\ DOMAIN task' = {"pc", "after", "sent", "first", "response"}
        /\ task'.pc = "reply" /\ task'.response = r /\ task'.after = task.after
        /\ task'.first = task.first
    BY <1>2, <1>3
  <1>5. StreamShape'
    BY <1>0, <1>2, <1>3, <1>4, Zenon DEF StreamShape, Serving
  <1>6. ASSUME reader = "job"
        PROVE  /\ r \in Frames /\ FrameOK(log, r, task.after)
               /\ r.at = Len(log)
    <2>1. task.after = None \/ task.after \in 0 .. Len(log)
      BY <1>2, <1>6, AfterWithin, Zenon DEF StreamInv
    <2>. QED
      BY <1>1, <1>6, <2>1, UpdateOK, Zenon
  <1>7. ASSUME reader = "job" PROVE JobStream'
    <2>1. /\ ClientOK(log, cli) /\ Chain(log, wire, cli.cursor)
          /\ TaskOK(log, task, Tip(wire, cli.cursor))
      BY <1>7 DEF StreamInv, JobStream
    <2>2. TaskOK(log, task', Tip(wire, cli.cursor))
      BY <1>2, <1>4, <1>6, <1>7, <2>1, Zenon DEF TaskOK
    <2>. QED
      BY <1>0, <2>1, <2>2, Zenon DEF JobStream
  <1>8. QuietInv'
    <2>1. CASE reader = "job"
      BY <1>0, <1>4, <1>6, <2>1, Zenon DEF QuietInv
    <2>2. CASE reader # "job"
      <3>1. r = StatusView
        BY <1>1, <2>2, Zenon
      <3>2. StatusView' = StatusView
        BY <1>0 DEF StatusView, Eligibility
      <3>3. Logged(task'.response) = Logged(StatusView')
        BY <1>4, <3>1, <3>2
      <3>. QED
        BY <1>0, <1>4, <2>2, <3>3, Zenon DEF QuietInv, Logged
    <2>. QED
      BY <2>1, <2>2, Zenon
  <1>. QED
    BY <1>0, <1>5, <1>7, <1>8 DEF StreamInv

\* The frame is written, or is not worth writing, and the task goes on from it.
LEMMA WriteKeeps ==
  ASSUME LogType, StreamInv, Write
  PROVE  StreamInv'
  <1>0. UNCHANGED <<log, job, written, blocked, published, pending, up, reader, cli>>
    BY DEF Write, logVars
  <1>0a. task.pc = "reply"
    BY DEF Write
  <1>1. PICK f \in IF reader = "job" THEN Shrunk(task.response) ELSE {task.response} :
           /\ wire' = IF ToSend(f) THEN Append(wire, f) ELSE wire
           /\ task' = After(f)
    BY DEF Write
  <1>3. StreamShape /\ DOMAIN task = {"pc", "after", "sent", "first", "response"}
    BY DEF StreamInv, StreamShape
  <1>4. CASE reader = "job"
    <2>1. /\ ClientOK(log, cli) /\ Chain(log, wire, cli.cursor)
          /\ TaskOK(log, task, Tip(wire, cli.cursor))
      BY <1>4 DEF StreamInv, JobStream
    <2>2. task.response \in Frames /\ FrameOK(log, task.response, task.after)
      BY <1>0a, <2>1 DEF TaskOK
    <2>3. f \in Shrunk(task.response)
      BY <1>1, <1>4, Zenon
    <2>4. f \in Frames /\ FrameOK(log, f, task.after) /\ (f = task.response \/ f.more)
      BY <2>2, <2>3, ShrunkOK
    <2>5. PICK pc : pc = IF f.more THEN "query" ELSE "wait"
      OBVIOUS
    <2>6. task' = [task EXCEPT !.pc = pc, !.first = FALSE, !.response = None, !.after = f.cursor,
                               !.sent = task.sent]
      BY <1>1, <1>4, <2>5 DEF After
    <2>7. /\ DOMAIN task' = {"pc", "after", "sent", "first", "response"}
          /\ task'.pc = pc /\ task'.after = f.cursor
      BY <1>3, <2>6, Zenon
    <2>8. f.cursor # None
      BY <2>4, NoneAssumption DEF Frames
    <2>9. task.after = Tip(wire, cli.cursor) /\ (task.after = None => task.first)
      BY <1>0a, <2>1 DEF TaskOK
    <2>10. Chain(log, wire', cli.cursor) /\ Tip(wire', cli.cursor) = f.cursor
      <3>1. CASE ToSend(f)
        BY <1>1, <2>1, <2>4, <2>9, <3>1, ChainAppend, SMTT(30)
      <3>2. CASE ~ToSend(f)
        <4>1. wire' = wire /\ ~task.first /\ f.events = <<>>
          BY <1>1, <1>4, <3>2 DEF ToSend
        <4>2. task.after # None
          BY <2>9, <4>1, Zenon
        <4>3. f.cursor = task.after
          BY <2>4, <4>1, <4>2 DEF FrameOK
        <4>. QED
          BY <2>1, <2>9, <4>1, <4>3, Zenon
      <3>. QED
        BY <3>1, <3>2, Zenon
    <2>11. pc \in {"query", "wait"}
      BY <2>5, Zenon
    <2>12. TaskOK(log, task', Tip(wire', cli.cursor))
      BY <2>7, <2>8, <2>10, <2>11, Zenon DEF TaskOK
    <2>13. JobStream'
      BY <1>0, <2>1, <2>10, <2>12, Zenon DEF JobStream
    <2>14. StreamShape'
      BY <1>0, <1>0a, <1>3, <2>7 DEF StreamShape
    <2>15. ASSUME pc = "wait", ~pending
           PROVE  Unpublished \/ IdsOf(log, f.cursor, Len(log)) = <<>>
      <3>1. ~f.more
        BY <2>5, <2>15
      <3>2. f = task.response
        BY <2>4, <3>1, Zenon
      <3>3. Unpublished \/ f.at = Len(log)
        BY <1>0a, <1>4, <2>15, <3>2, Zenon DEF StreamInv, QuietInv
      <3>4. IdsOf(log, f.cursor, f.at) = <<>>
        BY <2>4, <3>1, Zenon DEF FrameOK
      <3>. QED
        BY <3>3, <3>4
    <2>16. Unpublished' = Unpublished
      BY <1>0, Zenon DEF Unpublished
    <2>17. QuietInv'
      BY <1>0, <1>4, <2>7, <2>11, <2>15, <2>16, Zenon DEF QuietInv
    <2>. QED
      BY <1>0, <2>13, <2>14, <2>17, Zenon DEF StreamInv
  <1>5. CASE reader # "job"
    <2>1. f = task.response
      BY <1>1, <1>5
    <2>2. task' = [task EXCEPT !.pc = "wait", !.first = FALSE, !.response = None,
                               !.after = task.after, !.sent = f]
      BY <1>1, <1>5 DEF After
    <2>3. /\ DOMAIN task' = {"pc", "after", "sent", "first", "response"}
          /\ task'.pc = "wait" /\ task'.sent = f
      BY <1>3, <2>2, Zenon
    <2>4. StreamShape'
      BY <1>0, <1>0a, <1>3, <2>3, Zenon DEF StreamShape
    <2>5. Unpublished' = Unpublished /\ StatusView' = StatusView
      BY <1>0, Zenon DEF Unpublished, StatusView, Eligibility
    <2>6. ~pending => Unpublished \/ Logged(f) = Logged(StatusView)
      BY <1>0a, <1>5, <2>1, Zenon DEF StreamInv, QuietInv
    <2>7. Logged(StatusView)' = Logged(StatusView)
      BY <2>5, Zenon DEF Logged
    <2>8. Logged(task.sent)' = Logged(f)
      BY <2>3, Zenon DEF Logged
    <2>9. QuietInv'
      BY <1>0, <1>5, <2>3, <2>5, <2>6, <2>7, <2>8, Zenon DEF QuietInv
    <2>. QED
      BY <1>0, <1>5, <2>4, <2>9 DEF StreamInv
  <1>. QED
    BY <1>4, <1>5

\* The client hands on the events of a frame and moves to its cursor.
LEMMA ReadKeeps ==
  ASSUME LogType, StreamInv, ReadUpdate
  PROVE  StreamInv'
  <1>0. /\ UNCHANGED <<log, job, written, blocked, published, pending, up, reader, task>>
        /\ reader = "job" /\ cli.pc = "reading" /\ wire # <<>> /\ wire' = Tail(wire)
    BY DEF ReadUpdate, logVars
  <1>1. StreamShape /\ JobStream /\ QuietInv
    BY <1>0 DEF StreamInv
  <1>2. PICK w, c, f : w = wire /\ c = cli /\ f = Head(w)
    BY Zenon
  <1>3. /\ f \in Frames /\ FrameOK(log, f, c.cursor)
        /\ Chain(log, Tail(w), f.cursor)
        /\ Tip(Tail(w), f.cursor) = Tip(w, c.cursor)
    <2>1. Chain(log, w, c.cursor) /\ w # <<>>
      BY <1>0, <1>1, <1>2 DEF JobStream
    <2>. QED
      BY <1>2, <2>1, ChainTail, ZenonT(30)
  <1>4. ClientOK(log, c)
    BY <1>1, <1>2, Zenon DEF JobStream
  <1>5. Valid(f)
    BY <1>2, <1>3, <1>4, ValidFrame, Zenon
  <1>6. PICK pc, start, delivered :
           /\ pc = IF Over(f) THEN "over" ELSE c.pc
           /\ start = IF c.start = None THEN f.cursor ELSE c.start
           /\ delivered = c.delivered \o f.events
    BY Zenon
  <1>7. cli' = [c EXCEPT !.pc = pc, !.start = start, !.cursor = f.cursor,
                         !.delivered = delivered, !.at = f.at]
    BY <1>2, <1>5, <1>6 DEF ReadUpdate
  <1>8. DOMAIN c = {"pc", "start", "cursor", "delivered", "at"}
    BY <1>1, <1>2 DEF StreamShape
  <1>9. PICK d : d = cli'
    OBVIOUS
  <1>10. /\ DOMAIN d = {"pc", "start", "cursor", "delivered", "at"}
         /\ d.pc = pc /\ d.start = start /\ d.cursor = f.cursor
         /\ d.delivered = delivered /\ d.at = f.at
    BY <1>7, <1>8, <1>9
  <1>11. pc \in {"reading", "over"} /\ (pc = "over" => ~f.more)
    BY <1>0, <1>2, <1>6 DEF Over
  <1>12. PICK cursor \in Nat, at \in Nat, n \in Nat :
            /\ cursor = f.cursor /\ at = f.at /\ n = Len(log) /\ cursor <= at /\ at <= n
    BY <1>3 DEF Frames, FrameOK, LogType
  <1>13. cursor # None /\ None \notin Nat
    BY NoneAssumption
  <1>14. start \in 0 .. cursor /\ delivered = IdsOf(log, start, cursor)
    <2>1. CASE c.cursor = None
      <3>1. c.start = None /\ c.delivered = <<>> /\ f.events = <<>>
        BY <1>3, <1>4, <2>1, ZenonT(30) DEF ClientOK, FrameOK
      <3>2. start = cursor /\ delivered = <<>>
        BY <1>6, <1>12, <3>1
      <3>3. cursor \in 0 .. cursor
        OBVIOUS
      <3>. QED
        BY <3>2, <3>3, IdsOfNothing, Zenon
    <2>2. CASE c.cursor # None
      <3>1. PICK s \in Nat, k \in Nat : s = c.start /\ k = c.cursor /\ s <= k
        BY <1>4, <2>2 DEF ClientOK
      <3>2. start = s
        BY <1>6, <1>13, <3>1, Zenon
      <3>3. c.delivered = IdsOf(log, s, k) /\ f.events = IdsOf(log, k, cursor) /\ k <= cursor
        BY <1>3, <1>4, <1>12, <2>2, <3>1, Zenon DEF ClientOK, FrameOK
      <3>3a. s <= k /\ k <= cursor
        BY <3>1, <3>3
      <3>4. IdsOf(log, s, k) \o IdsOf(log, k, cursor) = IdsOf(log, s, cursor)
        BY <3>3a, IdsJoin, ZenonT(30)
      <3>5. s \in 0 .. cursor
        BY <3>1, <3>3
      <3>. QED
        BY <1>6, <3>2, <3>3, <3>4, <3>5, Zenon
    <2>. QED
      BY <2>1, <2>2
  <1>15. cursor \in 0 .. n /\ at \in cursor .. n
    BY <1>12
  <1>16. ~f.more => IdsOf(log, cursor, at) = <<>>
    BY <1>3, <1>12 DEF FrameOK
  <1>17. ClientOK(log, d)
    BY <1>10, <1>11, <1>12, <1>13, <1>14, <1>15, <1>16, Zenon DEF ClientOK
  <1>18. TaskOK(log, task, Tip(w, c.cursor))
    BY <1>1, <1>2, Zenon DEF JobStream
  <1>19. JobStream'
    BY <1>0, <1>2, <1>3, <1>9, <1>10, <1>17, <1>18, Zenon DEF JobStream
  <1>20. StreamShape'
    BY <1>0, <1>1, <1>9, <1>10, <1>11, ZenonT(30) DEF StreamShape
  <1>21. QuietInv'
    BY <1>0, <1>1, Zenon DEF QuietInv, Unpublished, Logged, StatusView, Eligibility
  <1>. QED
    BY <1>19, <1>20, <1>21 DEF StreamInv

\* A task that is not about to answer or to sleep says nothing yet.
LEMMA TaskStepKeeps ==
  ASSUME LogType, StreamInv, Query \/ Wake \/ Stall \/ StopDaemon
  PROVE  StreamInv'
  <1>0. UNCHANGED <<log, job, written, blocked, published, reader, wire, cli>>
    BY DEF Query, Wake, Stall, StopDaemon, logVars
  <1>1. PICK pc \in {"asked", "query", "closed"} : task' = [task EXCEPT !.pc = pc]
    BY DEF Query, Wake, Stall, StopDaemon
  <1>2. StreamShape
    BY DEF StreamInv
  <1>3. /\ DOMAIN task' = {"pc", "after", "sent", "first", "response"}
        /\ task'.pc = pc /\ task'.after = task.after /\ task'.first = task.first
    BY <1>1, <1>2 DEF StreamShape
  <1>4. ~up' => pc = "closed"
    <2>1. CASE StopDaemon
      <3>1. task' = [task EXCEPT !.pc = "closed"]
        BY <2>1 DEF StopDaemon
      <3>. QED
        BY <1>2, <1>3, <3>1 DEF StreamShape
    <2>2. CASE ~StopDaemon
      <3>1. up' = up /\ task.pc # "closed"
        BY <2>2 DEF Query, Wake, Stall, logVars
      <3>. QED
        BY <1>2, <3>1 DEF StreamShape
    <2>. QED
      BY <2>1, <2>2
  <1>5. pc # "closed" => task.pc # "closed"
    <2>1. CASE Query \/ Wake
      BY <2>1 DEF Query, Wake
    <2>2. CASE Stall \/ StopDaemon
      <3>1. task' = [task EXCEPT !.pc = "closed"]
        BY <2>2, Zenon DEF Stall, StopDaemon
      <3>. QED
        BY <1>2, <1>3, <3>1 DEF StreamShape
    <2>. QED
      BY <2>1, <2>2
  <1>6. StreamShape'
    BY <1>0, <1>2, <1>3, <1>4, Zenon DEF StreamShape
  <1>7. ASSUME reader = "job" PROVE JobStream'
    <2>1. /\ ClientOK(log, cli) /\ Chain(log, wire, cli.cursor)
          /\ TaskOK(log, task, Tip(wire, cli.cursor))
      BY <1>7, Zenon DEF StreamInv, JobStream
    <2>2. TaskOK(log, task', Tip(wire, cli.cursor))
      BY <1>3, <1>5, <2>1, Zenon DEF TaskOK
    <2>. QED
      BY <1>0, <2>1, <2>2 DEF JobStream
  <1>8. QuietInv'
    BY <1>3 DEF QuietInv
  <1>. QED
    BY <1>0, <1>6, <1>7, <1>8 DEF StreamInv

\* A subscription starts after the client's cursor, with nothing on the wire.
LEMMA ConnectKeeps ==
  ASSUME LogType, StreamInv, Connect
  PROVE  StreamInv'
  <1>0. /\ UNCHANGED <<log, job, written, blocked, published, pending, up, reader>>
        /\ up /\ wire' = <<>> /\ cli' = [cli EXCEPT !.pc = "reading"]
    BY DEF Connect, logVars
  <1>1. task' = [pc |-> "query", after |-> cli.cursor, sent |-> None, first |-> TRUE,
                 response |-> None]
    BY DEF Connect
  <1>2. StreamShape /\ DOMAIN cli = {"pc", "start", "cursor", "delivered", "at"}
    BY DEF StreamInv, StreamShape
  <1>3. /\ DOMAIN cli' = {"pc", "start", "cursor", "delivered", "at"}
        /\ cli'.pc = "reading" /\ cli'.start = cli.start /\ cli'.cursor = cli.cursor
        /\ cli'.delivered = cli.delivered
    BY <1>0, <1>2, Zenon
  <1>4. /\ DOMAIN task' = {"pc", "after", "sent", "first", "response"}
        /\ task'.pc = "query" /\ task'.after = cli.cursor /\ task'.first = TRUE
    BY <1>1
  <1>5. StreamShape'
    BY <1>0, <1>3, <1>4 DEF StreamShape
  <1>6. ASSUME reader = "job" PROVE JobStream'
    <2>1. ClientOK(log, cli)
      BY <1>6, Zenon DEF StreamInv, JobStream
    <2>2. ClientOK(log, cli')
      BY <1>3, <2>1 DEF ClientOK
    <2>3. Chain(log, wire', cli.cursor)
      <3>1. Len(<<>>) = 0 /\ 1 .. 0 = {} /\ <<>> \in Seq(Frames)
        OBVIOUS
      <3>. QED
        BY <1>0, <3>1 DEF Chain
    <2>4. TaskOK(log, task', Tip(wire', cli.cursor))
      BY <1>0, <1>4, Zenon DEF TaskOK, Tip
    <2>. QED
      BY <1>0, <1>3, <2>2, <2>3, <2>4 DEF JobStream
  <1>7. QuietInv'
    BY <1>4 DEF QuietInv
  <1>. QED
    BY <1>0, <1>5, <1>6, <1>7 DEF StreamInv

\* The end of a stream is not taken for completion; a snapshot is printed.
LEMMA EndKeeps ==
  ASSUME LogType, StreamInv, ReadSnapshot \/ EndOfStream
  PROVE  StreamInv'
  <1>0. UNCHANGED <<log, job, written, blocked, published, pending, up, reader, task>>
    BY Zenon DEF ReadSnapshot, EndOfStream, logVars
  <1>1. QuietInv'
    <2>1. QuietInv
      BY DEF StreamInv
    <2>. QED
      BY <1>0, <2>1, Zenon DEF QuietInv, Unpublished, Logged, StatusView, Eligibility
  <1>2. CASE ReadSnapshot
    <2>1. reader # "job" /\ cli' = cli
      BY <1>2 DEF ReadSnapshot
    <2>2. StreamShape'
      BY <1>0, <2>1 DEF StreamInv, StreamShape
    <2>. QED
      BY <1>0, <1>1, <2>1, <2>2 DEF StreamInv
  <1>3. CASE EndOfStream
    <2>1. cli' = [cli EXCEPT !.pc = "off"] /\ wire' = wire
      BY <1>3 DEF EndOfStream
    <2>2. DOMAIN cli = {"pc", "start", "cursor", "delivered", "at"}
      BY DEF StreamInv, StreamShape
    <2>3. /\ DOMAIN cli' = {"pc", "start", "cursor", "delivered", "at"}
          /\ cli'.pc = "off" /\ cli'.start = cli.start /\ cli'.cursor = cli.cursor
          /\ cli'.delivered = cli.delivered
      BY <2>1, <2>2, Zenon
    <2>4. StreamShape'
      BY <1>0, <2>3 DEF StreamInv, StreamShape
    <2>5. ASSUME reader = "job" PROVE JobStream'
      <3>1. /\ ClientOK(log, cli) /\ Chain(log, wire, cli.cursor)
            /\ TaskOK(log, task, Tip(wire, cli.cursor))
        BY <2>5, Zenon DEF StreamInv, JobStream
      <3>2. ClientOK(log, cli')
        BY <2>3, <3>1 DEF ClientOK
      <3>. QED
        BY <1>0, <2>1, <2>3, <3>1, <3>2, Zenon DEF JobStream
    <2>. QED
      BY <1>0, <1>1, <2>4, <2>5 DEF StreamInv
  <1>. QED
    BY <1>2, <1>3

\* A stream sleeps through nothing: what is appended is published, and a
\* publication wakes it.
LEMMA StreamStill ==
  ASSUME LogType, StreamInv, Moves, UNCHANGED <<reader, task, wire, cli>>
  PROVE  StreamInv'
  <1>0. Extends(log, log')
    BY MovesExtend
  <1>1. /\ ~up' => ~up
        /\ \/ ~up
           \/ pending' = TRUE
           \/ pending' = pending /\ Unpublished'
           \/ /\ pending' = pending /\ log' = log /\ (Unpublished => Unpublished')
              /\ Logged(StatusView)' = Logged(StatusView)
    BY MovesPublish, Zenon
  <1>2. StreamShape /\ QuietInv
    BY DEF StreamInv
  <1>3. StreamShape'
    BY <1>1, <1>2 DEF StreamShape
  <1>4. (reader = "job" => JobStream)'
    BY <1>0, JobStreamStill DEF StreamInv
  <1>5. QuietInv'
    <2>1. CASE ~up
      <3>1. task.pc = "closed"
        BY <1>2, <2>1, Zenon DEF StreamShape
      <3>. QED
        BY <3>1 DEF QuietInv
    <2>2. CASE pending' = TRUE
      BY <2>2, Zenon DEF QuietInv
    <2>3. CASE Unpublished'
      BY <2>3, Zenon DEF QuietInv
    <2>4. CASE /\ pending' = pending /\ log' = log /\ (Unpublished => Unpublished')
               /\ Logged(StatusView)' = Logged(StatusView)
      <3>1. Logged(task.sent)' = Logged(task.sent) /\ Logged(task.response)' = Logged(task.response)
        BY DEF Logged
      <3>. QED
        BY <1>2, <2>4, <3>1, Zenon DEF QuietInv
    <2>. QED
      BY <1>1, <2>1, <2>2, <2>3, <2>4, Zenon
  <1>. QED
    BY <1>3, <1>4, <1>5 DEF StreamInv

------------------------------------------------------------------------------

\* Init establishes the invariant.
LEMMA InitInv ==
  ASSUME Init
  PROVE  Inv
  <1>0. /\ log = <<>> /\ written = 0 /\ blocked = FALSE /\ pending = FALSE /\ up = TRUE
        /\ job = [state |-> "queued", attempt |-> 0, delayed |-> FALSE,
                  requested |-> FALSE, delivered |-> FALSE]
        /\ published = [cursor |-> 0, blocked |-> FALSE]
    BY Zenon DEF Init, LogInit
  <1>1. LogType
    <2>1. log \in Seq(Events) /\ Len(log) = 0 /\ 0 <= 0
      BY <1>0
    <2>2. job \in Rows
      BY <1>0 DEF Rows, States
    <2>3. published \in [cursor : Nat, blocked : BOOLEAN] /\ published.cursor = 0
      BY <1>0
    <2>. QED
      BY <1>0, <2>1, <2>2, <2>3, Zenon DEF LogType
  <1>2. HistoryInv
    <2>1. Len(log) = 0 /\ 1 .. 0 = {}
      BY <1>0, SMTT(30)
    <2>. QED
      BY <2>1, Zenon DEF HistoryInv, History, RunsAt
  <1>3. /\ task = [pc |-> "closed", after |-> None, sent |-> None, first |-> TRUE,
                   response |-> None]
        /\ wire = <<>>
    BY Zenon DEF Init, StreamInit
  <1>4. PICK from \in IF reader = "job" THEN {None, 0} ELSE {None} :
           cli = [pc |-> "off", start |-> from, cursor |-> from, delivered |-> <<>>, at |-> 0]
    BY Zenon DEF Init, StreamInit
  <1>5. StreamShape
    BY <1>0, <1>3, <1>4, Zenon DEF StreamShape
  <1>6. QuietInv
    BY <1>3 DEF QuietInv
  <1>7. JobStream \/ reader # "job"
    <2>1. ClientOK(log, cli)
      <3>1. cli.cursor = from /\ cli.start = from /\ cli.delivered = <<>> /\ cli.pc = "off"
        BY <1>4
      <3>2. from = None \/ from = 0
        OBVIOUS
      <3>3. IdsOf(log, 0, 0) = <<>>
        BY IdsOfNothing, Zenon
      <3>4. 0 \in 0 .. Len(log) /\ 0 \in 0 .. 0
        BY <1>0
      <3>5. None # 0
        BY NoneAssumption, SMTT(30)
      <3>. QED
        BY <3>1, <3>2, <3>3, <3>4, <3>5, Zenon DEF ClientOK
    <2>2. Chain(log, wire, cli.cursor)
      <3>1. Len(<<>>) = 0 /\ 1 .. 0 = {} /\ <<>> \in Seq(Frames)
        BY SMTT(30)
      <3>. QED
        BY <1>3, <3>1 DEF Chain
    <2>3. TaskOK(log, task, Tip(wire, cli.cursor))
      BY <1>3, Zenon DEF TaskOK
    <2>. QED
      BY <2>1, <2>2, <2>3, Zenon DEF JobStream
  <1>8. TtsInv
    <2>1. tts = [pc |-> "start", start |-> 0, cursor |-> 0, next |-> 0, all |-> <<>>,
                 batch |-> <<>>, said |-> <<>>, running |-> {}, as_of |-> 0]
      BY DEF Init, PollInit
    <2>2. PICK none \in Seq(Nat) : none = <<>>
      BY NoIds, Zenon
    <2>3. tts \in TtsTypes
      BY <2>1, <2>2 DEF TtsTypes
    <2>4. Span(0, 0) = <<>> /\ 0 <= 0 /\ 0 \in 0 .. 0 /\ Len(log) = 0
      BY <1>0, SpanType
    <2>5. /\ tts.pc = "start" /\ tts.start = 0 /\ tts.cursor = 0 /\ tts.next = 0
          /\ tts.batch = <<>> /\ tts.said = <<>> /\ tts.running = {} /\ tts.as_of = 0
      BY <2>1
    <2>6. \E heard \in 0 .. 0 : <<>> = Span(0, heard) /\ <<>> = Span(heard, 0)
      BY <2>4, ZenonT(30)
    <2>. QED
      BY <2>3, <2>4, <2>5, <2>6, Zenon DEF TtsInv, TtsTypes
  <1>9. TailInv
    BY <1>0 DEF Init, PollInit, TailInv
  <1>. QED
    BY <1>1, <1>2, <1>5, <1>6, <1>7, <1>8, <1>9, Zenon DEF Inv, StreamInv

\* A step that leaves the table, the row and the file alone keeps what is said
\* of them, and what a poller that does not move holds.
LEMMA StillLog ==
  ASSUME Inv, UNCHANGED <<log, job, written, blocked, published>>
  PROVE  /\ LogType' /\ HistoryInv'
         /\ tts' = tts => TtsInv'
         /\ tail' = tail => TailInv'
  <1>1. LogType'
    BY DEF Inv, LogType
  <1>2. HistoryInv'
    BY DEF Inv, HistoryInv
  <1>3. Extends(log, log')
    BY DEF Inv, LogType, Extends
  <1>4. ASSUME tail' = tail PROVE TailInv'
    <2>1. FirstAttemptOver' <=> FirstAttemptOver
      BY DEF FirstAttemptOver, Live
    <2>. QED
      BY <1>4, <2>1 DEF Inv, TailInv
  <1>. QED
    BY <1>1, <1>2, <1>3, <1>4, TtsStill DEF Inv

\* Every step keeps the invariant.
LEMMA NextInv ==
  ASSUME Inv, [Next]_vars
  PROVE  Inv'
  <1>1. CASE LogStep
    <2>1. Moves /\ UNCHANGED <<reader, task, wire, cli, tts, tail>>
      BY <1>1 DEF LogStep, Moves, streamVars, pollVars
    <2>2. LogType /\ HistoryInv /\ StreamInv /\ TtsInv /\ TailInv
      BY DEF Inv
    <2>3. LogType' /\ HistoryInv'
      BY <2>1, <2>2, MovesType, MovesHistory
    <2>4. StreamInv'
      BY <2>1, <2>2, StreamStill
    <2>5. TtsInv'
      BY <2>1, <2>2, MovesExtend, TtsStill
    <2>6. TailInv'
      <3>1. /\ FirstAttemptOver => FirstAttemptOver' /\ written' = written
            /\ written <= written'
        BY <2>1, <2>2, MovesFile
      <3>2. written' \in Nat
        BY <2>3 DEF LogType
      <3>. QED
        BY <2>1, <2>2, <3>1, <3>2, TailStill
    <2>. QED
      BY <2>3, <2>4, <2>5, <2>6 DEF Inv
  <1>2. CASE Stop \/ SubscriberStep
    <2>1. UNCHANGED <<log, job, written, blocked, published, tts, tail>>
      BY <1>2 DEF Stop, SubscriberStep, StreamStep, StopDaemon, Query, Serve, Write, Wake, Stall,
         Connect, ReadUpdate, ReadSnapshot, EndOfStream, logVars, pollVars
    <2>2. LogType /\ StreamInv
      BY DEF Inv
    <2>3. StreamInv'
      BY <1>2, <2>2, TaskStepKeeps, ServeKeeps, WriteKeeps, ConnectKeeps, ReadKeeps, EndKeeps, Zenon
         DEF Stop, SubscriberStep, StreamStep
    <2>. QED
      BY <2>1, <2>3, StillLog DEF Inv
  <1>3. CASE PollerStep
    <2>1. /\ UNCHANGED <<log, job, written, blocked, published, pending, up, reader,
                         task, wire, cli>>
          /\ \/ TtsStep /\ tail' = tail
             \/ (TailStep \/ TailFails) /\ tts' = tts
      BY <1>3 DEF PollerStep, TtsStep, TtsStart, TtsPoll, TtsPage, TtsFails, TtsAnnounce,
         TailStep, TailFails, TailOpen, TailCopy, TailAsk, TailMeasure, logVars, streamVars
    <2>2. LogType /\ HistoryInv /\ StreamInv /\ TtsInv /\ TailInv
      BY DEF Inv
    <2>3. StreamInv'
      <3>1. StreamShape' /\ QuietInv'
        BY <2>1, <2>2, Zenon DEF StreamInv, StreamShape, QuietInv, Unpublished, Logged, StatusView,
           Eligibility
      <3>2. (reader = "job" => JobStream)'
        BY <2>1, <2>2, Zenon DEF StreamInv, JobStream
      <3>. QED
        BY <3>1, <3>2, Zenon DEF StreamInv
    <2>4. CASE TtsStep /\ tail' = tail
      <3>1. TtsInv'
        BY <2>2, <2>4, TtsStartKeeps, TtsPollKeeps, TtsPageKeeps, TtsFailsKeeps,
           TtsAnnounceKeeps, Zenon DEF TtsStep
      <3>. QED
        BY <2>1, <2>3, <2>4, <3>1, StillLog DEF Inv
    <2>5. CASE (TailStep \/ TailFails) /\ tts' = tts
      <3>1. TailInv'
        BY <2>2, <2>5, TailMoves, Zenon
      <3>. QED
        BY <2>1, <2>3, <2>5, <3>1, StillLog DEF Inv
    <2>. QED
      BY <2>1, <2>4, <2>5
  <1>4. CASE UNCHANGED vars
    <2>1. UNCHANGED <<log, job, written, blocked, published, pending, up, reader,
                      task, wire, cli, tts, tail>>
      BY <1>4 DEF vars, logVars, streamVars, pollVars
    <2>2. StreamInv'
      <3>1. StreamInv
        BY Zenon DEF Inv
      <3>2. StreamShape' /\ QuietInv'
        BY <2>1, <3>1, Zenon DEF StreamInv, StreamShape, QuietInv, Unpublished, Logged, StatusView,
           Eligibility
      <3>3. (reader = "job" => JobStream)'
        BY <2>1, <3>1 DEF StreamInv, JobStream
      <3>. QED
        BY <3>2, <3>3 DEF StreamInv
    <2>. QED
      BY <2>1, <2>2, StillLog, Zenon DEF Inv
  <1>. QED
    BY <1>1, <1>2, <1>3, <1>4 DEF Next

\* What the table, the streams and the pollers hold of each other, always.
THEOREM ReadersInvariance == Spec => []Inv
  <1>1. Init => Inv
    BY InitInv
  <1>2. Inv /\ [Next]_vars => Inv'
    BY NextInv
  <1>. QED
    BY <1>1, <1>2, PTL DEF Spec

\* A job subscriber is handed every event of its job after its starting point
\* exactly once and in order, for every page size, socket buffer and length of
\* the log, over any number of shortened pages, stalls, restarts and
\* reconnections (JobSubscription::next, stream_updates, handle_read).
THEOREM EventsDeliveredOnce == Spec => []EventsExactlyOnce
  <1>1. Inv => EventsExactlyOnce
    <2> SUFFICES ASSUME Inv PROVE EventsExactlyOnce
      BY Zenon
    <2>1. \A a, u : FollowedIds(a, u) = IdsOf(log, a, u)
      BY DEF FollowedIds, IdsOf
    <2>2. cli.pc # "invalid" /\ (cli.pc = "over" => reader = "job")
      BY Zenon DEF Inv, StreamInv, StreamShape
    <2>3. ASSUME reader = "job", cli.cursor # None
          PROVE  cli.delivered = FollowedIds(cli.start, cli.cursor)
      BY <2>1, <2>3 DEF Inv, StreamInv, JobStream, ClientOK
    <2>4. ASSUME cli.pc = "over"
          PROVE  cli.delivered = FollowedIds(cli.start, cli.at)
      <3>1. ClientOK(log, cli)
        BY <2>2, <2>4 DEF Inv, StreamInv, JobStream
      <3>2. Len(log) \in Nat
        BY DEF Inv, LogType
      <3>3. PICK s \in Nat, k \in Nat, at \in Nat :
               s = cli.start /\ k = cli.cursor /\ at = cli.at /\ s <= k /\ k <= at
        BY <2>4, <3>1, <3>2, SMTT(30) DEF ClientOK
      <3>4. cli.delivered = IdsOf(log, s, k) /\ IdsOf(log, k, at) = <<>>
        BY <2>4, <3>1, <3>3, Zenon DEF ClientOK
      <3>5. IdsOf(log, s, k) \o IdsOf(log, k, at) = IdsOf(log, s, at)
        BY <3>3, IdsJoin, ZenonT(30)
      <3>6. IdsOf(log, s, k) \in Seq(Nat)
        BY IdsRise, Zenon
      <3>7. IdsOf(log, s, k) \o <<>> = IdsOf(log, s, k)
        BY <3>6, ConcatEmptySeq
      <3>8. cli.delivered = IdsOf(log, s, at)
        BY <3>4, <3>5, <3>7
      <3>. QED
        BY <2>1, <3>3, <3>8
    <2>. QED
      BY <2>2, <2>3, <2>4 DEF EventsExactlyOnce
  <1>. QED
    BY <1>1, ReadersInvariance, PTL

\* No wake-up is lost: a stream that sleeps with no revision waiting has sent
\* everything published (stream_updates marks the revision before it asks).
THEOREM SleepingStreamsAreCurrent == Spec => []QuietStreamIsCurrent
  <1>1. Inv => QuietStreamIsCurrent
    <2>1. \A a, u : FollowedIds(a, u) = IdsOf(log, a, u)
      BY DEF FollowedIds, IdsOf
    <2>. QED
      BY <2>1 DEF Inv, StreamInv, QuietInv, QuietStreamIsCurrent, Serving
  <1>. QED
    BY <1>1, ReadersInvariance, PTL

\* The TTS follower speaks every event once, and names as running only a job that
\* runs at the cursor of the announcement (follow_tts_events,
\* follow_tts_announcement), for every page size.
THEOREM AnnouncementsAreExact == Spec => []AnnouncementsExact
  <1>1. Inv => AnnouncementsExact
    <2> SUFFICES ASSUME Inv PROVE AnnouncementsExact
      OBVIOUS
    <2>1. tts.start \in Nat /\ tts.cursor \in Nat
      BY Zenon DEF Inv, TtsInv
    <2>2. PICK heard \in tts.start .. tts.cursor :
             tts.said = Span(tts.start, heard) /\ tts.batch = Span(heard, tts.cursor)
      BY DEF Inv, TtsInv
    <2>3. heard \in Nat /\ tts.start <= heard /\ heard <= tts.cursor
      BY <2>1
    <2>4. tts.said \o tts.batch = Span(tts.start, tts.cursor)
      BY <2>1, <2>2, <2>3, SpanJoin, ZenonT(30)
    <2>5. Followed \in tts.running => RunningAt(tts.as_of)
      BY DEF Inv, TtsInv, RunsAt, RunningAt
    <2>. QED
      BY <2>4, <2>5, Zenon DEF AnnouncementsExact, Span
  <1>. QED
    BY <1>1, ReadersInvariance, PTL

\* mlq logs --follow ends with the whole file printed, whenever the command wrote.
THEOREM LogsAreDrained == Spec => []LogDrained
  <1>1. Inv => LogDrained
    BY DEF Inv, TailInv, LogDrained
  <1>. QED
    BY <1>1, ReadersInvariance, PTL

==============================================================================
