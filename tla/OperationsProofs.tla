--------------------------- MODULE OperationsProofs ---------------------------
(***************************************************************************)
(* What TLAPS proves about Operations for any number of clients, daemons,  *)
(* keys, requests and retries: who owns the socket, and that the path from *)
(* socket to table and back implements the idempotent service.             *)
(***************************************************************************)
EXTENDS Operations, WellFoundedInduction, TLAPS

\* A daemon that is not down holds the lock, and the socket path leads to it
\* from bind to unlink.
LockInv ==
    /\ phase \in [Daemons -> {"down", "locked", "clean", "serving", "stopping",
                              "joined", "unlinked"}]
    /\ \A d \in Daemons : phase[d] # "down" => lock = d
    /\ \A d \in Daemons : phase[d] \in {"serving", "stopping", "joined"} => socket = d

\* The singleton lock serialises the lives of all daemons (daemon/mod.rs, run).
LEMMA LockInvariance == Spec => []LockInv
  <1>1. Init => LockInv
    BY DEF Init, LockInv
  <1>2. LockInv /\ [Next]_vars => LockInv'
    <2> SUFFICES ASSUME LockInv, [Next]_vars PROVE LockInv'
      OBVIOUS
    <2>0. None \notin Daemons
      BY ConstantsAssumption
    <2>1. ASSUME UNCHANGED <<phase, lock, socket>> PROVE LockInv'
      BY <2>1 DEF LockInv
    <2>2. ASSUME NEW c \in Clients, ClientStep(c) PROVE LockInv'
      BY <2>1, <2>2 DEF ClientStep, Begin, Connect, GiveUp, HangUp, serverVars
    <2>3. CASE ConnectionStep
      BY <2>1, <2>3 DEF ConnectionStep, Accept, Ask, OpenStream, serverVars
    <2>4. CASE HandleRequest \/ Reply
      BY <2>1, <2>4 DEF HandleRequest, Reply
    <2>5. ASSUME NEW d \in Daemons, RemoveStaleSocket(d) \/ Bind(d) PROVE LockInv'
      BY <2>5 DEF RemoveStaleSocket, Bind, LockInv
    <2>6. ASSUME NEW d \in Daemons, HandleShutdown(d) \/ Unlink(d) \/ Unlock(d) PROVE LockInv'
      BY <2>6 DEF HandleShutdown, Unlink, Unlock, Coordinating, LockInv
    <2>7. ASSUME NEW d \in Daemons, TakeLock(d) \/ Stop(d) PROVE LockInv'
      BY <2>0, <2>7 DEF TakeLock, Stop, LockInv
    <2>8. ASSUME NEW d \in Daemons, Crash(d) PROVE LockInv'
      BY <2>8 DEF Crash, LockInv
    <2>9. CASE UNCHANGED vars
      BY <2>1, <2>9 DEF vars, serverVars
    <2>. QED
      BY <2>2, <2>3, <2>4, <2>5, <2>6, <2>7, <2>8, <2>9 DEF Next, DaemonStep
  <1>. QED
    BY <1>1, <1>2, PTL DEF Spec

\* The daemon that accepts connections is the only one the socket path leads
\* to, whatever daemons start, stop or crash beside it (daemon/mod.rs).
THEOREM SocketOwnership == Spec => []ServingOwnsTheSocket
  <1>1. LockInv => ServingOwnsTheSocket
    BY DEF LockInv, ServingOwnsTheSocket
  <1>. QED
    BY <1>1, LockInvariance, PTL

------------------------------------------------------------------------------
(* The idempotent service.                                                 *)

------------------------------------------------------------------------------
(* Induction over a list of dependencies, by its least counterexample.     *)

\* A non-empty set of naturals has a least member.
LEMMA LeastNumber ==
  ASSUME NEW S, S \subseteq Nat, S # {}
  PROVE  \E n \in S : \A m \in S : n <= m
  <1> DEFINE R == {ss \in Nat \X Nat : ss[1] < ss[2]}
  <1>0. IsWellFoundedOn(R, Nat)
    BY NatLessThanWellFounded DEF OpToRel
  <1>1. PICK n \in S : \A m \in S : <<m, n>> \notin R
    <2> HIDE DEF R
    <2>. QED
      BY <1>0, WFMin, Zenon
  <1>2. ASSUME NEW m \in S PROVE n <= m
    <2>1. <<m, n>> \in Nat \X Nat /\ <<m, n>> \notin R
      BY <1>1
    <2>2. ~(m < n)
      BY <2>1
    <2>. QED
      BY <2>2
  <1>. QED
    BY <1>2

\* A set of naturals that holds a number whenever it holds all smaller ones
\* holds every number up to a bound.
LEMMA UpTo ==
  ASSUME NEW N \in Nat, NEW Good,
         \A n \in 0 .. N : (\A m \in 0 .. N : m < n => m \in Good) => n \in Good
  PROVE  \A n \in 0 .. N : n \in Good
  <1> DEFINE Bad == {n \in 0 .. N : n \notin Good}
  <1>1. Bad = {}
    <2> SUFFICES ASSUME Bad # {} PROVE FALSE
      OBVIOUS
    <2>1. PICK n \in Bad : \A m \in Bad : n <= m
      <3>1. Bad \subseteq Nat
        OBVIOUS
      <3> HIDE DEF Bad
      <3>. QED
        BY <3>1, LeastNumber, Zenon
    <2>2. n \in 0 .. N /\ n \notin Good
      OBVIOUS
    <2>3. ASSUME NEW m \in 0 .. N, m < n PROVE m \in Good
      <3>1. m \notin Bad
        <4>1. ~(n <= m)
          BY <2>2, <2>3
        <4> HIDE DEF Bad
        <4>. QED
          BY <2>1, <4>1
      <3>. QED
        BY <3>1
    <2>. QED
      BY <2>2, <2>3
  <1>. QED
    BY <1>1

\* The list names the parent under the condition.
NamedUnder(r, condition, parent) ==
    \E k \in 1 .. Len(r.deps) : r.deps[k].condition = condition /\ r.deps[k].job = parent

Holds(s, e) == \E i \in DOMAIN s : s[i] = e

\* The recursion of Parents has a solution, which Parents therefore is: its
\* members are the parents that the list names under the condition.
LEMMA ParentsAreNamed ==
  ASSUME NEW r, r.deps \in Seq(DependencySpec), NEW condition, NEW parent
  PROVE  Holds(Parents(r, condition), parent) <=> NamedUnder(r, condition, parent)
  <1>0. PICK D \in Seq(DependencySpec) : D = r.deps
    OBVIOUS
  <1>1. PICK N \in Nat : N = Len(D)
    OBVIOUS
  <1>2. \A k \in 1 .. N : D[k].job \in Nat
    <2>1. \A d \in DependencySpec : d.job \in Nat
      BY DEF DependencySpec
    <2>2. \A k \in 1 .. N : D[k] \in DependencySpec
      BY <1>1
    <2>. QED
      BY <2>1, <2>2
  <1> DEFINE Named(k) == D[k].condition = condition
             Step(f, n) == IF n = 0 THEN <<>>
                           ELSE IF Named(n) THEN Append(f[n - 1], D[n].job) ELSE f[n - 1]
             Solves(f, n) == f = [i \in 0 .. n |-> Step(f, i)]
             Solved == {n \in 0 .. N : \E f \in [0 .. n -> Seq(Nat)] : Solves(f, n)}
             parents == CHOOSE f : Solves(f, N)
  <1>3. 0 \in Solved
    <2> DEFINE g == [i \in 0 .. 0 |-> <<>>]
    <2>1. g \in [0 .. 0 -> Seq(Nat)] /\ Solves(g, 0)
      OBVIOUS
    <2>2. 0 \in 0 .. N
      BY <1>1
    <2> HIDE DEF g, Solves
    <2>. QED
      BY <2>1, <2>2
  <1>4. ASSUME NEW n \in 0 .. N, n # 0, n - 1 \in Solved PROVE n \in Solved
    <2>0. PICK f \in [0 .. n - 1 -> Seq(Nat)] : Solves(f, n - 1)
      BY <1>4, Zenon
    <2> DEFINE new == IF Named(n) THEN Append(f[n - 1], D[n].job) ELSE f[n - 1]
               h == [i \in 0 .. n |-> IF i = n THEN new ELSE f[i]]
    <2>1. n \in Nat /\ n - 1 \in 0 .. n - 1 /\ D[n].job \in Nat
      BY <1>1, <1>2, <1>4
    <2>2. new \in Seq(Nat)
      <3> HIDE DEF Named
      <3>. QED
        BY <2>0, <2>1
    <2>3. h \in [0 .. n -> Seq(Nat)]
      <3> HIDE DEF new
      <3>. QED
        BY <2>0, <2>1, <2>2
    <2>4. \A i \in 0 .. n - 1 : f[i] = Step(f, i)
      BY <2>0, Zenon
    <2>5. ASSUME NEW i \in 0 .. n PROVE h[i] = Step(h, i)
      <3> HIDE DEF Named
      <3>1. CASE i = n
        BY <3>1, <2>1, <1>4
      <3>2. CASE i # n /\ i # 0
        <4>1. i \in 0 .. n - 1 /\ i - 1 \in 0 .. n - 1
          BY <2>1, <3>2
        <4>2. h[i] = f[i] /\ h[i - 1] = f[i - 1]
          BY <2>1, <4>1
        <4> HIDE DEF h
        <4>. QED
          BY <2>4, <3>2, <4>1, <4>2, Zenon
      <3>3. CASE i # n /\ i = 0
        BY <2>4, <3>3, <2>1
      <3>. QED
        BY <3>1, <3>2, <3>3
    <2>6. Solves(h, n)
      <3> HIDE DEF Step, new
      <3>. QED
        BY <2>3, <2>5, Zenon
    <2>. QED
      <3> HIDE DEF h, Solves
      <3>. QED
        BY <2>3, <2>6
  <1>5. N \in Solved
    <2> HIDE DEF Solved
    <2>1. \A n \in 0 .. N : (\A m \in 0 .. N : m < n => m \in Solved) => n \in Solved
      <3> SUFFICES ASSUME NEW n \in 0 .. N, \A m \in 0 .. N : m < n => m \in Solved
                   PROVE  n \in Solved
        OBVIOUS
      <3>1. CASE n # 0
        <4>1. n - 1 \in 0 .. N /\ n - 1 < n
          BY <1>1, <3>1
        <4>. QED
          BY <1>4, <3>1, <4>1
      <3>. QED
        BY <1>3, <3>1
    <2>2. \A n \in 0 .. N : n \in Solved
      BY <1>1, <2>1, UpTo, Zenon
    <2>. QED
      BY <1>1, <2>2
  <1>6. PICK g : g = parents /\ Solves(g, N)
    <2>1. PICK f \in [0 .. N -> Seq(Nat)] : Solves(f, N)
      BY <1>5, Zenon
    <2> HIDE DEF Solves
    <2>. QED
      BY <2>1
  <1>7. \A n \in 0 .. N : g[n] = Step(g, n)
    BY <1>6, Zenon
  <1>8. Parents(r, condition) = g[N]
    BY <1>0, <1>1, <1>6 DEF Parents
  <1> DEFINE Lists(s, n) ==
               \A j : (\E i \in 1 .. Len(s) : s[i] = j)
                        <=> \E k \in 1 .. n : Named(k) /\ D[k].job = j
             Listed == {n \in 0 .. N : g[n] \in Seq(Nat) /\ Lists(g[n], n)}
  <1>9. 0 \in Listed
    <2>1. g[0] = <<>>
      BY <1>1, <1>7
    <2>2. <<>> \in Seq(Nat) /\ Lists(<<>>, 0)
      OBVIOUS
    <2>3. 0 \in 0 .. N
      BY <1>1
    <2> HIDE DEF Lists
    <2>. QED
      BY <2>1, <2>2, <2>3, Zenon
  <1>10. ASSUME NEW n \in 0 .. N, n # 0, n - 1 \in Listed PROVE n \in Listed
    <2>1. PICK s \in Seq(Nat) : s = g[n - 1] /\ Lists(s, n - 1)
      BY <1>10, Zenon
    <2>2. n \in 1 .. N /\ D[n].job \in Nat /\ 1 .. n = (1 .. n - 1) \cup {n}
      BY <1>1, <1>2, <1>10
    <2>3. g[n] = IF Named(n) THEN Append(s, D[n].job) ELSE s
      BY <1>7, <1>10, <2>1
    <2>4. CASE Named(n)
      <3>0. PICK x \in Nat : x = D[n].job
        BY <2>2
      <3>1. PICK t \in Seq(Nat) : t = Append(s, x)
        <4>1. Append(s, x) \in Seq(Nat)
          OBVIOUS
        <4>. QED
          BY <4>1, Zenon
      <3>2. /\ Len(s) \in Nat /\ Len(t) = Len(s) + 1
            /\ \A i \in 1 .. Len(s) : t[i] = s[i]
            /\ t[Len(s) + 1] = D[n].job
        BY <3>0, <3>1
      <3>3. \A j : (\E i \in 1 .. Len(t) : t[i] = j)
                     <=> (\E i \in 1 .. Len(s) : s[i] = j) \/ j = D[n].job
        <4>1. PICK l \in Nat : l = Len(s)
          BY <3>2
        <4>2. 1 .. l + 1 = (1 .. l) \cup {l + 1}
          OBVIOUS
        <4>3. 1 .. Len(t) = (1 .. Len(s)) \cup {Len(s) + 1}
          BY <3>2, <4>1, <4>2
        <4>. QED
          BY <3>2, <4>3, Zenon
      <3>4. Lists(t, n)
        <4> HIDE DEF Named
        <4>. QED
          BY <2>1, <2>2, <2>4, <3>3, Zenon
      <3> HIDE DEF Lists
      <3>. QED
        BY <2>3, <2>4, <3>0, <3>1, <3>4, Zenon
    <2>5. CASE ~Named(n)
      <3>1. Lists(s, n)
        BY <2>1, <2>2, <2>5, Zenon
      <3> HIDE DEF Lists
      <3>. QED
        BY <2>1, <2>3, <2>5, <3>1
    <2>. QED
      BY <2>4, <2>5
  <1>11. N \in Listed
    <2> HIDE DEF Listed
    <2>1. \A n \in 0 .. N : (\A m \in 0 .. N : m < n => m \in Listed) => n \in Listed
      <3> SUFFICES ASSUME NEW n \in 0 .. N, \A m \in 0 .. N : m < n => m \in Listed
                   PROVE  n \in Listed
        OBVIOUS
      <3>1. CASE n # 0
        <4>1. n - 1 \in 0 .. N /\ n - 1 < n
          BY <1>1, <3>1
        <4>. QED
          BY <1>10, <3>1, <4>1
      <3>. QED
        BY <1>9, <3>1
    <2>2. \A n \in 0 .. N : n \in Listed
      BY <1>1, <2>1, UpTo, Zenon
    <2>. QED
      BY <1>1, <2>2
  <1>12. PICK s \in Seq(Nat) : s = g[N] /\ Lists(s, N)
    BY <1>11, Zenon
  <1>13. DOMAIN s = 1 .. Len(s)
    OBVIOUS
  <1>14. Holds(s, parent) <=> \E k \in 1 .. N : Named(k) /\ D[k].job = parent
    BY <1>12, <1>13, Zenon DEF Holds
  <1>15. NamedUnder(r, condition, parent) <=> \E k \in 1 .. N : Named(k) /\ D[k].job = parent
    BY <1>0, <1>1 DEF NamedUnder
  <1>. QED
    BY <1>8, <1>12, <1>14, <1>15

\* Equal v5 lists mean equal edges (protocol.rs, legacy_v5_request_hash).
LEMMA ListsDecideEdges ==
  ASSUME NEW q \in Requests, NEW r \in Requests, ~q.recent, ~r.recent,
         legacy_v5_request_hash(q) = legacy_v5_request_hash(r)
  PROVE  SameJob(q, r)
  <1> DEFINE Conditions == {"succeeded", "terminal"}
             Names(s, c, j) == \E d \in ToSet(s.deps) : d.condition = c /\ d.job = j
  <1>1. /\ q.deps \in Seq(DependencySpec) /\ r.deps \in Seq(DependencySpec)
        /\ q.recent \in BOOLEAN /\ r.recent \in BOOLEAN
    BY RequestsAssumption
  <1>2. \A c \in Conditions : Parents(q, c) = Parents(r, c)
    BY DEF legacy_v5_request_hash
  <1>3. ASSUME NEW s, s.deps \in Seq(DependencySpec), NEW c, NEW j
        PROVE  Names(s, c, j) <=> Holds(Parents(s, c), j)
    <2>1. Names(s, c, j) <=> NamedUnder(s, c, j)
      BY <1>3 DEF ToSet, NamedUnder
    <2> HIDE DEF Names
    <2>. QED
      BY <1>3, <2>1, ParentsAreNamed
  <1>4. ASSUME NEW c \in Conditions, NEW j PROVE Names(q, c, j) <=> Names(r, c, j)
    <2> HIDE DEF Names, Conditions
    <2>1. Names(q, c, j) <=> Holds(Parents(q, c), j)
      BY <1>1, <1>3
    <2>2. Names(r, c, j) <=> Holds(Parents(r, c), j)
      BY <1>1, <1>3
    <2>. QED
      BY <1>2, <2>1, <2>2
  <1>5. ASSUME NEW s, s.deps \in Seq(DependencySpec)
        PROVE  Edges(s) = {[job |-> d.job,
                            condition |-> IF Names(s, "succeeded", d.job)
                                          THEN "succeeded" ELSE "terminal"] : d \in ToSet(s.deps)}
    BY DEF Edges
  <1>6. ASSUME NEW s, s.deps \in Seq(DependencySpec)
        PROVE  \A d \in ToSet(s.deps) : d.condition \in Conditions
    <2>1. \A d \in DependencySpec : d.condition \in Conditions
      BY DEF DependencySpec
    <2>2. \A d \in ToSet(s.deps) : d \in DependencySpec
      BY <1>6 DEF ToSet
    <2>. QED
      BY <2>1, <2>2
  <1>7. ASSUME NEW d \in ToSet(q.deps) PROVE \E e \in ToSet(r.deps) : e.job = d.job
    <2>1. PICK c \in Conditions : c = d.condition
      BY <1>1, <1>6
    <2>2. Names(q, c, d.job)
      BY <2>1
    <2>3. Names(r, c, d.job)
      <3> HIDE DEF Names
      <3>. QED
        BY <1>4, <2>2
    <2>. QED
      BY <2>3
  <1>8. ASSUME NEW d \in ToSet(r.deps) PROVE \E e \in ToSet(q.deps) : e.job = d.job
    <2>1. PICK c \in Conditions : c = d.condition
      BY <1>1, <1>6
    <2>2. Names(r, c, d.job)
      BY <2>1
    <2>3. Names(q, c, d.job)
      <3> HIDE DEF Names
      <3>. QED
        BY <1>4, <2>2
    <2>. QED
      BY <2>3
  <1> HIDE DEF Names
  <1>9. \A j : Names(q, "succeeded", j) <=> Names(r, "succeeded", j)
    BY <1>4
  <1> DEFINE Edge(s, d) == [job |-> d.job,
                            condition |-> IF Names(s, "succeeded", d.job)
                                          THEN "succeeded" ELSE "terminal"]
  <1>10. ASSUME NEW d, NEW e, d.job = e.job PROVE Edge(q, d) = Edge(r, e)
    BY <1>9, <1>10
  <1>11. /\ Edges(q) = {Edge(q, d) : d \in ToSet(q.deps)}
         /\ Edges(r) = {Edge(r, d) : d \in ToSet(r.deps)}
    BY <1>1, <1>5
  <1>12. Edges(q) = Edges(r)
    <2> HIDE DEF Edge
    <2>. QED
      BY <1>7, <1>8, <1>10, <1>11
  <1>13. q.recent = r.recent
    BY <1>1
  <1>. QED
    BY <1>12, <1>13 DEF SameJob

\* Equal canonical hashes mean equal edges: what request_hash drops is what
\* insert_job merges.
LEMMA HashDecidesEdges ==
  ASSUME NEW q \in Requests, NEW r \in Requests, request_hash(q) = request_hash(r)
  PROVE  SameJob(q, r)
  <1> DEFINE Q == ToSet(q.deps)
             R == ToSet(r.deps)
             Kept(D) == {d \in D : \/ d.condition = "succeeded"
                                   \/ [d EXCEPT !.condition = "succeeded"] \notin D}
             Strict(D, j) == \E e \in D : e.job = j /\ e.condition = "succeeded"
  <1>1. q.recent = r.recent /\ Kept(Q) = Kept(R)
    BY DEF request_hash
  <1>2. /\ \A d \in Q : d = [job |-> d.job, condition |-> d.condition]
        /\ \A d \in R : d = [job |-> d.job, condition |-> d.condition]
        /\ \A d \in Q \cup R : d.condition \in {"succeeded", "terminal"}
    <2>1. q.deps \in Seq(DependencySpec) /\ r.deps \in Seq(DependencySpec)
      BY RequestsAssumption
    <2>2. \A d \in Q \cup R : d \in DependencySpec
      BY <2>1 DEF ToSet
    <2> HIDE DEF Q, R
    <2>. QED
      BY <2>2 DEF DependencySpec
  <1> HIDE DEF Q, R
  <1>3. \A j : Strict(Q, j) <=> Strict(R, j)
    BY <1>1, ZenonT(30)
  <1>4. \A d \in Q : \E e \in Kept(Q) : e.job = d.job
    <2> SUFFICES ASSUME NEW d \in Q PROVE \E e \in Kept(Q) : e.job = d.job
      OBVIOUS
    <2>1. CASE d \in Kept(Q)
      BY <2>1
    <2>2. CASE d \notin Kept(Q)
      <3>1. [d EXCEPT !.condition = "succeeded"] \in Q
        BY <2>2
      <3>2. [d EXCEPT !.condition = "succeeded"] = [job |-> d.job, condition |-> "succeeded"]
        BY <1>2
      <3>. QED
        BY <3>1, <3>2
    <2>. QED
      BY <2>1, <2>2
  <1>5. \A d \in R : \E e \in Kept(R) : e.job = d.job
    <2> SUFFICES ASSUME NEW d \in R PROVE \E e \in Kept(R) : e.job = d.job
      OBVIOUS
    <2>1. CASE d \in Kept(R)
      BY <2>1
    <2>2. CASE d \notin Kept(R)
      <3>1. [d EXCEPT !.condition = "succeeded"] \in R
        BY <2>2
      <3>2. [d EXCEPT !.condition = "succeeded"] = [job |-> d.job, condition |-> "succeeded"]
        BY <1>2
      <3>. QED
        BY <3>1, <3>2
    <2>. QED
      BY <2>1, <2>2
  <1>6. \A d \in Q : \E e \in R : e.job = d.job
    BY <1>1, <1>4, Zenon
  <1>7. \A d \in R : \E e \in Q : e.job = d.job
    BY <1>1, <1>5, Zenon
  <1> DEFINE Edge(D, d) == [job |-> d.job,
                            condition |-> IF Strict(D, d.job) THEN "succeeded" ELSE "terminal"]
  <1>8. /\ Edges(q) = {Edge(Q, d) : d \in Q}
        /\ Edges(r) = {Edge(R, d) : d \in R}
    BY DEF Edges, Q, R
  <1>9. /\ \A d \in Q : \E e \in R : Edge(Q, d) = Edge(R, e)
        /\ \A d \in R : \E e \in Q : Edge(R, d) = Edge(Q, e)
    <2>1. ASSUME NEW d, NEW e, d.job = e.job PROVE Edge(Q, d) = Edge(R, e)
      <3>1. Strict(Q, d.job) <=> Strict(R, e.job)
        BY <1>3, <2>1
      <3> HIDE DEF Strict
      <3>. QED
        BY <2>1, <3>1
    <2> HIDE DEF Edge
    <2>. QED
      BY <1>6, <1>7, <2>1, Zenon
  <1> HIDE DEF Edge
  <1>10. Edges(q) = Edges(r)
    BY <1>8, <1>9
  <1>. QED
    BY <1>1, <1>10 DEF SameJob

\* The hashes under which a request may have been recorded.
RecordedAs(hash, r) == hash = request_hash(r) \/ (~r.recent /\ hash = legacy_v5_request_hash(r))

\* A stored hash that answers for a request was recorded for the same job.
LEMMA MatchMeansSameJob ==
  ASSUME NEW q \in Requests, NEW r \in Requests, NEW hash \in Hashes, RecordedAs(hash, q),
         hash \in {request_hash(r), legacy_v5_request_hash(r)}
  PROVE  SameJob(q, r)
  <1>1. hash # None
    BY RequestsAssumption
  <1>2. hash = legacy_v5_request_hash(r) => ~r.recent
    BY <1>1 DEF legacy_v5_request_hash
  <1>3. request_hash(q).version = 6 /\ request_hash(r).version = 6
    BY DEF request_hash
  <1>4. \A s : ~s.recent => legacy_v5_request_hash(s).version = 5
    BY DEF legacy_v5_request_hash
  <1>5. \/ hash = request_hash(q) /\ hash = request_hash(r)
        \/ ~q.recent /\ ~r.recent /\ legacy_v5_request_hash(q) = legacy_v5_request_hash(r)
    BY <1>2, <1>3, <1>4 DEF RecordedAs
  <1>. QED
    BY <1>5, HashDecidesEdges, ListsDecideEdges

Ids == [client : Clients, run : Nat, try : Nat]

\* A connection id that its client has used, so that none it opens later has it.
Past(id) ==
    /\ id \in Ids
    /\ LET c == client[id.client]
       IN  \/ id.run < c.run
           \/ /\ id.run = c.run
              /\ c.pc = "idle" \/ id.try < c.tries \/ (id.try = c.tries /\ c.pc = "wait")

ClientInv ==
    client \in [Clients -> [pc : {"idle", "connect", "wait"}, run : Nat, tries : Nat,
                            op : Ops \cup {None}]]
    /\ \A c \in Clients : client[c].pc # "idle" => client[c].op \in Ops

Connections == [id : Ids, op : Ops, phase : {"backlog", "open", "asked", "stream"}]

Unique(C) == \A k, l \in C : k.id = l.id => k = l

\* One id, one connection; the client that listens has asked what it carries;
\* and a subscriber never leaves a connection behind.
ConnInv ==
    /\ conns \subseteq Connections /\ Unique(conns)
    /\ \A k \in conns : Past(k.id)
    /\ \A k \in conns : Listens(k) => client[k.id.client].op = k.op
    /\ \A k \in conns : k.op = Subscribe => Listens(k)

\* A request of this connection waits for the coordinator.
Waits(id) == id # Shutdown /\ \E i \in 1 .. Len(inbox) : inbox[i] = id

InboxInv ==
    /\ inbox \in Seq(Ids \cup {Shutdown})
    /\ \A id \in Ids : Waits(id) => Past(id) /\ \A k \in conns : k.id = id => k.op # Subscribe

SendInv ==
    sending # None =>
        /\ Past(sending.id)
        /\ \A k \in conns : k.id = sending.id =>
              k.op # Subscribe /\ Service!Truthful(k.op.key, k.op.request, sending.answer)

\* The row of a key names the one job the key created.
TableInv ==
    /\ jobs \in Seq([key : Keys, request : Requests])
    /\ operations \in [Keys -> [hash : Hashes, reply : Nat] \cup {None}]
    /\ \A k \in Keys : operations[k] = None => Service!EffectOf(k) = {}
    /\ \A k \in Keys : operations[k] # None =>
          /\ operations[k].reply \in Service!EffectOf(k)
          /\ RecordedAs(operations[k].hash, jobs[operations[k].reply].request)

ServiceInv == ClientInv /\ ConnInv /\ InboxInv /\ SendInv /\ TableInv

\* What most steps do to connections and messages: they take none out of thin
\* air, and start no client waiting.
Quiet ==
    /\ conns' \subseteq Connections /\ Unique(conns')
    /\ \A k \in conns' : \E l \in conns : l.id = k.id /\ l.op = k.op
    /\ \A k \in conns' : k.op = Subscribe => client'[k.id.client] = client[k.id.client]
    /\ \A c \in Clients : client'[c].pc = "wait" => client'[c] = client[c]
    /\ inbox' \in Seq(Ids \cup {Shutdown})
    /\ \A id \in Ids : Waits(id)' => Waits(id) \/ \E k \in conns : k.id = id /\ k.op # Subscribe
    /\ sending' \in {None, sending}
    /\ UNCHANGED tables

\* Ids stay past: runs and tries only grow.
Aging == \A id : Past(id) => Past(id)'

\* A quiet step keeps the invariant.
LEMMA QuietStep ==
  ASSUME ServiceInv, Quiet, Aging, ClientInv'
  PROVE  ServiceInv'
  <1>1. ConnInv'
    <2>1. \A k \in conns' : Past(k.id)'
      BY DEF ServiceInv, ConnInv, Quiet, Aging
    <2>2. ASSUME NEW k \in conns', k.op = Subscribe PROVE Listens(k)'
      <3>1. PICK l \in conns : l.id = k.id /\ l.op = k.op
        BY DEF Quiet
      <3>2. Listens(l)
        BY <2>2, <3>1 DEF ServiceInv, ConnInv
      <3>3. client'[k.id.client] = client[k.id.client]
        BY <2>2 DEF Quiet
      <3>. QED
        BY <3>1, <3>2, <3>3 DEF Listens, Id
    <2>3. ASSUME NEW k \in conns', Listens(k)' PROVE client'[k.id.client].op = k.op
      <3>1. PICK l \in conns : l.id = k.id /\ l.op = k.op
        BY DEF Quiet
      <3>2. l.id.client \in Clients
        BY DEF ServiceInv, ConnInv, Past, Ids
      <3>3. client'[k.id.client] = client[k.id.client]
        BY <2>3, <3>1, <3>2 DEF Listens, Quiet
      <3>4. Listens(l)
        BY <2>3, <3>1, <3>3 DEF Listens, Id
      <3>. QED
        BY <3>1, <3>3, <3>4 DEF ServiceInv, ConnInv
    <2>. QED
      BY <2>1, <2>2, <2>3 DEF ConnInv, Quiet, Connections, Unique, Ids, Ops
  <1>2. InboxInv'
    <2> SUFFICES ASSUME NEW id \in Ids, Waits(id)'
                 PROVE  Past(id)' /\ \A k \in conns' : k.id = id => k.op # Subscribe
      BY DEF InboxInv, Quiet
    <2>1. Past(id) /\ \A k \in conns : k.id = id => k.op # Subscribe
      BY DEF ServiceInv, ConnInv, InboxInv, Quiet, Unique
    <2>. QED
      BY <2>1 DEF Quiet, Aging
  <1>3. SendInv'
    <2>1. \A k, r, a : Service!Truthful(k, r, a)' <=> Service!Truthful(k, r, a)
      BY DEF Quiet, tables, Service!Truthful, Service!EffectOf
    <2>. QED
      BY <2>1 DEF ServiceInv, SendInv, Quiet, Aging
  <1>4. TableInv'
    BY DEF ServiceInv, TableInv, Quiet, tables, Service!EffectOf, RecordedAs
  <1>. QED
    BY <1>1, <1>2, <1>3, <1>4, ZenonT(30) DEF ServiceInv

NoNewWaiters == \A d \in Clients : client'[d].pc = "wait" => client'[d] = client[d]

\* The end of an invocation leaves its ids behind.
LEMMA FinishAges ==
  ASSUME ClientInv, NEW c \in Clients, NEW answer, Finish(c, answer)
  PROVE  ClientInv' /\ Aging /\ NoNewWaiters
  <1>1. client' = [client EXCEPT ![c] = [pc |-> "idle", run |-> client[c].run, tries |-> 1,
                                         op |-> None]]
    BY DEF Finish, Idle
  <1>2. ClientInv'
    BY <1>1 DEF ClientInv, Ops
  <1>3. Aging
    BY <1>1 DEF Aging, Past, Ids, ClientInv
  <1>. QED
    BY <1>1, <1>2, <1>3 DEF NoNewWaiters, ClientInv

\* So does a retry.
LEMMA FailureAges ==
  ASSUME ClientInv, NEW c \in Clients, client[c].pc # "idle", TransportFailure(c)
  PROVE  ClientInv' /\ Aging /\ NoNewWaiters
  <1>1. CASE client[c].op # Subscribe /\ client[c].tries < ClientRetries
    <2>1. client' = [client EXCEPT ![c] = [pc |-> "connect", run |-> client[c].run,
                                           tries |-> client[c].tries + 1, op |-> client[c].op]]
      BY <1>1 DEF TransportFailure, ClientInv
    <2>2. ClientInv'
      BY <2>1 DEF ClientInv, Ops
    <2>3. Aging
      BY <2>1 DEF Aging, Past, Ids, ClientInv
    <2>. QED
      BY <2>1, <2>2, <2>3 DEF NoNewWaiters, ClientInv
  <1>2. CASE ~(client[c].op # Subscribe /\ client[c].tries < ClientRetries)
    BY <1>2, FinishAges DEF TransportFailure
  <1>. QED
    BY <1>1, <1>2

\* An answer that is true of the request is a step of the service.
LEMMA FinishTells ==
  ASSUME NEW c \in Clients, NEW answer, Finish(c, answer), UNCHANGED jobs,
         client[c].op \in Ops,
         client[c].op # Subscribe =>
             Service!Truthful(client[c].op.key, client[c].op.request, answer)
  PROVE  [Service!Next]_<<jobs, answers>>
  <1>1. CASE client[c].op = Subscribe
    BY <1>1 DEF Finish
  <1>2. CASE client[c].op # Subscribe
    <2> DEFINE k == client[c].op.key
               r == client[c].op.request
               a == [key |-> k, request |-> r, answer |-> answer]
    <2>1. k \in Keys /\ r \in Requests
      BY <1>2 DEF Ops
    <2>2. answers' = answers \cup {a}
      BY <1>2 DEF Finish
    <2>3. a.key = k /\ a.request = r /\ a.answer = answer /\ a \in answers'
      BY <2>2
    <2>4. Service!Truthful(k, r, a.answer)
      BY <1>2, <2>3
    <2> HIDE DEF k, r, a
    <2>5. Service!Tell(k, r)
      BY <2>2, <2>3, <2>4 DEF Service!Tell
    <2>. QED
      BY <2>1, <2>5 DEF Service!Next
  <1>. QED
    BY <1>1, <1>2

\* A failure promises nothing.
LEMMA FailureTells ==
  ASSUME ClientInv, NEW c \in Clients, client[c].pc # "idle", TransportFailure(c), UNCHANGED jobs
  PROVE  [Service!Next]_<<jobs, answers>>
  <1>1. CASE client[c].op # Subscribe /\ client[c].tries < ClientRetries
    BY <1>1 DEF TransportFailure
  <1>2. CASE ~(client[c].op # Subscribe /\ client[c].tries < ClientRetries)
    <2>1. Finish(c, [kind |-> "unavailable"]) /\ client[c].op \in Ops
      BY <1>2 DEF TransportFailure, ClientInv
    <2>2. \A k, r : Service!Truthful(k, r, [kind |-> "unavailable"])
      BY DEF Service!Truthful
    <2>. QED
      BY <2>1, <2>2, FinishTells
  <1>. QED
    BY <1>1, <1>2

\* What each step of Operations does to the invariant and to the service.
Kept == ServiceInv' /\ [Service!Next]_<<jobs, answers>>

\* A client that starts an operation (cli.rs) has a new id and no answer yet.
LEMMA BeginKeeps ==
  ASSUME ServiceInv, NEW c \in Clients, Begin(c) PROVE Kept
  <1>1. PICK op \in Ops : client' = [client EXCEPT ![c] = [pc |-> "connect",
                                        run |-> client[c].run + 1, tries |-> 1, op |-> op]]
    BY Zenon DEF Begin
  <1>2. ClientInv'
    BY <1>1 DEF ServiceInv, ClientInv, Ops
  <1>3. Aging
    BY <1>1 DEF ServiceInv, ClientInv, Aging, Past, Ids
  <1>4. \A k \in conns : k.op = Subscribe => client'[k.id.client] = client[k.id.client]
    BY <1>1 DEF Begin, ServiceInv, ClientInv, ConnInv, Listens, Past, Ids
  <1>5. Quiet
    BY <1>1, <1>4 DEF Begin, Quiet, ServiceInv, ClientInv, ConnInv, InboxInv, Waits,
                      serverVars, tables
  <1>. QED
    BY <1>2, <1>3, <1>5, QuietStep, ZenonT(30) DEF Kept, Begin, tables

\* The new connection is the only one its client listens to.
LEMMA ConnectKeeps ==
  ASSUME ServiceInv, NEW c \in Clients, Connect(c) PROVE Kept
  <1>1. CASE ~Listening
    <2>1. ClientInv' /\ Aging /\ NoNewWaiters
      BY <1>1, FailureAges DEF Connect, ServiceInv
    <2>2. \A k \in conns : k.op = Subscribe => client'[k.id.client] = client[k.id.client]
      <3>1. \A d \in Clients \ {c} : client'[d] = client[d]
        BY <1>1 DEF Connect, TransportFailure, Finish, ServiceInv, ClientInv
      <3>. QED
        BY <3>1 DEF Connect, ServiceInv, ConnInv, Listens, Past, Ids
    <2>3. Quiet
      BY <1>1, <2>1, <2>2 DEF Connect, Quiet, NoNewWaiters, ServiceInv, ConnInv, InboxInv, Waits,
                              serverVars, tables
    <2>4. [Service!Next]_<<jobs, answers>>
      BY <1>1, FailureTells DEF Connect, ServiceInv, tables
    <2>. QED
      BY <2>1, <2>3, <2>4, QuietStep DEF Kept
  <1>2. CASE Listening
    <2> DEFINE new == [id |-> Id(c), op |-> client[c].op, phase |-> "backlog"]
    <2>1. /\ client[c].pc = "connect"
          /\ conns' = conns \cup {new}
          /\ client' = [client EXCEPT ![c].pc = "wait"]
          /\ UNCHANGED <<inbox, sending, operations, jobs, answers>>
      BY <1>2 DEF Connect, serverVars, tables
    <2>2. client[c] \in [pc : {"idle", "connect", "wait"}, run : Nat, tries : Nat,
                         op : Ops \cup {None}] /\ client[c].op \in Ops
      BY <2>1 DEF ServiceInv, ClientInv
    <2>3. /\ client'[c].pc = "wait" /\ client'[c].run = client[c].run
          /\ client'[c].tries = client[c].tries /\ client'[c].op = client[c].op
          /\ \A d \in Clients \ {c} : client'[d] = client[d]
      BY <2>1, <2>2 DEF ServiceInv, ClientInv
    <2>4. ClientInv'
      BY <2>1, <2>2 DEF ServiceInv, ClientInv, Ops
    <2>5. Aging
      BY <2>1, <2>3, <2>2 DEF Aging, Past, Ids
    <2>6. Id(c) \in Ids /\ ~Past(Id(c)) /\ Past(Id(c))' /\ Id(c)' = Id(c)
      BY <2>1, <2>2, <2>3, SMTT(30) DEF Id, Ids, Past
    <2>7. new \in Connections /\ new.id = Id(c) /\ new.op = client[c].op
      BY <2>2, <2>6 DEF Connections
    <2>8. ConnInv'
      <3>1. conns' \subseteq Connections /\ Unique(conns')
        BY <2>1, <2>6, <2>7 DEF ServiceInv, ConnInv, Unique
      <3>2. \A k \in conns' : Past(k.id)'
        BY <2>1, <2>5, <2>6, <2>7, Zenon DEF ServiceInv, ConnInv, Aging
      <3>3. ASSUME NEW k \in conns', Listens(k)' PROVE client'[k.id.client].op = k.op
        <4>1. CASE k = new
          BY <4>1, <2>3, <2>6, <2>7, Zenon DEF Id
        <4>2. CASE k # new
          <5>1. k \in conns /\ k.id.client \in Clients /\ k.id # Id(c)
            BY <4>2, <2>1, <2>6 DEF ServiceInv, ConnInv, Past, Ids
          <5>2. k.id.client # c
            BY <3>3, <5>1, <2>6 DEF Listens
          <5>. QED
            BY <3>3, <5>1, <5>2, <2>3, ZenonT(30) DEF Listens, Id, ServiceInv, ConnInv
        <4>. QED
          BY <4>1, <4>2, Zenon
      <3>4. ASSUME NEW k \in conns', k.op = Subscribe PROVE Listens(k)'
        <4>1. CASE k = new
          <5>1. k.id = Id(c)' /\ k.id.client = c
            BY <4>1, <2>6, <2>7, ZenonT(30) DEF Id
          <5>. QED
            BY <5>1, <2>3, Zenon DEF Listens
        <4>2. CASE k # new
          <5>1. k \in conns /\ Listens(k) /\ k.id.client \in Clients
            BY <3>4, <4>2, <2>1 DEF ServiceInv, ConnInv, Past, Ids
          <5>2. k.id.client # c
            BY <5>1, <2>1 DEF Listens
          <5>. QED
            BY <5>1, <5>2, <2>3 DEF Listens, Id
        <4>. QED
          BY <4>1, <4>2
      <3>. QED
        BY <3>1, <3>2, <3>3, <3>4 DEF ConnInv, Connections, Unique, Ids, Ops
    <2>9. InboxInv'
      BY <2>1, <2>5, <2>6, <2>7 DEF ServiceInv, InboxInv, Waits, Aging
    <2>10. SendInv'
      <3>1. \A k, r, a : Service!Truthful(k, r, a)' <=> Service!Truthful(k, r, a)
        BY <2>1 DEF Service!Truthful, Service!EffectOf
      <3>. QED
        BY <3>1, <2>1, <2>5, <2>6, <2>7, Zenon DEF ServiceInv, SendInv, Aging
    <2>11. TableInv'
      BY <2>1, Zenon DEF ServiceInv, TableInv, Service!EffectOf, RecordedAs
    <2>. QED
      BY <2>1, <2>4, <2>8, <2>9, <2>10, <2>11, ZenonT(30) DEF Kept, ServiceInv
  <1>. QED
    BY <1>1, <1>2

\* A client that gives up leaves only connections it no longer listens to.
LEMMA GiveUpKeeps ==
  ASSUME ServiceInv, NEW c \in Clients, GiveUp(c) PROVE Kept
  <1>1. ClientInv' /\ Aging /\ NoNewWaiters
    BY FailureAges DEF GiveUp, ServiceInv
  <1>2. \A d \in Clients \ {c} : client'[d] = client[d]
    BY DEF GiveUp, TransportFailure, Finish, ServiceInv, ClientInv
  <1>3. ASSUME NEW k \in conns, k.op = Subscribe
        PROVE  client'[k.id.client] = client[k.id.client]
    <2>1. Listens(k) /\ client[k.id.client].op = Subscribe /\ k.id.client \in Clients
      BY <1>3 DEF ServiceInv, ConnInv, Past, Ids
    <2>2. k.id.client # c
      BY <2>1 DEF GiveUp, Listens
    <2>. QED
      BY <1>2, <2>1, <2>2, ZenonT(30)
  <1>4. Quiet
    BY <1>1, <1>3 DEF GiveUp, Quiet, NoNewWaiters, ServiceInv, ConnInv, InboxInv, Waits,
                      serverVars, tables
  <1>5. [Service!Next]_<<jobs, answers>>
    BY FailureTells DEF GiveUp, ServiceInv, tables
  <1>. QED
    BY <1>1, <1>4, <1>5, QuietStep DEF Kept

\* A client's answer leaves no connection on which another subscription of the
\* same client would wait.
LEMMA FinishedClient ==
  ASSUME ServiceInv, NEW k \in conns, Listens(k), NEW answer, Finish(k.id.client, answer)
  PROVE  \A l \in conns \ {k} : l.op = Subscribe => client'[l.id.client] = client[l.id.client]
  <1> SUFFICES ASSUME NEW l \in conns, l # k, l.op = Subscribe
               PROVE  client'[l.id.client] = client[l.id.client]
    OBVIOUS
  <1>1. Listens(l) /\ l.id.client \in Clients /\ l.id # k.id
    BY DEF ServiceInv, ConnInv, Unique, Past, Ids
  <1>2. l.id.client # k.id.client
    BY <1>1 DEF Listens
  <1>. QED
    BY <1>1, <1>2 DEF Finish, ServiceInv, ClientInv

\* A subscriber that hangs up takes its stream along.
LEMMA HangUpKeeps ==
  ASSUME ServiceInv, NEW c \in Clients, HangUp(c) PROVE Kept
  <1>1. PICK k \in Streams : k.id = Id(c) /\ conns' = conns \ {k}
    BY Zenon DEF HangUp
  <1>2. k \in conns /\ k.id.client = c /\ Listens(k)
    BY <1>1 DEF Streams, Listens, Id, HangUp
  <1>3. Finish(c, [kind |-> "unavailable"]) /\ client[c].op \in Ops
    BY DEF HangUp, ServiceInv, ClientInv
  <1>4. ClientInv' /\ Aging /\ NoNewWaiters
    BY <1>3, FinishAges DEF ServiceInv
  <1>5. \A l \in conns' : l.op = Subscribe => client'[l.id.client] = client[l.id.client]
    BY <1>1, <1>2, <1>3, FinishedClient, ZenonT(30)
  <1>6. Quiet
    BY <1>1, <1>4, <1>5 DEF HangUp, Quiet, NoNewWaiters, ServiceInv, ConnInv, Unique, InboxInv,
                            Waits, serverVars, tables
  <1>7. \A q, r : Service!Truthful(q, r, [kind |-> "unavailable"])
    BY DEF Service!Truthful
  <1>8. [Service!Next]_<<jobs, answers>>
    BY <1>3, <1>7, FinishTells DEF HangUp, tables
  <1>. QED
    BY <1>4, <1>6, <1>8, QuietStep, Zenon DEF Kept

\* A connection keeps its id and its request from phase to phase.
LEMMA SetConnection ==
  ASSUME ServiceInv, NEW k \in conns, NEW p \in {"open", "asked", "stream"}
  PROVE  /\ Set(k, p) \subseteq Connections /\ Unique(Set(k, p))
         /\ \A l \in Set(k, p) : \E m \in conns : m.id = l.id /\ m.op = l.op
  <1>1. conns \subseteq Connections /\ Unique(conns)
    BY DEF ServiceInv, ConnInv
  <1> DEFINE new == [k EXCEPT !.phase = p]
  <1>2. new \in Connections /\ new.id = k.id /\ new.op = k.op
    BY <1>1 DEF Connections
  <1> HIDE DEF new
  <1>3. Set(k, p) = (conns \ {k}) \cup {new}
    BY DEF Set, new
  <1>. QED
    BY <1>1, <1>2, <1>3 DEF Unique

\* A step that moves no client and no answer.
LEMMA StillClients ==
  ASSUME ServiceInv, UNCHANGED client
  PROVE  ClientInv' /\ Aging
  BY DEF ServiceInv, ClientInv, Aging, Past, Ops

\* Connections are accepted or dropped, asked for, or turned into streams.
LEMMA ConnectionKeeps ==
  ASSUME ServiceInv, NEW k \in conns, Accept(k) \/ Ask(k) \/ OpenStream(k) PROVE Kept
  <1>1. CASE Accept(k)
    <2>1. /\ conns' \subseteq Connections /\ Unique(conns')
          /\ \A l \in conns' : \E m \in conns : m.id = l.id /\ m.op = l.op
      <3>1. CASE conns' = Set(k, "open")
        BY <3>1, SetConnection
      <3>2. CASE conns' = conns \ {k}
        BY <3>2, Zenon DEF ServiceInv, ConnInv, Unique
      <3>. QED
        BY <1>1, <3>1, <3>2, Zenon DEF Accept
    <2>2. Quiet
      BY <1>1, <2>1 DEF Accept, Quiet, ServiceInv, InboxInv, Waits, serverVars
    <2>. QED
      BY <1>1, <2>2, StillClients, QuietStep, Zenon DEF Accept, Kept, tables
  <1>2. CASE Ask(k)
    <2>1. k.id \in Ids /\ inbox \in Seq(Ids \cup {Shutdown}) /\ inbox' = Append(inbox, k.id)
      BY <1>2 DEF Ask, ServiceInv, ConnInv, InboxInv, Past
    <2>2. inbox' \in Seq(Ids \cup {Shutdown})
      BY <2>1
    <2>3. \A i \in 1 .. Len(inbox') :
            inbox'[i] = k.id \/ \E j \in 1 .. Len(inbox) : inbox'[i] = inbox[j]
      BY <2>1
    <2>4. \A id \in Ids : Waits(id)' => Waits(id) \/ id = k.id
      BY <2>3, Zenon DEF Waits
    <2>5. Quiet
      BY <1>2, <2>2, <2>4, SetConnection, Zenon DEF Ask, Quiet
    <2>. QED
      BY <1>2, <2>5, StillClients, QuietStep, Zenon DEF Ask, Kept, tables
  <1>3. CASE OpenStream(k) /\ Cardinality(Streams) < max_subscriptions
    <2>1. conns' = Set(k, "stream") /\ UNCHANGED <<client, answers, inbox, sending, tables>>
      BY <1>3 DEF OpenStream, serverVars
    <2>2. Quiet
      BY <2>1, SetConnection DEF Quiet, ServiceInv, InboxInv, Waits
    <2>. QED
      BY <2>1, <2>2, StillClients, QuietStep, Zenon DEF Kept, tables
  <1>4. CASE OpenStream(k) /\ ~(Cardinality(Streams) < max_subscriptions)
    <2> DEFINE c == k.id.client
    <2>1. /\ conns' = conns \ {k} /\ Finish(c, [kind |-> "rejected"])
          /\ UNCHANGED <<inbox, sending, tables>>
      BY <1>4, Zenon DEF OpenStream, serverVars
    <2>2. Listens(k) /\ c \in Clients /\ client[c].op = Subscribe
      BY <1>4 DEF OpenStream, ServiceInv, ConnInv, Past, Ids
    <2>3. ClientInv' /\ Aging /\ NoNewWaiters
      BY <2>1, <2>2, FinishAges, Zenon DEF ServiceInv
    <2>4. \A l \in conns' : l.op = Subscribe => client'[l.id.client] = client[l.id.client]
      BY <2>1, <2>2, FinishedClient, Zenon
    <2>5. Quiet
      BY <2>1, <2>3, <2>4, Zenon
      DEF Quiet, NoNewWaiters, ServiceInv, ConnInv, Unique, InboxInv, Waits
    <2>6. [Service!Next]_<<jobs, answers>>
      BY <2>1, <2>2, Zenon DEF Finish, tables
    <2>. QED
      BY <2>3, <2>5, <2>6, QuietStep, Zenon DEF Kept
  <1>. QED
    BY <1>1, <1>2, <1>3, <1>4, Zenon

\* The coordinator answers the first request in its inbox: the answer is true
\* of the tables it leaves, and at most one job is added, for a key without one.
LEMMA HandleRequestKeeps ==
  ASSUME ServiceInv, HandleRequest PROVE Kept
  <1>1. PICK k \in conns : k.id = Head(inbox) /\ handle_mutation(k.id, k.op)
    BY DEF HandleRequest
  <1>2. /\ inbox # <<>> /\ Head(inbox) # Shutdown /\ inbox' = Tail(inbox)
        /\ UNCHANGED <<conns, client, answers>>
    BY DEF HandleRequest, Coordinating
  <1>3. inbox \in Seq(Ids \cup {Shutdown}) /\ k.id \in Ids /\ Past(k.id)
    BY DEF ServiceInv, InboxInv, ConnInv, Past
  <1>4. Waits(k.id)
    BY <1>1, <1>2, <1>3 DEF Waits
  <1>5. k.op # Subscribe
    BY <1>3, <1>4 DEF ServiceInv, InboxInv
  <1>6. k.op \in [key : Keys, request : Requests]
    BY <1>5 DEF ServiceInv, ConnInv, Connections, Ops
  <1>7. ClientInv' /\ Aging
    BY <1>2, StillClients, ZenonT(30)
  <1>8. ConnInv'
    BY <1>2 DEF ServiceInv, ConnInv, Connections, Unique, Past, Ids, Listens, Id, Ops
  <1>9. InboxInv'
    <2>1. inbox' \in Seq(Ids \cup {Shutdown})
      BY <1>2, <1>3
    <2>2. \A i \in 1 .. Len(inbox') : inbox'[i] = inbox[i + 1] /\ i + 1 \in 1 .. Len(inbox)
      BY <1>2, <1>3
    <2>3. \A id \in Ids : Waits(id)' => Waits(id)
      BY <2>2 DEF Waits
    <2>. QED
      BY <1>2, <1>7, <2>1, <2>3 DEF ServiceInv, InboxInv, Aging
  <1> DEFINE key == k.op.key
             req == k.op.request
             row == operations[key]
  <1>10. key \in Keys /\ req \in Requests /\ k.op = [key |-> key, request |-> req]
    BY <1>6
  <1>11. ASSUME NEW answer, Respond(k.id, answer), Service!Truthful(key, req, answer)'
         PROVE  SendInv'
    <2>1. sending'.id = k.id /\ sending'.answer = answer
      BY <1>11 DEF Respond
    <2>2. \A l \in conns' : l.id = k.id => l = k
      BY <1>2 DEF ServiceInv, ConnInv, Unique
    <2>. QED
      BY <1>3, <1>5, <1>7, <1>11, <2>1, <2>2, ZenonT(30) DEF SendInv, Aging
  <1>12. TableInv
    BY DEF ServiceInv
  <1>13. ASSUME UNCHANGED tables
         PROVE  /\ TableInv' /\ [Service!Next]_<<jobs, answers>>
                /\ \A q, r, a : Service!Truthful(q, r, a)' <=> Service!Truthful(q, r, a)
    BY <1>2, <1>12, <1>13 DEF TableInv, tables, Service!EffectOf, Service!Truthful, RecordedAs
  <1> DEFINE matches == row.hash \in {request_hash(req), legacy_v5_request_hash(req)}
  <1>14. CASE row # None /\ UNCHANGED tables
              /\ Respond(k.id, IF matches THEN [kind |-> "ok", job |-> row.reply]
                               ELSE [kind |-> "conflict"])
    <2>1. /\ row.reply \in Service!EffectOf(key) /\ row.hash \in Hashes
          /\ RecordedAs(row.hash, jobs[row.reply].request)
      BY <1>10, <1>12, <1>14 DEF TableInv
    <2>2. row.reply \in DOMAIN jobs /\ jobs[row.reply].request \in Requests
      <3>1. row.reply \in DOMAIN jobs
        BY <2>1 DEF Service!EffectOf
      <3> DEFINE Job == [key : Keys, request : Requests]
      <3>2. jobs \in Seq(Job)
        BY <1>12 DEF TableInv
      <3> HIDE DEF Job, row
      <3>3. \A i \in DOMAIN jobs : jobs[i] \in Job
        BY <3>2
      <3>4. jobs[row.reply] \in Job
        BY <3>1, <3>3, Zenon
      <3>. QED
        BY <3>1, <3>4, Zenon DEF Job
    <2>3. CASE matches
      <3>1. SameJob(jobs[row.reply].request, req)
        BY <1>10, <2>1, <2>2, <2>3, MatchMeansSameJob, Zenon
      <3>2. Service!Truthful(key, req, [kind |-> "ok", job |-> row.reply])
        BY <2>1, <3>1, Zenon DEF Service!Truthful
      <3>3. Respond(k.id, [kind |-> "ok", job |-> row.reply])
        BY <1>14, <2>3, Zenon
      <3>. QED
        BY <1>7, <1>8, <1>9, <1>11, <1>13, <1>14, <3>2, <3>3, ZenonT(30) DEF Kept, ServiceInv
    <2>4. CASE ~matches
      <3>1. Service!Truthful(key, req, [kind |-> "conflict"])
        BY <2>1, Zenon DEF Service!Truthful
      <3>2. Respond(k.id, [kind |-> "conflict"])
        BY <1>14, <2>4
      <3>. QED
        BY <1>7, <1>8, <1>9, <1>11, <1>13, <1>14, <3>1, <3>2, ZenonT(30) DEF Kept, ServiceInv
    <2>. QED
      BY <2>3, <2>4, Zenon
  <1>15. CASE Respond(k.id, [kind |-> "rejected"]) /\ UNCHANGED tables
    <2>1. Service!Truthful(key, req, [kind |-> "rejected"])
      BY DEF Service!Truthful
    <2>. QED
      BY <1>7, <1>8, <1>9, <1>11, <1>13, <1>15, <2>1, ZenonT(30) DEF Kept, ServiceInv
  <1>n. PICK n : n = Len(jobs) + 1
    OBVIOUS
  <1> DEFINE fresh == [hash |-> request_hash(req), reply |-> n]
  <1>16. CASE /\ row = None /\ jobs' = Append(jobs, k.op)
              /\ operations' = [operations EXCEPT ![key] = fresh]
              /\ Respond(k.id, [kind |-> "ok", job |-> n])
    <2>1. /\ jobs \in Seq([key : Keys, request : Requests])
          /\ operations \in [Keys -> [hash : Hashes, reply : Nat] \cup {None}]
          /\ Service!EffectOf(key) = {}
      BY <1>10, <1>12, <1>16, Zenon DEF TableInv
    <2>2. /\ jobs' \in Seq([key : Keys, request : Requests])
          /\ DOMAIN jobs' = DOMAIN jobs \cup {n} /\ n \in Nat /\ n \notin DOMAIN jobs
          /\ jobs'[n] = k.op
          /\ \A i \in DOMAIN jobs : jobs'[i] = jobs[i]
      BY <1>6, <1>16, <1>n, <2>1, SMTT(30)
    <2>3. fresh \in [hash : Hashes, reply : Nat] /\ fresh # None
      BY <1>10, <2>2, RequestsAssumption, SMTT(30) DEF Hashes
    <2>4. Service!EffectOf(key)' = {n}
      BY <1>10, <2>1, <2>2, Zenon DEF Service!EffectOf
    <2>5. \A q \in Keys \ {key} : Service!EffectOf(q)' = Service!EffectOf(q)
      BY <1>10, <2>2, Zenon DEF Service!EffectOf
    <2>6. /\ operations' \in [Keys -> [hash : Hashes, reply : Nat] \cup {None}]
          /\ operations'[key] = fresh
          /\ \A q \in Keys \ {key} : operations'[q] = operations[q]
      BY <1>10, <1>16, <2>1, <2>3, Zenon
    <2>7. TableInv'
      <3>1. ASSUME NEW q \in Keys, operations'[q] = None PROVE Service!EffectOf(q)' = {}
        BY <1>12, <2>3, <2>5, <2>6, <3>1, Zenon DEF TableInv
      <3>2. ASSUME NEW q \in Keys, operations'[q] # None
            PROVE  /\ operations'[q].reply \in Service!EffectOf(q)'
                   /\ RecordedAs(operations'[q].hash, jobs'[operations'[q].reply].request)
        <4>1. CASE q = key
          BY <1>10, <2>2, <2>4, <2>6, <4>1, SMTT(30) DEF RecordedAs
        <4>2. CASE q # key
          <5>1. /\ operations[q].reply \in Service!EffectOf(q)
                /\ RecordedAs(operations[q].hash, jobs[operations[q].reply].request)
                /\ operations'[q] = operations[q]
            BY <1>12, <2>6, <3>2, <4>2, Zenon DEF TableInv
          <5>2. operations[q].reply \in DOMAIN jobs
            BY <5>1 DEF Service!EffectOf
          <5>3. jobs'[operations[q].reply] = jobs[operations[q].reply]
            BY <2>2, <5>2
          <5>. QED
            BY <2>5, <4>2, <5>1, <5>3, Zenon
        <4>. QED
          BY <4>1, <4>2, Zenon
      <3>. QED
        BY <2>2, <2>6, <3>1, <3>2, Zenon DEF TableInv, Hashes, RecordedAs
    <2>8. Service!Truthful(key, req, [kind |-> "ok", job |-> n])'
      <3>1. SameJob(jobs'[n].request, req)
        BY <1>10, <2>2, Zenon DEF SameJob
      <3>. QED
        BY <2>4, <3>1 DEF Service!Truthful
    <2>9. Service!Apply(key, req)
      BY <1>2, <1>10, <1>16, <2>1, Zenon DEF Service!Apply
    <2>10. [Service!Next]_<<jobs, answers>>
      BY <1>10, <2>9 DEF Service!Next
    <2>. QED
      BY <1>7, <1>8, <1>9, <1>11, <1>16, <2>7, <2>8, <2>10, ZenonT(30) DEF Kept, ServiceInv
  <1>. QED
    BY <1>1, <1>14, <1>15, <1>16, <1>n, ZenonT(30) DEF handle_mutation

\* A reply reaches the client that still listens, and nobody else.
LEMMA ReplyKeeps ==
  ASSUME ServiceInv, Reply PROVE Kept
  <1>1. PICK k \in conns :
           /\ k.id = sending.id /\ conns' = conns \ {k}
           /\ IF Listens(k) THEN Finish(k.id.client, sending.answer)
              ELSE UNCHANGED <<client, answers>>
    BY Zenon DEF Reply
  <1>2. sending # None /\ sending' = None /\ UNCHANGED <<inbox, tables>>
    BY Zenon DEF Reply
  <1>3. k.op # Subscribe /\ Service!Truthful(k.op.key, k.op.request, sending.answer)
    BY <1>1, <1>2 DEF ServiceInv, SendInv
  <1>4. CASE Listens(k)
    <2> DEFINE c == k.id.client
    <2>1. /\ c \in Clients /\ client[c].op = k.op /\ client[c].op \in Ops
          /\ Finish(c, sending.answer)
      BY <1>1, <1>4, Zenon DEF ServiceInv, ClientInv, ConnInv, Connections, Past, Ids
    <2>2. ClientInv' /\ Aging /\ NoNewWaiters
      BY <2>1, FinishAges, Zenon DEF ServiceInv
    <2>3. \A l \in conns' : l.op = Subscribe => client'[l.id.client] = client[l.id.client]
      BY <1>1, <1>4, <2>1, FinishedClient, Zenon
    <2>4. Quiet
      BY <1>1, <1>2, <2>2, <2>3, Zenon
      DEF Quiet, NoNewWaiters, ServiceInv, ConnInv, Unique, InboxInv, Waits
    <2>5. [Service!Next]_<<jobs, answers>>
      BY <1>2, <1>3, <2>1, FinishTells, Zenon DEF tables
    <2>. QED
      BY <2>2, <2>4, <2>5, QuietStep, Zenon DEF Kept
  <1>5. CASE ~Listens(k)
    <2>1. UNCHANGED <<client, answers>>
      BY <1>1, <1>5, ZenonT(30)
    <2>2. Quiet
      BY <1>1, <1>2, <2>1 DEF Quiet, ServiceInv, ConnInv, Unique, InboxInv, Waits
    <2>. QED
      BY <1>2, <2>1, <2>2, StillClients, QuietStep, Zenon DEF Kept, tables
  <1>. QED
    BY <1>4, <1>5, Zenon

\* Daemons that start, stop or die drop connections and messages, no more.
LEMMA DaemonKeeps ==
  ASSUME ServiceInv, UNCHANGED <<client, answers, tables>>, conns' \subseteq conns,
         inbox' \in {inbox, <<>>, Append(inbox, Shutdown)}, sending' \in {None, sending}
  PROVE  Kept
  <1>1. inbox \in Seq(Ids \cup {Shutdown})
    BY DEF ServiceInv, InboxInv
  <1> DEFINE Kinds == Ids \cup {Shutdown}
  <1> HIDE DEF Kinds
  <1>2. inbox \in Seq(Kinds) /\ Shutdown \in Kinds
    BY <1>1 DEF Kinds
  <1>3. /\ inbox' \in Seq(Kinds)
        /\ \A i \in 1 .. Len(inbox') :
              inbox'[i] = Shutdown \/ \E j \in 1 .. Len(inbox) : inbox'[i] = inbox[j]
    <2>1. CASE inbox' = inbox
      BY <1>2, <2>1
    <2>2. CASE inbox' = <<>>
      BY <2>2
    <2>3. CASE inbox' = Append(inbox, Shutdown)
      BY <1>2, <2>3
    <2>. QED
      BY <2>1, <2>2, <2>3
  <1>4. \A id \in Ids : Waits(id)' => Waits(id)
    BY <1>3 DEF Waits
  <1>5. Quiet
    BY <1>3, <1>4 DEF Kinds, Quiet, ServiceInv, ConnInv, Unique
  <1>. QED
    BY <1>5, StillClients, QuietStep DEF Kept, tables

\* Every step of Operations keeps the invariant and is a step of the service.
LEMMA StepKeeps ==
  ASSUME ServiceInv, [Next]_vars PROVE Kept
  <1>1. ASSUME NEW c \in Clients, ClientStep(c) PROVE Kept
    BY <1>1, BeginKeeps, ConnectKeeps, GiveUpKeeps, HangUpKeeps, Zenon DEF ClientStep
  <1>2. CASE ConnectionStep
    BY <1>2, ConnectionKeeps DEF ConnectionStep
  <1>3. CASE HandleRequest \/ Reply
    BY <1>3, HandleRequestKeeps, ReplyKeeps, Zenon
  <1>4. ASSUME NEW d \in Daemons, RemoveStaleSocket(d) \/ Bind(d) \/ Unlock(d) \/ TakeLock(d)
        PROVE  Kept
    BY <1>4, DaemonKeeps, Zenon DEF RemoveStaleSocket, Bind, Unlock, TakeLock
  <1>5. ASSUME NEW d \in Daemons, HandleShutdown(d) \/ Unlink(d) \/ Stop(d) \/ Crash(d)
        PROVE  Kept
    BY <1>5, DaemonKeeps DEF HandleShutdown, Unlink, Stop, Crash, Accepted
  <1>6. CASE UNCHANGED vars
    BY <1>6, DaemonKeeps, Zenon DEF vars, serverVars
  <1>. QED
    BY <1>1, <1>2, <1>3, <1>4, <1>5, <1>6, Zenon DEF Next, DaemonStep

\* The tables a daemon finds, empty or written by a v5 daemon, are a state of
\* the service.
LEMMA InitKeeps ==
  ASSUME Init PROVE ServiceInv /\ Service!Init
  <1>1. /\ conns = {} /\ inbox = <<>> /\ sending = None /\ answers = {}
        /\ client = [c \in Clients |-> [pc |-> "idle", run |-> 0, tries |-> 1, op |-> None]]
    BY DEF Init, Idlers
  <1>2. ClientInv
    BY <1>1, Zenon DEF ClientInv
  <1>3. ConnInv /\ InboxInv /\ SendInv
    BY <1>1, SMTT(30) DEF ConnInv, Unique, InboxInv, SendInv, Waits
  <1>4. CASE jobs = <<>> /\ operations = [k \in Keys |-> None]
    BY <1>1, <1>2, <1>3, <1>4, SMTT(30) DEF ServiceInv, TableInv, Service!EffectOf, Service!Init
  <1>5. ASSUME NEW old \in Keys, NEW r \in Requests, ~r.recent,
               jobs = <<[key |-> old, request |-> r]>>,
               operations = [k \in Keys |-> IF k # old THEN None ELSE
                                [hash |-> legacy_v5_request_hash(r), reply |-> 1]]
        PROVE  TableInv /\ Service!Init
    <2> DEFINE row == [hash |-> legacy_v5_request_hash(r), reply |-> 1]
    <2>1. row \in [hash : Hashes, reply : Nat] /\ row # None
      BY <1>5, RequestsAssumption DEF Hashes
    <2>2. DOMAIN jobs = {1} /\ jobs[1].key = old /\ jobs[1].request = r
      BY <1>5
    <2>3. \A k \in Keys : Service!EffectOf(k) = IF k = old THEN {1} ELSE {}
      BY <2>2 DEF Service!EffectOf
    <2>4. jobs \in Seq([key : Keys, request : Requests])
      BY <1>5
    <2>5. row.hash = legacy_v5_request_hash(r) /\ row.reply = 1
      OBVIOUS
    <2> HIDE DEF row
    <2>6. /\ operations \in [Keys -> [hash : Hashes, reply : Nat] \cup {None}]
          /\ \A k \in Keys : operations[k] = IF k # old THEN None ELSE row
      BY <1>5, <2>1, Zenon DEF row
    <2>7. TableInv
      BY <1>5, <2>1, <2>2, <2>3, <2>4, <2>5, <2>6, ZenonT(30) DEF TableInv, RecordedAs
    <2>. QED
      BY <1>1, <1>5, <2>7, ZenonT(30) DEF Service!Init
  <1>. QED
    BY <1>2, <1>3, <1>4, <1>5, Zenon DEF Init, ServiceInv

\* Whatever clients, connections, daemons and crashes do, a key has at most one
\* effect and every answer is the answer of that effect (handle_mutation).
THEOREM OperationsAreIdempotent == Spec => ImplementsService
  <1>1. Init => ServiceInv /\ Service!Init
    BY InitKeeps
  <1>2. ServiceInv /\ [Next]_vars => ServiceInv' /\ [Service!Next]_<<jobs, answers>>
    BY StepKeeps DEF Kept
  <1>. QED
    BY <1>1, <1>2, PTL DEF Spec, ImplementsService, Service!Spec

==============================================================================
