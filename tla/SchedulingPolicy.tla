-------------------------- MODULE SchedulingPolicy ---------------------------
(***************************************************************************)
(* The pure decisions of scheduler.rs and of the backfill window in db.rs: *)
(* the admission formula, the queue rank and the backfill frontier.        *)
(***************************************************************************)
EXTENDS Integers, FiniteSets

\* Mutant: the limits of the jobs already running are not looked at.
CandidateOnly(holders, lim, candidate) == Cardinality(holders) + 1 <= candidate

\* Mutant: the candidate itself is not counted.
CandidateNotCounted(holders, lim, candidate) ==
    /\ Cardinality(holders) <= candidate
    /\ \A k \in holders : Cardinality(holders) <= lim[k]

\* Mutant: a limit is exclusive.
StrictlyBelow(holders, lim, candidate) ==
    LET resulting == Cardinality(holders) + 1
    IN  resulting < candidate /\ \A k \in holders : resulting < lim[k]

\* |R| + 1 <= min(candidate, every r in R), for the holders R of a lease.
can_admit(holders, lim, candidate) ==
    LET resulting == Cardinality(holders) + 1
    IN  /\ resulting <= candidate
        /\ \A k \in holders : resulting <= lim[k]

\* Higher priority first, then the smaller readiness position.
RanksBefore(i, j, prio, ready) ==
    \/ prio[i] > prio[j]
    \/ prio[i] = prio[j] /\ ready[i] < ready[j]

\* i is the first of a set of candidates in queue order.
IsFirst(i, S, prio, ready) ==
    i \in S /\ \A j \in S \ {i} : RanksBefore(i, j, prio, ready)

\* A reservation's cutoff_seq while its backfill window is open.
Unfrozen == 0

\* The frontier admits a job: anyone while the window is open, afterwards only
\* jobs that were ready no later than the cutoff.
WithinFrontier(cutoff, seq) == cutoff = Unfrozen \/ seq <= cutoff
==============================================================================
