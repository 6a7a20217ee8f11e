------------------------------- MODULE MCQueue -------------------------------
(***************************************************************************)
(* Small instances of Queue for TLC.                                       *)
(***************************************************************************)
EXTENDS Queue

Once == [maxAttempts |-> 1, retryDelay |-> FALSE, yields |-> FALSE]

Free(lims, prios, pols) ==
    {[limit |-> l, priority |-> p, policy |-> q, deps |-> {}] :
        l \in lims, p \in prios, q \in pols}

\* Admission: one priority, limits 1 to 3.
AdmissionSubmissions == Free({1, 2, 3}, {0}, {Once})

\* Backfill: a job that must run alone among jobs that may share, some of
\* which are retried and so come back after they have used their bypass.
BackfillSubmissions ==
    Free({1}, {0}, {Once}) \cup Free({2}, {0}, {[Once EXCEPT !.maxAttempts = 2]})

\* Priorities: two levels, jobs that share and jobs that do not.
PrioritySubmissions == Free({1, 2}, {0, 1}, {Once})

\* Dependencies: every job may depend on earlier ones in several ways.
After(p, c) == [job |-> p, condition |-> c]
DependencySubmissions ==
    {[limit |-> 1, priority |-> 0, policy |-> Once, deps |-> d] :
        d \in {{}, {After(1, "succeeded")}, {After(1, "terminal")},
               {After(2, "succeeded")},
               {After(1, "terminal"), After(1, "succeeded"), After(2, "terminal")}}}

\* Requeueing: delayed automatic retries, yields and what follows them.
RequeueSubmissions ==
    Free({1, 2}, {0}, {[maxAttempts |-> 2, retryDelay |-> TRUE, yields |-> TRUE]})

-----------------------------------------------------------------------------
(* Two families of jobs in one run.  A constraint keeps TLC from exploring  *)
(* every combination of the two: the cases of each family are complete, the *)
(* mixed ones are cut where both have had their effect.                     *)

\* Limits and priorities: a state may know ranks, holds and foreign
\* reservations, or a pause, raised limits, cancels and troubled attempts, not both.
MixedSubmissions == AdmissionSubmissions \cup PrioritySubmissions

Ranked ==
    \/ reservation.foreign
    \/ \E j \in Jobs : priority[j] = 1 \/ jobState[j] = "held"

Troubled ==
    \/ paused
    \/ \E j \in Jobs :
        \/ limit[j] = 3 \/ cancelRequested[j]
        \/ jobState[j] \in {"cancelled", "needs_attention"}
        \/ attempt[j] \in {"orphaned", "quarantined"}

OneKind == ~(Ranked /\ Troubled)

\* Dependencies and requeueing: three jobs with edges, two that yield.
HistorySubmissions == DependencySubmissions \cup RequeueSubmissions

OneFamily == lastJob = 3 => \A j \in Jobs : ~policy[j].yields /\ jobState[j] # "held"
==============================================================================
