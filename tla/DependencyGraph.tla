--------------------------- MODULE DependencyGraph ---------------------------
(***************************************************************************)
(* The job states of the queue and the pure part of the dependency graph:  *)
(* db.rs/advance_dependency_graph, which every transaction that ends a job *)
(* runs before it commits.  It latches the edges of terminal parents,      *)
(* cascades the skips to a fixed point and hands out readiness positions   *)
(* in job order.                                                           *)
(*                                                                         *)
(* An edge e[c][p] of child c on parent p is                               *)
(*   "none"                     no such row in the table dependencies;     *)
(*   "succeeded" | "terminal"   unresolved, with that condition;           *)
(*   "satisfied" | "violated"   latched.  The condition of a latched edge  *)
(*                              is never read again, so it is not kept.    *)
(***************************************************************************)
EXTENDS Integers, FiniteSets

WaitingStates == {"queued", "held"}
LiveStates == {"starting", "running", "needs_attention"}
TerminalStates == {"succeeded", "failed", "cancelled", "lost", "skipped"}

\* "absent" is a row that does not exist yet.
JobStates == {"absent"} \cup WaitingStates \cup LiveStates \cup TerminalStates

Conditions == {"succeeded", "terminal"}
EdgeStates == {"none", "satisfied", "violated"} \cup Conditions

\* A parent in this state can never satisfy a success requirement any more.
EndedBadly(s) == s \in TerminalStates \ {"succeeded"}

\* Duplicate declarations of one parent collapse to the stricter condition.
EdgeOf(deps, p) ==
    IF [job |-> p, condition |-> "succeeded"] \in deps THEN "succeeded"
    ELSE IF [job |-> p, condition |-> "terminal"] \in deps THEN "terminal"
    ELSE "none"

\* Mutant: one iteration of the cascade only.
DoomedAtOnce(st, e) ==
    [c \in DOMAIN st |->
        \E p \in DOMAIN st :
            \/ e[c][p] = "violated"
            \/ p < c /\ e[c][p] = "succeeded" /\ EndedBadly(st[p])]

\* Which jobs the cascade dooms: the loop of advance_dependency_graph runs to
\* a fixed point, which this function computes directly because the parent of
\* an edge always has the smaller id.
Doomed(st, e) ==
    LET doomed[c \in DOMAIN st] ==
            \E p \in DOMAIN st :
                \/ e[c][p] = "violated"
                \/ /\ p < c
                   /\ e[c][p] = "succeeded"
                   /\ \/ EndedBadly(st[p])
                      \/ st[p] \in WaitingStates /\ doomed[p]
    IN  doomed

SkippedBy(st, e) ==
    LET doomed == Doomed(st, e)
    IN  {c \in DOMAIN st : st[c] \in WaitingStates /\ doomed[c]}

StatesAfter(st, skipped) ==
    [c \in DOMAIN st |-> IF c \in skipped THEN "skipped" ELSE st[c]]

\* Latching one edge, given the state its parent has at the fixed point.
Resolve(edge, parent) ==
    IF edge \in Conditions /\ parent \in TerminalStates
    THEN IF edge = "terminal" \/ parent = "succeeded" THEN "satisfied" ELSE "violated"
    ELSE edge

Latched(st, e) ==
    [c \in DOMAIN st |-> [p \in DOMAIN st |-> Resolve(e[c][p], st[p])]]

\* Jobs that get a place in the FIFO: waiting, without one, retry delay over,
\* every edge satisfied.
NewlyReady(st, e, ready, delay) ==
    {c \in DOMAIN st :
        /\ st[c] \in WaitingStates
        /\ ready[c] = 0
        /\ delay[c] # "pending"
        /\ \A p \in DOMAIN st : e[c][p] \in {"none", "satisfied"}}

\* Mutant: one position for everybody who becomes ready in a transaction.
ReadyTogether(ready, skipped, new, counter) ==
    [c \in DOMAIN ready |->
        IF c \in new THEN counter + 1 ELSE IF c \in skipped THEN 0 ELSE ready[c]]

\* Positions are handed out in job order from the durable counter.
ReadyAfter(ready, skipped, new, counter) ==
    [c \in DOMAIN ready |->
        IF c \in new THEN counter + Cardinality({d \in new : d <= c})
        ELSE IF c \in skipped THEN 0 ELSE ready[c]]
==============================================================================
