-------------------------- MODULE AttemptLifecycle --------------------------
(***************************************************************************)
(* What the queue may assume of one attempt: the phases of its row, without *)
(* runners, artifact files or processes.  Queue takes these steps for every *)
(* live attempt; Attempt shows that the protocol between the coordinator,  *)
(* the runner and the attempt directory allows no others.                  *)
(***************************************************************************)
EXTENDS AttemptOutcomes

VARIABLES state, cancelRequested, yieldRequested

vars == <<state, cancelRequested, yieldRequested>>

Init == state = "prepared" /\ ~cancelRequested /\ ~yieldRequested

Move(from, to) ==
    /\ state \in from
    /\ state' = to
    /\ UNCHANGED <<cancelRequested, yieldRequested>>

Authorize == ~cancelRequested /\ Move({"prepared"}, "authorized")
ObserveExec == Move({"authorized"}, "running")
Orphan == Move({"running"}, "orphaned")
Quarantine == Move(LiveAttemptStates, "quarantined")
Finalize ==
    \E outcome \in OutcomesOf(state, cancelRequested, yieldRequested) :
        Move(LiveAttemptStates, outcome)
RecoverResolve ==
    \E outcome \in {"lost", "cancelled"} : Move({"orphaned", "quarantined"}, outcome)

\* Before authorization a cancel ends the attempt; later it is an intent.
Cancel ==
    /\ state \in LiveAttemptStates \ {"quarantined"}
    /\ cancelRequested' = TRUE
    /\ state' = IF state = "prepared" THEN "cancelled" ELSE state
    /\ yieldRequested' = yieldRequested

Yield ==
    /\ state = "running" /\ ~cancelRequested
    /\ yieldRequested' = TRUE
    /\ UNCHANGED <<state, cancelRequested>>

Next ==
    \/ Authorize \/ ObserveExec \/ Orphan \/ Quarantine \/ Finalize
    \/ Cancel \/ Yield \/ RecoverResolve

Spec == Init /\ [][Next]_vars
==============================================================================
