--------------------------- MODULE AttemptOutcomes ---------------------------
(***************************************************************************)
(* The states of an attempt row (domain.rs) and the terminal states that   *)
(* reconciliation may give it, whatever the attempt's runner left behind.  *)
(***************************************************************************)

AdvancingStates == {"prepared", "authorized", "running"}
LiveAttemptStates == AdvancingStates \cup {"orphaned", "quarantined"}
EndedAttemptStates == {"succeeded", "failed", "cancelled", "lost", "yielded"}

\* The outcomes of an attempt in this state, with these intents on its row.
OutcomesOf(state, cancelled, yielding) ==
    {"failed"}
    \cup (IF state # "prepared" THEN {"succeeded"} ELSE {})
    \cup (IF cancelled THEN {"cancelled"} ELSE {})
    \cup (IF yielding THEN {"yielded"} ELSE {})
    \cup (IF state = "orphaned" /\ ~cancelled THEN {"lost"} ELSE {})
==============================================================================
