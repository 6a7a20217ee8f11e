-------------------------- MODULE IdempotentService --------------------------
(***************************************************************************)
(* What a client may rely on when it sends a mutation under an idempotency *)
(* key: "an identical retry returns the original result; a reused key with *)
(* a different payload conflicts" (coordinator.rs, handle_mutation).       *)
(* Nothing is said of connections, retries, crashes or daemons: Operations *)
(* is shown to implement this specification.                               *)
(***************************************************************************)
EXTENDS Naturals, Sequences

CONSTANTS Keys, Requests,
          SameJob(_, _)      \* the two requests ask for the same job

VARIABLES jobs,              \* the effects, in order: [key, request]
          answers            \* what clients were told: [key, request, answer]

\* A key that has had its effect, and the effect it had.
EffectOf(k) == {i \in DOMAIN jobs : jobs[i].key = k}

\* The first request under a key may take effect; no other request ever does.
Apply(k, r) ==
    /\ EffectOf(k) = {}
    /\ jobs' = Append(jobs, [key |-> k, request |-> r])
    /\ UNCHANGED answers

\* A successful answer names the one effect of the key, and that effect is
\* what this request asked for.  A conflict means that the key has had an
\* effect.  A rejection and a lost connection promise nothing.
Truthful(k, r, answer) ==
    \/ /\ answer.kind = "ok"
       /\ answer.job \in EffectOf(k)
       /\ SameJob(jobs[answer.job].request, r)
    \/ answer.kind = "conflict" /\ EffectOf(k) # {}
    \/ answer.kind \in {"rejected", "unavailable"}

Tell(k, r) ==
    /\ \E a \in answers' :
          /\ a.key = k /\ a.request = r
          /\ Truthful(k, r, a.answer)
          /\ answers' = answers \cup {a}
    /\ UNCHANGED jobs

Init ==
    /\ \/ jobs = <<>>
       \/ \E k \in Keys, r \in Requests : jobs = <<[key |-> k, request |-> r]>>
    /\ answers = {}

Next == \E k \in Keys, r \in Requests : Apply(k, r) \/ Tell(k, r)

Spec == Init /\ [][Next]_<<jobs, answers>>
==============================================================================
