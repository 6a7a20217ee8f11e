----------------------------- MODULE MCOperations -----------------------------
(***************************************************************************)
(* Instances of Operations for TLC: two spellings of one request and one   *)
(* request that differs, under a single key that both clients use.         *)
(***************************************************************************)
EXTENDS Operations

On(p, condition) == [job |-> p, condition |-> condition]

\* The same job asked for twice, in two spellings.
Plain == [deps |-> <<On(1, "succeeded")>>, recent |-> FALSE]
Redundant == [deps |-> <<On(1, "terminal"), On(1, "succeeded")>>, recent |-> FALSE]
\* Another job, with an option protocol v5 did not have.
Weaker == [deps |-> <<On(1, "terminal")>>, recent |-> TRUE]

SomeRequests == {Plain, Redundant, Weaker}

==============================================================================
