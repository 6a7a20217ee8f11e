------------------------------- MODULE MCFollow -------------------------------
\* A follower with two checks, so that a batch can be cut between them; with
\* one check that may fail and carries metric steps; with hooks behind a mailbox
\* that fills; with lifecycle events only; with more keys than may be active.
EXTENDS Follow

CONSTANTS k1, k2

SomeConfigurations ==
    {[checks |-> 2, keys |-> {k1}, fails |-> FALSE, steps |-> {None}, events |-> {"warning"},
      hooked |-> {}],
     [checks |-> 1, keys |-> {k1}, fails |-> TRUE, steps |-> {None, 1}, events |-> {"warning"},
      hooked |-> {}],
     [checks |-> 1, keys |-> {k1}, fails |-> FALSE, steps |-> {None}, events |-> {"warning"},
      hooked |-> {"warning", "finished"}],
     [checks |-> 1, keys |-> {k1}, fails |-> TRUE, steps |-> {None},
      events |-> {"started", "retry", "attention"},
      hooked |-> {"retry", "finished"}],
     [checks |-> 1, keys |-> {k1, k2}, fails |-> FALSE, steps |-> {None}, events |-> {"warning"},
      hooked |-> {}]}

==============================================================================
