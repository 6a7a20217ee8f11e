------------------------------ MODULE Operations ------------------------------
(***************************************************************************)
(* Mutations from the client's socket to the table operations and back:    *)
(* client.rs/request with its transport retries, the daemon's lock,        *)
(* socket, connection and subscription budgets (daemon/mod.rs), and        *)
(* Coordinator::handle_mutation with its idempotency record.               *)
(*                                                                         *)
(* A connection outlives the client that gave up on it: its request may be *)
(* read and applied after the client has retried, or has gone.  A daemon   *)
(* may be killed at any step, be stopped by a signal, and another may be   *)
(* started while the first still shuts down.                               *)
(*                                                                         *)
(* A request is abstracted to what its hash and its effect depend on: a    *)
(* submission's dependency list as the caller wrote it, and whether it     *)
(* carries an option protocol v5 did not have (recent).                    *)
(***************************************************************************)
EXTENDS Naturals, Sequences, FiniteSets, SequencesExt

CONSTANTS
    Clients,           \* mlq processes, one invocation after another
    Daemons,           \* mlqd processes that may be started
    Keys,              \* idempotency keys; an operator may reuse one
    Requests,          \* [deps: Seq([job, condition]), recent: BOOLEAN]
    ClientRetries,     \* CLIENT_RETRIES
    MaxConnections,    \* config.max_connections
    MaxRuns,           \* bound: invocations per client
    Subscribe,         \* the operation that opens a snapshot stream
    Shutdown,          \* the message that stops the coordinator
    None

ASSUME ConstantsAssumption ==
    /\ ClientRetries \in Nat \ {0}
    /\ MaxConnections \in Nat \ {0}
    /\ MaxRuns \in Nat
    /\ None \notin Daemons

VARIABLES
    phase,        \* [Daemons -> "down", "locked", "clean", "serving", ... "unlinked"]
    lock,         \* holder of the flock on the daemon lock file
    socket,       \* what the socket path names: a daemon, "stale" or None
    conns,        \* connections the kernel or the daemon holds
    inbox,        \* the coordinator's mpsc channel
    sending,      \* committed response not yet delivered, or None
    operations,   \* table operations: [Keys -> row or None]
    jobs,         \* table jobs: [key, request] in id order
    client,       \* [Clients -> state of the mlq process]
    answers       \* history: what the clients were told

serverVars == <<phase, lock, socket, inbox, sending>>
tables == <<operations, jobs>>
vars == <<serverVars, conns, tables, client, answers>>

\* A subscription carries no key; a mutation always does (cli.rs/main).
Ops == [key : Keys, request : Requests] \cup {Subscribe}

------------------------------------------------------------------------------
\* protocol.rs: the hash that decides whether two requests are the same.

\* Declarations that a success requirement on the same parent makes redundant
\* are dropped; order and repetition do not matter.
request_hash(r) ==
    [version |-> 6, recent |-> r.recent,
     deps |-> {d \in ToSet(r.deps) :
                  \/ d.condition = "succeeded"
                  \/ [d EXCEPT !.condition = "succeeded"] \notin ToSet(r.deps)}]

\* The parents named under a condition, in the order they were written.
Parents(r, condition) ==
    LET parents[n \in 0 .. Len(r.deps)] ==
            IF n = 0 THEN <<>>
            ELSE IF r.deps[n].condition = condition
                 THEN Append(parents[n - 1], r.deps[n].job) ELSE parents[n - 1]
    IN  parents[Len(r.deps)]

\* The hash a v5 daemon stored: the lists as they were written.
legacy_v5_request_hash(r) ==
    IF r.recent THEN None
    ELSE [version |-> 5, after_success |-> Parents(r, "succeeded"),
          after_completion |-> Parents(r, "terminal")]

\* db.rs/insert_job: one edge per parent, with the stricter condition.
Edges(r) ==
    {[job |-> d.job,
      condition |-> IF \E e \in ToSet(r.deps) : e.job = d.job /\ e.condition = "succeeded"
                    THEN "succeeded" ELSE "terminal"] : d \in ToSet(r.deps)}

SameJob(r1, r2) == Edges(r1) = Edges(r2) /\ r1.recent = r2.recent

\* What the column request_hash may hold.
Hashes == {request_hash(r) : r \in Requests} \cup
          {legacy_v5_request_hash(r) : r \in {q \in Requests : ~q.recent}}

\* A dependency as the caller writes it.
DependencySpec == [job : Nat, condition : {"succeeded", "terminal"}]

\* Requests have their type, and None is neither a hash nor a row.
ASSUME RequestsAssumption ==
    /\ Requests \subseteq [deps : Seq(DependencySpec), recent : BOOLEAN]
    /\ None \notin Hashes /\ None \notin [hash : Hashes, reply : Nat]

------------------------------------------------------------------------------
\* Connections and their budgets.

Id(c) == [client |-> c, run |-> client[c].run, try |-> client[c].tries]

Accepted == {k \in conns : k.phase # "backlog"}
Streams == {k \in conns : k.phase = "stream"}

\* Mutant: streams may take every connection.
EveryConnection == MaxConnections

\* A quarter of the connections, at least one, but never all of them.
max_subscriptions ==
    LET quarter == IF MaxConnections \div 4 > 1 THEN MaxConnections \div 4 ELSE 1
    IN  IF quarter < MaxConnections - 1 THEN quarter ELSE MaxConnections - 1

Set(k, p) == (conns \ {k}) \cup {[k EXCEPT !.phase = p]}

\* The client reads from this connection.
Listens(k) ==
    LET c == k.id.client
    IN  client[c].pc = "wait" /\ Id(c) = k.id

Idle(c) == [pc |-> "idle", run |-> client[c].run, tries |-> 1, op |-> None]

\* The invocation ends with an answer.
Finish(c, answer) ==
    /\ client' = [client EXCEPT ![c] = Idle(c)]
    /\ answers' = IF client[c].op = Subscribe THEN answers
                  ELSE answers \cup {[key |-> client[c].op.key,
                                      request |-> client[c].op.request,
                                      answer |-> answer]}

------------------------------------------------------------------------------
\* client.rs

\* mlq starts: one key for the whole invocation.
Begin(c) ==
    /\ client[c].pc = "idle"
    /\ client[c].run < MaxRuns
    /\ \E op \in Ops :
          client' = [client EXCEPT ![c] = [pc |-> "connect", run |-> @.run + 1,
                                           tries |-> 1, op |-> op]]
    /\ UNCHANGED <<serverVars, conns, tables, answers>>

\* A transport failure is retried with the same request and key; after the
\* last try the client reports that the daemon cannot be reached.  A
\* subscription is never retried.
TransportFailure(c) ==
    IF client[c].op # Subscribe /\ client[c].tries < ClientRetries
    THEN /\ client' = [client EXCEPT ![c].pc = "connect", ![c].tries = @ + 1]
         /\ UNCHANGED answers
    ELSE Finish(c, [kind |-> "unavailable"])

Listening == \E d \in Daemons : socket = d /\ phase[d] \in {"serving", "stopping", "joined"}

\* try_once: connect and write the request.  The kernel accepts for a daemon
\* that has stopped accepting, until its listener is gone.
Connect(c) ==
    /\ client[c].pc = "connect"
    /\ IF Listening
       THEN /\ conns' = conns \cup {[id |-> Id(c), op |-> client[c].op, phase |-> "backlog"]}
            /\ client' = [client EXCEPT ![c].pc = "wait"]
            /\ UNCHANGED answers
       ELSE TransportFailure(c) /\ UNCHANGED conns
    /\ UNCHANGED <<serverVars, tables>>

\* The connection was closed under the client, or its 30 s read timeout fires.
\* A subscriber has no read timeout.
GiveUp(c) ==
    /\ client[c].pc = "wait"
    /\ client[c].op = Subscribe => ~\E k \in conns : k.id = Id(c)
    /\ TransportFailure(c)
    /\ UNCHANGED <<serverVars, conns, tables>>

\* The subscriber goes away; the stream's probe sees it.
HangUp(c) ==
    /\ client[c].pc = "wait"
    /\ \E k \in Streams :
          /\ k.id = Id(c)
          /\ conns' = conns \ {k}
    /\ Finish(c, [kind |-> "unavailable"])
    /\ UNCHANGED <<serverVars, tables>>

------------------------------------------------------------------------------
\* daemon/mod.rs: connections

\* Over the connection limit the connection is dropped without a word.
Accept(k) ==
    /\ k.phase = "backlog"
    /\ \E d \in Daemons : phase[d] = "serving"
    /\ conns' = IF Cardinality(Accepted) < MaxConnections THEN Set(k, "open") ELSE conns \ {k}
    /\ UNCHANGED <<serverVars, tables, client, answers>>

\* handle_connection hands a request to the coordinator, whether or not its
\* client still waits.
Ask(k) ==
    /\ k.phase = "open" /\ k.op # Subscribe
    /\ inbox' = Append(inbox, k.id)
    /\ conns' = Set(k, "asked")
    /\ UNCHANGED <<phase, lock, socket, sending, tables, client, answers>>

\* A subscription takes a slot for as long as the peer stays, or is refused in
\* words and its client leaves.
OpenStream(k) ==
    /\ k.phase = "open" /\ k.op = Subscribe
    /\ IF Cardinality(Streams) < max_subscriptions
       THEN conns' = Set(k, "stream") /\ UNCHANGED <<client, answers>>
       ELSE conns' = conns \ {k} /\ Finish(k.id.client, [kind |-> "rejected"])
    /\ UNCHANGED <<serverVars, tables>>

------------------------------------------------------------------------------
\* coordinator.rs: run and handle_mutation

Coordinating(d) == phase[d] \in {"serving", "stopping"} /\ sending = None /\ inbox # <<>>

Respond(id, answer) == sending' = [id |-> id, answer |-> answer]

\* Mutant: the mutation is applied without looking its key up.
HandleWithoutLookup(id, op) ==
    /\ jobs' = Append(jobs, op)
    /\ operations' = [operations EXCEPT ![op.key] = [hash |-> request_hash(op.request),
                                                     reply |-> Len(jobs) + 1]]
    /\ Respond(id, [kind |-> "ok", job |-> Len(jobs) + 1])

\* A stored operation answers for itself.  A new one is validated, applied and
\* recorded in one transaction; when it is rejected nothing is recorded.
handle_mutation(id, op) ==
    LET row == operations[op.key]
    IN  \/ /\ row # None
           /\ Respond(id,
                IF row.hash \in {request_hash(op.request), legacy_v5_request_hash(op.request)}
                THEN [kind |-> "ok", job |-> row.reply] ELSE [kind |-> "conflict"])
           /\ UNCHANGED tables
        \/ /\ row = None
           /\ Respond(id, [kind |-> "rejected"])
           /\ UNCHANGED tables
        \/ /\ row = None
           /\ jobs' = Append(jobs, op)
           /\ operations' = [operations EXCEPT ![op.key] =
                                [hash |-> request_hash(op.request), reply |-> Len(jobs) + 1]]
           /\ Respond(id, [kind |-> "ok", job |-> Len(jobs) + 1])

HandleRequest ==
    /\ \E d \in Daemons : Coordinating(d)
    /\ Head(inbox) # Shutdown
    /\ \E k \in conns : k.id = Head(inbox) /\ handle_mutation(k.id, k.op)
    /\ inbox' = Tail(inbox)
    /\ UNCHANGED <<phase, lock, socket, conns, client, answers>>

\* The reply leaves for the socket; a client that has gone does not get it.
Reply ==
    /\ sending # None
    /\ \E k \in conns :
          /\ k.id = sending.id
          /\ conns' = conns \ {k}
          /\ IF Listens(k) THEN Finish(k.id.client, sending.answer)
             ELSE UNCHANGED <<client, answers>>
    /\ sending' = None
    /\ UNCHANGED <<phase, lock, socket, inbox, tables>>

------------------------------------------------------------------------------
\* daemon/mod.rs: run and serve.  A second daemon fails to take the lock and
\* exits, which changes nothing.

TakeLock(d) ==
    /\ phase[d] = "down" /\ lock = None
    /\ lock' = d
    /\ phase' = [phase EXCEPT ![d] = "locked"]
    /\ UNCHANGED <<socket, conns, inbox, sending, tables, client, answers>>

RemoveStaleSocket(d) ==
    /\ phase[d] = "locked"
    /\ socket' = None
    /\ phase' = [phase EXCEPT ![d] = "clean"]
    /\ UNCHANGED <<lock, conns, inbox, sending, tables, client, answers>>

Bind(d) ==
    /\ phase[d] = "clean" /\ socket = None
    /\ socket' = d
    /\ phase' = [phase EXCEPT ![d] = "serving"]
    /\ UNCHANGED <<lock, conns, inbox, sending, tables, client, answers>>

\* SIGTERM or SIGINT: accept no more, and queue the shutdown behind the
\* requests already handed over.
Stop(d) ==
    /\ phase[d] = "serving"
    /\ phase' = [phase EXCEPT ![d] = "stopping"]
    /\ inbox' = Append(inbox, Shutdown)
    /\ UNCHANGED <<lock, socket, conns, sending, tables, client, answers>>

\* Mutant: the lock is given up before the socket file is removed.
HandleShutdownUnlocking(d) ==
    /\ Coordinating(d)
    /\ Head(inbox) = Shutdown
    /\ phase' = [phase EXCEPT ![d] = "joined"]
    /\ lock' = None
    /\ inbox' = <<>>
    /\ conns' = conns \ Accepted
    /\ UNCHANGED <<socket, sending, tables, client, answers>>

\* The coordinator stops: requests behind the shutdown are dropped, their
\* connections and all streams end, and the thread is joined.
HandleShutdown(d) ==
    /\ Coordinating(d)
    /\ Head(inbox) = Shutdown
    /\ phase' = [phase EXCEPT ![d] = "joined"]
    /\ inbox' = <<>>
    /\ conns' = conns \ Accepted
    /\ UNCHANGED <<lock, socket, sending, tables, client, answers>>

\* The socket file goes, and with the listener what waited in its backlog.
Unlink(d) ==
    /\ phase[d] = "joined"
    /\ socket' = None
    /\ conns' = {}
    /\ phase' = [phase EXCEPT ![d] = "unlinked"]
    /\ UNCHANGED <<lock, inbox, sending, tables, client, answers>>

Unlock(d) ==
    /\ phase[d] = "unlinked"
    /\ lock' = None
    /\ phase' = [phase EXCEPT ![d] = "down"]
    /\ UNCHANGED <<socket, conns, inbox, sending, tables, client, answers>>

\* The daemon is killed: only the tables and the socket file survive.
Crash(d) ==
    /\ phase[d] # "down"
    /\ phase' = [phase EXCEPT ![d] = "down"]
    /\ lock' = IF lock = d THEN None ELSE lock
    /\ socket' = IF socket = d THEN "stale" ELSE socket
    /\ conns' = {}
    /\ inbox' = <<>>
    /\ sending' = None
    /\ UNCHANGED <<tables, client, answers>>

------------------------------------------------------------------------------
Idlers == [pc |-> "idle", run |-> 0, tries |-> 1, op |-> None]

\* A database may hold one operation a v5 daemon recorded.
Init ==
    /\ phase = [d \in Daemons |-> "down"]
    /\ lock = None /\ socket = None
    /\ conns = {} /\ inbox = <<>> /\ sending = None
    /\ client = [c \in Clients |-> Idlers]
    /\ answers = {}
    /\ \/ jobs = <<>> /\ operations = [k \in Keys |-> None]
       \/ \E old \in Keys, r \in {q \in Requests : ~q.recent} :
             /\ jobs = <<[key |-> old, request |-> r]>>
             /\ operations = [k \in Keys |-> IF k # old THEN None ELSE
                                [hash |-> legacy_v5_request_hash(r), reply |-> 1]]

ClientStep(c) == Begin(c) \/ Connect(c) \/ GiveUp(c) \/ HangUp(c)

ConnectionStep == \E k \in conns : Accept(k) \/ Ask(k) \/ OpenStream(k)

DaemonStep(d) ==
    \/ RemoveStaleSocket(d) \/ Bind(d)
    \/ HandleShutdown(d) \/ Unlink(d) \/ Unlock(d)

Next ==
    \/ \E c \in Clients : ClientStep(c)
    \/ ConnectionStep \/ HandleRequest \/ Reply
    \/ \E d \in Daemons : DaemonStep(d) \/ TakeLock(d) \/ Stop(d) \/ Crash(d)

Spec == Init /\ [][Next]_vars

\* Tokio polls every task that can run and the coordinator thread takes the
\* next message; nothing is assumed of clients, signals or crashes.
FairSpec ==
    /\ Spec
    /\ WF_vars(ConnectionStep)
    /\ WF_vars(HandleRequest)
    /\ WF_vars(Reply)
    /\ \A d \in Daemons : WF_vars(DaemonStep(d))

------------------------------------------------------------------------------
\* A daemon that accepts connections is the one the socket path leads to, and
\* the only one that does: neither a stale socket nor the shutdown of a
\* predecessor takes the path away from it (daemon/mod.rs, run and serve).
ServingOwnsTheSocket ==
    \A d \in Daemons :
        phase[d] = "serving" => socket = d /\ lock = d

Service == INSTANCE IdempotentService

\* Whatever is retried, lost, delayed, repeated or interrupted by a crash, a
\* key has at most one effect and every answer is the answer of that effect:
\* handle_mutation implements the idempotent service.
ImplementsService == Service!Spec

\* Streams are held for as long as their subscribers like, yet the connection
\* budget is never used up for good: a slot always comes free for a client
\* that asks something (daemon/mod.rs, max_subscriptions).
ControlSlotFrees == []<>(Cardinality(Accepted) < MaxConnections)

==============================================================================
