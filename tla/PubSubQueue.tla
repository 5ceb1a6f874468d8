----------------------------- MODULE PubSubQueue -----------------------------
(* A queue on Google Pub/Sub (foundation/lib/src/queue/                      *)
(* pubsub_queue_backend.ts): the streams its starts open, the messages they  *)
(* are handed, the batches they gather, and how each message is settled.     *)
EXTENDS Naturals, FiniteSets

CONSTANTS
    Letters,          \* messages published
    Retries,          \* RegisteredQueue.maxRetries
    MaxStreams,       \* bound: starts
    MaxAttempts,      \* bound: deliveries of a message
    MaxPubSubFaults   \* bound: calls that fail and leases that lapse under a handler

PubSubAssumption ==
    /\ Retries \in Nat /\ MaxStreams \in Nat /\ MaxAttempts \in Nat /\ MaxPubSubFaults \in Nat

VARIABLES
    kind,        \* the mode of the queue, "unset" before it is declared
    letter,      \* where a message is: "none", "backlog", "leased" or "acked"
    attempt,     \* deliveryAttempt
    copies,      \* copies published to the dead letter topic
    quiet,       \* #stopped
    stream,      \* per start: "off", "ensuring", "open", "closed" or "failed"
    known,       \* the stream #streams holds, 0 for none
    buffer,      \* per stream: the batch it gathers
    running,     \* runs under way: sets of deliveries, each with its attempt
    unreadable,  \* messages whose body safeDecode refuses, as it does that of undefined
    settled,     \* messages a handler finished
    missed,      \* streams a stop could not see
    pubSubFaults

pubSubVars == <<kind, letter, attempt, copies, quiet, stream, known, buffer, running,
                unreadable, settled, missed, pubSubFaults>>

Streams == 1..MaxStreams
Fault == pubSubFaults < MaxPubSubFaults /\ pubSubFaults' = pubSubFaults + 1

Init ==
    /\ kind = "unset" /\ unreadable \in SUBSET Letters
    /\ letter = [m \in Letters |-> "none"] /\ attempt = [m \in Letters |-> 0]
    /\ copies = [m \in Letters |-> 0] /\ settled = {}
    /\ quiet = TRUE /\ known = 0 /\ missed = {}
    /\ stream = [s \in Streams |-> "off"] /\ buffer = [s \in Streams |-> {}]
    /\ running = {} /\ pubSubFaults = 0

\* pushMany publishes its items in a pool: one that fails leaves the others published.
Publish(ms) ==
    /\ kind # "unset" /\ ms # {} /\ \A m \in Letters : letter[m] = "none"
    /\ IF ms = Letters THEN UNCHANGED pubSubFaults ELSE Fault
    /\ letter' = [m \in Letters |-> IF m \in ms THEN "backlog" ELSE "none"]
    /\ UNCHANGED <<kind, unreadable, attempt, copies, quiet, stream, known, buffer,
                   running, settled, missed>>

Declare(as) ==
    /\ kind = "unset" /\ kind' = as
    /\ UNCHANGED <<unreadable, letter, attempt, copies, quiet, stream, known, buffer,
                   running, settled, missed, pubSubFaults>>

\* startDraining: drain first ensures the topics and the subscription.
Start ==
    /\ kind # "unset" /\ quiet /\ quiet' = FALSE
    /\ \E s \in Streams :
        /\ stream[s] = "off" /\ \A r \in 1..s - 1 : stream[r] # "off"
        /\ stream' = [stream EXCEPT ![s] = "ensuring"]
    /\ UNCHANGED <<kind, unreadable, letter, attempt, copies, known, buffer, running,
                   settled, missed, pubSubFaults>>

\* The stream is opened and registered under the name of the queue, stopped or not. An
\* ensure that fails leaves the queue without a stream.
Open(s, ok) ==
    /\ stream[s] = "ensuring"
    /\ IF ok THEN UNCHANGED pubSubFaults ELSE Fault
    /\ stream' = [stream EXCEPT ![s] = IF ok THEN "open" ELSE "failed"]
    /\ known' = IF ok THEN s ELSE known
    /\ UNCHANGED <<kind, unreadable, letter, attempt, copies, quiet, buffer, running,
                   settled, missed>>

\* Mutant of Stop: the stream leaves #streams without being closed.
StopForgets ==
    /\ ~quiet /\ quiet' = TRUE /\ known' = 0
    /\ stream' = stream
    /\ missed' = missed \union {s \in Streams : stream[s] = "ensuring"}
    /\ UNCHANGED <<kind, unreadable, letter, attempt, copies, buffer, running, settled,
                   pubSubFaults>>

\* stopDraining closes what is registered.
Stop ==
    /\ ~quiet /\ quiet' = TRUE /\ known' = 0
    /\ stream' = [s \in Streams |-> IF s = known THEN "closed" ELSE stream[s]]
    /\ missed' = missed \union {s \in Streams : stream[s] = "ensuring"}
    /\ UNCHANGED <<kind, unreadable, letter, attempt, copies, buffer, running, settled,
                   pubSubFaults>>

\* A message arrives: refused while stopped, run at once, or gathered.
Arrive(s, m) ==
    /\ stream[s] = "open" /\ letter[m] = "backlog" /\ attempt[m] < MaxAttempts
    /\ attempt' = [attempt EXCEPT ![m] = @ + 1]
    /\ letter' = [letter EXCEPT ![m] = IF quiet THEN "backlog" ELSE "leased"]
    /\ running' = IF ~quiet /\ kind = "immediate"
                  THEN running \union {{<<m, attempt'[m]>>}} ELSE running
    /\ buffer' = IF ~quiet /\ kind = "batch"
                 THEN [buffer EXCEPT ![s] = @ \union {<<m, attempt'[m]>>}] ELSE buffer
    /\ UNCHANGED <<kind, unreadable, copies, quiet, stream, known, settled, missed,
                   pubSubFaults>>

\* What nothing can read is settled by itself, the rest is one run of the handler.
Runs(ds) ==
    LET odd == {d \in ds : d[1] \in unreadable}
    IN  {{d} : d \in odd} \union {run \in {ds \ odd} : run # {}}

\* The linger timer, or a full batch: what was gathered runs, stopped since or not.
Flush(s) ==
    /\ buffer[s] # {}
    /\ running' = running \union Runs(buffer[s])
    /\ buffer' = [buffer EXCEPT ![s] = {}]
    /\ UNCHANGED <<kind, unreadable, letter, attempt, copies, quiet, stream, known,
                   settled, missed, pubSubFaults>>

Names(run) == {d[1] : d \in run}
Ack(ms) == letter' = [m \in Letters |-> IF m \in ms THEN "acked" ELSE letter[m]]

Readable(run) == Names(run) \intersect unreadable = {}

\* An acknowledgement is sent and not answered: one that is lost leaves the message leased.
Finish(run, acked) ==
    /\ run \in running /\ Readable(run) /\ running' = running \ {run}
    /\ settled' = settled \union Names(run)
    /\ acked \subseteq Names(run) /\ Ack(acked)
    /\ IF acked = Names(run) THEN UNCHANGED pubSubFaults ELSE Fault
    /\ UNCHANGED <<kind, unreadable, attempt, copies, quiet, stream, known, buffer,
                   missed>>

\* A copy of each is published to the dead letter topic, and then the message acknowledged:
\* a publish that fails, or whose answer is lost, leaves the message leased.
File(last, published, acked) ==
    /\ acked \subseteq published /\ published \subseteq last
    /\ IF acked = last THEN UNCHANGED pubSubFaults ELSE Fault
    /\ copies' = [m \in Letters |-> copies[m] + (IF m \in published THEN 1 ELSE 0)]
    /\ Ack(acked)

\* The handler failed: past maxRetries the message is filed, else it comes back after the
\* backoff.
Fail(run, published, acked) ==
    /\ run \in running /\ Readable(run) /\ running' = running \ {run}
    /\ File({d[1] : d \in {e \in run : e[2] >= Retries}}, published, acked)
    /\ UNCHANGED <<kind, unreadable, attempt, quiet, stream, known, buffer, settled,
                   missed>>

\* A message nothing can read is filed at once, without a run.
Discard(run, published, acked) ==
    /\ run \in running /\ ~Readable(run) /\ running' = running \ {run}
    /\ File(Names(run), published, acked)
    /\ UNCHANGED <<kind, unreadable, attempt, quiet, stream, known, buffer, settled,
                   missed>>

\* The deadline of the lease passes, or the backoff does. Acknowledged, it is too late.
Redeliver(m) ==
    /\ letter[m] = "leased" /\ letter' = [letter EXCEPT ![m] = "backlog"]
    /\ IF \E run \in running \union {buffer[s] : s \in Streams} : <<m, attempt[m]>> \in run
       THEN Fault ELSE UNCHANGED pubSubFaults
    /\ UNCHANGED <<kind, unreadable, attempt, copies, quiet, stream, known, buffer,
                   running, settled, missed>>

\* The dead letter policy of the subscription, never before the fifth delivery.
Redriven(m) ==
    /\ letter[m] = "backlog" /\ attempt[m] >= 5 /\ attempt[m] > Retries
    /\ letter' = [letter EXCEPT ![m] = "acked"]
    /\ copies' = [copies EXCEPT ![m] = @ + 1]
    /\ UNCHANGED <<kind, unreadable, attempt, quiet, stream, known, buffer, running,
                   settled, missed, pubSubFaults>>

Next ==
    \/ \E as \in {"immediate", "batch"} : Declare(as)
    \/ \E ms \in SUBSET Letters : Publish(ms)
    \/ Start \/ Stop
    \/ \E s \in Streams :
        \/ Flush(s)
        \/ \E ok \in BOOLEAN : Open(s, ok)
        \/ \E m \in Letters : Arrive(s, m)
    \/ \E run \in running : \E published, acked \in SUBSET Names(run) :
        \/ Fail(run, published, acked) \/ Discard(run, published, acked)
        \/ published = acked /\ Finish(run, acked)
    \/ \E m \in Letters : Redeliver(m) \/ Redriven(m)

Spec == Init /\ [][Next]_pubSubVars

-----------------------------------------------------------------------------
Attempts == SUBSET (Letters \X (1..MaxAttempts))

TypeOK ==
    /\ kind \in {"unset", "immediate", "batch"} /\ quiet \in BOOLEAN
    /\ letter \in [Letters -> {"none", "backlog", "leased", "acked"}]
    /\ attempt \in [Letters -> 0..MaxAttempts] /\ copies \in [Letters -> Nat]
    /\ stream \in [Streams -> {"off", "ensuring", "open", "closed", "failed"}]
    /\ buffer \in [Streams -> Attempts] /\ running \subseteq Attempts
    /\ known \in 0..MaxStreams /\ missed \subseteq Streams
    /\ unreadable \subseteq Letters /\ settled \subseteq Letters
    /\ pubSubFaults \in 0..MaxPubSubFaults

\* A stream the backend no longer knows is closed, except one whose subscription was being
\* ensured when a stop came: it opens all the same, and the next start takes its place in
\* #streams without closing it (drain, stopDraining). Whatever the streams, a message
\* leaves the subscription only finished or with a copy in the dead letter, and one nothing
\* can read only with its copy.
NothingLeaks ==
    /\ \A s \in Streams : stream[s] = "open" => s = known \/ missed # {}
    /\ \A m \in Letters : letter[m] = "acked" => m \in settled \ unreadable \/ copies[m] > 0

-----------------------------------------------------------------------------
(* The inductive invariant.                                                   *)

\* While every stop saw the streams there were, a queue has one at most, none while it is
\* stopped, and the backend knows it once it is open.
StreamsSeen ==
    missed = {} =>
       /\ \A s \in Streams : stream[s] \in {"ensuring", "open"} => ~quiet
       /\ \A s \in Streams : stream[s] = "open" => s = known
       /\ \A s, t \in Streams :
             stream[s] \in {"ensuring", "open"} /\ stream[t] \in {"ensuring", "open"} => s = t

IInv == TypeOK /\ StreamsSeen /\ NothingLeaks
=============================================================================
