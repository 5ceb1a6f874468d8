------------------------------ MODULE EventLog -----------------------------
(* The emissions of a process on their way into the event log of              *)
(* realtime/lib: what one tick sends travels in one insert, a burst larger    *)
(* than the limit in several that are in flight at once                       *)
(* (src/transport/event_log.ts).                                              *)
EXTENDS Integers, Sequences, SequencesExt, FiniteSets

CONSTANTS
    MaxSent,     \* bound: emissions, numbered in the order they are sent
    BatchLimit,  \* BATCH_LIMIT
    MaxLogFaults \* bound: inserts that are refused, or whose answer is lost

LogAssumption == MaxSent \in Nat /\ BatchLimit \in Nat \ {0} /\ MaxLogFaults \in Nat

VARIABLES
    sent,       \* how many emissions were sent
    pending,    \* #pending: emissions of this tick, in order
    scheduled,  \* #scheduled
    flushes,    \* how many calls of #flush the tick has queued
    batches,    \* the inserts under way: their rows, and whether the table took them
    log,        \* the rows of the table, in the order of their identifiers
    said,       \* per emission: what its caller was answered, or "none"
    before,     \* per emission: those answered before it was sent
    logFaults

logVars == <<sent, pending, scheduled, flushes, batches, log, said, before, logFaults>>
Emissions == 1..MaxSent

Init ==
    /\ sent = 0 /\ pending = <<>> /\ scheduled = FALSE /\ flushes = 0 /\ batches = {}
    /\ log = <<>> /\ said = [e \in Emissions |-> "none"] /\ before = [e \in Emissions |-> {}]
    /\ logFaults = 0

Fault == logFaults < MaxLogFaults /\ logFaults' = logFaults + 1
Leaves(rows) == IF rows = <<>> THEN batches ELSE batches \union {[rows |-> rows, taken |-> FALSE]}

Send ==
    /\ sent < MaxSent /\ sent' = sent + 1
    /\ before' = [before EXCEPT ![sent + 1] = {e \in Emissions : said[e] # "none"}]
    /\ LET rows == Append(pending, sent + 1) IN
       IF Len(rows) >= BatchLimit
       THEN /\ pending' = <<>> /\ scheduled' = FALSE /\ batches' = Leaves(rows)
            /\ UNCHANGED flushes
       ELSE /\ pending' = rows /\ scheduled' = TRUE
            /\ flushes' = IF scheduled THEN flushes ELSE flushes + 1
            /\ UNCHANGED batches
    /\ UNCHANGED <<log, said, logFaults>>

\* Mutant of Flush: the next emission finds a flush scheduled that has run.
FlushKeepsTheFlag ==
    /\ flushes > 0 /\ flushes' = flushes - 1
    /\ scheduled' = scheduled /\ pending' = <<>> /\ batches' = Leaves(pending)
    /\ UNCHANGED <<sent, log, said, before, logFaults>>

Flush ==
    /\ flushes > 0 /\ flushes' = flushes - 1
    /\ scheduled' = FALSE /\ pending' = <<>> /\ batches' = Leaves(pending)
    /\ UNCHANGED <<sent, log, said, before, logFaults>>

Take(b) ==
    /\ b \in batches /\ ~b.taken
    /\ log' = log \o b.rows /\ batches' = (batches \ {b}) \union {[b EXCEPT !.taken = TRUE]}
    /\ UNCHANGED <<sent, pending, scheduled, flushes, said, before, logFaults>>

\* An insert that is refused, or whose answer does not come back, settles its callers with false.
Settle(b, ok) ==
    /\ b \in batches /\ batches' = batches \ {b}
    /\ IF ok THEN b.taken /\ UNCHANGED logFaults ELSE Fault
    /\ said' = [e \in Emissions |-> IF Contains(b.rows, e) THEN IF ok THEN "sent" ELSE "dropped"
                                                           ELSE said[e]]
    /\ UNCHANGED <<sent, pending, scheduled, flushes, log, before>>

Next ==
    \/ Send \/ Flush
    \/ \E b \in batches : Take(b) \/ \E ok \in BOOLEAN : Settle(b, ok)

Spec == Init /\ [][Next]_logVars

-----------------------------------------------------------------------------
TypeOK ==
    /\ sent \in 0..MaxSent /\ pending \in Seq(Emissions) /\ scheduled \in BOOLEAN
    /\ flushes \in 0..sent /\ log \in Seq(Emissions) /\ logFaults \in 0..MaxLogFaults
    /\ batches \subseteq [rows : Seq(Emissions), taken : BOOLEAN]
    /\ said \in [Emissions -> {"none", "sent", "dropped"}] /\ before \in [Emissions -> SUBSET Emissions]

Earlier(a, b) == \E i, j \in DOMAIN log : i < j /\ log[i] = a /\ log[j] = b

\* No emission waits with nobody to send it, goes twice, or is answered as sent when it is not
\* in the log. One that was sent once another was answered comes after it; two of one insert
\* keep their order. Two inserts of one burst have no order between them (event_log.ts
\* EventLogTransport.send, #flush).
EmissionsKept ==
    /\ pending # <<>> => flushes > 0
    /\ IsInjective(log)
    /\ \A e \in 1..sent : said[e] = "sent" => Contains(log, e)
    /\ \A e \in 1..sent : said[e] = "none" =>
          Contains(pending, e) \/ \E b \in batches : Contains(b.rows, e)
    /\ \A e \in 1..sent : \A a \in before[e] : ~Earlier(e, a)
    /\ \A b \in batches : b.taken => \A i, j \in DOMAIN b.rows : i < j => Earlier(b.rows[i], b.rows[j])

-----------------------------------------------------------------------------
(* Why that holds.                                                            *)

\* A flush is queued for what waits.
Queued == (pending # <<>> => scheduled) /\ (scheduled => flushes > 0)

\* Nothing is twice in one place.
Single == IsInjective(pending) /\ IsInjective(log) /\ \A b \in batches : IsInjective(b.rows)

\* An emission is in one place: it waits, or it is in one insert and in the log once that is
\* taken, or it was answered.
Placed ==
    /\ \A e \in ToSet(pending) : e <= sent /\ said[e] = "none" /\ e \notin ToSet(log)
    /\ \A b \in batches : \A e \in ToSet(b.rows) :
        /\ e <= sent /\ said[e] = "none" /\ (e \in ToSet(log) <=> b.taken)
        /\ e \notin ToSet(pending) /\ \A c \in batches : e \in ToSet(c.rows) => c = b
    /\ \A e \in ToSet(log) : e <= sent
    /\ \A e \in Emissions :
        /\ said[e] = "sent" => e \in ToSet(log)
        /\ said[e] # "none" => e <= sent
        /\ said[e] = "none" /\ e <= sent =>
              e \in ToSet(pending) \/ \E b \in batches : e \in ToSet(b.rows)

\* What was answered before an emission was sent is in the log before it or never.
Ordered ==
    /\ \A e \in Emissions : \A a \in before[e] : said[a] # "none" /\ ~Earlier(e, a)
    /\ \A b \in batches : b.taken =>
          \A i, j \in DOMAIN b.rows : i < j => Earlier(b.rows[i], b.rows[j])

IInv == TypeOK /\ Queued /\ Single /\ Placed /\ Ordered
=============================================================================
