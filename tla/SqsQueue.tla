------------------------------ MODULE SqsQueue ------------------------------
(* A queue on Amazon SQS (foundation/lib/src/queue/sqs_queue_backend.ts):    *)
(* what is pushed, the loops that receive and run it, its acknowledgement,   *)
(* its retries and its dead letter. A message is visible, or hidden from     *)
(* receivers for the visibility its last receipt gave it; its n-th receipt   *)
(* is the n-th attempt, and past Redrive of them SQS files it itself.        *)
EXTENDS Naturals, FiniteSets

CONSTANTS
    Msgs,
    MaxRetries,    \* RegisteredQueue.maxRetries
    Concurrency,   \* RegisteredQueue.concurrency, of an immediate queue
    MaxLoops,      \* bound: loops started
    MaxLapses,     \* bound: visibilities that run out before the message is settled
    MaxSqsFaults   \* bound: calls of SQS that fail

SqsAssumption ==
    /\ MaxRetries \in Nat /\ Concurrency \in Nat \ {0}
    /\ MaxLoops \in Nat /\ MaxLapses \in Nat /\ MaxSqsFaults \in Nat

VARIABLES
    mode,       \* "immediate" or "batch", of the declaration; "unset" before it
    told,       \* what the push of a message answered
    place,      \* where a message is: "none", "visible", "hidden" or "deleted"
    receipts,   \* ApproximateReceiveCount
    dead,       \* copies in the dead letter
    stopped,    \* #stopped
    loop,       \* per loop: step, deliveries waiting and deliveries being run
    unreadable, \* messages whose body safeDecode refuses, as it does that of undefined
    failed,     \* runs of a message that ended badly
    served,     \* messages a handler finished
    lapsed,     \* messages a receipt of which came to nothing: their visibility ran out
                \* unsettled, or the loop that had them died or threw them away
    lapses, sqsFaults

sqsVars == <<mode, told, place, receipts, dead, stopped, loop, unreadable, failed, served,
             lapsed, lapses, sqsFaults>>

Loops == 1..MaxLoops
Redrive == MaxRetries + 1
Fault == sqsFaults < MaxSqsFaults /\ sqsFaults' = sqsFaults + 1
NoFault == UNCHANGED sqsFaults

Init ==
    /\ mode = "unset" /\ unreadable \in SUBSET Msgs
    /\ told = [m \in Msgs |-> "none"] /\ place = [m \in Msgs |-> "none"]
    /\ receipts = [m \in Msgs |-> 0] /\ dead = [m \in Msgs |-> 0]
    /\ stopped = TRUE
    /\ loop = [l \in Loops |-> [pc |-> "off", waiting |-> {}, running |-> {}]]
    /\ failed = [m \in Msgs |-> 0] /\ served = {} /\ lapsed = {}
    /\ lapses = 0 /\ sqsFaults = 0

\* A project declares the queue.
Declare(as) ==
    /\ mode = "unset" /\ mode' = as
    /\ UNCHANGED <<unreadable, told, place, receipts, dead, stopped, loop, failed,
                   served, lapsed, lapses, sqsFaults>>

\* One entry of pushMany may be refused: the call throws, though the others are sent.
PushMany(stored) ==
    /\ mode # "unset" /\ \A m \in Msgs : told[m] = "none"
    /\ IF stored = Msgs THEN NoFault ELSE Fault
    /\ place' = [m \in Msgs |-> IF m \in stored THEN "visible" ELSE "none"]
    /\ told' = [m \in Msgs |-> IF stored = Msgs THEN "accepted" ELSE "thrown"]
    /\ UNCHANGED <<mode, unreadable, receipts, dead, stopped, loop, failed, served,
                   lapsed, lapses>>

\* startDraining: a loop of its own for each start, whatever the loops before it do.
Start ==
    /\ mode # "unset" /\ stopped /\ stopped' = FALSE
    /\ \E l \in Loops :
        /\ loop[l].pc = "off" /\ \A k \in 1..l - 1 : loop[k].pc # "off"
        /\ loop' = [loop EXCEPT ![l].pc = "top"]
    /\ UNCHANGED <<mode, unreadable, told, place, receipts, dead, failed, served,
                   lapsed, lapses, sqsFaults>>

Stop ==
    /\ ~stopped /\ stopped' = TRUE
    /\ UNCHANGED <<mode, unreadable, told, place, receipts, dead, loop, failed, served,
                   lapsed, lapses, sqsFaults>>

\* A loop looks at the flag before it polls, and not while it gathers or works.
Leave(l) ==
    /\ loop[l].pc = "top" /\ stopped
    /\ loop' = [loop EXCEPT ![l].pc = "ended"]
    /\ UNCHANGED <<mode, unreadable, told, place, receipts, dead, stopped, failed,
                   served, lapsed, lapses, sqsFaults>>

Poll(l) ==
    /\ loop[l].pc = "top" /\ ~stopped
    /\ loop' = [loop EXCEPT ![l].pc = "receive"]
    /\ UNCHANGED <<mode, unreadable, told, place, receipts, dead, stopped, failed,
                   served, lapsed, lapses, sqsFaults>>

HandOut(ms) ==
    /\ \A m \in ms : place[m] = "visible" /\ receipts[m] < Redrive
    /\ receipts' = [m \in Msgs |-> receipts[m] + (IF m \in ms THEN 1 ELSE 0)]
    /\ place' = [m \in Msgs |-> IF m \in ms THEN "hidden" ELSE place[m]]

\* One receiveMessage: a delivery carries the count it was received with. A batch queue asks
\* for more after the first; an immediate one works on what it got.
Receive(l, ms) ==
    /\ loop[l].pc = "receive" /\ ms # {} /\ HandOut(ms)
    /\ loop' = [loop EXCEPT ![l].pc = IF mode = "batch" THEN "receive" ELSE "work",
                            ![l].waiting = @ \union {[msg |-> m, attempts |-> receipts'[m]] :
                                                       m \in ms}]
    /\ UNCHANGED <<mode, unreadable, told, dead, stopped, failed, served, lapsed,
                   lapses, sqsFaults>>

\* A receiveMessage that answers nothing, ten messages, or the end of the linger.
Gathered(l) ==
    /\ loop[l].pc = "receive"
    /\ loop' = [loop EXCEPT ![l].pc = IF loop[l].waiting = {} THEN "top" ELSE "work"]
    /\ UNCHANGED <<mode, unreadable, told, place, receipts, dead, stopped, failed,
                   served, lapsed, lapses, sqsFaults>>

\* A receiveMessage that throws, whatever SQS handed out for it, takes what the ones before
\* it received along: the loop turns again, and those wait for their visibility.
ReceiveFails(l, ms) ==
    /\ loop[l].pc = "receive" /\ Fault /\ HandOut(ms)
    /\ loop' = [loop EXCEPT ![l].pc = "top", ![l].waiting = {}]
    /\ lapsed' = lapsed \union ms \union {d.msg : d \in loop[l].waiting}
    /\ UNCHANGED <<mode, unreadable, told, dead, stopped, failed, served, lapses>>

\* A message nothing can read takes no run: a copy of it is filed at its first receipt, and
\* it is deleted. A call that fails leaves it to its visibility.
Discard(l, d, filed, deleted) ==
    /\ loop[l].pc = "work" /\ d \in loop[l].waiting /\ d.msg \in unreadable
    /\ mode = "immediate" => Cardinality(loop[l].running) < Concurrency
    /\ deleted => filed
    /\ IF filed /\ (deleted \/ d.attempts < receipts[d.msg]) THEN NoFault ELSE Fault
    /\ dead' = [dead EXCEPT ![d.msg] = IF filed THEN @ + 1 ELSE @]
    /\ place' = [place EXCEPT ![d.msg] = IF deleted THEN "deleted" ELSE @]
    /\ loop' = [loop EXCEPT ![l].waiting = @ \ {d},
                            ![l].pc = IF loop[l].waiting = {d} /\ loop[l].running = {}
                                      THEN "top" ELSE @]
    /\ UNCHANGED <<mode, unreadable, told, receipts, stopped, failed, served, lapsed,
                   lapses>>

\* The handler is given one message, of a pool of Concurrency, or the whole batch.
Run(l, ds) ==
    /\ loop[l].pc = "work" /\ ds # {} /\ ds \subseteq loop[l].waiting
    /\ \A d \in ds : d.msg \notin unreadable
    /\ IF mode = "batch" THEN ds = loop[l].waiting
       ELSE Cardinality(ds) = 1 /\ Cardinality(loop[l].running) < Concurrency
    /\ loop' = [loop EXCEPT ![l].waiting = @ \ ds, ![l].running = @ \union ds]
    /\ UNCHANGED <<mode, unreadable, told, place, receipts, dead, stopped, failed,
                   served, lapsed, lapses, sqsFaults>>

\* What runPooled waits for before the next receipt.
Settled(l, ds) ==
    loop' = [loop EXCEPT ![l].running = @ \ ds,
                         ![l].pc = IF loop[l].waiting = {} /\ loop[l].running = ds THEN "top" ELSE @]

Group(l, ds) ==
    /\ ds # {} /\ ds \subseteq loop[l].running
    /\ IF mode = "batch" THEN ds = loop[l].running ELSE Cardinality(ds) = 1

\* The handler finished and each message is deleted; a delete that fails is logged.
Ack(l, ds, unacked) ==
    LET acked == {d.msg : d \in ds \ unacked} IN
    /\ Group(l, ds) /\ unacked \subseteq ds
    /\ served' = served \union {d.msg : d \in ds}
    /\ IF \A d \in unacked : d.attempts < receipts[d.msg] THEN NoFault ELSE Fault
    /\ place' = [m \in Msgs |-> IF m \in acked THEN "deleted" ELSE place[m]]
    /\ Settled(l, ds)
    /\ UNCHANGED <<mode, unreadable, told, receipts, dead, stopped, failed, lapsed,
                   lapses>>

\* Mutant of Fail: a message is deleted though its copy was not filed.
FailDeletesAnyway(l, ds, filed, deleted) ==
    LET last == {d \in ds : d.attempts >= MaxRetries}
        names == {d.msg : d \in last} IN
    /\ Group(l, ds) /\ deleted \subseteq filed /\ filed \subseteq last
    /\ IF filed = last /\ \A d \in last \ deleted : d.attempts < receipts[d.msg]
       THEN NoFault ELSE Fault
    /\ failed' = [m \in Msgs |-> failed[m] + Cardinality({d \in ds : d.msg = m})]
    /\ dead' = [m \in Msgs |-> dead[m] + Cardinality({d \in filed : d.msg = m})]
    /\ place' = [m \in Msgs |-> IF m \in names THEN "deleted" ELSE place[m]]
    /\ Settled(l, ds)
    /\ UNCHANGED <<mode, unreadable, told, receipts, stopped, served, lapsed, lapses>>

\* The handler threw or overran its time. Past maxRetries a copy goes to the dead letter
\* and the message is deleted, else its visibility becomes the backoff. A call of SQS
\* that fails leaves the message to its visibility.
Fail(l, ds, filed, deleted) ==
    LET last == {d \in ds : d.attempts >= MaxRetries}
        names == {d.msg : d \in deleted} IN
    /\ Group(l, ds) /\ deleted \subseteq filed /\ filed \subseteq last
    /\ IF filed = last /\ \A d \in last \ deleted : d.attempts < receipts[d.msg]
       THEN NoFault ELSE Fault
    /\ failed' = [m \in Msgs |-> failed[m] + Cardinality({d \in ds : d.msg = m})]
    /\ dead' = [m \in Msgs |-> dead[m] + Cardinality({d \in filed : d.msg = m})]
    /\ place' = [m \in Msgs |-> IF m \in names THEN "deleted" ELSE place[m]]
    /\ Settled(l, ds)
    /\ UNCHANGED <<mode, unreadable, told, receipts, stopped, served, lapsed, lapses>>

\* The visibility of a message runs out. That it does while a loop has the delivery, in
\* its pool or in its handler, is what the timeout is meant to prevent.
Reappear(m) ==
    /\ place[m] = "hidden" /\ place' = [place EXCEPT ![m] = "visible"]
    /\ IF \E l \in Loops : \E d \in loop[l].waiting \union loop[l].running :
            d.msg = m /\ d.attempts = receipts[m]
       THEN lapses < MaxLapses /\ lapses' = lapses + 1 /\ lapsed' = lapsed \union {m}
       ELSE UNCHANGED <<lapses, lapsed>>
    /\ UNCHANGED <<mode, unreadable, told, receipts, dead, stopped, loop, failed,
                   served, sqsFaults>>

\* The redrive policy of #ensureQueue: received too often, SQS moves the message itself.
Redriven(m) ==
    /\ place[m] = "visible" /\ receipts[m] >= Redrive
    /\ place' = [place EXCEPT ![m] = "deleted"]
    /\ dead' = [dead EXCEPT ![m] = @ + 1]
    /\ UNCHANGED <<mode, unreadable, told, receipts, stopped, loop, failed, served,
                   lapsed, lapses, sqsFaults>>

\* The process dies with what its loops hold.
Die(l) ==
    /\ loop[l].pc \in {"top", "receive", "work"} /\ Fault
    /\ loop' = [loop EXCEPT ![l] = [pc |-> "ended", waiting |-> {}, running |-> {}]]
    /\ lapsed' = lapsed \union {d.msg : d \in loop[l].waiting \union loop[l].running}
    /\ UNCHANGED <<mode, unreadable, told, place, receipts, dead, stopped, failed,
                   served, lapses>>

Deliveries == [msg : Msgs, attempts : 1..Redrive]

Next ==
    \/ \E as \in {"immediate", "batch"} : Declare(as)
    \/ \E ms \in SUBSET Msgs : PushMany(ms)
    \/ Start \/ Stop
    \/ \E l \in Loops :
        \/ Leave(l) \/ Poll(l) \/ Gathered(l) \/ Die(l)
        \/ \E ms \in SUBSET Msgs : Receive(l, ms) \/ ReceiveFails(l, ms)
        \/ \E d \in loop[l].waiting, filed, deleted \in BOOLEAN : Discard(l, d, filed, deleted)
        \/ \E ds \in SUBSET loop[l].waiting : Run(l, ds)
        \/ \E ds \in SUBSET loop[l].running :
            \/ \E unacked \in SUBSET ds : Ack(l, ds, unacked)
            \/ \E filed \in SUBSET ds : \E deleted \in SUBSET filed : Fail(l, ds, filed, deleted)
    \/ \E m \in Msgs : Reappear(m) \/ Redriven(m)

Spec == Init /\ [][Next]_sqsVars

-----------------------------------------------------------------------------
Rests(one) ==
    /\ one.pc \notin {"receive", "work"} => one.waiting = {}
    /\ one.pc # "work" => one.running = {}

TypeOK ==
    /\ mode \in {"unset", "immediate", "batch"} /\ stopped \in BOOLEAN
    /\ told \in [Msgs -> {"none", "accepted", "thrown"}]
    /\ place \in [Msgs -> {"none", "visible", "hidden", "deleted"}]
    /\ receipts \in [Msgs -> 0..Redrive]
    /\ dead \in [Msgs -> Nat] /\ failed \in [Msgs -> Nat]
    /\ loop \in [Loops -> [pc : {"off", "top", "receive", "work", "ended"},
                          waiting : SUBSET Deliveries, running : SUBSET Deliveries]]
    /\ \A l \in Loops : Rests(loop[l])
    /\ unreadable \subseteq Msgs /\ served \subseteq Msgs /\ lapsed \subseteq Msgs
    /\ lapses \in 0..MaxLapses /\ sqsFaults \in 0..MaxSqsFaults

\* What push accepted stays in the queue until a handler finished it or a copy of it is
\* in the dead letter, whatever is stopped, dies, lapses or fails (#processOne, #fail).
NothingLost ==
    \A m \in Msgs : place[m] = "deleted" => m \in served \/ dead[m] > 0

\* A message is filed as dead after maxRetries failed runs of it. Attempts are receipts
\* and not runs, so one with a receipt that came to nothing (a pool longer than the timeout,
\* a process that died, a gathering that threw), or that was finished and not deleted, may be
\* filed sooner; one nothing can read is filed without a run, and no handler ever sees it.
\* Filed twice only if a call failed too.
DeadAfterItsRuns ==
    \A m \in Msgs :
        /\ dead[m] > 0 /\ m \notin lapsed \union served \union unreadable => failed[m] >= MaxRetries
        /\ dead[m] > 1 => sqsFaults > 0 \/ m \in lapsed
        /\ m \in unreadable => failed[m] = 0 /\ m \notin served

-----------------------------------------------------------------------------
(* The inductive invariant.                                                  *)
Holds(l) == loop[l].waiting \cup loop[l].running
InHand(m) == \E l \in Loops : \E d \in Holds(l) : d.msg = m

\* A message that never lapsed is held once at most, by the delivery of its last receipt,
\* and hidden meanwhile.
HeldOnce ==
    /\ \A l \in Loops : loop[l].waiting \cap loop[l].running = {}
    /\ \A l \in Loops : \A d \in Holds(l) :
          /\ d.attempts <= receipts[d.msg]
          /\ d.msg \notin lapsed => d.attempts = receipts[d.msg] /\ place[d.msg] = "hidden"
    /\ \A k, l \in Loops : \A d \in Holds(k), e \in Holds(l) :
          d.msg = e.msg /\ d.msg \notin lapsed => k = l

\* Nothing happens to a message before it is sent.
Unsent ==
    \A m \in Msgs : /\ told[m] = "none" => place[m] = "none"
                    /\ place[m] = "none" => receipts[m] = 0 /\ dead[m] = 0

\* A handler is given what can be read.
RunsAreReadable == \A l \in Loops : \A d \in loop[l].running : d.msg \notin unreadable

\* Its receipts are its failed runs and the one under way, until it lapses or is served.
RunsCounted ==
    \A m \in Msgs \ (lapsed \cup served \cup unreadable) :
        receipts[m] = failed[m] + IF InHand(m) THEN 1 ELSE 0

\* While no call of SQS failed, what is filed leaves the queue with its copy.
FiledOnce ==
    sqsFaults = 0 => \A m \in Msgs \ lapsed : dead[m] <= 1 /\ (dead[m] = 1 => place[m] = "deleted")

IInv == /\ TypeOK /\ HeldOnce /\ Unsent /\ RunsAreReadable /\ RunsCounted /\ FiledOnce
        /\ NothingLost /\ DeadAfterItsRuns
=============================================================================
