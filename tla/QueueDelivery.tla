----------------------------- MODULE QueueDelivery -----------------------------
(***************************************************************************)
(* One delivery after the other of the messages of a stream, until each is *)
(* acknowledged, filed in the dead letter, or dropped by the server        *)
(* (foundation/lib/src/queue).                                             *)
(*                                                                         *)
(* The server counts deliveries and stops at max_deliver. Every replica    *)
(* reads the whole stream: one that does not declare the queue of a        *)
(* message hands it back, and notes in Redis that this delivery was no     *)
(* attempt. The replica that does declare it runs the body, alone or over  *)
(* a group, and answers. A delivery unanswered for ack_wait is made again, *)
(* to anybody, while the body of the first may still be running.           *)
(***************************************************************************)
EXTENDS Integers, FiniteSets, FiniteSetsExt

CONSTANTS
    Msgs,           \* messages, as the stream numbers them
    Queues,         \* names
    Batched,        \* queues whose body takes a group
    MaxRetries,     \* [Queues -> Nat]: deliveries after which a message is spent
    DefaultRetries, \* the least the streams are provisioned for
    Replicas,
    Declares,       \* [Replicas -> SUBSET Queues]
    MaxFaults       \* bound: calls that fail, answers lost or late, replicas that die

QueueAssumption ==
    /\ IsFiniteSet(Queues)
    /\ Batched \subseteq Queues
    /\ MaxRetries \in [Queues -> Nat \ {0}]
    /\ DefaultRetries \in Nat
    /\ Declares \in [Replicas -> SUBSET Queues]
    /\ MaxFaults \in Nat

VARIABLES
    queue,      \* the queue each message goes to
    unreadable, \* messages whose payload does not decode
    server,     \* what the stream does with each message
    count,      \* the deliveries it made of it
    copies,     \* deliveries in the hands of a replica
    noted,      \* hand-backs counted in Redis
    dead,       \* messages with an entry in the dead letter
    succeeded,  \* messages a body agreed to
    tried,      \* deliveries a body refused, of each message
    handed,     \* deliveries handed back
    misread,    \* hand-backs that the policy reads as attempts
    lost,       \* deliveries never answered, not as they had to be, or still in hand when
                \* the next one was made
    faults      \* faults so far

pushed == <<queue, unreadable>>
fates == <<dead, succeeded>>
history == <<tried, handed, misread, lost>>
vars == <<pushed, server, count, copies, noted, fates, history, faults>>

\* A delivery held: to run, refused by its body, or to file in the dead letter.
Copies == [msg : Msgs, by : Replicas, nth : Nat \ {0}, stage : {"held", "failed", "spent"}]

Retries(m) == MaxRetries[queue[m]]

\* Mutant of MaxDeliver: no delivery past the longest retry policy.
NoExtraDelivery == Max({DefaultRetries} \cup {MaxRetries[q] : q \in Queues})

\* planFor: one above the longest retry policy, so that the server stops last.
MaxDeliver == Max({DefaultRetries} \cup {MaxRetries[q] : q \in Queues}) + 1

Init ==
    /\ queue \in [Msgs -> Queues]
    /\ unreadable \in SUBSET Msgs
    /\ server = [m \in Msgs |-> "none"]
    /\ count = [m \in Msgs |-> 0]
    /\ copies = {}
    /\ noted = [m \in Msgs |-> 0]
    /\ dead = {}
    /\ succeeded = {}
    /\ tried = [m \in Msgs |-> {}]
    /\ handed = [m \in Msgs |-> {}]
    /\ misread = [m \in Msgs |-> {}]
    /\ lost = [m \in Msgs |-> {}]
    /\ faults = 0

Fault == faults < MaxFaults /\ faults' = faults + 1

\* [nth of the deliveries of m in cs] added to what history keeps of m.
With(deliveries, cs) == [m \in Msgs |-> deliveries[m] \cup {c.nth : c \in {d \in cs : d.msg = m}}]

-----------------------------------------------------------------------------
(* The server.                                                             *)

Push(m) ==
    /\ server[m] = "none"
    /\ server' = [server EXCEPT ![m] = "ready"]
    /\ UNCHANGED <<pushed, count, copies, noted, fates, history, faults>>

\* The next delivery, which overtakes the ones still in hand: an older one of them may
\* have been refused, or have taken too long.
Deliver(m, r) ==
    /\ server[m] = "ready" /\ count[m] < MaxDeliver
    /\ server' = [server EXCEPT ![m] = "out"]
    /\ count' = [count EXCEPT ![m] = @ + 1]
    /\ copies' = copies \cup {[msg |-> m, by |-> r, nth |-> count[m] + 1, stage |-> "held"]}
    /\ lost' = With(lost, {c \in copies : c.msg = m})
    /\ UNCHANGED <<pushed, noted, fates, tried, handed, misread, faults>>

\* The server gives up, with nothing but an advisory to show for it.
ServerStops(m) ==
    /\ server[m] = "ready" /\ count[m] = MaxDeliver
    /\ server' = [server EXCEPT ![m] = "stopped"]
    /\ UNCHANGED <<pushed, count, copies, noted, fates, history, faults>>

\* ack_wait is over, and a replica still holding the delivery answers late.
AckWaitElapses(m) ==
    /\ server[m] = "out"
    /\ server' = [server EXCEPT ![m] = "ready"]
    /\ IF \E c \in copies : c.msg = m /\ c.nth = count[m]
         THEN Fault /\ lost' = [lost EXCEPT ![m] = @ \cup {count[m]}]
         ELSE UNCHANGED <<lost, faults>>
    /\ UNCHANGED <<pushed, count, copies, noted, fates, tried, handed, misread>>

\* What an answer does to the messages of ms, whichever delivery it answers.
Nak(ms) == server' = [m \in Msgs |-> IF m \in ms /\ server[m] = "out" THEN "ready" ELSE server[m]]
End(ms) == server' = [m \in Msgs |-> IF m \in ms /\ server[m] \in {"out", "ready"}
                                       THEN "done" ELSE server[m]]

-----------------------------------------------------------------------------
(* A replica and the deliveries it holds.                                  *)

MsgsOf(cs) == {c.msg : c \in cs}
At(stage) == {c \in copies : c.stage = stage}

\* The deliveries of cs are over for the replica.
Drop(cs) == copies' = copies \ cs

\* The copies of cs go on to another stage.
Moved(cs, stage) == {[c EXCEPT !.stage = stage] : c \in cs}

Declared(c) == queue[c.msg] \in Declares[c.by]

\* Mutant of HandBack: the note is written twice over.
HandBackNotedTwice(c) ==
    /\ c \in At("held") /\ ~Declared(c)
    /\ Nak({c.msg})
    /\ Drop({c})
    /\ handed' = With(handed, {c})
    /\ noted' = [noted EXCEPT ![c.msg] = @ + 2]
    /\ UNCHANGED <<pushed, count, fates, tried, misread, lost, faults>>

\* A queue this replica does not declare: the message goes back, for thirty seconds,
\* and the note is written well within them or not at all.
HandBack(c) ==
    /\ c \in At("held") /\ ~Declared(c)
    /\ Nak({c.msg})
    /\ Drop({c})
    /\ handed' = With(handed, {c})
    /\ \/ noted' = [noted EXCEPT ![c.msg] = @ + 1] /\ UNCHANGED <<misread, faults>>
       \/ Fault /\ misread' = With(misread, {c}) /\ UNCHANGED noted
    /\ UNCHANGED <<pushed, count, fates, tried, lost>>

Readable(c) == c.msg \notin unreadable

\* The delivery is filed in the dead letter and the message terminated.
Filed(c) ==
    /\ dead' = dead \cup {c.msg}
    /\ End({c.msg})
    /\ UNCHANGED <<lost, faults>>

\* Filing raised, whether the entry was stored or not, and the message is refused for
\* another time; or it was stored and no answer reached the server.
NotFiled(c) ==
    /\ Fault
    /\ \/ dead' \in {dead, dead \cup {c.msg}} /\ Nak({c.msg})
       \/ dead' = dead \cup {c.msg} /\ UNCHANGED server
    /\ lost' = With(lost, {c})

Discard(c) ==
    /\ c \in At("held") /\ Declared(c) /\ ~Readable(c)
    /\ Drop({c})
    /\ Filed(c) \/ NotFiled(c)
    /\ UNCHANGED <<pushed, count, noted, succeeded, tried, handed, misread>>

\* What a body is called with: one delivery, or some of the same queue together.
Groups(r) ==
    {cs \in SUBSET {c \in At("held") : c.by = r /\ Declared(c) /\ Readable(c)} :
        /\ cs # {}
        /\ Cardinality({queue[m] : m \in MsgsOf(cs)}) = 1
        /\ Cardinality(cs) = 1 \/ MsgsOf(cs) \subseteq {m \in Msgs : queue[m] \in Batched}}

\* Mutant of Refusals: one refusal takes the whole group to the policy.
RefusalOfTheGroup(cs, refused) == IF refused = {} THEN {} ELSE cs

\* The deliveries whose refused acknowledgement goes to the policy. For one message it
\* is made inside the try; in a group it is left to the server unless it is spent.
Refusals(cs, refused) ==
    {c \in refused : queue[c.msg] \notin Batched \/ c.nth >= Retries(c.msg)}

\* The body agrees. An acknowledgement may refuse, or never reach the server.
BodyAgrees(r) == \E cs \in Groups(r) : \E bad \in SUBSET cs : \E refused \in {{}, bad} :
    /\ succeeded' = succeeded \cup MsgsOf(cs)
    /\ End(MsgsOf(cs \ bad))
    /\ copies' = (copies \ cs) \cup Moved(Refusals(cs, refused), "failed")
    /\ lost' = With(lost, bad)
    /\ IF bad = {} THEN UNCHANGED faults ELSE Fault
    /\ UNCHANGED <<pushed, count, noted, dead, tried, handed, misread>>

\* The body raises, or outlasts its deadline.
BodyRefuses(r) == \E cs \in Groups(r) :
    /\ copies' = (copies \ cs) \cup Moved(cs, "failed")
    /\ tried' = With(tried, cs)
    /\ UNCHANGED <<pushed, server, count, noted, fates, handed, misread, lost, faults>>

Retry(c) ==
    /\ c \in At("failed") /\ c.nth < Retries(c.msg)
    /\ Nak({c.msg})
    /\ Drop({c})
    /\ UNCHANGED <<pushed, count, noted, fates, history, faults>>

\* Mutant of Weigh: the count of the server is taken for the attempts.
WeighDeliveries(c) ==
    /\ c \in At("failed") /\ c.nth >= Retries(c.msg)
    /\ copies' = (copies \ {c}) \cup Moved({c}, "spent")
    /\ UNCHANGED <<pushed, server, count, noted, fates, history, faults>>

\* Hand-backs are taken off before a message is given up; not readable, they are none.
Weigh(c) ==
    /\ c \in At("failed") /\ c.nth >= Retries(c.msg)
    /\ \E handedBack \in {noted[c.msg], 0} :
         /\ IF handedBack = noted[c.msg]
              THEN UNCHANGED <<misread, faults>>
              ELSE Fault /\ misread' = [misread EXCEPT ![c.msg] = @ \cup handed[c.msg]]
         /\ IF c.nth - handedBack < Retries(c.msg)
              THEN Nak({c.msg}) /\ Drop({c})
              ELSE copies' = (copies \ {c}) \cup Moved({c}, "spent") /\ UNCHANGED server
    /\ UNCHANGED <<pushed, count, noted, fates, tried, handed, lost>>

\* Mutant of FileSpent: the dead letter is written and the message not terminated.
FileAndRefuse(c) ==
    /\ c \in At("spent")
    /\ Drop({c})
    /\ dead' = dead \cup {c.msg}
    /\ Nak({c.msg})
    /\ noted' = [noted EXCEPT ![c.msg] = 0]
    /\ UNCHANGED <<pushed, count, succeeded, history, faults>>

\* The dead letter, and what was noted of the message is forgotten, or not.
FileSpent(c) ==
    /\ c \in At("spent")
    /\ Drop({c})
    /\ \/ Filed(c) /\ noted' \in {noted, [noted EXCEPT ![c.msg] = 0]}
       \/ NotFiled(c) /\ UNCHANGED noted
    /\ UNCHANGED <<pushed, count, succeeded, tried, handed, misread>>

\* The replica dies, or the pass raises, with deliveries it will not answer. One that
\* was being filed may have been.
Abandon(r) == \E cs \in SUBSET {c \in copies : c.by = r} :
    /\ cs # {}
    /\ Fault
    /\ Drop(cs)
    /\ \E stored \in SUBSET (cs \cap At("spent")) : dead' = dead \cup MsgsOf(stored)
    /\ lost' = With(lost, cs)
    /\ UNCHANGED <<pushed, server, count, noted, succeeded, tried, handed, misread>>

-----------------------------------------------------------------------------

Serve(m) == Push(m) \/ ServerStops(m) \/ AckWaitElapses(m)
                \/ \E r \in Replicas : Deliver(m, r)

Answer(c) == HandBack(c) \/ Discard(c) \/ Retry(c) \/ Weigh(c) \/ FileSpent(c)

Next ==
    \/ \E m \in Msgs : Serve(m)
    \/ \E c \in copies : Answer(c)
    \/ \E r \in Replicas : BodyAgrees(r) \/ BodyRefuses(r) \/ Abandon(r)

Spec == Init /\ [][Next]_vars

-----------------------------------------------------------------------------
(* Properties.                                                             *)

TypeOK ==
    /\ queue \in [Msgs -> Queues]
    /\ unreadable \subseteq Msgs
    /\ server \in [Msgs -> {"none", "ready", "out", "done", "stopped"}]
    /\ count \in [Msgs -> 0..MaxDeliver]
    /\ copies \subseteq Copies
    /\ noted \in [Msgs -> Nat]
    /\ \A m \in Msgs : noted[m] <= Cardinality(handed[m])
    /\ dead \subseteq Msgs
    /\ succeeded \subseteq Msgs
    /\ {tried, handed, misread, lost} \subseteq [Msgs -> SUBSET (1..MaxDeliver)]
    /\ faults \in 0..MaxFaults

\* Nobody will do anything more with the message.
Dropped(m) == server[m] = "stopped" /\ \A c \in copies : c.msg # m

\* "The server has to keep delivering for as long as FailurePolicy intends to retry, or
\* it would stop first and the message would be dropped", said of max_deliver: with no
\* fault and no answer late, no message a body was tried on is dropped with nothing in
\* the dead letter.
NoSilentDrop ==
    \A m \in Msgs : Dropped(m) /\ lost[m] = {} /\ tried[m] # {} => m \in dead \cup succeeded

\* The extra delivery of max_deliver pays for one delivery that comes to nothing, a
\* replica dead before it answered, a hand-back or a dead letter that refused: a message
\* dropped without a trace had two.
DroppedOnlyAfterTwoLosses ==
    \A m \in Msgs : Dropped(m) /\ m \notin dead \cup succeeded =>
        Cardinality(lost[m] \cup handed[m]) >= 2

\* Hand-backs are not tries: a message filed in the dead letter was refused by a body as
\* often as its queue allows, unless deliveries went unanswered, or were overtaken by the
\* next one, or hand-backs went uncounted.
FiledAfterItsTries ==
    \A m \in dead \ unreadable :
        Cardinality(tried[m] \cup lost[m] \cup misread[m]) >= Retries(m)

\* A job that succeeded is filed as a failure only when an answer to one of its own
\* deliveries was refused, lost or late, whatever became of the others in its group.
SuccessFiledOnlyUnanswered ==
    \A m \in dead \cap succeeded : lost[m] # {}

\* Filing a message ends it: it is delivered again only if the answer that should have
\* ended it failed or was lost.
FiledStaysFiled == \A m \in dead : count'[m] > count[m] => lost[m] # {}
FiledForGood == [][FiledStaysFiled]_vars
=============================================================================
