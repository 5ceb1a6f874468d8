--------------------------- MODULE ChangeDelivery ---------------------------
(* What the outbox of table changes promises, whatever replicas drain it and  *)
(* however they fail (foundation/lib/src/trigger): a change waits in a table  *)
(* until the stream had it for every declaration it is owed to, and for these *)
(* it is never taken back. TriggerOutbox implements it.                       *)
CONSTANTS
    Events,   \* changes
    OwedTo    \* per change: the declarations it is owed to

VARIABLES
    written,  \* changes committed
    waiting,  \* changes still in the table
    reached   \* <<declaration, change>> pairs the stream has had

deliveryVars == <<written, waiting, reached>>

Init == written = {} /\ waiting = {} /\ reached = {}

Write(e) ==
    /\ e \notin written
    /\ written' = written \union {e} /\ waiting' = waiting \union {e}
    /\ UNCHANGED reached

Reach(t, e) ==
    /\ e \in written /\ t \in OwedTo[e]
    /\ reached' = reached \union {<<t, e>>}
    /\ UNCHANGED <<written, waiting>>

Leave ==
    /\ waiting' \subseteq waiting
    /\ \A e \in waiting \ waiting' : \A t \in OwedTo[e] : <<t, e>> \in reached
    /\ UNCHANGED <<written, reached>>

Next ==
    \/ \E e \in Events : Write(e)
    \/ Leave
    \/ \E e \in Events : \E t \in OwedTo[e] : Reach(t, e)

Spec == Init /\ [][Next]_deliveryVars
=============================================================================
