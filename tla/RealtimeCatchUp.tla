--------------------------- MODULE RealtimeCatchUp --------------------------
(***************************************************************************)
(* How a client that was away learns what it missed on a channel           *)
(* (realtime/deploy/db/init/realtime.sql: log_realtime_event,              *)
(* get_realtime_ids, cleanup-realtime-events).                             *)
(*                                                                         *)
(* A change of a row is logged by the transaction that makes it, at the    *)
(* time that transaction began.  A client hands back the time it knows of  *)
(* and the rows it holds, and is told which of them to fetch and which to  *)
(* drop.  A day of the log goes when it is older than the retention.       *)
(***************************************************************************)
EXTENDS Integers, FiniteSets, FiniteSetsExt

CONSTANTS
    Entities,   \* the rows the channel is about
    Writers,    \* the transactions that may be open together
    Lag,        \* v_lag_ms
    Retention,  \* the thirty days, in the same unit
    MaxNow, MaxEvents, MaxCalls

CatchUpAssumption ==
    /\ IsFiniteSet(Entities) /\ IsFiniteSet(Writers)
    /\ {Lag, Retention, MaxNow, MaxEvents, MaxCalls} \subseteq Nat /\ MaxNow > 0

VARIABLES
    now,
    live,       \* the rows that exist
    began,      \* when each open transaction began, None when it is not open
    events,     \* the log
    client,     \* its cursor and the rows it holds
    calls,
    lost        \* the rows whose last change it cannot be told of, see RowsCaughtUp

catchUpVars == <<now, live, began, events, client, calls, lost>>

None == -1

Init ==
    /\ now = 1 /\ live = {} /\ events = {} /\ calls = 0 /\ lost = {}
    /\ began = [w \in Writers |-> None]
    /\ client = [cursor |-> 0, known |-> {}]

Tick ==
    /\ now < MaxNow
    /\ now' = now + 1
    /\ UNCHANGED <<live, began, events, client, calls, lost>>

Begin(w) ==
    /\ began[w] = None
    /\ began' = [began EXCEPT ![w] = now]
    /\ UNCHANGED <<now, live, events, client, calls, lost>>

\* The transaction makes its change and commits; the log numbers it then and dates it from its
\* beginning. What was dated later already, or dated behind a cursor by more than the lag, is out
\* of the reach of what a client is told.
Commit(w, x, action) ==
    LET id == Cardinality(events) + 1
        earlier == {e \in events : e.of = x} IN
    /\ began[w] # None /\ id <= MaxEvents
    /\ (action = "insert") = (x \notin live)
    /\ live' = IF action = "delete" THEN live \ {x} ELSE live \cup {x}
    /\ events' = events \cup {[id |-> id, of |-> x, action |-> action, at |-> began[w],
                               kept |-> TRUE]}
    /\ lost' = IF (\E e \in earlier : e.at > began[w]) \/ now - began[w] >= Lag
               THEN lost \cup {x} ELSE lost
    /\ began' = [began EXCEPT ![w] = None]
    /\ UNCHANGED <<now, client, calls>>

Logged == {e \in events : e.kept}

\* The nightly job.
Cleanup ==
    /\ \E e \in Logged : e.at < now - Retention
    /\ events' = {[e EXCEPT !.kept = @ /\ e.at >= now - Retention] : e \in events}
    /\ lost' = lost \cup {e.of : e \in {f \in Logged :
                             client.cursor = 0 /\ f.at < now - Retention}}
    /\ UNCHANGED <<now, live, began, client, calls>>

Later(e, f) == e.at > f.at \/ (e.at = f.at /\ e.id >= f.id)

\* The last change of each row since the cursor.
Latest(cursor) ==
    LET since == {e \in Logged : e.at > cursor} IN
    {e \in since : \A f \in since : f.of = e.of => Later(e, f)}

\* Mutant of CursorPast: the cursor goes to the last change there is.
CursorPastAll(cursor, last) == last

\* Never past what a transaction that is still open may log.
CursorPast(cursor, last) == Max({cursor, Min({last, now - Lag})})

\* A change that was logged later is dated earlier.
Overtaken(e) == \E f \in events : f.of = e.of /\ f.id > e.id /\ f.at < e.at

\* A cursor older than the log is answered with everything; the client reads the rows themselves.
\* What it is told of next are the changes dated past the new cursor, the last of which need not be
\* the last of its row.
Resync ==
    /\ client.cursor # 0 /\ client.cursor < now - Retention
    /\ client' = [cursor |-> now - Lag, known |-> live]
    /\ lost' = {e.of : e \in {f \in Logged : f.at > now - Lag /\ Overtaken(f)}}

\* Nothing since: the cursor stays where it was.
Nothing ==
    /\ client.cursor = 0 \/ client.cursor >= now - Retention
    /\ Latest(client.cursor) = {}
    /\ UNCHANGED <<client, lost>>

\* Rows that changed and are known, and rows that appeared; rows that are gone and were known.
CatchUp ==
    LET latest == Latest(client.cursor)
        fetched == {e.of : e \in {f \in latest : \/ f.action # "delete" /\ f.of \in client.known
                                                 \/ f.action = "insert"}}
        dropped == {e.of : e \in {f \in latest : f.action = "delete"}} \cap client.known
        cursor == CursorPast(client.cursor, Max({e.at : e \in latest})) IN
    /\ client.cursor = 0 \/ client.cursor >= now - Retention
    /\ latest # {}
    /\ client' = [cursor |-> cursor, known |-> (client.known \cup fetched) \ dropped]
    /\ lost' = lost \cup {e.of : e \in {f \in latest : f.action = "update" /\
                                                       f.of \notin client.known}}

Call ==
    /\ calls < MaxCalls /\ calls' = calls + 1
    /\ Resync \/ Nothing \/ CatchUp
    /\ UNCHANGED <<now, live, began, events>>

Next ==
    \/ Tick \/ Cleanup \/ Call
    \/ \E w \in Writers : \/ Begin(w)
                          \/ \E x \in Entities, action \in {"insert", "update", "delete"} :
                                Commit(w, x, action)

Spec == Init /\ [][Next]_catchUpVars

-----------------------------------------------------------------------------
TypeOK ==
    /\ now \in 1..MaxNow /\ live \subseteq Entities /\ lost \subseteq Entities
    /\ began \in [Writers -> 1..MaxNow \cup {None}]
    /\ Cardinality(events) <= MaxEvents
    /\ client.cursor \in Int /\ client.known \subseteq Entities
    /\ calls \in 0..MaxCalls

\* A row whose changes are all behind the cursor is held by the client exactly when it exists,
\* unless it was lost to it: its transaction stayed open for the whole lag, or was overtaken by one
\* that began after it, or it appeared and changed between two calls, or the log was cleaned
\* before the client ever had a cursor. Having read everything anew brings back what was lost, but
\* for a row that was overtaken within the lag.
RowsCaughtUp ==
    \A x \in Entities \ lost :
        (\A e \in events : e.of = x => e.at <= client.cursor) => (x \in live) = (x \in client.known)

-----------------------------------------------------------------------------
(* Why that holds.                                                         *)

\* The log is numbered in the order of the commits and dated by the beginnings.
Numbered ==
    /\ IsFiniteSet(events)
    /\ events \subseteq [id : 1..Cardinality(events), of : Entities, at : 1..now,
                         action : {"insert", "update", "delete"}, kept : BOOLEAN]
    /\ \A e, f \in events : e.id = f.id => e = f
    /\ \A w \in Writers : began[w] # None => began[w] <= now

\* The change of a row that was logged last says whether it exists.
LastTells ==
    \A x \in Entities :
        \/ x \notin live /\ \A e \in events : e.of # x
        \/ \E last \in events : /\ last.of = x /\ (x \in live) = (last.action # "delete")
                               /\ \A e \in events : e.of = x => e.id <= last.id

\* The cursor is behind whatever may still be logged and told of.
Behind == client.cursor \in Int /\ (client.cursor <= 0 \/ client.cursor <= now - Lag)

\* Past the cursor the dates of a row that is not lost follow the numbers, and the cleaning does.
Ordered ==
    /\ \A e \in Logged, f \in events :
        e.of = f.of /\ e.of \notin lost /\ e.id < f.id /\ e.at > client.cursor => e.at <= f.at
    /\ \A e \in Logged, f \in events : e.id < f.id /\ e.at <= f.at => f.kept

\* Nothing the next call would tell of.
NothingOf(x) ==
    \/ \A e \in events : e.of = x => e.at <= client.cursor
    \/ /\ client.cursor = 0 \/ client.cursor >= now - Retention
       /\ \A e \in Logged : e.of = x => e.at <= client.cursor

\* Then there is nothing to be told.
Told == \A x \in Entities \ lost : NothingOf(x) => (x \in live) = (x \in client.known)

IInv == TypeOK /\ Numbered /\ LastTells /\ Behind /\ Ordered /\ Told
=============================================================================
