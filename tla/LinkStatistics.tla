---------------------------- MODULE LinkStatistics ----------------------------
(* The visits of links (dynamic_links/lib/src: runtime/resolve.ts record,     *)
(* db/statistics.ts, core/declaration.ts statistics): pushed to a queue that  *)
(* hands them over in groups, written by one insert per group, and listed a   *)
(* page at a time, the newest first. A link is visited for as long as its     *)
(* cached row answers, whether or not it is still there.                      *)
EXTENDS Naturals, FiniteSets

CONSTANTS
    Visits, LinkOf,      \* the visits, and the link each is of
    Listed,              \* the link that is listed
    PageSize,
    MaxGroups,           \* bound: groups handed over
    MaxVisitFaults       \* bound: inserts refused, acknowledgements lost, processes that die

LinkStatisticsAssumption ==
    /\ Listed \in {LinkOf[v] : v \in Visits} /\ PageSize \in Nat \ {0}
    /\ MaxGroups \in Nat /\ MaxVisitFaults \in Nat

VARIABLES
    links,      \* the links that are there
    waiting,    \* the visits in the queue
    groups,     \* the groups handed over and not acknowledged, by when each was
    rows,       \* the rows: the visit, and the group whose insert dated it
    handed,     \* how many groups were handed over
    refused,    \* visits of groups the table refused
    gone,       \* visits whose rows were taken away, with their link or by age
    again,      \* visits handed over again after they were written
    walk,       \* the caller of the listing: its offset, what it met, what stayed, whether
                \* two rows were dated alike, whether a removal moved the pages under it
    visitFaults

visitVars == <<links, waiting, groups, rows, handed, refused, gone, again, walk, visitFaults>>

Links == {LinkOf[v] : v \in Visits}
Fault == visitFaults < MaxVisitFaults /\ visitFaults' = visitFaults + 1
RowsOf(l) == {r \in rows : LinkOf[r.visit] = l}
Unlisted == [pc |-> "idle", offset |-> 0, met |-> {}, stayed |-> {}, moved |-> FALSE, tied |-> FALSE]

Init ==
    /\ links = Links /\ waiting = {} /\ groups = {} /\ rows = {} /\ handed = 0
    /\ refused = {} /\ gone = {} /\ again = {} /\ walk = Unlisted /\ visitFaults = 0

\* A visit is pushed once; its link may have been revoked since it was resolved.
Known == waiting \union UNION {g.visits : g \in groups} \union {r.visit : r \in rows}
         \union refused \union gone
Record(v) ==
    /\ v \notin Known /\ waiting' = waiting \union {v}
    /\ UNCHANGED <<links, groups, rows, handed, refused, gone, again, walk, visitFaults>>

\* The queue hands over what it has gathered.
Gather(S) ==
    /\ S # {} /\ S \subseteq waiting /\ handed < MaxGroups
    /\ handed' = handed + 1
    /\ groups' = groups \union {[visits |-> S, no |-> handed', written |-> FALSE]}
    /\ waiting' = waiting \ S
    /\ UNCHANGED <<links, rows, refused, gone, again, walk, visitFaults>>

\* Mutant of Write: a group of several is taken for an empty one.
WriteOne(g, ok) ==
    LET kept == {v \in g.visits : LinkOf[v] \in links /\ \A w \in g.visits : w = v} IN
    /\ g \in groups /\ ~g.written /\ ok
    /\ rows' = rows \union {[visit |-> v, at |-> g.no] : v \in kept}
    /\ groups' = (groups \ {g}) \union {[g EXCEPT !.written = TRUE]}
    /\ UNCHANGED <<links, waiting, handed, refused, gone, again, walk, visitFaults>>

\* One insert dates every row of the group alike. The table takes the whole group or, for a
\* link that is gone or for a reason of its own, nothing of it; the handler is done either way.
Write(g, ok) ==
    LET whole == \A v \in g.visits : LinkOf[v] \in links IN
    /\ g \in groups /\ ~g.written
    /\ IF ok = whole THEN UNCHANGED visitFaults ELSE whole /\ Fault
    /\ rows' = IF ok THEN rows \union {[visit |-> v, at |-> g.no] : v \in g.visits} ELSE rows
    /\ refused' = IF ok THEN refused ELSE refused \union g.visits
    /\ groups' = (groups \ {g}) \union {[g EXCEPT !.written = TRUE]}
    /\ UNCHANGED <<links, waiting, handed, gone, again, walk>>

\* A group is forgotten once it is acknowledged. An acknowledgement that is lost, and a
\* process that dies, have it handed over again.
Ack(g) ==
    /\ g \in groups /\ g.written /\ groups' = groups \ {g}
    /\ UNCHANGED <<links, waiting, rows, handed, refused, gone, again, walk, visitFaults>>

Redeliver(g) ==
    /\ g \in groups /\ Fault /\ groups' = groups \ {g}
    /\ waiting' = waiting \union g.visits
    /\ again' = IF g.written THEN again \union g.visits ELSE again
    /\ UNCHANGED <<links, rows, handed, refused, gone, walk>>

Lose(lost) ==
    /\ rows' = rows \ lost /\ gone' = gone \union {r.visit : r \in lost}
    /\ walk' = [walk EXCEPT !.stayed = @ \ lost,
                            !.moved = @ \/ \E r \in lost : LinkOf[r.visit] = Listed]

\* A link that is revoked, or expires, takes the rows of its visits with it.
Revoke(l) ==
    /\ l \in links /\ links' = links \ {l} /\ Lose(RowsOf(l))
    /\ UNCHANGED <<waiting, groups, handed, refused, again, visitFaults>>

\* The rows up to an age are pruned.
Prune(n) ==
    /\ \E r \in rows : r.at <= n
    /\ Lose({r \in rows : r.at <= n})
    /\ UNCHANGED <<links, waiting, groups, handed, refused, again, visitFaults>>

\* The rows before a place in an order by date alone, in which equal dates come in any order.
Before(n, first) ==
    LET all == RowsOf(Listed) IN
    /\ first \subseteq all
    /\ Cardinality(first) = (IF n < Cardinality(all) THEN n ELSE Cardinality(all))
    /\ \A r \in first, s \in all \ first : s.at <= r.at

Start ==
    /\ walk.pc = "idle" /\ Listed \in links
    /\ walk' = [Unlisted EXCEPT !.pc = "asking", !.stayed = RowsOf(Listed)]
    /\ UNCHANGED <<links, waiting, groups, rows, handed, refused, gone, again, visitFaults>>

\* Mutant of Page: the row read to know whether there are more is answered and passed over.
PageAndOne(before, upto) ==
    /\ walk.pc = "asking"
    /\ Before(walk.offset, before) /\ Before(walk.offset + PageSize + 1, upto)
    /\ before \subseteq upto
    /\ LET read == upto \ before
           end == Cardinality(read) <= PageSize
       IN \E page \in SUBSET read :
            /\ Cardinality(page) = IF end THEN Cardinality(read) ELSE PageSize
            /\ \A r \in page, s \in read \ page : s.at <= r.at
            /\ walk' = [walk EXCEPT !.offset = @ + PageSize + 1, !.met = @ \union page,
                          !.pc = IF end THEN "over" ELSE "asking"]
    /\ UNCHANGED <<links, waiting, groups, rows, handed, refused, gone, again, visitFaults>>

\* statistics reads one row more than the page, which says whether there is another; every
\* read orders the rows anew.
Page(before, upto) ==
    /\ walk.pc = "asking"
    /\ Before(walk.offset, before) /\ Before(walk.offset + PageSize + 1, upto)
    /\ before \subseteq upto
    /\ LET read == upto \ before
           end == Cardinality(read) <= PageSize
       IN \E page \in SUBSET read :
            /\ Cardinality(page) = IF end THEN Cardinality(read) ELSE PageSize
            /\ \A r \in page, s \in read \ page : s.at <= r.at
            /\ walk' = [walk EXCEPT !.offset = @ + PageSize, !.met = @ \union page,
                          !.tied = @ \/ \E r, s \in RowsOf(Listed) : r # s /\ r.at = s.at,
                          !.pc = IF end THEN "over" ELSE "asking"]
    /\ UNCHANGED <<links, waiting, groups, rows, handed, refused, gone, again, visitFaults>>

Next ==
    \/ \E v \in Visits : Record(v)
    \/ \E S \in SUBSET waiting : Gather(S)
    \/ \E g \in groups : Ack(g) \/ Redeliver(g) \/ \E ok \in BOOLEAN : Write(g, ok)
    \/ \E l \in Links : Revoke(l)
    \/ \E n \in 1..handed : Prune(n)
    \/ Start
    \/ walk.pc = "asking" /\ \E before, upto \in SUBSET RowsOf(Listed) : Page(before, upto)

Spec == Init /\ [][Next]_visitVars

-----------------------------------------------------------------------------
TypeOK ==
    /\ links \subseteq Links /\ waiting \subseteq Visits
    /\ \A g \in groups : g.visits \subseteq Visits /\ g.no \in 1..handed /\ g.written \in BOOLEAN
    /\ \A r \in rows : r.visit \in Visits /\ r.at \in 1..handed
    /\ handed \in 0..MaxGroups /\ UNION {refused, gone, again} \subseteq Visits
    /\ walk.pc \in {"idle", "asking", "over"} /\ walk.offset \in Nat
    /\ visitFaults \in 0..MaxVisitFaults

\* A visit that left the queue is a row, unless its group was refused, for a link that was
\* gone or by the table, or its row was taken away; and it is one row, unless its group was
\* handed over again after it was written (db/statistics.ts).
VisitsCountedOnce ==
    /\ \A g \in groups : g.written => \A v \in g.visits :
          (\E r \in rows : r.visit = v) \/ v \in refused \/ v \in gone
    /\ \A r, s \in rows : r.visit = s.visit /\ r # s => r.visit \in again

\* Whoever follows the pages of a link to the end has met every row that stayed, as long as
\* no two rows are dated alike and nothing was removed; rows that come meanwhile only have
\* some answered twice (db/statistics.ts statisticsOf).
WalkMeetsTheRows == walk.pc = "over" => walk.stayed \subseteq walk.met \/ walk.tied \/ walk.moved
=============================================================================
