---------------------------- MODULE AudiencePages ----------------------------
(* The listings of the table of memberships (audience/lib/src/db/members.ts): *)
(* the members of one audience, page after page, and the audiences of one     *)
(* member, in one window. Names are the ones listed, in the order of their    *)
(* index. Expired rows are there until they are reaped and are passed over    *)
(* after they are read, so that a page is put together from several reads     *)
(* between which the table changes.                                           *)
EXTENDS Naturals, FiniteSets

CONSTANTS
    Names,            \* 1..n
    Limits,           \* how many a caller asks for at once
    ScanMultiplier,   \* pages' worth of rows that are read for one page
    MaxChanges,       \* bound: rows that are written or taken away
    MaxListFaults     \* bound: calls of the table that fail

AudiencePagesAssumption ==
    /\ Names = 1..Cardinality(Names) /\ Limits \subseteq Nat \ {0}
    /\ ScanMultiplier \in Nat \ {0} /\ MaxChanges \in Nat /\ MaxListFaults \in Nat

VARIABLES
    row,       \* per name: "none", or a row that is "live" or "expired"
    limit,     \* what the caller of the walk asks for
    cursor,    \* the last row read, or asked to be read after
    page,      \* the live names collected for the page under way
    scanned,   \* the rows read for it
    met,       \* the names of the pages answered before
    walk,      \* "asking", "reading", "over", or "blind": the table could not be read
    stayed,    \* the names that have been live since the walk began
    cut,       \* whether a page was filled from a read that was short, before its last row
    held,      \* what the window of the audiences of a member answered last
    changes, listFaults

audiencePageVars == <<row, limit, cursor, page, scanned, met, walk, stayed, cut, held, changes, listFaults>>

Live == {n \in Names : row[n] = "live"}
Held == {n \in Names : row[n] # "none"}
NoWindow == [names |-> {}, truncated |-> FALSE, left |-> {}, rows |-> 0, limit |-> 0]

Init ==
    /\ row \in [Names -> {"none", "live", "expired"}]
    /\ limit \in Limits
    /\ cursor = 0 /\ page = {} /\ scanned = 0 /\ met = {}
    /\ walk = "asking" /\ stayed = Live /\ cut = FALSE
    /\ held = NoWindow /\ changes = 0 /\ listFaults = 0

WalkKeeps == UNCHANGED <<limit, cursor, page, scanned, met, walk, cut, listFaults>>
Changed(new) ==
    /\ changes < MaxChanges /\ changes' = changes + 1
    /\ row' = new /\ stayed' = {n \in stayed : new[n] = "live"}
    /\ held' = NoWindow /\ WalkKeeps

\* writeMembership and writeMemberships, dropMembership, the expiry of a row, and
\* dropAudience or dropMember.
Join(n) == row[n] # "live" /\ Changed([row EXCEPT ![n] = "live"])
Leave(n) == row[n] # "none" /\ Changed([row EXCEPT ![n] = "none"])
Lapse(n) == row[n] = "live" /\ Changed([row EXCEPT ![n] = "expired"])
Empty == Held # {} /\ Changed([n \in Names |-> "none"])

\* reapExpired, in one statement.
Reap ==
    /\ Held # Live
    /\ Changed([n \in Names |-> IF row[n] = "expired" THEN "none" ELSE row[n]])

\* The first k of the names of a set, in their order.
FirstOf(k, names) == {n \in names : Cardinality({m \in names : m <= n}) <= k}
Last(names) == CHOOSE n \in names : \A m \in names : m <= n

\* membersOf is asked for the page after the cursor of the last.
Ask ==
    /\ walk = "asking" /\ walk' = "reading"
    /\ page' = {} /\ scanned' = 0
    /\ UNCHANGED <<row, limit, cursor, met, stayed, cut, held, changes, listFaults>>

Answer(names, end) ==
    /\ met' = met \union names
    /\ walk' = IF end THEN "over" ELSE "asking"

\* Mutant of Read: the scan goes on after the page it read, past rows that the page left out.
ReadOn ==
    /\ walk = "reading"
    /\ LET raw == FirstOf(limit, {n \in Held : n > cursor})
           got == FirstOf(limit - Cardinality(page), raw \intersect Live)
           full == Cardinality(page \union got) = limit
           end == Cardinality(raw) < limit
       IN /\ scanned' = scanned + Cardinality(raw)
          /\ cursor' = IF raw = {} THEN cursor ELSE Last(raw)
          /\ page' = page \union got
          /\ cut' = (cut \/ (full /\ end /\ Last(got) # Last(raw)))
          /\ IF full \/ end \/ scanned' >= limit * ScanMultiplier
             THEN Answer(page', end)
             ELSE UNCHANGED <<met, walk>>
    /\ UNCHANGED <<row, limit, stayed, held, changes, listFaults>>

\* One raw page: its rows are gone over until the page is full, and the cursor is the last one
\* gone over. A raw page that is short ends the listing, whether or not it was gone over to the
\* end; a scan that has read enough gives the page up as it is.
Read ==
    /\ walk = "reading"
    /\ LET raw == FirstOf(limit, {n \in Held : n > cursor})
           got == FirstOf(limit - Cardinality(page), raw \intersect Live)
           full == Cardinality(page \union got) = limit
           end == Cardinality(raw) < limit
       IN /\ scanned' = scanned + Cardinality(raw)
          /\ cursor' = IF full THEN Last(got) ELSE IF raw = {} THEN cursor ELSE Last(raw)
          /\ page' = page \union got
          /\ cut' = (cut \/ (full /\ end /\ Last(got) # Last(raw)))
          /\ IF full \/ end \/ scanned' >= limit * ScanMultiplier
             THEN Answer(page', end)
             ELSE UNCHANGED <<met, walk>>
    /\ UNCHANGED <<row, limit, stayed, held, changes, listFaults>>

\* A table that cannot be read answers an empty page after which there is none.
Blind ==
    /\ walk = "reading" /\ listFaults < MaxListFaults /\ listFaults' = listFaults + 1
    /\ walk' = "blind"
    /\ UNCHANGED <<row, limit, cursor, page, scanned, met, stayed, cut, held, changes>>

\* Mutant of Window: as many rows are read as names are asked for, expired ones among them.
WindowOfRows(k) ==
    LET raw == FirstOf(k, Held)
        live == raw \intersect Live
        names == FirstOf(k, live)
    IN held' = [names |-> names, left |-> Live \ names, rows |-> Cardinality(raw), limit |-> k,
                truncated |-> Cardinality(raw) >= k * ScanMultiplier /\ Cardinality(live) > k]

\* audiencesOfMember reads one window of rows and answers the first live ones of it.
Window(k) ==
    LET raw == FirstOf(k * ScanMultiplier, Held)
        live == raw \intersect Live
        names == FirstOf(k, live)
    IN held' = [names |-> names, left |-> Live \ names, rows |-> Cardinality(raw), limit |-> k,
                truncated |-> Cardinality(raw) >= k * ScanMultiplier /\ Cardinality(live) > k]

AskWindow(k) ==
    /\ walk = "over" /\ held = NoWindow /\ Window(k)
    /\ UNCHANGED <<row, stayed, changes>> /\ WalkKeeps

Next ==
    \/ Ask \/ Read \/ Blind \/ Reap \/ Empty
    \/ \E n \in Names : Join(n) \/ Leave(n) \/ Lapse(n)
    \/ \E k \in Limits : AskWindow(k)

Spec == Init /\ [][Next]_audiencePageVars

-----------------------------------------------------------------------------
TypeOK ==
    /\ row \in [Names -> {"none", "live", "expired"}]
    /\ limit \in Limits /\ cursor \in {0} \union Names
    /\ page \subseteq Names /\ met \subseteq Names /\ stayed \subseteq Names
    /\ scanned \in 0..(2 * limit * ScanMultiplier) /\ changes \in 0..MaxChanges
    /\ walk \in {"asking", "reading", "over", "blind"} /\ cut \in BOOLEAN
    /\ held.names \subseteq Names /\ held.left \subseteq Names /\ held.truncated \in BOOLEAN
    /\ held.rows \in 0..Cardinality(Names) /\ held.limit \in {0} \union Limits
    /\ listFaults \in 0..MaxListFaults

\* What a page says of its cursor, "null once nothing more follows" (db/members.ts:95): a walk
\* that followed the cursors to the end has met every member that was live all the while.
EveryMemberListed == walk = "over" => stayed \subseteq met

\* A walk to the end meets every member that was live all the while, but for the rows a short
\* read still held when an earlier one had all but filled the page (db/members.ts membersOf).
WalkMeetsWhoStayed == walk = "over" => stayed \subseteq met \/ cut

\* The audiences of a member that are left out are left out for the limit, or were past the
\* window (db/members.ts audiencesOfMember).
WindowLeavesOnlyTheRest ==
    held.left # {} => Cardinality(held.names) = held.limit \/ held.rows = held.limit * ScanMultiplier
=============================================================================
