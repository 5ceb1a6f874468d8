-------------------------- MODULE RealtimeChannels --------------------------
(***************************************************************************)
(* Who hears a channel of realtime (realtime: core/channel.ts,             *)
(* destination.ts, name.ts, listen.ts, registry.ts, db/channels.ts,        *)
(* db/grants.ts, capability/wire.ts, deploy/db/init/realtime.sql).         *)
(*                                                                         *)
(* A process declares a name and how open its broadcast is, and writes     *)
(* that to a row when it boots.  Three channels go by the name: the bare   *)
(* one, the one of each account, and those of topics.  Policies read the   *)
(* row and the grants when a message goes out; grants are written, removed *)
(* and listed by requests that overlap.                                    *)
(***************************************************************************)
EXTENDS Naturals, FiniteSets, FiniteSetsExt

CONSTANTS
    Accounts,   \* numbers: a listing goes in their order
    Processes,
    Listen,     \* [Processes -> how open each declares the name, Absent when it does not]
    Requests,   \* the requests that may be under way together
    PageSize,   \* GRANT_PAGE_SIZE
    MaxBegun, MaxRealtimeFaults

Absent == "absent"
Openness == {"granted", "authenticated", "public"}
Anonymous == 0

ChannelAssumption ==
    /\ Accounts \subseteq Nat \ {0} /\ IsFiniteSet(Accounts)
    /\ Listen \in [Processes -> Openness \cup {Absent}]
    /\ {MaxBegun, MaxRealtimeFaults} \subseteq Nat /\ PageSize \in Nat \ {0}

\* The channels that grants open: the bare name, and one behind the mark of a topic.
Granted == {"all", "topic"}

VARIABLES
    stored,     \* the row of the name, Absent when there is none
    at,         \* where each process is
    seen,       \* the openness it read
    booted,     \* the processes that got as far as reading
    refusedSync,\* a write of the openness was refused, which nobody looks at
    grants,     \* the channel and the account of each
    request,    \* each request under way
    settled,    \* what the last answer about a grant said; "open" when that tells nothing, "raced"
                \* while requests about it overlap
    walk,       \* a listing page by page
    begun, realtimeFaults

channelVars == <<stored, at, seen, booted, refusedSync, grants, request, settled, walk, begun,
                 realtimeFaults>>

Idle == [op |-> "none", on |-> "all", of |-> [a \in {} |-> "look"]]
NoWalk == [on |-> "none", after |-> 0, got |-> {}, stayed |-> {}]

Init ==
    /\ stored = Absent
    /\ at = [p \in Processes |-> "down"] /\ seen = [p \in Processes |-> Absent]
    /\ booted = {} /\ refusedSync = FALSE
    /\ grants = {}
    /\ request = [r \in Requests |-> Idle]
    /\ settled = [g \in Granted \X Accounts |-> "open"]
    /\ walk = NoWalk /\ begun = 0 /\ realtimeFaults = 0

Fails ==
    /\ realtimeFaults < MaxRealtimeFaults
    /\ realtimeFaults' = realtimeFaults + 1

-----------------------------------------------------------------------------
(* The openness of the name.                                               *)

SyncKeeps == UNCHANGED <<grants, request, settled, walk, begun>>

\* Mutant of Look: what a process does not declare is dropped.
LookAndDrop(p) ==
    /\ at[p] = "down" /\ p \notin booted
    /\ booted' = booted \cup {p}
    /\ at' = [at EXCEPT ![p] = IF Listen[p] \in {Absent, stored} THEN "up" ELSE "writing"]
    /\ seen' = [seen EXCEPT ![p] = stored]
    /\ stored' = IF Listen[p] = Absent THEN Absent ELSE stored
    /\ UNCHANGED <<refusedSync, realtimeFaults>> /\ SyncKeeps

\* The row is read; a read that fails stops the boot. A process that does not declare the name has
\* nothing to do.
Look(p) ==
    /\ at[p] = "down" /\ p \notin booted
    /\ booted' = booted \cup {p}
    /\ \/ /\ at' = [at EXCEPT ![p] = IF Listen[p] \in {Absent, stored} THEN "up" ELSE "writing"]
          /\ seen' = [seen EXCEPT ![p] = stored]
          /\ UNCHANGED realtimeFaults
       \/ /\ Listen[p] # Absent /\ Fails
          /\ UNCHANGED <<at, seen>>
    /\ UNCHANGED <<stored, refusedSync>> /\ SyncKeeps

\* A row that was missing is inserted, unless another process did meanwhile; one that says
\* something else is updated. Nobody looks at what the database answers.
Sync(p) ==
    /\ at[p] = "writing"
    /\ at' = [at EXCEPT ![p] = "up"]
    /\ \/ /\ stored' = IF (seen[p] = Absent) = (stored = Absent) THEN Listen[p] ELSE stored
          /\ UNCHANGED <<refusedSync, realtimeFaults>>
       \/ Fails /\ refusedSync' = TRUE /\ UNCHANGED stored
    /\ UNCHANGED <<seen, booted>> /\ SyncKeeps

-----------------------------------------------------------------------------
(* The policies.                                                           *)

\* Nothing but the bare name of a public channel goes out without asking the policies.
Private(c) == c # "all" \/ stored # "public"

Listeners(c) ==
    IF ~Private(c) THEN Accounts \cup {Anonymous}
    ELSE {a \in Accounts : (c = "all" /\ stored = "authenticated") \/ <<c, a>> \in grants}

\* The channel of an account asks the token who it is, and that the name was ever declared.
ListenersOfAccount(a) == {b \in {a} : stored # Absent}

-----------------------------------------------------------------------------
(* Grants.                                                                 *)

GrantKeeps == UNCHANGED <<stored, at, seen, booted, refusedSync>>

FirstStep == [grant |-> "write", revoke |-> "look", revokeAll |-> "wipe"]
Touches(r, c, a) == request[r].op # "none" /\ request[r].on = c /\ a \in DOMAIN request[r].of

\* A worker names several accounts of a channel in one request, which handles them side by side;
\* a caller of this process names one, or all.
Begin(r, op, c, who) ==
    /\ request[r] = Idle /\ begun < MaxBegun
    /\ begun' = begun + 1
    /\ request' = [request EXCEPT ![r] = [op |-> op, on |-> c,
                                          of |-> [a \in who |-> FirstStep[op]]]]
    /\ settled' = [g \in Granted \X Accounts |->
                      IF g[1] # c \/ g[2] \notin who THEN settled[g]
                      ELSE IF \E other \in Requests : Touches(other, c, g[2]) THEN "raced"
                      ELSE "open"]
    /\ GrantKeeps /\ UNCHANGED <<grants, walk, realtimeFaults>>

To(r, a, step) == request' = [request EXCEPT ![r].of[a] = step]
NowGranted(now) ==
    /\ grants' = now
    /\ walk' = [walk EXCEPT !.stayed = {a \in @ : <<walk.on, a>> \in now}]

\* The upsert of a grant lands, is refused, or lands and is not answered.
Grant(r, a) ==
    LET g == <<request[r].on, a>> IN
    /\ request[r].of[a] = "write"
    /\ \/ NowGranted(grants \cup {g}) /\ To(r, a, "yes") /\ UNCHANGED realtimeFaults
       \/ Fails /\ To(r, a, "refused") /\ UNCHANGED <<grants, walk>>
       \/ Fails /\ NowGranted(grants \cup {g}) /\ To(r, a, "refused")
    /\ GrantKeeps /\ UNCHANGED <<settled, begun>>

\* A grant is removed when there is one to remove; a read that fails raises.
LookBefore(r, a) ==
    /\ request[r].of[a] = "look"
    /\ \/ /\ To(r, a, IF <<request[r].on, a>> \in grants THEN "delete" ELSE "no")
          /\ UNCHANGED realtimeFaults
       \/ Fails /\ To(r, a, "raised")
    /\ GrantKeeps /\ UNCHANGED <<grants, settled, walk, begun>>

Revoke(r, a) ==
    LET g == <<request[r].on, a>> IN
    /\ request[r].of[a] = "delete"
    /\ \/ /\ NowGranted(grants \ {g}) /\ To(r, a, IF g \in grants THEN "yes" ELSE "no")
          /\ UNCHANGED realtimeFaults
       \/ Fails /\ To(r, a, "refused") /\ UNCHANGED <<grants, walk>>
       \/ Fails /\ NowGranted(grants \ {g}) /\ To(r, a, "refused")
    /\ GrantKeeps /\ UNCHANGED <<settled, begun>>

RevokeAll(r) ==
    LET c == request[r].on
        all == [a \in Accounts |-> "wipe"]
        Ends(step) == request' = [request EXCEPT ![r].of = [a \in Accounts |-> step]] IN
    /\ request[r].op = "revokeAll" /\ request[r].of = all
    /\ \/ /\ NowGranted({g \in grants : g[1] # c})
          /\ Ends(IF \E g \in grants : g[1] = c THEN "yes" ELSE "no")
          /\ UNCHANGED realtimeFaults
       \/ Fails /\ Ends("refused") /\ UNCHANGED <<grants, walk>>
       \/ Fails /\ NowGranted({g \in grants : g[1] # c}) /\ Ends("refused")
    /\ GrantKeeps /\ UNCHANGED <<settled, begun>>

\* Mutant of LandedIn: one account is enough.
SomeLandedIn(of) == \E a \in DOMAIN of : of[a] = "yes"

LandedIn(of) == \A a \in DOMAIN of : of[a] = "yes"

\* A grant went well when every row landed. A revocation did unless something raised: a row that
\* was refused answers as one that was not there.
Well(q) == IF q.op = "revoke" THEN \A a \in DOMAIN q.of : q.of[a] # "raised" ELSE LandedIn(q.of)

Answer(r) ==
    LET q == request[r]
        Says(g) ==
            IF \E other \in Requests \ {r} : Touches(other, g[1], g[2]) THEN "raced"
            ELSE IF \/ settled[g] = "raced" \/ ~Well(q)
                    \/ q.op = "revoke" /\ q.of[g[2]] = "refused" THEN "open"
            ELSE IF q.op = "grant" THEN "in" ELSE "out" IN
    /\ q.op # "none" /\ \A a \in DOMAIN q.of : q.of[a] \notin {"look", "write", "delete", "wipe"}
    /\ request' = [request EXCEPT ![r] = Idle]
    /\ settled' = [g \in Granted \X Accounts |->
                      IF Touches(r, g[1], g[2]) THEN Says(g) ELSE settled[g]]
    /\ GrantKeeps /\ UNCHANGED <<grants, walk, begun, realtimeFaults>>

\* The accounts of a page: the lowest above the last one answered, one more being read to know
\* whether there are others.
FirstOf(S, n) == {a \in S : Cardinality({b \in S : b < a}) < n}
Page(c, after) ==
    LET rows == FirstOf({a \in Accounts : <<c, a>> \in grants /\ a > after}, PageSize + 1)
        listed == FirstOf(rows, PageSize) IN
    [accounts |-> listed, last |-> IF listed = {} THEN after ELSE Max(listed),
     full |-> Cardinality(rows) > PageSize]

\* Mutant of Walk: the listing resumes behind the row that was read to know whether there are others.
WalkOn ==
    LET page == Page(walk.on, walk.after) IN
    /\ walk.on \in Granted
    /\ walk' = [walk EXCEPT !.got = @ \cup page.accounts,
                            !.after = IF page.full THEN page.last + 1 ELSE page.last,
                            !.on = IF page.full THEN @ ELSE "ended"]
    /\ GrantKeeps /\ UNCHANGED <<grants, request, settled, begun, realtimeFaults>>

Walk ==
    LET page == Page(walk.on, walk.after) IN
    /\ walk.on \in Granted
    /\ walk' = [walk EXCEPT !.got = @ \cup page.accounts, !.after = page.last,
                            !.on = IF page.full THEN @ ELSE "ended"]
    /\ GrantKeeps /\ UNCHANGED <<grants, request, settled, begun, realtimeFaults>>

StartWalk(c) ==
    /\ walk = NoWalk
    /\ walk' = [NoWalk EXCEPT !.on = c, !.stayed = {a \in Accounts : <<c, a>> \in grants}]
    /\ GrantKeeps /\ UNCHANGED <<grants, request, settled, begun, realtimeFaults>>

Handle(r) ==
    \/ \E c \in Granted : \/ Begin(r, "revokeAll", c, Accounts)
                          \/ \E who \in SUBSET Accounts \ {{}}, op \in {"grant", "revoke"} :
                                Begin(r, op, c, who)
    \/ \E a \in DOMAIN request[r].of : Grant(r, a) \/ LookBefore(r, a) \/ Revoke(r, a)
    \/ RevokeAll(r)
    \/ Answer(r)

Next ==
    \/ \E p \in Processes : Look(p) \/ Sync(p)
    \/ \E r \in Requests : Handle(r)
    \/ \E c \in Granted : StartWalk(c)
    \/ Walk

Spec == Init /\ [][Next]_channelVars

-----------------------------------------------------------------------------
TypeOK ==
    /\ stored \in Openness \cup {Absent}
    /\ at \in [Processes -> {"down", "writing", "up"}]
    /\ seen \in [Processes -> Openness \cup {Absent}]
    /\ booted \subseteq Processes /\ refusedSync \in BOOLEAN
    /\ grants \subseteq Granted \X Accounts
    /\ settled \in [Granted \X Accounts -> {"open", "raced", "in", "out"}]
    /\ walk.got \cup walk.stayed \subseteq Accounts
    /\ begun \in 0..MaxBegun /\ realtimeFaults \in 0..MaxRealtimeFaults

PopulationOf(openness) ==
    CASE openness = "granted" -> {}
      [] openness = "authenticated" -> Accounts
      [] openness = "public" -> Accounts \cup {Anonymous}

\* Once a process that declares the name is up, it is heard as declared, by its population and who
\* was granted it, an account hears its own channel and nobody else does, and a topic is heard by
\* who was granted it: unless a write of the openness was refused or another process declared it
\* otherwise (db/channels.ts: "deleting instead would let a process that declares half the channels
\* close the other half").
HeardAsDeclared ==
    \A p \in Processes :
        /\ at[p] = "up" /\ Listen[p] # Absent /\ ~refusedSync
        /\ \A q \in booted : Listen[q] \in {Absent, Listen[p]}
        => LET GrantedOn(c) == {a \in Accounts : <<c, a>> \in grants} IN
           /\ Listeners("all") = PopulationOf(Listen[p]) \cup GrantedOn("all")
           /\ Listeners("topic") = GrantedOn("topic")
           /\ \A a \in Accounts : ListenersOfAccount(a) = {a}

\* What the last request about an account of a channel answered is so, whatever ran beside it on
\* others, but for a removal that the table refused: it answers as if nothing had been granted.
GrantsAsAnswered ==
    \A g \in Granted \X Accounts :
        /\ settled[g] = "in" => g \in grants
        /\ settled[g] = "out" => g \notin grants

\* A listing answers every account that was granted from its first page to its last.
WalkSeesWhoStayed == walk.on = "ended" => walk.stayed \subseteq walk.got

-----------------------------------------------------------------------------
(* Why that holds.                                                         *)

\* Those that booted declare this openness or none, and no write of it was refused.
Agreed(o) == ~refusedSync /\ \A q \in booted : Listen[q] \in {Absent, o}

\* While they agree on one the row says that one or is missing, and it is there once one of those
\* that declare it is up.
Synced ==
    /\ stored \in Openness \cup {Absent} /\ at \in [Processes -> {"down", "writing", "up"}]
    /\ seen \in [Processes -> Openness \cup {Absent}]
    /\ \A p \in Processes : at[p] # "down" => p \in booted
    /\ \A p \in Processes : at[p] = "writing" => Listen[p] # Absent
    /\ \A o \in Openness : Agreed(o) => stored \in {Absent, o}
    /\ \A o \in Openness, p \in Processes :
        Agreed(o) => /\ at[p] = "up" /\ Listen[p] # Absent => stored = o
                     /\ at[p] = "writing" => seen[p] = Absent

StepsOf ==
    [none |-> {}, grant |-> {"write", "yes", "refused"},
     revoke |-> {"look", "delete", "yes", "no", "raised", "refused"},
     revokeAll |-> {"wipe", "yes", "no", "refused"}]

Asked ==
    /\ grants \subseteq Granted \X Accounts /\ DOMAIN request = Requests
    /\ settled \in [Granted \X Accounts -> {"open", "raced", "in", "out"}]
    /\ \A r \in Requests :
        \E op \in DOMAIN StepsOf, c \in Granted, who \in SUBSET Accounts :
            /\ request[r] \in [op : {op}, on : {c}, of : [who -> StepsOf[op]]]
            /\ op = "none" => request[r] = Idle

\* What is asked of a grant and how it stands.
OnItsWay(r, g) ==
    LET step == request[r].of[g[2]] IN
    CASE request[r].op = "grant" -> step = "yes" => g \in grants
      [] request[r].op = "revoke" -> step \in {"yes", "no"} => g \notin grants
      [] request[r].op = "revokeAll" -> step = "yes" => g \notin grants

\* A grant nobody asks about is as the last answer said; one request alone about it leaves it as
\* its steps say, and requests that overlap are known to.
Settling ==
    \A g \in Granted \X Accounts :
        /\ settled[g] = "in" => g \in grants
        /\ settled[g] = "out" => g \notin grants
        /\ \A r \in Requests : Touches(r, g[1], g[2]) =>
            /\ settled[g] \in {"open", "raced"}
            /\ settled[g] = "open" => OnItsWay(r, g)
            /\ \A other \in Requests \ {r} : Touches(other, g[1], g[2]) => settled[g] = "raced"

\* A listing has what stayed up to where it is.
Walking ==
    /\ walk \in [on : Granted \cup {"none", "ended"}, after : Nat, got : SUBSET Accounts,
                stayed : SUBSET Accounts]
    /\ walk.on \in Granted =>
        \A a \in walk.stayed : <<walk.on, a>> \in grants /\ (a <= walk.after => a \in walk.got)
    /\ walk.on = "ended" => walk.stayed \subseteq walk.got

GrantsInv == Asked /\ Settling /\ Walking
=============================================================================
