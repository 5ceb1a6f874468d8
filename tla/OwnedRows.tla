------------------------------ MODULE OwnedRows ------------------------------
(* The two ways a row of an owned table is reached: the query builder          *)
(* (foundation/lib/src/database/query) and the queries a worker sends          *)
(* (database/capability.ts). A query is compiled when it is run, from whoever  *)
(* is calling and from what the tables are known to be owned by at that time,  *)
(* and the store executes what was compiled later. No policy of the store      *)
(* stands behind either of them.                                               *)
EXTENDS Integers, FiniteSets

CONSTANTS
    Keys,        \* the rows of the table "orders", by their primary key
    Users,       \* callers that proved who they are
    MaxInFlight  \* queries on their way to the store at once

Absent == "absent"
Unowned == "unowned"
Leave == "leave"      \* a payload that does not name the owning column
Open == "open"
Nobody == "nobody"
Throws == "throws"
Staff == "staff"      \* holds the permission database.unscoped
Principals == Users \cup {"unproven", "anonymous", Staff}
Tables == {"orders", "cards"}
Wheres == (SUBSET Keys) \ {{}}

OwnedAssumption ==
    /\ Users # {} /\ Keys # {} /\ MaxInFlight \in Nat \ {0}
    /\ Users \cap {"unproven", "anonymous", Staff, Absent, Unowned, Leave, Open, Nobody, Throws} = {}

VARIABLES
    registered,   \* the tables whose owning column a package has declared
    row,          \* who each row of orders belongs to; cards holds one row of each user
    inFlight      \* what the queries on their way to the store compiled to

ownedVars == <<registered, row, inFlight>>

Statements == [by: Principals, door: {"builder", "wire"}, op: {"read", "insert", "upsert", "update", "delete", "deleteOne"},
               keys: Wheres, owner: Users \cup {Open, Nobody}, cards: Users \cup {Open, Nobody, Absent},
               write: Users \cup {Leave, Unowned}, named: BOOLEAN]

TypeOK ==
    /\ registered \subseteq Tables
    /\ row \in [Keys -> Users \cup {Absent, Unowned}]
    /\ inFlight \subseteq Statements

Init ==
    /\ registered = {}
    /\ row = [k \in Keys |-> Absent]
    /\ inFlight = {}

\* registerTableOwners: a package declares the column that owns a row of its table.
RegisterTableOwners(table) ==
    /\ registered' = registered \cup {table}
    /\ UNCHANGED <<row, inFlight>>

\* ownerScope: what the caller of this path may see of a table.
OwnerScope(table, by) ==
    CASE table \notin registered -> Open
      [] by = "unproven" -> Throws
      [] by = "anonymous" -> Nobody
      [] by = Staff -> Open
      [] OTHER -> by

\* embeddedScopes: an embedded table is narrowed by its own owner, whatever the outer one is.
EmbeddedScopes(by, embeds) == IF embeds THEN OwnerScope("cards", by) ELSE Absent

-----------------------------------------------------------------------------
(* The query builder.                                                         *)

\* #decide: unscoped() opens the table itself.
Decide(by, unscoped) == IF unscoped THEN Open ELSE OwnerScope("orders", by)

\* #refusesUnboundedWrite: nothing narrows the write, neither the caller nor an owner.
RefusesUnboundedWrite(decision, where, entireTable) ==
    ~entireTable /\ decision \in {Open, Nobody} /\ where = {}

\* #owned: the owning column is filled where it was left out, and naming another's refuses it.
RefusesOwner(decision, named) ==
    \/ decision = Nobody
    \/ decision \in Users /\ named \notin {Leave, Unowned, decision}
Owned(decision, named) ==
    IF decision \in Users THEN decision ELSE IF named = Leave THEN Unowned ELSE named

\* Mutant of MovesTheOwner: an update may write the owning column.
MovesTheOwnerFreely(decision, named) == FALSE

\* #movesTheOwner: an update may name the owning column only as what it already is.
MovesTheOwner(decision, named) == decision \in Users /\ named \notin {Leave, decision}

Compiled(s) ==
    /\ inFlight' = inFlight \cup {s}
    /\ UNCHANGED <<registered, row>>

\* A query that inserts has no predicate: its owner is what it was decided to fill.
Reach(where) == IF where = {} THEN Keys ELSE where
Statement(by, door, op, where, entireTable, owner, cards, write) ==
    [by |-> by, door |-> door, op |-> op, keys |-> Reach(where), owner |-> owner,
     cards |-> cards, write |-> write, named |-> where # {} \/ entireTable]

\* get and getOne
Get(by, unscoped, where, embeds) ==
    LET decision == Decide(by, unscoped)
        embedded == EmbeddedScopes(by, embeds)
    IN /\ Throws \notin {decision, embedded}
       /\ Compiled(Statement(by, "builder", "read", where, FALSE, decision, embedded, Leave))

\* insert, insertOne and upsert, of one row or of a batch
Insert(op, by, unscoped, keys, named) ==
    LET decision == Decide(by, unscoped)
    IN /\ decision # Throws
       /\ ~RefusesOwner(decision, named)
       /\ Compiled(Statement(by, "builder", op, keys, FALSE, decision, Absent,
                          Owned(decision, named)))

\* update: unscoped leaves the owning column to the caller
Update(by, unscoped, where, entireTable, named) ==
    LET decision == Decide(by, unscoped)
    IN /\ decision # Throws
       /\ ~MovesTheOwner(decision, named)
       /\ ~RefusesUnboundedWrite(decision, where, entireTable)
       /\ Compiled(Statement(by, "builder", "update", where, entireTable, decision, Absent, named))

\* delete and deleteOne
Delete(op, by, unscoped, where, entireTable) ==
    LET decision == Decide(by, unscoped)
    IN /\ decision # Throws
       /\ ~RefusesUnboundedWrite(decision, where, entireTable)
       /\ Compiled(Statement(by, "builder", op, where, entireTable, decision, Absent, Leave))

-----------------------------------------------------------------------------
(* The queries of a worker, of one batch or of several. The refusal of one    *)
(* answers for itself alone.                                                  *)

\* reachesEveryRow: no predicate, and no owner that bounds the write.
ReachesEveryRow(op, where, owner) == op \in {"update", "delete"} /\ where = {} /\ owner = Open

\* ownedPayload: the owner is filled where it was left out, and kept where it was named.
OwnedPayload(scope, named) ==
    CASE named \in Users -> named
      [] scope \in Users -> scope
      [] OTHER -> Unowned

\* executeQuery, for the operations that write a payload and for those that do not
ExecuteQuery(op, by, where, named) ==
    LET scope == OwnerScope("orders", by)
        write == CASE op \in {"insert", "upsert"} -> OwnedPayload(scope, named)
                   [] op = "update" -> named
                   [] OTHER -> Leave
    IN /\ scope # Throws
       /\ ~ReachesEveryRow(op, where, scope)
       /\ op \in {"insert", "upsert"} => where # {}
       /\ Compiled(Statement(by, "wire", op, where, FALSE, scope, Absent, write))

-----------------------------------------------------------------------------
(* The store.                                                                 *)

\* The rows a statement reaches: those its predicate and its owner both admit.
Matching(s) == {k \in s.keys : row[k] # Absent /\ s.owner \in {Open, row[k]}}

\* What a statement leaves in the table; a batch is written whole or not at all.
Written(s) ==
    LET taken == {k \in s.keys : row[k] # Absent}
        hits == Matching(s)
    IN CASE s.op = "insert" -> [k \in Keys |-> IF taken = {} /\ k \in s.keys THEN s.write ELSE row[k]]
         [] s.op = "upsert" -> [k \in Keys |-> IF k \in s.keys THEN s.write ELSE row[k]]
         [] s.op = "update" -> [k \in Keys |-> IF k \in hits /\ s.write # Leave THEN s.write ELSE row[k]]
         [] s.op = "delete" -> [k \in Keys |-> IF k \in hits THEN Absent ELSE row[k]]
         \* a removal of one row that matches several fails, and removes none
         [] s.op = "deleteOne" -> [k \in Keys |-> IF hits = {k} THEN Absent ELSE row[k]]
         [] OTHER -> row

Run(s) ==
    /\ row' = Written(s)
    /\ inFlight' = inFlight \ {s}
    /\ UNCHANGED registered

\* The store refuses the statement or is not reached: nothing is written.
Fail(s) ==
    /\ inFlight' = inFlight \ {s}
    /\ UNCHANGED <<registered, row>>

Next ==
    \/ \E table \in Tables : RegisterTableOwners(table)
    \/ \E s \in inFlight : Run(s) \/ Fail(s)
    \/ Cardinality(inFlight) < MaxInFlight /\ \E by \in Principals, where \in SUBSET Keys :
          \/ \E unscoped \in BOOLEAN :
                \/ \E embeds \in BOOLEAN : Get(by, unscoped, where, embeds)
                \/ \E op \in {"insert", "upsert"}, named \in Users \cup {Leave} :
                      where # {} /\ Insert(op, by, unscoped, where, named)
                \/ \E entireTable \in BOOLEAN :
                      \/ \E named \in Users \cup {Leave, Unowned} :
                            Update(by, unscoped, where, entireTable, named)
                      \/ \E op \in {"delete", "deleteOne"} : Delete(op, by, unscoped, where, entireTable)
          \/ \E op \in {"read", "insert", "upsert", "update", "delete"}, named \in Users \cup {Leave} :
                ExecuteQuery(op, by, where, named)

Spec == Init /\ [][Next]_ownedVars

-----------------------------------------------------------------------------
\* Whether the query was compiled with the table open to it.
DecidedOpen(s) == s.owner = Open

\* What the statement did to rows that are not its caller's.
Others(s, after) ==
    LET touch(op, open, kind) == [door |-> s.door, op |-> op, open |-> open, named |-> s.named, kind |-> kind]
        theirs == {k \in Keys : row[k] \in Users \ {s.by}}
        shown == IF s.op = "read" THEN Matching(s) ELSE {}
        cards == {u \in Users \ {s.by} : s.cards \in {Open, u}}
    IN {touch(s.op, DecidedOpen(s), "seen") : k \in theirs \cap shown}
         \cup {touch("embed", s.cards = Open, "seen") : u \in cards}
         \cup {touch(s.op, DecidedOpen(s), "taken") : k \in {k \in theirs : after[k] # row[k]}}
         \cup {touch(s.op, DecidedOpen(s), "planted") :
                  k \in {k \in Keys : after[k] \in Users \ {s.by} /\ after[k] # row[k]}}

(* A row is seen, taken or given to another caller only by a query compiled   *)
(* while the table was open to it, but for two ways: an upsert that conflicts *)
(* with another's row rewrites it, since only the owner the payload names is  *)
(* guarded, and a worker's payload may name another owner. An open write      *)
(* takes rows only where the caller named them.                               *)
RowsKept ==
    \A s \in inFlight \ inFlight' : \A t \in Others(s, row') :
        /\ \/ t.open
           \/ t.kind = "taken" /\ t.op = "upsert"
           \/ t.kind = "planted" /\ t.door = "wire" /\ t.op \in {"insert", "upsert", "update"}
        /\ t.kind = "taken" => t.named
RowsKeepTheirOwner == [][RowsKept]_ownedVars

\* Why that holds. A query is narrowed to its caller unless it was opened, writes its caller
\* where it is, and reaches every row only where that was named.
Narrowed(s) ==
    /\ s.owner \in {Open, Nobody, s.by} /\ s.cards \in {Open, Nobody, Absent, s.by}
    /\ s.door = "builder" /\ s.op \in {"insert", "upsert"} /\ s.owner # Open => s.write = s.by
    /\ s.door = "builder" /\ s.op = "update" /\ s.owner = s.by => s.write \in {Leave, s.by}
    /\ s.op \in {"insert", "upsert"} => s.named /\ s.write # Leave
    /\ s.op \in {"update", "delete", "deleteOne"} /\ s.owner = Open => s.named

IInv == TypeOK /\ \A s \in inFlight : Narrowed(s)
=============================================================================
