--------------------------- MODULE TriggerSources ---------------------------
(***************************************************************************)
(* What the processes of a fleet declare about tables, and what the        *)
(* database logs of them (foundation: trigger/trigger.ts, trigger_path.ts, *)
(* trigger_registry.ts, trigger_sources.ts, trigger_match.ts, 01_trigger). *)
(*                                                                         *)
(* A process that boots arms the declarations it was written with and      *)
(* makes __trigger_sources__ say which tables they are about, each under   *)
(* its key column: it reads the table, then writes the difference row by   *)
(* row.  Every table has the trigger, which logs nothing of a table that   *)
(* is not named there.  Whichever process drains a change hands it to the  *)
(* declarations it has itself.  Processes of two deployments, that declare *)
(* different things, boot and drain side by side.                          *)
(***************************************************************************)
EXTENDS Naturals, Sequences, FiniteSets

CONSTANTS
    Processes,
    Targets,        \* [Processes -> the targets each is written with]
    Tables,
    MaxBoots, MaxChanges, MaxSourceFaults

Any == "any"
None == "none"
Columns == {"id", "code", "status"}
Ops == {"insert", "update", "delete"}
Methods == Ops \cup {"field", "fields"}

\* A target as a caller writes it: the table of its path, the column the path ends on, the columns
\* it observes, the transition it waits for, the key and the name it is given, or None.
TargetShape ==
    [method : Methods, table : Tables \cup {None}, field : Columns \cup {None},
     observe : SUBSET Columns, from : {Any, "a", "b"}, to : {Any, "a", "b"},
     key : Columns \cup {None}, name : {None, "given"}]

SourceAssumption ==
    /\ IsFiniteSet(Processes) /\ IsFiniteSet(Tables)
    /\ Targets \in [Processes -> SUBSET TargetShape]
    /\ Processes \cap {"logged", "silent", "excused"} = {}
    /\ {MaxBoots, MaxChanges, MaxSourceFaults} \subseteq Nat

VARIABLES
    sources,    \* the key column of each table, None for one that logs nothing
    at,         \* where each process is
    read,       \* what it read of the sources
    todo,       \* the tables it has still to write
    boots,
    row,        \* the row of each table, Gone when there is none
    outbox,     \* the changes logged and not drained
    changes,    \* what each change owes a process, whether one ran that it owes, what became of it
    reached,    \* the deliveries made: of a change, to a name, about a column
    spoiled,    \* tables whose source another process took away, or kept, or was refused
    rekeyed,    \* tables whose source was given another key
    sourceFaults

sourceVars == <<sources, at, read, todo, boots, row, outbox, changes, reached, spoiled,
                rekeyed, sourceFaults>>

-----------------------------------------------------------------------------
(* Declarations.                                                           *)

Op(t) == IF t.method \in Ops THEN t.method ELSE "update"
FieldsOf(t) == IF t.method = "fields" THEN t.observe ELSE {t.field} \ {None}

\* A malformed path, columns named twice or not at all, a transition without a column, or one that
\* waits for the column to reach what it leaves.
Refused(t) ==
    \/ t.table = None
    \/ t.method = "fields" /\ (t.field # None \/ t.observe = {})
    \/ t.method = "field" /\ t.field = None /\ (t.from # Any \/ t.to # Any)
    \/ t.method = "field" /\ t.from = t.to /\ t.from # Any

DerivedName(t) == <<t.table, IF FieldsOf(t) = {} THEN {Op(t)} ELSE FieldsOf(t)>>
NameOf(t) == IF t.name = None THEN DerivedName(t) ELSE <<t.name, {}>>

Registered(t) ==
    [name |-> NameOf(t), table |-> t.table, key |-> IF t.key = None THEN "id" ELSE t.key,
     op |-> Op(t), fields |-> FieldsOf(t), from |-> t.from, to |-> t.to]

Armed(p) == {Registered(t) : t \in Targets[p]}

\* No name is taken twice, and a table has one key.
Loads(p) ==
    /\ \A t \in Targets[p] : ~Refused(t)
    /\ \A t, u \in Targets[p] : t # u => NameOf(t) # NameOf(u)
    /\ \A d, e \in Armed(p) : d.table = e.table => d.key = e.key

Declared(p) == {d.table : d \in Armed(p)}
KeyOf(p, t) == (CHOOSE d \in Armed(p) : d.table = t).key

-----------------------------------------------------------------------------
(* Changes.                                                                *)

Gone == [id |-> None, code |-> None, status |-> None]
Rows == [id : {"1"}, code : {None, "c"}, status : {"a", "b"}]

OpOf(before, after) ==
    IF before = Gone THEN "insert" ELSE IF after = Gone THEN "delete" ELSE "update"

\* A column of a row that is not there reads as null.
MovedInto(before, after, f, d) ==
    /\ before[f] # after[f]
    /\ d.from \in {Any, before[f]}
    /\ d.to \in {Any, after[f]}

\* Mutant of MatchesOf: a column that was written counts as one that moved.
MatchesOfTheWritten(ds, t, before, after) ==
    LET said == {d \in ds : d.table = t /\ d.op = OpOf(before, after)} IN
    {<<d.name, None>> : d \in {e \in said : e.fields = {}}}
    \cup {<<m[1].name, m[2]>> : m \in {n \in said \X Columns : n[2] \in n[1].fields}}

\* The deliveries a change makes: one to a declaration of the row, one for each column that moved
\* to a declaration of columns.
MatchesOf(ds, t, before, after) ==
    LET said == {d \in ds : d.table = t /\ d.op = OpOf(before, after)} IN
    {<<d.name, None>> : d \in {e \in said : e.fields = {}}}
    \cup {<<m[1].name, m[2]>> : m \in {n \in said \X Columns :
            n[2] \in n[1].fields /\ MovedInto(before, after, n[2], n[1])}}

Up == {p \in Processes : at[p] = "up"}

Init ==
    /\ sources = [t \in Tables |-> None]
    /\ at = [p \in Processes |-> "down"]
    /\ read = [p \in Processes |-> sources]
    /\ todo = [p \in Processes |-> {}]
    /\ boots = 0
    /\ row = [t \in Tables |-> Gone]
    /\ outbox = <<>> /\ changes = <<>> /\ reached = {}
    /\ spoiled = {} /\ rekeyed = {} /\ sourceFaults = 0

Goto(p, place) == at' = [at EXCEPT ![p] = place]
Fails ==
    /\ sourceFaults < MaxSourceFaults
    /\ sourceFaults' = sourceFaults + 1

Around == UNCHANGED <<row, outbox, changes, reached>>

\* A process is loaded, declaration by declaration; one that is refused stops it there.
Boot(p) ==
    /\ at[p] = "down" /\ boots < MaxBoots
    /\ boots' = boots + 1
    /\ Goto(p, IF Loads(p) THEN "reading" ELSE "refused")
    /\ Around /\ UNCHANGED <<sources, read, todo, spoiled, rekeyed, sourceFaults>>

\* Mutant of Read: the table is emptied before it is written anew.
ReadAndEmpty(p) ==
    /\ at[p] = "reading"
    /\ read' = [read EXCEPT ![p] = [t \in Tables |-> None]]
    /\ todo' = [todo EXCEPT ![p] = Declared(p)]
    /\ sources' = [t \in Tables |-> None]
    /\ Goto(p, "writing")
    /\ Around /\ UNCHANGED <<boots, spoiled, rekeyed, sourceFaults>>

\* The sources as they are: what is missing or keyed otherwise will be written, and what nobody
\* here declares dropped.
Read(p) ==
    /\ at[p] = "reading"
    /\ read' = [read EXCEPT ![p] = sources]
    /\ todo' = [todo EXCEPT ![p] = {t \in Declared(p) : sources[t] # KeyOf(p, t)}]
    /\ Goto(p, "writing")
    /\ Around /\ UNCHANGED <<sources, boots, spoiled, rekeyed, sourceFaults>>

\* A source that was missing is inserted, which another's row conflicts with; one keyed otherwise
\* is updated. What the database answers is not looked at.
Write(p) == \E t \in todo[p] :
    /\ at[p] = "writing"
    /\ todo' = [todo EXCEPT ![p] = @ \ {t}]
    /\ LET missing == read[p][t] = None
           lands == IF missing THEN sources[t] = None ELSE sources[t] # None IN
       \/ /\ sources' = IF lands THEN [sources EXCEPT ![t] = KeyOf(p, t)] ELSE sources
          /\ spoiled' = IF sources'[t] # KeyOf(p, t) THEN spoiled \cup {t} ELSE spoiled
          /\ rekeyed' = IF sources[t] \notin {None, sources'[t]} THEN rekeyed \cup {t} ELSE rekeyed
          /\ UNCHANGED sourceFaults
       \/ /\ Fails
          /\ spoiled' = spoiled \cup {t}
          /\ UNCHANGED <<sources, rekeyed>>
    /\ Around /\ UNCHANGED <<at, read, boots>>

\* What was read and is not declared here is dropped in one delete, whoever declares it by now;
\* the process is up.
Drop(p) ==
    /\ at[p] = "writing" /\ todo[p] = {}
    /\ LET dropped == {t \in Tables \ Declared(p) : read[p][t] # None} IN
       \/ /\ sources' = [t \in Tables |-> IF t \in dropped THEN None ELSE sources[t]]
          /\ spoiled' = spoiled \cup {t \in dropped : sources[t] # None}
          /\ UNCHANGED sourceFaults
       \/ dropped # {} /\ Fails /\ UNCHANGED <<sources, spoiled>>
    /\ read' = [read EXCEPT ![p] = [t \in Tables |-> None]]
    /\ Goto(p, "up")
    /\ Around /\ UNCHANGED <<todo, boots, rekeyed>>

\* A process stops or dies.
Stop(p) ==
    /\ at[p] \in {"reading", "writing", "up"}
    /\ Goto(p, "down")
    /\ read' = [read EXCEPT ![p] = [t \in Tables |-> None]]
    /\ todo' = [todo EXCEPT ![p] = {}]
    /\ spoiled' = spoiled \cup todo[p]
    /\ Around /\ UNCHANGED <<sources, boots, rekeyed, sourceFaults>>

\* What the call that wrote target u is to hear of a change, by its words: the row, or each column
\* it names that holds another value than it did, and went from and to what it waits for.
Meant(u, t, before, after) ==
    IF u.table # t \/ before = after \/ Op(u) # OpOf(before, after) THEN {}
    ELSE {f \in Columns : /\ f \in FieldsOf(u)
                          /\ before[f] # after[f]
                          /\ u.from # Any => before[f] = u.from
                          /\ u.to # Any => after[f] = u.to}
         \cup {n \in {None} : u.field = None /\ u.method # "fields"}

MeantBy(p, t, before, after) ==
    UNION {{<<NameOf(u), f>> : f \in Meant(u, t, before, after)} : u \in Targets[p]}

\* What the trigger writes: nothing of a table without a source, of an update that changed
\* nothing, of a row whose key column is null, nor when the insert raises.
Logged(t, before, after) ==
    /\ sources[t] # None
    /\ before # after
    /\ (IF after = Gone THEN before ELSE after)[sources[t]] # None

Commit(t) == \E after \in Rows \cup {Gone} :
    /\ Len(changes) < MaxChanges
    /\ row[t] # Gone \/ after # Gone
    /\ row' = [row EXCEPT ![t] = after]
    /\ LET before == row[t]
           keyed == IF sources[t] = None THEN TRUE
                    ELSE (IF after = Gone THEN before ELSE after)[sources[t]] # None
           owed == [p \in Processes |-> MeantBy(p, t, before, after)]
           change == [table |-> t, owed |-> owed, by |-> None,
                      wanted |-> \E p \in Up : owed[p] # {}]
           id == Len(changes) + 1 IN
       \/ /\ Logged(t, before, after)
          /\ outbox' = Append(outbox, [id |-> id, table |-> t, before |-> before,
                                       after |-> after, key |-> sources[t]])
          /\ changes' = Append(changes, [change EXCEPT !.by = "logged"])
          /\ UNCHANGED sourceFaults
       \/ /\ ~Logged(t, before, after)
          /\ changes' = Append(changes, [change EXCEPT !.by =
                IF ~keyed \/ t \in spoiled THEN "excused" ELSE "silent"])
          /\ UNCHANGED <<outbox, sourceFaults>>
       \/ /\ Fails
          /\ changes' = Append(changes, [change EXCEPT !.by = "excused"])
          /\ UNCHANGED outbox
    /\ UNCHANGED <<sources, at, read, todo, boots, reached, spoiled, rekeyed>>

\* A process takes the oldest change and hands it to what it declares itself.
Drain(p) ==
    /\ at[p] = "up" /\ outbox # <<>>
    /\ LET e == Head(outbox) IN
       /\ reached' = reached \cup {[id |-> e.id, to |-> m[1], about |-> m[2], key |-> e.key] :
                                    m \in MatchesOf(Armed(p), e.table, e.before, e.after)}
       /\ changes' = [changes EXCEPT ![e.id].by = p]
    /\ outbox' = Tail(outbox)
    /\ UNCHANGED <<sources, at, read, todo, boots, row, spoiled, rekeyed, sourceFaults>>

Next ==
    \/ \E p \in Processes : Boot(p) \/ Read(p) \/ Write(p) \/ Drop(p) \/ Stop(p) \/ Drain(p)
    \/ \E t \in Tables : Commit(t)

Spec == Init /\ [][Next]_sourceVars

-----------------------------------------------------------------------------
Keys == Columns \cup {None}

TypeOK ==
    /\ sources \in [Tables -> Keys]
    /\ at \in [Processes -> {"down", "refused", "reading", "writing", "up"}]
    /\ read \in [Processes -> [Tables -> Keys]]
    /\ todo \in [Processes -> SUBSET Tables]
    /\ boots \in 0..MaxBoots
    /\ row \in [Tables -> Rows \cup {Gone}]
    /\ \A i \in DOMAIN outbox : outbox[i].id \in DOMAIN changes
    /\ \A i \in DOMAIN changes :
          changes[i].by \in Processes \cup {"logged", "silent", "excused"}
    /\ {spoiled, rekeyed} \subseteq SUBSET Tables /\ sourceFaults \in 0..MaxSourceFaults

Delivered(i) == {<<r.to, r.about>> : r \in {s \in reached : s.id = i}}

\* A change that a running process declared is logged, unless its key column is null or the source
\* of its table was taken away or kept otherwise by another process, or never written; and the
\* process that drains it hands it to exactly what that process declared about it (trigger_sources.ts:
\* "a write that lands in that window is not replayed by anything").
DeclaredChangesArrive ==
    \A i \in DOMAIN changes : LET c == changes[i] IN
        /\ c.by = "silent" => ~c.wanted
        /\ c.by \in Processes => Delivered(i) = c.owed[c.by]

\* A body is handed the row under the key its declaration names, unless the table was given
\* another key: a change logged before keeps the one it was logged under.
UnderItsKey ==
    \A r \in reached : changes[r.id].table \notin spoiled \cup rekeyed =>
        \A d \in Armed(changes[r.id].by) : d.name = r.to => d.key = r.key

-----------------------------------------------------------------------------
(* What the steps preserve.                                                *)

Names == UNION {{NameOf(u) : u \in Targets[p]} : p \in Processes}
Deliveries == Names \X Keys
ChangeShape ==
    [table : Tables, owed : [Processes -> SUBSET Deliveries],
     by : Processes \cup {"logged", "silent", "excused"}, wanted : BOOLEAN]
EventShape ==
    [id : Nat \ {0}, table : Tables, before : Rows \cup {Gone}, after : Rows \cup {Gone}, key : Columns]

Shapes == changes \in Seq(ChangeShape) /\ outbox \in Seq(EventShape)

\* A process that came past its declarations has none that is refused, and writes of tables it
\* declares while it writes.
Loaded ==
    \A p \in Processes :
        /\ at[p] \in {"reading", "writing", "up"} => Loads(p)
        /\ todo[p] # {} => at[p] = "writing" /\ todo[p] \subseteq Declared(p)

\* What it wrote is there, and under its key.
Wrote ==
    \A p \in Processes : at[p] \in {"writing", "up"} =>
        \A t \in Declared(p) \ (todo[p] \cup spoiled) :
            sources[t] # None /\ (t \notin rekeyed => sources[t] = KeyOf(p, t))

\* An event of the outbox is of a change nobody drained, and its key that of its table.
Pending(e) ==
    /\ e.id \in DOMAIN changes /\ changes[e.id].by = "logged" /\ changes[e.id].table = e.table
    /\ changes[e.id].owed = [p \in Processes |-> MeantBy(p, e.table, e.before, e.after)]
    /\ e.before # e.after
    /\ e.table \notin spoiled \cup rekeyed => sources[e.table] = e.key

Queued ==
    /\ \A i \in DOMAIN outbox : Pending(outbox[i])
    /\ \A i, j \in DOMAIN outbox : i # j => outbox[i].id # outbox[j].id

\* What was delivered is of a change a process drained.
Drained == \A r \in reached : r.id \in DOMAIN changes /\ changes[r.id].by \in Processes

IInv ==
    /\ TypeOK /\ Shapes /\ Loaded /\ Wrote /\ Queued /\ Drained
    /\ DeclaredChangesArrive /\ UnderItsKey
=============================================================================
