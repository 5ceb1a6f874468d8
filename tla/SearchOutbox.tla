----------------------------- MODULE SearchOutbox -----------------------------
(***************************************************************************)
(* The line of documents waiting for the search cluster, the tables that   *)
(* feed it and the drains that empty it (search/lib/src, search/deploy).   *)
(*                                                                         *)
(* A write and its line in __search_outbox__ commit together. A drain      *)
(* claims the oldest rows without locking them, and for one index after    *)
(* the other erases, reads the tables, writes what it read, removes what   *)
(* it did not find, and settles by key what the cluster took. Each of      *)
(* these is a call, so writes and other drains come in between.            *)
(*                                                                         *)
(* A document is its version, 0 when it is absent. The cluster's answer is *)
(* per identifier; a bulk call may also be applied and its answer lost.    *)
(***************************************************************************)
EXTENDS Integers, FiniteSets, Functions

CONSTANTS
    Docs,           \* identifiers
    IndexOf,        \* the index of each, by its declared name
    Declared,       \* the indexes a declaration answers to
    Drains,         \* occurrences of the job that may run together
    BatchSize,      \* rows a claim takes
    MaxAttempts,    \* refusals before a row stops being tried
    MinPasses,      \* passes an occurrence takes whatever its budget says
    MaxChanges,     \* bound: calls that enqueue
    MaxFaults       \* bound: database calls that fail and occurrences that die

ASSUME SearchAssumption ==
    /\ Declared \subseteq {IndexOf[d] : d \in Docs}
    /\ {BatchSize, MaxAttempts, MinPasses} \subseteq Nat \ {0}
    /\ {MaxChanges, MaxFaults} \subseteq Nat

VARIABLES
    table,      \* the rows documents are built from
    cluster,    \* the documents the cluster holds
    line,       \* the rows of __search_outbox__ by document, each with its enqueued_at
    changes,    \* calls that enqueued so far
    asked,      \* the operation of the last enqueue of each document
    raced,      \* documents whose last enqueue found a drain holding them
    pc,         \* where each drain is
    passes,     \* passes each has begun
    batch,      \* rows claimed and not yet handled, by document, as they were claimed
    read,       \* versions rebuild() read
    handled,    \* documents of the index under way the cluster took
    settled,    \* whether the pass settled anything
    faults      \* failed database calls and dead occurrences so far

tables == <<table, asked, raced, changes>>
drains == <<pc, passes, batch, read, handled, settled>>
vars == <<tables, cluster, line, drains, faults>>

Operations == {"index", "delete"}

\* No rows.
Nothing == [d \in {} |-> d]

Init ==
    /\ table = [d \in Docs |-> 0]
    /\ cluster = [d \in Docs |-> 0]
    /\ line = Nothing
    /\ changes = 0
    /\ asked = [d \in Docs |-> "index"]
    /\ raced = {}
    /\ pc = [x \in Drains |-> "idle"]
    /\ passes = [x \in Drains |-> 0]
    /\ batch = [x \in Drains |-> Nothing]
    /\ read = [x \in Drains |-> [d \in Docs |-> 0]]
    /\ handled = [x \in Drains |-> {}]
    /\ settled = [x \in Drains |-> FALSE]
    /\ faults = 0

-----------------------------------------------------------------------------
(* The line.                                                               *)

Line == DOMAIN line
Pending == {d \in Line : ~line[d].failed}

\* The rows of a batch are gathered by index, the index of the oldest one first.
Group(x) ==
    IndexOf[CHOOSE d \in DOMAIN batch[x] :
              \A e \in DOMAIN batch[x] : batch[x][d].at <= batch[x][e].at]

\* A drain that claimed the row of d has not settled it yet.
Holds(x, d) == d \in DOMAIN batch[x] /\ (pc[x] = "fail" => IndexOf[d] # Group(x))

Fresh(op, at) == [op |-> op, at |-> at, attempts |-> 0, failed |-> FALSE]

\* __search_enqueue__: one row per document, which keeps its place in the line.
Enqueue(ds, op) ==
    /\ changes < MaxChanges
    /\ changes' = changes + 1
    /\ line' = [d \in Line \cup ds |->
                  IF d \in ds THEN Fresh(op, IF d \in Line THEN line[d].at ELSE changes)
                             ELSE line[d]]
    /\ asked' = [d \in Docs |-> IF d \in ds THEN op ELSE asked[d]]
    /\ raced' = {d \in Docs : IF d \in ds THEN \E x \in Drains : Holds(x, d) ELSE d \in raced}
    /\ UNCHANGED <<cluster, drains, faults>>

Fault == faults < MaxFaults /\ faults' = faults + 1

\* A row the cluster refused once more: the last refusal takes it out of reach.
Refused(row) == [row EXCEPT !.attempts = @ + 1, !.failed = row.attempts + 1 >= MaxAttempts]

\* Mutant of FailRows: a row already given up is counted again.
FailGivenUpRows(ds) ==
    /\ line' = [d \in Line |-> IF d \in ds THEN Refused(line[d]) ELSE line[d]]
    /\ UNCHANGED faults

\* __search_fail__: one refusal more for each row still tried.
FailRows(ds) ==
    \/ /\ line' = [d \in Line |-> IF d \in ds /\ ~line[d].failed THEN Refused(line[d])
                                                                ELSE line[d]]
       /\ UNCHANGED faults
    \/ Fault /\ UNCHANGED line

-----------------------------------------------------------------------------
(* The tables.                                                             *)

\* A row is inserted or updated, in the table of the index or one it joins.
Write(d) ==
    /\ table' = [table EXCEPT ![d] = changes + 1]
    /\ Enqueue({d}, "index")

Delete(d) ==
    /\ table[d] # 0
    /\ table' = [table EXCEPT ![d] = 0]
    /\ Enqueue({d}, "delete")

\* An update that changes the key: both documents are queued for a rebuild.
Rekey(d, e) ==
    /\ table[d] # 0 /\ table[e] = 0 /\ IndexOf[d] = IndexOf[e]
    /\ table' = [table EXCEPT ![d] = 0, ![e] = changes + 1]
    /\ Enqueue({d, e}, "index")

\* SearchIndex.add and SearchIndex.delete, called by a project.
Ask(d, op) ==
    /\ Enqueue({d}, op)
    /\ UNCHANGED table

-----------------------------------------------------------------------------
(* A drain.                                                                *)

\* The documents of the index under way, by the way they move, and the rows left after.
Moving(x, op) == {d \in DOMAIN batch[x] : IndexOf[d] = Group(x) /\ batch[x][d].op = op}
Erased(x) == Moving(x, "delete")
Rebuilt(x) == Moving(x, "index")
OtherIndexes(x) == Restrict(batch[x], {d \in DOMAIN batch[x] : IndexOf[d] # Group(x)})

Goto(x, at) == pc' = [pc EXCEPT ![x] = at]

Ends(x) ==
    /\ Goto(x, "idle")
    /\ passes' = [passes EXCEPT ![x] = 0]
    /\ batch' = [batch EXCEPT ![x] = Nothing]
    /\ read' = [read EXCEPT ![x] = [d \in Docs |-> 0]]
    /\ handled' = [handled EXCEPT ![x] = {}]
    /\ settled' = [settled EXCEPT ![x] = FALSE]

\* What a claim may answer: as many rows as it takes, none older left behind.
Oldest == {ds \in SUBSET Pending :
             /\ Cardinality(ds) <= BatchSize
             /\ ds # Pending => Cardinality(ds) = BatchSize
             /\ \A d \in ds, e \in Pending \ ds : line[d].at <= line[e].at}

\* An occurrence begins a pass: the oldest rows, none of them locked.
Claim(x) ==
    /\ pc[x] = "idle"
    /\ IF Pending = {}
         THEN Ends(x)
         ELSE /\ \E ds \in Oldest :
                   batch' = [batch EXCEPT ![x] =
                               [d \in ds |-> [op |-> line[d].op, at |-> line[d].at]]]
              /\ passes' = [passes EXCEPT ![x] = IF @ < MinPasses THEN @ + 1 ELSE @]
              /\ Goto(x, "group")
              /\ UNCHANGED <<read, handled, settled>>
    /\ UNCHANGED <<tables, cluster, line, faults>>

\* An index no declaration answers to has its rows counted as refused.
NoIndex(x) ==
    /\ pc[x] = "group" /\ batch[x] # Nothing
    /\ Group(x) \notin Declared
    /\ FailRows(Erased(x) \cup Rebuilt(x))
    /\ batch' = [batch EXCEPT ![x] = OtherIndexes(x)]
    /\ UNCHANGED <<tables, cluster, pc, passes, read, handled, settled>>

\* One bulk call that leaves each of ds as to says: what the cluster refuses stays,
\* now or each time, and the answer may be lost with everything applied.
Bulk(x, ds, to) ==
    \E applied \in SUBSET ds :
        /\ cluster' = [d \in Docs |-> IF d \in applied THEN to[d] ELSE cluster[d]]
        /\ \/ handled' = [handled EXCEPT ![x] = @ \cup applied]
           \/ UNCHANGED handled

Erase(x) ==
    /\ pc[x] = "group" /\ batch[x] # Nothing
    /\ Group(x) \in Declared
    /\ Bulk(x, Erased(x), [d \in Docs |-> 0])
    /\ Goto(x, "read")
    /\ UNCHANGED <<tables, line, faults, passes, batch, read, settled>>

\* The documents are built from what the tables hold now.
ReadRows(x) ==
    /\ pc[x] = "read"
    /\ read' = [read EXCEPT ![x] = [d \in Docs |-> IF d \in Rebuilt(x) THEN table[d] ELSE 0]]
    /\ Goto(x, "index")
    /\ UNCHANGED <<tables, cluster, line, faults, passes, batch, handled, settled>>

Index(x) ==
    /\ pc[x] = "index"
    /\ Bulk(x, {d \in Rebuilt(x) : read[x][d] # 0}, read[x])
    /\ Goto(x, "remove")
    /\ UNCHANGED <<tables, line, faults, passes, batch, read, settled>>

\* A document whose row was not found is taken out of the index.
RemoveGone(x) ==
    /\ pc[x] = "remove"
    /\ Bulk(x, {d \in Rebuilt(x) : read[x][d] = 0}, [d \in Docs |-> 0])
    /\ Goto(x, "settle")
    /\ UNCHANGED <<tables, line, faults, passes, batch, read, settled>>

\* Mutant of Settle: the whole group leaves the line, whatever the cluster took.
SettleTheGroup(x) ==
    /\ pc[x] = "settle"
    /\ line' = Restrict(line, Line \ (Erased(x) \cup Rebuilt(x)))
    /\ settled' = [settled EXCEPT ![x] = @ \/ handled[x] # {}]
    /\ Goto(x, "fail")
    /\ UNCHANGED <<tables, cluster, passes, batch, read, handled, faults>>

\* What the cluster took leaves the line, by its key and nothing else. A refused
\* DELETE leaves it there, and counts as settled all the same.
Settle(x) ==
    /\ pc[x] = "settle"
    /\ \/ line' = Restrict(line, Line \ handled[x]) /\ UNCHANGED faults
       \/ Fault /\ UNCHANGED line
    /\ settled' = [settled EXCEPT ![x] = @ \/ handled[x] # {}]
    /\ Goto(x, "fail")
    /\ UNCHANGED <<tables, cluster, passes, batch, read, handled>>

\* Mutant of Fail: a refusal is not counted.
FailUncounted(x) ==
    /\ pc[x] = "fail"
    /\ batch' = [batch EXCEPT ![x] = OtherIndexes(x)]
    /\ handled' = [handled EXCEPT ![x] = {}]
    /\ read' = [read EXCEPT ![x] = [d \in Docs |-> 0]]
    /\ Goto(x, "group")
    /\ UNCHANGED <<tables, cluster, line, passes, settled, faults>>

\* What it did not take is counted, unless the call fails, and the next index comes.
Fail(x) ==
    /\ pc[x] = "fail"
    /\ FailRows((Erased(x) \cup Rebuilt(x)) \ handled[x])
    /\ batch' = [batch EXCEPT ![x] = OtherIndexes(x)]
    /\ handled' = [handled EXCEPT ![x] = {}]
    /\ read' = [read EXCEPT ![x] = [d \in Docs |-> 0]]
    /\ Goto(x, "group")
    /\ UNCHANGED <<tables, cluster, passes, settled>>

\* A pass is over. One that settled nothing ends the occurrence, as does the budget
\* once MinPasses are taken.
EndPass(x) ==
    /\ pc[x] = "group" /\ batch[x] = Nothing
    /\ \/ /\ ~settled[x] \/ passes[x] >= MinPasses
          /\ Ends(x)
       \/ /\ settled[x]
          /\ Goto(x, "idle")
          /\ settled' = [settled EXCEPT ![x] = FALSE]
          /\ UNCHANGED <<passes, batch, read, handled>>
    /\ UNCHANGED <<tables, cluster, line, faults>>

\* A read of the line or of a table raised, or the process died: the occurrence is
\* over, and what it held is left as it is.
Aborts(x) ==
    /\ pc[x] # "idle" \/ passes[x] > 0
    /\ Fault
    /\ Ends(x)
    /\ UNCHANGED <<tables, cluster, line>>

-----------------------------------------------------------------------------

Drain(x) ==
    \/ Claim(x) \/ NoIndex(x) \/ Erase(x) \/ ReadRows(x) \/ Index(x)
    \/ RemoveGone(x) \/ Settle(x) \/ Fail(x) \/ EndPass(x)

Project ==
    \/ \E d \in Docs : Write(d) \/ Delete(d) \/ \E op \in Operations : Ask(d, op)
    \/ \E d, e \in Docs : d # e /\ Rekey(d, e)

Next == Project \/ \E x \in Drains : Drain(x) \/ Aborts(x)

Spec == Init /\ [][Next]_vars

(* The job is fired again and again, and a drain that runs goes on.         *)
Fairness == \A x \in Drains : WF_vars(Drain(x))

FairSpec == Spec /\ Fairness

-----------------------------------------------------------------------------
(* Properties.                                                             *)

Versions == 0..MaxChanges

TypeOK ==
    /\ table \in [Docs -> Versions]
    /\ cluster \in [Docs -> Versions]
    /\ Line \subseteq Docs
    /\ \A d \in Line :
         /\ line[d] \in [op : Operations, at : 0..MaxChanges, attempts : 0..MaxAttempts,
                        failed : BOOLEAN]
         /\ line[d].failed <=> line[d].attempts = MaxAttempts
    /\ changes \in 0..MaxChanges
    /\ asked \in [Docs -> Operations]
    /\ raced \subseteq Docs
    /\ pc \in [Drains -> {"idle", "group", "read", "index", "remove", "settle", "fail"}]
    /\ passes \in [Drains -> 0..MinPasses]
    /\ batch \in [Drains -> UNION {[ds -> [op : Operations, at : 0..MaxChanges]] :
                                    ds \in SUBSET Docs}]
    /\ read \in [Drains -> [Docs -> Versions]]
    /\ handled \in [Drains -> SUBSET Docs]
    /\ settled \in [Drains -> BOOLEAN]
    /\ faults \in 0..MaxFaults

\* What the cluster should hold once nothing is in line for d.
Wanted(d) == IF asked[d] = "delete" THEN 0 ELSE table[d]

\* "A row is left in place until the cluster acknowledged it": a document that is not
\* in the line is in the cluster as it was last asked for.
SettledIsIndexed ==
    \A d \in Docs \ Line : cluster[d] = Wanted(d)

\* Refusals, lost answers, failed calls, dead occurrences and drains that run
\* together leave no document behind: one that is out of the line and wrong in the
\* cluster was asked for while a drain held its row.
OnlyARaceLosesAChange ==
    \A d \in Docs \ Line : cluster[d] # Wanted(d) => d \in raced

\* A document the cluster keeps refusing holds nobody back: once the tables are quiet
\* every row leaves the line or is given up, whatever is in front of it.
LineEmpties == <>[](Pending = {})
-----------------------------------------------------------------------------
(* A small instance, for TLC. "ghost" is of an index nothing declares.        *)
ByIndex == [d \in Docs |-> IF d = "ghost" THEN "ghosts" ELSE "posts"]
=============================================================================
