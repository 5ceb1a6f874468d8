------------------------- MODULE SearchOutbox_proofs -------------------------
(* Theorems of SearchOutbox, for any documents, indexes, drains and bounds. *)
EXTENDS SearchOutbox, TLAPS

-----------------------------------------------------------------------------
(* The operators of the model.                                             *)

Row == [op : Operations, at : 0..MaxChanges, attempts : 0..MaxAttempts, failed : BOOLEAN]
Claimed == [op : Operations, at : 0..MaxChanges]
Batch == UNION {[ds -> Claimed] : ds \in SUBSET Docs}

\* The rows of the line have their type.
LineTyped ==
    /\ Line \subseteq Docs
    /\ \A d \in Line : line[d] \in Row /\ (line[d].failed <=> line[d].attempts = MaxAttempts)

\* The bounds are what their names say.
LEMMA Bounds ==
    /\ BatchSize \in Nat /\ MaxAttempts \in Nat \ {0} /\ MinPasses \in Nat \ {0}
    /\ MaxChanges \in Nat /\ MaxFaults \in Nat
    /\ 0 \in Versions /\ 0 \in 0..MaxChanges /\ 0 \in 0..MaxAttempts /\ 0 \in 0..MinPasses
    /\ {"index", "delete"} = Operations
BY SearchAssumption DEF Versions, Operations

\* A batch is a function of the documents it holds.
LEMMA BatchType ==
    /\ \A b \in Batch : DOMAIN b \subseteq Docs /\ \A d \in DOMAIN b : b[d] \in Claimed
    /\ \A ds \in SUBSET Docs : [ds -> Claimed] \subseteq Batch
    /\ Nothing \in Batch /\ DOMAIN Nothing = {}
<1>1. \A b \in Batch : DOMAIN b \subseteq Docs /\ \A d \in DOMAIN b : b[d] \in Claimed
  BY DEF Batch
<1>2. \A ds \in SUBSET Docs : [ds -> Claimed] \subseteq Batch
  BY DEF Batch
<1>3. Nothing \in [{} -> Claimed] /\ DOMAIN Nothing = {}
  BY DEF Nothing
<1>4. {} \in SUBSET Docs
  OBVIOUS
<1> QED BY <1>1, <1>2, <1>3, <1>4

\* The documents a drain moves are in its batch, and each moves one way.
LEMMA MovingType ==
    ASSUME NEW x \in Drains, TypeOK
    PROVE  /\ Erased(x) \subseteq DOMAIN batch[x] /\ Rebuilt(x) \subseteq DOMAIN batch[x]
           /\ DOMAIN batch[x] \subseteq Docs
           /\ \A d \in Erased(x) \cup Rebuilt(x) : IndexOf[d] = Group(x)
           /\ \A d \in Erased(x) : batch[x][d].op = "delete"
           /\ \A d \in Rebuilt(x) : batch[x][d].op = "index"
<1>1. batch[x] \in Batch
  BY DEF TypeOK, Batch, Claimed
<1> QED BY <1>1, BatchType DEF Erased, Rebuilt, Moving

\* What is left of a batch is a batch, of the documents of other indexes.
LEMMA OtherIndexesType ==
    ASSUME NEW x \in Drains, TypeOK
    PROVE  /\ OtherIndexes(x) \in Batch
           /\ DOMAIN OtherIndexes(x) = {d \in DOMAIN batch[x] : IndexOf[d] # Group(x)}
           /\ \A d \in DOMAIN OtherIndexes(x) : OtherIndexes(x)[d] = batch[x][d]
<1> DEFINE other == {d \in DOMAIN batch[x] : IndexOf[d] # Group(x)}
<1>1. batch[x] \in Batch
  BY DEF TypeOK, Batch, Claimed
<1>2. OtherIndexes(x) = [d \in other |-> batch[x][d]]
  BY DEF OtherIndexes, Restrict
<1>3. other \in SUBSET Docs /\ \A d \in other : batch[x][d] \in Claimed
  BY <1>1, BatchType
<1>4. OtherIndexes(x) \in [other -> Claimed]
  BY <1>2, <1>3
<1> QED BY <1>2, <1>3, <1>4, BatchType

\* A change that enqueues leaves the line well typed, with the operation it asks.
LEMMA EnqueueType ==
    ASSUME TypeOK, NEW ds \in SUBSET Docs, NEW op \in Operations, Enqueue(ds, op)
    PROVE  /\ LineTyped' /\ Line' = Line \cup ds
           /\ changes' \in 0..MaxChanges /\ changes + 1 \in Versions
           /\ asked' \in [Docs -> Operations] /\ raced' \subseteq Docs
           /\ \A d \in ds : line'[d].op = op
           /\ \A d \in Line \ ds : line'[d] = line[d]
<1>1. changes \in 0..MaxChanges /\ changes + 1 \in 0..MaxChanges
  BY Bounds DEF Enqueue, TypeOK
<1>2. /\ Line' = Line \cup ds
      /\ \A d \in ds : line'[d] = Fresh(op, IF d \in Line THEN line[d].at ELSE changes)
      /\ \A d \in Line \ ds : line'[d] = line[d]
  BY DEF Enqueue, Line
<1>3. \A d \in ds : /\ line'[d] \in Row /\ line'[d].op = op
                    /\ line'[d].failed = FALSE /\ line'[d].attempts = 0
  <2> TAKE d \in ds
  <2> DEFINE at == IF d \in Line THEN line[d].at ELSE changes
  <2>1. at \in 0..MaxChanges
    BY <1>1 DEF TypeOK
  <2>2. line'[d] = Fresh(op, at)
    BY <1>2
  <2> HIDE DEF at
  <2> QED BY <2>1, <2>2, Bounds DEF Fresh, Row
<1>4. \A d \in Line : line[d] \in Row /\ (line[d].failed <=> line[d].attempts = MaxAttempts)
  BY DEF TypeOK, Row
<1>5. LineTyped'
  BY <1>2, <1>3, <1>4, Bounds DEF LineTyped, TypeOK
<1>6. asked' \in [Docs -> Operations] /\ raced' \subseteq Docs
  BY DEF Enqueue, TypeOK
<1> QED BY <1>1, <1>2, <1>3, <1>5, <1>6 DEF Enqueue, Versions

\* A refusal counted, or that could not be, leaves it so too, and the operations alone.
LEMMA FailRowsType ==
    ASSUME TypeOK, NEW ds, FailRows(ds)
    PROVE  /\ LineTyped' /\ Line' = Line /\ faults' \in 0..MaxFaults
           /\ \A d \in Line : line'[d].op = line[d].op
<1>1. \A d \in Line : line[d] \in Row /\ (line[d].failed <=> line[d].attempts = MaxAttempts)
  BY DEF TypeOK, Row
<1>2. ASSUME NEW row \in Row, ~row.failed, row.failed <=> row.attempts = MaxAttempts
      PROVE  /\ Refused(row) \in Row /\ Refused(row).op = row.op
             /\ Refused(row).failed <=> Refused(row).attempts = MaxAttempts
  <2>1. /\ row.attempts + 1 \in 0..MaxAttempts
        /\ row.attempts + 1 >= MaxAttempts <=> row.attempts + 1 = MaxAttempts
    <3>1. row.attempts \in 0..MaxAttempts /\ row.attempts # MaxAttempts
      BY <1>2 DEF Row
    <3> QED BY <3>1, Bounds
  <2>2. \A n \in 0..MaxAttempts, f \in BOOLEAN :
           LET r == [row EXCEPT !.attempts = n, !.failed = f]
           IN  r \in Row /\ r.op = row.op /\ r.attempts = n /\ r.failed = f
    BY DEF Row
  <2>3. (row.attempts + 1 >= MaxAttempts) \in BOOLEAN
    OBVIOUS
  <2> QED BY <2>1, <2>2, <2>3, Zenon DEF Refused
<1>3. CASE UNCHANGED line /\ Fault
  BY <1>1, <1>3, Bounds DEF LineTyped, Line, Fault, TypeOK
<1>4. CASE /\ line' = [d \in Line |-> IF d \in ds /\ ~line[d].failed THEN Refused(line[d])
                                                                   ELSE line[d]]
           /\ UNCHANGED faults
  <2>1. Line' = Line
    BY <1>4 DEF Line
  <2> QED BY <1>1, <1>2, <1>4, <2>1 DEF LineTyped, TypeOK
<1> QED BY <1>3, <1>4 DEF FailRows

\* A bulk call that writes versions leaves versions, and takes documents for handled.
LEMMA BulkType ==
    ASSUME TypeOK, NEW x \in Drains, NEW ds \in SUBSET Docs, NEW to \in [Docs -> Versions],
           Bulk(x, ds, to)
    PROVE  cluster' \in [Docs -> Versions] /\ handled' \in [Drains -> SUBSET Docs]
<1>1. PICK applied \in SUBSET ds :
        /\ cluster' = [d \in Docs |-> IF d \in applied THEN to[d] ELSE cluster[d]]
        /\ handled' = [handled EXCEPT ![x] = @ \cup applied] \/ UNCHANGED handled
  BY DEF Bulk
<1>2. handled[x] \cup applied \in SUBSET Docs
  BY DEF TypeOK
<1>3. cluster' \in [Docs -> Versions]
  BY <1>1 DEF TypeOK
<1>4. handled' \in [Drains -> SUBSET Docs]
  BY <1>1, <1>2 DEF TypeOK
<1> QED BY <1>3, <1>4

-----------------------------------------------------------------------------
(* Type correctness.                                                       *)

\* The types of the tables, of the line and of the drains.
TablesTyped ==
    /\ table \in [Docs -> Versions] /\ changes \in 0..MaxChanges
    /\ asked \in [Docs -> Operations] /\ raced \subseteq Docs

DrainsTyped ==
    /\ pc \in [Drains -> {"idle", "group", "read", "index", "remove", "settle", "fail"}]
    /\ passes \in [Drains -> 0..MinPasses] /\ batch \in [Drains -> Batch]
    /\ read \in [Drains -> [Docs -> Versions]]
    /\ handled \in [Drains -> SUBSET Docs] /\ settled \in [Drains -> BOOLEAN]

Typed == /\ TablesTyped /\ LineTyped /\ DrainsTyped
         /\ cluster \in [Docs -> Versions] /\ faults \in 0..MaxFaults

\* Together they are the type invariant, before a step and after it.
LEMMA TypeByName == (TypeOK <=> Typed) /\ (TypeOK' <=> Typed')
BY DEF TypeOK, Typed, TablesTyped, LineTyped, DrainsTyped, Row, Batch, Claimed, Line

\* A state with the same tables, line or drains has them as well typed.
LEMMA TypedUnchanged ==
    /\ TablesTyped /\ UNCHANGED tables => TablesTyped'
    /\ LineTyped /\ UNCHANGED line => LineTyped'
    /\ DrainsTyped /\ UNCHANGED drains => DrainsTyped'
BY DEF TablesTyped, LineTyped, DrainsTyped, tables, drains, Line

\* The initial state has the declared types.
LEMMA InitType == Init => TypeOK
<1> SUFFICES ASSUME Init PROVE TypeOK
  OBVIOUS
<1>1. Line = {}
  BY DEF Init, Line, Nothing
<1> QED BY <1>1, Bounds, BatchType, TypeByName
    DEF Init, Typed, TablesTyped, LineTyped, DrainsTyped

\* A drain that ends keeps nothing.
LEMMA EndsType ==
    ASSUME DrainsTyped, NEW x \in Drains, Ends(x)
    PROVE  DrainsTyped'
BY Bounds, BatchType DEF Ends, Goto, DrainsTyped

\* A change of the tables, or one a project asks for, keeps the types.
LEMMA ProjectType == TypeOK /\ Project => TypeOK'
<1>1. ASSUME TypeOK, NEW ds \in SUBSET Docs, NEW op \in Operations, Enqueue(ds, op),
             table' \in [Docs -> Versions]
      PROVE  TypeOK'
  <2>1. LineTyped' /\ TablesTyped'
    BY <1>1, EnqueueType DEF TablesTyped
  <2> QED BY <1>1, <2>1, TypeByName, TypedUnchanged DEF Enqueue, Typed
<1>2. ASSUME TypeOK, NEW d \in Docs, Write(d) PROVE TypeOK'
  <2>1. Enqueue({d}, "index") /\ "index" \in Operations
    BY <1>2, Bounds DEF Write
  <2>2. table' \in [Docs -> Versions]
    BY <1>2, <2>1, EnqueueType DEF Write, TypeOK
  <2> QED BY <1>1, <1>2, <2>1, <2>2
<1>3. ASSUME TypeOK, NEW d \in Docs, Delete(d) PROVE TypeOK'
  <2>1. Enqueue({d}, "delete") /\ "delete" \in Operations
    BY <1>3, Bounds DEF Delete
  <2>2. table' \in [Docs -> Versions]
    BY <1>3, Bounds DEF Delete, TypeOK
  <2> QED BY <1>1, <1>3, <2>1, <2>2
<1>4. ASSUME TypeOK, NEW d \in Docs, NEW op \in Operations, Ask(d, op) PROVE TypeOK'
  <2>1. table' \in [Docs -> Versions]
    BY <1>4 DEF Ask, TypeOK
  <2> QED BY <1>1, <1>4, <2>1 DEF Ask
<1>5. ASSUME TypeOK, NEW d \in Docs, NEW e \in Docs, Rekey(d, e) PROVE TypeOK'
  <2>1. Enqueue({d, e}, "index") /\ "index" \in Operations
    BY <1>5, Bounds DEF Rekey
  <2>2. table' \in [Docs -> Versions]
    BY <1>5, <2>1, EnqueueType, Bounds DEF Rekey, TypeOK
  <2> QED BY <1>1, <1>5, <2>1, <2>2
<1> QED BY <1>2, <1>3, <1>4, <1>5 DEF Project

\* A step of a drain keeps the types of the drains.
LEMMA DrainType ==
    ASSUME TypeOK, NEW x \in Drains, Drain(x) \/ Aborts(x)
    PROVE  DrainsTyped'
<1> DrainsTyped
  BY TypeByName DEF Typed
<1>1. CASE Claim(x)
  <2>1. ASSUME NEW ds \in Oldest
        PROVE  [d \in ds |-> [op |-> line[d].op, at |-> line[d].at]] \in Batch
    <3>1. ds \subseteq Line /\ Line \subseteq Docs
      BY <2>1 DEF Oldest, Pending, TypeOK
    <3>2. \A d \in ds : [op |-> line[d].op, at |-> line[d].at] \in Claimed
      BY <3>1 DEF TypeOK, Claimed
    <3> QED BY <3>1, <3>2, BatchType
  <2>2. CASE Pending = {}
    BY <1>1, <2>2, EndsType DEF Claim
  <2>3. CASE Pending # {}
    <3>1. passes' \in [Drains -> 0..MinPasses]
      <4>1. (IF passes[x] < MinPasses THEN passes[x] + 1 ELSE passes[x]) \in 0..MinPasses
        BY Bounds DEF DrainsTyped
      <4> QED BY <1>1, <2>3, <4>1 DEF Claim, DrainsTyped
    <3>2. batch' \in [Drains -> Batch]
      <4>1. PICK ds \in Oldest :
              batch' = [batch EXCEPT ![x] =
                          [d \in ds |-> [op |-> line[d].op, at |-> line[d].at]]]
        BY <1>1, <2>3 DEF Claim
      <4> DEFINE claimed == [d \in ds |-> [op |-> line[d].op, at |-> line[d].at]]
      <4>2. claimed \in Batch
        BY <2>1
      <4>3. batch' = [batch EXCEPT ![x] = claimed]
        BY <4>1
      <4> HIDE DEF claimed
      <4> QED BY <4>2, <4>3 DEF DrainsTyped
    <3> QED BY <1>1, <2>3, <3>1, <3>2 DEF Claim, Goto, DrainsTyped
  <2> QED BY <2>2, <2>3
<1>2. CASE NoIndex(x)
  BY <1>2, OtherIndexesType DEF NoIndex, DrainsTyped
<1>3. CASE Erase(x)
  <2>1. Bulk(x, Erased(x), [d \in Docs |-> 0]) /\ Erased(x) \in SUBSET Docs
    BY <1>3, MovingType DEF Erase
  <2>2. handled' \in [Drains -> SUBSET Docs]
    BY <2>1, Bounds, BulkType
  <2> QED BY <1>3, <2>2 DEF Erase, Goto, DrainsTyped
<1>4. CASE ReadRows(x)
  <2>1. [d \in Docs |-> IF d \in Rebuilt(x) THEN table[d] ELSE 0] \in [Docs -> Versions]
    BY Bounds DEF TypeOK
  <2> QED BY <1>4, <2>1 DEF ReadRows, Goto, DrainsTyped
<1>5. CASE Index(x)
  <2>1. /\ Bulk(x, {d \in Rebuilt(x) : read[x][d] # 0}, read[x])
        /\ Rebuilt(x) \subseteq Docs /\ read[x] \in [Docs -> Versions]
    BY <1>5, MovingType DEF Index, TypeOK
  <2>2. handled' \in [Drains -> SUBSET Docs]
    BY <2>1, BulkType
  <2> QED BY <1>5, <2>2 DEF Index, Goto, DrainsTyped
<1>6. CASE RemoveGone(x)
  <2>1. /\ Bulk(x, {d \in Rebuilt(x) : read[x][d] = 0}, [d \in Docs |-> 0])
        /\ Rebuilt(x) \subseteq Docs
    BY <1>6, MovingType DEF RemoveGone
  <2>2. handled' \in [Drains -> SUBSET Docs]
    BY <2>1, Bounds, BulkType
  <2> QED BY <1>6, <2>2 DEF RemoveGone, Goto, DrainsTyped
<1>7. CASE Settle(x)
  BY <1>7 DEF Settle, Goto, DrainsTyped
<1>8. CASE Fail(x)
  BY <1>8, OtherIndexesType, Bounds DEF Fail, Goto, DrainsTyped
<1>9. CASE EndPass(x)
  <2>1. CASE Ends(x)
    BY <2>1, EndsType
  <2>2. CASE /\ Goto(x, "idle") /\ settled' = [settled EXCEPT ![x] = FALSE]
             /\ UNCHANGED <<passes, batch, read, handled>>
    BY <2>2 DEF Goto, DrainsTyped
  <2> QED BY <1>9, <2>1, <2>2 DEF EndPass
<1>10. CASE Aborts(x)
  BY <1>10, EndsType DEF Aborts
<1> QED BY <1>1, <1>2, <1>3, <1>4, <1>5, <1>6, <1>7, <1>8, <1>9, <1>10 DEF Drain

\* So it keeps those of everything else.
LEMMA DrainElseType ==
    ASSUME TypeOK, NEW x \in Drains, Drain(x) \/ Aborts(x)
    PROVE  /\ TablesTyped' /\ UNCHANGED tables
           /\ LineTyped' /\ Line' \subseteq Line /\ \A d \in Line' : line'[d].op = line[d].op
           /\ cluster' \in [Docs -> Versions] /\ faults' \in 0..MaxFaults
<1>1. Typed
  BY TypeByName
<1>2. /\ UNCHANGED tables /\ TablesTyped'
  <2>1. UNCHANGED tables
    BY DEF Drain, Claim, NoIndex, Erase, ReadRows, Index, RemoveGone, Settle, Fail, EndPass, Aborts
  <2> QED BY <1>1, <2>1, TypedUnchanged DEF Typed
<1>3. CASE UNCHANGED <<line, cluster>> /\ faults' \in 0..MaxFaults
  BY <1>1, <1>2, <1>3, TypedUnchanged DEF Typed, Line
<1>4. CASE NoIndex(x) \/ Fail(x)
  BY <1>1, <1>2, <1>4, FailRowsType DEF NoIndex, Fail, Typed
<1>5. CASE Settle(x)
  <2>1. faults' \in 0..MaxFaults
    BY <1>1, <1>5, Bounds DEF Settle, Fault, Typed
  <2>2. CASE UNCHANGED line
    BY <1>1, <1>2, <1>5, <2>1, <2>2, TypedUnchanged DEF Settle, Typed, Line
  <2>3. CASE line' = Restrict(line, Line \ handled[x])
    <3>1. Line' = Line \ handled[x] /\ \A d \in Line' : line'[d] = line[d]
      BY <2>3 DEF Line, Restrict
    <3> QED BY <1>1, <1>2, <1>5, <2>1, <3>1 DEF Settle, Typed, LineTyped
  <2> QED BY <1>5, <2>2, <2>3 DEF Settle
<1>6. CASE Erase(x) \/ Index(x) \/ RemoveGone(x)
  <2>1. /\ Erased(x) \subseteq Docs /\ Rebuilt(x) \subseteq Docs
        /\ read[x] \in [Docs -> Versions] /\ [d \in Docs |-> 0] \in [Docs -> Versions]
    BY MovingType, Bounds DEF TypeOK
  <2>2. cluster' \in [Docs -> Versions]
    BY <1>6, <2>1, BulkType DEF Erase, Index, RemoveGone
  <2> QED BY <1>1, <1>2, <1>6, <2>2, TypedUnchanged DEF Erase, Index, RemoveGone, Typed, Line
<1>7. CASE Claim(x) \/ ReadRows(x) \/ EndPass(x)
  BY <1>1, <1>3, <1>7 DEF Claim, ReadRows, EndPass, Typed
<1>8. CASE Aborts(x)
  BY <1>1, <1>3, <1>8, Bounds DEF Aborts, Fault, Typed
<1> QED BY <1>4, <1>5, <1>6, <1>7, <1>8 DEF Drain

\* Every step keeps the types.
LEMMA NextType == TypeOK /\ [Next]_vars => TypeOK'
<1>1. ASSUME TypeOK, NEW x \in Drains, Drain(x) \/ Aborts(x) PROVE TypeOK'
  BY <1>1, DrainType, DrainElseType, TypeByName DEF Typed
<1>2. ASSUME TypeOK, UNCHANGED vars PROVE TypeOK'
  BY <1>2, TypeByName, TypedUnchanged DEF vars, Typed
<1> QED BY <1>1, <1>2, ProjectType DEF Next

\* The tables, the cluster, the line and the drains keep their declared values.
THEOREM TypeCorrect == Spec => []TypeOK
<1> QED BY InitType, NextType, PTL DEF Spec

-----------------------------------------------------------------------------
(* The invariant that keeps what the drains do in step with what was asked. *)

\* A row says what was last asked of its document.
LineAsAsked == \A d \in Line : line[d].op = asked[d]

\* So does a row a drain holds, unless it raced.
HeldAsAsked ==
    \A x \in Drains : \A d \in Docs \ raced : Holds(x, d) => batch[x][d].op = asked[d]

\* What a drain is about to write is what the tables still hold, unless it raced.
ReadIsCurrent ==
    \A x \in Drains : pc[x] \in {"index", "remove"} =>
        \A d \in Rebuilt(x) \ raced : read[x][d] = table[d]

\* What the cluster took is of the index under way, and is what it should hold.
HandledIsIndexed ==
    \A x \in Drains :
        /\ pc[x] \in {"idle", "group"} => handled[x] = {}
        /\ pc[x] # "fail" =>
             \A d \in handled[x] : d \in DOMAIN batch[x] /\ (d \notin raced => cluster[d] = Wanted(d))

AsAsked == LineAsAsked /\ HeldAsAsked /\ ReadIsCurrent /\ HandledIsIndexed /\ OnlyARaceLosesAChange

IInv == TypeOK /\ AsAsked

\* Nothing is asked, held or written at first.
LEMMA InitAsAsked == Init => AsAsked
BY DEF Init, AsAsked, LineAsAsked, HeldAsAsked, ReadIsCurrent, HandledIsIndexed,
       OnlyARaceLosesAChange, Holds, Wanted, Nothing, Line

\* A change that enqueues finds the invariant kept: either no drain holds its document,
\* or the document raced.
LEMMA EnqueueAsAsked ==
    ASSUME IInv, NEW ds \in SUBSET Docs, NEW op \in Operations, Enqueue(ds, op),
           \A d \in Docs \ ds : table'[d] = table[d]
    PROVE  AsAsked'
<1> TypeOK /\ AsAsked
  BY DEF IInv
<1>1. UNCHANGED <<cluster, pc, batch, read, handled>>
  BY DEF Enqueue, drains
<1>2. \A d \in Docs \ ds : /\ asked'[d] = asked[d] /\ (d \in raced' <=> d \in raced)
                           /\ Wanted(d)' = Wanted(d)
  BY DEF Enqueue, Wanted
<1>3. \A d \in ds : /\ asked'[d] = op
                    /\ d \notin raced' => \A x \in Drains : ~Holds(x, d)
  BY DEF Enqueue
<1>4. \A x \in Drains : /\ \A d \in Docs : Holds(x, d)' <=> Holds(x, d)
                        /\ Rebuilt(x)' = Rebuilt(x) /\ Rebuilt(x) \subseteq Docs
                        /\ pc[x] # "fail" => \A d \in DOMAIN batch[x] : Holds(x, d)
                        /\ Rebuilt(x) \subseteq DOMAIN batch[x]
  BY <1>1, MovingType DEF Holds, Rebuilt, Moving, Group
<1>5. LineAsAsked'
  <2>1. Line' = Line \cup ds /\ Line \subseteq Docs
    BY EnqueueType DEF TypeOK
  <2> QED BY <1>2, <1>3, <2>1, EnqueueType DEF LineAsAsked, AsAsked
<1>6. HeldAsAsked'
  BY <1>1, <1>2, <1>3, <1>4 DEF HeldAsAsked, AsAsked
<1>7. ReadIsCurrent'
  <2> SUFFICES ASSUME NEW x \in Drains, pc[x] \in {"index", "remove"},
                      NEW d \in Rebuilt(x), d \notin raced'
               PROVE  read[x][d] = table'[d]
    BY <1>1, <1>4 DEF ReadIsCurrent
  <2>1. Holds(x, d) /\ d \in Docs
    BY <1>4
  <2>2. d \notin ds
    BY <1>3, <2>1
  <2> QED BY <1>2, <2>1, <2>2 DEF ReadIsCurrent, AsAsked
<1>8. HandledIsIndexed'
  <2> SUFFICES ASSUME NEW x \in Drains, pc[x] # "fail", NEW d \in handled[x]
               PROVE  /\ d \in DOMAIN batch[x]
                      /\ d \notin raced' => cluster[d] = Wanted(d)'
    BY <1>1 DEF HandledIsIndexed, AsAsked
  <2>1. d \in DOMAIN batch[x] /\ d \in Docs /\ (d \notin raced => cluster[d] = Wanted(d))
    BY DEF HandledIsIndexed, AsAsked, TypeOK
  <2>2. d \notin raced' => d \notin ds
    BY <1>3, <1>4, <2>1
  <2> QED BY <1>2, <2>1, <2>2
<1>9. OnlyARaceLosesAChange'
  <2>1. Line' = Line \cup ds
    BY EnqueueType
  <2> QED BY <1>1, <1>2, <2>1 DEF OnlyARaceLosesAChange, AsAsked
<1> QED BY <1>5, <1>6, <1>7, <1>8, <1>9 DEF AsAsked

\* So does any change of the tables, or one a project asks for.
LEMMA ProjectAsAsked == IInv /\ Project => AsAsked'
<1>1. ASSUME IInv, NEW d \in Docs, Write(d) PROVE AsAsked'
  BY <1>1, EnqueueAsAsked, Bounds DEF Write, IInv, TypeOK
<1>2. ASSUME IInv, NEW d \in Docs, Delete(d) PROVE AsAsked'
  BY <1>2, EnqueueAsAsked, Bounds DEF Delete, IInv, TypeOK
<1>3. ASSUME IInv, NEW d \in Docs, NEW op \in Operations, Ask(d, op) PROVE AsAsked'
  BY <1>3, EnqueueAsAsked DEF Ask
<1>4. ASSUME IInv, NEW d \in Docs, NEW e \in Docs, Rekey(d, e) PROVE AsAsked'
  BY <1>4, EnqueueAsAsked, Bounds DEF Rekey, IInv, TypeOK
<1> QED BY <1>1, <1>2, <1>3, <1>4 DEF Project

\* What a step of a drain has to leave, of its own and of the cluster, for the invariant
\* to be kept.
LEMMA DrainFrame ==
    ASSUME IInv, NEW x \in Drains, Drain(x) \/ Aborts(x),
           \A y \in Drains \ {x} : /\ pc'[y] = pc[y] /\ batch'[y] = batch[y]
                                   /\ read'[y] = read[y] /\ handled'[y] = handled[y],
           \A d \in Docs \ raced : cluster'[d] = cluster[d] \/ cluster'[d] = Wanted(d),
           \A d \in Docs \ raced : Holds(x, d)' => batch'[x][d].op = asked[d],
           pc'[x] \in {"index", "remove"} =>
               \A d \in Rebuilt(x)' \ raced : read'[x][d] = table[d],
           pc'[x] \in {"idle", "group"} => handled'[x] = {},
           pc'[x] # "fail" =>
               \A d \in handled'[x] : /\ d \in DOMAIN batch'[x]
                                      /\ d \notin raced => cluster'[d] = Wanted(d),
           \A d \in Line \ Line' : d \notin raced => cluster'[d] = Wanted(d)
    PROVE  AsAsked'
<1> TypeOK /\ AsAsked
  BY DEF IInv
<1>1. /\ table' = table /\ asked' = asked /\ raced' = raced
      /\ \A d \in Docs : Wanted(d)' = Wanted(d)
  BY DrainElseType DEF tables, Wanted
<1>2. \A y \in Drains \ {x} : /\ \A d \in Docs : Holds(y, d)' <=> Holds(y, d)
                              /\ Rebuilt(y)' = Rebuilt(y)
  BY DEF Holds, Rebuilt, Moving, Group
<1>3. LineAsAsked'
  BY <1>1, DrainElseType DEF LineAsAsked, AsAsked
<1>4. HeldAsAsked'
  BY <1>1, <1>2 DEF HeldAsAsked, AsAsked
<1>5. ReadIsCurrent'
  BY <1>1, <1>2 DEF ReadIsCurrent, AsAsked
<1>6. HandledIsIndexed'
  <2>1. \A y \in Drains : handled'[y] \subseteq Docs
    BY DrainType DEF DrainsTyped
  <2>2. ASSUME NEW y \in Drains \ {x}
        PROVE  /\ pc'[y] \in {"idle", "group"} => handled'[y] = {}
               /\ pc'[y] # "fail" =>
                    \A d \in handled'[y] : /\ d \in DOMAIN batch'[y]
                                           /\ d \notin raced => cluster'[d] = Wanted(d)
    BY <2>1 DEF HandledIsIndexed, AsAsked
  <2> QED BY <1>1, <2>1, <2>2 DEF HandledIsIndexed
<1>7. OnlyARaceLosesAChange'
  BY <1>1 DEF OnlyARaceLosesAChange, AsAsked
<1> QED BY <1>3, <1>4, <1>5, <1>6, <1>7 DEF AsAsked
\* A bulk call that writes what its documents should hold, but for those that raced,
\* leaves it so, and takes no other document for handled.
LEMMA BulkAsAsked ==
    ASSUME IInv, NEW x \in Drains, pc[x] # "fail", NEW ds \in SUBSET DOMAIN batch[x],
           NEW to \in [Docs -> Versions], Bulk(x, ds, to),
           \A d \in ds \ raced : to[d] = Wanted(d)
    PROVE  /\ \A d \in Docs \ raced : cluster'[d] = cluster[d] \/ cluster'[d] = Wanted(d)
           /\ \A y \in Drains \ {x} : handled'[y] = handled[y]
           /\ \A d \in handled'[x] : /\ d \in DOMAIN batch[x]
                                     /\ d \notin raced => cluster'[d] = Wanted(d)
<1> TypeOK /\ HandledIsIndexed
  BY DEF IInv, AsAsked
<1>1. ds \in SUBSET Docs
  BY MovingType
<1>2. PICK applied \in SUBSET ds :
        /\ cluster' = [d \in Docs |-> IF d \in applied THEN to[d] ELSE cluster[d]]
        /\ handled' = [handled EXCEPT ![x] = @ \cup applied] \/ UNCHANGED handled
  BY DEF Bulk
<1>3. /\ \A d \in Docs : cluster'[d] = IF d \in applied THEN to[d] ELSE cluster[d]
      /\ \A y \in Drains \ {x} : handled'[y] = handled[y]
      /\ handled'[x] \subseteq handled[x] \cup applied
  BY <1>2 DEF TypeOK
<1>4. \A d \in handled[x] : /\ d \in Docs /\ d \in DOMAIN batch[x]
                            /\ d \notin raced => cluster[d] = Wanted(d)
  BY DEF HandledIsIndexed, TypeOK
<1> QED BY <1>1, <1>3, <1>4

\* A step of a drain keeps the invariant.
LEMMA DrainAsAsked ==
    ASSUME IInv, NEW x \in Drains, Drain(x) \/ Aborts(x)
    PROVE  AsAsked'
<1> TypeOK /\ AsAsked
  BY DEF IInv
<1> DEFINE others == \A y \in Drains \ {x} : /\ pc'[y] = pc[y] /\ batch'[y] = batch[y]
                                            /\ read'[y] = read[y] /\ handled'[y] = handled[y]
<1>1. /\ pc[x] # "fail" => \A d \in Erased(x) \cup Rebuilt(x) : Holds(x, d)
      /\ \A d \in Erased(x) \ raced : pc[x] # "fail" => Wanted(d) = 0
      /\ \A d \in Rebuilt(x) \ raced : pc[x] # "fail" => Wanted(d) = table[d]
  <2>1. pc[x] # "fail" => \A d \in Erased(x) \cup Rebuilt(x) : Holds(x, d) /\ d \in Docs
    BY MovingType DEF Holds
  <2> QED BY <2>1, MovingType DEF HeldAsAsked, AsAsked, Wanted
<1>2. Erased(x) \subseteq DOMAIN batch[x] /\ Rebuilt(x) \subseteq DOMAIN batch[x]
  BY MovingType
<1>3. ASSUME Ends(x), UNCHANGED <<cluster, line>> PROVE AsAsked'
  <2>1. others /\ pc'[x] = "idle" /\ handled'[x] = {} /\ batch'[x] = Nothing
    BY <1>3 DEF Ends, Goto, TypeOK
  <2>2. \A d \in Docs : ~Holds(x, d)'
    BY <2>1, BatchType DEF Holds
  <2> QED BY <1>3, <2>1, <2>2, DrainFrame DEF Line
<1>4. CASE Claim(x)
  <2>1. CASE Pending = {}
    BY <1>3, <1>4, <2>1 DEF Claim
  <2>2. CASE Pending # {}
    <3>1. PICK ds \in Oldest :
            batch' = [batch EXCEPT ![x] = [d \in ds |-> [op |-> line[d].op, at |-> line[d].at]]]
      BY <1>4, <2>2 DEF Claim
    <3>2. /\ others /\ pc'[x] = "group" /\ handled'[x] = handled[x] /\ pc[x] = "idle"
          /\ UNCHANGED <<cluster, line>>
      BY <1>4, <2>2, <3>1 DEF Claim, Goto, TypeOK
    <3>3. /\ DOMAIN batch'[x] = ds /\ ds \subseteq Line
          /\ \A d \in ds : batch'[x][d].op = line[d].op
      BY <3>1 DEF TypeOK, Oldest, Pending
    <3>4. \A d \in Docs : Holds(x, d)' => batch'[x][d].op = asked[d]
      BY <3>3 DEF Holds, LineAsAsked, AsAsked
    <3>5. handled[x] = {}
      BY <3>2 DEF HandledIsIndexed, AsAsked
    <3> QED BY <3>2, <3>4, <3>5, DrainFrame DEF Line
  <2> QED BY <2>1, <2>2
<1>5. CASE NoIndex(x) \/ Fail(x)
  <2>1. /\ others /\ pc'[x] = "group" /\ batch'[x] = OtherIndexes(x) /\ handled'[x] = {}
        /\ UNCHANGED cluster /\ Line' = Line
    BY <1>5, FailRowsType DEF NoIndex, Fail, Goto, TypeOK, HandledIsIndexed, AsAsked
  <2>2. \A d \in Docs \ raced : Holds(x, d)' => batch'[x][d].op = asked[d]
    <3>1. \A d \in DOMAIN batch'[x] : Holds(x, d) /\ batch'[x][d] = batch[x][d]
      BY <2>1, OtherIndexesType DEF Holds
    <3>2. \A d \in Docs \ raced : Holds(x, d) => batch[x][d].op = asked[d]
      BY DEF HeldAsAsked, AsAsked
    <3> QED BY <3>1, <3>2 DEF Holds
  <2> QED BY <2>1, <2>2, DrainFrame
<1>6. CASE Erase(x)
  <2> DEFINE zero == [d \in Docs |-> 0]
  <2>1. /\ pc[x] = "group" /\ Bulk(x, Erased(x), zero)
        /\ zero \in [Docs -> Versions] /\ \A d \in Erased(x) \ raced : zero[d] = Wanted(d)
    BY <1>1, <1>2, <1>6, Bounds, MovingType DEF Erase
  <2>2. pc'[x] = "read" /\ UNCHANGED <<batch, read, line>> /\ \A y \in Drains \ {x} : pc'[y] = pc[y]
    BY <1>6 DEF Erase, Goto, TypeOK
  <2> HIDE DEF zero
  <2>3. \A d \in Docs \ raced : Holds(x, d)' => batch'[x][d].op = asked[d]
    BY <2>1, <2>2 DEF Holds, HeldAsAsked, AsAsked
  <2> QED BY <1>2, <2>1, <2>2, <2>3, BulkAsAsked, DrainFrame DEF Line
<1>7. CASE ReadRows(x)
  <2>1. /\ others /\ pc[x] = "read" /\ pc'[x] = "index" /\ UNCHANGED <<batch, cluster, line, handled>>
        /\ \A d \in Docs : read'[x][d] = IF d \in Rebuilt(x) THEN table[d] ELSE 0
    BY <1>7 DEF ReadRows, Goto, TypeOK
  <2>2. Rebuilt(x)' = Rebuilt(x) /\ Rebuilt(x) \subseteq Docs
    BY <2>1, MovingType DEF Rebuilt, Moving, Group
  <2>3. \A d \in Docs \ raced : Holds(x, d)' => batch'[x][d].op = asked[d]
    BY <2>1 DEF Holds, HeldAsAsked, AsAsked
  <2>4. \A d \in handled[x] : d \in DOMAIN batch[x] /\ (d \notin raced => cluster[d] = Wanted(d))
    BY <2>1 DEF HandledIsIndexed, AsAsked
  <2> QED BY <2>1, <2>2, <2>3, <2>4, DrainFrame DEF Line
<1>8. CASE Index(x) \/ RemoveGone(x)
  <2>1. \A d \in Rebuilt(x) \ raced : read[x][d] = table[d]
    BY <1>8 DEF Index, RemoveGone, ReadIsCurrent, AsAsked
  <2>2. PICK ds \in SUBSET Rebuilt(x), to \in [Docs -> Versions] :
          Bulk(x, ds, to) /\ \A d \in ds \ raced : to[d] = table[d]
    <3>1. CASE Index(x)
      <4>1. Bulk(x, {d \in Rebuilt(x) : read[x][d] # 0}, read[x]) /\ read[x] \in [Docs -> Versions]
        BY <3>1 DEF Index, TypeOK
      <4> QED BY <2>1, <4>1
    <3>2. CASE RemoveGone(x)
      <4> DEFINE zero == [d \in Docs |-> 0]
      <4> DEFINE gone == {d \in Rebuilt(x) : read[x][d] = 0}
      <4>1. Bulk(x, gone, zero) /\ zero \in [Docs -> Versions]
        BY <3>2, Bounds DEF RemoveGone
      <4>2. \A d \in gone \ raced : zero[d] = table[d]
        BY <2>1, MovingType
      <4>3. gone \in SUBSET Rebuilt(x)
        OBVIOUS
      <4> HIDE DEF zero, gone
      <4> QED BY <4>1, <4>2, <4>3
    <3> QED BY <1>8, <3>1, <3>2
  <2>3. /\ pc[x] \in {"index", "remove"} /\ pc'[x] \in {"remove", "settle"}
        /\ UNCHANGED <<batch, read, line>> /\ \A y \in Drains \ {x} : pc'[y] = pc[y]
    BY <1>8 DEF Index, RemoveGone, Goto, TypeOK
  <2>4. \A d \in ds \ raced : to[d] = Wanted(d)
    BY <1>1, <2>2, <2>3
  <2>5. \A d \in Docs \ raced : Holds(x, d)' => batch'[x][d].op = asked[d]
    BY <2>3 DEF Holds, HeldAsAsked, AsAsked
  <2>6. Rebuilt(x)' = Rebuilt(x)
    BY <2>3 DEF Rebuilt, Moving, Group
  <2> QED BY <1>2, <2>1, <2>2, <2>3, <2>4, <2>5, <2>6, BulkAsAsked, DrainFrame DEF Line
<1>9. CASE Settle(x)
  <2>1. /\ others /\ pc[x] = "settle" /\ pc'[x] = "fail" /\ UNCHANGED <<batch, cluster, handled>>
        /\ Line \ Line' \subseteq handled[x]
    <3>1. Line \ Line' \subseteq handled[x]
      BY <1>9 DEF Settle, Line, Restrict
    <3> QED BY <1>9, <3>1 DEF Settle, Goto, TypeOK
  <2>2. \A d \in Docs \ raced : Holds(x, d)' => batch'[x][d].op = asked[d]
    BY <2>1 DEF Holds, HeldAsAsked, AsAsked
  <2>3. \A d \in handled[x] : d \notin raced => cluster[d] = Wanted(d)
    BY <2>1 DEF HandledIsIndexed, AsAsked
  <2> QED BY <2>1, <2>2, <2>3, DrainFrame
<1>10. CASE EndPass(x)
  <2>1. CASE Ends(x)
    BY <1>3, <1>10, <2>1 DEF EndPass
  <2>2. CASE Goto(x, "idle") /\ UNCHANGED <<batch, read, handled>>
    <3>1. /\ others /\ pc[x] = "group" /\ pc'[x] = "idle" /\ batch[x] = Nothing
          /\ handled[x] = {} /\ UNCHANGED <<batch, read, handled, cluster, line>>
      BY <1>10, <2>2 DEF EndPass, Goto, TypeOK, HandledIsIndexed, AsAsked
    <3>2. \A d \in Docs : ~Holds(x, d)'
      BY <3>1, BatchType DEF Holds
    <3> QED BY <3>1, <3>2, DrainFrame DEF Line
  <2> QED BY <1>10, <2>1, <2>2 DEF EndPass
<1>11. CASE Aborts(x)
  BY <1>3, <1>11 DEF Aborts
<1> QED BY <1>4, <1>5, <1>6, <1>7, <1>8, <1>9, <1>10, <1>11 DEF Drain

\* The invariant is inductive.
LEMMA NextAsAsked == IInv /\ [Next]_vars => IInv'
<1>1. ASSUME IInv, UNCHANGED vars PROVE AsAsked'
  <2>1. /\ UNCHANGED <<line, cluster, pc, batch, read, handled, table, asked, raced>>
        /\ AsAsked
    BY <1>1 DEF vars, tables, drains, IInv
  <2>2. /\ Line' = Line /\ \A d \in Docs : Wanted(d)' = Wanted(d)
        /\ \A x \in Drains : /\ \A d \in Docs : Holds(x, d)' <=> Holds(x, d)
                             /\ Rebuilt(x)' = Rebuilt(x)
    BY <2>1 DEF Line, Wanted, Holds, Rebuilt, Moving, Group
  <2>3. \A x \in Drains : \A d \in handled[x] : d \in Docs
    BY <1>1 DEF IInv, TypeOK
  <2>4. LineAsAsked' /\ HeldAsAsked' /\ ReadIsCurrent'
    BY <2>1, <2>2 DEF AsAsked, LineAsAsked, HeldAsAsked, ReadIsCurrent
  <2>5. HandledIsIndexed' /\ OnlyARaceLosesAChange'
    BY <2>1, <2>2, <2>3 DEF AsAsked, HandledIsIndexed, OnlyARaceLosesAChange
  <2> QED BY <2>4, <2>5 DEF AsAsked
<1>2. ASSUME IInv, Next PROVE AsAsked'
  BY <1>2, ProjectAsAsked, DrainAsAsked DEF Next
<1> QED BY <1>1, <1>2, NextType DEF IInv

\* The invariant of the drains holds in every reachable state.
THEOREM HeldAsWanted == Spec => []IInv
<1>1. Init => IInv
  BY InitType, InitAsAsked DEF IInv
<1> QED BY <1>1, NextAsAsked, PTL DEF Spec

\* Whatever the drains, the refusals and the failures, a document that is out of the line
\* and is not in the cluster as it should be was asked for while a drain held its row
\* (drain.ts, outbox.ts: settle removes a row by its key alone).
THEOREM LostOnlyByARace == Spec => []OnlyARaceLosesAChange
<1>1. IInv => OnlyARaceLosesAChange
  BY DEF IInv, AsAsked
<1> QED BY <1>1, HeldAsWanted, PTL
=============================================================================
